SPECIFICATION Spec
CONSTANTS
    Base = 5
    IdLen = 1
    HashLen = 1
    SeqLen = 1
    ShortLen = 1
    NameMax = 2
    MaxDatagram = 40
    Daemons = {1, 2}
    Elders = {3}
    Shares = {1, 2}
    Hashes <- MCHashes
    NameOf <- MCNameOf
    MaxLag = 1
    MaxOps = 2
INVARIANT EachShareAnnounced
CHECK_DEADLOCK FALSE
