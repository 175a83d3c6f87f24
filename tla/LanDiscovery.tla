--------------------------- MODULE LanDiscovery ---------------------------
(***************************************************************************)
(* LAN discovery: the announcement packet, byte by byte, and the daemons   *)
(* that send and read it over a network that loses, repeats, reorders and  *)
(* damages datagrams.  Field widths, the byte and the datagram size are    *)
(* parameters, so that every boundary of the format is reached with a few  *)
(* values.  Signatures are ideal: a signature is good for the key and the  *)
(* bytes it was made of, and nothing else.                                 *)
(***************************************************************************)
EXTENDS Integers, Sequences, FiniteSets, SequencesExt

CONSTANTS
    Base,         \* values of a byte
    IdLen, HashLen, SeqLen, ShortLen,    \* bytes per field; Short: uint16
    NameMax,      \* bytes of the name that are sent
    MaxDatagram,  \* bytes of the largest datagram the socket takes
    Daemons,      \* peer ids of daemons of this release
    Elders,       \* peer ids of older releases, which send versions 1 to 3
    Shares,       \* share ids
    Hashes,       \* info-hashes, as bytes
    NameOf,       \* the configured name of every peer, as bytes
    MaxLag,       \* bound: datagrams under way
    MaxOps        \* bound: edits, pauses and damaged datagrams

VERSION == 4
NoHash  == <<>>
Lead    == Base - 1        \* the byte that opens a two-byte character
Port    == 1               \* the listen port, the same everywhere
Zeros(w) == [i \in 1..w |-> 0]
Peers   == Daemons \cup Elders

\* The seq the wire cannot carry any more: local counters may reach it.
SeqLimit == Base ^ SeqLen

Entry == [ih : Hashes \cup {NoHash}, seq : 0..SeqLimit]

VARIABLES
    row,     \* of every peer and share: info_hash and seq
    active,  \* shares a peer has that are not paused
    past,    \* history: every <<peer, share, entry>> that was ever true
    air,     \* datagrams under way
    seen,    \* of every daemon: the last call of on_peer_seen
    ops

vars == <<row, active, past, air, seen, ops>>

-----------------------------------------------------------------------------
(* pack_packet *)

\* What is left of n when its last i bytes are taken off, for i up to w.
Left(w, n) ==
    LET left[i \in 0..w] == IF i = 0 THEN n ELSE left[i - 1] \div Base
    IN  left

\* w bytes can hold n.
Fits(w, n) == Left(w, n)[w] = 0

\* struct.pack of an unsigned integer in w bytes, big-endian.
Digits(w, n) == [i \in 1..w |-> Left(w, n)[w - i] % Base]

\* struct.unpack_from of the bytes.
Value(bytes) ==
    LET upTo[i \in 0..Len(bytes)] ==
            IF i = 0 THEN 0 ELSE upTo[i - 1] * Base + bytes[i]
    IN  upTo[Len(bytes)]

\* Mutant of Packable: struct.pack would cut a large number down to size.
PackableAlways(entries) == TRUE

\* struct.pack raises on a count or a seq that does not fit its field.
Packable(entries) ==
    /\ Fits(ShortLen, Len(entries))
    /\ \A i \in 1..Len(entries) : Fits(SeqLen, entries[i].seq)

PackEntry(version, e) ==
    Digits(IdLen, e.share)
        \o (IF version < 3 THEN <<>>
            ELSE IF e.ih = NoHash THEN Zeros(HashLen) ELSE e.ih)
        \o (IF version < 4 THEN <<>> ELSE Digits(SeqLen, e.seq))

PackEntries(version, entries) ==
    LET upTo[i \in 0..Len(entries)] ==
            IF i = 0 THEN <<>> ELSE upTo[i - 1] \o PackEntry(version, entries[i])
    IN  upTo[Len(entries)]

\* The length field and the name, cut to NameMax bytes.
PackName(name) ==
    LET cut == SubSeq(name, 1, IF Len(name) < NameMax THEN Len(name) ELSE NameMax)
    IN  Digits(ShortLen, Len(cut)) \o cut

\* Mutant of PackBody: the length field counts the name before it is cut.
PackBodyUncut(version, peer, entries) ==
    <<version>> \o Digits(IdLen, peer)
        \o Digits(ShortLen, Port) \o Digits(ShortLen, Len(entries))
        \o PackEntries(version, entries)
        \o Digits(ShortLen, Len(NameOf[peer])) \o Tail(PackName(NameOf[peer]))

\* Everything before the signature.
PackBody(version, peer, entries) ==
    <<version>> \o Digits(IdLen, peer)
        \o Digits(ShortLen, Port) \o Digits(ShortLen, Len(entries))
        \o PackEntries(version, entries)
        \o (IF version < 2 THEN <<>> ELSE PackName(NameOf[peer]))

Signed(peer, body) ==
    [bytes |-> body, key |-> Digits(IdLen, peer), over |-> body]

-----------------------------------------------------------------------------
(* unpack_packet *)

\* The name of a packet; bytes that are not UTF-8 give the empty one.
DecodeName(bytes) ==
    IF bytes # <<>> /\ bytes[Len(bytes)] = Lead THEN <<>> ELSE bytes

UnpackHash(bytes) == IF bytes = Zeros(HashLen) THEN NoHash ELSE bytes

\* The set with the decoded packet, or the empty set where the code returns
\* None: unknown version, a field that runs past the end, bytes left over, or
\* a signature that does not verify.
Unpack(g) ==
    LET b       == g.bytes
        fixed   == 1 + IdLen + 2 * ShortLen
        version == b[1]
        peer    == SubSeq(b, 2, 1 + IdLen)
        count   == Value(SubSeq(b, 2 + IdLen + ShortLen, fixed))
        stride  == IdLen + (IF version >= 3 THEN HashLen ELSE 0)
                         + (IF version >= 4 THEN SeqLen ELSE 0)
        named   == fixed + count * stride
        first   == named + ShortLen
        nameLen == Value(SubSeq(b, named + 1, first))
        end     == IF version >= 2 THEN first + nameLen ELSE named
        entry(i) ==
            LET at == fixed + (i - 1) * stride
            IN  [share |-> Value(SubSeq(b, at + 1, at + IdLen)),
                 ih |-> IF version < 3 THEN NoHash
                        ELSE UnpackHash(SubSeq(b, at + IdLen + 1,
                                               at + IdLen + HashLen)),
                 seq |-> IF version < 4 THEN 0
                         ELSE Value(SubSeq(b, at + stride - SeqLen + 1,
                                           at + stride))]
    IN  IF /\ Len(b) >= fixed
           /\ version \in 1..4
           /\ named <= Len(b)
           /\ version >= 2 => first <= Len(b)
           /\ end = Len(b)
           /\ g.key = peer /\ g.over = b
        THEN {[peer |-> Value(peer),
               shares |-> {entry(i) : i \in 1..count},
               name |-> IF version < 2 THEN <<>>
                        ELSE DecodeName(SubSeq(b, first + 1, end))]}
        ELSE {}

-----------------------------------------------------------------------------
(* Daemons and the network *)

\* The fields hold every version, identifier and name length; a hash is never
\* all zeros, and a configured name is UTF-8.
ASSUME FormatAssumption ==
    /\ Base \in Nat /\ Base > VERSION
    /\ {IdLen, HashLen, SeqLen, ShortLen} \subseteq Nat
    /\ SeqLimit \in Nat /\ SeqLimit >= 2
    /\ \A n \in Shares \cup Peers : n \in Nat /\ Fits(IdLen, n)
    /\ IsFiniteSet(Shares)
    /\ Daemons \cap Elders = {}
    /\ \A h \in Hashes : h \in Seq(Nat) /\ Len(h) = HashLen /\ h # Zeros(HashLen)
    /\ NameMax \in Nat \ {0} /\ \A n \in 0..NameMax : Fits(ShortLen, n)
    /\ \A p \in Peers : NameOf[p] \in Seq(Nat) /\ DecodeName(NameOf[p]) = NameOf[p]

NoReport == [peer |-> 0, shares |-> {}, name |-> <<>>]

\* Shares are new, or about to reach the largest seq.
Init ==
    /\ \E n \in {0, SeqLimit - 2} :
          row = [p \in Peers |-> [s \in Shares |-> [ih |-> NoHash, seq |-> n]]]
    /\ active = [p \in Peers |-> Shares]
    /\ past = {<<p, s, row[p][s]>> : p \in Peers, s \in Shares}
    /\ air = {}
    /\ seen = [d \in Daemons |-> NoReport]
    /\ ops = 0

Op == ops < MaxOps /\ ops' = ops + 1

\* A datagram is sent; older ones may get lost or stay under way.
Send(g) == \E old \in SUBSET air : /\ Cardinality(old) < MaxLag
                                   /\ air' = old \cup {g}

\* _get_active_share_ids
Entries(p) ==
    LET ids == SetToSeq(active[p])
    IN  [i \in 1..Len(ids) |-> [share |-> ids[i], ih |-> row[p][ids[i]].ih,
                                seq |-> row[p][ids[i]].seq]]

\* One round of _announce_loop.  A packet that cannot be packed or sent is
\* logged, and the loop goes on.
Announce(d) ==
    LET entries == Entries(d)
        body    == PackBody(VERSION, d, entries)
    IN  /\ entries # <<>> /\ Packable(entries) /\ Len(body) <= MaxDatagram
        /\ Send(Signed(d, body))
        /\ UNCHANGED <<row, active, past, seen, ops>>

\* A daemon of an older release announces.
AnnounceOld(p) ==
    \E version \in 1..3 :
        /\ Entries(p) # <<>> /\ Fits(ShortLen, Len(Entries(p)))
        /\ Send(Signed(p, PackBody(version, p, Entries(p))))
        /\ UNCHANGED <<row, active, past, seen, ops>>

\* _on_datagram: what decodes and is not our own is reported.
OnDatagram(d, g) ==
    /\ \E r \in Unpack(g) : /\ r.peer # d
                            /\ seen' = [seen EXCEPT ![d] = r]
    /\ UNCHANGED <<row, active, past, air, ops>>

\* A datagram is cut short, or one of its bytes changes.
Damage(g) ==
    /\ Op
    /\ \/ \E n \in 0..(Len(g.bytes) - 1) :
             air' = (air \ {g}) \cup {[g EXCEPT !.bytes = SubSeq(@, 1, n)]}
       \/ \E i \in 1..Len(g.bytes) : \E v \in {0, 1, Lead} :
             air' = (air \ {g}) \cup {[g EXCEPT !.bytes[i] = v]}
    /\ UNCHANGED <<row, active, past, seen>>

\* A share changes on a peer: new info-hash, next seq.
Change(p, s) ==
    /\ Op /\ row[p][s].seq < SeqLimit
    /\ \E h \in Hashes : row' = [row EXCEPT ![p][s] = [ih |-> h, seq |-> @.seq + 1]]
    /\ past' = past \cup {<<p, s, row'[p][s]>>}
    /\ UNCHANGED <<active, air, seen>>

PauseOrResume(p, s) ==
    /\ Op
    /\ active' = [active EXCEPT ![p] = IF s \in @ THEN @ \ {s} ELSE @ \cup {s}]
    /\ UNCHANGED <<row, past, air, seen>>

Next ==
    \/ \E d \in Daemons : Announce(d) \/ \E g \in air : OnDatagram(d, g)
    \/ \E p \in Elders : AnnounceOld(p)
    \/ \E g \in air : Damage(g)
    \/ \E p \in Peers, s \in Shares : Change(p, s) \/ PauseOrResume(p, s)

Spec == Init /\ [][Next]_vars

-----------------------------------------------------------------------------
(* Properties *)

\* Whatever the network does, a daemon only reports another peer, and of it
\* only info-hashes and seqs that peer really had; an older packet says less.
ReportsTrue ==
    \A d \in Daemons : \A e \in seen[d].shares :
        LET p == seen[d].peer
        IN  p # d /\ \E t \in past :
                /\ t[1] = p /\ t[2] = e.share
                /\ e.ih \in {NoHash, t[3].ih}
                /\ p \in Daemons => t[3] = [ih |-> e.ih, seq |-> e.seq]

\* Every packet a daemon can pack decodes to the shares, hashes and seqs it was
\* made of, at every boundary of the fields, and to the name unless the cut
\* fell inside a character.
RoundTrip ==
    \A d \in Daemons : Packable(Entries(d)) =>
        LET cut == SubSeq(NameOf[d], 1, NameMax)
        IN  Unpack(Signed(d, PackBody(VERSION, d, Entries(d)))) =
                {[peer |-> d, shares |-> ToSet(Entries(d)),
                  name |-> IF Len(NameOf[d]) <= NameMax THEN NameOf[d]
                           ELSE IF cut[NameMax] = Lead THEN <<>> ELSE cut]}

\* "Return (share_id, info_hash, seq) triples for all non-paused local shares":
\* an active share the format can carry is announced, whatever the others are.
EachShareAnnounced ==
    \A d \in Daemons : (\E s \in active[d] : row[d][s].seq < SeqLimit)
        => /\ Packable(Entries(d))
           /\ Len(PackBody(VERSION, d, Entries(d))) <= MaxDatagram

====
