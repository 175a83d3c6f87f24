-------------------------- MODULE MCLanDiscovery --------------------------
(* Widths and values for LanDiscovery that a cfg cannot write down. *)
EXTENDS LanDiscovery

\* Hashes of one byte.
MCHashes == {<<2>>, <<3>>}

\* Peer 2's name is longer than NameMax and cut inside its second character.
MCNameOf == [p \in Peers |-> IF p = 2 THEN <<1, Lead, 1>> ELSE <<1>>]

====
