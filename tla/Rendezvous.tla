----------------------------- MODULE Rendezvous -----------------------------
(***************************************************************************)
(* What a relay promises, without handlers, locks, frames and timers: a    *)
(* session is new, then offered to the others, then taken, and never goes  *)
(* back.  A tunnel joins a new session to an offered one of the same share *)
(* that it asked for.                                                      *)
(***************************************************************************)
CONSTANTS Sessions, Shares, Peers

VARIABLES
    ask,      \* share and peer of a session, and the peer it wants
    state,    \* "new", "offered" or "taken"
    tunnels   \* pairs of sessions that are joined now

vars == <<ask, state, tunnels>>

Init ==
    /\ ask \in [Sessions -> [share : Shares, peer : Peers, want : Peers]]
    /\ state = [c \in Sessions |-> "new"]
    /\ tunnels = {}

AskedFor(c, s) == ask[c].share = ask[s].share /\ ask[c].want = ask[s].peer
SamePeer(c, s) == ask[c].share = ask[s].share /\ ask[c].peer = ask[s].peer

\* A session waits to be asked for.  An older one of the same peer gives way.
Offer(c) ==
    /\ state[c] = "new"
    /\ \/ state' = [state EXCEPT ![c] = "offered"]
       \/ \E d \in Sessions :
             /\ state[d] = "offered" /\ SamePeer(c, d)
             /\ state' = [state EXCEPT ![c] = "offered", ![d] = "taken"]
    /\ UNCHANGED <<ask, tunnels>>

\* A session is turned away, or nobody asked for it in time.
Drop(c) ==
    /\ state[c] \in {"new", "offered"}
    /\ state' = [state EXCEPT ![c] = "taken"]
    /\ UNCHANGED <<ask, tunnels>>

\* Two sessions meet.  There is no tunnel if one of them is already lost.
Join(c, s) ==
    /\ state[c] = "new" /\ state[s] = "offered" /\ AskedFor(c, s)
    /\ state' = [state EXCEPT ![c] = "taken", ![s] = "taken"]
    /\ tunnels' \in {tunnels, tunnels \cup {<<c, s>>}}
    /\ UNCHANGED ask

End(t) ==
    /\ t \in tunnels /\ tunnels' = tunnels \ {t}
    /\ UNCHANGED <<ask, state>>

Next ==
    \/ \E c \in Sessions : Offer(c) \/ Drop(c)
    \/ \E c, s \in Sessions : Join(c, s)
    \/ \E t \in tunnels : End(t)

Spec == Init /\ [][Next]_vars

====
