---------------------------- MODULE MCShareSync ----------------------------
(***************************************************************************)
(* Starting points for runs with two daemons that skip the way there.      *)
(* Each is a state Spec reaches from Init: every daemon added the share,   *)
(* its first activation is over and nothing is in flight.                  *)
(***************************************************************************)
EXTENDS ShareSync

\* The state of the daemons once every p has published content v[p] under its
\* first seq; v[p] = NoHash: p waits in an empty directory.
SettledInit(v) ==
    /\ row = [p \in Peers |-> TRUE]
    /\ strat \in [Peers -> Strategies]
    /\ state = [p \in Peers |-> IF v[p] = NoHash THEN "syncing" ELSE "seeding"]
    /\ ih = v
    /\ seq = [p \in Peers |-> IF v[p] = NoHash THEN 0 ELSE 1]
    /\ nver = Cardinality({v[p] : p \in Peers} \ {NoHash})
    /\ birth = [x \in Version |-> IF x <= nver THEN 2 ELSE 0]
    /\ conflicts = [p \in Peers |-> {}]
    /\ known = [p \in Peers |-> {}]
    /\ disk = v
    /\ partial = {}
    /\ tfile = v
    /\ handle = [p \in Peers |->
           IF v[p] = NoHash THEN NoHandle
           ELSE [ih |-> v[p], st |-> "complete", alert |-> FALSE]]
    /\ watched = [p \in Peers |-> TRUE]
    /\ switching = [p \in Peers |-> FALSE]
    /\ task = [p \in Peers |-> [k \in Slots |-> IdleTask]]
    /\ fsq = [p \in Peers |-> FALSE]
    /\ fsstat = [p \in Peers |-> FALSE]
    /\ rebuilt = [p \in Peers |-> FALSE]
    /\ deferred = [p \in Peers |-> FALSE]
    /\ status = [p \in Peers |-> NoHash]
    /\ indexing = [p \in Peers |-> FALSE]
    /\ watch = [p \in Peers |-> IF LocalOnly THEN "none" ELSE "live"]
    /\ ann = [p \in Peers \cup Outsiders |-> NoHash]
    /\ net = [p \in Peers \cup Outsiders |-> {}]
    /\ ops = 0

\* Every peer seeds the same content.
SyncedSpec ==
    SettledInit([p \in Peers |-> 1]) /\ [][Next]_vars /\ Fairness

\* As SyncedSpec, with a single edit and no other operation: further versions are
\* directories that a download leaves half done.
EditedOnceNext ==
    \E p \in Peers : \/ \E k \in Slots : TaskStep(p, k)
                     \/ LoopStep(p)
                     \/ Receive(p)
                     \/ Transfer(p)
                     \/ nver = 1 /\ UserEdit(p)

EditedOnceSpec ==
    /\ SettledInit([p \in Peers |-> 1])
    /\ [][EditedOnceNext]_vars
    /\ Fairness

\* Two users added files before their daemons met: equal seq, different hash.
DivergedSpec ==
    /\ \E v \in [Peers -> Version] :
           /\ \A p, q \in Peers : v[p] = v[q] => p = q
           /\ \A p \in Peers : v[p] <= Cardinality(Peers)
           /\ SettledInit(v)
    /\ [][Next]_vars /\ Fairness

====
