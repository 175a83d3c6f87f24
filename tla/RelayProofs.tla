---------------------------- MODULE RelayProofs ----------------------------
(***************************************************************************)
(* Proofs about the relay server for any number of connections, shares and *)
(* peers and any capacity.                                                 *)
(***************************************************************************)
EXTENDS Relay, FiniteSetTheorems, TLAPS

USE DEF Goto, Close, Tell, Free, connVars

\* The initial states satisfy the inductive invariant.
LEMMA TunnelInit == Init => TunnelInv
  BY RelayAssumption
     DEF Init, TunnelInv, TypeOK, ListedOnce, Untouched, ServedByOne

\* Every step of every handler, client and connection preserves it.
LEMMA TunnelStep == TunnelInv /\ [Next]_vars => TunnelInv'
<1> SUFFICES ASSUME TunnelInv, [Next]_vars PROVE TunnelInv'
    OBVIOUS
<1> USE RelayAssumption DEF TunnelInv, TypeOK, ListedOnce, Untouched, ServedByOne
<1>0. CASE UNCHANGED vars
  BY <1>0 DEF vars
<1> SUFFICES ASSUME NEW c \in Conns,
                    \/ Connect(c) \/ ClientCloses(c) \/ ConnectionLost(c)
                    \/ HandlerStep(c)
             PROVE  TunnelInv'
  BY <1>0 DEF Next
<1>1. CASE Connect(c)
  BY <1>1 DEF Connect
<1>2. CASE ClientCloses(c)
  BY <1>2 DEF ClientCloses
<1>3. CASE ConnectionLost(c)
  BY <1>3 DEF ConnectionLost
<1>4. CASE HelloRejected(c)
  BY <1>4 DEF HelloRejected
<1>5. CASE Pair(c)
  <2> DEFINE w == WantKeyOf(hello[c])
             s == waiting[w]
  <2>1. /\ w \in Key /\ s \in Conns
        /\ pc[c] = "hello"
        /\ waiting' = [waiting EXCEPT ![w] = NoConn]
        /\ event' = [event EXCEPT ![s] = TRUE]
        /\ hello' = hello
    BY <1>5 DEF Pair, WantKeyOf, Key, Hello
  <2>2. /\ pc' = [pc EXCEPT ![c] = pc'[c]]
        /\ pc'[c] \in {"done", "piping"}
        /\ \/ partner' = partner
           \/ partner' = [partner EXCEPT ![c] = s]
    BY <1>5 DEF Pair
  <2>3. /\ ~event[s] /\ partner[s] = NoConn /\ s # c
        /\ \A k \in Key : waiting[k] = s => k = w
    BY <2>1
  <2>4. TypeOK'
    BY <1>5, <2>1 DEF Pair
  <2>5. ListedOnce'
    BY <2>1, <2>2, <2>3
  <2>6. Untouched'
    BY <2>1, <2>2, <2>3
  <2>7. ServedByOne'
    BY <2>1, <2>2, <2>3
  <2> QED
    BY <2>4, <2>5, <2>6, <2>7
<1>6. CASE AtCapacity(c)
  BY <1>6 DEF AtCapacity
<1>7. CASE Register(c)
  <2>1. KeyOf(hello[c]) \in Key
    BY DEF KeyOf, Key, Hello
  <2>2. \A k \in Key : waiting[k] # c
    BY <1>7 DEF Register
  <2> QED
    BY <1>7, <2>1, <2>2 DEF Register
<1>8. CASE SendRaises(c)
  BY <1>8 DEF SendRaises
<1>9. CASE WaiterWakes(c)
  BY <1>9 DEF WaiterWakes
<1>10. CASE WaitTimesOut(c)
  BY <1>10 DEF WaitTimesOut
<1>11. CASE TimeoutCleanup(c)
  <2>1. KeyOf(hello[c]) \in Key
    BY DEF KeyOf, Key, Hello
  <2> QED
    BY <1>11, <2>1 DEF TimeoutCleanup
<1>12. CASE PipesEnd(c)
  <2>1. /\ pc' = [pc EXCEPT ![c] = "done"]
        /\ writer' \in [Conns -> {"open", "closed"}]
        /\ UNCHANGED <<hello, link, told, waiting, event, lock, partner>>
    BY <1>12 DEF PipesEnd
  <2> QED
    BY <2>1
<1> QED
  BY <1>1, <1>2, <1>3, <1>4, <1>5, <1>6, <1>7, <1>8, <1>9, <1>10, <1>11, <1>12
     DEF HandlerStep

\* Type correctness of the relay server.
THEOREM TypeCorrect == Spec => []TypeOK
  BY TunnelInit, TunnelStep, PTL DEF Spec, TunnelInv

\* Pairing is exclusive: whatever times out, breaks or connects again in
\* between, a session never takes part in two tunnels and a session of a
\* tunnel is never offered to a third connection.
THEOREM TunnelsExclusive == Spec => []OneTunnelPerSession
<1>1. TunnelInv => OneTunnelPerSession
  BY RelayAssumption DEF TunnelInv, TypeOK, ListedOnce, Untouched, ServedByOne,
                         OneTunnelPerSession
<1> QED
  BY <1>1, TunnelInit, TunnelStep, PTL DEF Spec

-----------------------------------------------------------------------------
(* Refinement of Rendezvous *)

\* The abstract state of the sessions, as one function.
States == [c \in Conns |-> StateOf(c)]

\* What the abstract state depends on.
LEMMA SameAbstract ==
    ASSUME UNCHANGED <<hello, waiting, partner>>,
           \A c \in Conns : /\ pc'[c] = "piping" <=> pc[c] = "piping"
                            /\ pc'[c] \in {"idle", "hello"} <=> pc[c] \in {"idle", "hello"}
    PROVE  UNCHANGED <<hello, States, Tunnels>>
  BY DEF States, StateOf, Tunnels

\* A handler that leaves "hello" and is not listed is taken.
LEMMA LeavesHello ==
    ASSUME TunnelInv, NEW c \in Conns, pc[c] = "hello",
           pc' = [pc EXCEPT ![c] = "done"],
           UNCHANGED <<hello, waiting, partner>>
    PROVE  R!Drop(c)
<1>1. States' = [States EXCEPT ![c] = "taken"]
  <2>1. \A k \in Key : waiting[k] # c
    BY RelayAssumption DEF TunnelInv, TypeOK, ListedOnce
  <2> QED
    BY <2>1 DEF TunnelInv, TypeOK, States, StateOf
<1>2. States[c] = "new"
  BY DEF States, StateOf
<1>3. Tunnels' = Tunnels
  BY DEF Tunnels, TunnelInv, TypeOK
<1> QED
  BY <1>1, <1>2, <1>3 DEF R!Drop, States

\* The initial states are initial states of the rendezvous.
LEMMA RendezvousInit == Init => R!Init
  BY DEF Init, R!Init, Hello, StateOf, Tunnels

\* Every step of the relay is a step of the rendezvous or leaves it alone.
LEMMA RendezvousStep == TunnelInv /\ [Next]_vars => [R!Next]_(R!vars)
<1> SUFFICES ASSUME TunnelInv, [Next]_vars PROVE [R!Next]_(R!vars)
    OBVIOUS
<1> SUFFICES \/ R!Next \/ UNCHANGED <<hello, States, Tunnels>>
  BY DEF R!vars, States
<1> USE RelayAssumption DEF TunnelInv, TypeOK
<1>0. CASE UNCHANGED vars
  BY <1>0, SameAbstract DEF vars
<1> SUFFICES ASSUME NEW c \in Conns,
                    \/ Connect(c) \/ ClientCloses(c) \/ ConnectionLost(c)
                    \/ HandlerStep(c)
             PROVE  R!Next \/ UNCHANGED <<hello, States, Tunnels>>
  BY <1>0 DEF Next
<1>1. CASE Connect(c)
  BY <1>1, SameAbstract DEF Connect
<1>2. CASE ClientCloses(c) \/ ConnectionLost(c)
  BY <1>2, SameAbstract DEF ClientCloses, ConnectionLost
<1>3. CASE HelloRejected(c) \/ AtCapacity(c)
  <2>1. /\ pc[c] = "hello" /\ pc' = [pc EXCEPT ![c] = "done"]
        /\ UNCHANGED <<hello, waiting, partner>>
    BY <1>3 DEF HelloRejected, AtCapacity
  <2> QED
    BY <2>1, LeavesHello DEF R!Next
<1>4. CASE Pair(c)
  <2> DEFINE w == WantKeyOf(hello[c])
             s == waiting[w]
  <2>1. /\ w \in Key /\ s \in Conns /\ pc[c] = "hello" /\ hello' = hello
        /\ waiting' = [waiting EXCEPT ![w] = NoConn]
    BY <1>4 DEF Pair, WantKeyOf, Key, Hello
  <2>2. /\ s # c /\ w = KeyOf(hello[s]) /\ pc[s] \notin {"idle", "hello"}
        /\ \A k \in Key : waiting[k] = s => k = w
        /\ \A k \in Key : waiting[k] # c
    BY <2>1 DEF ListedOnce
  <2>3. R!AskedFor(c, s)
    BY <2>1, <2>2 DEF R!AskedFor, WantKeyOf, KeyOf
  <2>4. /\ pc' = [pc EXCEPT ![c] = pc'[c]] /\ pc'[c] \in {"done", "piping"}
        /\ \/ pc'[c] = "done" /\ partner' = partner
           \/ pc'[c] = "piping" /\ partner' = [partner EXCEPT ![c] = s]
    BY <1>4 DEF Pair
  <2>5. States[c] = "new" /\ States[s] = "offered"
    BY <2>1, <2>2 DEF States, StateOf
  <2>6. States' = [States EXCEPT ![c] = "taken", ![s] = "taken"]
    BY <2>1, <2>2, <2>4 DEF States, StateOf
  <2>7. Tunnels' \in {Tunnels, Tunnels \cup {<<c, s>>}}
    <3>1. CASE pc'[c] = "done" /\ partner' = partner
      BY <2>1, <2>4, <3>1 DEF Tunnels
    <3>2. CASE pc'[c] = "piping" /\ partner' = [partner EXCEPT ![c] = s]
      <4>1. {d \in Conns : pc'[d] = "piping"} = {d \in Conns : pc[d] = "piping"} \cup {c}
        BY <2>1, <2>4, <3>2
      <4>2. \A d \in {e \in Conns : pc[e] = "piping"} : partner'[d] = partner[d]
        BY <2>1, <3>2
      <4> QED
        BY <3>2, <4>1, <4>2 DEF Tunnels
    <3> QED
      BY <2>4, <3>1, <3>2
  <2> QED
    BY <2>1, <2>3, <2>5, <2>6, <2>7 DEF R!Next, R!Join, States
<1>5. CASE Register(c)
  <2> DEFINE k == KeyOf(hello[c])
             d == waiting[k]
  <2>1. /\ k \in Key /\ pc[c] = "hello" /\ hello' = hello
        /\ waiting' = [waiting EXCEPT ![k] = c]
        /\ pc' = [pc EXCEPT ![c] = pc'[c]] /\ pc'[c] \in {"sending", "waiting"}
        /\ partner' = partner
    BY <1>5 DEF Register, KeyOf, Key, Hello
  <2>2. States[c] = "new" /\ Tunnels' = Tunnels
    BY <2>1 DEF States, StateOf, Tunnels
  <2>3. CASE d = NoConn
    <3>1. States' = [States EXCEPT ![c] = "offered"]
      <4>1. \A e \in Conns \ {c} : \A j \in Key : waiting'[j] = e <=> waiting[j] = e
        BY <2>1, <2>3
      <4>2. \E j \in Key : waiting'[j] = c
        BY <2>1
      <4>3. \A e \in Conns \ {c} : StateOf(e)' = StateOf(e)
        BY <2>1, <4>1 DEF StateOf
      <4>4. StateOf(c)' = "offered"
        BY <2>1, <4>2 DEF StateOf
      <4> QED
        BY <4>3, <4>4 DEF States
    <3> QED
      BY <2>1, <2>2, <3>1 DEF R!Next, R!Offer, States
  <2>4. CASE d # NoConn
    <3>1. /\ d \in Conns /\ d # c /\ pc[d] \notin {"idle", "hello"}
          /\ k = KeyOf(hello[d])
          /\ \A j \in Key : waiting[j] = d => j = k
      BY <2>1, <2>4 DEF ListedOnce
    <3>2. States[d] = "offered" /\ R!SamePeer(c, d)
      BY <2>1, <3>1 DEF States, StateOf, R!SamePeer, KeyOf
    <3>3. States' = [States EXCEPT ![c] = "offered", ![d] = "taken"]
      BY <2>1, <3>1 DEF States, StateOf
    <3> QED
      BY <2>1, <2>2, <3>1, <3>2, <3>3 DEF R!Next, R!Offer, States
  <2> QED
    BY <2>3, <2>4
<1>6. CASE SendRaises(c) \/ WaiterWakes(c) \/ WaitTimesOut(c)
  BY <1>6, SameAbstract DEF SendRaises, WaiterWakes, WaitTimesOut
<1>7. CASE TimeoutCleanup(c)
  <2> DEFINE k == KeyOf(hello[c])
             d == waiting[k]
  <2>1. /\ k \in Key /\ pc[c] = "expired" /\ hello' = hello
        /\ waiting' = [waiting EXCEPT ![k] = NoConn]
        /\ pc' = [pc EXCEPT ![c] = "done"] /\ partner' = partner
    BY <1>7 DEF TimeoutCleanup, KeyOf, Key, Hello
  <2>2. Tunnels' = Tunnels
    BY <2>1 DEF Tunnels
  <2>3. CASE d = NoConn
    <3>1. waiting' = waiting
      BY <2>1, <2>3
    <3> QED
      BY <2>1, <3>1, SameAbstract
  <2>4. CASE d # NoConn
    <3>1. /\ d \in Conns /\ pc[d] \notin {"idle", "hello"}
          /\ \A j \in Key : waiting[j] = d => j = k
      BY <2>1, <2>4 DEF ListedOnce
    <3>2. States[d] = "offered"
      BY <2>1, <3>1 DEF States, StateOf
    <3>3. States' = [States EXCEPT ![d] = "taken"]
      BY <2>1, <3>1 DEF States, StateOf
    <3> QED
      BY <2>1, <2>2, <3>1, <3>2, <3>3 DEF R!Next, R!Drop, States
  <2> QED
    BY <2>3, <2>4
<1>8. CASE PipesEnd(c)
  <2>1. /\ pc[c] = "piping" /\ pc' = [pc EXCEPT ![c] = "done"]
        /\ UNCHANGED <<hello, waiting, partner>>
    BY <1>8 DEF PipesEnd
  <2>2. States' = States
    BY <2>1 DEF States, StateOf
  <2>3. <<c, partner[c]>> \in Tunnels /\ Tunnels' = Tunnels \ {<<c, partner[c]>>}
    BY <2>1 DEF Tunnels
  <2> QED
    BY <2>1, <2>2, <2>3 DEF R!Next, R!End, States
<1> QED
  BY <1>1, <1>2, <1>3, <1>4, <1>5, <1>6, <1>7, <1>8 DEF HandlerStep

\* The relay server implements the abstract rendezvous, for any number of
\* connections, shares and peers: the safety part of what its handlers, lock,
\* table and timeouts are for.
THEOREM RelayImplementsRendezvous == Spec => ImplementsRendezvous
  BY TunnelInit, TunnelStep, RendezvousInit, RendezvousStep, PTL
     DEF Spec, ImplementsRendezvous, R!Spec

-----------------------------------------------------------------------------
\* The table is finite: its keys are pairs of a share and a peer.
LEMMA WaitersFinite == IsFiniteSet(Waiters) /\ Cardinality(Waiters) \in Nat
<1>1. IsFiniteSet(Key)
  BY RelayAssumption, FS_Product DEF Key
<1> QED
  BY <1>1, FS_Subset, FS_CardinalityType DEF Waiters

\* A step that lists no new key keeps the bound.
LEMMA FewerWaiters ==
    ASSUME WaitingBounded, Waiters' \subseteq Waiters
    PROVE  WaitingBounded'
<1>1. Cardinality(Waiters') <= Cardinality(Waiters)
  BY WaitersFinite, FS_Subset
<1>2. Cardinality(Waiters') \in Nat
  BY WaitersFinite, FS_Subset, FS_CardinalityType
<1> QED
  BY <1>1, <1>2, WaitersFinite, RelayAssumption DEF WaitingBounded

\* _waiting never holds more than max_waiting sessions.
THEOREM CapacityRespected == Spec => []WaitingBounded
<1>1. Init => WaitingBounded
  <2>1. Init => Waiters = {}
    BY DEF Init, Waiters
  <2> QED
    BY <2>1, FS_EmptySet, RelayAssumption DEF WaitingBounded
<1>2. TypeOK /\ WaitingBounded /\ [Next]_vars => WaitingBounded'
  <2> SUFFICES ASSUME TypeOK, WaitingBounded, [Next]_vars PROVE WaitingBounded'
    OBVIOUS
  <2>1. CASE \E c \in Conns : Register(c)
    <3> PICK c \in Conns : Register(c)
      BY <2>1
    <3> DEFINE k == KeyOf(hello[c])
    <3>1. Waiters' \subseteq Waiters \cup {k}
      BY DEF Register, Waiters, TypeOK
    <3>2. Cardinality(Waiters) < MaxWaiting
      BY DEF Register
    <3>3. /\ IsFiniteSet(Waiters \cup {k})
          /\ Cardinality(Waiters \cup {k}) <= Cardinality(Waiters) + 1
      <4>1. /\ IsFiniteSet(Waiters \cup {k})
            /\ Cardinality(Waiters \cup {k}) =
                 IF k \in Waiters THEN Cardinality(Waiters)
                                 ELSE Cardinality(Waiters) + 1
        BY WaitersFinite, FS_AddElement
      <4>2. Cardinality(Waiters) \in Nat
        BY WaitersFinite
      <4> QED
        BY <4>1, <4>2
    <3>4. /\ Cardinality(Waiters') <= Cardinality(Waiters \cup {k})
          /\ Cardinality(Waiters') \in Nat
          /\ Cardinality(Waiters \cup {k}) \in Nat
      BY <3>1, <3>3, FS_Subset, FS_CardinalityType
    <3> QED
      BY <3>2, <3>3, <3>4, WaitersFinite, RelayAssumption DEF WaitingBounded
  <2>2. CASE \E c \in Conns : Pair(c) \/ TimeoutCleanup(c)
    <3>1. Waiters' \subseteq Waiters
      BY <2>2 DEF Pair, TimeoutCleanup, Waiters, TypeOK
    <3> QED
      BY <3>1, FewerWaiters
  <2>3. CASE waiting' = waiting
    BY <2>3, FewerWaiters DEF Waiters
  <2> QED
    BY <2>1, <2>2, <2>3
       DEF Next, HandlerStep, vars, Connect, ClientCloses, ConnectionLost,
           HelloRejected, AtCapacity, SendRaises, WaiterWakes, WaitTimesOut,
           PipesEnd
<1> QED
  BY <1>1, <1>2, TypeCorrect, PTL DEF Spec

====
