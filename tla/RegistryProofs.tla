--------------------------- MODULE RegistryProofs ---------------------------
(***************************************************************************)
(* Proofs about the registry for any set of peers and streams, any TTL     *)
(* limits and any queue sizes.                                             *)
(***************************************************************************)
EXTENDS Registry, FiniteSetTheorems, TLAPS

USE DEF memberVars, loopVars, watchVars, Op

Stream == [pc : {"new", "snapshot", "live", "off"}, todo : SUBSET Peers,
           sub : BOOLEAN, aq : Seq(Event), lq : Seq(Event)]

\* The streams whose handler holds a thread of the pool.
IsOpen(r) == r.pc \in {"snapshot", "live"}
Open == {s \in Streams : IsOpen(stream[s])}

\* TypeOK, but for active, which is only known to be a natural number because
\* no stream is counted out that was not counted in.
Typed ==
    /\ owner \in Peers \cup {NoPeer} /\ members \subseteq Peers
    /\ ann \in [Peers -> Nat]
    /\ call \in [Peers -> {"idle", "checked", "ONLINE", "UPDATED"}]
    /\ removing \subseteq Peers
    /\ ready \in Seq(Callback)
    /\ sweep \in [read : SUBSET Peers, todo : SUBSET Peers]
    /\ blocked \in Streams \cup {NoStream}
    /\ stream \in [Streams -> Stream]
    /\ active \in Int
    /\ view \in [Streams -> [Peers -> BOOLEAN]]
    /\ now \in Nat /\ ops \in 0..MaxOps

\* _active_watches is at least the number of open streams.
OpenCounted == Cardinality(Open) <= active

-----------------------------------------------------------------------------
\* A TTL is granted within the limits of the configuration.
LEMMA ClampTtlType ==
    ASSUME NEW t \in Nat PROVE ClampTtl(t) \in TtlMin..TtlMax
  BY RegistryAssumption DEF ClampTtl

\* Scheduling on the loop keeps the type of its backlog.
LEMMA ScheduleType ==
    ASSUME ready \in Seq(Callback)
    PROVE  /\ \A p \in Peers, t \in EventType :
                 Schedule([type |-> t, peer |-> p]) => ready' \in Seq(Callback)
           /\ \A s \in Streams, t \in {"SUBSCRIBE", "CANCEL"} :
                 Schedule([type |-> t, stream |-> s]) => ready' \in Seq(Callback)
<1>1. ASSUME NEW p \in Peers, NEW t \in EventType,
             Schedule([type |-> t, peer |-> p])
      PROVE  ready' \in Seq(Callback)
  <2>1. [type |-> t, peer |-> p] \in Callback
    BY DEF Callback, Event
  <2> QED
    BY <1>1, <2>1 DEF Schedule
<1>2. ASSUME NEW s \in Streams, NEW t \in {"SUBSCRIBE", "CANCEL"},
             Schedule([type |-> t, stream |-> s])
      PROVE  ready' \in Seq(Callback)
  <2>1. [type |-> t, stream |-> s] \in Callback
    BY DEF Callback
  <2> QED
    BY <1>2, <2>1 DEF Schedule
<1> QED
  BY <1>1, <1>2

\* Publishing changes nothing of a stream but the queue of its subscriber.
LEMMA PublishType ==
    ASSUME stream \in [Streams -> Stream], NEW e \in Event, Publish(e)
    PROVE  /\ stream' \in [Streams -> Stream]
           /\ \A s \in Streams : stream'[s].pc = stream[s].pc
<1> SUFFICES ASSUME NEW s \in Streams
             PROVE  stream'[s] \in Stream /\ stream'[s].pc = stream[s].pc
  <2>1. stream' = [r \in Streams |-> stream'[r]]
    BY DEF Publish
  <2> QED
    BY <2>1
<1>1. stream[s] \in Stream
  OBVIOUS
<1>2. Append(stream[s].aq, e) \in Seq(Event)
  BY <1>1 DEF Stream
<1> QED
  BY <1>1, <1>2 DEF Publish, Stream

\* What the handlers and the loop write into a stream.
LEMMA StreamFields ==
    ASSUME NEW s \in Stream
    PROVE  /\ Closed \in Stream
           /\ [s EXCEPT !.pc = "off"] \in Stream
           /\ [s EXCEPT !.pc = "live"] \in Stream
           /\ \A b \in BOOLEAN : [s EXCEPT !.sub = b] \in Stream
           /\ \A T \in SUBSET Peers :
                 /\ [s EXCEPT !.pc = "snapshot", !.todo = T] \in Stream
                 /\ [s EXCEPT !.todo = T] \in Stream
<1>1. Closed \in Stream
  <2>1. Unused \in Stream
    BY DEF Stream, Unused
  <2> QED
    BY <2>1 DEF Stream, Closed
<1>2. /\ [s EXCEPT !.pc = "off"] \in Stream
      /\ [s EXCEPT !.pc = "live"] \in Stream
      /\ \A b \in BOOLEAN : [s EXCEPT !.sub = b] \in Stream
  BY DEF Stream
<1>3. ASSUME NEW T \in SUBSET Peers
      PROVE  /\ [s EXCEPT !.pc = "snapshot", !.todo = T] \in Stream
             /\ [s EXCEPT !.todo = T] \in Stream
  BY DEF Stream
<1> QED
  BY <1>1, <1>2, <1>3

\* The initial state is typed and no stream is open.
LEMMA TypedInit == Init => Typed /\ OpenCounted
<1> SUFFICES ASSUME Init PROVE Typed /\ OpenCounted
  OBVIOUS
<1>1. Open = {}
  BY DEF Init, Open, Unused, IsOpen
<1>2. Typed
  BY RegistryAssumption DEF Init, Typed, Unused, NoRow, Stream
<1> QED
  BY <1>1, <1>2, FS_EmptySet DEF Init, OpenCounted

\* Handlers, the loop, the sweep and the streams keep the types.
LEMMA TypedStep == Typed /\ [Next]_vars => Typed'
<1> SUFFICES ASSUME Typed, [Next]_vars PROVE Typed'
  OBVIOUS
<1> USE RegistryAssumption DEF Typed
<1>0. CASE UNCHANGED vars
  BY <1>0 DEF vars
<1>1. ASSUME NEW p \in Peers,
             CreateShare(p) \/ AddPeerToShare(p) \/ RemovePeerFromShare(p)
      PROVE  Typed'
  <2>1. CASE CreateShare(p)
    BY <2>1 DEF CreateShare
  <2>2. CASE AddPeerToShare(p)
    BY <2>2 DEF AddPeerToShare
  <2>3. CASE RemovePeerFromShare(p)
    BY <2>3 DEF RemovePeerFromShare, NoRow
  <2> QED
    BY <1>1, <2>1, <2>2, <2>3
<1>2. ASSUME NEW p \in Peers, PublishRemoved(p) PROVE Typed'
  BY <1>2, ScheduleType DEF PublishRemoved, EventType
<1>3. ASSUME NEW p \in Peers, AnnounceCheck(p) PROVE Typed'
  BY <1>3 DEF AnnounceCheck
<1>4. ASSUME NEW p \in Peers, AnnounceWrite(p) PROVE Typed'
  <2>1. PICK t \in TtlHints : ann' = [ann EXCEPT ![p] = now + ClampTtl(t)]
    BY <1>4 DEF AnnounceWrite
  <2>2. now + ClampTtl(t) \in Nat
    <3>1. ClampTtl(t) \in TtlMin..TtlMax
      BY ClampTtlType
    <3> QED
      BY <3>1
  <2> QED
    BY <1>4, <2>1, <2>2 DEF AnnounceWrite
<1>5. ASSUME NEW p \in Peers, AnnouncePublish(p) PROVE Typed'
  <2>1. ready' \in Seq(Callback)
    BY <1>5, ScheduleType DEF AnnouncePublish
  <2> QED
    BY <1>5, <2>1 DEF AnnouncePublish
<1>6. ASSUME NEW s \in Streams, Drain(s) PROVE Typed'
  <2>1. stream[s] \in Stream
    OBVIOUS
  <2>2. /\ Tail(stream[s].aq) \in Seq(Event)
        /\ Append(stream[s].lq, Head(stream[s].aq)) \in Seq(Event)
    BY <1>6, <2>1 DEF Drain, Stream
  <2> DEFINE r == [stream[s] EXCEPT !.aq = Tail(@),
                                    !.lq = Append(@, Head(stream[s].aq))]
  <2>3. r \in Stream
    BY <2>1, <2>2 DEF Stream
  <2>4. \/ stream' = stream
        \/ stream' = [stream EXCEPT ![s] = r]
        \/ stream' = [stream EXCEPT ![s] = Closed]
    BY <1>6 DEF Drain
  <2>c. Closed \in Stream
    BY StreamFields
  <2>5. stream' \in [Streams -> Stream]
    BY <2>3, <2>4, <2>c
  <2>6. /\ blocked' \in Streams \cup {NoStream}
        /\ UNCHANGED <<owner, members, ann, call, removing, ready, sweep, active,
                       view, now, ops>>
    BY <1>6 DEF Drain
  <2> QED
    BY <2>5, <2>6
<1>7. ASSUME NEW s \in Streams, NEW w \in Peers, WatchOpen(s, w)
      PROVE  Typed'
  <2> DEFINE r == [stream[s] EXCEPT !.pc = "snapshot", !.todo = members]
  <2>1. r \in Stream
    BY StreamFields
  <2>2. stream' = [stream EXCEPT ![s] = r]
    BY <1>7 DEF WatchOpen
  <2>3. stream' \in [Streams -> Stream]
    BY <2>1, <2>2
  <2>4. /\ active' = active + 1 /\ ops' = ops + 1 /\ ops < MaxOps
        /\ UNCHANGED <<owner, members, ann, call, removing, ready, sweep, blocked,
                       view, now>>
    BY <1>7 DEF WatchOpen
  <2>5. ops' \in 0..MaxOps /\ active' \in Int
    BY <2>4
  <2> HIDE DEF r
  <2> QED
    BY <2>3, <2>4, <2>5
<1>8. ASSUME NEW s \in Streams, SnapshotDone(s) PROVE Typed'
  <2>1. ready' \in Seq(Callback)
    BY <1>8, ScheduleType DEF SnapshotDone
  <2> DEFINE r == [stream[s] EXCEPT !.pc = "live"]
  <2>2. r \in Stream
    BY StreamFields
  <2>3. stream' = [stream EXCEPT ![s] = r]
    BY <1>8 DEF SnapshotDone
  <2>4. stream' \in [Streams -> Stream]
    BY <2>2, <2>3
  <2>5. UNCHANGED <<owner, members, ann, call, removing, sweep, blocked, active, view,
                    now, ops>>
    BY <1>8 DEF SnapshotDone
  <2> HIDE DEF r
  <2> QED
    BY <2>1, <2>4, <2>5
<1>9. ASSUME NEW s \in Streams, StreamYield(s) PROVE Typed'
  <2>1. stream[s] \in Stream
    OBVIOUS
  <2>2. Tail(stream[s].lq) \in Seq(Event) /\ Head(stream[s].lq) \in Event
    BY <1>9, <2>1 DEF StreamYield, Stream
  <2> DEFINE r == [stream[s] EXCEPT !.lq = Tail(@)]
  <2>3. r \in Stream
    BY <2>1, <2>2 DEF Stream
  <2>4. stream' = [stream EXCEPT ![s] = r]
    BY <1>9 DEF StreamYield
  <2>5. stream' \in [Streams -> Stream]
    BY <2>3, <2>4
  <2> DEFINE e == Head(stream[s].lq)
             b == e.type \in {"ONLINE", "UPDATED"}
  <2>6. view' = [view EXCEPT ![s][e.peer] = b]
    BY <1>9 DEF StreamYield
  <2>7. e.peer \in Peers
    BY <2>2 DEF Event
  <2>8. b \in BOOLEAN
    OBVIOUS
  <2> HIDE DEF b
  <2>9. view' \in [Streams -> [Peers -> BOOLEAN]]
    BY <2>6, <2>7, <2>8
  <2>10. UNCHANGED <<owner, members, ann, call, removing, ready, sweep, blocked, active,
                     now, ops>>
    BY <1>9 DEF StreamYield
  <2> HIDE DEF r, e
  <2> QED
    BY <2>5, <2>9, <2>10
<1>10. ASSUME NEW s \in Streams, Disconnect(s) PROVE Typed'
  <2>1. ready' \in Seq(Callback)
    BY <1>10, ScheduleType DEF Disconnect
  <2> DEFINE r == [stream[s] EXCEPT !.pc = "off"]
  <2>typed. r \in Stream /\ Closed \in Stream
    BY StreamFields
  <2>step. stream' \in {[stream EXCEPT ![s] = Closed], [stream EXCEPT ![s] = r]}
    BY <1>10 DEF Disconnect
  <2>2. stream' \in [Streams -> Stream]
    BY <2>typed, <2>step
  <2>3. ops' \in 0..MaxOps
    BY <1>10 DEF Disconnect, Op
  <2>4. active' \in Int
    BY <1>10 DEF Disconnect
  <2>5. UNCHANGED <<owner, members, ann, call, removing, sweep, blocked, now>>
    BY <1>10 DEF Disconnect
  <2>6. view' \in [Streams -> [Peers -> BOOLEAN]]
    BY <1>10 DEF Disconnect
  <2> HIDE DEF r
  <2> QED
    BY <2>1, <2>2, <2>3, <2>4, <2>5, <2>6
<1>11. ASSUME NEW p \in Peers, SweepPublish(p) PROVE Typed'
  <2>1. [type |-> "OFFLINE", peer |-> p] \in Event
    BY DEF Event, EventType
  <2>2. stream' \in [Streams -> Stream]
    BY <1>11, <2>1, PublishType DEF SweepPublish
  <2>3. sweep' \in [read : SUBSET Peers, todo : SUBSET Peers]
    BY <1>11 DEF SweepPublish
  <2>4. UNCHANGED <<owner, members, ann, call, removing, ready, blocked, active, view,
                    now, ops>>
    BY <1>11 DEF SweepPublish
  <2> QED
    BY <2>2, <2>3, <2>4
<1>12. ASSUME NEW s \in Streams, NEW p \in Peers, SnapshotPeer(s, p) PROVE Typed'
  <2> DEFINE r == [stream[s] EXCEPT !.todo = @ \ {p}]
  <2>typed. r \in Stream
    <3>1. stream[s] \in Stream /\ stream[s].todo \ {p} \in SUBSET Peers
      BY DEF Stream
    <3> QED
      BY <3>1, StreamFields
  <2>step. stream' = [stream EXCEPT ![s] = r]
    BY <1>12 DEF SnapshotPeer
  <2>1. stream' \in [Streams -> Stream]
    BY <2>typed, <2>step
  <2>2. view' \in [Streams -> [Peers -> BOOLEAN]]
    BY <1>12 DEF SnapshotPeer, Online
  <2>3. UNCHANGED <<owner, members, ann, call, removing, ready, sweep, blocked, active,
                    now, ops>>
    BY <1>12 DEF SnapshotPeer
  <2> HIDE DEF r
  <2> QED
    BY <2>1, <2>2, <2>3
<1>13. CASE LoopStep
  <2> DEFINE c == Head(ready)
  <2>1. c \in Callback /\ Tail(ready) \in Seq(Callback)
    BY <1>13 DEF LoopStep
  <2>2. /\ c.type \in EventType => c \in Event
        /\ c.type \in {"SUBSCRIBE", "CANCEL"} => c.stream \in Streams
    BY <2>1 DEF Callback, Event, EventType
  <2> DEFINE r == [stream[c.stream] EXCEPT !.sub = stream[c.stream].pc = "live"]
  <2>3. c.stream \in Streams => r \in Stream /\ Closed \in Stream
    BY StreamFields
  <2>4. \/ c.type \in EventType /\ Publish(c)
        \/ /\ c.stream \in Streams
           /\ stream' \in {[stream EXCEPT ![c.stream] = r],
                           [stream EXCEPT ![c.stream] = Closed]}
    BY <1>13, <2>2 DEF LoopStep
  <2> HIDE DEF c, r
  <2>typed. stream \in [Streams -> Stream]
    OBVIOUS
  <2>5. stream' \in [Streams -> Stream]
    <3>1. CASE c.type \in EventType /\ Publish(c)
      BY <2>2, <2>typed, <3>1, PublishType
    <3>2. CASE c.stream \in Streams /\ stream' = [stream EXCEPT ![c.stream] = r]
      BY <2>3, <2>typed, <3>2
    <3>3. CASE c.stream \in Streams /\ stream' = [stream EXCEPT ![c.stream] = Closed]
      BY <2>3, <2>typed, <3>3
    <3> QED
      BY <2>4, <3>1, <3>2, <3>3
  <2>6. ready' = Tail(ready)
    BY <1>13 DEF LoopStep
  <2>7. UNCHANGED <<owner, members, ann, call, removing, sweep, blocked, active, view,
                    now, ops>>
    BY <1>13 DEF LoopStep
  <2> QED
    BY <2>1, <2>5, <2>6, <2>7
<1>14. CASE SweepRead \/ SweepCommit
  <2>1. sweep' \in [read : SUBSET Peers, todo : SUBSET Peers]
    <3>1. CASE SweepRead
      BY <3>1 DEF SweepRead, Expired
    <3>2. CASE SweepCommit
      BY <3>2 DEF SweepCommit
    <3> QED
      BY <1>14, <3>1, <3>2
  <2>2. CASE SweepRead
    BY <2>1, <2>2 DEF SweepRead
  <2>3. CASE SweepCommit
    BY <2>1, <2>3 DEF SweepCommit, NoRow
  <2> QED
    BY <1>14, <2>2, <2>3
<1>15. CASE Tick
  BY <1>15 DEF Tick
<1> QED
  BY <1>0, <1>1, <1>2, <1>3, <1>4, <1>5, <1>6, <1>7, <1>8, <1>9, <1>10, <1>11,
     <1>12, <1>13, <1>14, <1>15 DEF Next

-----------------------------------------------------------------------------
\* The open streams are finitely many.
LEMMA OpenFinite == IsFiniteSet(Open) /\ Cardinality(Open) \in Nat
  BY RegistryAssumption, FS_Subset, FS_CardinalityType DEF Open

\* A step that opens no stream and counts none out keeps the count.
LEMMA NoneOpened ==
    ASSUME Typed, OpenCounted, active' = active,
           \A s \in Streams : IsOpen(stream'[s]) => IsOpen(stream[s])
    PROVE  OpenCounted'
<1>1. Open' \subseteq Open
  BY DEF Open
<1>2. Cardinality(Open') <= Cardinality(Open) /\ Cardinality(Open') \in Nat
  BY <1>1, OpenFinite, FS_Subset, FS_CardinalityType
<1> QED
  BY <1>2, OpenFinite DEF Typed, OpenCounted

\* Every step keeps the count of the open streams.
LEMMA CountedStep == Typed /\ OpenCounted /\ [Next]_vars => OpenCounted'
<1> SUFFICES ASSUME Typed, OpenCounted, [Next]_vars PROVE OpenCounted'
  OBVIOUS
<1>0. CASE UNCHANGED <<stream, active>>
  BY <1>0 DEF OpenCounted, Open
<1>1. ASSUME NEW s \in Streams, Drain(s) \/ SnapshotDone(s) \/ StreamYield(s)
      PROVE  OpenCounted'
  <2>1. CASE Drain(s)
    <3>1. \/ stream' = stream
          \/ stream' = [stream EXCEPT ![s].aq = Tail(@),
                                      ![s].lq = Append(@, Head(stream[s].aq))]
          \/ stream' = [stream EXCEPT ![s] = Closed]
      BY <2>1 DEF Drain
    <3>c. ~IsOpen(Closed)
      BY DEF Closed, Unused, IsOpen
    <3>2. \A v \in Streams : IsOpen(stream'[v]) => IsOpen(stream[v])
      <4> SUFFICES ASSUME NEW v \in Streams, IsOpen(stream'[v])
                   PROVE  IsOpen(stream[v])
        OBVIOUS
      <4>1. stream \in [Streams -> Stream]
        BY DEF Typed
      <4>2. CASE stream' = [stream EXCEPT ![s] = Closed]
        BY <3>c, <4>1, <4>2
      <4>3. CASE stream' # [stream EXCEPT ![s] = Closed]
        BY <3>1, <4>1, <4>3 DEF Stream, IsOpen
      <4> QED
        BY <4>2, <4>3
    <3> QED
      BY <2>1, <3>2, NoneOpened DEF Drain
  <2>2. CASE SnapshotDone(s)
    BY <2>2, NoneOpened DEF SnapshotDone, Typed, Stream, IsOpen
  <2>3. CASE StreamYield(s)
    BY <2>3, NoneOpened DEF StreamYield, Typed, Stream, IsOpen
  <2> QED
    BY <1>1, <2>1, <2>2, <2>3
<1>2. ASSUME NEW s \in Streams, NEW w \in Peers, WatchOpen(s, w)
      PROVE  OpenCounted'
  <2>1. Open' = Open \cup {s} /\ s \notin Open
    BY <1>2 DEF WatchOpen, Open, IsOpen, Typed, Stream, Unused
  <2>2. Cardinality(Open') = Cardinality(Open) + 1
    BY <2>1, OpenFinite, FS_AddElement
  <2> QED
    BY <1>2, <2>2, OpenFinite DEF WatchOpen, OpenCounted, Typed
<1>3. ASSUME NEW s \in Streams, Disconnect(s) PROVE OpenCounted'
  <2>1. CASE active' = active
    BY <1>3, <2>1, NoneOpened DEF Disconnect, Typed, Stream, Closed, Unused, IsOpen
  <2>2. CASE stream[s].pc = "live" /\ active' = active - 1
    <3>1. Open' = Open \ {s} /\ s \in Open
      BY <1>3, <2>2 DEF Disconnect, Open, IsOpen, Typed, Stream, IsOpen
    <3>2. Cardinality(Open') = Cardinality(Open) - 1
      BY <3>1, OpenFinite, FS_RemoveElement
    <3> QED
      BY <2>2, <3>2, OpenFinite DEF OpenCounted, Typed
  <2> QED
    BY <1>3, <2>1, <2>2 DEF Disconnect
<1>4. ASSUME NEW p \in Peers, SweepPublish(p) PROVE OpenCounted'
  <2>1. [type |-> "OFFLINE", peer |-> p] \in Event
    BY DEF Event, EventType
  <2> QED
    BY <1>4, <2>1, PublishType, NoneOpened DEF SweepPublish, Typed, IsOpen
<1>5. ASSUME NEW s \in Streams, NEW p \in Peers, SnapshotPeer(s, p)
      PROVE  OpenCounted'
  BY <1>5, NoneOpened DEF SnapshotPeer, Typed, Stream, IsOpen
<1>6. CASE LoopStep
  <2> DEFINE c == Head(ready)
  <2>1. c \in Callback
    BY <1>6 DEF LoopStep, Typed
  <2>2. /\ c.type \in EventType => c \in Event
        /\ c.type \in {"SUBSCRIBE", "CANCEL"} => c.stream \in Streams
    BY <2>1 DEF Callback, Event, EventType
  <2>3. \A s \in Streams : IsOpen(stream'[s]) => IsOpen(stream[s])
    <3>1. CASE Publish(c) /\ c.type \in EventType
      BY <3>1, <2>2, PublishType DEF Typed, IsOpen
    <3>2. CASE /\ c.type = "SUBSCRIBE"
               /\ stream' = [stream EXCEPT
                                ![c.stream].sub = stream[c.stream].pc = "live"]
      BY <3>2, <2>2 DEF Typed, Stream, IsOpen
    <3>3. CASE c.type = "CANCEL" /\ stream' = [stream EXCEPT ![c.stream] = Closed]
      BY <3>3, <2>2 DEF Typed, Stream, IsOpen, Closed, Unused
    <3> QED
      BY <1>6, <3>1, <3>2, <3>3 DEF LoopStep
  <2> QED
    BY <1>6, <2>3, NoneOpened DEF LoopStep
<1> QED
  BY <1>0, <1>1, <1>2, <1>3, <1>4, <1>5, <1>6
     DEF Next, vars, CreateShare, AddPeerToShare, RemovePeerFromShare,
         PublishRemoved, AnnounceCheck, AnnounceWrite, AnnouncePublish,
         SweepRead, SweepCommit, Tick

\* Type correctness of the registry.  That _active_watches stays a natural
\* number is its core: a stream is counted out at most once after it was
\* counted in.
THEOREM TypeCorrect == Spec => []TypeOK
<1>1. Typed /\ OpenCounted => TypeOK
  BY OpenFinite DEF Typed, OpenCounted, TypeOK, Stream
<1> QED
  BY <1>1, TypedInit, TypedStep, CountedStep, PTL DEF Spec

-----------------------------------------------------------------------------
\* The owner of a share stays one of its members.
THEOREM OwnerStaysMember == Spec => []OwnerIsMember
<1>1. Init => OwnerIsMember
  BY DEF Init, OwnerIsMember
<1>2. OwnerIsMember /\ [Next]_vars => OwnerIsMember'
  <2> SUFFICES ASSUME OwnerIsMember, [Next]_vars PROVE OwnerIsMember'
    OBVIOUS
  <2>1. CASE UNCHANGED <<owner, members>>
    BY <2>1 DEF OwnerIsMember
  <2>2. ASSUME NEW p \in Peers,
               CreateShare(p) \/ AddPeerToShare(p) \/ RemovePeerFromShare(p)
        PROVE  OwnerIsMember'
    BY <2>2 DEF OwnerIsMember, CreateShare, AddPeerToShare, RemovePeerFromShare
  <2> QED
    BY <2>1, <2>2
       DEF Next, vars, PublishRemoved, AnnounceCheck, AnnounceWrite,
           AnnouncePublish, Drain, WatchOpen, SnapshotDone, StreamYield,
           Disconnect, SweepPublish, SnapshotPeer, LoopStep, SweepRead,
           SweepCommit, Tick
<1> QED
  BY <1>1, <1>2, PTL DEF Spec

====
