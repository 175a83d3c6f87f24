---------------------------- MODULE DaemonProofs ----------------------------
(***************************************************************************)
(* Proofs about the threads of a daemon, for any number of shares, clients *)
(* and threads: types, and that a thread in next() belongs to a live watch *)
(* task or is about to be released.                                        *)
(***************************************************************************)
EXTENDS Daemon, SequenceTheorems, TLAPS

USE DEF coordVars, watchVars, poolVars, regVars, ctlVars, Set

-----------------------------------------------------------------------------
(* The inductive invariant *)

NextOf(x) == <<"next", x>>

\* A next() in the queue belongs to the task that waits for it, and is the only
\* one of its stream.  One that runs does too, or its stream is over and the task
\* of its share, if it has not connected anew, is not one that read the stream.
NextInv(x) ==
    /\ \A i \in 1..Len(jobs) : jobs[i] = NextOf(x) =>
          /\ Awaits(x, "next") /\ NextOf(x) \notin running
          /\ \A j \in 1..Len(jobs) : jobs[j] = NextOf(x) => j = i
    /\ NextOf(x) \in running =>
          \/ Awaits(x, "next")
          \/ /\ stream[x] = "over"
             /\ cur[x[1]] = x[2] => wt[x[1]] \in {"none", "connect", "ended"}

ThreadInv == \A x \in Streams : NextInv(x)

-----------------------------------------------------------------------------
(* Types *)

\* The constants that are numbers.
LEMMA Numbers ==
    /\ Threads \in Nat /\ Workers \in Nat /\ ControlThreads \in Nat
    /\ MaxOutages \in Nat /\ MaxOps \in Nat /\ BackoffMax \in Nat /\ BackoffMax >= 1
    /\ 1 \in 1..Gens
  BY DaemonAssumption

\* A stream is a share and a number.
LEMMA StreamParts ==
    /\ \A x \in Streams : x[1] \in Shares /\ x[2] \in 1..Gens /\ x = <<x[1], x[2]>>
    /\ \A s \in Shares, n \in 1..Gens :
          <<s, n>> \in Streams /\ <<s, n>>[1] = s /\ <<s, n>>[2] = n
  BY DEF Streams

LEMMA CurParts ==
    ASSUME cur \in [Shares -> 1..Gens], NEW s \in Shares
    PROVE  Cur(s) \in Streams /\ Cur(s)[1] = s /\ Cur(s)[2] = cur[s]
  BY StreamParts DEF Cur

\* RemoveAt keeps the type of a sequence.
LEMMA RemoveAtType ==
    ASSUME NEW S, NEW q \in Seq(S), NEW i \in 1..Len(q)
    PROVE  RemoveAt(q, i) \in Seq(S)
<1>1. SubSeq(q, 1, i - 1) \in Seq(S) /\ SubSeq(q, i + 1, Len(q)) \in Seq(S)
  OBVIOUS
<1> QED
  BY <1>1 DEF RemoveAt

\* What queues take in and give back.
LEMMA QueueTypes ==
    ASSUME TypeOK
    PROVE  /\ \A c \in Call : Append(waiting, c) \in Seq(Call)
           /\ waiting # <<>> => Head(waiting) \in Call /\ Tail(waiting) \in Seq(Call)
           /\ \A j \in Job : Append(jobs, j) \in Seq(Job)
           /\ jobs # <<>> => Head(jobs) \in Job /\ Tail(jobs) \in Seq(Job)
<1>1. waiting \in Seq(Call) /\ jobs \in Seq(Job)
  BY DEF TypeOK
<1> QED
  BY <1>1

\* Cancelled jobs stay in their places.
LEMMA CancelJobsType ==
    ASSUME jobs \in Seq(Job), NEW S, CancelJobs(S)
    PROVE  /\ jobs' \in Seq(Job) /\ Len(jobs') = Len(jobs)
           /\ \A i \in 1..Len(jobs) :
                 jobs'[i] = IF jobs[i][1] \in {"next", "handle"} /\ jobs[i][2][1] \in S
                            THEN Cancelled ELSE jobs[i]
<1> DEFINE n(i) == IF jobs[i][1] \in {"next", "handle"} /\ jobs[i][2][1] \in S
                   THEN Cancelled ELSE jobs[i]
<1>1. DOMAIN jobs = 1..Len(jobs) /\ Len(jobs) \in Nat
  OBVIOUS
<1>2. ASSUME NEW i \in 1..Len(jobs) PROVE n(i) \in Job
  <2>1. jobs[i] \in Job
    OBVIOUS
  <2> QED
    BY <2>1 DEF Job
<1>3. jobs' = [i \in 1..Len(jobs) |-> n(i)]
  BY <1>1 DEF CancelJobs
<1> HIDE DEF n
<1>4. jobs' \in Seq(Job) /\ Len(jobs') = Len(jobs)
  BY <1>1, <1>2, <1>3, IsASeq
<1> QED
  BY <1>3, <1>4 DEF n

LEMMA TypeInit == Init => TypeOK
<1> SUFFICES ASSUME Init PROVE TypeOK
  OBVIOUS
<1>1. backoff \in [Shares -> 1..BackoffMax] /\ cur \in [Shares -> 1..Gens]
      /\ outages \in 0..MaxOutages
      /\ ops \in 0..MaxOps
  BY Numbers DEF Init
<1>2. jobs \in Seq(Job) /\ waiting \in Seq(Call)
  BY DEF Init
<1> QED
  BY <1>1, <1>2 DEF Init, TypeOK

LEMMA RegistryType ==
    ASSUME TypeOK,
           ServeNext \/ GoDown \/ ComeUp
             \/ \E x \in Streams : SendEvent(x) \/ StreamDropped(x)
    PROVE  TypeOK'
<1>1. CASE ServeNext
  <2>1. Head(waiting) \in Call /\ waiting' \in Seq(Call)
    BY <1>1, QueueTypes DEF ServeNext
  <2>2. serving' \subseteq Call
    BY <1>1, <2>1 DEF ServeNext, TypeOK
  <2>3. stream' \in [Streams -> {"over", "queued", "open"}]
        /\ inbox' \in [Streams -> BOOLEAN]
    BY <1>1 DEF ServeNext, TypeOK
  <2> QED
    BY <1>1, <2>1, <2>2, <2>3 DEF ServeNext, TypeOK
<1>2. CASE GoDown
  <2>1. outages' \in 0..MaxOutages
    BY <1>2, Numbers DEF GoDown, TypeOK
  <2>2. waiting' \in Seq(Call) /\ serving' \subseteq Call
    BY <1>2 DEF GoDown
  <2> QED
    BY <1>2, <2>1, <2>2 DEF GoDown, TypeOK
<1>3. CASE ComeUp
  BY <1>3 DEF ComeUp, TypeOK
<1>4. ASSUME NEW x \in Streams, SendEvent(x) PROVE TypeOK'
  BY <1>4 DEF SendEvent, TypeOK
<1>5. ASSUME NEW x \in Streams, StreamDropped(x) PROVE TypeOK'
  <2>1. waiting' \in Seq(Call)
    BY <1>5, RemoveAtType DEF StreamDropped, TypeOK
  <2> QED
    BY <1>5, <2>1 DEF StreamDropped, TypeOK
<1> QED
  BY <1>1, <1>2, <1>3, <1>4, <1>5

\* The types of what the coordinator's steps change.
LoopCalls == {Idle, <<"register", Free>>}
                \cup ({"peers", "announce", "heartbeat", "add"} \X Remote)
                \cup ({"control"} \X Clients)
Acts == {"no", "scan", "scanned", "peers", "torrent", "added", "announce"}
Tasks == {"none", "connect", "next", "event", "handling", "handled", "lost", "sleep",
          "ended"}
Rows == {"absent", "stored", "active", "paused", "error"}

CoordType ==
    /\ conn \in {"try", "sleep", "done"} /\ loop \in LoopCalls
    /\ row \in [Shares -> Rows] /\ act \in [Shares -> Acts] /\ beats \subseteq Remote
    /\ wt \in [Shares -> Tasks] /\ stop \in [Shares -> BOOLEAN]
    /\ jobs \in Seq(Job) /\ waiting \in Seq(Call) /\ serving \subseteq Call

LEMMA CoordTyped == TypeOK => CoordType
  BY DEF TypeOK, CoordType, LoopCalls, Acts, Tasks, Rows

\* A step that changes no more than these is typed if they are.
LEMMA CoordSuffices ==
    ASSUME TypeOK, CoordType',
           UNCHANGED <<phase, backoff, cur, stream, inbox, running, up, outages,
                       ctlVars>>
    PROVE  TypeOK'
  BY DEF TypeOK, CoordType, LoopCalls, Acts, Tasks, Rows

\* Whom a call of the loop is about.
LEMMA LoopSubject ==
    ASSUME loop \in LoopCalls
    PROVE  /\ loop[1] \in {"peers", "announce", "heartbeat", "add"} => loop[2] \in Remote
           /\ loop[1] = "control" => loop[2] \in Clients
  BY DEF LoopCalls, Idle

LEMMA CallType ==
    ASSUME TypeOK
    PROVE  /\ \A k \in {"peers", "announce", "heartbeat", "add"}, s \in Remote :
                 CallRegistry(k, s) => loop' \in LoopCalls /\ waiting' \in Seq(Call)
           /\ \A c \in Clients :
                 CallRegistry("control", c) => loop' \in LoopCalls /\ waiting' \in Seq(Call)
           /\ CallRegistry("register", Free) =>
                 loop' \in LoopCalls /\ waiting' \in Seq(Call)
           /\ \A k : CallEnds(k) => serving' \subseteq Call
<1>1. OnLoop \in Call /\ waiting \in Seq(Call)
  BY DEF OnLoop, Call, TypeOK
<1>2. Invoke(OnLoop) => waiting' \in Seq(Call)
  BY <1>1 DEF Invoke
<1>3. \A k : CallEnds(k) => serving' \subseteq Call
  BY DEF CallEnds, TypeOK
<1> QED
  BY <1>2, <1>3 DEF CallRegistry, LoopCalls

LEMMA SubmitType ==
    ASSUME TypeOK, NEW s \in Shares
    PROVE  /\ \A k \in {"scan", "torrent", "work"} : Submit(k, s) => jobs' \in Seq(Job)
           /\ StartActivation(s) => jobs' \in Seq(Job) /\ act' \in [Shares -> Acts]
<1>1. \A k \in {"scan", "torrent", "work"} : <<k, s>> \in Job
  BY DEF Job
<1>2. \A k \in {"scan", "torrent", "work"} : Submit(k, s) => jobs' \in Seq(Job)
  BY <1>1, QueueTypes DEF Submit
<1>3. act \in [Shares -> Acts] /\ "scan" \in Acts
  BY CoordTyped DEF CoordType, Acts
<1> QED
  BY <1>2, <1>3 DEF StartActivation

LEMMA SubmitStreamType ==
    ASSUME TypeOK, NEW x \in Streams, NEW k \in {"next", "handle"}, Submit(k, x)
    PROVE  jobs' \in Seq(Job)
<1>1. <<k, x>> \in Job
  BY DEF Job
<1> QED
  BY <1>1, QueueTypes DEF Submit

\* The end of an activation, with the announcement or without.
LEMMA AnnounceType ==
    ASSUME TypeOK, NEW s \in Shares, Announce(s)
    PROVE  /\ loop' \in LoopCalls /\ waiting' \in Seq(Call)
           /\ act' \in [Shares -> Acts]
           /\ wt' \in [Shares -> Tasks] /\ stop' \in [Shares -> BOOLEAN]
<1>1. CoordType
  BY CoordTyped
<1>2. loop' \in LoopCalls /\ waiting' \in Seq(Call)
  BY <1>1, CallType DEF Announce, CoordType, LoopCalls
<1>3. act' \in [Shares -> Acts]
  BY <1>1 DEF Announce, CoordType, Acts
<1>4. wt' \in [Shares -> Tasks] /\ stop' \in [Shares -> BOOLEAN]
  BY <1>1 DEF Announce, WatchTask, CoordType, Tasks
<1> QED
  BY <1>2, <1>3, <1>4

LEMMA StateType ==
    ASSUME TypeOK, NEW s \in Shares, NEW v \in Rows
    PROVE  /\ SetShareState(s, v) => row' \in [Shares -> Rows]
           /\ row' = Set(row, s, v) => row' \in [Shares -> Rows]
<1>1. row \in [Shares -> Rows]
  BY DEF TypeOK, Rows
<1> QED
  BY <1>1 DEF SetShareState

LEMMA ActivationType ==
    ASSUME TypeOK,
           RegisterStep \/ \E s \in Shares : ActivationStep(s) \/ Heartbeat(s)
    PROVE  TypeOK'
<1>0. CoordType /\ "active" \in Rows /\ "error" \in Rows /\ Remote \subseteq Shares
  BY CoordTyped DEF Rows, Remote
<1>1. CASE RegisterStep
  <2>1. conn' \in {"try", "sleep", "done"} /\ loop' \in LoopCalls /\ waiting' \in Seq(Call)
    BY <1>0, <1>1, CallType
       DEF RegisterStep, Register, RegisterAgain, CoordType
  <2>2. UNCHANGED <<phase, row, act, beats, watchVars, poolVars, up, serving, outages,
                    ctlVars>>
    BY <1>1 DEF RegisterStep, Register, RegisterAgain
  <2>3. CoordType'
    BY <1>0, <2>1, <2>2 DEF CoordType
  <2> QED
    BY <2>2, <2>3, CoordSuffices
<1>2. ASSUME NEW s \in Shares, ResumeStored(s) PROVE TypeOK'
  <2>1. row' \in [Shares -> Rows] /\ jobs' \in Seq(Job) /\ act' \in [Shares -> Acts]
    BY <1>0, <1>2, StateType, SubmitType DEF ResumeStored
  <2>2. CoordType'
    BY <1>0, <1>2, <2>1 DEF CoordType, ResumeStored
  <2> QED
    BY <1>2, <2>2, CoordSuffices DEF ResumeStored
<1>3. ASSUME NEW s \in Shares, ActivateScanned(s) PROVE TypeOK'
  <2>1. /\ act' \in [Shares -> Acts] /\ jobs' \in Seq(Job) /\ row' \in [Shares -> Rows]
        /\ loop' \in LoopCalls /\ waiting' \in Seq(Call)
        /\ wt' \in [Shares -> Tasks] /\ stop' \in [Shares -> BOOLEAN]
    <3>1. CASE /\ act' = Set(act, s, "torrent") /\ Submit("torrent", s)
               /\ UNCHANGED <<loop, waiting, wt, stop, row>>
      <4>1. jobs' \in Seq(Job)
        BY <3>1, SubmitType
      <4> QED
        BY <1>0, <3>1, <4>1 DEF CoordType, Acts
    <3>2. CASE /\ s \in Remote /\ CallRegistry("peers", s)
               /\ act' = Set(act, s, "peers")
               /\ UNCHANGED <<wt, stop, row, jobs>>
      <4>1. loop' \in LoopCalls /\ waiting' \in Seq(Call)
        BY <3>2, CallType
      <4> QED
        BY <1>0, <3>2, <4>1 DEF CoordType, Acts
    <3>3. CASE SetShareState(s, "active") /\ Announce(s) /\ UNCHANGED jobs
      BY <1>0, <3>3, AnnounceType, StateType DEF CoordType
    <3> QED
      BY <1>3, <3>1, <3>2, <3>3 DEF ActivateScanned
  <2>2. UNCHANGED <<phase, conn, beats, backoff, cur, stream, inbox, running, up, serving,
                    outages, ctlVars>>
    BY <1>3 DEF ActivateScanned
  <2>3. CoordType'
    BY <1>0, <2>1, <2>2 DEF CoordType
  <2> QED
    BY <2>2, <2>3, CoordSuffices
<1>4. ASSUME NEW s \in Shares, ActivateAdded(s) PROVE TypeOK'
  <2>1. /\ act' \in [Shares -> Acts] /\ row' \in [Shares -> Rows]
        /\ loop' \in LoopCalls /\ waiting' \in Seq(Call)
        /\ wt' \in [Shares -> Tasks] /\ stop' \in [Shares -> BOOLEAN]
    <3>1. CASE SetShareState(s, "active") /\ Announce(s)
      BY <1>0, <3>1, AnnounceType, StateType
    <3>2. CASE /\ SetShareState(s, "error") /\ act' = Set(act, s, "no")
               /\ UNCHANGED <<loop, waiting, wt, stop>>
      BY <1>0, <3>2, StateType DEF CoordType, Acts
    <3> QED
      BY <1>4, <3>1, <3>2 DEF ActivateAdded
  <2>2. UNCHANGED <<phase, conn, beats, backoff, cur, stream, inbox, poolVars, up, serving,
                    outages, ctlVars>>
    BY <1>4 DEF ActivateAdded
  <2>3. CoordType'
    BY <1>0, <2>1, <2>2 DEF CoordType
  <2> QED
    BY <2>2, <2>3, CoordSuffices
<1>5. ASSUME NEW s \in Shares, Heartbeat(s) PROVE TypeOK'
  <2>1. loop' \in LoopCalls /\ waiting' \in Seq(Call)
    BY <1>0, <1>5, CallType DEF Heartbeat, CoordType
  <2>2. CoordType'
    BY <1>0, <1>5, <2>1 DEF CoordType, Heartbeat
  <2> QED
    BY <1>5, <2>2, CoordSuffices DEF Heartbeat
<1> QED
  BY <1>1, <1>2, <1>3, <1>4, <1>5 DEF ActivationStep

\* The loop comes back from a call.
LEMMA ReturnsType == ASSUME TypeOK, CallReturns PROVE TypeOK'
<1>0. CoordType /\ "active" \in Rows /\ Remote \subseteq Shares /\ Idle \in LoopCalls
  BY CoordTyped DEF Rows, Remote, LoopCalls
<1> DEFINE s == loop[2]
<1>1. /\ loop[1] \in {"peers", "announce", "heartbeat", "add"} => s \in Remote
      /\ loop[1] = "control" => s \in Clients
  BY <1>0, LoopSubject DEF CoordType
<1>2. CASE RegisterReturns
  <2>1. serving' \subseteq Call
    BY <1>2, CallType DEF RegisterReturns
  <2>2. CoordType'
    BY <1>0, <1>2, <2>1 DEF RegisterReturns, CoordType
  <2> QED
    BY <1>2, <2>2, CoordSuffices DEF RegisterReturns, CallEnds
<1>3. CASE PeersReturns
  <2>1. s \in Shares /\ CallEnds("peers")
    BY <1>0, <1>1, <1>3 DEF PeersReturns, CallEnds
  <2>2. /\ act' \in [Shares -> Acts] /\ jobs' \in Seq(Job) /\ row' \in [Shares -> Rows]
        /\ loop' \in LoopCalls /\ waiting' \in Seq(Call)
        /\ wt' \in [Shares -> Tasks] /\ stop' \in [Shares -> BOOLEAN]
    <3>1. CASE /\ act' = Set(act, s, "torrent") /\ Submit("torrent", s)
               /\ loop' = Idle /\ UNCHANGED <<waiting, wt, stop, row>>
      <4>1. jobs' \in Seq(Job)
        BY <2>1, <3>1, SubmitType
      <4> QED
        BY <1>0, <2>1, <3>1, <4>1 DEF CoordType, Acts
    <3>2. CASE SetShareState(s, "active") /\ Announce(s) /\ UNCHANGED jobs
      BY <1>0, <2>1, <3>2, AnnounceType, StateType DEF CoordType
    <3> QED
      BY <1>3, <3>1, <3>2 DEF PeersReturns
  <2>3. UNCHANGED <<phase, conn, beats, backoff, cur, stream, inbox, running, up, outages,
                    ctlVars>>
    BY <1>3 DEF PeersReturns, CallEnds
  <2>4. CoordType'
    BY <1>0, <2>1, <2>2, <2>3, CallType DEF CoordType
  <2> QED
    BY <2>3, <2>4, CoordSuffices
<1>4. CASE AnnounceReturns
  <2>1. s \in Remote /\ CallEnds("announce")
    BY <1>1, <1>4 DEF AnnounceReturns, CallEnds
  <2>2. act' \in [Shares -> Acts] /\ beats' \subseteq Remote
    BY <1>0, <1>4, <2>1 DEF AnnounceReturns, CoordType, Acts
  <2>3. wt' \in [Shares -> Tasks] /\ stop' \in [Shares -> BOOLEAN]
    BY <1>0, <1>4, <2>1 DEF AnnounceReturns, WatchTask, CoordType, Tasks
  <2>4. serving' \subseteq Call
    BY <2>1, CallType
  <2>5. CoordType'
    BY <1>0, <1>4, <2>2, <2>3, <2>4 DEF AnnounceReturns, CoordType
  <2> QED
    BY <1>4, <2>5, CoordSuffices DEF AnnounceReturns, CallEnds
<1>5. CASE HeartbeatReturns
  <2>1. serving' \subseteq Call
    BY <1>5, CallType DEF HeartbeatReturns
  <2>2. CoordType'
    BY <1>0, <1>5, <2>1 DEF HeartbeatReturns, CoordType
  <2> QED
    BY <1>5, <2>2, CoordSuffices DEF HeartbeatReturns, CallEnds
<1>6. CASE AddReturns
  <2>1. s \in Shares /\ CallEnds("add")
    BY <1>0, <1>1, <1>6 DEF AddReturns, CallEnds
  <2>2. row' \in [Shares -> Rows] /\ jobs' \in Seq(Job) /\ act' \in [Shares -> Acts]
    BY <1>0, <1>6, <2>1, StateType, SubmitType DEF AddReturns, CoordType
  <2>3. serving' \subseteq Call
    BY <2>1, CallType
  <2>4. CoordType'
    BY <1>0, <1>6, <2>2, <2>3 DEF AddReturns, CoordType
  <2> QED
    BY <1>6, <2>4, CoordSuffices DEF AddReturns, CallEnds
<1>7. CASE ControlRpcReturns
  <2>1. s \in Clients /\ serving' \subseteq Call
    BY <1>1, <1>7, CallType DEF ControlRpcReturns, CallEnds
  <2>2. ctl' \in [Clients -> {"idle", "asked", "loop", "watching", "registry"}
                                \cup Shares]
    BY <1>7, <2>1 DEF ControlRpcReturns, TypeOK
  <2> QED
    BY <1>7, <2>1, <2>2 DEF ControlRpcReturns, CallEnds, TypeOK
<1> QED
  BY <1>2, <1>3, <1>4, <1>5, <1>6, <1>7 DEF CallReturns

LEMMA PoolType ==
    ASSUME TypeOK,
           \/ StartJob \/ \E x \in Streams : EndNext(x) \/ EndHandle(x)
           \/ \E s \in Shares : EndActivationJob(s) \/ SubmitWork(s) \/ EndWork(s)
    PROVE  TypeOK'
<1>1. CASE StartJob
  <2>1. Head(jobs) \in Job /\ jobs' \in Seq(Job)
    BY <1>1, QueueTypes DEF StartJob
  <2>2. running' \subseteq Job
    BY <1>1, <2>1 DEF StartJob, TypeOK
  <2> QED
    BY <1>1, <2>1, <2>2 DEF StartJob, TypeOK
<1>2. ASSUME NEW x \in Streams, EndNext(x) \/ EndHandle(x) PROVE TypeOK'
  <2>1. wt \in [Shares -> Tasks] /\ inbox \in [Streams -> BOOLEAN] /\ running \subseteq Job
    BY DEF TypeOK, Tasks
  <2>2. wt' \in [Shares -> Tasks]
    <3>1. wt' = wt \/ \E v \in Tasks : wt' = [wt EXCEPT ![x[1]] = v]
      BY <1>2 DEF EndNext, EndHandle, Tasks
    <3> QED
      BY <2>1, <3>1
  <2>3. inbox' \in [Streams -> BOOLEAN] /\ running' \subseteq Job
    BY <1>2, <2>1 DEF EndNext, EndHandle
  <2>4. UNCHANGED <<coordVars, loop, stop, backoff, cur, stream, jobs, regVars, ctlVars>>
    BY <1>2 DEF EndNext, EndHandle
  <2> QED
    BY <2>2, <2>3, <2>4 DEF TypeOK, Tasks
<1>3. ASSUME NEW s \in Shares, EndActivationJob(s) PROVE TypeOK'
  <2>1. act' \in [Shares -> Acts] /\ running' \subseteq Job
    <3>1. act \in [Shares -> Acts] /\ running \subseteq Job
      BY DEF TypeOK, Acts
    <3> QED
      BY <1>3, <3>1 DEF EndActivationJob, Acts
  <2>2. UNCHANGED <<phase, conn, loop, row, beats, watchVars, jobs, regVars, ctlVars>>
    BY <1>3 DEF EndActivationJob
  <2> QED
    BY <2>1, <2>2 DEF TypeOK, Acts
<1>4. ASSUME NEW s \in Shares, SubmitWork(s) PROVE TypeOK'
  <2>1. jobs' \in Seq(Job)
    BY <1>4, SubmitType DEF SubmitWork
  <2> QED
    BY <1>4, <2>1 DEF SubmitWork, TypeOK
<1>5. ASSUME NEW s \in Shares, EndWork(s) PROVE TypeOK'
  BY <1>5 DEF EndWork, TypeOK
<1> QED
  BY <1>1, <1>2, <1>3, <1>4, <1>5

\* What a stream that is let go leaves behind.
LEMMA ReleaseType ==
    ASSUME TypeOK, NEW X, Release(X)
    PROVE  /\ stream' \in [Streams -> {"over", "queued", "open"}]
           /\ inbox' \in [Streams -> BOOLEAN]
  BY DEF Release, TypeOK

LEMMA EndTaskType ==
    ASSUME TypeOK, NEW s \in Shares, EndTask(s)
    PROVE  /\ wt' \in [Shares -> Tasks]
           /\ stream' \in [Streams -> {"over", "queued", "open"}]
           /\ inbox' \in [Streams -> BOOLEAN]
<1>1. wt' \in [Shares -> Tasks]
  BY DEF EndTask, TypeOK, Tasks
<1> QED
  BY <1>1, ReleaseType DEF EndTask

LEMMA HandledType ==
    ASSUME TypeOK, NEW s \in Shares, Handled(s)
    PROVE  /\ wt' \in [Shares -> Tasks] /\ backoff' \in [Shares -> 1..BackoffMax]
           /\ stream' \in [Streams -> {"over", "queued", "open"}]
           /\ inbox' \in [Streams -> BOOLEAN] /\ jobs' \in Seq(Job)
<1>0. /\ wt \in [Shares -> Tasks] /\ backoff \in [Shares -> 1..BackoffMax]
      /\ stream \in [Streams -> {"over", "queued", "open"}]
      /\ inbox \in [Streams -> BOOLEAN] /\ jobs \in Seq(Job)
      /\ Cur(s) \in Streams /\ 1 \in 1..BackoffMax
  BY CurParts, Numbers DEF TypeOK, Tasks
<1>1. CASE EndTask(s) /\ UNCHANGED <<backoff, jobs>>
  BY <1>0, <1>1, EndTaskType
<1>2. CASE /\ wt' = Set(wt, s, "next") /\ Submit("next", Cur(s))
           /\ backoff' = Set(backoff, s, 1) /\ UNCHANGED <<stream, inbox>>
  <2>1. jobs' \in Seq(Job)
    BY <1>0, <1>2, SubmitStreamType
  <2> QED
    BY <1>0, <1>2, <2>1 DEF Tasks
<1>3. CASE wt' = Set(wt, s, "lost") /\ UNCHANGED <<backoff, stream, inbox, jobs>>
  BY <1>0, <1>3 DEF Tasks
<1> QED
  BY <1>1, <1>2, <1>3 DEF Handled

LEMMA WatchType == ASSUME TypeOK, NEW s \in Shares, WatchStep(s) PROVE TypeOK'
<1>0. wt \in [Shares -> Tasks] /\ Cur(s) \in Streams
  BY CurParts DEF TypeOK, Tasks
<1>1. CASE WatchConnect(s)
  <2>1. /\ wt' \in [Shares -> Tasks] /\ cur' \in [Shares -> 1..Gens]
        /\ stream' \in [Streams -> {"over", "queued", "open"}]
        /\ inbox' \in [Streams -> BOOLEAN]
        /\ jobs' \in Seq(Job) /\ waiting' \in Seq(Call)
    <3>1. CASE EndTask(s) /\ UNCHANGED <<cur, waiting, jobs>>
      BY <3>1, EndTaskType DEF TypeOK
    <3>2. ASSUME NEW n \in 1..Gens, Connect(s, n)
          PROVE  /\ wt' \in [Shares -> Tasks] /\ cur' \in [Shares -> 1..Gens]
                 /\ stream' \in [Streams -> {"over", "queued", "open"}]
                 /\ inbox' \in [Streams -> BOOLEAN]
                 /\ jobs' \in Seq(Job) /\ waiting' \in Seq(Call)
      <4>1. <<s, n>> \in Streams /\ <<"watch", <<s, n>>>> \in Call
        BY StreamParts DEF Call
      <4>2. jobs' \in Seq(Job)
        BY <3>2, <4>1, SubmitStreamType DEF Connect
      <4>3. waiting' \in Seq(Call)
        BY <3>2, <4>1, QueueTypes DEF Connect, Invoke, TypeOK
      <4>4. wt' \in [Shares -> Tasks] /\ cur' \in [Shares -> 1..Gens]
        BY <1>0, <3>2 DEF Connect, TypeOK, Tasks
      <4>5. /\ stream' \in [Streams -> {"over", "queued", "open"}]
            /\ inbox' \in [Streams -> BOOLEAN]
        BY <3>2 DEF Connect, TypeOK
      <4> QED
        BY <4>2, <4>3, <4>4, <4>5
    <3> QED
      BY <1>1, <3>1, <3>2 DEF WatchConnect
  <2> QED
    BY <1>1, <2>1 DEF WatchConnect, TypeOK, Tasks
<1>2. CASE WatchEvent(s) \/ WatchHandled(s)
  <2>1. /\ wt' \in [Shares -> Tasks] /\ backoff' \in [Shares -> 1..BackoffMax]
        /\ stream' \in [Streams -> {"over", "queued", "open"}]
        /\ inbox' \in [Streams -> BOOLEAN] /\ jobs' \in Seq(Job)
    <3>1. CASE Handled(s)
      BY <3>1, HandledType
    <3>2. CASE EndTask(s) /\ UNCHANGED <<backoff, jobs>>
      BY <3>2, EndTaskType DEF TypeOK
    <3>3. CASE /\ wt' = Set(wt, s, "handling") /\ Submit("handle", Cur(s))
               /\ UNCHANGED <<backoff, stream, inbox>>
      <4>1. jobs' \in Seq(Job)
        BY <1>0, <3>3, SubmitStreamType
      <4> QED
        BY <1>0, <3>3, <4>1 DEF TypeOK, Tasks
    <3> QED
      BY <1>2, <3>1, <3>2, <3>3 DEF WatchEvent, WatchHandled
  <2>2. UNCHANGED <<coordVars, loop, stop, cur, running, regVars, ctlVars>>
    BY <1>2 DEF WatchEvent, WatchHandled
  <2> QED
    BY <2>1, <2>2 DEF TypeOK, Tasks
<1>3. CASE WatchLost(s)
  <2>1. backoff' \in [Shares -> 1..BackoffMax]
    <3> DEFINE b == IF 2 * backoff[s] < BackoffMax THEN 2 * backoff[s] ELSE BackoffMax
    <3>1. backoff \in [Shares -> 1..BackoffMax] /\ backoff[s] \in 1..BackoffMax
      BY DEF TypeOK
    <3>2. b \in 1..BackoffMax
      BY <3>1, Numbers
    <3>3. backoff' = backoff \/ backoff' = [backoff EXCEPT ![s] = b]
      BY <1>3 DEF WatchLost
    <3> HIDE DEF b
    <3> QED
      BY <3>1, <3>2, <3>3
  <2>2. /\ wt' \in [Shares -> Tasks]
        /\ stream' \in [Streams -> {"over", "queued", "open"}]
        /\ inbox' \in [Streams -> BOOLEAN]
    <3>1. CASE EndTask(s)
      BY <3>1, EndTaskType
    <3>2. CASE wt' = Set(wt, s, "sleep") /\ UNCHANGED <<stream, inbox>>
      BY <1>0, <3>2 DEF TypeOK, Tasks
    <3> QED
      BY <1>3, <3>1, <3>2 DEF WatchLost
  <2>3. UNCHANGED <<coordVars, loop, stop, cur, poolVars, regVars, ctlVars>>
    BY <1>3 DEF WatchLost
  <2> QED
    BY <2>1, <2>2, <2>3 DEF TypeOK, Tasks
<1>4. CASE WatchWakes(s)
  <2>1. wt' \in [Shares -> Tasks]
    BY <1>0, <1>4 DEF WatchWakes, Tasks
  <2> QED
    BY <1>4, <2>1 DEF WatchWakes, TypeOK, Tasks
<1> QED
  BY <1>1, <1>2, <1>3, <1>4 DEF WatchStep

LEMMA CancelTaskType ==
    ASSUME TypeOK, NEW S, CancelTask(S)
    PROVE  /\ wt' \in [Shares -> Tasks]
           /\ stream' \in [Streams -> {"over", "queued", "open"}]
           /\ inbox' \in [Streams -> BOOLEAN]
<1>1. wt' \in [Shares -> Tasks]
  BY DEF CancelTask, TypeOK, Tasks
<1> QED
  BY <1>1, ReleaseType DEF CancelTask

\* ControlServicer, and the end of the daemon.
LEMMA ControlType ==
    ASSUME TypeOK, NEW c \in Clients,
           \/ ControlAsks(c) \/ ControlTaken(c) \/ ControlError(c)
           \/ DirectRpcReturns(c) \/ ControlReturns(c) \/ ClientLeaves(c)
    PROVE  TypeOK'
<1>1. ctl' \in [Clients -> {"idle", "asked", "loop", "watching", "registry"} \cup Shares]
  BY DEF TypeOK, ControlAsks, ControlTaken, DirectCall, DirectRpc, LoopCall, WatchStatus,
         ControlError, DirectRpcReturns, ControlReturns, ClientLeaves, Caller
<1>2. ops' \in 0..MaxOps
  BY Numbers DEF TypeOK, ControlAsks, ControlTaken, DirectCall, DirectRpc, LoopCall,
         WatchStatus, ControlError, DirectRpcReturns, ControlReturns, ClientLeaves
<1>3. <<"control", c>> \in Call
  BY DEF Call
<1>4. waiting' \in Seq(Call)
  BY <1>3, QueueTypes DEF TypeOK, ControlAsks, ControlTaken, DirectCall, DirectRpc,
         Invoke, LoopCall, WatchStatus, ControlError, DirectRpcReturns, ControlReturns,
         ClientLeaves
<1>5. serving' \subseteq serving
      /\ UNCHANGED <<coordVars, loop, watchVars, poolVars, up, outages>>
  BY DEF ControlAsks, ControlTaken, DirectCall, DirectRpc, LoopCall, WatchStatus,
         ControlError, DirectRpcReturns, ControlReturns, ClientLeaves
<1> QED
  BY <1>1, <1>2, <1>4, <1>5 DEF TypeOK

\* Control calls that run on the loop.
LEMMA ControlRunsType ==
    ASSUME TypeOK, NEW c \in Clients,
           ControlRpc(c) \/ \E s \in Shares : \/ ControlPause(c, s) \/ ControlResume(c, s)
                                              \/ ControlAdd(c, s) \/ ControlRemove(c, s)
    PROVE  TypeOK'
<1>0. CoordType /\ {"active", "paused", "absent"} \subseteq Rows
  BY CoordTyped DEF Rows
<1> DEFINE Ctl == {"idle", "asked", "loop", "watching", "registry"} \cup Shares
<1>1. CASE ControlRpc(c)
  <2>1. loop' \in LoopCalls /\ waiting' \in Seq(Call)
    BY <1>1, CallType DEF ControlRpc
  <2>2. CoordType'
    BY <1>0, <1>1, <2>1 DEF ControlRpc, CoordType
  <2> QED
    BY <1>1, <2>2, CoordSuffices DEF ControlRpc
<1>2. ASSUME NEW s \in Shares, ControlPause(c, s) PROVE TypeOK'
  <2>1. row' \in [Shares -> Rows]
    BY <1>0, <1>2, StateType DEF ControlPause
  <2>2. stop' \in [Shares -> BOOLEAN] /\ ctl' \in [Clients -> Ctl]
    BY <1>2 DEF ControlPause, Caller, TypeOK
  <2> QED
    BY <1>2, <2>1, <2>2 DEF ControlPause, TypeOK, Rows
<1>3. ASSUME NEW s \in Shares, ControlResume(c, s) PROVE TypeOK'
  <2>1. row' \in [Shares -> Rows] /\ jobs' \in Seq(Job) /\ act' \in [Shares -> Acts]
    BY <1>0, <1>3, StateType, SubmitType DEF ControlResume
  <2>2. ctl' \in [Clients -> Ctl]
    BY <1>3 DEF ControlResume, Caller, TypeOK
  <2> QED
    BY <1>3, <2>1, <2>2 DEF ControlResume, TypeOK, Rows, Acts
<1>4. ASSUME NEW s \in Shares, ControlAdd(c, s) PROVE TypeOK'
  <2>1. /\ row' \in [Shares -> Rows] /\ jobs' \in Seq(Job) /\ act' \in [Shares -> Acts]
        /\ loop' \in LoopCalls /\ waiting' \in Seq(Call)
    <3>1. CASE /\ row' = Set(row, s, "active") /\ StartActivation(s)
               /\ UNCHANGED <<loop, waiting>>
      BY <1>0, <3>1, StateType, SubmitType DEF CoordType
    <3>2. CASE /\ s \in Remote /\ CallRegistry("add", s) /\ UNCHANGED <<row, act, jobs>>
      BY <1>0, <3>2, CallType DEF CoordType
    <3> QED
      BY <1>4, <3>1, <3>2 DEF ControlAdd, Remote
  <2>2. ctl' \in [Clients -> Ctl]
    BY <1>4 DEF ControlAdd, Caller, TypeOK
  <2> QED
    BY <1>4, <2>1, <2>2 DEF ControlAdd, TypeOK, Rows, Acts, LoopCalls
<1>5. ASSUME NEW s \in Shares, ControlRemove(c, s) PROVE TypeOK'
  <2>1. row' \in [Shares -> Rows]
    BY <1>0, <1>5, StateType DEF ControlRemove
  <2>2. jobs' \in Seq(Job)
    BY <1>0, <1>5, CancelJobsType DEF ControlRemove, CancelTask, CoordType
  <2>3. stop' \in [Shares -> BOOLEAN] /\ ctl' \in [Clients -> Ctl] /\ beats' \subseteq Remote
    BY <1>5 DEF ControlRemove, Caller, TypeOK
  <2>4. /\ wt' \in [Shares -> Tasks]
        /\ stream' \in [Streams -> {"over", "queued", "open"}]
        /\ inbox' \in [Streams -> BOOLEAN]
    BY <1>5, CancelTaskType DEF ControlRemove
  <2> QED
    BY <1>5, <2>1, <2>2, <2>3, <2>4 DEF ControlRemove, TypeOK, Rows, Tasks
<1> QED
  BY <1>1, <1>2, <1>3, <1>4, <1>5

LEMMA StopType == ASSUME TypeOK, Stop \/ Stopped PROVE TypeOK'
<1>1. CASE Stop
  <2>1. jobs' \in Seq(Job)
    BY <1>1, CancelJobsType DEF Stop, CancelTask, TypeOK
  <2>2. /\ wt' \in [Shares -> Tasks]
        /\ stream' \in [Streams -> {"over", "queued", "open"}]
        /\ inbox' \in [Streams -> BOOLEAN]
    BY <1>1, CancelTaskType DEF Stop
  <2> QED
    BY <1>1, <2>1, <2>2 DEF Stop, TypeOK, Tasks
<1>2. CASE Stopped
  BY <1>2 DEF Stopped, TypeOK
<1> QED
  BY <1>1, <1>2

LEMMA TypeStep == TypeOK /\ [Next]_vars => TypeOK'
<1> SUFFICES ASSUME TypeOK, [Next]_vars PROVE TypeOK'
  OBVIOUS
<1>1. CASE UNCHANGED vars
  BY <1>1 DEF vars, TypeOK
<1>2. CASE ServeNext \/ GoDown \/ ComeUp
           \/ \E x \in Streams : SendEvent(x) \/ StreamDropped(x)
  BY <1>2, RegistryType
<1>3. CASE RegisterStep \/ \E s \in Shares : ActivationStep(s) \/ Heartbeat(s)
  BY <1>3, ActivationType
<1>4. CASE CallReturns
  BY <1>4, ReturnsType
<1>5. CASE \/ StartJob \/ \E x \in Streams : EndNext(x) \/ EndHandle(x)
           \/ \E s \in Shares : EndActivationJob(s) \/ SubmitWork(s) \/ EndWork(s)
  BY <1>5, PoolType
<1>6. ASSUME NEW s \in Shares, WatchStep(s) PROVE TypeOK'
  BY <1>6, WatchType
<1>7. ASSUME NEW c \in Clients,
             \/ ControlAsks(c) \/ ControlTaken(c) \/ ControlRuns(c)
             \/ DirectRpcReturns(c) \/ ControlReturns(c) \/ ClientLeaves(c)
      PROVE  TypeOK'
  BY <1>7, ControlType, ControlRunsType DEF ControlRuns
<1>8. CASE Stop \/ Stopped
  BY <1>8, StopType
<1> QED
  BY <1>1, <1>2, <1>3, <1>4, <1>5, <1>6, <1>7, <1>8 DEF Next

\* Type correctness: the loop is blocked only for shares that have a registry
\* and for clients, and the reconnect interval stays between 1 and its maximum.
THEOREM TypeCorrect == Spec => []TypeOK
  BY TypeInit, TypeStep, PTL DEF Spec

-----------------------------------------------------------------------------
(* Threads in next() *)

\* Most steps leave the next() of every stream where it is: they append other
\* jobs, start a task or break a stream.
Elsewhere ==
    /\ jobs' = jobs \/ \E j \in Job : j[1] # "next" /\ jobs' = Append(jobs, j)
    /\ cur' = cur
    /\ \A s \in Shares : \/ wt'[s] = wt[s]
                         \/ wt[s] = "none" /\ wt'[s] = "connect"
                         \/ wt[s] = "handling" /\ wt'[s] = "handled"
    /\ \A x \in Streams : /\ stream[x] = "over" => stream'[x] = "over"
                          /\ NextOf(x) \in running' <=> NextOf(x) \in running

LEMMA ElsewhereKeeps ==
    ASSUME TypeOK, ThreadInv, Elsewhere
    PROVE  ThreadInv'
<1> SUFFICES ASSUME NEW x \in Streams PROVE NextInv(x)'
  BY DEF ThreadInv, Streams
<1>1. NextInv(x) /\ jobs \in Seq(Job) /\ x[1] \in Shares
  BY StreamParts DEF ThreadInv, TypeOK
<1>2. /\ \/ wt'[x[1]] = wt[x[1]]
         \/ wt[x[1]] = "none" /\ wt'[x[1]] = "connect"
         \/ wt[x[1]] = "handling" /\ wt'[x[1]] = "handled"
      /\ cur' = cur
      /\ stream[x] = "over" => stream'[x] = "over"
      /\ NextOf(x) \in running' <=> NextOf(x) \in running
  BY <1>1 DEF Elsewhere
<1>3. \A i \in 1..Len(jobs') : jobs'[i] = NextOf(x) =>
         i \in 1..Len(jobs) /\ jobs[i] = NextOf(x)
  <2>1. CASE jobs' = jobs
    BY <2>1
  <2>2. ASSUME NEW j \in Job, j[1] # "next", jobs' = Append(jobs, j)
        PROVE  \A i \in 1..Len(jobs') : jobs'[i] = NextOf(x) =>
                  i \in 1..Len(jobs) /\ jobs[i] = NextOf(x)
    <3>1. j # NextOf(x)
      BY <2>2 DEF NextOf
    <3>2. Len(jobs') = Len(jobs) + 1 /\ jobs'[Len(jobs) + 1] = j
          /\ \A i \in 1..Len(jobs) : jobs'[i] = jobs[i]
      BY <1>1, <2>2
    <3> QED
      BY <1>1, <3>1, <3>2
  <2> QED
    BY <2>1, <2>2 DEF Elsewhere
<1>4. Awaits(x, "next") => Awaits(x, "next")'
  BY <1>2 DEF Awaits
<1>5. \A i \in 1..Len(jobs') : jobs'[i] = NextOf(x) =>
          /\ Awaits(x, "next")' /\ NextOf(x) \notin running'
          /\ \A j \in 1..Len(jobs') : jobs'[j] = NextOf(x) => j = i
  BY <1>1, <1>2, <1>3, <1>4 DEF NextInv
<1>6. NextOf(x) \in running' =>
          \/ Awaits(x, "next")'
          \/ /\ stream'[x] = "over"
             /\ cur'[x[1]] = x[2] => wt'[x[1]] \in {"none", "connect", "ended"}
  BY <1>1, <1>2, <1>4 DEF NextInv
<1> QED
  BY <1>5, <1>6 DEF NextInv, NextOf

\* A thread takes the first job: it is the only next() of its stream, and now it
\* runs.
LEMMA StartKeeps ==
    ASSUME TypeOK, ThreadInv, StartJob
    PROVE  ThreadInv'
<1> SUFFICES ASSUME NEW x \in Streams PROVE NextInv(x)'
  BY DEF ThreadInv, Streams
<1>1. NextInv(x) /\ jobs \in Seq(Job)
  BY DEF ThreadInv, TypeOK
<1>2. /\ jobs # <<>> /\ jobs' = Tail(jobs) /\ UNCHANGED <<wt, cur, stream>>
      /\ running' \subseteq running \cup {Head(jobs)}
  BY DEF StartJob
<1>3. /\ Head(jobs) = jobs[1] /\ 1 \in 1..Len(jobs)
      /\ \A i \in 1..Len(jobs') : i + 1 \in 1..Len(jobs) /\ jobs'[i] = jobs[i + 1]
  BY <1>1, <1>2
<1>0. Awaits(x, "next") => Awaits(x, "next")'
  BY <1>2 DEF Awaits
<1>4. ASSUME NEW i \in 1..Len(jobs'), jobs'[i] = NextOf(x)
      PROVE  /\ Awaits(x, "next")' /\ NextOf(x) \notin running'
             /\ \A j \in 1..Len(jobs') : jobs'[j] = NextOf(x) => j = i
  <2>1. i + 1 \in 1..Len(jobs) /\ jobs[i + 1] = NextOf(x) /\ i + 1 # 1
    BY <1>3, <1>4
  <2>2. /\ Awaits(x, "next") /\ NextOf(x) \notin running
        /\ \A j \in 1..Len(jobs) : jobs[j] = NextOf(x) => j = i + 1
    BY <1>1, <2>1 DEF NextInv
  <2>3. Head(jobs) # NextOf(x)
    BY <1>3, <2>1, <2>2
  <2>4. ASSUME NEW j \in 1..Len(jobs'), jobs'[j] = NextOf(x) PROVE j = i
    <3>1. j + 1 \in 1..Len(jobs) /\ jobs[j + 1] = NextOf(x)
      BY <1>3, <2>4
    <3>2. j + 1 = i + 1
      BY <2>2, <3>1
    <3> QED
      BY <3>2
  <2> QED
    BY <1>0, <1>2, <2>2, <2>3, <2>4
<1>5. NextOf(x) \in running' =>
          \/ Awaits(x, "next")'
          \/ /\ stream'[x] = "over"
             /\ cur'[x[1]] = x[2] => wt'[x[1]] \in {"none", "connect", "ended"}
  <2>1. CASE NextOf(x) \in running
    BY <1>0, <1>1, <1>2, <2>1 DEF NextInv
  <2>2. CASE Head(jobs) = NextOf(x)
    BY <1>0, <1>1, <1>2, <1>3, <2>2 DEF NextInv
  <2> QED
    BY <1>2, <2>1, <2>2
<1> QED
  BY <1>4, <1>5 DEF NextInv, NextOf

\* next() returns: no other one of the stream is left, and another stream of the
\* share is not the one its task reads.
LEMMA EndKeeps ==
    ASSUME TypeOK, ThreadInv, NEW y \in Streams, EndNext(y)
    PROVE  ThreadInv'
<1> SUFFICES ASSUME NEW x \in Streams PROVE NextInv(x)'
  BY DEF ThreadInv, Streams
<1>1. NextInv(x) /\ wt \in [Shares -> Tasks]
  BY DEF ThreadInv, TypeOK, Tasks
<1>2. /\ NextOf(y) \in running /\ running' = running \ {NextOf(y)}
      /\ UNCHANGED <<jobs, cur, stream>>
  BY DEF EndNext, NextOf
<1>3. CASE x = y
  <2>1. \A i \in 1..Len(jobs) : jobs[i] # NextOf(x)
    BY <1>1, <1>2, <1>3 DEF NextInv
  <2> QED
    BY <1>2, <1>3, <2>1 DEF NextInv, NextOf
<1>4. CASE x # y
  <2>1. cur[x[1]] # x[2] \/ wt'[x[1]] = wt[x[1]]
    <3>1. CASE x[1] = y[1]
      BY <1>4, <3>1, StreamParts DEF EndNext, Awaits
    <3>2. CASE x[1] # y[1]
      BY <1>1, <3>2, StreamParts DEF EndNext
    <3> QED
      BY <3>1, <3>2
  <2>2. NextOf(x) # NextOf(y)
    BY <1>4 DEF NextOf
  <2>3. Awaits(x, "next") => Awaits(x, "next")'
    BY <1>2, <2>1 DEF Awaits
  <2> QED
    BY <1>1, <1>2, <2>1, <2>2, <2>3 DEF NextInv, NextOf
<1> QED
  BY <1>3, <1>4

\* A task that connects takes a stream that nobody holds and lets go of the one it
\* had; those that threads still sit in are over.
LEMMA ConnectKeeps ==
    ASSUME TypeOK, ThreadInv, NEW s \in Shares, NEW n \in 1..Gens,
           wt[s] = "connect", Connect(s, n), running' = running
    PROVE  ThreadInv'
<1> DEFINE y == <<s, n>>
<1> SUFFICES ASSUME NEW x \in Streams PROVE NextInv(x)'
  BY DEF ThreadInv, Streams
<1>1. /\ NextInv(x) /\ wt \in [Shares -> Tasks] /\ cur \in [Shares -> 1..Gens]
      /\ jobs \in Seq(Job) /\ Len(jobs) \in Nat
  BY DEF ThreadInv, TypeOK, Tasks
<1>2. y \in Streams /\ y = <<s, n>> /\ y[1] = s /\ y[2] = n /\ NextOf(y) \in Job
  BY StreamParts DEF NextOf, Job
<1>3. NextOf(y) \notin running /\ \A i \in 1..Len(jobs) : jobs[i] # NextOf(y)
  <2>1. Unused(y)
    BY DEF Connect
  <2> HIDE DEF y
  <2>2. NextOf(y) \notin running \cup Range(jobs)
    BY <2>1 DEF Unused, NextOf
  <2>3. \A i \in 1..Len(jobs) : jobs[i] \in Range(jobs)
    BY <1>1 DEF Range
  <2> QED
    BY <2>2, <2>3
<1>4. /\ cur' = [cur EXCEPT ![s] = n] /\ wt' = [wt EXCEPT ![s] = "next"]
      /\ jobs' = Append(jobs, NextOf(y))
      /\ x # y /\ stream[x] = "over" => stream'[x] = "over"
  BY DEF Connect, Submit, NextOf
<1> HIDE DEF y
<1>5. /\ Len(jobs') = Len(jobs) + 1 /\ jobs'[Len(jobs) + 1] = NextOf(y)
      /\ \A i \in 1..Len(jobs) : jobs'[i] = jobs[i]
  BY <1>1, <1>2, <1>4
<1>6. CASE x = y
  <2>1. Awaits(x, "next")'
    BY <1>1, <1>2, <1>4, <1>6 DEF Awaits
  <2>2. \A i \in 1..Len(jobs') : jobs'[i] = NextOf(x) => i = Len(jobs) + 1
    BY <1>1, <1>3, <1>5, <1>6
  <2> QED
    BY <1>3, <1>6, <2>1, <2>2 DEF NextInv, NextOf
<1>7. CASE x # y
  <2>1. NextOf(x) # NextOf(y)
    BY <1>7 DEF NextOf
  <2>2. \A i \in 1..Len(jobs') : jobs'[i] = NextOf(x) =>
           i \in 1..Len(jobs) /\ jobs[i] = NextOf(x)
    BY <1>1, <1>5, <2>1
  <2>3. CASE x[1] = s
    <3>1. cur'[x[1]] # x[2]
      <4>1. cur'[s] = n /\ x = <<x[1], x[2]>>
        BY <1>1, <1>4, StreamParts
      <4> QED
        BY <1>2, <1>7, <2>3, <4>1
    <3>2. ~Awaits(x, "next")
      BY <2>3 DEF Awaits
    <3>3. \A i \in 1..Len(jobs) : jobs[i] # NextOf(x)
      BY <1>1, <3>2 DEF NextInv
    <3>4. NextOf(x) \in running => stream'[x] = "over"
      BY <1>1, <1>4, <1>7, <3>2 DEF NextInv
    <3> QED
      BY <2>2, <3>1, <3>3, <3>4 DEF NextInv, NextOf
  <2>4. CASE x[1] # s
    <3>1. wt'[x[1]] = wt[x[1]] /\ cur'[x[1]] = cur[x[1]]
      BY <1>1, <1>4, <2>4, StreamParts
    <3>2. Awaits(x, "next") => Awaits(x, "next")'
      BY <3>1 DEF Awaits
    <3> QED
      BY <1>1, <1>4, <1>7, <2>2, <3>1, <3>2 DEF NextInv, NextOf
  <2> QED
    BY <2>3, <2>4
<1> QED
  BY <1>6, <1>7

\* A task that handles an event, has lost its stream or sleeps has no next(), so
\* the one it starts on its stream is the only one.
LEMMA TaskKeeps ==
    ASSUME TypeOK, ThreadInv, NEW s \in Shares, NEW v \in Tasks,
           wt[s] \in {"connect", "event", "handled", "lost", "sleep"},
           wt' = [wt EXCEPT ![s] = v], cur' = cur, running' = running,
           \A x \in Streams : stream[x] = "over" => stream'[x] = "over",
           wt[s] = "connect" => v = "ended",
           \/ v # "next" /\ (jobs' = jobs \/ jobs' = Append(jobs, <<"handle", Cur(s)>>))
           \/ v = "next" /\ jobs' = Append(jobs, NextOf(Cur(s)))
    PROVE  ThreadInv'
<1> SUFFICES ASSUME NEW x \in Streams PROVE NextInv(x)'
  BY DEF ThreadInv, Streams
<1>1. /\ NextInv(x) /\ wt \in [Shares -> Tasks] /\ cur \in [Shares -> 1..Gens]
      /\ jobs \in Seq(Job) /\ Len(jobs) \in Nat
  BY DEF ThreadInv, TypeOK, Tasks
<1>2. Cur(s) \in Streams /\ Cur(s)[1] = s /\ Cur(s)[2] = cur[s]
      /\ {NextOf(Cur(s)), <<"handle", Cur(s)>>} \subseteq Job
  BY <1>1, CurParts DEF NextOf, Job
<1>3. \A i \in 1..Len(jobs') :
         \/ i \in 1..Len(jobs) /\ jobs'[i] = jobs[i]
         \/ i = Len(jobs) + 1 /\ jobs'[i] \in {NextOf(Cur(s)), <<"handle", Cur(s)>>}
                              /\ (jobs'[i] = NextOf(Cur(s)) => v = "next")
  <2>1. NextOf(Cur(s)) # <<"handle", Cur(s)>>
    BY DEF NextOf
  <2>2. ASSUME NEW j \in {NextOf(Cur(s)), <<"handle", Cur(s)>>}, jobs' = Append(jobs, j)
        PROVE  /\ Len(jobs') = Len(jobs) + 1 /\ jobs'[Len(jobs) + 1] = j
               /\ \A i \in 1..Len(jobs) : jobs'[i] = jobs[i]
    BY <1>1, <1>2, <2>2
  <2>3. CASE jobs' = jobs
    BY <2>3
  <2>4. CASE jobs' = Append(jobs, <<"handle", Cur(s)>>)
    BY <1>1, <2>1, <2>2, <2>4
  <2>5. CASE v = "next" /\ jobs' = Append(jobs, NextOf(Cur(s)))
    BY <1>1, <2>2, <2>5
  <2> QED
    BY <2>3, <2>4, <2>5
<1>4. CASE x = Cur(s)
  <2>1. ~Awaits(x, "next") /\ cur[x[1]] = x[2]
    BY <1>2, <1>4 DEF Awaits
  <2>2. \A i \in 1..Len(jobs) : jobs[i] # NextOf(x)
    BY <1>1, <2>1 DEF NextInv
  <2>3. wt[s] # "connect" => NextOf(x) \notin running
    BY <1>1, <1>2, <1>4, <2>1 DEF NextInv
  <2>4. v = "next" => Awaits(x, "next")'
    BY <1>1, <1>2, <1>4 DEF Awaits
  <2>5. \A i \in 1..Len(jobs') : jobs'[i] = NextOf(x) => i = Len(jobs) + 1 /\ v = "next"
    BY <1>3, <1>4, <2>2
  <2>6. NextOf(x) \in running => stream'[x] = "over" /\ wt'[x[1]] = "ended"
    BY <1>1, <1>2, <1>4, <2>1, <2>3 DEF NextInv
  <2>7. v = "next" => NextOf(x) \notin running
    BY <2>3
  <2> QED
    BY <2>4, <2>5, <2>6, <2>7 DEF NextInv, NextOf
<1>5. CASE x # Cur(s)
  <2>1. NextOf(x) \notin {NextOf(Cur(s)), <<"handle", Cur(s)>>}
    BY <1>5 DEF NextOf
  <2>2. \A i \in 1..Len(jobs') : jobs'[i] = NextOf(x) =>
           i \in 1..Len(jobs) /\ jobs[i] = NextOf(x)
    BY <1>3, <2>1
  <2>3. cur[x[1]] # x[2] \/ wt'[x[1]] = wt[x[1]]
    <3>1. x[1] # s => wt'[x[1]] = wt[x[1]]
      BY <1>1, StreamParts
    <3>2. x[1] = s => cur[x[1]] # x[2]
      BY <1>5, StreamParts DEF Cur
    <3> QED
      BY <3>1, <3>2
  <2>4. Awaits(x, "next") => Awaits(x, "next")'
    BY <2>3 DEF Awaits
  <2> QED
    BY <1>1, <2>2, <2>3, <2>4 DEF NextInv, NextOf
<1> QED
  BY <1>4, <1>5

\* What is let go is over, and nothing opens.
LEMMA ReleaseOver ==
    ASSUME NEW X, Release(X)
    PROVE  \A x \in Streams : stream[x] = "over" \/ x \in X => stream'[x] = "over"
  BY DEF Release

LEMMA WatchKeeps ==
    ASSUME TypeOK, ThreadInv, NEW s \in Shares, WatchStep(s)
    PROVE  ThreadInv'
<1> DEFINE Closed == \A x \in Streams : stream[x] = "over" => stream'[x] = "over"
<1>1. EndTask(s) => Closed /\ wt' = [wt EXCEPT ![s] = "ended"]
  BY ReleaseOver DEF EndTask
<1>2. Handled(s) => \/ /\ Closed /\ jobs' = jobs
                       /\ \E v \in {"ended", "lost"} : wt' = [wt EXCEPT ![s] = v]
                    \/ /\ Closed /\ jobs' = Append(jobs, NextOf(Cur(s)))
                       /\ wt' = [wt EXCEPT ![s] = "next"]
  BY <1>1 DEF Handled, Submit, NextOf
<1> DEFINE Ends == /\ Closed /\ jobs' = jobs /\ cur' = cur /\ running' = running
                   /\ wt' = [wt EXCEPT ![s] = "ended"]
<1>3. CASE WatchConnect(s)
  <2>1. wt[s] = "connect" /\ running' = running
    BY <1>3 DEF WatchConnect
  <2>2. Ends \/ \E n \in 1..Gens : Connect(s, n)
    BY <1>1, <1>3 DEF WatchConnect
  <2>3. CASE Ends
    <3> HIDE DEF Closed
    <3>1. "ended" \in Tasks
      BY DEF Tasks
    <3> QED
      BY <2>1, <2>3, <3>1, TaskKeeps DEF Closed
  <2> QED
    BY <2>1, <2>2, <2>3, ConnectKeeps
<1>4. CASE WatchEvent(s) \/ WatchHandled(s) \/ WatchLost(s)
  <2>1. wt[s] \in {"event", "handled", "lost"} /\ cur' = cur /\ running' = running
    BY <1>4 DEF WatchEvent, WatchHandled, WatchLost
  <2>2. \/ /\ Closed /\ jobs' = jobs
           /\ \E v \in {"ended", "lost", "sleep"} : wt' = [wt EXCEPT ![s] = v]
        \/ /\ Closed /\ jobs' = Append(jobs, NextOf(Cur(s)))
           /\ wt' = [wt EXCEPT ![s] = "next"]
        \/ /\ Closed /\ jobs' = Append(jobs, <<"handle", Cur(s)>>)
           /\ wt' = [wt EXCEPT ![s] = "handling"]
    BY <1>1, <1>2, <1>4 DEF WatchEvent, WatchHandled, WatchLost, Submit
  <2>3. {"ended", "lost", "sleep", "next", "handling"} \subseteq Tasks
    BY DEF Tasks
  <2> HIDE DEF Closed
  <2>4. ASSUME Closed, jobs' = jobs, NEW v \in {"ended", "lost", "sleep"},
               wt' = [wt EXCEPT ![s] = v]
        PROVE  ThreadInv'
    BY <2>1, <2>3, <2>4, TaskKeeps DEF Closed
  <2>5. ASSUME Closed, jobs' = Append(jobs, NextOf(Cur(s))),
               wt' = [wt EXCEPT ![s] = "next"]
        PROVE  ThreadInv'
    BY <2>1, <2>3, <2>5, TaskKeeps DEF Closed
  <2>6. ASSUME Closed, jobs' = Append(jobs, <<"handle", Cur(s)>>),
               wt' = [wt EXCEPT ![s] = "handling"]
        PROVE  ThreadInv'
    BY <2>1, <2>3, <2>6, TaskKeeps DEF Closed
  <2> QED
    BY <2>2, <2>4, <2>5, <2>6
<1>5. CASE WatchWakes(s)
  <2>1. /\ wt[s] = "sleep" /\ wt' = [wt EXCEPT ![s] = "connect"] /\ "connect" \in Tasks
        /\ UNCHANGED <<cur, stream, jobs, running>>
    BY <1>5 DEF WatchWakes, Tasks
  <2> QED
    BY <2>1, TaskKeeps
<1> QED
  BY <1>3, <1>4, <1>5 DEF WatchStep

\* A cancelled task leaves no next() in the queue, and its streams are over.
LEMMA CancelKeeps ==
    ASSUME TypeOK, ThreadInv, NEW S, CancelTask(S), UNCHANGED <<cur, running>>
    PROVE  ThreadInv'
<1> SUFFICES ASSUME NEW x \in Streams PROVE NextInv(x)'
  BY DEF ThreadInv, Streams
<1>1. NextInv(x) /\ jobs \in Seq(Job) /\ x[1] \in Shares
  BY StreamParts DEF ThreadInv, TypeOK
<1>2. /\ Len(jobs') = Len(jobs)
      /\ \A i \in 1..Len(jobs) :
            jobs'[i] = IF jobs[i][1] \in {"next", "handle"} /\ jobs[i][2][1] \in S
                       THEN Cancelled ELSE jobs[i]
  BY <1>1, CancelJobsType DEF CancelTask
<1>3. /\ wt'[x[1]] = IF x[1] \in S THEN "none" ELSE wt[x[1]]
      /\ stream[x] = "over" \/ x[1] \in S => stream'[x] = "over"
  BY <1>1, ReleaseOver DEF CancelTask
<1>4. \A i \in 1..Len(jobs) : jobs'[i] = NextOf(x) => jobs[i] = NextOf(x) /\ x[1] \notin S
  <2> SUFFICES ASSUME NEW i \in 1..Len(jobs), jobs'[i] = NextOf(x)
               PROVE  jobs[i] = NextOf(x) /\ x[1] \notin S
    OBVIOUS
  <2>1. NextOf(x)[1] = "next" /\ NextOf(x)[2] = x /\ Cancelled # NextOf(x)
    BY DEF NextOf, Cancelled
  <2>2. jobs[i] = NextOf(x)
    BY <1>2, <2>1
  <2> QED
    BY <1>2, <2>1, <2>2
<1>5. CASE x[1] \in S
  BY <1>2, <1>3, <1>4, <1>5 DEF NextInv, NextOf
<1>6. CASE x[1] \notin S
  <2>1. Awaits(x, "next") => Awaits(x, "next")'
    BY <1>3, <1>6 DEF Awaits
  <2> QED
    BY <1>1, <1>2, <1>3, <1>4, <1>6, <2>1 DEF NextInv, NextOf
<1> QED
  BY <1>5, <1>6

\* Steps that leave jobs, threads, tasks and streams alone.
LEMMA StillElsewhere ==
    ASSUME UNCHANGED <<jobs, wt, cur, stream, running>> PROVE Elsewhere
  BY DEF Elsewhere

\* Jobs of an activation and of the directory are not next().
LEMMA SubmitElsewhere ==
    ASSUME NEW s \in Shares, NEW k \in {"scan", "torrent", "work"}, Submit(k, s)
    PROVE  \E j \in Job : j[1] # "next" /\ jobs' = Append(jobs, j)
<1>1. <<k, s>> \in Job /\ <<k, s>>[1] # "next"
  BY DEF Job
<1> QED
  BY <1>1 DEF Submit

LEMMA TaskElsewhere ==
    ASSUME TypeOK, NEW s \in Shares, WatchTask(s) \/ Announce(s)
    PROVE  \A t \in Shares : wt'[t] = wt[t] \/ (wt[t] = "none" /\ wt'[t] = "connect")
<1>1. wt \in [Shares -> Tasks]
  BY DEF TypeOK, Tasks
<1>2. wt' = wt \/ (wt[s] = "none" /\ wt' = [wt EXCEPT ![s] = "connect"])
  BY DEF WatchTask, Announce
<1> QED
  BY <1>1, <1>2

LEMMA RegistryElsewhere ==
    ASSUME TypeOK,
           ServeNext \/ GoDown \/ ComeUp
             \/ \E x \in Streams : SendEvent(x) \/ StreamDropped(x)
    PROVE  Elsewhere
<1>1. UNCHANGED <<jobs, wt, cur, running>>
  BY DEF ServeNext, GoDown, ComeUp, SendEvent, StreamDropped
<1>2. \A x \in Streams : stream[x] = "over" => stream'[x] = "over"
  <2>1. CASE ServeNext
    <3>1. stream \in [Streams -> {"over", "queued", "open"}]
      BY DEF TypeOK
    <3>2. \/ stream' = stream
          \/ \E y : stream[y] = "queued" /\ stream' = [stream EXCEPT ![y] = "open"]
      BY <2>1 DEF ServeNext
    <3> QED
      BY <3>1, <3>2
  <2>2. CASE GoDown
    BY <2>2 DEF GoDown
  <2>3. CASE ComeUp \/ \E x \in Streams : SendEvent(x) \/ StreamDropped(x)
    BY <2>3 DEF ComeUp, SendEvent, StreamDropped
  <2> QED
    BY <2>1, <2>2, <2>3
<1> QED
  BY <1>1, <1>2 DEF Elsewhere

\* on_event awaited a job.
LEMMA HandleElsewhere ==
    ASSUME TypeOK, NEW y \in Streams, EndHandle(y)
    PROVE  Elsewhere
<1>1. UNCHANGED <<jobs, cur, stream>> /\ running' = running \ {<<"handle", y>>}
  BY DEF EndHandle
<1>2. \A x \in Streams : NextOf(x) # <<"handle", y>>
  BY DEF NextOf
<1>3. \A s \in Shares : wt'[s] = wt[s] \/ (wt[s] = "handling" /\ wt'[s] = "handled")
  BY DEF EndHandle, Awaits, TypeOK
<1> QED
  BY <1>1, <1>2, <1>3 DEF Elsewhere

LEMMA ActivationElsewhere ==
    ASSUME TypeOK, NEW s \in Shares,
           ActivationStep(s) \/ SubmitWork(s) \/ EndActivationJob(s) \/ EndWork(s)
    PROVE  Elsewhere
<1>1. CASE ActivationStep(s) \/ SubmitWork(s)
  <2>1. UNCHANGED <<cur, stream, running>>
    BY <1>1 DEF ActivationStep, ResumeStored, ActivateScanned, ActivateAdded, SubmitWork
  <2>2. jobs' = jobs \/ \E k \in {"scan", "torrent", "work"} : Submit(k, s)
    BY <1>1 DEF ActivationStep, ResumeStored, StartActivation, ActivateScanned,
                ActivateAdded, SubmitWork
  <2>3. wt' = wt \/ Announce(s)
    BY <1>1 DEF ActivationStep, ResumeStored, ActivateScanned, ActivateAdded, SubmitWork
  <2> QED
    BY <2>1, <2>2, <2>3, SubmitElsewhere, TaskElsewhere DEF Elsewhere
<1>2. CASE EndActivationJob(s) \/ EndWork(s)
  <2>1. UNCHANGED <<jobs, wt, cur, stream>>
    BY <1>2 DEF EndActivationJob, EndWork
  <2>2. PICK k \in {"scan", "torrent", "work"} : running' = running \ {<<k, s>>}
    BY <1>2 DEF EndActivationJob, EndWork
  <2>3. \A x \in Streams : NextOf(x) # <<k, s>>
    BY DEF NextOf
  <2> QED
    BY <2>1, <2>2, <2>3 DEF Elsewhere
<1> QED
  BY <1>1, <1>2

LEMMA ReturnsElsewhere ==
    ASSUME TypeOK, CallReturns
    PROVE  Elsewhere
<1>1. loop \in LoopCalls /\ Remote \subseteq Shares
  BY CoordTyped DEF CoordType, Remote
<1>2. CASE RegisterReturns \/ HeartbeatReturns \/ ControlRpcReturns
  BY <1>2, StillElsewhere DEF RegisterReturns, HeartbeatReturns, ControlRpcReturns
<1>3. CASE PeersReturns \/ AnnounceReturns \/ AddReturns
  <2> DEFINE s == loop[2]
  <2>1. s \in Shares
    BY <1>1, <1>3, LoopSubject DEF PeersReturns, AnnounceReturns, AddReturns, CallEnds
  <2>2. UNCHANGED <<cur, stream, running>>
    BY <1>3 DEF PeersReturns, AnnounceReturns, AddReturns
  <2>3. jobs' = jobs \/ \E k \in {"scan", "torrent", "work"} : Submit(k, s)
    BY <1>3 DEF PeersReturns, AnnounceReturns, AddReturns, StartActivation
  <2>4. wt' = wt \/ WatchTask(s) \/ Announce(s)
    BY <1>3 DEF PeersReturns, AnnounceReturns, AddReturns
  <2> HIDE DEF s
  <2> QED
    BY <2>1, <2>2, <2>3, <2>4, SubmitElsewhere, TaskElsewhere DEF Elsewhere
<1> QED
  BY <1>2, <1>3 DEF CallReturns

LEMMA ControlElsewhere ==
    ASSUME TypeOK, NEW c \in Clients,
           \/ ControlAsks(c) \/ ControlTaken(c) \/ ControlError(c) \/ ControlRpc(c)
           \/ DirectRpcReturns(c) \/ ControlReturns(c) \/ ClientLeaves(c)
           \/ \E s \in Shares : \/ ControlPause(c, s) \/ ControlResume(c, s)
                                \/ ControlAdd(c, s)
    PROVE  Elsewhere
<1>1. CASE \/ ControlAsks(c) \/ ControlTaken(c) \/ ControlError(c) \/ ControlRpc(c)
           \/ DirectRpcReturns(c) \/ ControlReturns(c) \/ ClientLeaves(c)
  BY <1>1, StillElsewhere
     DEF ControlAsks, ControlTaken, DirectCall, DirectRpc, LoopCall, WatchStatus,
         ControlError, ControlRpc, DirectRpcReturns, ControlReturns, ClientLeaves
<1>2. ASSUME NEW s \in Shares,
             ControlPause(c, s) \/ ControlResume(c, s) \/ ControlAdd(c, s)
      PROVE  Elsewhere
  <2>1. UNCHANGED <<wt, cur, stream, running>>
    BY <1>2 DEF ControlPause, ControlResume, ControlAdd
  <2>2. jobs' = jobs \/ Submit("scan", s)
    BY <1>2 DEF ControlPause, ControlResume, ControlAdd, StartActivation
  <2> QED
    BY <2>1, <2>2, SubmitElsewhere DEF Elsewhere
<1> QED
  BY <1>1, <1>2

LEMMA ThreadStep == TypeOK /\ ThreadInv /\ [Next]_vars => ThreadInv'
<1> SUFFICES ASSUME TypeOK, ThreadInv, [Next]_vars PROVE ThreadInv'
  OBVIOUS
<1>1. CASE UNCHANGED vars \/ RegisterStep \/ Stopped \/ \E s \in Shares : Heartbeat(s)
  BY <1>1, StillElsewhere, ElsewhereKeeps
     DEF vars, RegisterStep, Register, RegisterAgain, Stopped, Heartbeat
<1>2. CASE ServeNext \/ GoDown \/ ComeUp
           \/ \E x \in Streams : SendEvent(x) \/ StreamDropped(x)
  BY <1>2, RegistryElsewhere, ElsewhereKeeps
<1>3. ASSUME NEW s \in Shares,
             ActivationStep(s) \/ SubmitWork(s) \/ EndActivationJob(s) \/ EndWork(s)
      PROVE  ThreadInv'
  BY <1>3, ActivationElsewhere, ElsewhereKeeps
<1>4. CASE CallReturns
  BY <1>4, ReturnsElsewhere, ElsewhereKeeps
<1>5. CASE StartJob
  BY <1>5, StartKeeps
<1>6. ASSUME NEW s \in Shares, WatchStep(s) PROVE ThreadInv'
  BY <1>6, WatchKeeps
<1>9. ASSUME NEW x \in Streams, EndNext(x) \/ EndHandle(x) PROVE ThreadInv'
  BY <1>9, EndKeeps, HandleElsewhere, ElsewhereKeeps
<1>7. ASSUME NEW c \in Clients,
             \/ ControlAsks(c) \/ ControlTaken(c) \/ ControlRuns(c)
             \/ DirectRpcReturns(c) \/ ControlReturns(c) \/ ClientLeaves(c)
      PROVE  ThreadInv'
  <2>1. ASSUME NEW s \in Shares, ControlRemove(c, s) PROVE ThreadInv'
    BY <2>1, CancelKeeps DEF ControlRemove
  <2> QED
    BY <1>7, <2>1, ControlElsewhere, ElsewhereKeeps DEF ControlRuns
<1>8. CASE Stop
  BY <1>8, CancelKeeps DEF Stop
<1> QED
  BY <1>1, <1>2, <1>3, <1>4, <1>5, <1>6, <1>7, <1>8, <1>9 DEF Next

\* The pool's threads are not used up by streams nobody reads: whatever is paused,
\* removed, added again or stopped while the registry comes and goes, a thread in
\* next() belongs to a task that waits for it, or its stream is over.
THEOREM ThreadsBelongToTasks == Spec => []NextBelongsToTask
<1>1. Init => ThreadInv
  BY DEF Init, ThreadInv, NextInv
<1>2. TypeOK /\ ThreadInv => NextBelongsToTask
  <2> SUFFICES ASSUME TypeOK, ThreadInv, NEW x \in Streams,
                      NextOf(x) \in Range(jobs) \cup running
               PROVE  Awaits(x, "next") \/ stream[x] = "over"
    BY DEF NextBelongsToTask, NextOf
  <2>1. NextInv(x) /\ jobs \in Seq(Job)
    BY DEF ThreadInv, TypeOK
  <2>2. NextOf(x) \in Range(jobs) => \E i \in 1..Len(jobs) : jobs[i] = NextOf(x)
    BY <2>1 DEF Range
  <2> QED
    BY <2>1, <2>2 DEF NextInv
<1> QED
  BY <1>1, <1>2, TypeInit, TypeStep, ThreadStep, PTL DEF Spec

====
