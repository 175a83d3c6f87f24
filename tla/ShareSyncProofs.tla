-------------------------- MODULE ShareSyncProofs --------------------------
(***************************************************************************)
(* Proofs about one share on any number of daemons, for every bound.       *)
(***************************************************************************)
EXTENDS MCShareSync, FiniteSetTheorems, TLAPS

USE DEF rowVars, shareVars, diskVars, torVars, taskVars, fsVars, statusVars,
        regVars, SameDisk, NoHash

-----------------------------------------------------------------------------
(* Types of the helpers *)

\* Every task the model creates is a Task.
LEMMA NewTaskType ==
    ASSUME NEW kind \in {"rebuild", "activate", "orphan", "switch", "regswitch"},
           NEW pc \in {"boot", "scan", "start", "add", "finish", "left"},
           NEW v \in Hash
    PROVE  NewTask(kind, pc, v) \in Task
  BY DEF NewTask, IdleTask, Task, SwitchKinds

\* The idle slot and the empty handle have their types.
LEMMA IdleTypes == IdleTask \in Task /\ NoHandle \in Handle /\ NoHash \in Hash
  BY DEF IdleTask, Task, NoHandle, Handle, HandleState, Hash

\* The task table keeps its type when a coroutine is spawned or moves on.
LEMMA TaskTypes ==
    ASSUME TypeOK, NEW p \in Peers, NEW t \in Task
    PROVE  /\ Spawn(p, t) => task' \in [Peers -> [Slots -> Task]]
           /\ \A k \in Slots : SetTask(p, k, t) =>
                                 task' \in [Peers -> [Slots -> Task]]
<1>1. ASSUME NEW k \in Slots, task' = [task EXCEPT ![p][k] = t]
      PROVE  task' \in [Peers -> [Slots -> Task]]
  <2>1. task[p] \in [Slots -> Task]
    BY DEF TypeOK
  <2>2. [task[p] EXCEPT ![k] = t] \in [Slots -> Task]
    BY <2>1
  <2> QED
    BY <1>1, <2>2 DEF TypeOK
<1> QED
  BY <1>1 DEF Spawn, SetTask, FreeSlots

\* increment_share_seq yields a counter, never a smaller one.
LEMMA IncrementType ==
    ASSUME TypeOK, NEW p \in Peers, IncrementSeq(p)
    PROVE  seq' \in [Peers -> Nat] /\ \A q \in Peers : seq'[q] >= seq[q]
<1>1. seq' = seq \/ seq' = [seq EXCEPT ![p] = seq[p] + 1]
  BY DEF IncrementSeq
<1>2. \A q \in Peers : seq[q] \in Nat
  BY DEF TypeOK
<1>3. CASE seq' = seq
  BY <1>2, <1>3 DEF TypeOK
<1>4. CASE seq' = [seq EXCEPT ![p] = seq[p] + 1]
  <2>1. seq \in [Peers -> Nat] /\ seq[p] + 1 \in Nat /\ seq[p] + 1 >= seq[p]
    BY <1>2 DEF TypeOK
  <2>2. seq' \in [Peers -> Nat]
    BY <1>4, <2>1
  <2>3. \A q \in Peers : seq'[q] = IF q = p THEN seq[p] + 1 ELSE seq[q]
    BY <1>4, <2>1
  <2> QED
    BY <1>2, <2>1, <2>2, <2>3
<1> QED
  BY <1>1, <1>3, <1>4

\* set_share_state keeps the row's types.
LEMMA SetShareStateType ==
    ASSUME TypeOK, NEW p \in Peers, NEW s \in ShareState, NEW v \in Hash,
           seq' \in [Peers -> Nat], SetShareState(p, s, v)
    PROVE  /\ state' \in [Peers -> ShareState]
           /\ ih' \in [Peers -> Hash]
           /\ birth' \in [Version -> Nat]
<1>1. CASE ~row[p]
  BY <1>1 DEF TypeOK, SetShareState
<1>2. CASE row[p]
  <2>1. state' = [state EXCEPT ![p] = s]
    BY <1>2 DEF SetShareState
  <2>2. ih' = ih \/ ih' = [ih EXCEPT ![p] = v]
    BY <1>2 DEF SetShareState
  <2>3. birth' = birth \/ birth' = [birth EXCEPT ![v] = seq'[p] + 1]
    BY <1>2 DEF SetShareState
  <2>4. seq'[p] + 1 \in Nat
    OBVIOUS
  <2>5. birth' \in [Version -> Nat]
    BY <2>3, <2>4 DEF TypeOK
  <2>6. ih' \in [Peers -> Hash]
    BY <2>2 DEF TypeOK
  <2> QED
    BY <2>1, <2>5, <2>6 DEF TypeOK
<1> QED
  BY <1>1, <1>2

\* Writing the directory keeps the disk's types.
LEMMA WriteDiskType ==
    ASSUME TypeOK, NEW p \in Peers, NEW v \in Hash, WriteDisk(p, v)
    PROVE  disk' \in [Peers -> Hash] /\ fsq' \in [Peers -> BOOLEAN]
  BY DEF TypeOK, WriteDisk

\* So does a content nobody has seen before.
LEMMA WriteNewType ==
    ASSUME TypeOK, NEW p \in Peers, NEW b, WriteNew(p, b)
    PROVE  /\ disk' \in [Peers -> Hash] /\ fsq' \in [Peers -> BOOLEAN]
           /\ nver' \in 0..MaxVersion /\ partial' \subseteq Version
<1>1. nver + 1 \in Version /\ nver' \in 0..MaxVersion /\ WriteDisk(p, nver + 1)
  BY ConstantsAssumption DEF TypeOK, WriteNew, Version
<1>2. partial' \subseteq partial \cup {nver + 1}
  BY DEF WriteNew
<1> QED
  BY <1>1, <1>2, WriteDiskType DEF TypeOK, Hash

\* announce_once keeps the registry's row typed.
LEMMA AnnounceType ==
    ASSUME TypeOK, NEW p \in Peers, NEW v \in Hash, AnnounceOnce(p, v)
    PROVE  ann' \in [Peers \cup Outsiders -> Hash]
  BY DEF TypeOK, AnnounceOnce

\* The last segment of an activation keeps its variables typed.
LEMMA TailType ==
    ASSUME TypeOK, NEW p \in Peers, ih' \in [Peers -> Hash], ActivationTail(p)
    PROVE  /\ ann' \in [Peers \cup Outsiders -> Hash]
           /\ watch' \in [Peers -> {"none", "live", "stopped"}]
  BY AnnounceType DEF TypeOK, ActivationTail

\* Dropping the torrent keeps its variables typed.
LEMMA DropType ==
    ASSUME TypeOK, NEW p \in Peers, DropTorrent(p)
    PROVE  tfile' \in [Peers -> Hash] /\ handle' \in [Peers -> Handle]
  BY IdleTypes DEF TypeOK, DropTorrent

\* _switch_to_remote_torrent keeps everything it touches typed.
LEMMA SwitchType ==
    ASSUME TypeOK, NEW p \in Peers, NEW v \in Hash, NEW kind \in SwitchKinds,
           seq' \in [Peers -> Nat], SwitchToRemote(p, v, kind)
    PROVE  /\ switching' \in [Peers -> BOOLEAN]
           /\ task' \in [Peers -> [Slots -> Task]]
           /\ state' \in [Peers -> ShareState]
           /\ ih' \in [Peers -> Hash]
           /\ birth' \in [Version -> Nat]
           /\ watched' \in [Peers -> BOOLEAN]
           /\ tfile' \in [Peers -> Hash] /\ handle' \in [Peers -> Handle]
<1>1. CASE switching[p]
  BY <1>1 DEF TypeOK, SwitchToRemote
<1>2. CASE ~switching[p]
  <2>1. /\ SetShareState(p, "syncing", v) /\ DropTorrent(p)
        /\ Spawn(p, NewTask(kind, "add", v))
        /\ switching' = [switching EXCEPT ![p] = TRUE]
        /\ watched' = [watched EXCEPT ![p] = FALSE]
    BY <1>2 DEF SwitchToRemote
  <2>2. NewTask(kind, "add", v) \in Task
    BY NewTaskType DEF SwitchKinds
  <2>3. "syncing" \in ShareState
    BY DEF ShareState
  <2> QED
    BY <2>1, <2>2, <2>3, SetShareStateType, DropType, TaskTypes DEF TypeOK
<1> QED
  BY <1>1, <1>2

\* handle_remote_update keeps everything it touches typed.
LEMMA RemoteUpdateType ==
    ASSUME TypeOK, NEW p \in Peers, NEW v \in Version, NEW kind \in SwitchKinds,
           seq' \in [Peers -> Nat], HandleRemoteUpdate(p, v, kind)
    PROVE  /\ switching' \in [Peers -> BOOLEAN]
           /\ task' \in [Peers -> [Slots -> Task]]
           /\ state' \in [Peers -> ShareState]
           /\ ih' \in [Peers -> Hash]
           /\ birth' \in [Version -> Nat]
           /\ watched' \in [Peers -> BOOLEAN]
           /\ tfile' \in [Peers -> Hash] /\ handle' \in [Peers -> Handle]
           /\ conflicts' \in [Peers -> SUBSET Version]
           /\ disk' \in [Peers -> Hash] /\ fsq' \in [Peers -> BOOLEAN]
           /\ nver' \in 0..MaxVersion /\ partial' \subseteq Version
<1>1. v \in Hash /\ "paused" \in ShareState /\ 0 \in Hash
  BY DEF Hash, ShareState
<1>2. CASE strat[p] = "last_write_wins"
  BY <1>1, <1>2, SwitchType DEF HandleRemoteUpdate, TypeOK
<1>3. CASE strat[p] = "rename_conflict"
  <2>1. /\ disk' \in [Peers -> Hash] /\ fsq' \in [Peers -> BOOLEAN]
        /\ nver' \in 0..MaxVersion /\ partial' \subseteq Version
    <3>1. SameDisk \/ WriteNew(p, disk[p] \in partial)
      BY <1>3 DEF HandleRemoteUpdate, RenameConflictFiles
    <3> QED
      BY <3>1, WriteNewType DEF TypeOK
  <2> QED
    BY <1>1, <1>3, <2>1, SwitchType DEF HandleRemoteUpdate, TypeOK
<1>4. CASE strat[p] = "ask"
  <2>1. /\ conflicts' = [conflicts EXCEPT ![p] = @ \cup {v}]
        /\ SetShareState(p, "paused", NoHash)
        /\ watched' = [watched EXCEPT ![p] = FALSE]
        /\ SameDisk
        /\ UNCHANGED <<switching, task, torVars>>
    BY <1>4 DEF HandleRemoteUpdate
  <2> QED
    BY <1>1, <2>1, SetShareStateType DEF TypeOK
<1> QED
  BY <1>2, <1>3, <1>4 DEF HandleRemoteUpdate

-----------------------------------------------------------------------------
(* Type correctness, one lemma per group of actions *)

\* The steps of a coroutine keep the types.
LEMMA TaskStepType ==
    ASSUME TypeOK, NEW p \in Peers, NEW k \in Slots, TaskStep(p, k)
    PROVE  TypeOK'
<1> DEFINE t == task[p][k]
<1> USE IdleTypes
<1>0. /\ t \in Task /\ {"syncing", "seeding", "error"} \subseteq ShareState
      /\ tfile[p] \in Hash /\ disk[p] \in Hash
  BY DEF TypeOK, ShareState
<1>1. CASE Boot(p, k)
  <2>1. [t EXCEPT !.pc = "scan"] \in Task
    BY <1>0 DEF Task
  <2> QED
    BY <1>1, <2>1, TaskTypes DEF Boot, TypeOK
<1>2. CASE ActivateScan(p, k)
  <2>1. task' \in [Peers -> [Slots -> Task]]
    <3>1. ASSUME NEW v \in Hash, NEW b \in BOOLEAN, NEW f \in BOOLEAN
          PROVE  [t EXCEPT !.pc = "add", !.ih = v, !.files = b, !.fresh = f]
                    \in Task
      BY <1>0, <3>1 DEF Task
    <3>2. \A q \in DOMAIN ann : ann[q] \in Hash
      BY DEF TypeOK
    <3> QED
      BY <1>2, <3>1, <3>2, TaskTypes DEF ActivateScan
  <2>2. CASE UNCHANGED <<shareVars, regVars>>
    BY <1>2, <2>1, <2>2 DEF ActivateScan, TypeOK
  <2>3. CASE SetShareState(p, "syncing", NoHash) /\ ActivationTail(p)
    <3>1. seq' = seq
      BY <1>2 DEF ActivateScan
    <3> QED
      BY <1>0, <1>2, <2>1, <2>3, <3>1, SetShareStateType, TailType
         DEF ActivateScan, TypeOK
  <2> QED
    BY <1>2, <2>2, <2>3 DEF ActivateScan
<1>3. CASE ActivateFinish(p, k)
  <2>1. seq' \in [Peers -> Nat]
    BY <1>3, IncrementType DEF ActivateFinish, TypeOK
  <2>2. t.ih \in Hash
    BY <1>0 DEF Task
  <2> DEFINE s == IF t.files THEN "seeding" ELSE "syncing"
  <2>3. s \in ShareState /\ SetShareState(p, s, t.ih)
    BY <1>0, <1>3 DEF ActivateFinish
  <2> HIDE DEF s
  <2>4. state' \in [Peers -> ShareState] /\ ih' \in [Peers -> Hash]
        /\ birth' \in [Version -> Nat]
    BY <2>1, <2>2, <2>3, SetShareStateType
  <2>5. SetTask(p, k, IdleTask) /\ ActivationTail(p)
    BY <1>3 DEF ActivateFinish
  <2>6. task' \in [Peers -> [Slots -> Task]]
    BY <2>5, TaskTypes
  <2>7. ann' \in [Peers \cup Outsiders -> Hash]
        /\ watch' \in [Peers -> {"none", "live", "stopped"}]
    BY <2>4, <2>5, TailType
  <2> QED
    BY <1>3, <2>1, <2>4, <2>6, <2>7 DEF ActivateFinish, TypeOK
<1>4. CASE LtAddShare(p, k)
  <2>1. UNCHANGED <<rowVars, seq, conflicts, known, switching, watched, fsVars,
                    statusVars, regVars, net, ops, disk, nver, partial, fsq>>
    BY <1>4 DEF LtAddShare
  <2>2. ASSUME NEW v \in Hash, NEW how \in HandleState,
               handle' = IF handle[p] # NoHandle THEN handle
                         ELSE [handle EXCEPT ![p] =
                                 [ih |-> v, st |-> how, alert |-> how = "complete"]],
               SetTask(p, k, [t EXCEPT !.pc = "finish", !.ih = handle'[p].ih])
        PROVE  handle' \in [Peers -> Handle] /\ task' \in [Peers -> [Slots -> Task]]
    <3>1. [ih |-> v, st |-> how, alert |-> how = "complete"] \in Handle
      BY DEF Handle
    <3>2. handle' \in [Peers -> Handle]
      BY <2>2, <3>1 DEF TypeOK
    <3>3. [t EXCEPT !.pc = "finish", !.ih = handle'[p].ih] \in Task
      BY <1>0, <3>2 DEF Task, Handle
    <3> QED
      BY <2>2, <3>2, <3>3, TaskTypes
  <2>3. {"complete", "downloading", "magnet"} \subseteq HandleState /\ t.ih \in Hash
    BY <1>0 DEF HandleState, Task
  <2>4. CASE tfile[p] # NoHash
    BY <1>0, <1>4, <2>1, <2>2, <2>3, <2>4 DEF LtAddShare, TypeOK
  <2>5. CASE tfile[p] = NoHash /\ ~(t.ih = NoHash \/ t.kind = "rebuild" \/ t.files)
    BY <1>0, <1>4, <2>1, <2>2, <2>3, <2>5 DEF LtAddShare, TypeOK
  <2>6. CASE /\ tfile[p] = NoHash /\ disk[p] # NoHash
             /\ t.ih = NoHash \/ t.kind = "rebuild" \/ t.files
    <3>1. PICK how \in HandleState :
            /\ handle' = IF handle[p] # NoHandle THEN handle
                         ELSE [handle EXCEPT ![p] =
                                 [ih |-> disk[p], st |-> how, alert |-> how = "complete"]]
            /\ SetTask(p, k, [t EXCEPT !.pc = "finish", !.ih = handle'[p].ih])
            /\ tfile' = [tfile EXCEPT ![p] = disk[p]] /\ UNCHANGED shareVars
      BY <1>4, <2>3, <2>6 DEF LtAddShare
    <3>2. disk[p] \in Hash /\ tfile' \in [Peers -> Hash]
      BY <3>1 DEF TypeOK
    <3>3. handle' \in [Peers -> Handle] /\ task' \in [Peers -> [Slots -> Task]]
      BY <2>2, <3>1, <3>2
    <3> QED
      BY <2>1, <3>1, <3>2, <3>3 DEF TypeOK
  <2>7. CASE /\ tfile[p] = NoHash /\ disk[p] = NoHash
             /\ t.ih = NoHash \/ t.kind = "rebuild" \/ t.files
    <3>1. /\ SetTask(p, k, IdleTask) /\ UNCHANGED torVars
          /\ SetShareState(p, "error", NoHash) \/ UNCHANGED shareVars
      BY <1>4, <2>7 DEF LtAddShare
    <3> QED
      BY <1>0, <2>1, <3>1, TaskTypes, SetShareStateType DEF TypeOK
  <2> QED
    BY <2>4, <2>5, <2>6, <2>7
<1>5. CASE RebuildStart(p, k)
  <2>1. [t EXCEPT !.pc = "add"] \in Task
    BY <1>0 DEF Task
  <2> QED
    BY <1>5, <2>1, TaskTypes, DropType DEF RebuildStart, TypeOK
<1>6. CASE RebuildFinish(p, k)
  <2>1. /\ seq' \in [Peers -> Nat]
        /\ SetShareState(p, "seeding", t.ih) /\ AnnounceOnce(p, ih'[p])
        /\ SetTask(p, k, IdleTask)
    BY <1>6, IncrementType DEF RebuildFinish
  <2>2. t.ih \in Hash
    BY <1>0 DEF Task
  <2>3. /\ state' \in [Peers -> ShareState] /\ ih' \in [Peers -> Hash]
        /\ birth' \in [Version -> Nat]
    BY <1>0, <2>1, <2>2, SetShareStateType
  <2>4. ann' \in [Peers \cup Outsiders -> Hash]
    BY <2>1, <2>3, AnnounceType
  <2> QED
    BY <1>6, <2>1, <2>3, <2>4, TaskTypes DEF RebuildFinish, TypeOK
<1>7. CASE SwitchFinish(p, k)
  BY <1>7, TaskTypes DEF SwitchFinish, TypeOK
<1> QED
  BY <1>1, <1>2, <1>3, <1>4, <1>5, <1>6, <1>7 DEF TaskStep

\* schedule_or_rebuild keeps the types.
LEMMA ScheduleType ==
    ASSUME TypeOK, NEW p \in Peers, ScheduleOrRebuild(p)
    PROVE  /\ task' \in [Peers -> [Slots -> Task]]
           /\ rebuilt' \in [Peers -> BOOLEAN]
           /\ deferred' \in [Peers -> BOOLEAN]
<1>1. NewTask("rebuild", "start", NoHash) \in Task
  BY NewTaskType, IdleTypes
<1> QED
  BY <1>1, TaskTypes DEF ScheduleOrRebuild, TypeOK

\* The daemon's loops keep the types.
LEMMA LoopStepType ==
    ASSUME TypeOK, NEW p \in Peers, LoopStep(p)
    PROVE  TypeOK'
<1> USE IdleTypes
<1>1. CASE FsEvent(p)
  <2>1. /\ task' \in [Peers -> [Slots -> Task]]
        /\ fsstat' \in [Peers -> BOOLEAN]
        /\ rebuilt' \in [Peers -> BOOLEAN] /\ deferred' \in [Peers -> BOOLEAN]
    BY <1>1, ScheduleType DEF FsEvent, TypeOK
  <2> QED
    BY <1>1, <2>1 DEF FsEvent, TypeOK
<1>2. CASE FsSchedule(p)
  BY <1>2, ScheduleType DEF FsSchedule, TypeOK
<1>3. CASE DeferredFire(p)
  <2>1. NewTask("rebuild", "add", NoHash) \in Task
    BY NewTaskType
  <2> QED
    BY <1>3, <2>1, TaskTypes, DropType DEF DeferredFire, TypeOK
<1>4. CASE StatusAlert(p)
  BY <1>4 DEF StatusAlert, TypeOK, Handle
<1>5. CASE StatusHandle(p)
  <2>1. seq' = seq /\ "seeding" \in ShareState /\ status[p] \in Hash
    BY <1>5 DEF StatusHandle, ShareState, TypeOK
  <2>2. SetShareState(p, "seeding", status[p]) \/ UNCHANGED shareVars
    BY <1>5 DEF StatusHandle
  <2>3. state' \in [Peers -> ShareState] /\ ih' \in [Peers -> Hash]
        /\ birth' \in [Version -> Nat]
    BY <2>1, <2>2, SetShareStateType DEF TypeOK
  <2> QED
    BY <1>5, <2>3 DEF StatusHandle, TypeOK
<1>6. CASE StatusIndexed(p)
  BY <1>6 DEF StatusIndexed, TypeOK
<1>7. CASE AnnounceLan(p)
  <2>1. [ih |-> ih[p], seq |-> seq[p]] \in Packet
    BY DEF TypeOK, Packet
  <2> QED
    BY <1>7, <2>1 DEF AnnounceLan, TypeOK
<1>8. CASE Heartbeat(p)
  <2>1. \E v \in Hash : AnnounceOnce(p, v)
    BY <1>8 DEF Heartbeat, TypeOK
  <2> QED
    BY <1>8, <2>1, AnnounceType DEF Heartbeat, TypeOK
<1> QED
  BY <1>1, <1>2, <1>3, <1>4, <1>5, <1>6, <1>7, <1>8 DEF LoopStep

\* Messages of peers keep the types.
LEMMA ReceiveType ==
    ASSUME TypeOK, NEW p \in Peers, Receive(p)
    PROVE  TypeOK'
<1> USE DEF SwitchKinds
<1>1. ASSUME NEW q \in Peers \cup Outsiders, NEW m \in net[q], ReceiveLan(p, q, m)
      PROVE  TypeOK'
  <2>1. m.ih \in Hash /\ m.seq \in Nat
    BY DEF TypeOK, Packet
  <2>2. seq' \in [Peers -> Nat]
    BY <1>1, <2>1 DEF ReceiveLan, AdoptSeq, TypeOK
  <2>3. known' \in [Peers -> SUBSET (Peers \cup Outsiders)]
    BY <1>1 DEF ReceiveLan, TypeOK
  <2>4. CASE HandleRemoteUpdate(p, m.ih, "switch") /\ m.ih # NoHash
    <3>1. m.ih \in Version
      BY <2>1, <2>4 DEF Hash
    <3> QED
      BY <1>1, <2>2, <2>3, <2>4, <3>1, RemoteUpdateType DEF ReceiveLan, TypeOK
  <2>5. CASE SwitchToRemote(p, m.ih, "switch") /\ SameDisk /\ UNCHANGED conflicts
    BY <1>1, <2>1, <2>2, <2>3, <2>5, SwitchType DEF ReceiveLan, TypeOK
  <2>6. CASE SameDisk /\ UNCHANGED <<seq, conflicts, switching, task, shareVars,
                                     watched, torVars>>
    BY <1>1, <2>3, <2>6 DEF ReceiveLan, TypeOK
  <2> QED
    BY <1>1, <2>4, <2>5, <2>6 DEF ReceiveLan
<1>2. ASSUME NEW q \in Peers \cup Outsiders, ReceiveReg(p, q)
      PROVE  TypeOK'
  <2>1. seq' = seq /\ ann[q] \in Version
    BY <1>2 DEF ReceiveReg, TypeOK, Hash
  <2>2. known' \in [Peers -> SUBSET (Peers \cup Outsiders)]
    BY <1>2 DEF ReceiveReg, TypeOK
  <2>3. CASE HandleRemoteUpdate(p, ann[q], "regswitch")
    BY <1>2, <2>1, <2>2, <2>3, RemoteUpdateType DEF ReceiveReg, TypeOK
  <2>4. CASE SameDisk /\ UNCHANGED <<conflicts, switching, task, shareVars,
                                     watched, torVars>>
    BY <1>2, <2>2, <2>4 DEF ReceiveReg, TypeOK
  <2> QED
    BY <1>2, <2>3, <2>4 DEF ReceiveReg
<1> QED
  BY <1>1, <1>2 DEF Receive

\* libtorrent keeps the types.
LEMMA TransferType ==
    ASSUME TypeOK, NEW p \in Peers, Transfer(p)
    PROVE  TypeOK'
<1>1. handle[p] \in Handle /\ handle[p].ih \in Hash
  BY DEF TypeOK, Handle
<1>2. CASE LtMetadata(p)
  <2>1. handle' \in [Peers -> Handle]
    BY <1>1, <1>2 DEF LtMetadata, TypeOK, Handle, HandleState
  <2>2. SameDisk \/ WriteNew(p, TRUE)
    BY <1>2 DEF LtMetadata
  <2> QED
    BY <1>2, <2>1, <2>2, WriteNewType DEF LtMetadata, TypeOK
<1>3. CASE LtFinish(p)
  <2>1. handle' \in [Peers -> Handle]
    BY <1>1, <1>3 DEF LtFinish, TypeOK, Handle, HandleState
  <2> QED
    BY <1>1, <1>3, <2>1, WriteDiskType DEF LtFinish, TypeOK
<1> QED
  BY <1>2, <1>3 DEF Transfer

\* Cancelling the watch task: every slot of p is as it was, idle or an orphan.
LEMMA CancelEffect ==
    ASSUME TypeOK, NEW p \in Peers, CancelWatchTask(p)
    PROVE  /\ \A q \in Peers \ {p} : switching'[q] = switching[q] /\ task'[q] = task[q]
           /\ \A j \in Slots :
                 IF task[p][j].kind = "regswitch"
                 THEN \/ task'[p][j] = IdleTask
                      \/ task'[p][j] = NewTask("orphan", "left", task[p][j].ih)
                 ELSE task'[p][j] = task[p][j]
           /\ switching'[p] <=> /\ switching[p]
                                /\ \A j \in Slots : task[p][j].kind # "regswitch"
<1> DEFINE cut == {k \in Slots : task[p][k].kind = "regswitch"}
<1>1. PICK begun \in SUBSET cut :
          task' = [task EXCEPT ![p] = [k \in Slots |->
                      IF k \in begun THEN NewTask("orphan", "left", task[p][k].ih)
                      ELSE IF k \in cut THEN IdleTask ELSE task[p][k]]]
  BY DEF CancelWatchTask
<1>2. switching' = [switching EXCEPT ![p] = @ /\ cut = {}]
  BY DEF CancelWatchTask
<1>3. task \in [Peers -> [Slots -> Task]] /\ switching \in [Peers -> BOOLEAN]
  BY DEF TypeOK
<1>4. \A j \in Slots : task'[p][j] =
          IF j \in begun THEN NewTask("orphan", "left", task[p][j].ih)
          ELSE IF j \in cut THEN IdleTask ELSE task[p][j]
  BY <1>1, <1>3
<1>5. switching'[p] <=> switching[p] /\ cut = {}
  BY <1>2, <1>3
<1> QED
  BY <1>1, <1>2, <1>3, <1>4, <1>5

LEMMA CancelType ==
    ASSUME TypeOK, NEW p \in Peers, CancelWatchTask(p)
    PROVE  switching' \in [Peers -> BOOLEAN] /\ task' \in [Peers -> [Slots -> Task]]
<1>1. \A k \in Slots : task[p][k] \in Task /\ task[p][k].ih \in Hash
  BY DEF TypeOK, Task
<1>2. \A k \in Slots : NewTask("orphan", "left", task[p][k].ih) \in Task
  BY <1>1, NewTaskType
<1>3. IdleTask \in Task
  BY IdleTypes
<1> QED
  BY <1>1, <1>2, <1>3 DEF CancelWatchTask, TypeOK

\* Users, operators and crashes keep the types.
LEMMA UserStepType ==
    ASSUME TypeOK, NEW p \in Peers, UserStep(p)
    PROVE  TypeOK'
<1> USE IdleTypes, ConstantsAssumption
<1>0. /\ {"syncing", "paused"} \subseteq ShareState
      /\ \A name : Op(name) => ops' \in 0..MaxOps
      /\ StartActivation(p) =>
           watched' \in [Peers -> BOOLEAN] /\ task' \in [Peers -> [Slots -> Task]]
  <2>1. NewTask("activate", "scan", NoHash) \in Task
    BY NewTaskType
  <2>2. StartActivation(p) =>
           watched' \in [Peers -> BOOLEAN] /\ task' \in [Peers -> [Slots -> Task]]
    BY <2>1, TaskTypes DEF StartActivation, TypeOK
  <2>3. \A name : Op(name) => ops' \in 0..MaxOps
    BY DEF Op, TypeOK
  <2> QED
    BY <2>2, <2>3 DEF ShareState
<1>1. ASSUME NEW s \in Strategies, AddShare(p, s) PROVE TypeOK'
  BY <1>0, <1>1 DEF AddShare, TypeOK
<1>2. CASE UserEdit(p)
  BY <1>2, WriteNewType DEF UserEdit, TypeOK
<1>3. CASE DeleteAll(p)
  BY <1>0, <1>3, WriteDiskType DEF DeleteAll, TypeOK
<1>4. CASE ReAddShare(p)
  BY <1>0, <1>4 DEF ReAddShare, TypeOK
<1>5. CASE PauseShare(p)
  <2>1. seq' \in [Peers -> Nat] /\ SetShareState(p, "paused", NoHash)
    BY <1>5 DEF PauseShare, TypeOK
  <2>2. watch' \in [Peers -> {"none", "live", "stopped"}]
    BY <1>5 DEF PauseShare, TypeOK
  <2> QED
    BY <1>0, <1>5, <2>1, <2>2, SetShareStateType DEF PauseShare, TypeOK
<1>6. CASE ResumeShare(p)
  <2>1. seq' \in [Peers -> Nat] /\ SetShareState(p, "syncing", NoHash)
    BY <1>6 DEF ResumeShare, TypeOK
  <2> QED
    BY <1>0, <1>6, <2>1, SetShareStateType DEF ResumeShare, TypeOK
<1>7. CASE RemoveShare(p)
  <2>1. switching' \in [Peers -> BOOLEAN] /\ task' \in [Peers -> [Slots -> Task]]
    BY <1>7, CancelType DEF RemoveShare
  <2>2. UNCHANGED <<strat, birth, conflicts, known, tfile, fsstat, statusVars, ann,
                    net, nver, partial, fsq>>
    BY <1>7 DEF RemoveShare
  <2>3. /\ row' \in [Peers -> BOOLEAN] /\ ih' \in [Peers -> Hash]
        /\ seq' \in [Peers -> Nat] /\ state' \in [Peers -> ShareState]
        /\ watch' \in [Peers -> {"none", "live", "stopped"}]
        /\ watched' \in [Peers -> BOOLEAN]
    BY <1>0, <1>7 DEF RemoveShare, TypeOK
  <2>4. /\ rebuilt' \in [Peers -> BOOLEAN] /\ deferred' \in [Peers -> BOOLEAN]
        /\ handle' \in [Peers -> Handle]
    BY <1>7 DEF RemoveShare, TypeOK
  <2>5. disk' = disk \/ disk' = [disk EXCEPT ![p] = NoHash]
    BY <1>7 DEF RemoveShare
  <2>6. disk' \in [Peers -> Hash]
    BY <2>5 DEF TypeOK
  <2>7. ops' \in 0..MaxOps
    BY <1>0, <1>7 DEF RemoveShare
  <2> QED
    BY <2>1, <2>2, <2>3, <2>4, <2>6, <2>7 DEF TypeOK
<1>8. ASSUME NEW v \in Version, ResolveConflict(p, v) PROVE TypeOK'
  <2>1. seq' \in [Peers -> Nat] /\ v \in Hash
    BY <1>8 DEF ResolveConflict, TypeOK, Hash
  <2>2. CASE SwitchToRemote(p, v, "switch")
    <3>1. "switch" \in SwitchKinds
      BY DEF SwitchKinds
    <3> QED
      BY <1>0, <1>8, <2>1, <2>2, <3>1, SwitchType DEF ResolveConflict, TypeOK
  <2>3. CASE StartActivation(p) /\ UNCHANGED <<switching, shareVars, torVars>>
    BY <1>0, <1>8, <2>3 DEF ResolveConflict, TypeOK
  <2> QED
    BY <1>8, <2>2, <2>3 DEF ResolveConflict
<1>9. ASSUME NEW s \in Strategies, SetConflictStrategy(p, s) PROVE TypeOK'
  BY <1>0, <1>9 DEF SetConflictStrategy, TypeOK
<1>10. CASE Restart(p)
  <2>1. NewTask("activate", "boot", NoHash) \in Task
    BY NewTaskType
  <2>2. task' \in [Peers -> [Slots -> Task]]
    BY <1>10, <2>1 DEF Restart, TypeOK
  <2> QED
    BY <1>0, <1>10, <2>2 DEF Restart, TypeOK
<1> QED
  BY <1>1, <1>2, <1>3, <1>4, <1>5, <1>6, <1>7, <1>8, <1>9, <1>10 DEF UserStep

\* So do the daemons outside the model.
LEMMA OutsiderStepType ==
    ASSUME TypeOK, NEW o \in Outsiders, OutsiderStep(o)
    PROVE  TypeOK'
<1> PICK v \in Version, s \in 1..MaxSeq : OutsiderAnnounce(o, v, s)
  BY DEF OutsiderStep
<1>1. v \in Hash /\ s \in Nat /\ s + 1 \in Nat
  BY ConstantsAssumption DEF Hash
<1>2. nver' \in 0..MaxVersion /\ birth' \in [Version -> Nat]
  <2>1. birth' = birth \/ birth' = [birth EXCEPT ![v] = s + 1]
    BY DEF OutsiderAnnounce
  <2>2. birth' \in [Version -> Nat]
    BY <1>1, <2>1 DEF TypeOK
  <2>3. nver' = nver \/ (nver < MaxVersion /\ nver' = nver + 1)
    BY ZenonT(30) DEF OutsiderAnnounce
  <2>4. nver \in 0..MaxVersion
    BY DEF TypeOK
  <2> QED
    BY <2>2, <2>3, <2>4, ConstantsAssumption
<1>3. net' \in [Peers \cup Outsiders -> SUBSET Packet]
  <2>1. [ih |-> v, seq |-> s] \in Packet
    BY <1>1 DEF Packet
  <2> QED
    BY <2>1 DEF OutsiderAnnounce, TypeOK
<1>4. ops' \in 0..MaxOps
  BY ConstantsAssumption DEF OutsiderAnnounce, Op, TypeOK
<1>5. ann' \in [Peers \cup Outsiders -> Hash]
  BY <1>1 DEF OutsiderAnnounce, TypeOK
<1>6. UNCHANGED <<rowVars, state, ih, seq, conflicts, known, disk, partial, fsq,
                  torVars, watched, taskVars, fsVars, statusVars, watch>>
  BY DEF OutsiderAnnounce
<1> QED
  BY <1>2, <1>3, <1>4, <1>5, <1>6 DEF TypeOK

\* And the pool threads nobody waits for any more.
LEMMA PoolStepType ==
    ASSUME TypeOK, NEW p \in Peers, NEW k \in Slots, PoolStep(p, k)
    PROVE  TypeOK'
<1>0. IdleTask \in Task /\ task[p][k] \in Task
  BY IdleTypes DEF TypeOK
<1>1. CASE LtAddLeft(p, k)
  <2>1. task' \in [Peers -> [Slots -> Task]]
    BY <1>0, <1>1, TaskTypes DEF LtAddLeft
  <2>2. tfile[p] \in Hash /\ task[p][k].ih \in Hash
    BY <1>0 DEF TypeOK, Task
  <2>3. handle' \in [Peers -> Handle]
    BY <1>1, <2>2 DEF LtAddLeft, TypeOK, Handle, HandleState
  <2> QED
    BY <1>1, <2>1, <2>3 DEF LtAddLeft, TypeOK
<1>2. CASE AddShareFails(p, k)
  <2>1. task' \in [Peers -> [Slots -> Task]]
    BY <1>0, <1>2, TaskTypes DEF AddShareFails
  <2>2. seq' \in [Peers -> Nat] /\ NoHash \in Hash
    BY <1>2 DEF AddShareFails, TypeOK, Hash
  <2>3. /\ state' \in [Peers -> ShareState] /\ ih' \in [Peers -> Hash]
        /\ birth' \in [Version -> Nat]
    <3>1. CASE UNCHANGED shareVars
      BY <3>1 DEF TypeOK
    <3>2. CASE SetShareState(p, "error", NoHash)
      BY <2>2, <3>2, SetShareStateType DEF ShareState
    <3> QED
      BY <1>2, <3>1, <3>2 DEF AddShareFails
  <2>4. switching' \in [Peers -> BOOLEAN] /\ tfile' \in [Peers -> Hash]
    BY <1>2 DEF AddShareFails, TypeOK
  <2>5. ops' \in 0..MaxOps
    BY <1>2, ConstantsAssumption DEF AddShareFails, Op, TypeOK
  <2> QED
    BY <1>2, <2>1, <2>2, <2>3, <2>4, <2>5 DEF AddShareFails, TypeOK
<1> QED
  BY <1>1, <1>2 DEF PoolStep

\* No step of any daemon, user, network or torrent breaks the types.
LEMMA TypeStep == TypeOK /\ [Next]_vars => TypeOK'
<1>1. TypeOK /\ UNCHANGED vars => TypeOK'
  BY DEF vars, TypeOK
<1>2. TypeOK /\ Next => TypeOK'
  BY TaskStepType, LoopStepType, ReceiveType, TransferType, UserStepType,
     OutsiderStepType, PoolStepType DEF Next
<1> QED
  BY <1>1, <1>2

\* Type correctness of the share on every daemon.
THEOREM TypeCorrect == Spec => []TypeOK
<1>1. Init => TypeOK
  BY ConstantsAssumption, IdleTypes
     DEF Init, TypeOK, AllStrategies, ShareState, Version
<1> QED
  BY <1>1, TypeStep, PTL DEF Spec

-----------------------------------------------------------------------------
(* The _switching guard *)

\* A step that touches neither the guard nor a switch in flight.
Calm ==
    /\ switching' = switching
    /\ \A q \in Peers, j \in Slots :
          \/ task'[q][j] = task[q][j]
          \/ /\ task[q][j].kind \notin SwitchKinds
             /\ task'[q][j].kind \notin SwitchKinds

\* Such a step cannot break the exclusion.
LEMMA CalmKeeps == TypeOK /\ SwitchInv /\ Calm => SwitchInv'
  BY DEF Calm, SwitchInv, SwitchExclusion, SwitchTasksSound

\* Spawning a coroutine that is no switch is calm.
LEMMA SpawnCalm ==
    ASSUME TypeOK, NEW p \in Peers, NEW t, t.kind \notin SwitchKinds,
           Spawn(p, t), switching' = switching
    PROVE  Calm
<1>1. IdleTask.kind \notin SwitchKinds
  BY DEF IdleTask, SwitchKinds
<1> QED
  BY <1>1 DEF Spawn, FreeSlots, Calm, TypeOK

\* So is a step of a coroutine that is no switch.
LEMMA SetTaskCalm ==
    ASSUME TypeOK, NEW p \in Peers, NEW k \in Slots, NEW t,
           t.kind \notin SwitchKinds, task[p][k].kind \notin SwitchKinds,
           SetTask(p, k, t), switching' = switching
    PROVE  Calm
  BY DEF SetTask, Calm, TypeOK

\* The kinds of the coroutines the model creates.
LEMMA Kinds ==
    /\ IdleTask.kind = "none"
    /\ {"none", "rebuild", "activate", "orphan"} \cap SwitchKinds = {}
    /\ \A kind, pc, v :
          /\ NewTask(kind, pc, v).kind = kind /\ NewTask(kind, pc, v).pc = pc
          /\ NewTask(kind, pc, v).ih = v /\ NewTask(kind, pc, v).files = FALSE
  BY DEF IdleTask, NewTask, SwitchKinds

\* A switch starts only with the guard down, and raises it.
LEMMA SwitchKeeps ==
    ASSUME TypeOK, SwitchInv, NEW p \in Peers, NEW v \in Version,
           NEW kind \in SwitchKinds, SwitchToRemote(p, v, kind)
    PROVE  SwitchInv'
<1>1. CASE switching[p]
  <2>1. Calm
    BY <1>1 DEF SwitchToRemote, Calm
  <2> QED
    BY <2>1, CalmKeeps
<1>2. CASE ~switching[p]
  <2> DEFINE t == NewTask(kind, "add", v)
  <2>1. /\ switching' = [switching EXCEPT ![p] = TRUE]
        /\ Spawn(p, t)
    BY <1>2 DEF SwitchToRemote
  <2>2. /\ t.kind = kind /\ t.pc = "add" /\ t.ih = v /\ t.files = FALSE
        /\ v # NoHash
    BY Kinds DEF Version
  <2> HIDE DEF t
  <2>3. PICK k \in Slots : task' = [task EXCEPT ![p][k] = t]
    BY <2>1 DEF Spawn, FreeSlots
  <2>4. \A j \in Slots : task[p][j].kind \notin SwitchKinds
    BY <1>2 DEF SwitchInv, SwitchExclusion
  <2>5. \A q \in Peers, j \in Slots :
           task'[q][j] = IF q = p /\ j = k THEN t ELSE task[q][j]
    BY <2>3 DEF TypeOK
  <2>6. \A q \in Peers : switching'[q] = IF q = p THEN TRUE ELSE switching[q]
    BY <2>1 DEF TypeOK
  <2>7. SwitchExclusion'
    <3> SUFFICES ASSUME NEW q \in Peers
                 PROVE  LET inFlight == {j \in Slots : task'[q][j].kind \in SwitchKinds}
                        IN  /\ \A i, j \in inFlight : i = j
                            /\ switching'[q] <=> inFlight # {}
      BY DEF SwitchExclusion
    <3>1. CASE q = p
      <4>1. {j \in Slots : task'[q][j].kind \in SwitchKinds} = {k}
        BY <2>2, <2>4, <2>5, <3>1
      <4>2. switching'[q]
        BY <2>6, <3>1
      <4> QED
        BY <4>1, <4>2
    <3>2. CASE q # p
      <4>1. \A j \in Slots : task'[q][j] = task[q][j]
        BY <2>5, <3>2
      <4>2. switching'[q] = switching[q]
        BY <2>6, <3>2
      <4> QED
        BY <4>1, <4>2 DEF SwitchInv, SwitchExclusion
    <3> QED
      BY <3>1, <3>2
  <2>8. SwitchTasksSound'
    BY <2>2, <2>4, <2>5 DEF SwitchInv, SwitchTasksSound
  <2> QED
    BY <2>7, <2>8 DEF SwitchInv
<1> QED
  BY <1>1, <1>2

\* Applying a conflict strategy keeps the exclusion.
LEMMA RemoteUpdateKeeps ==
    ASSUME TypeOK, SwitchInv, NEW p \in Peers, NEW v \in Version,
           NEW kind \in SwitchKinds, HandleRemoteUpdate(p, v, kind)
    PROVE  SwitchInv'
<1>1. CASE SwitchToRemote(p, v, kind)
  BY <1>1, SwitchKeeps
<1>2. CASE UNCHANGED <<switching, task>>
  BY <1>2, CalmKeeps DEF Calm
<1> QED
  BY <1>1, <1>2 DEF HandleRemoteUpdate

\* add_share of a switch in flight goes on, it never drops out: the magnet
\* needs neither a cached torrent nor files.
LEMMA LtAddShareKeeps ==
    ASSUME TypeOK, SwitchInv, NEW p \in Peers, NEW k \in Slots, LtAddShare(p, k)
    PROVE  SwitchInv'
<1> DEFINE t == task[p][k]
<1>0. t \in Task /\ t.pc = "add" /\ switching' = switching
  BY DEF LtAddShare, TypeOK
<1>1. CASE t.kind \notin SwitchKinds
  <2> DEFINE u == [t EXCEPT !.pc = "finish", !.ih = handle'[p].ih]
  <2>1. u.kind = t.kind
    BY <1>0 DEF Task
  <2>2. SetTask(p, k, u) \/ SetTask(p, k, IdleTask)
    BY DEF LtAddShare
  <2> HIDE DEF u
  <2>3. IdleTask.kind \notin SwitchKinds
    BY Kinds
  <2>4. Calm
    BY <1>0, <1>1, <2>1, <2>2, <2>3, SetTaskCalm
  <2> QED
    BY <2>4, CalmKeeps
<1>2. CASE t.kind \in SwitchKinds
  <2>1. t.ih # NoHash /\ ~t.files /\ t.kind # "rebuild"
    BY <1>0, <1>2, Kinds DEF SwitchInv, SwitchTasksSound
  <2>2. SetTask(p, k, [t EXCEPT !.pc = "finish", !.ih = handle'[p].ih])
    BY <2>1 DEF LtAddShare
  <2>3. \A q \in Peers, j \in Slots :
          /\ task'[q][j].kind = task[q][j].kind
          /\ task'[q][j] = task[q][j] \/ task'[q][j].pc = "finish"
    BY <1>0, <2>2 DEF SetTask, TypeOK, Task
  <2>4. SwitchExclusion'
    BY <1>0, <2>3 DEF SwitchInv, SwitchExclusion
  <2>5. SwitchTasksSound'
    BY <2>3 DEF SwitchInv, SwitchTasksSound
  <2> QED
    BY <2>4, <2>5 DEF SwitchInv
<1> QED
  BY <1>1, <1>2

\* The guard falls with the only switch in flight.
LEMMA GuardFalls ==
    ASSUME TypeOK, SwitchInv, NEW p \in Peers, NEW k \in Slots,
           task[p][k].kind \in SwitchKinds, SetTask(p, k, IdleTask),
           switching' = [switching EXCEPT ![p] = FALSE]
    PROVE  SwitchInv'
<1>1. /\ task[p][k].kind \in SwitchKinds
      /\ \A q \in Peers : switching'[q] = IF q = p THEN FALSE ELSE switching[q]
      /\ \A q \in Peers, j \in Slots :
            task'[q][j] = IF q = p /\ j = k THEN IdleTask ELSE task[q][j]
  BY DEF SetTask, TypeOK
<1>2. IdleTask.kind \notin SwitchKinds
  BY Kinds
<1>3. \A j \in Slots : task'[p][j].kind \notin SwitchKinds
  BY <1>1, <1>2 DEF SwitchInv, SwitchExclusion
<1>4. SwitchTasksSound'
  BY <1>1, <1>2 DEF SwitchInv, SwitchTasksSound
<1>5. ASSUME NEW q \in Peers
      PROVE  LET inFlight == {j \in Slots : task'[q][j].kind \in SwitchKinds}
             IN  /\ \A i, j \in inFlight : i = j
                 /\ switching'[q] <=> inFlight # {}
  <2>1. CASE q = p
    BY <1>1, <1>3, <2>1
  <2>2. CASE q # p
    <3>1. switching'[q] = switching[q] /\ \A j \in Slots : task'[q][j] = task[q][j]
      BY <1>1, <2>2
    <3>2. {j \in Slots : task'[q][j].kind \in SwitchKinds}
             = {j \in Slots : task[q][j].kind \in SwitchKinds}
      BY <3>1
    <3>3. LET inFlight == {j \in Slots : task[q][j].kind \in SwitchKinds}
          IN  /\ \A i, j \in inFlight : i = j
              /\ switching[q] <=> inFlight # {}
      BY DEF SwitchInv, SwitchExclusion
    <3> QED
      BY <3>1, <3>2, <3>3
  <2> QED
    BY <2>1, <2>2
<1> QED
  BY <1>4, <1>5 DEF SwitchInv, SwitchExclusion

\* A restart forgets the guard and every coroutine together.
LEMMA RestartKeeps ==
    ASSUME TypeOK, SwitchInv, NEW p \in Peers, Restart(p)
    PROVE  SwitchInv'
<1>1. /\ \A q \in Peers : switching'[q] = IF q = p THEN FALSE ELSE switching[q]
      /\ \A q \in Peers \ {p} : task'[q] = task[q]
  BY DEF Restart, TypeOK
<1>2. \A j \in Slots : task'[p][j].kind \notin SwitchKinds
  <2>1. PICK k \in Slots : task' = [task EXCEPT ![p] = [j \in Slots |->
                 IF j = k THEN NewTask("activate", "boot", NoHash) ELSE IdleTask]]
    BY DEF Restart
  <2>2. \A j \in Slots : task'[p][j] \in {NewTask("activate", "boot", NoHash), IdleTask}
    BY <2>1 DEF TypeOK
  <2> QED
    BY <2>2, Kinds
<1>3. SwitchTasksSound'
  BY <1>1, <1>2 DEF SwitchInv, SwitchTasksSound
<1>4. ASSUME NEW q \in Peers
      PROVE  LET inFlight == {j \in Slots : task'[q][j].kind \in SwitchKinds}
             IN  /\ \A i, j \in inFlight : i = j
                 /\ switching'[q] <=> inFlight # {}
  <2>1. CASE q = p
    BY <1>1, <1>2, <2>1
  <2>2. CASE q # p
    <3>1. switching'[q] = switching[q] /\ \A j \in Slots : task'[q][j] = task[q][j]
      BY <1>1, <2>2
    <3>2. {j \in Slots : task'[q][j].kind \in SwitchKinds}
             = {j \in Slots : task[q][j].kind \in SwitchKinds}
      BY <3>1
    <3>3. LET inFlight == {j \in Slots : task[q][j].kind \in SwitchKinds}
          IN  /\ \A i, j \in inFlight : i = j
              /\ switching[q] <=> inFlight # {}
      BY DEF SwitchInv, SwitchExclusion
    <3> QED
      BY <3>1, <3>2, <3>3
  <2> QED
    BY <2>1, <2>2
<1> QED
  BY <1>3, <1>4 DEF SwitchInv, SwitchExclusion

\* The guard falls with the switch that is cancelled, and only with it.
LEMMA CancelKeeps ==
    ASSUME TypeOK, SwitchInv, NEW p \in Peers, CancelWatchTask(p)
    PROVE  SwitchInv'
<1>1. CASE \A j \in Slots : task[p][j].kind # "regswitch"
  <2>1. \A q \in Peers : /\ switching'[q] <=> switching[q]
                         /\ \A j \in Slots : task'[q][j] = task[q][j]
    BY <1>1, CancelEffect
  <2> QED
    BY <2>1 DEF SwitchInv, SwitchExclusion, SwitchTasksSound
<1>2. ASSUME NEW k \in Slots, task[p][k].kind = "regswitch" PROVE SwitchInv'
  <2>1. \A v : NewTask("orphan", "left", v).kind \notin SwitchKinds
    BY Kinds
  <2>2. IdleTask.kind \notin SwitchKinds /\ "regswitch" \in SwitchKinds
    BY Kinds DEF SwitchKinds
  <2>3. \A j \in Slots : task[p][j].kind \in SwitchKinds => j = k
    BY <1>2, <2>2 DEF SwitchInv, SwitchExclusion
  <2>4. \A j \in Slots : task'[p][j].kind \notin SwitchKinds
    <3> TAKE j \in Slots
    <3>1. CASE task[p][j].kind = "regswitch"
      BY <2>1, <2>2, <3>1, CancelEffect
    <3>2. CASE task[p][j].kind # "regswitch"
      <4>1. task[p][j].kind \notin SwitchKinds
        BY <1>2, <2>3, <3>2
      <4> QED
        BY <3>2, <4>1, CancelEffect
    <3> QED
      BY <3>1, <3>2
  <2>5. ~switching'[p]
    BY <1>2, CancelEffect
  <2>6. \A q \in Peers \ {p} : /\ switching'[q] = switching[q]
                               /\ \A j \in Slots : task'[q][j] = task[q][j]
    BY CancelEffect
  <2>7. SwitchTasksSound'
    BY <2>4, <2>6 DEF SwitchInv, SwitchTasksSound
  <2>8. SwitchExclusion'
    BY <2>4, <2>5, <2>6 DEF SwitchInv, SwitchExclusion
  <2> QED
    BY <2>7, <2>8 DEF SwitchInv
<1> QED
  BY <1>1, <1>2

\* A failed add_share releases the guard if it was a switch's.
LEMMA PoolStepKeeps ==
    ASSUME TypeOK, SwitchInv, NEW p \in Peers, NEW k \in Slots, PoolStep(p, k)
    PROVE  SwitchInv'
<1>0. IdleTask.kind \notin SwitchKinds /\ SetTask(p, k, IdleTask)
  BY Kinds DEF PoolStep, LtAddLeft, AddShareFails
<1>1. CASE task[p][k].kind \notin SwitchKinds
  <2>1. switching' = switching
    BY <1>1 DEF PoolStep, LtAddLeft, AddShareFails
  <2> QED
    BY <1>0, <1>1, <2>1, SetTaskCalm, CalmKeeps
<1>2. CASE task[p][k].kind \in SwitchKinds
  <2>1. task[p][k].kind # "orphan"
    BY <1>2, Kinds
  <2>2. switching' = [switching EXCEPT ![p] = FALSE]
    BY <1>2, <2>1 DEF PoolStep, LtAddLeft, AddShareFails
  <2> QED
    BY <1>0, <1>2, <2>2, GuardFalls
<1> QED
  BY <1>1, <1>2

\* Every step keeps the exclusion.
LEMMA SwitchStep == TypeOK /\ SwitchInv /\ [Next]_vars => SwitchInv'
<1> SUFFICES ASSUME TypeOK, SwitchInv, [Next]_vars PROVE SwitchInv'
  OBVIOUS
<1>1. CASE UNCHANGED <<switching, task>>
  BY <1>1, CalmKeeps DEF Calm
<1>2. ASSUME NEW p \in Peers, NEW k \in Slots, TaskStep(p, k) PROVE SwitchInv'
  <2>1. task[p][k] \in Task /\ IdleTask.kind \notin SwitchKinds
    BY Kinds DEF TypeOK
  <2>2. CASE LtAddShare(p, k)
    BY <2>2, LtAddShareKeeps
  <2>3. CASE SwitchFinish(p, k)
    BY <2>3, GuardFalls DEF SwitchFinish
  <2>4. CASE task[p][k].kind \notin SwitchKinds /\ ~LtAddShare(p, k)
    <3>1. \A x, y, f, g :
            /\ [task[p][k] EXCEPT !.pc = x].kind = task[p][k].kind
            /\ [task[p][k] EXCEPT !.pc = x, !.ih = y, !.files = f,
                                  !.fresh = g].kind = task[p][k].kind
      BY <2>1 DEF Task
    <3>2. CASE Boot(p, k)
      BY <2>1, <2>4, <3>1, <3>2, SetTaskCalm, CalmKeeps DEF Boot
    <3>3. CASE ActivateScan(p, k)
      <4> DEFINE u(v) == [task[p][k] EXCEPT !.pc = "add", !.ih = v,
                            !.files = disk[p] # NoHash,
                            !.fresh = ~row[p] \/ seq[p] = 0]
      <4>1. /\ switching' = switching
            /\ SetTask(p, k, IdleTask) \/ \E v : SetTask(p, k, u(v))
        BY <3>3 DEF ActivateScan
      <4>2. \A v : u(v).kind \notin SwitchKinds
        BY <2>4, <3>1
      <4> HIDE DEF u
      <4> QED
        BY <2>1, <2>4, <4>1, <4>2, SetTaskCalm, CalmKeeps
    <3>4. CASE ActivateFinish(p, k)
      BY <2>1, <2>4, <3>4, SetTaskCalm, CalmKeeps DEF ActivateFinish
    <3>5. CASE RebuildStart(p, k)
      BY <2>1, <2>4, <3>1, <3>5, SetTaskCalm, CalmKeeps DEF RebuildStart
    <3>6. CASE RebuildFinish(p, k)
      BY <2>1, <2>4, <3>6, SetTaskCalm, CalmKeeps DEF RebuildFinish
    <3> QED
      BY <1>2, <2>3, <2>4, <3>2, <3>3, <3>4, <3>5, <3>6 DEF TaskStep
  <2>5. CASE task[p][k].kind \in SwitchKinds
    <3>1. task[p][k].pc \in {"add", "finish"} /\ task[p][k].kind \notin {"rebuild", "activate"}
      BY <2>5, Kinds DEF SwitchInv, SwitchTasksSound
    <3> QED
      BY <1>2, <2>2, <2>3, <3>1
         DEF TaskStep, Boot, ActivateScan, ActivateFinish, RebuildStart, RebuildFinish
  <2> QED
    BY <2>2, <2>4, <2>5
<1>3. ASSUME NEW p \in Peers, LoopStep(p) PROVE SwitchInv'
  <2>1. \/ UNCHANGED <<switching, task>>
        \/ ScheduleOrRebuild(p) /\ switching' = switching
        \/ DeferredFire(p)
    BY <1>3 DEF LoopStep, FsEvent, FsSchedule, StatusAlert, StatusHandle,
                StatusIndexed, AnnounceLan, Heartbeat
  <2>2. \A pc : NewTask("rebuild", pc, NoHash).kind \notin SwitchKinds
    BY Kinds
  <2>3. CASE ScheduleOrRebuild(p) /\ switching' = switching
    BY <1>1, <2>2, <2>3, SpawnCalm, CalmKeeps DEF ScheduleOrRebuild
  <2>4. CASE DeferredFire(p)
    BY <1>1, <2>2, <2>4, SpawnCalm, CalmKeeps DEF DeferredFire
  <2> QED
    BY <1>1, <2>1, <2>3, <2>4
<1>4. ASSUME NEW p \in Peers, Receive(p) PROVE SwitchInv'
  <2>1. ASSUME NEW q \in Peers \cup Outsiders, NEW m \in net[q], ReceiveLan(p, q, m)
        PROVE  SwitchInv'
    <3>1. m.ih \in Hash /\ "switch" \in SwitchKinds
      BY DEF TypeOK, Packet, SwitchKinds
    <3>2. CASE m.ih # NoHash
      <4>1. m.ih \in Version
        BY <3>1, <3>2 DEF Hash
      <4>2. \/ SwitchToRemote(p, m.ih, "switch")
            \/ HandleRemoteUpdate(p, m.ih, "switch")
            \/ UNCHANGED <<switching, task>>
        BY <2>1 DEF ReceiveLan
      <4> QED
        BY <1>1, <3>1, <4>1, <4>2, SwitchKeeps, RemoteUpdateKeeps
    <3>3. CASE m.ih = NoHash
      BY <1>1, <2>1, <3>3 DEF ReceiveLan
    <3> QED
      BY <3>2, <3>3
  <2>2. ASSUME NEW q \in Peers \cup Outsiders, ReceiveReg(p, q)
        PROVE  SwitchInv'
    <3>1. ann[q] \in Version /\ "regswitch" \in SwitchKinds
      BY <2>2 DEF ReceiveReg, TypeOK, Hash, SwitchKinds
    <3>2. \/ HandleRemoteUpdate(p, ann[q], "regswitch")
          \/ UNCHANGED <<switching, task>>
      BY <2>2 DEF ReceiveReg
    <3> QED
      BY <1>1, <3>1, <3>2, RemoteUpdateKeeps
  <2> QED
    BY <1>4, <2>1, <2>2 DEF Receive
<1>5. ASSUME NEW p \in Peers, Transfer(p) PROVE SwitchInv'
  BY <1>1, <1>5 DEF Transfer, LtMetadata, LtFinish
<1>6. ASSUME NEW p \in Peers, UserStep(p) PROVE SwitchInv'
  <2>1. CASE Restart(p)
    BY <2>1, RestartKeeps
  <2>2. CASE StartActivation(p) /\ switching' = switching
    <3>1. NewTask("activate", "scan", NoHash).kind \notin SwitchKinds
      BY Kinds
    <3> QED
      BY <2>2, <3>1, SpawnCalm, CalmKeeps DEF StartActivation
  <2>3. ASSUME NEW v \in Version, SwitchToRemote(p, v, "switch") PROVE SwitchInv'
    BY <2>3, SwitchKeeps DEF SwitchKinds
  <2>4. CASE RemoveShare(p)
    BY <2>4, CancelKeeps DEF RemoveShare
  <2> QED
    BY <1>1, <1>6, <2>1, <2>2, <2>3, <2>4
       DEF UserStep, AddShare, UserEdit, DeleteAll, ReAddShare, PauseShare,
           ResumeShare, ResolveConflict, SetConflictStrategy
<1>7. ASSUME NEW o \in Outsiders, OutsiderStep(o) PROVE SwitchInv'
  BY <1>1, <1>7 DEF OutsiderStep, OutsiderAnnounce
<1> QED
  BY <1>1, <1>2, <1>3, <1>4, <1>5, <1>6, <1>7, PoolStepKeeps DEF Next, vars

\* At most one coroutine that replaces a share's torrent by a remote one is in
\* flight on a daemon, and _switching says so exactly while it is: through
\* crashes, failures of add_share, removals that cancel the switch of a registry
\* event, resolutions and both channels that report peers.
THEOREM SwitchesExclusive == Spec => []SwitchExclusion
<1>1. Init => SwitchInv
  <2>1. Init => \A p \in Peers, k \in Slots :
                   ~switching[p] /\ task[p][k].kind \notin SwitchKinds
    BY Kinds DEF Init
  <2>2. Init => \A p \in Peers : ~switching[p]
    BY DEF Init
  <2> QED
    BY <2>1, <2>2 DEF SwitchInv, SwitchExclusion, SwitchTasksSound
<1>2. SwitchInv => SwitchExclusion
  BY DEF SwitchInv
<1> QED
  BY <1>1, <1>2, SwitchStep, TypeCorrect, PTL DEF Spec

-----------------------------------------------------------------------------
(* Threads of cancelled switches *)

\* No pool thread works for a switch that is gone.
NoOrphan == \A p \in Peers, k \in Slots : task[p][k].kind # "orphan"

\* What a step may write into the slots of p without leaving an orphan.
Attended(p) ==
    /\ \A q \in Peers \ {p} : task'[q] = task[q]
    /\ \A j \in Slots : \/ task'[p][j].kind = task[p][j].kind
                        \/ task'[p][j].kind # "orphan"

\* Spawning anything else, or moving a coroutine on, leaves none.
LEMMA AttendedTasks ==
    ASSUME TypeOK, NEW p \in Peers
    PROVE  /\ task' = task => Attended(p)
           /\ \A t : t.kind # "orphan" /\ Spawn(p, t) => Attended(p)
           /\ \A k \in Slots : \A t :
                 /\ t.kind # "orphan" \/ t.kind = task[p][k].kind
                 /\ SetTask(p, k, t)
                 => Attended(p)
<1>0. task \in [Peers -> [Slots -> Task]]
  BY DEF TypeOK
<1>1. ASSUME NEW t, NEW k \in Slots, task' = [task EXCEPT ![p][k] = t],
             t.kind # "orphan" \/ t.kind = task[p][k].kind
      PROVE  Attended(p)
  <2>1. \A j \in Slots : task'[p][j] = IF j = k THEN t ELSE task[p][j]
    BY <1>0, <1>1
  <2> QED
    BY <1>0, <1>1, <2>1 DEF Attended
<1>2. task' = task => Attended(p)
  BY DEF Attended
<1> QED
  BY <1>1, <1>2 DEF Spawn, SetTask, FreeSlots

\* _switch_to_remote_torrent and the conflict strategies.
LEMMA AttendedSwitch ==
    ASSUME TypeOK, NEW p \in Peers, NEW v, NEW kind \in SwitchKinds,
           SwitchToRemote(p, v, kind) \/ HandleRemoteUpdate(p, v, kind)
    PROVE  Attended(p)
<1>1. NewTask(kind, "add", v).kind # "orphan"
  BY Kinds
<1>2. task' = task \/ Spawn(p, NewTask(kind, "add", v))
  BY DEF SwitchToRemote, HandleRemoteUpdate
<1> QED
  BY <1>1, <1>2, AttendedTasks

LEMMA NoOrphanStep ==
    ASSUME TypeOK, NoOrphan, [Next]_vars, "remove" \notin UserOps
    PROVE  NoOrphan'
<1>0. /\ IdleTask.kind # "orphan"
      /\ \A kind, pc, v : NewTask(kind, pc, v).kind = kind
  BY Kinds
<1>1. ASSUME NEW p \in Peers, Attended(p) PROVE NoOrphan'
  BY <1>1 DEF Attended, NoOrphan
<1>2. ASSUME NEW p \in Peers, NEW k \in Slots, TaskStep(p, k) \/ PoolStep(p, k)
      PROVE  Attended(p)
  <2>1. task[p][k] \in Task
    BY DEF TypeOK
  <2>2. \A x, y, f, g :
            /\ [task[p][k] EXCEPT !.pc = x].kind = task[p][k].kind
            /\ [task[p][k] EXCEPT !.pc = x, !.ih = y].kind = task[p][k].kind
            /\ [task[p][k] EXCEPT !.pc = x, !.ih = y, !.files = f,
                                  !.fresh = g].kind = task[p][k].kind
    BY <2>1 DEF Task
  <2>3. \/ SetTask(p, k, IdleTask)
        \/ \E x : SetTask(p, k, [task[p][k] EXCEPT !.pc = x])
        \/ \E x, y : SetTask(p, k, [task[p][k] EXCEPT !.pc = x, !.ih = y])
        \/ \E x, y, f, g : SetTask(p, k, [task[p][k] EXCEPT !.pc = x, !.ih = y,
                                                   !.files = f, !.fresh = g])
    <3>1. CASE LtAddShare(p, k)
      BY <3>1 DEF LtAddShare
    <3>2. CASE ActivateScan(p, k)
      BY <3>2 DEF ActivateScan
    <3>3. CASE ~LtAddShare(p, k) /\ ~ActivateScan(p, k)
      BY <1>2, <3>3 DEF TaskStep, PoolStep, LtAddLeft, AddShareFails, Boot,
                        ActivateFinish, RebuildStart, RebuildFinish, SwitchFinish
    <3> QED
      BY <3>1, <3>2, <3>3
  <2>4. \E t : SetTask(p, k, t) /\ (t.kind # "orphan" \/ t.kind = task[p][k].kind)
    <3>1. CASE SetTask(p, k, IdleTask)
      BY <1>0, <3>1
    <3>2. ASSUME NEW x, SetTask(p, k, [task[p][k] EXCEPT !.pc = x])
          PROVE  \E t : SetTask(p, k, t) /\ t.kind = task[p][k].kind
      BY <2>2, <3>2
    <3>3. ASSUME NEW x, NEW y, SetTask(p, k, [task[p][k] EXCEPT !.pc = x, !.ih = y])
          PROVE  \E t : SetTask(p, k, t) /\ t.kind = task[p][k].kind
      BY <2>2, <3>3
    <3>4. ASSUME NEW x, NEW y, NEW f, NEW g,
                 SetTask(p, k, [task[p][k] EXCEPT !.pc = x, !.ih = y, !.files = f,
                                                  !.fresh = g])
          PROVE  \E t : SetTask(p, k, t) /\ t.kind = task[p][k].kind
      <4> DEFINE u == [task[p][k] EXCEPT !.pc = x, !.ih = y, !.files = f, !.fresh = g]
      <4>1. SetTask(p, k, u) /\ u.kind = task[p][k].kind
        BY <2>2, <3>4
      <4> HIDE DEF u
      <4> QED
        BY <4>1
    <3> QED
      BY <2>3, <3>1, <3>2, <3>3, <3>4
  <2> QED
    BY <2>4, AttendedTasks
<1>3. ASSUME NEW p \in Peers, LoopStep(p) \/ Transfer(p) PROVE Attended(p)
  <2>1. \/ task' = task
        \/ \E pc : Spawn(p, NewTask("rebuild", pc, NoHash))
    BY <1>3 DEF LoopStep, FsEvent, FsSchedule, ScheduleOrRebuild, DeferredFire,
                StatusAlert, StatusHandle, StatusIndexed, AnnounceLan, Heartbeat,
                Transfer, LtMetadata, LtFinish
  <2> QED
    BY <1>0, <2>1, AttendedTasks
<1>4. ASSUME NEW p \in Peers, Receive(p) PROVE Attended(p)
  <2>1. \/ task' = task
        \/ \E v : \E kind \in SwitchKinds :
              SwitchToRemote(p, v, kind) \/ HandleRemoteUpdate(p, v, kind)
    BY <1>4 DEF Receive, ReceiveLan, ReceiveReg, SwitchKinds
  <2> QED
    BY <2>1, AttendedTasks, AttendedSwitch
<1>5. ASSUME NEW p \in Peers, UserStep(p) PROVE Attended(p)
  <2>1. CASE Restart(p)
    <3>1. PICK k \in Slots : task' = [task EXCEPT ![p] = [j \in Slots |->
                 IF j = k THEN NewTask("activate", "boot", NoHash) ELSE IdleTask]]
      BY <2>1 DEF Restart
    <3>2. NewTask("activate", "boot", NoHash).kind # "orphan"
      BY <1>0
    <3> QED
      BY <1>0, <3>1, <3>2 DEF Attended, TypeOK
  <2>2. CASE RemoveShare(p)
    BY <2>2 DEF RemoveShare, Op
  <2>3. \/ task' = task \/ StartActivation(p) \/ Restart(p) \/ RemoveShare(p)
        \/ \E v : SwitchToRemote(p, v, "switch")
    BY <1>5 DEF UserStep, AddShare, UserEdit, DeleteAll, ReAddShare, PauseShare,
                ResumeShare, ResolveConflict, SetConflictStrategy
  <2>4. CASE StartActivation(p)
    BY <1>0, <2>4, AttendedTasks DEF StartActivation
  <2> QED
    BY <2>1, <2>2, <2>3, <2>4, AttendedTasks, AttendedSwitch DEF SwitchKinds
<1>6. ASSUME NEW o \in Outsiders, OutsiderStep(o) PROVE NoOrphan'
  BY <1>6 DEF OutsiderStep, OutsiderAnnounce, NoOrphan
<1>7. CASE UNCHANGED vars
  BY <1>7 DEF vars, NoOrphan
<1> QED
  BY <1>1, <1>2, <1>3, <1>4, <1>5, <1>6, <1>7 DEF Next

LEMMA NoOrphanStart == Init => NoOrphan
  BY Kinds DEF Init, NoOrphan

\* While nobody removes the share, _switching also keeps the pool threads apart
\* that add a remote torrent.  The hypothesis is needed: remove_share cancels the
\* switch of a registry event and its thread goes on, without the guard.
THEOREM ReplacementsExclusive ==
    ASSUME "remove" \notin UserOps
    PROVE  Spec => []ReplacementExclusion
<1>1. ASSUME TypeOK, NoOrphan, [Next]_vars PROVE NoOrphan'
  BY <1>1, NoOrphanStep
<1>2. NoOrphan /\ SwitchExclusion => ReplacementExclusion
  BY DEF NoOrphan, SwitchExclusion, ReplacementExclusion
<1> QED
  BY <1>1, <1>2, NoOrphanStart, TypeCorrect, SwitchesExclusive, PTL DEF Spec

-----------------------------------------------------------------------------
(* A step of one daemon *)

\* What a daemon has of the share stays as it is on every daemon but p.
Frame(p) ==
    \A q \in Peers \ {p} :
        /\ row'[q] = row[q] /\ ih'[q] = ih[q] /\ seq'[q] = seq[q]
        /\ switching'[q] = switching[q] /\ handle'[q] = handle[q]
        /\ task'[q] = task[q] /\ disk'[q] = disk[q] /\ tfile'[q] = tfile[q]
        /\ status'[q] = status[q] /\ conflicts'[q] = conflicts[q]

\* What the helpers leave alone, and what they write.
LEMMA SetTaskFrame ==
    ASSUME TypeOK, NEW p \in Peers, NEW t, Spawn(p, t) \/ \E k \in Slots : SetTask(p, k, t)
    PROVE  /\ \A q \in Peers \ {p} : task'[q] = task[q]
           /\ \A j \in Slots : task'[p][j] = task[p][j] \/ task'[p][j] = t
<1>1. PICK k \in Slots : task' = [task EXCEPT ![p][k] = t]
  BY DEF Spawn, SetTask, FreeSlots
<1>2. task \in [Peers -> [Slots -> Task]]
  BY DEF TypeOK
<1> QED
  BY <1>1, <1>2

LEMMA SetShareStateFrame ==
    ASSUME TypeOK, NEW p \in Peers, NEW s, NEW v, SetShareState(p, s, v)
    PROVE  /\ \A q \in Peers \ {p} : ih'[q] = ih[q]
           /\ ih'[p] = IF row[p] /\ v # NoHash THEN v ELSE ih[p]
           /\ \/ birth' = birth
              \/ /\ row[p] /\ v # NoHash /\ birth[v] = 0
                 /\ birth' = [birth EXCEPT ![v] = seq'[p] + 1]
           /\ row[p] /\ v # NoHash /\ birth[v] = 0 =>
                 birth' = [birth EXCEPT ![v] = seq'[p] + 1]
<1>1. ih \in [Peers -> Hash]
  BY DEF TypeOK
<1> QED
  BY <1>1 DEF SetShareState

LEMMA DropFrame ==
    ASSUME TypeOK, NEW p \in Peers, DropTorrent(p)
    PROVE  /\ \A q \in Peers \ {p} : tfile'[q] = tfile[q] /\ handle'[q] = handle[q]
           /\ tfile'[p] = NoHash /\ handle'[p] = NoHandle
<1>1. tfile \in [Peers -> Hash] /\ handle \in [Peers -> Handle]
  BY DEF TypeOK
<1> QED
  BY <1>1 DEF DropTorrent

LEMMA WriteFrame ==
    ASSUME TypeOK, NEW p \in Peers, NEW v, WriteDisk(p, v)
    PROVE  (\A q \in Peers \ {p} : disk'[q] = disk[q]) /\ disk'[p] = v
<1>1. disk \in [Peers -> Hash]
  BY DEF TypeOK
<1> QED
  BY <1>1 DEF WriteDisk

LEMMA SeqFrame ==
    ASSUME TypeOK, NEW p \in Peers
    PROVE  /\ IncrementSeq(p) => /\ \A q \in Peers \ {p} : seq'[q] = seq[q]
                                 /\ seq'[p] = IF row[p] THEN seq[p] + 1 ELSE seq[p]
           /\ \A s : AdoptSeq(p, s) => /\ \A q \in Peers \ {p} : seq'[q] = seq[q]
                                       /\ seq'[p] = s
<1>1. seq \in [Peers -> Nat]
  BY DEF TypeOK
<1> QED
  BY <1>1 DEF IncrementSeq, AdoptSeq

\* _switch_to_remote_torrent does nothing, or the row, the guard and the torrent
\* change together.
LEMMA SwitchFrame ==
    ASSUME TypeOK, NEW p \in Peers, NEW v \in Version, NEW kind, row[p],
           SwitchToRemote(p, v, kind)
    PROVE  /\ \A q \in Peers \ {p} :
                 /\ ih'[q] = ih[q] /\ switching'[q] = switching[q]
                 /\ task'[q] = task[q] /\ tfile'[q] = tfile[q]
                 /\ handle'[q] = handle[q]
           /\ IF switching[p]
              THEN UNCHANGED <<ih, switching, task, tfile, handle, birth>>
              ELSE /\ ih'[p] = v /\ switching'[p]
                   /\ tfile'[p] = NoHash /\ handle'[p] = NoHandle
                   /\ \A j \in Slots : \/ task'[p][j] = task[p][j]
                                       \/ task'[p][j].ih = v /\ task'[p][j].pc = "add"
                   /\ IF birth[v] = 0
                      THEN birth' = [birth EXCEPT ![v] = seq'[p] + 1]
                      ELSE birth' = birth
<1>0. v # NoHash
  BY DEF Version
<1>1. CASE switching[p]
  BY <1>1 DEF SwitchToRemote
<1>2. CASE ~switching[p]
  <2> DEFINE t == NewTask(kind, "add", v)
  <2>1. /\ switching' = [switching EXCEPT ![p] = TRUE]
        /\ SetShareState(p, "syncing", v) /\ DropTorrent(p) /\ Spawn(p, t)
    BY <1>2 DEF SwitchToRemote
  <2>2. t.ih = v /\ t.pc = "add"
    BY Kinds
  <2> HIDE DEF t
  <2>3. /\ \A q \in Peers \ {p} : task'[q] = task[q]
        /\ \A j \in Slots : task'[p][j] = task[p][j] \/ task'[p][j] = t
    BY <2>1, SetTaskFrame
  <2>4. (\A q \in Peers \ {p} : switching'[q] = switching[q]) /\ switching'[p]
    BY <2>1 DEF TypeOK
  <2>5. /\ \A q \in Peers \ {p} : ih'[q] = ih[q]
        /\ ih'[p] = v
        /\ IF birth[v] = 0 THEN birth' = [birth EXCEPT ![v] = seq'[p] + 1]
                           ELSE birth' = birth
    BY <1>0, <2>1, SetShareStateFrame
  <2>6. /\ \A q \in Peers \ {p} : tfile'[q] = tfile[q] /\ handle'[q] = handle[q]
        /\ tfile'[p] = NoHash /\ handle'[p] = NoHandle
    BY <2>1, DropFrame
  <2> QED
    BY <1>2, <2>2, <2>3, <2>4, <2>5, <2>6
<1> QED
  BY <1>1, <1>2

-----------------------------------------------------------------------------
(* The change counter never goes back *)

\* A row has a seq only with a hash, a switch in flight has stored its hash, and
\* what libtorrent returns is a hash.
RowOf(p) ==
    /\ ~row[p] => ih[p] = NoHash
    /\ ih[p] = NoHash => seq[p] = 0 /\ ~switching[p]
    /\ handle[p] # NoHandle => handle[p].ih # NoHash
    /\ \A k \in Slots : task[p][k].pc = "finish" => task[p][k].ih # NoHash

RowInv == \A p \in Peers : RowOf(p)

\* A row that keeps its hash, its seq and its guard, and gets no worse task.
LEMMA SameRow ==
    ASSUME NEW p \in Peers, RowOf(p),
           row'[p] = row[p] /\ ih'[p] = ih[p] /\ seq'[p] = seq[p],
           switching'[p] => switching[p],
           handle'[p] = handle[p] \/ handle'[p] = NoHandle \/ handle'[p].ih # NoHash,
           \A j \in Slots : \/ task'[p][j] = task[p][j]
                            \/ task'[p][j].pc # "finish" \/ task'[p][j].ih # NoHash
    PROVE  RowOf(p)'
  BY DEF RowOf

LEMMA IdlePc == IdleTask.pc # "finish" /\ IdleTask.ih = NoHash
  BY DEF IdleTask

\* add_share: whatever torrent it finds, the handle has a hash, and the task takes
\* it over.
LEMMA LtAddShareEffect ==
    ASSUME TypeOK, NEW p \in Peers, NEW k \in Slots, LtAddShare(p, k), RowOf(p)
    PROVE  /\ \A q \in Peers \ {p} : /\ task'[q] = task[q] /\ ih'[q] = ih[q]
                                     /\ handle'[q] = handle[q] /\ tfile'[q] = tfile[q]
           /\ ih'[p] = ih[p] /\ birth' = birth
           /\ tfile'[p] = tfile[p] \/ tfile'[p] = disk[p]
           /\ \/ handle'[p] = handle[p]
              \/ /\ handle'[p].ih # NoHash
                 /\ handle'[p].ih \in {tfile[p], task[p][k].ih, disk[p]}
           /\ \A j \in Slots :
                 \/ task'[p][j] = task[p][j] \/ task'[p][j] = IdleTask
                 \/ /\ task'[p][j].pc = "finish" /\ handle'[p].ih # NoHash
                    /\ task'[p][j].ih = handle'[p].ih
<1> DEFINE t == task[p][k]
           u == [t EXCEPT !.pc = "finish", !.ih = handle'[p].ih]
<1>0. /\ handle \in [Peers -> Handle] /\ tfile \in [Peers -> Hash]
      /\ disk \in [Peers -> Hash] /\ t \in Task
  BY DEF TypeOK
<1>1. u.pc = "finish" /\ u.ih = handle'[p].ih
  BY <1>0 DEF Task
<1>2. ASSUME NEW v, v # NoHash, v \in {tfile[p], t.ih, disk[p]}, NEW how,
             handle' = IF handle[p] # NoHandle THEN handle
                       ELSE [handle EXCEPT ![p] =
                               [ih |-> v, st |-> how, alert |-> how = "complete"]]
      PROVE  /\ \A q \in Peers \ {p} : handle'[q] = handle[q]
             /\ handle'[p].ih # NoHash
             /\ \/ handle'[p] = handle[p]
                \/ handle'[p].ih \in {tfile[p], t.ih, disk[p]}
  <2>1. CASE handle[p] # NoHandle
    BY <1>2, <2>1 DEF RowOf
  <2>2. CASE handle[p] = NoHandle
    <3> DEFINE h == [ih |-> v, st |-> how, alert |-> how = "complete"]
    <3>1. h.ih = v /\ handle' = [handle EXCEPT ![p] = h]
      BY <1>2, <2>2
    <3> HIDE DEF h
    <3> QED
      BY <1>0, <1>2, <3>1
  <2> QED
    BY <2>1, <2>2
<1> DEFINE Adds == /\ \E v, how :
                        /\ v # NoHash /\ v \in {tfile[p], t.ih, disk[p]}
                        /\ handle' = IF handle[p] # NoHandle THEN handle
                             ELSE [handle EXCEPT ![p] =
                               [ih |-> v, st |-> how, alert |-> how = "complete"]]
                   /\ SetTask(p, k, u) /\ UNCHANGED shareVars
                   /\ tfile' = tfile \/ tfile' = [tfile EXCEPT ![p] = disk[p]]
           Fails == /\ SetTask(p, k, IdleTask) /\ UNCHANGED torVars
                    /\ SetShareState(p, "error", NoHash) \/ UNCHANGED shareVars
<1>3. CASE Adds
  <2>1. /\ \A q \in Peers \ {p} : handle'[q] = handle[q]
        /\ handle'[p].ih # NoHash
        /\ \/ handle'[p] = handle[p]
           \/ handle'[p].ih \in {tfile[p], t.ih, disk[p]}
    BY <1>2, <1>3
  <2> HIDE DEF u
  <2>2. /\ \A q \in Peers \ {p} : task'[q] = task[q]
        /\ \A j \in Slots : task'[p][j] = task[p][j] \/ task'[p][j] = u
    BY <1>3, SetTaskFrame
  <2>3. /\ \A q \in Peers \ {p} : tfile'[q] = tfile[q]
        /\ tfile'[p] = tfile[p] \/ tfile'[p] = disk[p]
    BY <1>0, <1>3
  <2> QED
    BY <1>1, <1>3, <2>1, <2>2, <2>3
<1>4. CASE Fails
  <2>1. /\ \A q \in Peers \ {p} : task'[q] = task[q]
        /\ \A j \in Slots : task'[p][j] = task[p][j] \/ task'[p][j] = IdleTask
    BY <1>4, SetTaskFrame
  <2>2. (\A q \in Peers : ih'[q] = ih[q]) /\ birth' = birth
    BY <1>4 DEF SetShareState
  <2> QED
    BY <1>4, <2>1, <2>2
<1>5. Adds \/ Fails
  <2>1. CASE tfile[p] # NoHash
    BY <2>1 DEF LtAddShare
  <2>2. CASE tfile[p] = NoHash /\ ~(t.ih = NoHash \/ t.kind = "rebuild" \/ t.files)
    BY <2>2 DEF LtAddShare
  <2>3. CASE /\ tfile[p] = NoHash /\ disk[p] # NoHash
             /\ t.ih = NoHash \/ t.kind = "rebuild" \/ t.files
    BY <2>3 DEF LtAddShare
  <2>4. CASE /\ tfile[p] = NoHash /\ disk[p] = NoHash
             /\ t.ih = NoHash \/ t.kind = "rebuild" \/ t.files
    BY <2>4 DEF LtAddShare
  <2> QED
    BY <2>1, <2>2, <2>3, <2>4
<1> QED
  BY <1>3, <1>4, <1>5

LEMMA TaskStepRow ==
    ASSUME TypeOK, NEW p \in Peers, RowOf(p), NEW k \in Slots, TaskStep(p, k)
    PROVE  Frame(p) /\ RowOf(p)'
<1> DEFINE t == task[p][k]
<1>0. t \in Task /\ seq[p] \in Nat
  BY DEF TypeOK
<1>1. CASE Boot(p, k)
  <2> DEFINE u == [t EXCEPT !.pc = "scan"]
  <2>1. u.pc # "finish"
    BY <1>0 DEF Task
  <2>2. SetTask(p, k, u) \/ SetTask(p, k, IdleTask)
    BY <1>1 DEF Boot
  <2> HIDE DEF u
  <2>3. /\ \A q \in Peers \ {p} : task'[q] = task[q]
        /\ \A j \in Slots : task'[p][j] = task[p][j] \/ task'[p][j].pc # "finish"
    BY <2>1, <2>2, SetTaskFrame, IdlePc
  <2>4. UNCHANGED <<rowVars, shareVars, seq, conflicts, torVars, switching, status, disk>>
    BY <1>1 DEF Boot
  <2> QED
    BY <2>3, <2>4, SameRow DEF Frame
<1>2. CASE ActivateScan(p, k)
  <2> DEFINE u(v) == [t EXCEPT !.pc = "add", !.ih = v, !.files = disk[p] # NoHash,
                               !.fresh = ~row[p] \/ seq[p] = 0]
  <2>1. \A v : u(v).pc # "finish"
    BY <1>0 DEF Task
  <2>2. SetTask(p, k, IdleTask) \/ \E v : SetTask(p, k, u(v))
    BY <1>2 DEF ActivateScan
  <2> HIDE DEF u
  <2>3. /\ \A q \in Peers \ {p} : task'[q] = task[q]
        /\ \A j \in Slots : task'[p][j] = task[p][j] \/ task'[p][j].pc # "finish"
    BY <2>1, <2>2, SetTaskFrame, IdlePc
  <2>4. UNCHANGED <<rowVars, seq, conflicts, torVars, switching, status, disk>>
    BY <1>2 DEF ActivateScan
  <2>5. ih' = ih
    BY <1>2 DEF ActivateScan, SetShareState
  <2> QED
    BY <2>3, <2>4, <2>5, SameRow DEF Frame
<1>3. CASE ActivateFinish(p, k) \/ RebuildFinish(p, k)
  <2>1. t.pc = "finish" /\ t.ih # NoHash
    BY <1>3 DEF ActivateFinish, RebuildFinish, RowOf
  <2>2. \E s : SetShareState(p, s, t.ih)
    BY <1>3 DEF ActivateFinish, RebuildFinish
  <2>3. /\ \A q \in Peers \ {p} : ih'[q] = ih[q]
        /\ ih'[p] = IF row[p] THEN t.ih ELSE ih[p]
    BY <2>1, <2>2, SetShareStateFrame
  <2>4. UNCHANGED seq \/ IncrementSeq(p)
    BY <1>3 DEF ActivateFinish, RebuildFinish
  <2>5. /\ \A q \in Peers \ {p} : seq'[q] = seq[q]
        /\ row[p] \/ seq'[p] = seq[p]
    BY <2>4, SeqFrame
  <2>6. SetTask(p, k, IdleTask)
    BY <1>3 DEF ActivateFinish, RebuildFinish
  <2>7. /\ \A q \in Peers \ {p} : task'[q] = task[q]
        /\ \A j \in Slots : task'[p][j] = task[p][j] \/ task'[p][j] = IdleTask
    BY <2>6, SetTaskFrame
  <2>8. UNCHANGED <<rowVars, conflicts, torVars, switching, status, disk>>
    BY <1>3 DEF ActivateFinish, RebuildFinish
  <2>9. RowOf(p)'
    BY <2>1, <2>3, <2>5, <2>7, <2>8, IdlePc DEF RowOf
  <2> QED
    BY <2>3, <2>5, <2>7, <2>8, <2>9 DEF Frame
<1>4. CASE LtAddShare(p, k)
  <2>1. UNCHANGED <<rowVars, seq, conflicts, switching, status, disk>>
    BY <1>4 DEF LtAddShare
  <2>2. Frame(p)
    BY <1>4, <2>1, LtAddShareEffect DEF Frame
  <2>3. /\ ih'[p] = ih[p]
        /\ handle'[p] = handle[p] \/ handle'[p].ih # NoHash
        /\ \A j \in Slots : \/ task'[p][j] = task[p][j]
                            \/ task'[p][j].pc # "finish" \/ task'[p][j].ih # NoHash
    BY <1>4, LtAddShareEffect, IdlePc
  <2> QED
    BY <2>1, <2>2, <2>3, SameRow
<1>5. CASE RebuildStart(p, k)
  <2> DEFINE u == [t EXCEPT !.pc = "add"]
  <2>1. u.pc # "finish"
    BY <1>0 DEF Task
  <2>2. SetTask(p, k, u) /\ DropTorrent(p)
    BY <1>5 DEF RebuildStart
  <2> HIDE DEF u
  <2>3. /\ \A q \in Peers \ {p} : task'[q] = task[q]
        /\ \A j \in Slots : task'[p][j] = task[p][j] \/ task'[p][j].pc # "finish"
    BY <2>1, <2>2, SetTaskFrame
  <2>4. UNCHANGED <<rowVars, shareVars, seq, conflicts, switching, status, disk>>
    BY <1>5 DEF RebuildStart
  <2> QED
    BY <2>2, <2>3, <2>4, DropFrame, SameRow DEF Frame
<1>6. CASE SwitchFinish(p, k)
  <2>1. SetTask(p, k, IdleTask) /\ switching' = [switching EXCEPT ![p] = FALSE]
    BY <1>6 DEF SwitchFinish
  <2>2. /\ \A q \in Peers \ {p} : task'[q] = task[q]
        /\ \A j \in Slots : task'[p][j] = task[p][j] \/ task'[p][j] = IdleTask
    BY <2>1, SetTaskFrame
  <2>3. UNCHANGED <<rowVars, shareVars, seq, conflicts, torVars, status, disk>>
    BY <1>6 DEF SwitchFinish
  <2>4. (\A q \in Peers \ {p} : switching'[q] = switching[q]) /\ ~switching'[p]
    BY <2>1 DEF TypeOK
  <2> QED
    BY <2>2, <2>3, <2>4, IdlePc, SameRow DEF Frame
<1> QED
  BY <1>1, <1>2, <1>3, <1>4, <1>5, <1>6 DEF TaskStep

LEMMA LoopStepRow ==
    ASSUME TypeOK, NEW p \in Peers, RowOf(p), LoopStep(p)
    PROVE  Frame(p) /\ RowOf(p)'
<1>1. \A pc : NewTask("rebuild", pc, NoHash).pc = pc
  BY Kinds
<1>2. CASE FsEvent(p) \/ FsSchedule(p)
  <2>1. UNCHANGED <<rowVars, shareVars, seq, conflicts, torVars, switching, status, disk>>
    BY <1>2 DEF FsEvent, FsSchedule
  <2>2. task' = task \/ Spawn(p, NewTask("rebuild", "start", NoHash))
    BY <1>2 DEF FsEvent, FsSchedule, ScheduleOrRebuild
  <2>3. /\ \A q \in Peers \ {p} : task'[q] = task[q]
        /\ \A j \in Slots : task'[p][j] = task[p][j] \/ task'[p][j].pc # "finish"
    BY <1>1, <2>2, SetTaskFrame
  <2> QED
    BY <2>1, <2>3, SameRow DEF Frame
<1>3. CASE DeferredFire(p)
  <2>1. UNCHANGED <<rowVars, shareVars, seq, conflicts, switching, status, disk>>
    BY <1>3 DEF DeferredFire
  <2>2. \/ UNCHANGED <<task, torVars>>
        \/ Spawn(p, NewTask("rebuild", "add", NoHash)) /\ DropTorrent(p)
    BY <1>3 DEF DeferredFire
  <2>3. /\ \A q \in Peers \ {p} : task'[q] = task[q]
        /\ \A j \in Slots : task'[p][j] = task[p][j] \/ task'[p][j].pc # "finish"
    BY <1>1, <2>2, SetTaskFrame
  <2>4. /\ \A q \in Peers \ {p} : tfile'[q] = tfile[q] /\ handle'[q] = handle[q]
        /\ handle'[p] = handle[p] \/ handle'[p] = NoHandle
    BY <2>2, DropFrame
  <2> QED
    BY <2>1, <2>3, <2>4, SameRow DEF Frame
<1>4. CASE StatusAlert(p)
  <2>1. UNCHANGED <<rowVars, shareVars, seq, conflicts, tfile, taskVars, disk>>
    BY <1>4 DEF StatusAlert
  <2>2. /\ handle[p] # NoHandle
        /\ handle'[p].ih = handle[p].ih
        /\ \A q \in Peers \ {p} : handle'[q] = handle[q] /\ status'[q] = status[q]
    BY <1>4 DEF StatusAlert, TypeOK, Handle, NoHandle
  <2> QED
    BY <2>1, <2>2, SameRow DEF Frame, RowOf
<1>5. CASE StatusHandle(p)
  <2>1. UNCHANGED <<rowVars, seq, conflicts, torVars, taskVars, disk>>
    BY <1>5 DEF StatusHandle
  <2>2. \A q \in Peers \ {p} : status'[q] = status[q]
    BY <1>5 DEF StatusHandle, TypeOK
  <2>3. \/ ih' = ih
        \/ row[p] /\ status[p] # NoHash /\ SetShareState(p, "seeding", status[p])
    BY <1>5 DEF StatusHandle
  <2>4. /\ \A q \in Peers \ {p} : ih'[q] = ih[q]
        /\ ih'[p] = ih[p] \/ (row[p] /\ ih'[p] # NoHash)
    BY <2>3, SetShareStateFrame
  <2>5. RowOf(p)'
    BY <2>1, <2>4 DEF RowOf
  <2> QED
    BY <2>1, <2>2, <2>4, <2>5 DEF Frame
<1>6. CASE StatusIndexed(p) \/ AnnounceLan(p) \/ Heartbeat(p)
  <2>1. UNCHANGED <<rowVars, shareVars, seq, conflicts, torVars, taskVars, status, disk>>
    BY <1>6 DEF StatusIndexed, AnnounceLan, Heartbeat
  <2> QED
    BY <2>1, SameRow DEF Frame
<1> QED
  BY <1>2, <1>3, <1>4, <1>5, <1>6 DEF LoopStep

\* handle_remote_update: a switch, perhaps after a rename, or a noted conflict.
LEMMA RemoteUpdateEffect ==
    ASSUME TypeOK, NEW p \in Peers, NEW v \in Version, NEW kind, row[p],
           HandleRemoteUpdate(p, v, kind)
    PROVE  /\ \A q \in Peers \ {p} : conflicts'[q] = conflicts[q] /\ disk'[q] = disk[q]
           /\ disk'[p] = disk[p] \/ (disk'[p] = nver + 1 /\ nver' = nver + 1)
           /\ disk'[p] = disk[p] => nver' \in {nver, nver + 1}
           /\ \/ SwitchToRemote(p, v, kind) /\ conflicts' = conflicts
              \/ /\ UNCHANGED <<ih, birth, switching, task, tfile, handle>>
                 /\ conflicts'[p] = conflicts[p] \cup {v}
<1>1. CASE strat[p] = "ask"
  <2>1. SameDisk /\ UNCHANGED <<switching, task, torVars>>
    BY <1>1 DEF HandleRemoteUpdate
  <2>2. conflicts' = [conflicts EXCEPT ![p] = @ \cup {v}]
    BY <1>1 DEF HandleRemoteUpdate
  <2>3. ih' = ih /\ birth' = birth
    BY <1>1 DEF HandleRemoteUpdate, SetShareState
  <2>4. conflicts \in [Peers -> SUBSET Version]
    BY DEF TypeOK
  <2> QED
    BY <2>1, <2>2, <2>3, <2>4 DEF SameDisk, torVars
<1>2. CASE strat[p] # "ask"
  <2>1. SwitchToRemote(p, v, kind) /\ conflicts' = conflicts
    BY <1>2 DEF HandleRemoteUpdate
  <2>2. SameDisk \/ (WriteDisk(p, nver + 1) /\ nver' = nver + 1)
    BY <1>2 DEF HandleRemoteUpdate, RenameConflictFiles, WriteNew
  <2> QED
    BY <2>1, <2>2, WriteFrame DEF SameDisk
<1> QED
  BY <1>1, <1>2

\* A switch keeps the row sound: it stores its hash, or one is in flight already.
LEMMA SwitchRow ==
    ASSUME TypeOK, NEW p \in Peers, NEW v \in Version, NEW kind, row[p], RowOf(p),
           SwitchToRemote(p, v, kind), row' = row,
           ih[p] # NoHash \/ ~switching[p]
    PROVE  RowOf(p)'
<1>0. v # NoHash
  BY DEF Version
<1>1. CASE switching[p]
  <2>1. UNCHANGED <<ih, switching, task, handle>>
    BY <1>1, SwitchFrame
  <2> QED
    BY <1>1, <2>1 DEF RowOf
<1>2. CASE ~switching[p]
  <2>1. /\ ih'[p] = v /\ handle'[p] = NoHandle
        /\ \A j \in Slots : task'[p][j] = task[p][j] \/ task'[p][j].pc = "add"
    BY <1>2, SwitchFrame
  <2> QED
    BY <1>0, <2>1 DEF RowOf
<1> QED
  BY <1>1, <1>2

LEMMA ReceiveRow ==
    ASSUME TypeOK, NEW p \in Peers, RowOf(p), Receive(p)
    PROVE  Frame(p) /\ RowOf(p)'
<1>1. ASSUME row[p], ih[p] # NoHash, NEW v \in Version, NEW kind,
             HandleRemoteUpdate(p, v, kind), row' = row, status' = status,
             \A q \in Peers \ {p} : seq'[q] = seq[q]
      PROVE  Frame(p) /\ RowOf(p)'
  <2>1. CASE SwitchToRemote(p, v, kind)
    <3>1. RowOf(p)'
      BY <1>1, <2>1, SwitchRow
    <3>2. Frame(p)
      BY <1>1, <2>1, SwitchFrame, RemoteUpdateEffect DEF Frame
    <3> QED
      BY <3>1, <3>2
  <2>2. CASE UNCHANGED <<ih, birth, switching, task, tfile, handle>>
    <3>1. RowOf(p)'
      BY <1>1, <2>2 DEF RowOf
    <3>2. Frame(p)
      BY <1>1, <2>2, RemoteUpdateEffect DEF Frame
    <3> QED
      BY <3>1, <3>2
  <2> QED
    BY <1>1, <2>1, <2>2, RemoteUpdateEffect
<1>2. ASSUME NEW q \in Peers \cup Outsiders, NEW m \in net[q], ReceiveLan(p, q, m)
      PROVE  Frame(p) /\ RowOf(p)'
  <2>0. m.ih \in Hash /\ row[p]
    BY <1>2 DEF TypeOK, Packet, ReceiveLan
  <2>1. row' = row /\ status' = status
    BY <1>2 DEF ReceiveLan, rowVars, statusVars
  <2>2. UNCHANGED seq \/ AdoptSeq(p, m.seq)
    BY <1>2 DEF ReceiveLan
  <2>3. \A r \in Peers \ {p} : seq'[r] = seq[r]
    BY <2>2, SeqFrame
  <2>4. CASE m.ih # NoHash /\ ih[p] = NoHash
    <3>1. SwitchToRemote(p, m.ih, "switch") /\ SameDisk /\ UNCHANGED conflicts
      BY <1>2, <2>4 DEF ReceiveLan
    <3>2. m.ih \in Version /\ ~switching[p]
      BY <2>0, <2>4 DEF Hash, RowOf
    <3>3. RowOf(p)'
      BY <2>0, <2>1, <3>1, <3>2, SwitchRow
    <3>4. Frame(p)
      BY <2>0, <2>1, <2>3, <3>1, <3>2, SwitchFrame DEF Frame, SameDisk
    <3> QED
      BY <3>3, <3>4
  <2>5. CASE /\ m.ih # NoHash /\ ih[p] # NoHash
             /\ HandleRemoteUpdate(p, m.ih, "switch")
    <3>1. m.ih \in Version
      BY <2>0, <2>5 DEF Hash
    <3> QED
      BY <1>1, <2>0, <2>1, <2>3, <2>5, <3>1
  <2>6. CASE SameDisk /\ UNCHANGED <<seq, conflicts, switching, task, shareVars,
                                     watched, torVars>>
    BY <2>1, <2>6, SameRow DEF Frame, SameDisk, shareVars, torVars
  <2> QED
    BY <1>2, <2>4, <2>5, <2>6 DEF ReceiveLan
<1>3. ASSUME NEW q \in Peers \cup Outsiders, ReceiveReg(p, q)
      PROVE  Frame(p) /\ RowOf(p)'
  <2>1. row' = row /\ status' = status /\ seq' = seq
    BY <1>3 DEF ReceiveReg, rowVars, statusVars
  <2>2. ann[q] \in Version
    BY <1>3 DEF ReceiveReg, TypeOK, Hash
  <2>3. CASE row[p] /\ ih[p] # NoHash /\ HandleRemoteUpdate(p, ann[q], "regswitch")
    BY <1>1, <2>1, <2>2, <2>3
  <2>4. CASE SameDisk /\ UNCHANGED <<conflicts, switching, task, shareVars,
                                     watched, torVars>>
    BY <2>1, <2>4, SameRow DEF Frame, SameDisk, shareVars, torVars
  <2> QED
    BY <1>3, <2>3, <2>4 DEF ReceiveReg
<1> QED
  BY <1>2, <1>3 DEF Receive

LEMMA TransferRow ==
    ASSUME TypeOK, NEW p \in Peers, RowOf(p), Transfer(p)
    PROVE  Frame(p) /\ RowOf(p)'
<1>1. UNCHANGED <<rowVars, shareVars, seq, conflicts, tfile, taskVars, status>>
  BY DEF Transfer, LtMetadata, LtFinish, statusVars
<1>2. /\ handle[p] # NoHandle /\ handle'[p].ih = handle[p].ih
      /\ \A q \in Peers \ {p} : handle'[q] = handle[q]
  <2>1. handle \in [Peers -> Handle]
    BY DEF TypeOK
  <2>2. NoHandle.st = "none"
    BY DEF NoHandle
  <2>3. CASE LtMetadata(p)
    BY <2>1, <2>2, <2>3 DEF LtMetadata, Handle
  <2>4. CASE LtFinish(p)
    BY <2>1, <2>2, <2>4 DEF LtFinish, Handle
  <2> QED
    BY <2>3, <2>4 DEF Transfer
<1>3. SameDisk \/ \E v : WriteDisk(p, v)
  BY DEF Transfer, LtMetadata, LtFinish, WriteNew
<1>4. \A q \in Peers \ {p} : disk'[q] = disk[q]
  BY <1>3, WriteFrame DEF SameDisk
<1> QED
  BY <1>1, <1>2, <1>4, SameRow DEF Frame, RowOf, rowVars, shareVars, taskVars

\* Users and crashes, as long as nobody removes the share.
LEMMA UserStepRow ==
    ASSUME TypeOK, NEW p \in Peers, RowOf(p), UserStep(p), "remove" \notin UserOps
    PROVE  Frame(p) /\ RowOf(p)'
<1>0. StartActivation(p) =>
          /\ \A q \in Peers \ {p} : task'[q] = task[q]
          /\ \A j \in Slots : task'[p][j] = task[p][j] \/ task'[p][j].pc # "finish"
  <2>1. NewTask("activate", "scan", NoHash).pc = "scan"
    BY Kinds
  <2> QED
    BY <2>1, SetTaskFrame DEF StartActivation
<1>1. ASSUME NEW s \in Strategies, AddShare(p, s) PROVE Frame(p) /\ RowOf(p)'
  <2>1. /\ StartActivation(p)
        /\ UNCHANGED <<conflicts, torVars, switching, statusVars, disk>>
    BY <1>1 DEF AddShare, SameDisk
  <2>2. /\ row'[p] /\ ih'[p] = NoHash /\ seq'[p] = 0 /\ ~row[p]
        /\ \A q \in Peers \ {p} : row'[q] = row[q] /\ ih'[q] = ih[q] /\ seq'[q] = seq[q]
    BY <1>1 DEF AddShare, TypeOK
  <2>3. Frame(p)
    BY <1>0, <2>1, <2>2 DEF Frame, torVars, statusVars
  <2>4. RowOf(p)'
    BY <1>0, <2>1, <2>2 DEF RowOf, torVars
  <2> QED
    BY <2>3, <2>4
<1>2. CASE UserEdit(p) \/ DeleteAll(p)
  <2>1. UNCHANGED <<rowVars, shareVars, seq, conflicts, torVars, taskVars, statusVars>>
    BY <1>2 DEF UserEdit, DeleteAll
  <2>2. \E v : WriteDisk(p, v)
    BY <1>2 DEF UserEdit, DeleteAll, WriteNew
  <2>3. \A q \in Peers \ {p} : disk'[q] = disk[q]
    BY <2>2, WriteFrame
  <2> QED
    BY <2>1, <2>3, SameRow DEF Frame, rowVars, shareVars, torVars, taskVars, statusVars
<1>3. CASE ReAddShare(p) \/ ResumeShare(p)
  <2>1. /\ StartActivation(p)
        /\ UNCHANGED <<rowVars, seq, conflicts, torVars, switching, statusVars, disk>>
    BY <1>3 DEF ReAddShare, ResumeShare, SameDisk
  <2>2. ih' = ih
    BY <1>3 DEF ReAddShare, ResumeShare, SetShareState
  <2> QED
    BY <1>0, <2>1, <2>2, SameRow DEF Frame, rowVars, torVars, statusVars
<1>4. CASE PauseShare(p) \/ \E s \in Strategies : SetConflictStrategy(p, s)
  <2>1. UNCHANGED <<row, seq, conflicts, torVars, taskVars, statusVars, disk>>
    BY <1>4 DEF PauseShare, SetConflictStrategy, SameDisk, rowVars
  <2>2. ih' = ih
    BY <1>4 DEF PauseShare, SetConflictStrategy, SetShareState, shareVars
  <2> QED
    BY <2>1, <2>2, SameRow DEF Frame, torVars, taskVars, statusVars
<1>5. CASE RemoveShare(p)
  BY <1>5 DEF RemoveShare, Op
<1>6. ASSUME NEW v \in Version, ResolveConflict(p, v) PROVE Frame(p) /\ RowOf(p)'
  <2>1. row[p] /\ UNCHANGED <<rowVars, seq, statusVars, disk>>
    BY <1>6 DEF ResolveConflict, SameDisk
  <2>2. \A q \in Peers \ {p} : conflicts'[q] = conflicts[q]
    BY <1>6 DEF ResolveConflict, TypeOK
  <2>3. CASE StartActivation(p) /\ UNCHANGED <<switching, shareVars, torVars>>
    BY <1>0, <2>1, <2>2, <2>3, SameRow DEF Frame, rowVars, shareVars, torVars, statusVars
  <2>4. CASE SwitchToRemote(p, v, "switch")
    <3>1. ih[p] # NoHash \/ ~switching[p]
      BY DEF RowOf
    <3>2. RowOf(p)'
      BY <2>1, <2>4, <3>1, SwitchRow DEF rowVars
    <3>3. Frame(p)
      BY <2>1, <2>2, <2>4, SwitchFrame DEF Frame, rowVars, statusVars
    <3> QED
      BY <3>2, <3>3
  <2> QED
    BY <1>6, <2>3, <2>4 DEF ResolveConflict
<1>7. CASE Restart(p)
  <2> DEFINE b == NewTask("activate", "boot", NoHash)
  <2>1. UNCHANGED <<row, ih, seq, conflicts, disk, tfile>>
    BY <1>7 DEF Restart, rowVars, shareVars, diskVars
  <2>2. /\ handle'[p] = NoHandle /\ ~switching'[p]
        /\ \A q \in Peers \ {p} : /\ handle'[q] = handle[q]
                                  /\ switching'[q] = switching[q]
                                  /\ status'[q] = status[q]
    BY <1>7 DEF Restart, TypeOK
  <2>3. b.pc = "boot"
    BY Kinds
  <2>4. PICK k \in Slots : task' = [task EXCEPT ![p] =
                                     [j \in Slots |-> IF j = k THEN b ELSE IdleTask]]
    BY <1>7 DEF Restart
  <2> HIDE DEF b
  <2>5. /\ \A q \in Peers \ {p} : task'[q] = task[q]
        /\ \A j \in Slots : task'[p][j].pc # "finish"
    BY <2>3, <2>4, IdlePc DEF TypeOK
  <2>6. Frame(p)
    BY <2>1, <2>2, <2>5 DEF Frame
  <2>7. RowOf(p)'
    BY <2>1, <2>2, <2>5 DEF RowOf
  <2> QED
    BY <2>6, <2>7
<1> QED
  BY <1>1, <1>2, <1>3, <1>4, <1>5, <1>6, <1>7 DEF UserStep

\* An announcement from outside touches no daemon's share.
LEMMA OutsiderFrame ==
    ASSUME NEW o \in Outsiders, OutsiderStep(o)
    PROVE  UNCHANGED <<row, ih, seq, switching, handle, task, disk, tfile, status,
                       conflicts>>
  BY DEF OutsiderStep, OutsiderAnnounce, rowVars, torVars, taskVars, statusVars

\* A failed add_share leaves the row's hash and seq alone.
LEMMA PoolStepEffect ==
    ASSUME TypeOK, NoOrphan, NEW p \in Peers, NEW k \in Slots, PoolStep(p, k)
    PROVE  /\ UNCHANGED <<row, ih, seq, birth, conflicts, handle, status, disk, nver, net>>
           /\ \A q \in Peers \ {p} : /\ task'[q] = task[q] /\ tfile'[q] = tfile[q]
                                     /\ switching'[q] = switching[q]
           /\ switching'[p] => switching[p]
           /\ tfile'[p] \in {tfile[p], disk[p]}
           /\ \A j \in Slots : task'[p][j] = task[p][j] \/ task'[p][j] = IdleTask
<1>1. AddShareFails(p, k)
  BY DEF PoolStep, LtAddLeft, NoOrphan
<1>2. SetTask(p, k, IdleTask)
  BY <1>1 DEF AddShareFails
<1>3. ih' = ih /\ birth' = birth
  BY <1>1 DEF AddShareFails, SetShareState
<1>4. /\ \A q \in Peers \ {p} : tfile'[q] = tfile[q] /\ switching'[q] = switching[q]
      /\ switching'[p] => switching[p]
      /\ tfile'[p] \in {tfile[p], disk[p]}
  BY <1>1 DEF AddShareFails, TypeOK
<1> QED
  BY <1>1, <1>2, <1>3, <1>4, SetTaskFrame DEF AddShareFails

\* A step of one daemon.
DaemonStep(p) ==
    \/ \E k \in Slots : TaskStep(p, k) \/ PoolStep(p, k)
    \/ LoopStep(p) \/ Receive(p) \/ Transfer(p) \/ UserStep(p)

LEMMA DaemonStepRow ==
    ASSUME TypeOK, NoOrphan, "remove" \notin UserOps, NEW p \in Peers, RowOf(p),
           DaemonStep(p)
    PROVE  Frame(p) /\ RowOf(p)'
<1>1. ASSUME NEW k \in Slots, PoolStep(p, k) PROVE Frame(p) /\ RowOf(p)'
  <2>1. Frame(p)
    BY <1>1, PoolStepEffect DEF Frame
  <2>2. RowOf(p)'
    BY <1>1, PoolStepEffect, IdlePc, SameRow
  <2> QED
    BY <2>1, <2>2
<1> QED
  BY <1>1, TaskStepRow, LoopStepRow, ReceiveRow, TransferRow, UserStepRow DEF DaemonStep

LEMMA RowStep ==
    ASSUME TypeOK, NoOrphan, RowInv, [Next]_vars, "remove" \notin UserOps
    PROVE  RowInv'
<1>1. CASE UNCHANGED vars
  BY <1>1 DEF vars, RowInv, RowOf
<1>2. ASSUME NEW p \in Peers, DaemonStep(p) PROVE RowInv'
  <2>1. Frame(p) /\ RowOf(p)'
    BY <1>2, DaemonStepRow DEF RowInv
  <2> QED
    BY <2>1 DEF Frame, RowInv, RowOf
<1>3. ASSUME NEW o \in Outsiders, OutsiderStep(o) PROVE RowInv'
  BY <1>3, OutsiderFrame DEF RowInv, RowOf
<1> QED
  BY <1>1, <1>2, <1>3 DEF Next, DaemonStep

\* A packet's seq replaces the row's only when it is larger, or when the row has
\* no hash and with it no seq.
LEMMA DaemonStepSeq ==
    ASSUME TypeOK, NoOrphan, "remove" \notin UserOps, NEW p \in Peers, RowOf(p),
           DaemonStep(p)
    PROVE  seq'[p] >= seq[p]
<1>0. seq \in [Peers -> Nat]
  BY DEF TypeOK
<1>1. ASSUME NEW k \in Slots, TaskStep(p, k) PROVE seq'[p] >= seq[p]
  <2>1. seq' = seq \/ IncrementSeq(p)
    BY <1>1 DEF TaskStep, Boot, ActivateScan, ActivateFinish, LtAddShare,
                RebuildStart, RebuildFinish, SwitchFinish
  <2> QED
    BY <1>0, <2>1, SeqFrame
<1>2. CASE LoopStep(p) \/ Transfer(p)
  <2>1. seq' = seq
    BY <1>2 DEF LoopStep, FsEvent, FsSchedule, DeferredFire, StatusAlert, StatusHandle,
                StatusIndexed, AnnounceLan, Heartbeat, Transfer, LtMetadata, LtFinish
  <2> QED
    BY <1>0, <2>1
<1>3. CASE Receive(p)
  <2>1. ASSUME NEW q \in Peers \cup Outsiders, NEW m \in net[q], ReceiveLan(p, q, m)
        PROVE  seq'[p] >= seq[p]
    <3>1. m.seq \in Nat
      BY DEF TypeOK, Packet
    <3>2. \/ seq' = seq
          \/ AdoptSeq(p, m.seq) /\ (ih[p] = NoHash \/ m.seq > seq[p])
      BY <2>1 DEF ReceiveLan
    <3>3. seq' = seq \/ (seq'[p] = m.seq /\ (seq[p] = 0 \/ m.seq > seq[p]))
      BY <3>2, SeqFrame DEF RowOf
    <3> QED
      BY <1>0, <3>1, <3>3
  <2>2. ASSUME NEW q \in Peers \cup Outsiders, ReceiveReg(p, q) PROVE seq' = seq
    BY <2>2 DEF ReceiveReg
  <2> QED
    BY <1>0, <1>3, <2>1, <2>2 DEF Receive
<1>4. CASE UserStep(p)
  <2>1. ASSUME NEW s \in Strategies, AddShare(p, s) PROVE seq'[p] = seq[p]
    BY <1>0, <2>1 DEF AddShare, RowOf
  <2>2. CASE RemoveShare(p)
    BY <2>2 DEF RemoveShare, Op
  <2>3. \/ seq' = seq \/ RemoveShare(p) \/ \E s \in Strategies : AddShare(p, s)
    BY <1>4 DEF UserStep, UserEdit, DeleteAll, ReAddShare, PauseShare, ResumeShare,
                ResolveConflict, SetConflictStrategy, Restart
  <2> QED
    BY <1>0, <2>1, <2>2, <2>3
<1>5. ASSUME NEW k \in Slots, PoolStep(p, k) PROVE seq' = seq
  BY <1>5, PoolStepEffect
<1> QED
  BY <1>0, <1>1, <1>2, <1>3, <1>4, <1>5 DEF DaemonStep

\* The change counter of a share never goes back on a daemon that keeps the share.
\* Without the hypothesis it can: a share removed while the switch of a LAN packet
\* is in flight leaves _switching set, so after it is added again handle_lan_peer stores a
\* packet's seq without its hash, and the next packet's smaller seq over it.
THEOREM SeqNeverFalls ==
    ASSUME "remove" \notin UserOps
    PROVE  Spec => SeqMonotonic
<1> DEFINE Grows == \A p \in Peers : row[p] /\ row'[p] => seq'[p] >= seq[p]
<1>1. Init => RowInv
  BY IdlePc DEF Init, RowInv, RowOf
<1>2. ASSUME TypeOK, NoOrphan, RowInv, [Next]_vars PROVE [Grows]_vars
  <2>0. seq \in [Peers -> Nat]
    BY <1>2 DEF TypeOK
  <2>1. ASSUME NEW p \in Peers, DaemonStep(p) PROVE Grows
    <3>1. Frame(p) /\ seq'[p] >= seq[p]
      BY <1>2, <2>1, DaemonStepRow, DaemonStepSeq DEF RowInv
    <3> QED
      BY <2>0, <3>1 DEF Frame
  <2>2. ASSUME NEW o \in Outsiders, OutsiderStep(o) PROVE Grows
    BY <2>0, <2>2, OutsiderFrame
  <2>3. CASE Next
    BY <2>1, <2>2, <2>3 DEF Next, DaemonStep
  <2>4. CASE UNCHANGED vars
    BY <2>4
  <2> QED
    BY <1>2, <2>3, <2>4
<1>3. ASSUME TypeOK, NoOrphan, RowInv, [Next]_vars PROVE RowInv'
  BY <1>3, RowStep
<1>4. ASSUME TypeOK, NoOrphan, [Next]_vars PROVE NoOrphan'
  BY <1>4, NoOrphanStep
<1> HIDE DEF Grows
<1>5. Spec => [][Grows]_vars
  BY <1>1, <1>2, <1>3, <1>4, NoOrphanStart, TypeCorrect, PTL DEF Spec
<1> QED
  BY <1>5 DEF SeqMonotonic, Grows

-----------------------------------------------------------------------------
(* A version's seq is covered *)

\* A version daemon p has in its row, its directory, its torrents or a task.
Holds(p, v) ==
    /\ v # NoHash
    /\ \/ v \in {ih[p], disk[p], tfile[p], handle[p].ih, status[p]} \cup conflicts[p]
       \/ \E k \in Slots : task[p][k].ih = v

\* Wherever a daemon keeps a version, its seq is up to that version's; so is the
\* seq of a packet that carries it.  A version not yet published is on one daemon
\* only, so no other daemon's seq has to cover the one it will be published with.
HeldCovered == \A p \in Peers : \A v \in Version :
    Holds(p, v) => v <= nver /\ birth[v] <= seq[p] + 1
UnbornIsLocal == \A p, q \in Peers : \A v \in Version :
    Holds(p, v) /\ Holds(q, v) /\ birth[v] = 0 => p = q
PacketCovered == \A q \in Peers \cup Outsiders : \A m \in net[q] :
    m.ih # NoHash => m.ih <= nver /\ birth[m.ih] \in 1..(m.seq + 1)
FutureUnborn == \A v \in Version : v > nver => birth[v] = 0
RowPublished == \A p \in Peers : ih[p] # NoHash => birth[ih[p]] # 0

CoverInv == /\ HeldCovered /\ UnbornIsLocal /\ PacketCovered
            /\ FutureUnborn /\ RowPublished

\* Where the versions of p come from in a step: it had them, it writes a new one,
\* or it hears of one its new seq covers.
May(p, v) ==
    \/ v = NoHash
    \/ Holds(p, v)
    \/ v = nver + 1 /\ nver' = nver + 1
    \/ v \in 1..nver /\ birth[v] \in 1..(seq'[p] + 1)

\* What p publishes first it had before, and it goes out under p's own seq.
Publishes(p) ==
    /\ \/ birth' = birth
       \/ \E v \in Version : /\ birth[v] = 0 /\ Holds(p, v)
                             /\ birth' = [birth EXCEPT ![v] = seq'[p] + 1]
    /\ ih'[p] # NoHash => birth'[ih'[p]] # 0

Sound(p) ==
    /\ \A v \in Version : Holds(p, v)' => May(p, v)
    /\ Publishes(p)
    /\ nver' \in {nver, nver + 1}
    /\ net' = net

LEMMA SoundKeeps ==
    ASSUME TypeOK, TypeOK', CoverInv, NEW p \in Peers, Frame(p), Sound(p),
           seq'[p] >= seq[p]
    PROVE  CoverInv'
<1>0. /\ seq \in [Peers -> Nat] /\ seq' \in [Peers -> Nat]
      /\ birth \in [Version -> Nat] /\ birth' \in [Version -> Nat]
      /\ nver \in Nat /\ nver' \in {nver, nver + 1} /\ Version \subseteq Nat
  BY DEF TypeOK, Sound, Version
<1>1. ASSUME NEW q \in Peers, q # p
      PROVE  /\ ih'[q] = ih[q] /\ seq'[q] = seq[q]
             /\ \A v \in Version : Holds(q, v)' <=> Holds(q, v)
  BY <1>1 DEF Frame, Holds
<1>2. ASSUME NEW v \in Version
      PROVE  \/ birth'[v] = birth[v]
             \/ birth[v] = 0 /\ Holds(p, v) /\ birth'[v] = seq'[p] + 1
  BY <1>0 DEF Sound, Publishes
<1>3. HeldCovered'
  <2> SUFFICES ASSUME NEW q \in Peers, NEW v \in Version, Holds(q, v)'
               PROVE  v <= nver' /\ birth'[v] <= seq'[q] + 1
    BY DEF HeldCovered
  <2>1. CASE q # p
    <3>1. Holds(q, v) /\ seq'[q] = seq[q]
      BY <1>1, <2>1
    <3>2. v <= nver /\ birth[v] <= seq[q] + 1
      BY <3>1 DEF CoverInv, HeldCovered
    <3>3. birth'[v] = birth[v]
      BY <1>2, <2>1, <3>1 DEF CoverInv, UnbornIsLocal
    <3> QED
      BY <1>0, <3>1, <3>2, <3>3
  <2>2. CASE q = p
    <3>1. \/ v <= nver /\ birth[v] <= seq[p] + 1
          \/ v = nver + 1 /\ nver' = nver + 1 /\ birth[v] = 0
          \/ v <= nver /\ birth[v] <= seq'[p] + 1
      <4>1. May(p, v) /\ v # NoHash
        BY <2>2 DEF Sound, Holds
      <4>2. CASE Holds(p, v)
        BY <4>2 DEF CoverInv, HeldCovered
      <4>3. CASE v = nver + 1 /\ nver' = nver + 1
        BY <1>0, <4>3 DEF CoverInv, FutureUnborn
      <4>4. CASE v \in 1..nver /\ birth[v] \in 1..(seq'[p] + 1)
        BY <1>0, <4>4
      <4> QED
        BY <4>1, <4>2, <4>3, <4>4 DEF May
    <3>2. birth'[v] = birth[v] \/ birth'[v] = seq'[p] + 1
      BY <1>2
    <3> QED
      BY <1>0, <2>2, <3>1, <3>2
  <2> QED
    BY <2>1, <2>2
<1>4. UnbornIsLocal'
  <2>1. ASSUME NEW q \in Peers, NEW v \in Version, q # p, Holds(q, v)', Holds(p, v)',
               birth'[v] = 0
        PROVE  FALSE
    <3>1. birth[v] = 0
      BY <1>0, <1>2, <2>1
    <3>2. Holds(q, v) /\ v <= nver
      BY <1>1, <2>1 DEF CoverInv, HeldCovered
    <3>3. ~Holds(p, v)
      BY <2>1, <3>1, <3>2 DEF CoverInv, UnbornIsLocal
    <3>4. May(p, v) /\ v # NoHash
      BY <2>1 DEF Sound, Holds
    <3> QED
      BY <1>0, <3>1, <3>2, <3>3, <3>4 DEF May
  <2>2. ASSUME NEW q \in Peers, NEW r \in Peers, NEW v \in Version, q # p, r # p,
               Holds(q, v)', Holds(r, v)', birth'[v] = 0
        PROVE  q = r
    <3>1. birth[v] = 0 /\ Holds(q, v) /\ Holds(r, v)
      BY <1>0, <1>1, <1>2, <2>2
    <3> QED
      BY <3>1 DEF CoverInv, UnbornIsLocal
  <2> QED
    BY <2>1, <2>2 DEF UnbornIsLocal
<1>5. PacketCovered'
  <2> SUFFICES ASSUME NEW q \in Peers \cup Outsiders, NEW m \in net[q], m.ih # NoHash
               PROVE  m.ih <= nver' /\ birth'[m.ih] \in 1..(m.seq + 1)
    BY DEF PacketCovered, Sound
  <2>1. m.ih \in Version /\ m.seq \in Nat
    BY DEF TypeOK, Packet, Hash
  <2>2. m.ih <= nver /\ birth[m.ih] \in 1..(m.seq + 1)
    BY DEF CoverInv, PacketCovered
  <2>3. birth'[m.ih] = birth[m.ih]
    BY <1>2, <2>1, <2>2
  <2>4. \A v \in Version : v <= nver => v <= nver'
    BY <1>0
  <2> QED
    BY <2>1, <2>2, <2>3, <2>4
<1>6. FutureUnborn'
  <2> SUFFICES ASSUME NEW v \in Version, v > nver' PROVE birth'[v] = 0
    BY DEF FutureUnborn
  <2>1. v > nver /\ birth[v] = 0
    BY <1>0 DEF CoverInv, FutureUnborn
  <2>2. ~Holds(p, v)
    BY <1>0, <2>1 DEF CoverInv, HeldCovered
  <2> QED
    BY <1>2, <2>1, <2>2
<1>7. RowPublished'
  <2> SUFFICES ASSUME NEW q \in Peers, q # p, ih'[q] # NoHash PROVE birth'[ih'[q]] # 0
    BY DEF RowPublished, Sound, Publishes
  <2>1. ih'[q] = ih[q] /\ ih[q] \in Version
    BY <1>1 DEF TypeOK, Hash
  <2>2. birth[ih[q]] # 0
    BY <2>1 DEF CoverInv, RowPublished
  <2> QED
    BY <1>2, <2>1, <2>2
<1> QED
  BY <1>3, <1>4, <1>5, <1>6, <1>7 DEF CoverInv

\* A step whose every part of p's share may be there is Sound in its versions.
LEMMA HoldsMay ==
    ASSUME NEW p \in Peers,
           May(p, ih'[p]), May(p, disk'[p]), May(p, tfile'[p]), May(p, handle'[p].ih),
           May(p, status'[p]), \A v \in conflicts'[p] : May(p, v),
           \A k \in Slots : May(p, task'[p][k].ih)
    PROVE  \A v \in Version : Holds(p, v)' => May(p, v)
<1> SUFFICES ASSUME NEW v \in Version, Holds(p, v)' PROVE May(p, v)
  OBVIOUS
<1>1. \/ v = ih'[p] \/ v = disk'[p] \/ v = tfile'[p] \/ v = handle'[p].ih
      \/ v = status'[p] \/ v \in conflicts'[p] \/ \E k \in Slots : v = task'[p][k].ih
  BY DEF Holds
<1> QED
  BY <1>1

\* What p has it may keep.
LEMMA MayKeep ==
    ASSUME NEW p \in Peers
    PROVE  /\ May(p, NoHash) /\ May(p, ih[p]) /\ May(p, disk[p]) /\ May(p, tfile[p])
           /\ May(p, handle[p].ih) /\ May(p, status[p])
           /\ \A v \in conflicts[p] : May(p, v)
           /\ \A k \in Slots : May(p, task[p][k].ih)
           /\ May(p, NoHandle.ih) /\ May(p, IdleTask.ih)
  BY DEF May, Holds, NoHandle, IdleTask

\* set_share_state of a version the daemon has.
LEMMA SetShareStatePublishes ==
    ASSUME TypeOK, NEW p \in Peers, NEW s, NEW v \in Hash, SetShareState(p, s, v),
           v = NoHash \/ Holds(p, v), seq' \in [Peers -> Nat], RowPublished
    PROVE  Publishes(p) /\ May(p, ih'[p])
<1>0. ih \in [Peers -> Hash] /\ birth \in [Version -> Nat] /\ seq'[p] + 1 # 0
  BY DEF TypeOK
<1>1. CASE row[p] /\ v # NoHash
  <2>1. ih'[p] = v /\ v \in Version
    BY <1>1, SetShareStateFrame DEF Hash
  <2>2. IF birth[v] = 0 THEN birth' = [birth EXCEPT ![v] = seq'[p] + 1] ELSE birth' = birth
    BY <1>1, SetShareStateFrame
  <2>3. birth'[v] # 0
    BY <1>0, <2>1, <2>2
  <2> QED
    BY <1>1, <2>1, <2>2, <2>3 DEF Publishes, May
<1>2. CASE ~row[p] \/ v = NoHash
  <2>1. ih'[p] = ih[p] /\ birth' = birth
    BY <1>2, SetShareStateFrame
  <2> QED
    BY <2>1, MayKeep DEF Publishes, RowPublished
<1> QED
  BY <1>1, <1>2

\* A step that publishes nothing.
LEMMA SilentPublishes ==
    ASSUME NEW p \in Peers, RowPublished, birth' = birth, ih'[p] = ih[p]
    PROVE  Publishes(p)
  BY DEF Publishes, RowPublished

LEMMA TaskStepSound ==
    ASSUME TypeOK, TypeOK', NEW p \in Peers, NEW k \in Slots, TaskStep(p, k),
           RowOf(p), RowPublished, LocalOnly
    PROVE  Sound(p)
<1> DEFINE t == task[p][k]
<1> USE MayKeep
<1>0. t \in Task /\ t.ih \in Hash /\ seq' \in [Peers -> Nat] /\ nver' \in Nat
  BY DEF TypeOK, Task
<1>1. CASE Boot(p, k) \/ RebuildStart(p, k) \/ SwitchFinish(p, k)
  <2> DEFINE u == [t EXCEPT !.pc = "scan"]
             w == [t EXCEPT !.pc = "add"]
  <2>1. u.ih = t.ih /\ w.ih = t.ih
    BY <1>0 DEF Task
  <2>2. SetTask(p, k, u) \/ SetTask(p, k, w) \/ SetTask(p, k, IdleTask)
    BY <1>1 DEF Boot, RebuildStart, SwitchFinish
  <2> HIDE DEF u, w
  <2>3. \A j \in Slots : task'[p][j] = task[p][j] \/ task'[p][j] \in {u, w, IdleTask}
    BY <2>2, SetTaskFrame
  <2>4. \A j \in Slots : May(p, task'[p][j].ih)
    BY <2>1, <2>3
  <2>5. UNCHANGED <<ih, birth, conflicts, status, disk, nver, net>>
    BY <1>1 DEF Boot, RebuildStart, SwitchFinish, SameDisk, shareVars, statusVars
  <2>6. UNCHANGED torVars \/ DropTorrent(p)
    BY <1>1 DEF Boot, RebuildStart, SwitchFinish
  <2>7. May(p, tfile'[p]) /\ May(p, handle'[p].ih)
    BY <2>6, DropFrame DEF torVars
  <2>8. \A v \in Version : Holds(p, v)' => May(p, v)
    BY <2>4, <2>5, <2>7, HoldsMay
  <2> QED
    BY <2>5, <2>8, SilentPublishes DEF Sound
<1>2. CASE ActivateScan(p, k)
  <2> DEFINE u == [t EXCEPT !.pc = "add", !.ih = NoHash, !.files = disk[p] # NoHash,
                            !.fresh = ~row[p] \/ seq[p] = 0]
  <2>1. u.ih = NoHash
    BY <1>0 DEF Task
  <2>2. SetTask(p, k, IdleTask) \/ SetTask(p, k, u)
    BY <1>2 DEF ActivateScan
  <2> HIDE DEF u
  <2>3. \A j \in Slots : task'[p][j] = task[p][j] \/ task'[p][j] \in {u, IdleTask}
    BY <2>2, SetTaskFrame
  <2>4. \A j \in Slots : May(p, task'[p][j].ih)
    BY <2>1, <2>3
  <2>5. UNCHANGED <<conflicts, torVars, status, disk, nver, net>>
    BY <1>2 DEF ActivateScan, SameDisk, statusVars
  <2>6. ih' = ih /\ birth' = birth
    BY <1>2 DEF ActivateScan, SetShareState, shareVars
  <2>7. \A v \in Version : Holds(p, v)' => May(p, v)
    BY <2>4, <2>5, <2>6, HoldsMay DEF torVars
  <2> QED
    BY <2>5, <2>6, <2>7, SilentPublishes DEF Sound
<1>3. CASE ActivateFinish(p, k) \/ RebuildFinish(p, k)
  <2>1. t.ih # NoHash
    BY <1>3 DEF ActivateFinish, RebuildFinish, RowOf
  <2>2. Holds(p, t.ih)
    BY <2>1 DEF Holds
  <2>3. \E s : SetShareState(p, s, t.ih)
    BY <1>3 DEF ActivateFinish, RebuildFinish
  <2>4. Publishes(p) /\ May(p, ih'[p])
    BY <1>0, <2>2, <2>3, SetShareStatePublishes
  <2>5. SetTask(p, k, IdleTask)
    BY <1>3 DEF ActivateFinish, RebuildFinish
  <2>6. \A j \in Slots : May(p, task'[p][j].ih)
    BY <2>5, SetTaskFrame
  <2>7. UNCHANGED <<conflicts, torVars, status, disk, nver, net>>
    BY <1>3 DEF ActivateFinish, RebuildFinish, SameDisk, statusVars
  <2>8. \A v \in Version : Holds(p, v)' => May(p, v)
    BY <2>4, <2>6, <2>7, HoldsMay DEF torVars
  <2> QED
    BY <2>4, <2>7, <2>8 DEF Sound
<1>4. CASE LtAddShare(p, k)
  <2>1. UNCHANGED <<conflicts, status, disk, nver, net>>
    BY <1>4 DEF LtAddShare, SameDisk, statusVars
  <2>2. ih'[p] = ih[p] /\ birth' = birth
    BY <1>4, LtAddShareEffect
  <2>3. May(p, tfile'[p])
    BY <1>4, LtAddShareEffect
  <2>4. May(p, handle'[p].ih)
    BY <1>4, LtAddShareEffect
  <2>5. \A j \in Slots : May(p, task'[p][j].ih)
    BY <1>4, <2>4, LtAddShareEffect
  <2>6. \A v \in Version : Holds(p, v)' => May(p, v)
    BY <2>1, <2>2, <2>3, <2>4, <2>5, HoldsMay
  <2> QED
    BY <2>1, <2>2, <2>6, SilentPublishes DEF Sound
<1> QED
  BY <1>1, <1>2, <1>3, <1>4 DEF TaskStep

LEMMA LoopStepSound ==
    ASSUME TypeOK, TypeOK', NEW p \in Peers, LoopStep(p), ~AnnounceLan(p),
           RowPublished
    PROVE  Sound(p)
<1> USE MayKeep
<1>1. \A pc : NewTask("rebuild", pc, NoHash).ih = NoHash
  BY Kinds
<1>2. CASE FsEvent(p) \/ FsSchedule(p) \/ DeferredFire(p)
  <2>1. UNCHANGED <<ih, birth, conflicts, status, disk, nver, net>>
    BY <1>2 DEF FsEvent, FsSchedule, DeferredFire, SameDisk, shareVars, statusVars, diskVars
  <2>2. task' = task \/ \E pc : Spawn(p, NewTask("rebuild", pc, NoHash))
    BY <1>2 DEF FsEvent, FsSchedule, DeferredFire, ScheduleOrRebuild
  <2>3. \A j \in Slots : May(p, task'[p][j].ih)
    BY <1>1, <2>2, SetTaskFrame
  <2>4. UNCHANGED torVars \/ DropTorrent(p)
    BY <1>2 DEF FsEvent, FsSchedule, DeferredFire
  <2>5. May(p, tfile'[p]) /\ May(p, handle'[p].ih)
    BY <2>4, DropFrame DEF torVars
  <2>6. \A v \in Version : Holds(p, v)' => May(p, v)
    BY <2>1, <2>3, <2>5, HoldsMay
  <2> QED
    BY <2>1, <2>6, SilentPublishes DEF Sound
<1>3. CASE StatusAlert(p)
  <2>1. UNCHANGED <<ih, birth, conflicts, tfile, task, disk, nver, net>>
    BY <1>3 DEF StatusAlert, SameDisk, shareVars, taskVars
  <2>2. handle'[p].ih = handle[p].ih /\ status'[p] = handle[p].ih
    BY <1>3 DEF StatusAlert, TypeOK, Handle
  <2>3. \A v \in Version : Holds(p, v)' => May(p, v)
    BY <2>1, <2>2, HoldsMay
  <2> QED
    BY <2>1, <2>3, SilentPublishes DEF Sound
<1>4. CASE StatusHandle(p)
  <2>1. UNCHANGED <<conflicts, torVars, task, disk, nver, net>>
    BY <1>4 DEF StatusHandle, SameDisk, taskVars
  <2>2. status'[p] = NoHash
    BY <1>4 DEF StatusHandle, TypeOK
  <2>3. Publishes(p) /\ May(p, ih'[p])
    <3>1. CASE UNCHANGED shareVars
      BY <3>1, SilentPublishes DEF shareVars
    <3>2. CASE SetShareState(p, "seeding", status[p])
      <4>1. status[p] \in Hash /\ Holds(p, status[p]) /\ seq' \in [Peers -> Nat]
        BY <1>4 DEF StatusHandle, TypeOK, Holds
      <4> QED
        BY <3>2, <4>1, SetShareStatePublishes
    <3> QED
      BY <1>4, <3>1, <3>2 DEF StatusHandle
  <2>4. \A v \in Version : Holds(p, v)' => May(p, v)
    BY <2>1, <2>2, <2>3, HoldsMay DEF torVars
  <2> QED
    BY <2>1, <2>3, <2>4 DEF Sound
<1>5. CASE StatusIndexed(p) \/ Heartbeat(p)
  <2>1. UNCHANGED <<ih, birth, conflicts, torVars, task, status, disk, nver, net>>
    BY <1>5 DEF StatusIndexed, Heartbeat, SameDisk, shareVars, taskVars, statusVars
  <2>2. \A v \in Version : Holds(p, v)' => May(p, v)
    BY <2>1, HoldsMay DEF torVars
  <2> QED
    BY <2>1, <2>2, SilentPublishes DEF Sound
<1> QED
  BY <1>2, <1>3, <1>4, <1>5 DEF LoopStep

\* A switch publishes the version it takes over, unless it was published before.
LEMMA SwitchSound ==
    ASSUME TypeOK, NEW p \in Peers, NEW v \in Version, NEW kind, row[p],
           SwitchToRemote(p, v, kind), May(p, v), Holds(p, v) \/ birth[v] # 0,
           RowPublished, seq' \in [Peers -> Nat]
    PROVE  /\ Publishes(p) /\ May(p, ih'[p]) /\ May(p, tfile'[p])
           /\ May(p, handle'[p].ih)
           /\ \A k \in Slots : May(p, task'[p][k].ih)
<1> USE MayKeep
<1>0. birth \in [Version -> Nat] /\ seq'[p] + 1 # 0
  BY DEF TypeOK
<1>1. CASE switching[p]
  <2>1. UNCHANGED <<ih, task, tfile, handle, birth>>
    BY <1>1, SwitchFrame
  <2> QED
    BY <2>1, SilentPublishes
<1>2. CASE ~switching[p]
  <2>1. /\ ih'[p] = v /\ tfile'[p] = NoHash /\ handle'[p] = NoHandle
        /\ \A j \in Slots : task'[p][j] = task[p][j] \/ task'[p][j].ih = v
    BY <1>2, SwitchFrame
  <2>2. IF birth[v] = 0 THEN birth' = [birth EXCEPT ![v] = seq'[p] + 1] ELSE birth' = birth
    BY <1>2, SwitchFrame
  <2>3. birth'[v] # 0
    BY <1>0, <2>2
  <2>4. Publishes(p)
    BY <2>1, <2>2, <2>3 DEF Publishes
  <2> QED
    BY <2>1, <2>4
<1> QED
  BY <1>1, <1>2

LEMMA ReceiveSound ==
    ASSUME TypeOK, TypeOK', NEW p \in Peers, Receive(p), RowOf(p), CoverInv, LocalOnly
    PROVE  Sound(p)
<1> USE MayKeep
<1>0. RowPublished /\ seq' \in [Peers -> Nat] /\ nver \in Nat
  BY DEF CoverInv, TypeOK
<1> PICK q \in Peers \cup Outsiders : \E m \in net[q] : ReceiveLan(p, q, m)
  BY DEF Receive, ReceiveReg
<1>1. PICK m \in net[q] : ReceiveLan(p, q, m)
  OBVIOUS
<1>2. row[p] /\ m.ih \in Hash /\ m.seq \in Nat
  BY <1>1 DEF ReceiveLan, TypeOK, Packet
<1>3. UNCHANGED <<status, net>>
  BY <1>1 DEF ReceiveLan, statusVars
<1>4. ASSUME m.ih # NoHash, seq'[p] = m.seq
      PROVE  m.ih \in Version /\ May(p, m.ih) /\ birth[m.ih] # 0
  <2>1. m.ih \in Version /\ m.ih <= nver /\ birth[m.ih] \in 1..(m.seq + 1)
    BY <1>2, <1>4 DEF CoverInv, PacketCovered, Hash
  <2>2. \A v \in Version : v <= nver => v \in 1..nver
    BY <1>0 DEF Version
  <2>3. birth[m.ih] # 0
    BY <2>1
  <2>4. m.ih \in 1..nver
    BY <2>1, <2>2
  <2>5. birth[m.ih] \in 1..(seq'[p] + 1)
    BY <1>4, <2>1
  <2> QED
    BY <2>1, <2>3, <2>4, <2>5 DEF May
<1>5. CASE m.ih # NoHash /\ ih[p] = NoHash
  <2>1. /\ AdoptSeq(p, m.seq) /\ SwitchToRemote(p, m.ih, "switch")
        /\ UNCHANGED <<conflicts, disk, nver>>
    BY <1>1, <1>5 DEF ReceiveLan, SameDisk
  <2>2. m.ih \in Version /\ May(p, m.ih) /\ birth[m.ih] # 0
    BY <1>4, <1>5, <2>1, SeqFrame
  <2>3. /\ Publishes(p) /\ May(p, ih'[p]) /\ May(p, tfile'[p])
        /\ May(p, handle'[p].ih)
        /\ \A k \in Slots : May(p, task'[p][k].ih)
    BY <1>0, <1>2, <2>1, <2>2, SwitchSound
  <2>4. \A v \in Version : Holds(p, v)' => May(p, v)
    BY <1>3, <2>1, <2>3, HoldsMay
  <2> QED
    BY <1>3, <2>1, <2>3, <2>4 DEF Sound
<1>6. CASE m.ih # NoHash /\ HandleRemoteUpdate(p, m.ih, "switch") /\ seq'[p] = m.seq
  <2>1. m.ih \in Version /\ May(p, m.ih) /\ birth[m.ih] # 0
    BY <1>4, <1>6
  <2>2. May(p, disk'[p]) /\ nver' \in {nver, nver + 1}
    BY <1>2, <1>6, <2>1, RemoteUpdateEffect DEF May
  <2>3. /\ Publishes(p) /\ May(p, ih'[p]) /\ May(p, tfile'[p])
        /\ May(p, handle'[p].ih)
        /\ \A k \in Slots : May(p, task'[p][k].ih)
        /\ \A v \in conflicts'[p] : May(p, v)
    <3>1. CASE SwitchToRemote(p, m.ih, "switch") /\ conflicts' = conflicts
      BY <1>0, <1>2, <2>1, <3>1, SwitchSound
    <3>2. CASE /\ UNCHANGED <<ih, birth, switching, task, tfile, handle>>
               /\ conflicts'[p] = conflicts[p] \cup {m.ih}
      BY <1>0, <2>1, <3>2, SilentPublishes
    <3> QED
      BY <1>2, <1>6, <2>1, <3>1, <3>2, RemoteUpdateEffect
  <2>4. \A v \in Version : Holds(p, v)' => May(p, v)
    BY <1>3, <2>2, <2>3, HoldsMay
  <2> QED
    BY <1>3, <2>2, <2>3, <2>4 DEF Sound
<1>7. CASE SameDisk /\ UNCHANGED <<seq, conflicts, switching, task, shareVars,
                                   watched, torVars>>
  <2>1. UNCHANGED <<ih, birth, conflicts, tfile, handle, task, disk, nver>>
    BY <1>7 DEF SameDisk, shareVars, torVars
  <2>2. \A v \in Version : Holds(p, v)' => May(p, v)
    BY <1>3, <2>1, HoldsMay
  <2> QED
    BY <1>0, <1>3, <2>1, <2>2, SilentPublishes DEF Sound
<1>8. \/ m.ih # NoHash /\ ih[p] = NoHash
      \/ m.ih # NoHash /\ HandleRemoteUpdate(p, m.ih, "switch") /\ seq'[p] = m.seq
      \/ SameDisk /\ UNCHANGED <<seq, conflicts, switching, task, shareVars,
                                  watched, torVars>>
  BY <1>1, SeqFrame DEF ReceiveLan
<1> QED
  BY <1>5, <1>6, <1>7, <1>8

LEMMA TransferSound ==
    ASSUME TypeOK, TypeOK', NEW p \in Peers, Transfer(p), RowPublished
    PROVE  Sound(p)
<1> USE MayKeep
<1>1. UNCHANGED <<ih, birth, conflicts, tfile, task, status, net>>
  BY DEF Transfer, LtMetadata, LtFinish, statusVars, shareVars, taskVars
<1>2. handle'[p].ih = handle[p].ih
  <2>1. handle \in [Peers -> Handle]
    BY DEF TypeOK
  <2>2. CASE LtMetadata(p)
    BY <2>1, <2>2 DEF LtMetadata, Handle
  <2>3. CASE LtFinish(p)
    BY <2>1, <2>3 DEF LtFinish, Handle
  <2> QED
    BY <2>2, <2>3 DEF Transfer
<1>3. May(p, disk'[p]) /\ nver' \in {nver, nver + 1}
  <2>1. \/ disk' = disk /\ nver' = nver
        \/ WriteDisk(p, nver + 1) /\ nver' = nver + 1
        \/ WriteDisk(p, handle[p].ih) /\ nver' = nver
    BY DEF Transfer, LtMetadata, LtFinish, SameDisk, WriteNew
  <2> QED
    BY <2>1, WriteFrame DEF May
<1>4. \A v \in Version : Holds(p, v)' => May(p, v)
  BY <1>1, <1>2, <1>3, HoldsMay
<1> QED
  BY <1>1, <1>3, <1>4, SilentPublishes DEF Sound

LEMMA UserStepSound ==
    ASSUME TypeOK, TypeOK', NEW p \in Peers, UserStep(p), RowPublished,
           "remove" \notin UserOps
    PROVE  Sound(p)
<1> USE MayKeep
<1>0. StartActivation(p) => \A j \in Slots : May(p, task'[p][j].ih)
  <2>1. NewTask("activate", "scan", NoHash).ih = NoHash
    BY Kinds
  <2> QED
    BY <2>1, SetTaskFrame DEF StartActivation
<1>1. ASSUME NEW s \in Strategies, AddShare(p, s) PROVE Sound(p)
  <2>1. /\ StartActivation(p)
        /\ UNCHANGED <<birth, conflicts, tfile, handle, status, disk, nver, net>>
    BY <1>1 DEF AddShare, SameDisk, torVars, statusVars
  <2>2. ih'[p] = NoHash
    BY <1>1 DEF AddShare, TypeOK
  <2>3. \A v \in Version : Holds(p, v)' => May(p, v)
    BY <1>0, <2>1, <2>2, HoldsMay
  <2> QED
    BY <2>1, <2>2, <2>3 DEF Sound, Publishes
<1>2. CASE UserEdit(p) \/ DeleteAll(p)
  <2>1. UNCHANGED <<ih, birth, conflicts, tfile, handle, task, status, net>>
    BY <1>2 DEF UserEdit, DeleteAll, shareVars, torVars, taskVars, statusVars
  <2>2. \/ WriteDisk(p, nver + 1) /\ nver' = nver + 1
        \/ WriteDisk(p, NoHash) /\ nver' = nver
    BY <1>2 DEF UserEdit, DeleteAll, WriteNew
  <2>3. May(p, disk'[p]) /\ nver' \in {nver, nver + 1}
    BY <2>2, WriteFrame DEF May
  <2>4. \A v \in Version : Holds(p, v)' => May(p, v)
    BY <2>1, <2>3, HoldsMay
  <2> QED
    BY <2>1, <2>3, <2>4, SilentPublishes DEF Sound
<1>3. CASE ReAddShare(p) \/ ResumeShare(p) \/ PauseShare(p)
           \/ \E s \in Strategies : SetConflictStrategy(p, s)
  <2>1. UNCHANGED <<conflicts, tfile, handle, status, disk, nver, net>>
    BY <1>3 DEF ReAddShare, ResumeShare, PauseShare, SetConflictStrategy, SameDisk,
                torVars, statusVars
  <2>2. UNCHANGED <<ih, birth>>
    BY <1>3 DEF ReAddShare, ResumeShare, PauseShare, SetConflictStrategy,
                SetShareState, shareVars
  <2>3. task' = task \/ StartActivation(p)
    BY <1>3 DEF ReAddShare, ResumeShare, PauseShare, SetConflictStrategy, taskVars
  <2>4. \A j \in Slots : May(p, task'[p][j].ih)
    BY <1>0, <2>3
  <2>5. \A v \in Version : Holds(p, v)' => May(p, v)
    BY <2>1, <2>2, <2>4, HoldsMay
  <2> QED
    BY <2>1, <2>2, <2>5, SilentPublishes DEF Sound
<1>4. CASE RemoveShare(p)
  BY <1>4 DEF RemoveShare, Op
<1>5. ASSUME NEW v \in Version, ResolveConflict(p, v) PROVE Sound(p)
  <2>1. row[p] /\ v \in conflicts[p] /\ UNCHANGED <<seq, status, disk, nver, net>>
    BY <1>5 DEF ResolveConflict, SameDisk, statusVars
  <2>2. \A x \in conflicts'[p] : May(p, x)
    BY <1>5 DEF ResolveConflict, TypeOK
  <2>3. /\ Publishes(p) /\ May(p, ih'[p]) /\ May(p, tfile'[p])
        /\ May(p, handle'[p].ih)
        /\ \A k \in Slots : May(p, task'[p][k].ih)
    <3>1. CASE StartActivation(p) /\ UNCHANGED <<switching, shareVars, torVars>>
      BY <1>0, <3>1, SilentPublishes DEF shareVars, torVars
    <3>2. CASE SwitchToRemote(p, v, "switch")
      <4>1. Holds(p, v) /\ May(p, v) /\ seq' \in [Peers -> Nat]
        BY <2>1 DEF Holds, Version, NoHash, TypeOK
      <4> QED
        BY <2>1, <3>2, <4>1, SwitchSound
    <3> QED
      BY <1>5, <3>1, <3>2 DEF ResolveConflict
  <2>4. \A x \in Version : Holds(p, x)' => May(p, x)
    BY <2>1, <2>2, <2>3, HoldsMay
  <2> QED
    BY <2>1, <2>3, <2>4 DEF Sound
<1>6. CASE Restart(p)
  <2> DEFINE b == NewTask("activate", "boot", NoHash)
  <2>1. UNCHANGED <<ih, birth, conflicts, disk, nver, tfile, net>>
    BY <1>6 DEF Restart, shareVars, diskVars
  <2>2. handle'[p] = NoHandle /\ status'[p] = NoHash
    BY <1>6 DEF Restart, TypeOK
  <2>3. b.ih = NoHash
    BY Kinds
  <2>4. PICK k \in Slots : task' = [task EXCEPT ![p] =
                                     [j \in Slots |-> IF j = k THEN b ELSE IdleTask]]
    BY <1>6 DEF Restart
  <2> HIDE DEF b
  <2>5. \A j \in Slots : May(p, task'[p][j].ih)
    BY <2>3, <2>4 DEF TypeOK
  <2>6. \A v \in Version : Holds(p, v)' => May(p, v)
    BY <2>1, <2>2, <2>5, HoldsMay
  <2> QED
    BY <2>1, <2>6, SilentPublishes DEF Sound
<1> QED
  BY <1>1, <1>2, <1>3, <1>4, <1>5, <1>6 DEF UserStep

\* A failed add_share may have cached the directory's torrent, no more.
LEMMA PoolStepSound ==
    ASSUME TypeOK, NoOrphan, NEW p \in Peers, NEW k \in Slots, PoolStep(p, k),
           RowPublished
    PROVE  Sound(p)
<1>1. May(p, tfile'[p]) /\ \A j \in Slots : May(p, task'[p][j].ih)
  BY PoolStepEffect, MayKeep
<1>2. /\ May(p, ih'[p]) /\ May(p, disk'[p]) /\ May(p, handle'[p].ih)
      /\ May(p, status'[p]) /\ \A v \in conflicts'[p] : May(p, v)
  BY PoolStepEffect, MayKeep
<1>3. \A v \in Version : Holds(p, v)' => May(p, v)
  BY <1>1, <1>2, HoldsMay
<1>4. Publishes(p)
  BY PoolStepEffect, SilentPublishes
<1> QED
  BY <1>3, <1>4, PoolStepEffect DEF Sound

\* A packet of a daemon carries its row, which its seq covers.
LEMMA AnnounceLanCover ==
    ASSUME TypeOK, NEW p \in Peers, AnnounceLan(p), CoverInv
    PROVE  CoverInv'
<1> DEFINE a == [ih |-> ih[p], seq |-> seq[p]]
<1>1. UNCHANGED <<ih, seq, birth, conflicts, tfile, handle, task, status, disk, nver>>
  BY DEF AnnounceLan, SameDisk, shareVars, torVars, taskVars, statusVars
<1>2. a.ih = ih[p] /\ a.seq = seq[p]
  OBVIOUS
<1>3. PICK old \in SUBSET net[p] : net' = [net EXCEPT ![p] = old \cup {a}]
  BY DEF AnnounceLan
<1> HIDE DEF a
<1>4. \A q \in Peers \cup Outsiders : \A m \in net'[q] : m \in net[q] \/ m = a
  BY <1>3 DEF TypeOK
<1>5. ih[p] # NoHash => ih[p] <= nver /\ birth[ih[p]] \in 1..(seq[p] + 1)
  <2> SUFFICES ASSUME ih[p] # NoHash
               PROVE  ih[p] <= nver /\ birth[ih[p]] \in 1..(seq[p] + 1)
    OBVIOUS
  <2>1. ih[p] \in Version /\ Holds(p, ih[p])
    BY DEF TypeOK, Hash, Holds
  <2>2. ih[p] <= nver /\ birth[ih[p]] <= seq[p] + 1
    BY <2>1 DEF CoverInv, HeldCovered
  <2>3. birth[ih[p]] # 0
    BY DEF CoverInv, RowPublished
  <2>4. birth[ih[p]] \in Nat /\ seq[p] \in Nat
    BY <2>1 DEF TypeOK
  <2> QED
    BY <2>2, <2>3, <2>4
<1>6. PacketCovered'
  BY <1>1, <1>2, <1>4, <1>5 DEF CoverInv, PacketCovered
<1>7. (HeldCovered /\ UnbornIsLocal /\ FutureUnborn /\ RowPublished)'
  BY <1>1 DEF CoverInv, HeldCovered, UnbornIsLocal, FutureUnborn, RowPublished, Holds
<1> QED
  BY <1>6, <1>7 DEF CoverInv

\* Outsiders announce what they published, under a seq that covers it.
LEMMA OutsiderCover ==
    ASSUME TypeOK, TypeOK', NEW o \in Outsiders, OutsiderStep(o), CoverInv
    PROVE  CoverInv'
<1> PICK w \in Version, s \in 1..MaxSeq : OutsiderAnnounce(o, w, s)
  BY DEF OutsiderStep
<1> DEFINE a == [ih |-> w, seq |-> s]
<1>0. /\ birth \in [Version -> Nat] /\ nver \in Nat /\ nver' \in Nat
      /\ Version \subseteq Nat /\ s \in Nat
  BY ConstantsAssumption DEF TypeOK, Version
<1>1. UNCHANGED <<ih, seq, conflicts, tfile, handle, task, status, disk>>
  BY OutsiderFrame
<1>2. a.ih = w /\ a.seq = s
  OBVIOUS
<1>3. PICK old \in SUBSET net[o] : net' = [net EXCEPT ![o] = old \cup {a}]
  BY DEF OutsiderAnnounce
<1> HIDE DEF a
<1>4. \A q \in Peers \cup Outsiders : \A m \in net'[q] : m \in net[q] \/ m = a
  BY <1>3 DEF TypeOK
<1>5. \/ w = nver + 1 /\ nver' = nver + 1 /\ birth' = [birth EXCEPT ![w] = s + 1]
      \/ w \in 1..nver /\ birth[w] \in 1..(s + 1) /\ nver' = nver /\ birth' = birth
  BY DEF OutsiderAnnounce
<1>6. /\ w <= nver' /\ birth'[w] \in 1..(s + 1)
      /\ \A v \in Version : v <= nver => v <= nver' /\ birth'[v] = birth[v]
      /\ \A v \in Version : v > nver' => v > nver /\ birth'[v] = birth[v]
  BY <1>0, <1>5
<1>7. PacketCovered'
  <2> SUFFICES ASSUME NEW q \in Peers \cup Outsiders, NEW m \in net'[q], m.ih # NoHash
               PROVE  m.ih <= nver' /\ birth'[m.ih] \in 1..(m.seq + 1)
    BY DEF PacketCovered
  <2>1. CASE m = a
    BY <1>2, <1>6, <2>1
  <2>2. CASE m \in net[q]
    <3>1. m.ih \in Version
      BY <2>2 DEF TypeOK, Packet, Hash
    <3>2. m.ih <= nver /\ birth[m.ih] \in 1..(m.seq + 1)
      BY <2>2 DEF CoverInv, PacketCovered
    <3> QED
      BY <1>6, <3>1, <3>2
  <2> QED
    BY <1>4, <2>1, <2>2
<1>8. \A p \in Peers : \A v \in Version :
          (Holds(p, v)' <=> Holds(p, v)) /\ (Holds(p, v) => v <= nver)
  BY <1>1 DEF Holds, CoverInv, HeldCovered
<1>9. HeldCovered' /\ UnbornIsLocal'
  BY <1>1, <1>6, <1>8 DEF CoverInv, HeldCovered, UnbornIsLocal
<1>10. FutureUnborn'
  BY <1>6 DEF CoverInv, FutureUnborn
<1>11. RowPublished'
  <2> SUFFICES ASSUME NEW p \in Peers, ih[p] # NoHash PROVE birth'[ih[p]] # 0
    BY <1>1 DEF RowPublished
  <2>1. ih[p] \in Version /\ Holds(p, ih[p])
    BY DEF TypeOK, Hash, Holds
  <2> QED
    BY <1>6, <1>8, <2>1 DEF CoverInv, RowPublished
<1> QED
  BY <1>7, <1>9, <1>10, <1>11 DEF CoverInv

\* In a share without a registry no daemon advertises a version under a smaller seq
\* than the one it was first published with.  Both hypotheses are needed: an event
\* of the registry carries no seq to adopt, and removing a share resets the seq but
\* leaves the cached .torrent and a queued status, which store an old version again.
THEOREM SeqCovers ==
    ASSUME LocalOnly, "remove" \notin UserOps
    PROVE  Spec => []SeqCoversVersion
<1>1. Init => RowInv /\ CoverInv
  <2>1. Init => RowInv
    BY IdlePc DEF Init, RowInv, RowOf
  <2>2. ASSUME Init PROVE \A p \in Peers : \A v : ~Holds(p, v)
    BY <2>2, IdlePc DEF Init, Holds, NoHandle
  <2> QED
    BY <2>1, <2>2 DEF Init, CoverInv, HeldCovered, UnbornIsLocal, PacketCovered,
                      FutureUnborn, RowPublished
<1>2. ASSUME TypeOK, TypeOK', NoOrphan, RowInv, CoverInv, [Next]_vars
      PROVE  CoverInv'
  <2>1. ASSUME NEW p \in Peers, DaemonStep(p) PROVE CoverInv'
    <3>1. CASE AnnounceLan(p)
      BY <1>2, <3>1, AnnounceLanCover
    <3>2. CASE ~AnnounceLan(p)
      <4>1. RowOf(p) /\ RowPublished
        BY <1>2 DEF RowInv, CoverInv
      <4>2. Sound(p)
        BY <1>2, <2>1, <3>2, <4>1, TaskStepSound, LoopStepSound, ReceiveSound,
           TransferSound, UserStepSound, PoolStepSound DEF DaemonStep
      <4>3. Frame(p) /\ seq'[p] >= seq[p]
        BY <1>2, <2>1, <4>1, DaemonStepRow, DaemonStepSeq
      <4> QED
        BY <1>2, <4>2, <4>3, SoundKeeps
    <3> QED
      BY <3>1, <3>2
  <2>2. ASSUME NEW o \in Outsiders, OutsiderStep(o) PROVE CoverInv'
    BY <1>2, <2>2, OutsiderCover
  <2>3. CASE UNCHANGED vars
    BY <1>2, <2>3 DEF vars, CoverInv, HeldCovered, UnbornIsLocal, PacketCovered,
                      FutureUnborn, RowPublished, Holds
  <2> QED
    BY <1>2, <2>1, <2>2, <2>3 DEF Next, DaemonStep
<1>3. ASSUME TypeOK, NoOrphan, RowInv, [Next]_vars
      PROVE  RowInv' /\ NoOrphan'
  BY <1>3, RowStep, NoOrphanStep
<1>4. ASSUME TypeOK, CoverInv PROVE SeqCoversVersion
  <2> SUFFICES ASSUME NEW p \in Peers, ih[p] # NoHash
               PROVE  seq[p] + 1 >= birth[ih[p]]
    BY DEF SeqCoversVersion
  <2>1. ih[p] \in Version /\ Holds(p, ih[p])
    BY <1>4 DEF TypeOK, Hash, Holds
  <2>2. birth[ih[p]] <= seq[p] + 1
    BY <1>4, <2>1 DEF CoverInv, HeldCovered
  <2>3. birth[ih[p]] \in Nat /\ seq[p] \in Nat
    BY <1>4, <2>1 DEF TypeOK
  <2> QED
    BY <2>2, <2>3
<1> QED
  BY <1>1, <1>2, <1>3, <1>4, NoOrphanStart, TypeCorrect, PTL DEF Spec

-----------------------------------------------------------------------------
(* One edit of a settled local-only share.  All daemons seed version 1, one    *)
(* user changes one directory once, and the edit (version 2) spreads.  The     *)
(* properties of a daemon at rest hold there because every daemon is always in *)
(* one of five phases: it has not heard of the edit, has asked its user about  *)
(* it, is hashing it, is fetching it or is serving it.                         *)

\* The edited version has been published.
Published == 2 \in Version /\ birth[2] # 0

\* A switch whose pool thread is done.
Switched(p, k) == task[p][k].kind \in SwitchKinds /\ task[p][k].pc = "finish"

\* A daemon the edit has not reached, or that has only noted a conflict with it.
Resting(p) ==
    /\ ih[p] = 1 /\ disk[p] = 1
    /\ handle[p] = [ih |-> 1, st |-> "complete", alert |-> FALSE]
    /\ ~switching[p] /\ \A k \in Slots : task[p][k] = IdleTask
    /\ ~fsq[p] /\ ~fsstat[p] /\ ~rebuilt[p] /\ ~deferred[p]
    /\ status[p] = NoHash /\ ~indexing[p]
Old(p)   == Resting(p) /\ state[p] = "seeding" /\ watched[p] /\ seq[p] = 1
Asked(p) == Resting(p) /\ state[p] = "paused" /\ seq[p] >= 2

\* A rebuild of the directory that holds the edit.
Rebuilding(p, k) ==
    /\ task[p][k].kind = "rebuild"
    /\ task[p][k].pc \in {"start", "add", "finish"}
    /\ task[p][k].pc = "add" => tfile[p] = NoHash /\ handle[p] = NoHandle
    /\ task[p][k].pc = "finish" => task[p][k].ih = 2 /\ handle[p].ih = 2

\* The edit is still on its way through the watcher or a rebuild.
Pending(p) ==
    fsq[p] \/ fsstat[p] \/ \E k \in Slots : task[p][k].kind = "rebuild"

\* A daemon that has the edit in its directory and seeds.
Complete(p) ==
    /\ state[p] = "seeding" /\ disk[p] = 2 /\ (watched[p] \/ indexing[p])
    /\ handle[p].st \in {"none", "complete"}
    /\ ~(fsq[p] /\ fsstat[p]) /\ (fsq[p] \/ fsstat[p] => ~rebuilt[p]) /\ ~deferred[p]
    /\ \A k \in Slots : task[p][k] = IdleTask \/ Switched(p, k) \/ Rebuilding(p, k)
    /\ \A j, k \in Slots :
          task[p][j].kind = "rebuild" /\ task[p][k].kind = "rebuild" => j = k
    /\ \A k \in Slots : task[p][k].kind = "rebuild" => ~fsq[p] /\ ~fsstat[p]
Editing(p) == Complete(p) /\ ih[p] = 1 /\ seq[p] = 1 /\ Pending(p)
Serving(p) == /\ Complete(p) /\ ih[p] = 2 /\ seq[p] >= 2
              /\ handle[p] # NoHandle => handle[p].ih = 2

\* A daemon that has switched to the edit and has not got all of it.
Fetching(p) ==
    /\ state[p] = "syncing" /\ ih[p] = 2 /\ seq[p] >= 2
    /\ ~watched[p] /\ ~indexing[p] /\ ~fsstat[p] /\ ~deferred[p] /\ ~rebuilt[p]
    /\ status[p] \in {NoHash, 2}
    /\ handle[p] # NoHandle => handle[p].ih = 2
    /\ handle[p].alert \/ status[p] # NoHash => disk[p] = 2 /\ handle[p].st = "complete"
    /\ disk[p] = 2 => handle[p].st = "complete"
    /\ \A k \in Slots :
          \/ task[p][k] = IdleTask \/ Switched(p, k)
          \/ /\ task[p][k].kind \in SwitchKinds /\ task[p][k].pc = "add"
             /\ task[p][k].ih = 2 /\ ~task[p][k].files
             /\ tfile[p] = NoHash /\ handle[p] = NoHandle
    /\ \A j, k \in Slots : task[p][j].pc = "add" /\ task[p][k].pc = "add" => j = k

\* The five phases.
Phased(p) == Old(p) \/ Asked(p) \/ Editing(p) \/ Serving(p) \/ Fetching(p)

\* Every daemon is in one of these phases; while the edit is being hashed nobody
\* else has heard of it; whoever has heard of it heard it from its publisher.
AllPhased == \A p \in Peers : row[p] /\ Phased(p)
EditsAlone == \A p, q \in Peers :
    Editing(p) => nver >= 2 /\ ~Published /\ (q # p => Old(q))
ReachedIsPublished == \A p \in Peers :
    Asked(p) \/ Serving(p) \/ Fetching(p) => Published
TwoBorn ==
    /\ Published => nver >= 2
    /\ \A v \in Version : birth[v] # 0 => v \in {1, 2}
    /\ \A v \in partial : v > 2
PacketsTell == \A q \in Peers \cup Outsiders : \A m \in net[q] :
    \/ m.ih = 1 /\ m.seq = 1
    \/ m.ih = 2 /\ m.seq >= 2 /\ Published

OneEditInv == /\ AllPhased /\ EditsAlone /\ ReachedIsPublished
              /\ TwoBorn /\ PacketsTell

-----------------------------------------------------------------------------
\* A step of p changes nothing on another daemon.
Elsewhere(p) ==
    /\ Frame(p)
    /\ \A q \in Peers \ {p} :
          /\ state'[q] = state[q] /\ watched'[q] = watched[q] /\ fsq'[q] = fsq[q]
          /\ fsstat'[q] = fsstat[q] /\ rebuilt'[q] = rebuilt[q]
          /\ deferred'[q] = deferred[q] /\ indexing'[q] = indexing[q]

\* A step of one daemon leaves every other daemon in its phase.
LEMMA ElsewhereKeeps ==
    ASSUME NEW p \in Peers, Elsewhere(p), NEW q \in Peers \ {p}
    PROVE  /\ Old(q)' <=> Old(q)
           /\ Asked(q)' <=> Asked(q)
           /\ Editing(q)' <=> Editing(q)
           /\ Serving(q)' <=> Serving(q)
           /\ Fetching(q)' <=> Fetching(q)
<1>1. /\ ih'[q] = ih[q] /\ seq'[q] = seq[q] /\ switching'[q] = switching[q]
      /\ handle'[q] = handle[q] /\ task'[q] = task[q] /\ disk'[q] = disk[q]
      /\ tfile'[q] = tfile[q] /\ status'[q] = status[q]
      /\ state'[q] = state[q] /\ watched'[q] = watched[q] /\ fsq'[q] = fsq[q]
      /\ fsstat'[q] = fsstat[q] /\ rebuilt'[q] = rebuilt[q]
      /\ deferred'[q] = deferred[q] /\ indexing'[q] = indexing[q]
  BY DEF Elsewhere, Frame
<1>2. (Old(q)' <=> Old(q)) /\ (Asked(q)' <=> Asked(q))
  BY <1>1 DEF Old, Asked, Resting
<1>3. Complete(q)' <=> Complete(q)
  BY <1>1 DEF Complete, Rebuilding, Switched
<1>4. (Editing(q)' <=> Editing(q)) /\ (Serving(q)' <=> Serving(q))
  BY <1>1, <1>3 DEF Editing, Serving, Pending
<1>5. Fetching(q)' <=> Fetching(q)
  BY <1>1 DEF Fetching, Switched
<1> QED
  BY <1>2, <1>4, <1>5

\* set_share_state writes the state of one row, if the row is there.
LEMMA SetShareStateElsewhere ==
    ASSUME TypeOK, NEW p \in Peers, NEW s, NEW v, SetShareState(p, s, v)
    PROVE  /\ \A q \in Peers \ {p} : state'[q] = state[q]
           /\ row[p] => state'[p] = s
           /\ ~row[p] => state'[p] = state[p]
<1>1. state \in [Peers -> ShareState]
  BY DEF TypeOK
<1> QED
  BY <1>1 DEF SetShareState

\* A change of a directory is an event for its own watcher only, if it has one.
LEMMA WriteElsewhere ==
    ASSUME TypeOK, NEW p \in Peers, NEW v, WriteDisk(p, v)
    PROVE  /\ \A q \in Peers \ {p} : fsq'[q] = fsq[q]
           /\ fsq'[p] <=> fsq[p] \/ (watched[p] /\ v # disk[p])
<1>1. fsq \in [Peers -> BOOLEAN]
  BY DEF TypeOK
<1> QED
  BY <1>1 DEF WriteDisk

\* Every action of a daemon writes its own memory only.
LEMMA MemoryElsewhere ==
    ASSUME TypeOK, NEW p \in Peers,
           \/ \E k \in Slots : TaskStep(p, k)
           \/ LoopStep(p) \/ Receive(p) \/ Transfer(p) \/ UserEdit(p)
    PROVE  \A q \in Peers \ {p} :
              /\ state'[q] = state[q] /\ watched'[q] = watched[q] /\ fsq'[q] = fsq[q]
              /\ fsstat'[q] = fsstat[q] /\ rebuilt'[q] = rebuilt[q]
              /\ deferred'[q] = deferred[q] /\ indexing'[q] = indexing[q]
<1> DEFINE St == UNCHANGED state \/ \E s, v : SetShareState(p, s, v)
           Wa == \E b : watched' = watched \/ watched' = [watched EXCEPT ![p] = b]
           Fs == UNCHANGED fsq \/ (\E v : WriteDisk(p, v)) \/ fsq' = [fsq EXCEPT ![p] = FALSE]
           Sc == \A q \in Peers \ {p} :
                    /\ fsstat'[q] = fsstat[q] /\ rebuilt'[q] = rebuilt[q]
                    /\ deferred'[q] = deferred[q]
           In == \E b : indexing' = indexing \/ indexing' = [indexing EXCEPT ![p] = b]
<1>0. /\ watched \in [Peers -> BOOLEAN] /\ fsq \in [Peers -> BOOLEAN]
      /\ fsstat \in [Peers -> BOOLEAN] /\ rebuilt \in [Peers -> BOOLEAN]
      /\ deferred \in [Peers -> BOOLEAN] /\ indexing \in [Peers -> BOOLEAN]
  BY DEF TypeOK
<1>1. ASSUME NEW k \in Slots, TaskStep(p, k) PROVE St /\ Wa /\ Fs /\ Sc /\ In
  <2>1. CASE Boot(p, k)
    <3>1. UNCHANGED <<state, fsq, fsVars, indexing>>
      BY <2>1 DEF Boot
    <3>2. Wa
      BY <2>1 DEF Boot
    <3> QED
      BY <3>1, <3>2
  <2>2. CASE ActivateScan(p, k)
    <3>1. UNCHANGED <<watched, fsq, fsVars, indexing>>
      BY <2>2 DEF ActivateScan
    <3>2. St
      BY <2>2 DEF ActivateScan
    <3> QED
      BY <3>1, <3>2
  <2>3. CASE ActivateFinish(p, k)
    <3>1. UNCHANGED <<watched, fsq, fsVars, indexing>>
      BY <2>3 DEF ActivateFinish
    <3>2. St
      BY <2>3 DEF ActivateFinish
    <3> QED
      BY <3>1, <3>2
  <2>4. CASE LtAddShare(p, k)
    <3>1. UNCHANGED <<watched, fsq, fsVars, indexing>>
      BY <2>4 DEF LtAddShare
    <3>2. St
      BY <2>4 DEF LtAddShare
    <3> QED
      BY <3>1, <3>2
  <2>5. CASE RebuildStart(p, k) \/ SwitchFinish(p, k)
    <3>1. UNCHANGED <<state, watched, fsq, fsVars, indexing>>
      BY <2>5 DEF RebuildStart, SwitchFinish
    <3> QED
      BY <3>1
  <2>6. CASE RebuildFinish(p, k)
    <3>1. /\ UNCHANGED <<watched, fsq, fsstat, deferred, indexing>>
          /\ rebuilt' = [rebuilt EXCEPT ![p] = TRUE]
      BY <2>6 DEF RebuildFinish
    <3>2. St
      BY <2>6 DEF RebuildFinish
    <3> QED
      BY <1>0, <3>1, <3>2
  <2> QED
    BY <1>1, <2>1, <2>2, <2>3, <2>4, <2>5, <2>6 DEF TaskStep
<1>2. ASSUME LoopStep(p) PROVE St /\ Wa /\ Fs /\ Sc /\ In
  <2>0. ScheduleOrRebuild(p) => \A q \in Peers \ {p} : /\ rebuilt'[q] = rebuilt[q]
                                                      /\ deferred'[q] = deferred[q]
    BY <1>0 DEF ScheduleOrRebuild
  <2>1. CASE FsEvent(p)
    <3>1. /\ UNCHANGED <<state, watched, indexing>>
          /\ fsq' = [fsq EXCEPT ![p] = FALSE]
      BY <2>1 DEF FsEvent
    <3>2. \/ UNCHANGED fsVars
          \/ fsstat' = [fsstat EXCEPT ![p] = TRUE] /\ UNCHANGED <<rebuilt, deferred>>
          \/ ScheduleOrRebuild(p) /\ UNCHANGED fsstat
      BY <2>1 DEF FsEvent
    <3>3. Sc
      BY <1>0, <2>0, <3>2
    <3> QED
      BY <3>1, <3>3
  <2>2. CASE FsSchedule(p)
    <3>1. /\ UNCHANGED <<state, watched, fsq, indexing>>
          /\ fsstat' = [fsstat EXCEPT ![p] = FALSE]
          /\ ScheduleOrRebuild(p) \/ UNCHANGED <<rebuilt, deferred>>
      BY <2>2 DEF FsSchedule
    <3>2. Sc
      BY <1>0, <2>0, <3>1
    <3> QED
      BY <3>1, <3>2
  <2>3. CASE DeferredFire(p)
    <3>1. /\ UNCHANGED <<state, watched, fsq, fsstat, rebuilt, indexing>>
          /\ deferred' = [deferred EXCEPT ![p] = FALSE]
      BY <2>3 DEF DeferredFire
    <3> QED
      BY <1>0, <3>1
  <2>4. CASE StatusAlert(p) \/ AnnounceLan(p) \/ Heartbeat(p)
    <3>1. UNCHANGED <<state, watched, fsq, fsVars, indexing>>
      BY <2>4 DEF StatusAlert, AnnounceLan, Heartbeat
    <3> QED
      BY <3>1
  <2>5. CASE StatusHandle(p)
    <3>1. UNCHANGED <<watched, fsq, fsVars>>
      BY <2>5 DEF StatusHandle
    <3>2. St /\ In
      BY <2>5 DEF StatusHandle
    <3> QED
      BY <3>1, <3>2
  <2>6. CASE StatusIndexed(p)
    <3>1. UNCHANGED <<state, fsq, fsVars>>
      BY <2>6 DEF StatusIndexed
    <3>2. Wa /\ In
      BY <2>6 DEF StatusIndexed
    <3> QED
      BY <3>1, <3>2
  <2> QED
    BY <1>2, <2>1, <2>2, <2>3, <2>4, <2>5, <2>6 DEF LoopStep
<1>3. ASSUME Receive(p) PROVE St /\ Wa /\ Fs /\ Sc /\ In
  <2>0. ASSUME NEW v, NEW kind, SwitchToRemote(p, v, kind) PROVE St /\ Wa
    BY <2>0 DEF SwitchToRemote
  <2>1. ASSUME NEW v, NEW kind, HandleRemoteUpdate(p, v, kind) PROVE St /\ Wa /\ Fs
    <3>1. CASE strat[p] = "ask"
      BY <2>1, <3>1 DEF HandleRemoteUpdate
    <3>2. CASE strat[p] # "ask"
      <4>1. SwitchToRemote(p, v, kind) /\ (SameDisk \/ RenameConflictFiles(p))
        BY <2>1, <3>2 DEF HandleRemoteUpdate
      <4>2. Fs
        BY <4>1 DEF RenameConflictFiles, WriteNew
      <4> QED
        BY <2>0, <4>1, <4>2
    <3> QED
      BY <3>1, <3>2
  <2>2. ASSUME NEW q, NEW m, ReceiveLan(p, q, m) PROVE St /\ Wa /\ Fs /\ Sc /\ In
    <3>1. UNCHANGED <<fsVars, indexing>>
      BY <2>2 DEF ReceiveLan
    <3>2. \/ SwitchToRemote(p, m.ih, "switch") /\ SameDisk
          \/ HandleRemoteUpdate(p, m.ih, "switch")
          \/ SameDisk /\ UNCHANGED <<shareVars, watched>>
      BY <2>2 DEF ReceiveLan
    <3> QED
      BY <2>0, <2>1, <3>1, <3>2
  <2>3. ASSUME NEW q, ReceiveReg(p, q) PROVE St /\ Wa /\ Fs /\ Sc /\ In
    <3>1. UNCHANGED <<fsVars, indexing>>
      BY <2>3 DEF ReceiveReg
    <3>2. \/ HandleRemoteUpdate(p, ann[q], "regswitch")
          \/ SameDisk /\ UNCHANGED <<shareVars, watched>>
      BY <2>3 DEF ReceiveReg
    <3> QED
      BY <2>1, <3>1, <3>2
  <2> QED
    BY <1>3, <2>2, <2>3 DEF Receive
<1>4. ASSUME Transfer(p) \/ UserEdit(p) PROVE St /\ Wa /\ Fs /\ Sc /\ In
  <2>1. UNCHANGED <<state, watched, fsVars, indexing>>
    BY <1>4 DEF Transfer, LtMetadata, LtFinish, UserEdit
  <2>2. Fs
    BY <1>4 DEF Transfer, LtMetadata, LtFinish, UserEdit, WriteNew
  <2> QED
    BY <2>1, <2>2
<1>5. St => \A q \in Peers \ {p} : state'[q] = state[q]
  BY SetShareStateElsewhere
<1>6. Fs => \A q \in Peers \ {p} : fsq'[q] = fsq[q]
  BY <1>0, WriteElsewhere
<1>7. (Wa => \A q \in Peers \ {p} : watched'[q] = watched[q])
      /\ (In => \A q \in Peers \ {p} : indexing'[q] = indexing[q])
  BY <1>0
<1>8. St /\ Wa /\ Fs /\ Sc /\ In
  BY <1>1, <1>2, <1>3, <1>4
<1> HIDE DEF St, Wa, Fs, In
<1> QED
  BY <1>5, <1>6, <1>7, <1>8

\* An empty slot belongs to no operation.
LEMMA IdleFields ==
    IdleTask.kind = "none" /\ IdleTask.pc = "none" /\ IdleTask.kind \notin SwitchKinds
  BY DEF IdleTask, SwitchKinds

\* A daemon at rest does nothing by itself but announce.
LEMMA RestingStep ==
    ASSUME TypeOK, LocalOnly, NEW p \in Peers, Resting(p)
    PROVE  /\ \A k \in Slots : ~TaskStep(p, k)
           /\ LoopStep(p) => AnnounceLan(p)
           /\ ~Transfer(p)
<1>1. ASSUME NEW k \in Slots PROVE ~TaskStep(p, k)
  <2>1. task[p][k].pc = "none"
    BY IdleFields DEF Resting
  <2> QED
    BY <2>1 DEF TaskStep, Boot, ActivateScan, ActivateFinish, LtAddShare, RebuildStart,
                RebuildFinish, SwitchFinish
<1>2. LoopStep(p) => AnnounceLan(p)
  BY DEF LoopStep, FsEvent, FsSchedule, DeferredFire, StatusAlert, StatusHandle,
         StatusIndexed, Heartbeat, Resting
<1>3. ~Transfer(p)
  BY DEF Transfer, LtMetadata, LtFinish, Resting
<1> QED
  BY <1>1, <1>2, <1>3

\* A slot that is filled, emptied or moved on.
LEMMA SlotWritten ==
    ASSUME TypeOK, NEW p \in Peers, NEW t, NEW k \in Slots, SetTask(p, k, t)
    PROVE  task'[p][k] = t /\ \A j \in Slots \ {k} : task'[p][j] = task[p][j]
<1>1. task \in [Peers -> [Slots -> Task]]
  BY DEF TypeOK
<1> QED
  BY <1>1 DEF SetTask

\* A spawned operation takes an empty slot and leaves the others alone.
LEMMA SlotSpawned ==
    ASSUME TypeOK, NEW p \in Peers, NEW t, Spawn(p, t)
    PROVE  \E k \in Slots : /\ task[p][k] = IdleTask /\ task'[p][k] = t
                            /\ \A j \in Slots \ {k} : task'[p][j] = task[p][j]
<1>1. PICK k \in Slots : task[p][k] = IdleTask /\ SetTask(p, k, t)
  BY DEF Spawn, FreeSlots, SetTask
<1> QED
  BY <1>1, SlotWritten

\* What is done for a daemon that has the edit keeps it complete.  Rebuilding
\* hashes the directory as it is; only its end touches the row.
Kept(p) ==
    /\ Complete(p)' /\ ih'[p] = ih[p] /\ seq'[p] = seq[p] /\ birth' = birth
    /\ Pending(p) => Pending(p)'
    /\ handle'[p] = NoHandle \/ handle'[p].ih \in {handle[p].ih, 2}
    /\ handle'[p] # NoHandle => handle[p] # NoHandle \/ handle'[p].ih = 2

Rebuilt(p) ==
    /\ Complete(p)' /\ ih'[p] = 2 /\ seq'[p] = seq[p] + 1
    /\ handle'[p].ih = 2
    /\ birth' = birth \/ (birth[2] = 0 /\ birth' = [birth EXCEPT ![2] = seq'[p] + 1])
    /\ 2 \in Version /\ (birth[2] = 0 => birth' = [birth EXCEPT ![2] = seq'[p] + 1])

\* Switches end and the rebuild goes on in a daemon that has the edit.
LEMMA CompleteTask ==
    ASSUME TypeOK, NEW p \in Peers, Complete(p), row[p], NEW k \in Slots, TaskStep(p, k)
    PROVE  /\ UNCHANGED <<row, nver, partial, net>>
           /\ Kept(p) \/ Rebuilt(p)
<1> DEFINE t == task[p][k]
<1>0. /\ t \in Task /\ handle \in [Peers -> Handle] /\ tfile \in [Peers -> Hash]
      /\ disk[p] = 2 /\ disk[p] \in Hash /\ rebuilt \in [Peers -> BOOLEAN]
      /\ handle[p] \in Handle
  BY DEF TypeOK, Complete
<1>c. NoHandle.ih = 0 /\ NoHandle.st = "none" /\ "rebuild" \notin SwitchKinds
  BY DEF NoHandle, SwitchKinds
<1>1. t.pc # "none" => Switched(p, k) \/ Rebuilding(p, k)
  BY IdleFields DEF Complete
<1>2. t.pc # "none"
  BY DEF TaskStep, Boot, ActivateScan, ActivateFinish, LtAddShare, RebuildStart,
         RebuildFinish, SwitchFinish
<1>3. CASE Switched(p, k)
  <2>1. SwitchFinish(p, k)
    BY <1>3, <1>c, <1>0 DEF Switched, SwitchKinds, TaskStep, Boot, ActivateScan,
         ActivateFinish, LtAddShare,
         RebuildStart, RebuildFinish
  <2>2. /\ UNCHANGED <<row, nver, partial, net, shareVars, seq, torVars, disk, watched,
                       fsq, fsVars, indexing>>
        /\ SetTask(p, k, IdleTask)
    BY <2>1 DEF SwitchFinish
  <2>3. task'[p][k] = IdleTask /\ \A j \in Slots \ {k} : task'[p][j] = task[p][j]
    BY <2>2, SlotWritten
  <2>4. t.kind # "rebuild"
    BY <1>3, <1>c DEF Switched
  <2>5. Pending(p) => Pending(p)'
    BY <2>2, <2>3, <2>4 DEF Pending
  <2>6. Complete(p)'
    BY <2>2, <2>3, IdleFields DEF Complete, Rebuilding, Switched
  <2> QED
    BY <2>2, <2>5, <2>6 DEF Kept
<1>4. CASE Rebuilding(p, k) /\ t.pc = "start"
  <2> DEFINE u == [t EXCEPT !.pc = "add"]
  <2>1. RebuildStart(p, k)
    BY <1>4, <1>0 DEF TaskStep, Boot, ActivateScan, ActivateFinish, LtAddShare, SwitchFinish,
         RebuildStart, RebuildFinish
  <2>2. /\ UNCHANGED <<row, nver, partial, net, shareVars, seq, disk, watched,
                       fsq, fsVars, indexing>>
        /\ SetTask(p, k, u) /\ DropTorrent(p)
    BY <2>1 DEF RebuildStart
  <2>3. task'[p][k] = u /\ \A j \in Slots \ {k} : task'[p][j] = task[p][j]
    BY <2>2, SlotWritten
  <2>4. u.kind = "rebuild" /\ u.pc = "add"
    BY <1>0, <1>4 DEF Rebuilding, Task
  <2>5. tfile'[p] = NoHash /\ handle'[p] = NoHandle
    BY <2>2, DropFrame
  <2>6. \A j \in Slots \ {k} : task[p][j].kind # "rebuild"
    BY <1>4 DEF Complete, Rebuilding
  <2> HIDE DEF u
  <2>7. Rebuilding(p, k)'
    BY <2>3, <2>4, <2>5 DEF Rebuilding
  <2>8. \A j \in Slots \ {k} : task'[p][j] = IdleTask \/ Switched(p, j)'
    BY <2>3, <2>6 DEF Complete, Rebuilding, Switched
  <2>9. Complete(p)'
    <3>1. \A j \in Slots : task'[p][j].kind = "rebuild" => j = k
      BY <2>3, <2>6
    <3>2. ~fsq[p] /\ ~fsstat[p]
      BY <1>4 DEF Complete, Rebuilding
    <3> QED
      BY <1>c, <2>2, <2>5, <2>7, <2>8, <3>1, <3>2 DEF Complete
  <2> QED
    BY <2>2, <2>3, <2>4, <2>5, <2>9 DEF Kept, Pending
<1>5. CASE Rebuilding(p, k) /\ t.pc = "add"
  <2> DEFINE h == [ih |-> 2, st |-> "complete", alert |-> TRUE]
             u == [t EXCEPT !.pc = "finish", !.ih = handle'[p].ih]
  <2>0. tfile[p] = NoHash /\ handle[p] = NoHandle /\ t.kind = "rebuild"
    BY <1>5 DEF Rebuilding
  <2>1. LtAddShare(p, k)
    BY <1>5, <1>0 DEF TaskStep, Boot, ActivateScan, ActivateFinish, SwitchFinish,
         RebuildStart, RebuildFinish
  <2>2. /\ UNCHANGED <<row, nver, partial, net, shareVars, seq, disk, watched,
                       fsq, fsVars, indexing>>
        /\ SetTask(p, k, u) /\ handle' = [handle EXCEPT ![p] = h]
    <3>1. UNCHANGED <<row, nver, partial, net, seq, disk, watched, fsq, fsVars, indexing>>
      BY <2>1 DEF LtAddShare
    <3>2. UNCHANGED shareVars /\ SetTask(p, k, u)
      BY <1>0, <2>0, <2>1 DEF LtAddShare
    <3>3. handle' = [handle EXCEPT ![p] = [ih |-> disk[p], st |-> "complete",
                                           alert |-> "complete" = "complete"]]
      BY <1>0, <2>0, <2>1 DEF LtAddShare
    <3>4. handle' = [handle EXCEPT ![p] = h]
      BY <1>0, <3>3
    <3> QED
      BY <3>1, <3>2, <3>4
  <2>3. task'[p][k] = u /\ \A j \in Slots \ {k} : task'[p][j] = task[p][j]
    BY <2>2, SlotWritten
  <2>4. handle'[p] = h /\ h.ih = 2 /\ h.st = "complete"
    BY <1>0, <2>2
  <2>5. u.kind = "rebuild" /\ u.pc = "finish" /\ u.ih = 2
    BY <1>0, <2>0, <2>4 DEF Task
  <2>6. \A j \in Slots \ {k} : task[p][j].kind # "rebuild"
    BY <1>5 DEF Complete, Rebuilding
  <2> HIDE DEF u, h
  <2>7. Rebuilding(p, k)'
    BY <2>3, <2>4, <2>5 DEF Rebuilding
  <2>8. \A j \in Slots \ {k} : task'[p][j] = IdleTask \/ Switched(p, j)'
    BY <2>3, <2>6 DEF Complete, Rebuilding, Switched
  <2>9. Complete(p)'
    <3>1. \A j \in Slots : task'[p][j].kind = "rebuild" => j = k
      BY <2>3, <2>6
    <3>2. ~fsq[p] /\ ~fsstat[p]
      BY <1>5 DEF Complete, Rebuilding
    <3> QED
      BY <2>2, <2>4, <2>7, <2>8, <3>1, <3>2 DEF Complete
  <2> QED
    BY <2>2, <2>3, <2>4, <2>5, <2>9 DEF Kept, Pending
<1>6. CASE Rebuilding(p, k) /\ t.pc = "finish"
  <2>0. t.ih = 2 /\ handle[p].ih = 2 /\ t.kind = "rebuild" /\ 2 \in Version
    BY <1>0, <1>6 DEF Rebuilding, Hash
  <2>1. RebuildFinish(p, k)
    BY <1>c, <1>6, <1>0, <2>0 DEF TaskStep, Boot, ActivateScan, ActivateFinish, SwitchFinish,
         RebuildStart, LtAddShare
  <2>2. /\ UNCHANGED <<row, nver, partial, net, torVars, disk, watched,
                       fsq, fsstat, deferred, indexing>>
        /\ SetTask(p, k, IdleTask) /\ SetShareState(p, "seeding", 2) /\ IncrementSeq(p)
        /\ rebuilt' = [rebuilt EXCEPT ![p] = TRUE]
    BY <2>0, <2>1 DEF RebuildFinish
  <2>3. task'[p][k] = IdleTask /\ \A j \in Slots \ {k} : task'[p][j] = task[p][j]
    BY <2>2, SlotWritten
  <2>4. \A j \in Slots \ {k} : task[p][j].kind # "rebuild"
    BY <1>6 DEF Complete, Rebuilding
  <2>5. state'[p] = "seeding"
    BY <2>2, SetShareStateElsewhere
  <2>6. seq'[p] = seq[p] + 1
    BY <2>2, SeqFrame
  <2>7. /\ ih'[p] = 2
        /\ birth' = birth \/ (birth[2] = 0 /\ birth' = [birth EXCEPT ![2] = seq'[p] + 1])
        /\ birth[2] = 0 => birth' = [birth EXCEPT ![2] = seq'[p] + 1]
    BY <2>2, SetShareStateFrame
  <2>8. Complete(p)'
    <3>1. \A j \in Slots : /\ task'[p][j] = IdleTask \/ Switched(p, j)'
                           /\ task'[p][j].kind # "rebuild"
      BY <2>3, <2>4, IdleFields DEF Complete, Rebuilding, Switched
    <3>2. ~fsq[p] /\ ~fsstat[p]
      BY <1>6 DEF Complete, Rebuilding
    <3> QED
      BY <2>2, <2>5, <3>1, <3>2 DEF Complete
  <2> QED
    BY <2>0, <2>2, <2>6, <2>7, <2>8 DEF Rebuilt
<1> QED
  BY <1>1, <1>2, <1>3, <1>4, <1>5, <1>6 DEF Rebuilding

\* File events are debounced into at most one rebuild, and a status that says
\* the download is done indexes the directory.
LEMMA CompleteLoop ==
    ASSUME TypeOK, LocalOnly, NEW p \in Peers, Complete(p), row[p],
           LoopStep(p), ~AnnounceLan(p)
    PROVE  Kept(p) /\ UNCHANGED <<row, nver, partial, net>>
<1>0. /\ handle \in [Peers -> Handle] /\ fsq \in [Peers -> BOOLEAN]
      /\ fsstat \in [Peers -> BOOLEAN] /\ rebuilt \in [Peers -> BOOLEAN]
      /\ watched \in [Peers -> BOOLEAN] /\ indexing \in [Peers -> BOOLEAN]
      /\ handle[p] \in Handle /\ state[p] = "seeding" /\ ~deferred[p]
  BY DEF TypeOK, Complete
<1>c. NoHandle.alert = FALSE
  BY DEF NoHandle
<1>1. ASSUME ScheduleOrRebuild(p), fsq[p] \/ fsstat[p], ~fsq'[p], ~fsstat'[p],
             UNCHANGED <<state, disk, watched, indexing, torVars>>
      PROVE  Complete(p)' /\ Pending(p)'
  <2> DEFINE t == NewTask("rebuild", "start", NoHash)
  <2>1. ~rebuilt[p]
    BY <1>1 DEF Complete
  <2>2. Spawn(p, t) /\ UNCHANGED deferred
    BY <1>1, <2>1 DEF ScheduleOrRebuild
  <2>3. PICK k \in Slots : /\ task[p][k] = IdleTask /\ task'[p][k] = t
                           /\ \A j \in Slots \ {k} : task'[p][j] = task[p][j]
    BY <2>2, SlotSpawned
  <2>4. t.kind = "rebuild" /\ t.pc = "start"
    BY Kinds
  <2> HIDE DEF t
  <2>5. \A j \in Slots : task[p][j].kind # "rebuild"
    BY <1>1 DEF Complete
  <2>6. \A j \in Slots \ {k} : task'[p][j] = IdleTask \/ Switched(p, j)'
    BY <2>3, <2>5 DEF Complete, Rebuilding, Switched
  <2>7. Rebuilding(p, k)'
    BY <2>3, <2>4 DEF Rebuilding
  <2>8. \A j \in Slots : task'[p][j].kind = "rebuild" => j = k
    BY <2>3, <2>5
  <2>9. Complete(p)'
    BY <1>1, <2>2, <2>6, <2>7, <2>8 DEF Complete
  <2> QED
    BY <2>3, <2>4, <2>9 DEF Pending
<1>2. CASE FsEvent(p)
  <2>1. /\ UNCHANGED <<row, nver, partial, net, shareVars, seq, disk, watched, indexing, torVars>>
        /\ fsq' = [fsq EXCEPT ![p] = FALSE] /\ fsq[p] /\ ~fsstat[p]
    BY <1>2 DEF FsEvent
  <2>2. ~fsq'[p] /\ ~rebuilt[p]
    BY <1>0, <2>1 DEF Complete
  <2>3. \/ fsstat' = [fsstat EXCEPT ![p] = TRUE] /\ UNCHANGED <<rebuilt, deferred, task>>
        \/ ScheduleOrRebuild(p) /\ UNCHANGED fsstat
    BY <1>0, <1>2 DEF FsEvent
  <2>4. Complete(p)' /\ Pending(p)'
    <3>1. CASE fsstat' = [fsstat EXCEPT ![p] = TRUE] /\ UNCHANGED <<rebuilt, deferred, task>>
      <4>1. fsstat'[p] /\ \A j \in Slots : task[p][j].kind # "rebuild"
        BY <1>0, <2>1, <3>1 DEF Complete
      <4> QED
        BY <2>1, <2>2, <3>1, <4>1 DEF Complete, Pending, Rebuilding, Switched
    <3>2. CASE ScheduleOrRebuild(p) /\ UNCHANGED fsstat
      BY <1>1, <2>1, <2>2, <3>2
    <3> QED
      BY <2>3, <3>1, <3>2
  <2> QED
    BY <2>1, <2>4 DEF Kept
<1>3. CASE FsSchedule(p)
  <2>1. /\ UNCHANGED <<row, nver, partial, net, shareVars, seq, disk, fsq, watched, indexing,
                       torVars>>
        /\ fsstat' = [fsstat EXCEPT ![p] = FALSE] /\ fsstat[p]
        /\ ScheduleOrRebuild(p) \/ fsq[p]
    BY <1>3 DEF FsSchedule
  <2>2. ~fsq[p] /\ ~fsstat'[p] /\ ~fsq'[p]
    BY <1>0, <2>1 DEF Complete
  <2>3. Complete(p)' /\ Pending(p)'
    BY <1>1, <2>1, <2>2
  <2> QED
    BY <2>1, <2>3 DEF Kept
<1>4. CASE StatusAlert(p)
  <2>1. /\ UNCHANGED <<row, nver, partial, net, shareVars, seq, disk, fsq, watched,
                       indexing, tfile, fsVars, task>>
        /\ handle' = [handle EXCEPT ![p].alert = FALSE] /\ handle[p].alert
    BY <1>4 DEF StatusAlert
  <2>2. /\ handle'[p].ih = handle[p].ih /\ handle'[p].st = handle[p].st
        /\ handle[p] # NoHandle
    BY <1>0, <1>c, <2>1 DEF Handle
  <2>3. \A k \in Slots : Rebuilding(p, k) => Rebuilding(p, k)'
    BY <2>1, <2>2 DEF Rebuilding
  <2>4. Complete(p)'
    BY <2>1, <2>2, <2>3 DEF Complete, Switched
  <2>5. Pending(p) => Pending(p)'
    BY <2>1 DEF Pending
  <2> QED
    BY <2>1, <2>2, <2>4, <2>5 DEF Kept
<1>5. CASE StatusHandle(p)
  <2>1. UNCHANGED <<row, nver, partial, net, shareVars, seq, disk, fsq, watched,
                    indexing, torVars, fsVars, task>>
    BY <1>0, <1>5 DEF StatusHandle
  <2>2. Complete(p)' /\ (Pending(p) => Pending(p)')
    BY <2>1 DEF Complete, Pending, Rebuilding, Switched
  <2> QED
    BY <2>1, <2>2 DEF Kept
<1>6. CASE StatusIndexed(p)
  <2>1. /\ UNCHANGED <<row, nver, partial, net, shareVars, seq, disk, fsq,
                       torVars, fsVars, task>>
        /\ watched' = [watched EXCEPT ![p] = TRUE]
    BY <1>6 DEF StatusIndexed
  <2>2. watched'[p]
    BY <1>0, <2>1
  <2>3. Complete(p)' /\ (Pending(p) => Pending(p)')
    BY <2>1, <2>2 DEF Complete, Pending, Rebuilding, Switched
  <2> QED
    BY <2>1, <2>3 DEF Kept
<1>7. ~DeferredFire(p) /\ ~Heartbeat(p)
  BY <1>0 DEF DeferredFire, Heartbeat
<1> QED
  BY <1>2, <1>3, <1>4, <1>5, <1>6, <1>7 DEF LoopStep

\* libtorrent has nothing to fetch for a daemon that has the edit.
LEMMA CompleteTransfer ==
    ASSUME NEW p \in Peers, Complete(p) PROVE ~Transfer(p)
  BY DEF Transfer, LtMetadata, LtFinish, Complete

\* The torrent of the edit is added once, as a magnet, and the switch ends.
LEMMA FetchingTask ==
    ASSUME TypeOK, NEW p \in Peers, Fetching(p), NEW k \in Slots, TaskStep(p, k)
    PROVE  Fetching(p)' /\ UNCHANGED <<row, birth, disk, nver, partial, net>>
<1> DEFINE t == task[p][k]
           adding == /\ t.kind \in SwitchKinds /\ t.pc = "add"
                     /\ t.ih = 2 /\ ~t.files
                     /\ tfile[p] = NoHash /\ handle[p] = NoHandle
<1>0. t \in Task /\ handle \in [Peers -> Handle] /\ handle[p] \in Handle
  BY DEF TypeOK
<1>c. /\ NoHandle.st = "none" /\ ~NoHandle.alert
      /\ "rebuild" \notin SwitchKinds /\ "activate" \notin SwitchKinds
  BY DEF NoHandle, SwitchKinds
<1>1. Switched(p, k) \/ adding
  <2>1. t.pc # "none"
    BY DEF TaskStep, Boot, ActivateScan, ActivateFinish, LtAddShare, RebuildStart,
           RebuildFinish, SwitchFinish
  <2> QED
    BY <2>1, IdleFields DEF Fetching
<1>2. CASE Switched(p, k)
  <2>1. SwitchFinish(p, k)
    BY <1>2, <1>c, <1>0 DEF Switched, TaskStep, Boot, ActivateScan, ActivateFinish,
         LtAddShare, RebuildStart, RebuildFinish
  <2>2. /\ UNCHANGED <<row, nver, partial, net, shareVars, seq, torVars, disk, watched,
                       fsq, fsVars, statusVars>>
        /\ SetTask(p, k, IdleTask)
    BY <2>1 DEF SwitchFinish
  <2>3. task'[p][k] = IdleTask /\ \A j \in Slots \ {k} : task'[p][j] = task[p][j]
    BY <2>2, SlotWritten
  <2>4. Fetching(p)'
    BY <2>2, <2>3, IdleFields DEF Fetching, Switched
  <2> QED
    BY <2>2, <2>4
<1>3. CASE adding
  <2> DEFINE h == [ih |-> 2, st |-> "magnet", alert |-> FALSE]
             u == [t EXCEPT !.pc = "finish", !.ih = handle'[p].ih]
  <2>1. LtAddShare(p, k)
    BY <1>3, <1>0 DEF TaskStep, Boot, ActivateScan, ActivateFinish, SwitchFinish,
         RebuildStart, RebuildFinish
  <2>2. /\ UNCHANGED <<row, nver, partial, net, shareVars, seq, disk, watched,
                       fsq, fsVars, statusVars>>
        /\ SetTask(p, k, u)
    BY <1>0, <1>c, <1>3, <2>1 DEF LtAddShare
  <2>3. handle' = [handle EXCEPT ![p] = [ih |-> 2, st |-> "magnet",
                                         alert |-> "magnet" = "complete"]]
    BY <1>0, <1>c, <1>3, <2>1 DEF LtAddShare
  <2>4. handle'[p] = h /\ h.ih = 2 /\ h.st = "magnet" /\ ~h.alert
    BY <1>0, <2>3
  <2>5. u.kind = t.kind /\ u.pc = "finish"
    BY <1>0 DEF Task
  <2>6. task'[p][k] = u /\ \A j \in Slots \ {k} : task'[p][j] = task[p][j]
    BY <2>2, SlotWritten
  <2> HIDE DEF u, h
  <2>7. \A j \in Slots : task'[p][j] = IdleTask \/ Switched(p, j)'
    BY <1>3, <2>5, <2>6 DEF Fetching, Switched
  <2>8. \A j \in Slots : task'[p][j].pc # "add"
    BY <2>7, IdleFields DEF Switched
  <2>9. status[p] = NoHash /\ disk[p] # 2
    BY <1>3, <1>c DEF Fetching
  <2>10. Fetching(p)'
    BY <2>2, <2>4, <2>7, <2>8, <2>9 DEF Fetching
  <2> QED
    BY <2>2, <2>10
<1> QED
  BY <1>1, <1>2, <1>3

\* The status of the finished download makes the share a seed that is indexed.
LEMMA FetchingLoop ==
    ASSUME TypeOK, LocalOnly, NEW p \in Peers, Fetching(p), row[p], Published,
           LoopStep(p), ~AnnounceLan(p)
    PROVE  /\ Fetching(p)' \/ Serving(p)'
           /\ UNCHANGED <<row, birth, disk, nver, partial, net>>
<1>0. /\ handle \in [Peers -> Handle] /\ fsq \in [Peers -> BOOLEAN]
      /\ handle[p] \in Handle /\ status \in [Peers -> Hash] /\ indexing \in [Peers -> BOOLEAN]
      /\ seq[p] \in Nat
  BY DEF TypeOK
<1>c. /\ NoHandle.st = "none" /\ ~NoHandle.alert /\ NoHandle.ih = 0
      /\ "rebuild" \notin SwitchKinds
  BY DEF NoHandle, SwitchKinds
<1>1. CASE FsEvent(p)
  <2>1. /\ UNCHANGED <<row, nver, partial, net, shareVars, seq, disk, watched, statusVars,
                       torVars, fsVars, task>>
        /\ fsq' = [fsq EXCEPT ![p] = FALSE]
    BY <1>1 DEF FsEvent, Fetching
  <2>2. Fetching(p)'
    BY <1>0, <2>1 DEF Fetching, Switched
  <2> QED
    BY <2>1, <2>2
<1>2. CASE StatusAlert(p)
  <2>1. /\ UNCHANGED <<row, nver, partial, net, shareVars, seq, disk, fsq, watched,
                       indexing, tfile, fsVars, task>>
        /\ handle' = [handle EXCEPT ![p].alert = FALSE] /\ handle[p].alert
        /\ status' = [status EXCEPT ![p] = handle[p].ih]
    BY <1>2 DEF StatusAlert
  <2>2. /\ handle'[p].ih = handle[p].ih /\ handle'[p].st = handle[p].st
        /\ handle[p] # NoHandle
        /\ ~handle'[p].alert
    BY <1>0, <1>c, <2>1 DEF Handle
  <2>3. handle[p].ih = 2 /\ handle[p].st = "complete" /\ disk[p] = 2
    BY <2>1, <2>2 DEF Fetching
  <2>4. status'[p] = 2
    BY <1>0, <2>1, <2>3
  <2>5. \A j \in Slots : task[p][j] = IdleTask \/ Switched(p, j)
    BY <2>2 DEF Fetching
  <2>6. Fetching(p)'
    BY <2>1, <2>2, <2>3, <2>4, <2>5 DEF Fetching, Switched
  <2> QED
    BY <2>1, <2>6
<1>3. CASE StatusHandle(p)
  <2>1. /\ UNCHANGED <<row, nver, partial, net, seq, disk, fsq, watched, torVars, fsVars, task>>
        /\ status[p] # NoHash /\ SetShareState(p, "seeding", status[p])
        /\ indexing' = [indexing EXCEPT ![p] = TRUE]
    BY <1>3 DEF StatusHandle, Fetching
  <2>2. status[p] = 2 /\ disk[p] = 2 /\ handle[p].st = "complete" /\ handle[p] # NoHandle
    BY <1>c, <2>1 DEF Fetching
  <2>3. ih'[p] = 2 /\ birth' = birth /\ state'[p] = "seeding" /\ indexing'[p]
    BY <1>0, <2>1, <2>2, SetShareStateFrame, SetShareStateElsewhere DEF Published
  <2>4. \A j \in Slots : task[p][j] = IdleTask \/ Switched(p, j)
    BY <2>2 DEF Fetching
  <2>5. \A j \in Slots : task[p][j].kind # "rebuild"
    BY <1>c, <2>4, IdleFields DEF Switched
  <2>6. Complete(p)'
    BY <2>1, <2>2, <2>3, <2>4, <2>5 DEF Complete, Fetching, Switched
  <2>7. Serving(p)'
    BY <2>1, <2>2, <2>3, <2>6 DEF Serving, Fetching
  <2> QED
    BY <2>1, <2>3, <2>7
<1>4. /\ ~FsSchedule(p) /\ ~DeferredFire(p) /\ ~StatusIndexed(p) /\ ~Heartbeat(p)
  BY DEF FsSchedule, DeferredFire, StatusIndexed, Heartbeat, Fetching
<1> QED
  BY <1>1, <1>2, <1>3, <1>4 DEF LoopStep

\* The download starts, perhaps leaving part of the edit in the directory, and
\* ends with all of it there.
LEMMA FetchingTransfer ==
    ASSUME TypeOK, NEW p \in Peers, Fetching(p), Transfer(p), nver >= 2
    PROVE  /\ Fetching(p)' /\ UNCHANGED <<row, birth, net>>
           /\ nver' >= nver /\ \A v \in partial' : v \in partial \/ v > 2
<1>0. /\ handle \in [Peers -> Handle] /\ handle[p] \in Handle /\ nver \in Nat
      /\ fsq \in [Peers -> BOOLEAN]
  BY DEF TypeOK
<1>c. NoHandle.st = "none" /\ ~NoHandle.alert
  BY DEF NoHandle
<1>1. CASE LtMetadata(p)
  <2>1. /\ UNCHANGED <<row, net, shareVars, seq, tfile, watched, task, fsVars, statusVars>>
        /\ handle' = [handle EXCEPT ![p].st = "downloading"] /\ handle[p].st = "magnet"
        /\ SameDisk \/ WriteNew(p, TRUE)
    BY <1>1 DEF LtMetadata
  <2>2. /\ handle'[p].ih = handle[p].ih /\ handle'[p].alert = handle[p].alert
        /\ handle[p] # NoHandle
    BY <1>0, <1>c, <2>1 DEF Handle
  <2>3. nver' >= nver /\ \A v \in partial' : v \in partial \/ v > 2
    BY <1>0, <2>1 DEF WriteNew
  <2>4. ~handle[p].alert /\ status[p] = NoHash /\ handle[p].ih = 2
    BY <2>1, <2>2 DEF Fetching
  <2>5. \A j \in Slots : task[p][j] = IdleTask \/ Switched(p, j)
    BY <2>2 DEF Fetching
  <2>6. disk[p] # 2 /\ disk'[p] # 2
    <3>1. disk[p] # 2
      BY <2>1 DEF Fetching
    <3>2. disk' = disk \/ WriteNew(p, TRUE)
      BY <2>1
    <3> QED
      BY <1>0, <3>1, <3>2, WriteFrame DEF WriteNew
  <2>7. Fetching(p)'
    BY <2>1, <2>2, <2>4, <2>5, <2>6 DEF Fetching, Switched
  <2> QED
    BY <2>1, <2>3, <2>7
<1>2. CASE LtFinish(p)
  <2>1. /\ UNCHANGED <<row, net, shareVars, seq, tfile, watched, task, fsVars, statusVars,
                       nver, partial>>
        /\ handle' = [handle EXCEPT ![p].st = "complete", ![p].alert = TRUE]
        /\ handle[p].st = "downloading"
        /\ WriteDisk(p, handle[p].ih)
    BY <1>2 DEF LtFinish
  <2>2. /\ handle'[p].ih = handle[p].ih /\ handle'[p].st = "complete"
        /\ handle[p] # NoHandle
    BY <1>0, <1>c, <2>1 DEF Handle
  <2>3. disk'[p] = 2 /\ handle[p].ih = 2
    BY <2>1, <2>2, WriteFrame DEF Fetching
  <2>5. \A j \in Slots : task[p][j] = IdleTask \/ Switched(p, j)
    BY <2>2 DEF Fetching
  <2>6. Fetching(p)'
    BY <2>1, <2>2, <2>3, <2>5 DEF Fetching, Switched
  <2> QED
    BY <1>0, <2>1, <2>6
<1> QED
  BY <1>1, <1>2 DEF Transfer

\* A packet about the edit reaches a daemon without it: by its strategy the daemon
\* switches, perhaps after a rename, or notes the conflict and pauses.
LEMMA RestingReceives ==
    ASSUME TypeOK, NEW p \in Peers, Old(p) \/ Asked(p), row[p], Published, nver >= 2,
           NEW q, NEW m, ReceiveLan(p, q, m), m.ih = 2, m.seq \in Nat, m.seq >= 2
    PROVE  /\ Fetching(p)' \/ Asked(p)'
           /\ UNCHANGED <<row, birth, net>>
           /\ nver' >= nver /\ \A v \in partial' : v \in partial \/ v > 2
<1>0. /\ seq[p] \in Nat /\ nver \in Nat /\ Resting(p) /\ strat[p] \in AllStrategies
      /\ watched \in [Peers -> BOOLEAN] /\ switching \in [Peers -> BOOLEAN]
      /\ 2 \in Version /\ 2 # NoHash
  BY DEF TypeOK, Old, Asked, Published
<1>1. UNCHANGED <<row, strat, fsVars, statusVars, net>>
  BY DEF ReceiveLan
<1>2. CASE ~(m.seq < seq[p])
  <2>1. /\ HandleRemoteUpdate(p, 2, "switch")
        /\ AdoptSeq(p, m.seq) \/ (UNCHANGED seq /\ m.seq = seq[p])
    BY <1>0, <1>2 DEF ReceiveLan, Resting
  <2>2. seq'[p] >= 2
    BY <1>0, <2>1, SeqFrame
  <2>3. CASE strat[p] = "ask"
    <3>1. /\ SetShareState(p, "paused", NoHash)
          /\ UNCHANGED <<disk, fsq, nver, partial, switching, task, tfile, handle>>
      BY <2>1, <2>3 DEF HandleRemoteUpdate
    <3>2. state'[p] = "paused" /\ ih'[p] = ih[p]
      BY <3>1, SetShareStateFrame, SetShareStateElsewhere
    <3>3. birth' = birth
      BY <3>1 DEF SetShareState
    <3>4. Asked(p)'
      BY <1>0, <1>1, <2>2, <3>1, <3>2 DEF Asked, Resting
    <3> QED
      BY <1>0, <1>1, <3>1, <3>3, <3>4
  <2>4. CASE strat[p] # "ask"
    <3> DEFINE t == NewTask("switch", "add", 2)
    <3>1. /\ SetShareState(p, "syncing", 2) /\ DropTorrent(p) /\ Spawn(p, t)
          /\ watched' = [watched EXCEPT ![p] = FALSE]
      BY <1>0, <2>1, <2>4 DEF HandleRemoteUpdate, SwitchToRemote, Resting
    <3>2. SameDisk \/ \E b : WriteNew(p, b)
      BY <2>1, <2>4 DEF HandleRemoteUpdate, RenameConflictFiles
    <3>3. nver' >= nver /\ \A v \in partial' : v \in partial \/ v > 2
      BY <1>0, <3>2 DEF WriteNew
    <3>4. state'[p] = "syncing" /\ ih'[p] = 2
      BY <1>0, <3>1, SetShareStateFrame, SetShareStateElsewhere
    <3>5. birth' = birth
      BY <3>1 DEF SetShareState, Published
    <3>6. tfile'[p] = NoHash /\ handle'[p] = NoHandle /\ ~watched'[p]
      BY <1>0, <3>1, DropFrame
    <3>7. PICK k \in Slots : /\ task'[p][k] = t
                             /\ \A j \in Slots \ {k} : task'[p][j] = task[p][j]
      BY <3>1, SlotSpawned
    <3>8. t.kind \in SwitchKinds /\ t.pc = "add" /\ t.ih = 2 /\ ~t.files
      BY Kinds DEF SwitchKinds
    <3> HIDE DEF t
    <3>9. ~NoHandle.alert
      BY DEF NoHandle
    <3>10. \A j \in Slots \ {k} : task'[p][j] = IdleTask /\ task'[p][j].pc # "add"
      BY <1>0, <3>7, IdleFields DEF Resting
    <3>11. status'[p] = NoHash /\ ~indexing'[p] /\ ~fsstat'[p] /\ ~rebuilt'[p] /\ ~deferred'[p]
      BY <1>0, <1>1 DEF Resting
    <3>12. disk'[p] # 2
      BY <1>0, <3>2, WriteFrame DEF WriteNew, Resting
    <3>13. Fetching(p)'
      BY <2>2, <3>4, <3>6, <3>7, <3>8, <3>9, <3>10, <3>11, <3>12 DEF Fetching
    <3> QED
      BY <1>1, <3>3, <3>5, <3>13
  <2> QED
    BY <2>3, <2>4
<1>3. CASE m.seq < seq[p]
  <2>1. Asked(p)
    BY <1>0, <1>3 DEF Old
  <2>2. UNCHANGED <<disk, fsq, nver, partial, seq, switching, task, state, ih, birth, watched,
                    tfile, handle>>
    BY <1>0, <1>3 DEF ReceiveLan, Resting
  <2>3. Asked(p)'
    BY <1>1, <2>1, <2>2 DEF Asked, Resting
  <2> QED
    BY <1>0, <1>1, <2>2, <2>3
<1> QED
  BY <1>2, <1>3

\* A packet about the version a daemon has, or about the old one once it has the
\* edit, changes nothing.
LEMMA ReceivesOld ==
    ASSUME TypeOK, NEW p \in Peers, NEW q, NEW m, ReceiveLan(p, q, m),
           m.ih # NoHash, ih[p] # NoHash, m.seq \in Nat,
           m.ih = ih[p] \/ m.seq < seq[p]
    PROVE  UNCHANGED <<row, disk, fsq, nver, partial, seq, switching, task, state, ih, birth,
                       watched, tfile, handle, fsstat, rebuilt, deferred, status, indexing,
                       net>>
<1>1. UNCHANGED <<row, fsVars, statusVars, net>>
  BY DEF ReceiveLan
<1>2. seq[p] \in Nat
  BY DEF TypeOK
<1>3. UNCHANGED <<disk, fsq, nver, partial, seq, switching, task, state, ih, birth, watched,
                  tfile, handle>>
  BY <1>2 DEF ReceiveLan
<1> QED
  BY <1>1, <1>3

\* The edit itself.
LEMMA OldEdited ==
    ASSUME TypeOK, NEW p \in Peers, Old(p), UserEdit(p), nver = 1
    PROVE  Editing(p)' /\ nver' = 2 /\ UNCHANGED <<row, birth, partial, net>>
<1>1. /\ UNCHANGED <<row, strat, state, ih, seq, birth, torVars, watched, taskVars, fsVars,
                     statusVars, net>>
      /\ WriteDisk(p, nver + 1) /\ nver' = 2 /\ partial' = partial
  BY DEF UserEdit, WriteNew
<1>2. nver + 1 = 2
  OBVIOUS
<1>3. disk'[p] = 2 /\ fsq'[p]
  BY <1>1, <1>2, WriteFrame, WriteElsewhere DEF Old, Resting
<1>4. Complete(p)'
  BY <1>1, <1>3, IdleFields DEF Old, Resting, Complete
<1>5. Editing(p)'
  BY <1>1, <1>3, <1>4 DEF Old, Resting, Editing, Pending
<1> QED
  BY <1>1, <1>5

-----------------------------------------------------------------------------
\* A daemon is in one phase at a time.
LEMMA PhasesDiffer ==
    ASSUME NEW p \in Peers
    PROVE  /\ Editing(p) => ~Old(p) /\ ~Asked(p) /\ ~Serving(p) /\ ~Fetching(p)
           /\ Old(p) => ~Asked(p) /\ ~Serving(p) /\ ~Fetching(p)
  BY DEF Editing, Complete, Old, Asked, Resting, Serving, Fetching

\* What a step has to show about the daemon that takes it.
LEMMA OneEditKeeps ==
    ASSUME TypeOK, OneEditInv, NEW p \in Peers, Elsewhere(p), row' = row, Phased(p)',
           \A q \in Peers \ {p} : Editing(q) => Old(p)' /\ ~Published',
           Editing(p)' => nver' >= 2 /\ ~Published' /\ \A q \in Peers \ {p} : Old(q),
           Asked(p)' \/ Serving(p)' \/ Fetching(p)' => Published',
           nver' \in Nat, nver' >= nver, Published => Published', TwoBorn', PacketsTell'
    PROVE  OneEditInv'
<1>0. nver \in Nat
  BY DEF TypeOK
<1>1. AllPhased'
  BY ElsewhereKeeps DEF OneEditInv, AllPhased, Phased
<1>2. EditsAlone'
  <2> SUFFICES ASSUME NEW r \in Peers, NEW q \in Peers, Editing(r)'
               PROVE  nver' >= 2 /\ ~Published' /\ (q # r => Old(q)')
    BY DEF EditsAlone
  <2>1. CASE r = p
    BY <2>1, ElsewhereKeeps
  <2>2. CASE r # p
    <3>1. Editing(r)
      BY <2>2, ElsewhereKeeps
    <3>2. nver >= 2 /\ (q # r => Old(q))
      BY <3>1 DEF OneEditInv, EditsAlone
    <3>3. Old(p)' /\ ~Published'
      BY <2>2, <3>1
    <3>4. q # r => Old(q)'
      BY <3>2, <3>3, ElsewhereKeeps
    <3> QED
      BY <1>0, <3>2, <3>3, <3>4
  <2> QED
    BY <2>1, <2>2
<1>3. ReachedIsPublished'
  BY ElsewhereKeeps DEF OneEditInv, ReachedIsPublished
<1> QED
  BY <1>1, <1>2, <1>3 DEF OneEditInv

\* Steps within a phase, and the end of a download.
LEMMA PhaseKept ==
    ASSUME TypeOK, TypeOK', OneEditInv, NEW p \in Peers, Elsewhere(p),
           UNCHANGED <<row, birth, net>>, nver' >= nver,
           \A v \in partial' : v \in partial \/ v > 2,
           Old(p) => Old(p)', Asked(p) => Asked(p)', Editing(p) => Editing(p)',
           Serving(p) => Serving(p)', Fetching(p) => Fetching(p)' \/ Serving(p)'
    PROVE  OneEditInv'
<1>0. nver \in Nat /\ nver' \in Nat
  BY DEF TypeOK
<1>1. Phased(p) /\ row[p]
  BY DEF OneEditInv, AllPhased
<1>2. Phased(p)'
  BY <1>1 DEF Phased
<1>3. Published' <=> Published
  BY DEF Published
<1>4. (Editing(p)' => Editing(p)) /\ (Old(p) => Old(p)')
      /\ (Asked(p)' \/ Serving(p)' \/ Fetching(p)' => Asked(p) \/ Serving(p) \/ Fetching(p))
  <2>1. /\ Editing(p)' => ~Old(p)' /\ ~Asked(p)' /\ ~Serving(p)' /\ ~Fetching(p)'
        /\ Old(p)' => ~Asked(p)' /\ ~Serving(p)' /\ ~Fetching(p)'
    BY DEF Editing, Complete, Old, Asked, Resting, Serving, Fetching
  <2> QED
    BY <1>1, <2>1 DEF Phased
<1>5. TwoBorn'
  BY <1>0, <1>3 DEF OneEditInv, TwoBorn
<1>6. PacketsTell'
  BY <1>3 DEF OneEditInv, PacketsTell
<1>7. \A q \in Peers \ {p} : Editing(q) => Old(p)' /\ ~Published'
  BY <1>3, <1>4 DEF OneEditInv, EditsAlone
<1>8. Editing(p)' => nver' >= 2 /\ ~Published' /\ \A q \in Peers \ {p} : Old(q)
  BY <1>0, <1>3, <1>4 DEF OneEditInv, EditsAlone
<1>9. Asked(p)' \/ Serving(p)' \/ Fetching(p)' => Published'
  BY <1>3, <1>4 DEF OneEditInv, ReachedIsPublished
<1> QED
  BY <1>0, <1>2, <1>3, <1>5, <1>6, <1>7, <1>8, <1>9, OneEditKeeps

EditedOnceStep(p) ==
    \/ \E k \in Slots : TaskStep(p, k)
    \/ LoopStep(p) \/ Receive(p) \/ Transfer(p)
    \/ nver = 1 /\ UserEdit(p)

\* A step of the scenario touches one daemon and keeps the row invariant.
LEMMA EditedOnceFrame ==
    ASSUME TypeOK, RowInv, NEW p \in Peers, EditedOnceStep(p)
    PROVE  Elsewhere(p) /\ RowInv'
<1>1. ASSUME UserEdit(p) PROVE Frame(p) /\ RowOf(p)'
  <2>1. /\ UNCHANGED <<row, ih, seq, switching, handle, task, tfile, status, conflicts>>
        /\ \E v : WriteDisk(p, v)
    BY <1>1 DEF UserEdit, WriteNew
  <2> QED
    BY <2>1, WriteFrame DEF Frame, RowInv, RowOf
<1>2. Frame(p) /\ RowOf(p)'
  BY <1>1, TaskStepRow, LoopStepRow, ReceiveRow, TransferRow DEF EditedOnceStep, RowInv
<1>3. RowInv'
  BY <1>2 DEF Frame, RowInv, RowOf
<1>4. Elsewhere(p)
  BY <1>2, MemoryElsewhere DEF Elsewhere, EditedOnceStep
<1> QED
  BY <1>3, <1>4

\* Every step keeps every daemon in a phase: a daemon at rest is edited or hears
\* of the edit, the editor publishes, the others fetch and then serve.
LEMMA OneEditStep ==
    ASSUME TypeOK, TypeOK', LocalOnly, OneEditInv, RowInv, NEW p \in Peers,
           EditedOnceStep(p)
    PROVE  OneEditInv'
<1>0. /\ Elsewhere(p) /\ row[p] /\ Phased(p) /\ nver \in Nat /\ nver' \in Nat
      /\ seq[p] \in Nat /\ ih[p] \in Hash
  BY EditedOnceFrame DEF OneEditInv, AllPhased, TypeOK
<1>1. CASE AnnounceLan(p)
  <2>1. UNCHANGED <<row, state, ih, birth, seq, disk, nver, partial, fsq, torVars, watched,
                    taskVars, fsVars, statusVars>>
    BY <1>1 DEF AnnounceLan
  <2>2. /\ state[p] # "paused"
        /\ \E old \in SUBSET net[p] :
              net' = [net EXCEPT ![p] = old \cup {[ih |-> ih[p], seq |-> seq[p]]}]
    BY <1>1 DEF AnnounceLan
  <2>3. Published' <=> Published
    BY <2>1 DEF Published
  <2>4. (Old(p)' <=> Old(p)) /\ (Asked(p)' <=> Asked(p))
    BY <2>1 DEF Old, Asked, Resting
  <2>5. Complete(p)' <=> Complete(p)
    BY <2>1 DEF Complete, Rebuilding, Switched
  <2>6. (Editing(p)' <=> Editing(p)) /\ (Serving(p)' <=> Serving(p))
        /\ (Fetching(p)' <=> Fetching(p))
    BY <2>1, <2>5 DEF Editing, Serving, Fetching, Pending, Switched
  <2>7. \/ ih[p] = 1 /\ seq[p] = 1
        \/ ih[p] = 2 /\ seq[p] >= 2 /\ Published
    BY <1>0, <2>2 DEF Phased, Old, Resting, Asked, Editing, Serving, Fetching, OneEditInv,
                      ReachedIsPublished
  <2>8. PacketsTell'
    <3> DEFINE new == [ih |-> ih[p], seq |-> seq[p]]
    <3>1. new.ih = ih[p] /\ new.seq = seq[p]
      OBVIOUS
    <3>2. \A q \in Peers \cup Outsiders : \A m \in net'[q] : m = new \/ m \in net[q]
      BY <2>2 DEF TypeOK
    <3> HIDE DEF new
    <3> QED
      BY <2>3, <2>7, <3>1, <3>2 DEF OneEditInv, PacketsTell
  <2>9. TwoBorn'
    BY <2>1, <2>3 DEF OneEditInv, TwoBorn
  <2>10. \A q \in Peers \ {p} : Editing(q) => Old(p)' /\ ~Published'
    BY <2>3, <2>4 DEF OneEditInv, EditsAlone
  <2>11. Editing(p)' => nver' >= 2 /\ ~Published' /\ \A q \in Peers \ {p} : Old(q)
    BY <2>1, <2>3, <2>6 DEF OneEditInv, EditsAlone
  <2>12. Asked(p)' \/ Serving(p)' \/ Fetching(p)' => Published'
    BY <2>3, <2>4, <2>6 DEF OneEditInv, ReachedIsPublished
  <2>13. Phased(p)'
    BY <1>0, <2>4, <2>6 DEF Phased
  <2> QED
    BY <1>0, <2>1, <2>3, <2>8, <2>9, <2>10, <2>11, <2>12, <2>13, OneEditKeeps
<1>2. CASE Old(p) \/ Asked(p)
  <2>0. Resting(p)
    BY <1>2 DEF Old, Asked
  <2>1. CASE nver = 1 /\ UserEdit(p)
    <3>1. ~Published /\ \A q \in Peers : Old(q)
      BY <2>1 DEF OneEditInv, TwoBorn, EditsAlone, ReachedIsPublished, AllPhased, Phased
    <3>2. Editing(p)' /\ nver' = 2 /\ UNCHANGED <<row, birth, partial, net>>
      BY <2>1, <3>1, OldEdited
    <3>3. ~Published'
      BY <3>1, <3>2 DEF Published
    <3>4. TwoBorn' /\ PacketsTell'
      BY <3>1, <3>2, <3>3 DEF OneEditInv, TwoBorn, PacketsTell
    <3>5. Phased(p)' /\ \A q \in Peers : ~Editing(q)
      BY <3>1, <3>2, PhasesDiffer DEF Phased
    <3>6. ~Asked(p)' /\ ~Serving(p)' /\ ~Fetching(p)'
      BY <3>2 DEF Editing, Complete, Asked, Resting, Serving, Fetching
    <3>7. nver' >= nver
      BY <2>1, <3>2
    <3> QED
      BY <1>0, <3>1, <3>2, <3>3, <3>4, <3>5, <3>6, <3>7, OneEditKeeps
  <2>2. ASSUME NEW q \in Peers \cup Outsiders, NEW m \in net[q], ReceiveLan(p, q, m)
        PROVE  OneEditInv'
    <3>0. m.seq \in Nat
      BY DEF TypeOK, Packet
    <3>1. CASE m.ih = 1 /\ m.seq = 1
      <4>1. UNCHANGED <<row, disk, fsq, nver, partial, seq, switching, task, state, ih, birth,
                       watched, tfile, handle, fsstat, rebuilt, deferred, status, indexing,
                       net>>
        BY <2>0, <2>2, <3>0, <3>1, ReceivesOld DEF Resting
      <4>2. (Old(p) => Old(p)') /\ (Asked(p) => Asked(p)')
        BY <4>1 DEF Old, Asked, Resting
      <4>3. ~Editing(p) /\ ~Serving(p) /\ ~Fetching(p)
        BY <1>2 DEF Old, Asked, Resting, Editing, Complete, Serving, Fetching
      <4> QED
        BY <1>0, <4>1, <4>2, <4>3, PhaseKept
    <3>2. CASE m.ih = 2 /\ m.seq >= 2 /\ Published
      <4>0. nver >= 2
        BY <3>2 DEF OneEditInv, TwoBorn
      <4>1. /\ Fetching(p)' \/ Asked(p)'
            /\ UNCHANGED <<row, birth, net>>
            /\ nver' >= nver /\ \A v \in partial' : v \in partial \/ v > 2
        BY <1>0, <1>2, <2>2, <3>0, <3>2, <4>0, RestingReceives
      <4>2. Published' /\ \A r \in Peers : ~Editing(r)
        BY <3>2, <4>1 DEF Published, OneEditInv, EditsAlone
      <4>3. TwoBorn' /\ PacketsTell'
        BY <1>0, <3>2, <4>0, <4>1, <4>2 DEF OneEditInv, TwoBorn, PacketsTell
      <4>4. Phased(p)' /\ ~Editing(p)'
        BY <4>1 DEF Phased, Asked, Resting, Fetching, Editing, Complete
      <4> QED
        BY <1>0, <3>2, <4>1, <4>2, <4>3, <4>4, OneEditKeeps
    <3> QED
      BY <3>1, <3>2 DEF OneEditInv, PacketsTell
  <2>3. ASSUME NEW q, ReceiveReg(p, q) PROVE FALSE
    BY <2>3 DEF ReceiveReg
  <2> QED
    BY <1>1, <2>0, <2>1, <2>2, <2>3, RestingStep DEF EditedOnceStep, Receive
<1>3. CASE Editing(p) \/ Serving(p) \/ Fetching(p)
  <2>0. /\ nver >= 2
        /\ Serving(p) \/ Fetching(p) => Published
        /\ Editing(p) => ~Published
        /\ ~Old(p) /\ ~Asked(p)
    <3>1. /\ Serving(p) \/ Fetching(p) => Published
          /\ Editing(p) => nver >= 2 /\ ~Published
          /\ Published => nver >= 2
      BY DEF OneEditInv, EditsAlone, ReachedIsPublished, TwoBorn
    <3>2. ~Old(p) /\ ~Asked(p)
      BY <1>3 DEF Editing, Complete, Serving, Fetching, Old, Asked, Resting
    <3> QED
      BY <1>3, <3>1, <3>2
  <2>1. ASSUME NEW q \in Peers \cup Outsiders, NEW m \in net[q], ReceiveLan(p, q, m)
        PROVE  OneEditInv'
    <3>0. m.seq \in Nat
      BY DEF TypeOK, Packet
    <3>1. m.ih # NoHash /\ ih[p] # NoHash /\ (m.ih = ih[p] \/ m.seq < seq[p])
      BY <1>0, <1>3, <2>0, <3>0 DEF OneEditInv, PacketsTell, Editing, Serving, Fetching
    <3>2. UNCHANGED <<row, disk, fsq, nver, partial, seq, switching, task, state, ih, birth,
                     watched, tfile, handle, fsstat, rebuilt, deferred, status, indexing,
                     net>>
      BY <2>1, <3>0, <3>1, ReceivesOld
    <3>3. Complete(p) => Complete(p)'
      BY <3>2 DEF Complete, Rebuilding, Switched
    <3>4. /\ Editing(p) => Editing(p)'
          /\ Serving(p) => Serving(p)'
          /\ Fetching(p) => Fetching(p)'
      BY <3>2, <3>3 DEF Editing, Serving, Fetching, Pending, Switched
    <3> QED
      BY <1>0, <2>0, <3>2, <3>4, PhaseKept
  <2>2. ASSUME NEW q, ReceiveReg(p, q) PROVE FALSE
    BY <2>2 DEF ReceiveReg
  <2>3. CASE Fetching(p) /\ ((\E k \in Slots : TaskStep(p, k)) \/ LoopStep(p) \/ Transfer(p))
             /\ ~AnnounceLan(p)
    <3>1. /\ Fetching(p)' \/ Serving(p)'
          /\ UNCHANGED <<row, birth, net>> /\ nver' >= nver
          /\ \A v \in partial' : v \in partial \/ v > 2
      BY <1>0, <2>0, <2>3, FetchingTask, FetchingLoop, FetchingTransfer
    <3>2. ~Editing(p) /\ ~Serving(p)
      BY <2>3 DEF Editing, Complete, Serving, Fetching
    <3> QED
      BY <1>0, <2>0, <3>1, <3>2, PhaseKept
  <2>4. CASE Complete(p) /\ Kept(p) /\ UNCHANGED <<row, nver, partial, net>>
    <3>1. (Editing(p) => Editing(p)') /\ (Serving(p) => Serving(p)')
      BY <2>4 DEF Kept, Editing, Serving
    <3>2. ~Fetching(p)
      BY <2>4 DEF Complete, Fetching
    <3>3. birth' = birth
      BY <2>4 DEF Kept
    <3> QED
      BY <1>0, <2>0, <2>4, <3>1, <3>2, <3>3, PhaseKept
  <2>5. CASE Complete(p) /\ Rebuilt(p) /\ UNCHANGED <<row, nver, partial, net>>
    <3>1. Serving(p)'
      <4>1. seq'[p] >= 2
        BY <1>0, <1>3, <2>5 DEF Rebuilt, Editing, Serving, Fetching
      <4> QED
        BY <2>5, <4>1 DEF Rebuilt, Serving
    <3>2. birth \in [Version -> Nat] /\ seq'[p] \in Nat
      BY DEF TypeOK
    <3>3. Published'
      BY <2>5, <3>2 DEF Rebuilt, Published
    <3>4. \A v \in Version : birth'[v] # 0 => birth[v] # 0 \/ v = 2
      BY <2>5, <3>2 DEF Rebuilt
    <3>5. TwoBorn'
      BY <2>0, <2>5, <3>4 DEF OneEditInv, TwoBorn
    <3>6. PacketsTell'
      BY <2>5, <3>3 DEF OneEditInv, PacketsTell
    <3>7. \A q \in Peers \ {p} : ~Editing(q)
      BY <2>0 DEF OneEditInv, EditsAlone
    <3>8. Phased(p)' /\ ~Editing(p)'
      BY <3>1 DEF Phased, Serving, Editing
    <3>9. nver' >= nver
      BY <1>0, <2>5
    <3> QED
      BY <1>0, <2>5, <3>1, <3>3, <3>5, <3>6, <3>7, <3>8, <3>9, OneEditKeeps
  <2>6. Complete(p) \/ Fetching(p)
    BY <1>3 DEF Editing, Serving
  <2>7. ~(nver = 1 /\ UserEdit(p))
    BY <1>0, <2>0
  <2> QED
    BY <1>0, <1>1, <2>1, <2>2, <2>3, <2>4, <2>5, <2>6, <2>7, CompleteTask, CompleteLoop,
       CompleteTransfer DEF EditedOnceStep, Receive
<1> QED
  BY <1>0, <1>2, <1>3 DEF Phased

-----------------------------------------------------------------------------
\* All daemons seed and watch the same version: the types, the row invariant and
\* the phases hold to begin with.
LEMMA SettledStart ==
    ASSUME MaxVersion >= 1, SettledInit([p \in Peers |-> 1])
    PROVE  TypeOK /\ RowInv /\ OneEditInv
<1> DEFINE h == [ih |-> 1, st |-> "complete", alert |-> FALSE]
<1>0. /\ 1 \in Version /\ 1 \in Hash /\ MaxVersion \in Nat /\ MaxOps \in Nat
      /\ Strategies \subseteq AllStrategies
  BY ConstantsAssumption DEF Version, Hash
<1>1. /\ row = [p \in Peers |-> TRUE] /\ strat \in [Peers -> Strategies]
      /\ conflicts = [p \in Peers |-> {}] /\ known = [p \in Peers |-> {}]
      /\ partial = {} /\ ops = 0
      /\ switching = [p \in Peers |-> FALSE]
      /\ task = [p \in Peers |-> [k \in Slots |-> IdleTask]]
      /\ fsq = [p \in Peers |-> FALSE] /\ fsstat = [p \in Peers |-> FALSE]
      /\ rebuilt = [p \in Peers |-> FALSE] /\ deferred = [p \in Peers |-> FALSE]
      /\ status = [p \in Peers |-> NoHash] /\ indexing = [p \in Peers |-> FALSE]
      /\ watched = [p \in Peers |-> TRUE]
      /\ ann = [p \in Peers \cup Outsiders |-> NoHash]
      /\ net = [p \in Peers \cup Outsiders |-> {}]
  BY DEF SettledInit
<1>2. /\ ih = [p \in Peers |-> 1] /\ disk = [p \in Peers |-> 1] /\ tfile = [p \in Peers |-> 1]
      /\ state = [p \in Peers |-> "seeding"] /\ seq = [p \in Peers |-> 1]
      /\ handle = [p \in Peers |-> h]
  BY DEF SettledInit
<1>3. watch \in [Peers -> {"none", "live", "stopped"}]
  BY DEF SettledInit
<1>4. nver \in {0, 1}
  <2> DEFINE S == {[q \in Peers |-> 1][p] : p \in Peers} \ {NoHash}
  <2>1. S = {} \/ S = {1}
    OBVIOUS
  <2>2. Cardinality({}) = 0 /\ Cardinality({1}) = 1
    BY FS_EmptySet, FS_Singleton
  <2>3. nver = Cardinality(S)
    BY DEF SettledInit
  <2> QED
    BY <2>1, <2>2, <2>3
<1>5. birth = [x \in Version |-> IF x <= nver THEN 2 ELSE 0]
  BY DEF SettledInit
<1>6. h \in Handle /\ h # NoHandle /\ h.ih = 1 /\ IdleTask \in Task
  BY <1>0, IdleTypes DEF Handle, HandleState, NoHandle
<1> HIDE DEF h
<1>7. TypeOK
  <2>1. /\ row \in [Peers -> BOOLEAN] /\ strat \in [Peers -> AllStrategies]
        /\ state \in [Peers -> ShareState] /\ ih \in [Peers -> Hash]
        /\ seq \in [Peers -> Nat] /\ disk \in [Peers -> Hash] /\ tfile \in [Peers -> Hash]
        /\ handle \in [Peers -> Handle]
    BY <1>0, <1>1, <1>2, <1>6 DEF ShareState
  <2>2. birth \in [Version -> Nat] /\ nver \in 0..MaxVersion
    BY <1>0, <1>4, <1>5
  <2>3. task \in [Peers -> [Slots -> Task]]
    BY <1>1, <1>6
  <2>4. /\ conflicts \in [Peers -> SUBSET Version]
        /\ known \in [Peers -> SUBSET (Peers \cup Outsiders)]
        /\ partial \subseteq Version /\ ops \in 0..MaxOps
        /\ watched \in [Peers -> BOOLEAN] /\ switching \in [Peers -> BOOLEAN]
        /\ fsq \in [Peers -> BOOLEAN] /\ fsstat \in [Peers -> BOOLEAN]
    BY <1>0, <1>1
  <2>5. /\ rebuilt \in [Peers -> BOOLEAN] /\ deferred \in [Peers -> BOOLEAN]
        /\ status \in [Peers -> Hash] /\ indexing \in [Peers -> BOOLEAN]
        /\ ann \in [Peers \cup Outsiders -> Hash]
        /\ net \in [Peers \cup Outsiders -> SUBSET Packet]
    BY <1>1 DEF Hash
  <2> QED
    BY <1>3, <2>1, <2>2, <2>3, <2>4, <2>5 DEF TypeOK
<1>8. \A p \in Peers : Old(p) /\ row[p]
  BY <1>1, <1>2 DEF Old, Resting, h
<1>9. RowInv
  BY <1>1, <1>2, <1>6, IdlePc DEF RowInv, RowOf
<1>10. ~Published /\ TwoBorn
  <2>1. \A v \in Version : v \in Nat /\ (birth[v] # 0 => v <= nver)
    BY <1>5 DEF Version
  <2>2. \A v \in Version : birth[v] # 0 => v = 1
    BY <1>0, <1>4, <2>1 DEF Version
  <2> QED
    BY <1>1, <2>2 DEF Published, TwoBorn
<1>11. OneEditInv
  <2>1. AllPhased /\ PacketsTell
    BY <1>1, <1>8 DEF AllPhased, Phased, PacketsTell
  <2>2. EditsAlone /\ ReachedIsPublished
    BY <1>8, PhasesDiffer DEF EditsAlone, ReachedIsPublished
  <2> QED
    BY <1>10, <2>1, <2>2 DEF OneEditInv
<1> QED
  BY <1>7, <1>9, <1>11

\* The phases of the one edit, on any number of daemons.
LEMMA EditPhases ==
    ASSUME LocalOnly, MaxVersion >= 1
    PROVE  EditedOnceSpec => [](TypeOK /\ RowInv /\ OneEditInv)
<1> DEFINE Inv == TypeOK /\ RowInv /\ OneEditInv
<1>1. SettledInit([p \in Peers |-> 1]) => Inv
  BY SettledStart
<1>2. Inv /\ [EditedOnceNext]_vars => Inv'
  <2> SUFFICES ASSUME Inv, [EditedOnceNext]_vars PROVE Inv'
    OBVIOUS
  <2>1. TypeOK'
    <3>1. [Next]_vars
      BY DEF EditedOnceNext, Next, UserStep
    <3> QED
      BY <3>1, TypeStep
  <2>2. CASE EditedOnceNext
    <3>1. PICK p \in Peers : EditedOnceStep(p)
      BY <2>2 DEF EditedOnceNext, EditedOnceStep
    <3> QED
      BY <2>1, <3>1, EditedOnceFrame, OneEditStep
  <2>3. CASE UNCHANGED vars
    <3>1. RowInv'
      BY <2>3 DEF vars, RowInv, RowOf
    <3>2. /\ UNCHANGED <<row, state, ih, seq, birth, disk, nver, partial, tfile, handle, net>>
          /\ UNCHANGED <<watched, switching, task, fsq, fsstat, rebuilt, deferred, status,
                         indexing>>
      BY <2>3 DEF vars
    <3>3. \A p \in Peers : /\ Old(p)' <=> Old(p)
                           /\ Asked(p)' <=> Asked(p)
                           /\ Complete(p)' <=> Complete(p)
                           /\ Fetching(p)' <=> Fetching(p)
                           /\ Pending(p)' <=> Pending(p)
      BY <3>2 DEF Old, Asked, Resting, Complete, Rebuilding, Switched, Fetching, Pending
    <3>4. \A p \in Peers : (Editing(p)' <=> Editing(p)) /\ (Serving(p)' <=> Serving(p))
      BY <3>2, <3>3 DEF Editing, Serving
    <3>5. Published' <=> Published
      BY <3>2 DEF Published
    <3>6. OneEditInv'
      BY <3>2, <3>3, <3>4, <3>5 DEF OneEditInv, AllPhased, Phased, EditsAlone,
         ReachedIsPublished, TwoBorn, PacketsTell
    <3> QED
      BY <2>1, <3>1, <3>6
  <2> QED
    BY <2>2, <2>3
<1> QED
  BY <1>1, <1>2, PTL DEF EditedOnceSpec

\* The row's info_hash is libtorrent's: while one edit spreads through a local-only
\* share, a daemon whose switch or rebuild is over never names a version that its
\* torrent is not (set_share_state after the pool thread's add or rebuild).
THEOREM EditRowMatchesHandle ==
    ASSUME LocalOnly, MaxVersion >= 1
    PROVE  EditedOnceSpec => []RowMatchesHandle
<1>1. TypeOK /\ OneEditInv => RowMatchesHandle
  <2> SUFFICES ASSUME OneEditInv, NEW p \in Peers, Quiet(p), handle[p] # NoHandle
               PROVE  ih[p] = handle[p].ih
    BY DEF RowMatchesHandle
  <2>1. ~Editing(p)
    BY IdleFields DEF Editing, Pending, Quiet
  <2> QED
    BY <2>1 DEF OneEditInv, AllPhased, Phased, Old, Asked, Resting, Serving, Fetching
<1> QED
  BY <1>1, EditPhases, PTL

\* Once the download is seen to be done and the directory is indexed, the watcher
\* is running: no daemon seeds an unwatched directory when it comes to rest.
THEOREM EditSeedingIsWatched ==
    ASSUME LocalOnly, MaxVersion >= 1
    PROVE  EditedOnceSpec => []SeedingIsWatched
<1>1. TypeOK /\ OneEditInv => SeedingIsWatched
  <2> SUFFICES ASSUME OneEditInv, NEW p \in Peers, Quiet(p), state[p] = "seeding"
               PROVE  watched[p]
    BY DEF SeedingIsWatched
  <2> QED
    BY DEF OneEditInv, AllPhased, Phased, Old, Asked, Editing, Serving, Complete, Fetching, Quiet
<1> QED
  BY <1>1, EditPhases, PTL

\* No daemon hashes a directory that a download has half written and publishes it:
\* the watcher is off from the switch to the index of the finished download.
THEOREM EditNoPartialPublished ==
    ASSUME LocalOnly, MaxVersion >= 1
    PROVE  EditedOnceSpec => []NoPartialPublished
<1>1. TypeOK /\ OneEditInv => NoPartialPublished
  <2> SUFFICES ASSUME TypeOK, OneEditInv, NEW v \in partial PROVE birth[v] = 0
    BY DEF NoPartialPublished
  <2>1. v \in Version /\ v > 2 /\ v \in Nat
    BY DEF TypeOK, Version, OneEditInv, TwoBorn
  <2> QED
    BY <2>1 DEF OneEditInv, TwoBorn
<1> QED
  BY <1>1, EditPhases, PTL

\* The edit is not lost between the watcher, the debounce window and overlapping
\* rebuilds: a seeding daemon at rest publishes what is in its directory.
THEOREM EditLocalChangePublished ==
    ASSUME LocalOnly, MaxVersion >= 1
    PROVE  EditedOnceSpec => []LocalChangePublished
<1>1. TypeOK /\ OneEditInv => LocalChangePublished
  <2> SUFFICES ASSUME OneEditInv, NEW p \in Peers, Quiet(p), state[p] = "seeding"
               PROVE  ih[p] = disk[p]
    BY DEF LocalChangePublished
  <2>1. ~Editing(p)
    BY IdleFields DEF Editing, Pending, Quiet
  <2> QED
    BY <2>1 DEF OneEditInv, AllPhased, Phased, Old, Asked, Resting, Serving, Complete, Fetching
<1> QED
  BY <1>1, EditPhases, PTL

-----------------------------------------------------------------------------
\* No step of a daemon whose directory holds the edit changes that directory.
LEMMA EditStays ==
    ASSUME TypeOK, LocalOnly, OneEditInv, NEW p \in Peers, EditedOnceStep(p), disk[p] = 2
    PROVE  disk'[p] = 2
<1>1. /\ row[p] /\ seq[p] \in Nat /\ nver \in Nat
      /\ Editing(p) \/ Serving(p) \/ Fetching(p)
  <2>1. row[p] /\ seq[p] \in Nat /\ nver \in Nat
    BY DEF TypeOK, OneEditInv, AllPhased
  <2>2. ~Old(p) /\ ~Asked(p)
    BY DEF Old, Asked, Resting
  <2> QED
    BY <2>1, <2>2 DEF OneEditInv, AllPhased, Phased
<1>2. /\ nver >= 2
      /\ Serving(p) \/ Fetching(p) => Published
      /\ Editing(p) => ~Published
  BY <1>1 DEF OneEditInv, EditsAlone, ReachedIsPublished, TwoBorn
<1>3. CASE AnnounceLan(p)
  BY <1>3 DEF AnnounceLan
<1>4. ASSUME NEW q \in Peers \cup Outsiders, NEW m \in net[q], ReceiveLan(p, q, m)
      PROVE  disk'[p] = 2
  <2>1. m.seq \in Nat
    BY DEF TypeOK, Packet
  <2>2. m.ih # NoHash /\ ih[p] # NoHash /\ (m.ih = ih[p] \/ m.seq < seq[p])
    BY <1>1, <1>2, <2>1 DEF OneEditInv, PacketsTell, Editing, Serving, Fetching
  <2> QED
    BY <1>4, <2>1, <2>2, ReceivesOld
<1>5. CASE Fetching(p) /\ ~AnnounceLan(p)
           /\ ((\E k \in Slots : TaskStep(p, k)) \/ LoopStep(p) \/ Transfer(p))
  <2>1. ~Transfer(p)
    BY <1>5 DEF Fetching, Transfer, LtMetadata, LtFinish
  <2> QED
    BY <1>1, <1>2, <1>5, <2>1, FetchingTask, FetchingLoop
<1>6. CASE Complete(p) /\ ~AnnounceLan(p)
           /\ ((\E k \in Slots : TaskStep(p, k)) \/ LoopStep(p) \/ Transfer(p))
  BY <1>1, <1>6, CompleteTask, CompleteLoop, CompleteTransfer DEF Kept, Rebuilt, Complete
<1>7. \A q : ~ReceiveReg(p, q)
  BY DEF ReceiveReg
<1>8. ~(nver = 1 /\ UserEdit(p))
  BY <1>1, <1>2
<1>9. Complete(p) \/ Fetching(p)
  BY <1>1 DEF Editing, Serving
<1> QED
  BY <1>3, <1>4, <1>5, <1>6, <1>7, <1>8, <1>9 DEF EditedOnceStep, Receive

\* No step of any daemon takes the edit out of a directory that holds it.
EditNeverLost == [][\A p \in Peers : disk[p] = 2 => disk'[p] = 2]_vars

\* The switch to a remote version, with its rename of conflicting files and its
\* download over the directory, never destroys the edit where it already is.
THEOREM EditKept ==
    ASSUME LocalOnly, MaxVersion >= 1
    PROVE  EditedOnceSpec => EditNeverLost
<1> DEFINE Inv == TypeOK /\ RowInv /\ OneEditInv
           Keep == \A p \in Peers : disk[p] = 2 => disk'[p] = 2
<1>1. Inv /\ [EditedOnceNext]_vars => [Keep]_vars
  <2> SUFFICES ASSUME Inv, EditedOnceNext, NEW q \in Peers, disk[q] = 2
               PROVE  disk'[q] = 2
    OBVIOUS
  <2>1. PICK p \in Peers : EditedOnceStep(p)
    BY DEF EditedOnceNext, EditedOnceStep
  <2>2. Elsewhere(p)
    BY <2>1, EditedOnceFrame
  <2> QED
    BY <2>1, <2>2, EditStays DEF Elsewhere, Frame
<1>2. EditedOnceSpec => [][EditedOnceNext]_vars
  BY DEF EditedOnceSpec
<1> QED
  BY <1>1, <1>2, EditPhases, PTL DEF EditNeverLost
====
