------------------------- MODULE FileWatcherProofs -------------------------
(***************************************************************************)
(* Proofs about the way of a change from the directory to the rebuild      *)
(* request and into the file index, for any directories and names and any  *)
(* number of changes, timers and batches.                                  *)
(***************************************************************************)
EXTENDS FileWatcher, SequenceTheorems, TLAPS

USE DEF shareVars, handlerVars, loopVars, Op

Batch == [todo : SUBSET Event, again : BOOLEAN]

-----------------------------------------------------------------------------
(* The inductive invariants *)

\* A stat belongs to a handler, and what it found is a file of the share.
StatInv ==
    /\ handling = NotHandling => found = "none"
    /\ found = "file" => Target(handling) \in Paths

TypeInv == TypeOK /\ StatInv

\* What has not reached its deadline has a timer of its own.
TimedInv ==
    /\ \A x \in pending : ~x.due => timer
    /\ PendingIsTimed

\* Handled now, this event or entry would request a rebuild.
Carries(e) == e.type \in {"deleted", "moved"} \/ e.path \in disk

\* So would what becomes of this report.
ReportCarries(r) ==
    /\ r.type # "dir_deleted"
    /\ r.type = "dir_moved" => FilesOf(r.dest) # {}
    /\ r.type \in {"created", "modified"} => r.path \in disk

\* The handler that waits for its stat will request a rebuild.
HandlerCarries ==
    /\ handling # NotHandling
    /\ \/ found = "file" \/ handling.type = "moved"
       \/ found = "none" /\ Target(handling) \in disk

\* An event of type t about file p is on its way from the table to the loop.
OnItsWay(t, p) ==
    \/ \E x \in pending : x.type = t /\ x.path = p
    \/ \E i \in 1..Len(batches) : \E e \in batches[i].todo : e.type = t /\ e.path = p
    \/ \E i \in 1..Len(queue) : queue[i].type = t /\ queue[i].path = p

\* The change that came last is always carried: a report that overtakes it would
\* be a later change.  Only behind the last report may an event be without
\* effect, and then another one is not.
Behind ==
    \/ \E t \in {"deleted", "moved"}, p \in Paths : OnItsWay(t, p)
    \/ \E t \in ChangeType, p \in disk : OnItsWay(t, p)
    \/ HandlerCarries

Carried ==
    IF raw # <<>> THEN ReportCarries(raw[Len(raw)])
    ELSE IF walk # {} THEN \A x \in walk : Carries(x)
    ELSE Behind

ChangeInv == dirty = {"file"} => watched /\ share = "seeding" /\ Carried

\* Report r is about file p, and e takes p out of the index.
Concerns(r, p) == r.type \in ChangeType /\ r.path = p
Removes(e, p) == e.type \in {"deleted", "moved"} /\ e.path = p

\* The last report about p takes it away.
RemovalReported(p) ==
    \E i \in 1..Len(raw) : /\ Removes(raw[i], p)
                           /\ \A j \in (i + 1)..Len(raw) : ~Concerns(raw[j], p)

\* The removal of p is on its way, and nothing on its way will undo it.
Removal(p) ==
    IF \E i \in 1..Len(raw) : Concerns(raw[i], p) THEN RemovalReported(p)
    ELSE IF \E x \in walk : x.path = p THEN \A x \in walk : x.path = p => Removes(x, p)
    ELSE \E t \in {"deleted", "moved"} : OnItsWay(t, p)

\* p is in the index or about to be.
Listed(p) == p \in index \/ (found = "file" /\ p = Target(handling))

IndexInv ==
    ~blind => /\ watched /\ share = "seeding" /\ ~indexing
              /\ \A p \in Paths : p[1] = Root /\ Listed(p) /\ p \notin disk
                                     => Removal(p)

-----------------------------------------------------------------------------
(* Types *)

\* RemoveAt keeps every element but the one it removes.
LEMMA RemoveAtKeeps ==
    ASSUME NEW S, NEW s \in Seq(S), NEW i \in 1..Len(s)
    PROVE  /\ RemoveAt(s, i) \in Seq(S)
           /\ \A j \in 1..Len(s) : j # i =>
                 \E k \in 1..Len(RemoveAt(s, i)) : RemoveAt(s, i)[k] = s[j]
<1> DEFINE a == SubSeq(s, 1, i - 1)
           b == SubSeq(s, i + 1, Len(s))
<1>1. /\ a \in Seq(S) /\ Len(a) = i - 1
      /\ \A k \in 1..(i - 1) : a[k] = s[k]
  OBVIOUS
<1>2. /\ b \in Seq(S) /\ Len(b) = Len(s) - i
      /\ \A k \in 1..(Len(s) - i) : b[k] = s[i + k]
  OBVIOUS
<1>3. RemoveAt(s, i) = a \o b
  BY DEF RemoveAt
<1> HIDE DEF a, b
<1>4. /\ a \o b \in Seq(S) /\ Len(a \o b) = Len(s) - 1
      /\ \A k \in 1..(i - 1) : (a \o b)[k] = s[k]
      /\ \A k \in 1..(Len(s) - i) : (a \o b)[(i - 1) + k] = s[i + k]
  <2>1. /\ a \o b \in Seq(S) /\ Len(a \o b) = Len(a) + Len(b)
        /\ \A k \in 1..(Len(a) + Len(b)) :
              (a \o b)[k] = IF k <= Len(a) THEN a[k] ELSE b[k - Len(a)]
    BY <1>1, <1>2, ConcatProperties
  <2>2. ASSUME NEW k \in 1..(Len(s) - i)
        PROVE  (a \o b)[(i - 1) + k] = s[i + k]
    <3>1. (i - 1) + k \in 1..(Len(a) + Len(b)) /\ ~((i - 1) + k <= Len(a))
          /\ (i - 1) + k - Len(a) = k
      BY <1>1, <1>2
    <3> QED
      BY <1>2, <2>1, <3>1
  <2> QED
    BY <1>1, <1>2, <2>1, <2>2
<1>5. ASSUME NEW j \in 1..Len(s), j # i
      PROVE  \E k \in 1..Len(a \o b) : (a \o b)[k] = s[j]
  <2>1. CASE j < i
    BY <1>4, <2>1
  <2>2. CASE j > i
    <3>1. j - i \in 1..(Len(s) - i) /\ i + (j - i) = j /\ (i - 1) + (j - i) = j - 1
      BY <2>2
    <3>2. (a \o b)[(i - 1) + (j - i)] = s[i + (j - i)]
      BY <1>4, <3>1
    <3>3. (a \o b)[j - 1] = s[j] /\ j - 1 \in 1..Len(a \o b)
      BY <1>4, <2>2, <3>1, <3>2
    <3> QED
      BY <3>3
  <2> QED
    BY <1>5, <2>1, <2>2
<1> QED
  BY <1>3, <1>4, <1>5

\* Append and Tail keep the elements of a sequence.
LEMMA AppendKeeps ==
    ASSUME NEW S, NEW s \in Seq(S), NEW e \in S
    PROVE  /\ Append(s, e) \in Seq(S) /\ Append(s, e) # <<>>
           /\ Len(Append(s, e)) = Len(s) + 1
           /\ Append(s, e)[Len(s) + 1] = e
           /\ \A i \in 1..Len(s) : /\ i \in 1..Len(Append(s, e))
                                   /\ Append(s, e)[i] = s[i]
  OBVIOUS

LEMMA TailKeeps ==
    ASSUME NEW S, NEW s \in Seq(S), s # <<>>
    PROVE  /\ Tail(s) \in Seq(S) /\ Head(s) = s[1] /\ Len(Tail(s)) = Len(s) - 1
           /\ \A i \in 1..Len(Tail(s)) : Tail(s)[i] = s[i + 1]
           /\ \A i \in 1..Len(s) : i # 1 =>
                 i - 1 \in 1..Len(Tail(s)) /\ Tail(s)[i - 1] = s[i]
  OBVIOUS

\* A report makes entries, entries make events.
LEMMA ExpandType ==
    ASSUME disk \subseteq Paths, NEW r \in Event \cup DirEvent
    PROVE  Expand(r) \subseteq Entry
<1>1. CASE r \in Event
  <2>1. r.type \in ChangeType /\ Fresh(r.type, r.path, r.dest) \in Entry
    BY <1>1 DEF Event, Entry, Fresh
  <2>2. Expand(r) = {Fresh(r.type, r.path, r.dest)}
    BY <2>1 DEF Expand, ChangeType
  <2> QED
    BY <2>1, <2>2
<1>2. CASE r \in DirEvent
  <2>1. ASSUME NEW q \in FilesOf(r.dest)
        PROVE  Fresh("moved", <<r.path, q[2]>>, q) \in Entry
    <3>1. q \in Paths /\ <<r.path, q[2]>> \in Paths
      BY <1>2 DEF FilesOf, DirEvent, Paths
    <3> QED
      BY <3>1 DEF Fresh, Entry, ChangeType
  <2> QED
    BY <1>2, <2>1 DEF Expand, DirEvent
<1> QED
  BY <1>1, <1>2

LEMMA EventsType ==
    ASSUME NEW S \in SUBSET Entry
    PROVE  EventsOf(S) \subseteq Event
  BY DEF EventsOf, Report, Entry, Event

\* A batch that a flush or a dropped handler leaves is a batch.
LEMMA BatchType ==
    ASSUME batches \in Seq(Batch), NEW S \in SUBSET Entry, NEW b \in BOOLEAN
    PROVE  Append(batches, [todo |-> EventsOf(S), again |-> b]) \in Seq(Batch)
<1>1. [todo |-> EventsOf(S), again |-> b] \in Batch
  BY EventsType DEF Batch
<1> QED
  BY <1>1

\* What the reports of the directory look like.
LEMMA ReportType ==
    /\ \A t \in ChangeType : \A q \in Paths : Report(t, q, NoPath) \in Event
    /\ \A q, q2 \in Paths : Report("moved", q, q2) \in Event
    /\ \A d, e \in Dirs : Report("dir_moved", d, e) \in DirEvent
    /\ \A d \in Dirs : Report("dir_deleted", d, NoPath) \in DirEvent
  BY DEF Report, Event, DirEvent, ChangeType

\* The initial state is typed.
LEMMA TypeInit == Init => TypeInv
<1> SUFFICES ASSUME Init PROVE TypeInv
  OBVIOUS
<1>1. disk \subseteq Paths /\ index \subseteq Paths
  BY FileWatcherAssumption DEF Init, Paths
<1>2. /\ raw \in Seq(Event \cup DirEvent) /\ queue \in Seq(Event)
      /\ batches \in Seq([todo : SUBSET Event, again : BOOLEAN])
  BY DEF Init
<1>3. ops \in 0..MaxOps
  BY FileWatcherAssumption DEF Init
<1>4. StatInv
  BY DEF Init, StatInv
<1> QED
  BY <1>1, <1>2, <1>3, <1>4 DEF Init, TypeInv, TypeOK

LEMMA UserChangeType == TypeOK /\ UserChange => TypeOK'
<1> SUFFICES ASSUME TypeOK, UserChange PROVE TypeOK'
  OBVIOUS
<1>1. \E k \in {"file", "dir_out"}, e \in Event \cup DirEvent : Changed(k, e)
  BY ReportType DEF UserChange, TypeOK, ChangeType
<1>2. raw' \in Seq(Event \cup DirEvent) /\ dirty' \subseteq {"file", "dir_out", "paused"}
  BY <1>1 DEF Changed, TypeOK
<1>3. disk' \subseteq Paths /\ ops' = ops + 1 /\ ops < MaxOps
  <2>1. ASSUME NEW d \in Dirs, NEW e \in Dirs
        PROVE  {IF q[1] = d THEN <<e, q[2]>> ELSE q : q \in disk} \subseteq Paths
    BY DEF TypeOK, Paths
  <2> QED
    BY <2>1 DEF UserChange, TypeOK
<1> QED
  BY <1>2, <1>3, FileWatcherAssumption DEF UserChange, TypeOK

LEMMA HandlerType ==
    TypeOK /\ (Dispatch \/ (\E e \in walk : Debounce(e)) \/ TimerFires \/ Flush)
        => TypeOK'
<1>1. ASSUME TypeOK, Dispatch PROVE TypeOK'
  <2>1. Head(raw) \in Event \cup DirEvent /\ Tail(raw) \in Seq(Event \cup DirEvent)
    BY <1>1 DEF Dispatch, TypeOK
  <2>2. walk' \subseteq Entry
    BY <1>1, <2>1, ExpandType DEF Dispatch, TypeOK
  <2> QED
    BY <1>1, <2>1, <2>2 DEF Dispatch, TypeOK
<1>2. ASSUME TypeOK, NEW e \in walk, Debounce(e) PROVE TypeOK'
  BY <1>2 DEF Debounce, TypeOK
<1>3. ASSUME TypeOK, TimerFires PROVE TypeOK'
  <2>1. \A x \in Entry : [x EXCEPT !.due = TRUE] \in Entry
    BY DEF Entry
  <2>2. pending' \subseteq Entry
    BY <1>3, <2>1 DEF TimerFires, TypeOK
  <2> QED
    BY <1>3, <2>2 DEF TimerFires, TypeOK
<1>4. ASSUME TypeOK, Flush PROVE TypeOK'
  <2>1. batches \in Seq(Batch) /\ Due \in SUBSET Entry
    BY <1>4 DEF TypeOK, Batch, Due
  <2>2. batches' \in Seq(Batch) /\ timer' \in BOOLEAN
    BY <1>4, <2>1, BatchType DEF Flush, TypeOK
  <2> QED
    BY <1>4, <2>2 DEF Flush, TypeOK, Batch
<1> QED
  BY <1>1, <1>2, <1>3, <1>4

LEMMA EmitType ==
    ASSUME TypeOK, NEW i \in 1..Len(batches), Emit(i)
    PROVE  TypeOK'
<1>batches. batches \in Seq(Batch)
  BY DEF TypeOK, Batch
<1>batch. batches[i] \in Batch
  BY <1>batches
<1>1. batches[i].todo \subseteq Event /\ batches[i].again \in BOOLEAN
  BY <1>batch DEF Batch
<1>2. PICK e \in batches[i].todo :
        /\ queue' = Append(queue, e)
        /\ \/ /\ batches' = RemoveAt(batches, i)
              /\ timer' = (timer \/ batches[i].again)
           \/ /\ batches' = [batches EXCEPT ![i].todo = @ \ {e}]
              /\ UNCHANGED timer
  BY DEF Emit
<1>3. queue' \in Seq(Event) /\ timer' \in BOOLEAN
  BY <1>1, <1>2 DEF TypeOK
<1>4. batches' \in Seq(Batch)
  <2>1. RemoveAt(batches, i) \in Seq(Batch)
    BY <1>batches, RemoveAtKeeps
  <2> DEFINE b == [batches[i] EXCEPT !.todo = @ \ {e}]
  <2>2. b \in Batch
    BY <1>batch, <1>1 DEF Batch
  <2>3. batches' = RemoveAt(batches, i) \/ batches' = [batches EXCEPT ![i] = b]
    BY <1>2
  <2> HIDE DEF b
  <2>4. [batches EXCEPT ![i] = b] \in Seq(Batch)
    BY <1>batches, <2>2
  <2> QED
    BY <2>1, <2>3, <2>4
<1> QED
  BY <1>3, <1>4 DEF Emit, TypeOK, Batch

LEMMA LoopType == TypeInv /\ (HandleEvent \/ StatFile \/ HandleEnds) => TypeInv'
<1> USE DEF TypeInv
<1>1. ASSUME TypeInv, HandleEvent PROVE TypeInv'
  <2>1. Head(queue) \in Event /\ Tail(queue) \in Seq(Event)
    BY <1>1 DEF HandleEvent, TypeOK
  <2>2. TypeOK'
    BY <1>1, <2>1 DEF HandleEvent, TypeOK, DeleteFile, RequestRebuild
  <2>3. found = "none" /\ found' = found
    BY <1>1 DEF HandleEvent, StatInv
  <2> QED
    BY <2>2, <2>3 DEF StatInv
<1>2. ASSUME TypeInv, StatFile PROVE TypeInv'
  <2>1. TypeOK'
    BY <1>2 DEF StatFile, TypeOK
  <2>2. StatInv'
    BY <1>2 DEF StatFile, TypeOK, StatInv, Target
  <2> QED
    BY <2>1, <2>2
<1>3. ASSUME TypeInv, HandleEnds PROVE TypeInv'
  <2>1. index' \subseteq Paths
    BY <1>3 DEF HandleEnds, TypeOK, UpsertFile, StatInv
  <2>2. TypeOK'
    BY <1>3, <2>1 DEF HandleEnds, TypeOK, RequestRebuild
  <2> QED
    BY <1>3, <2>2 DEF HandleEnds, StatInv
<1> QED
  BY <1>1, <1>2, <1>3

\* The steps of downloads, pauses and resumptions.
ShareStep ==
    \/ Switch \/ (\E p \in Paths : Download(p)) \/ DownloadDone \/ IndexLocalFiles
    \/ PauseShare \/ ResumeShare

LEMMA ShareStepType == TypeOK /\ ShareStep => TypeOK'
<1>1. ASSUME TypeOK, Switch \/ PauseShare PROVE TypeOK'
  <2>1. Unwatch
    BY <1>1 DEF Switch, PauseShare
  <2>2. batches \in Seq(Batch) /\ pending \cup walk \in SUBSET Entry
    BY <1>1 DEF TypeOK, Batch
  <2>3. batches' \in Seq(Batch)
    BY <2>1, <2>2, BatchType DEF Unwatch
  <2>4. /\ walk' = {} /\ pending' = {} /\ timer' = FALSE /\ firing' = FALSE
        /\ watched' = FALSE /\ blind' = TRUE
    BY <2>1 DEF Unwatch
  <2>5. /\ share' \in {"seeding", "syncing", "paused"}
        /\ dirty' \subseteq {"file", "dir_out", "paused"}
        /\ ops' = ops + 1 /\ ops < MaxOps
        /\ UNCHANGED <<disk, index, indexing, raw, queue, handling, found>>
    BY <1>1 DEF Switch, PauseShare
  <2>6. ops' \in 0..MaxOps
    BY <1>1, <2>5, FileWatcherAssumption DEF TypeOK
  <2>7. batches' \in Seq([todo : SUBSET Event, again : BOOLEAN])
    BY <2>3 DEF Batch
  <2> QED
    BY <1>1, <2>4, <2>5, <2>6, <2>7, Zenon DEF TypeOK
<1>2. ASSUME TypeOK, NEW p \in Paths, Download(p) PROVE TypeOK'
  <2>1. PICK type \in {"created", "deleted"} : Changed("file", Report(type, p, NoPath))
    BY <1>2 DEF Download
  <2>2. Report(type, p, NoPath) \in Event
    BY ReportType DEF ChangeType
  <2>3. raw' \in Seq(Event \cup DirEvent) /\ dirty' = dirty
    BY <1>2, <2>1, <2>2 DEF Download, Changed, TypeOK
  <2>4. disk' \subseteq Paths /\ ops' \in 0..MaxOps
    BY <1>2, FileWatcherAssumption DEF Download, Op, TypeOK
  <2>5. UNCHANGED <<index, shareVars, watched, walk, handlerVars, batches, loopVars, blind>>
    BY <1>2 DEF Download
  <2> QED
    BY <1>2, <2>3, <2>4, <2>5 DEF TypeOK
<1>3. ASSUME TypeOK, DownloadDone PROVE TypeOK'
  BY <1>3 DEF DownloadDone, TypeOK
<1>4. ASSUME TypeOK, IndexLocalFiles PROVE TypeOK'
  BY <1>4 DEF IndexLocalFiles, Watch, TypeOK
<1>5. ASSUME TypeOK, ResumeShare PROVE TypeOK'
  BY <1>5 DEF ResumeShare, Watch, TypeOK
<1> QED
  BY <1>1, <1>2, <1>3, <1>4, <1>5 DEF ShareStep

LEMMA TypeStep == TypeInv /\ [Next]_vars => TypeInv'
<1> SUFFICES ASSUME TypeInv, [Next]_vars PROVE TypeInv'
  OBVIOUS
<1>0. CASE UNCHANGED vars
  BY <1>0 DEF vars, TypeInv, TypeOK, StatInv, Target
<1>1. CASE HandleEvent \/ StatFile \/ HandleEnds
  BY <1>1, LoopType
<1>2. CASE \/ UserChange \/ Dispatch \/ (\E e \in walk : Debounce(e))
           \/ TimerFires \/ Flush \/ (\E i \in 1..Len(batches) : Emit(i))
           \/ ShareStep
  <2>1. TypeOK'
    BY <1>2, UserChangeType, HandlerType, EmitType, ShareStepType DEF TypeInv
  <2>2. UNCHANGED <<handling, found>>
    BY <1>2 DEF UserChange, Dispatch, Debounce, TimerFires, Flush, Emit, ShareStep,
                Switch, Download, DownloadDone, IndexLocalFiles, PauseShare,
                ResumeShare
  <2> QED
    BY <2>1, <2>2 DEF TypeInv, StatInv, Target
<1> QED
  BY <1>0, <1>1, <1>2 DEF Next, ShareStep

\* Type correctness of watcher, handler and loop.
THEOREM TypeCorrect == Spec => []TypeOK
  BY TypeInit, TypeStep, PTL DEF Spec, TypeInv

-----------------------------------------------------------------------------
(* Timers *)

LEMMA TimedStep == TypeInv /\ TimedInv /\ [Next]_vars => TimedInv'
<1> SUFFICES ASSUME TypeInv, TimedInv, [Next]_vars PROVE TimedInv'
  OBVIOUS
<1> USE DEF TimedInv, PendingIsTimed
<1>0. CASE UNCHANGED <<pending, timer, firing>>
  BY <1>0
<1>1. ASSUME NEW e \in walk, Debounce(e) PROVE TimedInv'
  BY <1>1 DEF Debounce
<1>2. CASE TimerFires
  <2>1. \A x \in pending' : x.due
    BY <1>2 DEF TimerFires, TypeInv, TypeOK, Entry
  <2> QED
    BY <1>2, <2>1 DEF TimerFires
<1>3. CASE Flush
  <2>1. /\ \A x \in pending' : x \in pending /\ ~x.due
        /\ timer => timer'
    BY <1>3 DEF Flush, Due
  <2> QED
    BY <2>1
<1>4. ASSUME NEW i \in 1..Len(batches), Emit(i) PROVE TimedInv'
  <2>1. UNCHANGED <<pending, firing>> /\ (timer => timer')
    BY <1>4 DEF Emit
  <2> QED
    BY <2>1
<1>5. CASE Switch \/ PauseShare
  BY <1>5 DEF Switch, PauseShare, Unwatch
<1> QED
  BY <1>0, <1>1, <1>2, <1>3, <1>4, <1>5
     DEF Next, vars, UserChange, Dispatch, HandleEvent, StatFile, HandleEnds,
         Download, DownloadDone, IndexLocalFiles, ResumeShare

\* Whatever fires, flushes and reschedules in which order: no entry of the
\* debounce table is left without a timer.
THEOREM EntriesAreTimed == Spec => []PendingIsTimed
<1>1. Init => TimedInv
  BY DEF Init, TimedInv, PendingIsTimed
<1>2. TimedInv => PendingIsTimed
  BY DEF TimedInv
<1> QED
  BY <1>1, <1>2, TypeInit, TypeStep, TimedStep, PTL DEF Spec

-----------------------------------------------------------------------------
(* No change is lost *)

\* The report of a change to files carries it.
LEMMA UserCarries ==
    ASSUME TypeInv, ChangeInv, UserChange, dirty' = {"file"}
    PROVE  ChangeInv'
<1>1. PICK k \in {"file", "dir_out"}, e \in Event \cup DirEvent :
          Changed(k, e) /\ (k = "file" => ReportCarries(e)')
  <2> SUFFICES \E k \in {"file", "dir_out"}, e \in Event \cup DirEvent :
                  Changed(k, e) /\ (k = "file" => ReportCarries(e)')
    OBVIOUS
  <2> USE DEF TypeInv, TypeOK
  <2>1. CASE \E p \in Paths \ disk :
               /\ disk' = disk \cup {p}
               /\ Changed("file", Report("created", p, NoPath))
    BY <2>1, ReportType DEF ReportCarries, Report, ChangeType
  <2>2. CASE \E p \in disk : /\ UNCHANGED disk
                             /\ Changed("file", Report("modified", p, NoPath))
    BY <2>2, ReportType DEF ReportCarries, Report, ChangeType
  <2>3. CASE \E p \in disk : Changed("file", Report("deleted", p, NoPath))
    BY <2>3, ReportType DEF ReportCarries, Report, ChangeType
  <2>4. CASE \E p \in disk, q \in Paths \ disk : Changed("file", Report("moved", p, q))
    BY <2>4, ReportType DEF ReportCarries, Report, ChangeType
  <2>5. CASE \E d, e \in Dirs \ {Root} :
               /\ FilesOf(d) # {}
               /\ disk' = {IF p[1] = d THEN <<e, p[2]>> ELSE p : p \in disk}
               /\ Changed("file", Report("dir_moved", d, e))
    <3>1. PICK d \in Dirs, e \in Dirs :
               /\ FilesOf(d) # {}
               /\ disk' = {IF p[1] = d THEN <<e, p[2]>> ELSE p : p \in disk}
               /\ Changed("file", Report("dir_moved", d, e))
      BY <2>5
    <3>2. PICK p \in disk : p[1] = d
      BY <3>1 DEF FilesOf
    <3>3. <<e, p[2]>> \in disk' /\ <<e, p[2]>>[1] = e
      BY <3>1, <3>2
    <3>4. FilesOf(e)' # {}
      BY <3>3 DEF FilesOf
    <3> DEFINE r == Report("dir_moved", d, e)
    <3>5. r.type = "dir_moved" /\ r.dest = e /\ r \in DirEvent
      BY ReportType DEF Report
    <3> HIDE DEF r
    <3>6. ReportCarries(r)'
      BY <3>4, <3>5 DEF ReportCarries
    <3>7. Changed("file", r)
      BY <3>1 DEF r
    <3> QED
      BY <3>5, <3>6, <3>7
  <2>6. CASE \E d \in Dirs : Changed("dir_out", Report("dir_deleted", d, NoPath))
    BY <2>6, ReportType
  <2> QED
    BY <2>1, <2>2, <2>3, <2>4, <2>5, <2>6 DEF UserChange
<1>2. /\ watched /\ share = "seeding" /\ UNCHANGED <<watched, share>>
      /\ k = "file" /\ raw' = Append(raw, e)
  BY <1>1 DEF UserChange, Changed, ChangeInv
<1>3. raw' # <<>> /\ raw'[Len(raw')] = e
  <2>1. raw \in Seq(Event \cup DirEvent)
    BY DEF TypeInv, TypeOK
  <2> QED
    BY <1>2, <2>1, AppendKeeps
<1> QED
  BY <1>1, <1>2, <1>3 DEF ChangeInv, Carried

\* What the handler makes of a report that carries does.
LEMMA ExpandCarries ==
    ASSUME NEW r \in Event \cup DirEvent, ReportCarries(r)
    PROVE  Expand(r) # {} /\ \A x \in Expand(r) : Carries(x)
<1>1. CASE r.type = "dir_moved"
  <2>1. Expand(r) = {Fresh("moved", <<r.path, q[2]>>, q) : q \in FilesOf(r.dest)}
    BY <1>1 DEF Expand
  <2>2. \A q \in FilesOf(r.dest) : Carries(Fresh("moved", <<r.path, q[2]>>, q))
    BY DEF Fresh, Carries
  <2> QED
    BY <1>1, <2>1, <2>2 DEF ReportCarries
<1>2. CASE r.type # "dir_moved"
  <2>1. r.type \in ChangeType
    BY <1>2 DEF ReportCarries, Event, DirEvent, ChangeType
  <2>2. Expand(r) = {Fresh(r.type, r.path, r.dest)}
    BY <2>1 DEF Expand, ChangeType
  <2> QED
    BY <2>1, <2>2 DEF Fresh, Carries, ReportCarries, ChangeType
<1> QED
  BY <1>1, <1>2

\* The watchdog thread hands the change on.
LEMMA DispatchCarries ==
    ASSUME TypeInv, dirty = {"file"}, watched, Carried, Dispatch
    PROVE  Carried'
<1>1. /\ raw # <<>> /\ raw' = Tail(raw) /\ walk' = Expand(Head(raw))
      /\ ReportCarries(raw[Len(raw)]) /\ disk' = disk
  BY DEF Dispatch, Carried
<1>2. raw \in Seq(Event \cup DirEvent)
  BY DEF TypeInv, TypeOK
<1>3. CASE Len(raw) = 1
  <2>1. raw' = <<>> /\ Head(raw) = raw[Len(raw)] /\ Head(raw) \in Event \cup DirEvent
    BY <1>1, <1>2, <1>3
  <2>2. walk' # {} /\ \A x \in walk' : Carries(x)
    BY <1>1, <2>1, ExpandCarries
  <2> QED
    BY <1>1, <2>1, <2>2 DEF Carried, Carries
<1>4. CASE Len(raw) # 1
  <2>1. raw' # <<>> /\ raw'[Len(raw')] = raw[Len(raw)]
    <3>1. Len(raw) \in Nat /\ Len(raw) # 0 /\ Len(raw) # 1
      BY <1>1, <1>2, <1>4
    <3>2. Len(raw) \in 1..Len(raw)
      BY <3>1
    <3>3. Len(Tail(raw)) = Len(raw) - 1 /\ Tail(raw)[Len(raw) - 1] = raw[Len(raw)]
      BY <1>1, <1>2, <3>1, <3>2, TailKeeps
    <3>4. Len(Tail(raw)) # 0 /\ Tail(raw)[Len(Tail(raw))] = raw[Len(raw)]
      BY <3>1, <3>3
    <3>5. Tail(raw) # <<>>
      BY <1>1, <1>2, <3>4, TailKeeps, EmptySeq
    <3> QED
      BY <1>1, <3>4, <3>5
  <2>2. ReportCarries(raw[Len(raw)])'  <=> ReportCarries(raw'[Len(raw')])
    BY <1>1 DEF ReportCarries, FilesOf
  <2> QED
    BY <1>1, <2>1, <2>2 DEF Carried
<1> QED
  BY <1>3, <1>4

\* _debounce drops an event only for one that carries as well.
LEMMA DebounceCarries ==
    ASSUME TypeInv, Carried, NEW e \in walk, Debounce(e)
    PROVE  Carried'
<1>1. UNCHANGED <<raw, disk>> /\ walk' = walk \ {e}
  BY DEF Debounce
<1>2. CASE raw # <<>>
  BY <1>1, <1>2 DEF Carried, ReportCarries, FilesOf
<1>3. CASE raw = <<>>
  <2>1. \A x \in walk : Carries(x)
    BY <1>3 DEF Carried
  <2>2. PICK x \in pending' : Carries(x)
    BY <2>1 DEF Debounce, Carries
  <2>3. x.type \in ChangeType /\ x.path \in Paths
    BY <2>2 DEF Debounce, TypeInv, TypeOK, Entry
  <2>4. OnItsWay(x.type, x.path)'
    BY <2>2 DEF OnItsWay
  <2>5. Behind'
    BY <1>1, <2>2, <2>3, <2>4 DEF Behind, Carries
  <2> QED
    BY <1>1, <1>3, <2>1, <2>5 DEF Carried, Carries
<1> QED
  BY <1>2, <1>3

\* When its deadline comes, an entry stays in the table.
LEMMA TimerKeeps ==
    ASSUME TypeInv, TimerFires, NEW t, NEW p, OnItsWay(t, p)
    PROVE  OnItsWay(t, p)'
<1>1. ASSUME NEW x \in pending, x.type = t, x.path = p
      PROVE  \E y \in pending' : y.type = t /\ y.path = p
  <2> DEFINE y == [x EXCEPT !.due = TRUE]
  <2>1. y \in pending'
    BY DEF TimerFires
  <2>2. y.type = x.type /\ y.path = x.path
    BY DEF TypeInv, TypeOK, Entry
  <2> HIDE DEF y
  <2> QED
    BY <1>1, <2>1, <2>2
<1>2. UNCHANGED <<batches, queue>>
  BY DEF TimerFires
<1> QED
  BY <1>1, <1>2 DEF OnItsWay

\* A flush moves what is due to a batch and leaves the rest.
LEMMA FlushKeeps ==
    ASSUME TypeInv, Flush, NEW t, NEW p, OnItsWay(t, p)
    PROVE  OnItsWay(t, p)'
<1>1. queue' = queue /\ batches \in Seq(Batch)
  BY DEF Flush, TypeInv, TypeOK, Batch
<1> DEFINE b == [todo |-> EventsOf(Due), again |-> pending' # {}]
<1>2. b \in Batch /\ b.todo = EventsOf(Due)
  <2>1. EventsOf(Due) \subseteq Event
    BY EventsType DEF TypeInv, TypeOK, Due
  <2> QED
    BY <2>1 DEF Batch
<1>3. \/ Due = {} /\ batches' = batches /\ pending' = pending
      \/ batches' = Append(batches, b) /\ pending' = pending \ Due
  BY DEF Flush
<1> HIDE DEF b
<1>4. ASSUME NEW x \in Due, x.type = t, x.path = p
      PROVE  OnItsWay(t, p)'
  <2> DEFINE e == Report(x.type, x.path, x.dest)
  <2>1. e \in b.todo /\ e.type = t /\ e.path = p
    BY <1>2, <1>4 DEF EventsOf, Report
  <2> HIDE DEF e
  <2>2. Len(batches) + 1 \in 1..Len(batches') /\ batches'[Len(batches) + 1] = b
    BY <1>1, <1>2, <1>3, AppendKeeps
  <2> QED
    BY <2>1, <2>2 DEF OnItsWay
<1>5. \A i \in 1..Len(batches) : i \in 1..Len(batches') /\ batches'[i] = batches[i]
  BY <1>1, <1>2, <1>3, AppendKeeps
<1> QED
  BY <1>1, <1>3, <1>4, <1>5 DEF OnItsWay

\* An event that crosses the bridge is in the queue, the others of its batch stay.
LEMMA EmitKeeps ==
    ASSUME TypeInv, NEW i \in 1..Len(batches), Emit(i), NEW t, NEW p, OnItsWay(t, p)
    PROVE  OnItsWay(t, p)'
<1>1. pending' = pending /\ batches \in Seq(Batch) /\ queue \in Seq(Event)
  BY DEF Emit, TypeInv, TypeOK, Batch
<1>2. batches[i] \in Batch /\ batches[i].todo \subseteq Event
  <2>1. batches[i] \in Batch
    BY <1>1
  <2> QED
    BY <2>1 DEF Batch
<1>3. PICK e \in batches[i].todo :
        /\ queue' = Append(queue, e)
        /\ \/ batches[i].todo = {e} /\ batches' = RemoveAt(batches, i)
           \/ batches' = [batches EXCEPT ![i].todo = @ \ {e}]
  BY DEF Emit
<1>4. /\ \A j \in 1..Len(queue) : j \in 1..Len(queue') /\ queue'[j] = queue[j]
      /\ \E j \in 1..Len(queue') : queue'[j] = e
  <2>1. e \in Event
    BY <1>2
  <2>2. Len(queue) + 1 \in 1..Len(Append(queue, e))
    BY <1>1, <2>1
  <2> QED
    BY <1>1, <1>3, <2>1, <2>2, AppendKeeps
<1>5. ASSUME NEW j \in 1..Len(batches), NEW x \in batches[j].todo
      PROVE  \/ x = e
             \/ \E k \in 1..Len(batches') : x \in batches'[k].todo
  <2>1. CASE batches[i].todo = {e} /\ batches' = RemoveAt(batches, i)
    <3>1. CASE j = i
      BY <2>1, <3>1
    <3>2. CASE j # i
      <4>1. \E k \in 1..Len(RemoveAt(batches, i)) :
               RemoveAt(batches, i)[k] = batches[j]
        BY <1>1, <3>2, RemoveAtKeeps
      <4> QED
        BY <2>1, <4>1
    <3> QED
      BY <3>1, <3>2
  <2>2. CASE batches' = [batches EXCEPT ![i].todo = @ \ {e}]
    <3> DEFINE b == [batches[i] EXCEPT !.todo = @ \ {e}]
    <3>1. b \in Batch /\ b.todo = batches[i].todo \ {e}
      BY <1>2 DEF Batch
    <3>2. batches' = [batches EXCEPT ![i] = b]
      BY <2>2
    <3> HIDE DEF b
    <3>3. /\ j \in 1..Len(batches')
          /\ batches'[j] = IF j = i THEN b ELSE batches[j]
      BY <1>1, <3>2
    <3> QED
      BY <3>1, <3>3
  <2> QED
    BY <1>3, <2>1, <2>2
<1> QED
  BY <1>1, <1>4, <1>5 DEF OnItsWay

\* So no step of a timer thread loses an event.
LEMMA TimersKeep ==
    ASSUME TypeInv, TimerStep, NEW t, NEW p, OnItsWay(t, p)
    PROVE  OnItsWay(t, p)'
  BY TimerKeeps, FlushKeeps, EmitKeeps DEF TimerStep

\* The loop takes the first event of its queue and leaves the others.
LEMMA LoopKeeps ==
    ASSUME TypeInv, HandleEvent, NEW t, NEW p, OnItsWay(t, p)
    PROVE  OnItsWay(t, p)' \/ (Head(queue).type = t /\ Head(queue).path = p)
<1>1. UNCHANGED <<pending, batches>> /\ queue' = Tail(queue) /\ queue # <<>>
  BY DEF HandleEvent
<1>2. Head(queue) = queue[1] /\ queue \in Seq(Event)
  BY <1>1 DEF TypeInv, TypeOK
<1>3. ASSUME NEW i \in 1..Len(queue), i # 1
      PROVE  i - 1 \in 1..Len(queue') /\ queue'[i - 1] = queue[i]
  BY <1>1, <1>2, <1>3, TailKeeps
<1> QED
  BY <1>1, <1>2, <1>3 DEF OnItsWay

\* A step behind the watchdog thread keeps what carries the change.
LEMMA BehindSuffices ==
    ASSUME UNCHANGED <<raw, walk, disk>>, Carried, Behind => Behind'
    PROVE  Carried'
  BY DEF Carried, ReportCarries, FilesOf, Carries

LEMMA TimersCarry ==
    ASSUME TypeInv, Carried, TimerStep
    PROVE  Carried'
<1>1. UNCHANGED <<raw, walk, disk, handling, found>>
  BY DEF TimerStep, TimerFires, Flush, Emit
<1>2. Behind => Behind'
  BY <1>1, TimersKeep DEF Behind, HandlerCarries, Target
<1> QED
  BY <1>1, <1>2, BehindSuffices

\* The loop takes an event: it requests the rebuild or waits for the stat.
LEMMA HandleEventCarries ==
    ASSUME TypeInv, Carried, share = "seeding", HandleEvent, dirty' # {}
    PROVE  Carried'
<1>1. UNCHANGED <<raw, walk, disk, pending, batches, found>>
  BY DEF HandleEvent
<1>2. queue # <<>> /\ queue \in Seq(Event) /\ queue' = Tail(queue)
  BY DEF HandleEvent, TypeInv, TypeOK
<1>3. /\ handling = NotHandling /\ found = "none"
      /\ Head(queue).type # "deleted" /\ handling' = Head(queue)
  BY DEF HandleEvent, RequestRebuild, TypeInv, StatInv
<1>4. Head(queue) \in Event
  BY <1>2
<1>5. Head(queue) # NotHandling
  BY <1>4 DEF Event, ChangeType, NotHandling
<1>6. Carries(Head(queue)) => HandlerCarries'
  <2>1. Carries(Head(queue)) =>
          handling'.type = "moved" \/ Target(handling') \in disk
    BY <1>3, <1>4 DEF Carries, Target, Event, ChangeType
  <2> QED
    BY <1>1, <1>3, <1>5, <2>1 DEF HandlerCarries, Target
<1>7. Behind => Behind'
  BY <1>1, <1>3, <1>6, LoopKeeps DEF Behind, Carries, HandlerCarries
<1> QED
  BY <1>1, <1>7, BehindSuffices

\* The stat and the end of the handler: only an event whose file is gone again
\* ends without a rebuild.
LEMMA HandlerEndCarries ==
    ASSUME Carried, StatFile \/ HandleEnds, dirty' # {}
    PROVE  Carried'
<1>1. CASE StatFile
  <2>1. /\ UNCHANGED <<raw, walk, disk, pending, batches, queue, handling>>
        /\ found = "none"
        /\ found' = IF Target(handling) \in disk THEN "file" ELSE "missing"
    BY <1>1 DEF StatFile
  <2>2. HandlerCarries => HandlerCarries'
    BY <2>1 DEF HandlerCarries
  <2>3. Behind => Behind'
    BY <2>1, <2>2 DEF Behind, OnItsWay
  <2> QED
    BY <2>1, <2>3, BehindSuffices
<1>2. CASE HandleEnds
  <2>1. UNCHANGED <<raw, walk, disk, pending, batches, queue>>
    BY <1>2 DEF HandleEnds
  <2>2. ~HandlerCarries
    BY <1>2 DEF HandleEnds, RequestRebuild, HandlerCarries
  <2>3. Behind => Behind'
    BY <2>1, <2>2 DEF Behind, OnItsWay
  <2> QED
    BY <2>1, <2>3, BehindSuffices
<1> QED
  BY <1>1, <1>2

LEMMA ChangeStep == TypeInv /\ ChangeInv /\ [Next]_vars => ChangeInv'
<1> SUFFICES ASSUME TypeInv, ChangeInv, [Next]_vars, dirty' = {"file"}
             PROVE  ChangeInv'
  BY DEF ChangeInv
<1>1. CASE UserChange
  BY <1>1, UserCarries
<1>2. CASE Switch \/ PauseShare
  BY <1>2 DEF Switch, PauseShare
<1>3. CASE UNCHANGED vars
  BY <1>3 DEF vars, ChangeInv, Carried, Behind, ReportCarries, Carries, FilesOf,
              HandlerCarries, Target, OnItsWay
<1> SUFFICES ASSUME ~UserChange, ~Switch, ~PauseShare, ~UNCHANGED vars
             PROVE  ChangeInv'
  BY <1>1, <1>2, <1>3
<1>4. Next
  OBVIOUS
<1>5. dirty = {"file"} /\ watched /\ share = "seeding" /\ Carried
  <2>0. \A p \in Paths : Download(p) => dirty' = dirty
    BY DEF Download, Changed
  <2>1. dirty = {"file"}
    BY <1>4, <2>0 DEF Next, Dispatch, Debounce, TimerFires, Flush, Emit, HandleEvent,
                StatFile, HandleEnds, DownloadDone, IndexLocalFiles,
                ResumeShare, RequestRebuild
  <2> QED
    BY <2>1 DEF ChangeInv
<1>6. watched' /\ share' = "seeding"
  BY <1>4, <1>5 DEF Next, Dispatch, Debounce, TimerFires, Flush, Emit, HandleEvent,
                StatFile, HandleEnds, Download, DownloadDone, IndexLocalFiles,
                ResumeShare, Watch
<1>7. Carried'
  <2>1. CASE IndexLocalFiles
    BY <1>5, <2>1 DEF IndexLocalFiles, Carried, Behind, ReportCarries, Carries,
                      FilesOf, HandlerCarries, Target, OnItsWay
  <2>2. CASE \/ DownloadDone \/ ResumeShare \/ \E p \in Paths : Download(p)
    BY <1>5, <2>2 DEF DownloadDone, ResumeShare, Download
  <2>3. dirty' # {}
    OBVIOUS
  <2>4. CASE HandleEvent
    BY <1>5, <2>3, <2>4, HandleEventCarries
  <2>5. CASE StatFile \/ HandleEnds
    BY <1>5, <2>3, <2>5, HandlerEndCarries
  <2>6. CASE Dispatch \/ \E e \in walk : Debounce(e)
    BY <1>5, <2>6, DispatchCarries, DebounceCarries
  <2>7. CASE TimerStep
    BY <1>5, <2>7, TimersCarry
  <2> QED
    BY <1>4, <2>1, <2>2, <2>4, <2>5, <2>6, <2>7 DEF Next, TimerStep
<1> QED
  BY <1>6, <1>7 DEF ChangeInv

\* Debouncing drops events, a flush splits the table, a handler whose file has
\* vanished ends silently: the change is still on its way until a rebuild is
\* requested, whatever the number of files, changes, timers and batches.
THEOREM NoChangeIsLost == Spec => []NoLostChange
<1>1. Init => ChangeInv
  BY DEF Init, ChangeInv
<1>2. TypeInv /\ ChangeInv => NoLostChange
  <2> SUFFICES ASSUME TypeInv, ChangeInv, dirty = {"file"}, raw = <<>>, walk = {}
               PROVE  UnderWay
    BY DEF NoLostChange, UnderWay
  <2>1. Behind
    BY DEF ChangeInv, Carried
  <2>2. batches \in Seq(Batch) /\ queue \in Seq(Event)
    BY DEF TypeInv, TypeOK, Batch
  <2> QED
    BY <2>1, <2>2 DEF Behind, OnItsWay, HandlerCarries, UnderWay
<1> QED
  BY <1>1, <1>2, TypeInit, TypeStep, ChangeStep, PTL DEF Spec

-----------------------------------------------------------------------------
(* No file stays in the index *)

\* A step behind the watchdog thread keeps the removal of a file on its way.
LEMMA RemovalSuffices ==
    ASSUME NEW p, UNCHANGED <<raw, walk>>, Removal(p),
           \A t \in {"deleted", "moved"} : OnItsWay(t, p) => OnItsWay(t, p)'
    PROVE  Removal(p)'
  BY DEF Removal, RemovalReported, Removes, Concerns

\* A change either takes a file of the top directory away and says so, or it
\* says nothing about a file that is not there.
LEMMA UserRemoves ==
    ASSUME TypeInv, UserChange
    PROVE  \E k \in {"file", "dir_out"}, e \in Event \cup DirEvent :
             /\ Changed(k, e)
             /\ \A p \in Paths : p[1] = Root /\ p \notin disk' =>
                   IF p \in disk THEN Removes(e, p) ELSE ~Concerns(e, p)
<1> USE DEF TypeInv, TypeOK
<1> DEFINE Says(e) == \A p \in Paths : p[1] = Root /\ p \notin disk' =>
                         IF p \in disk THEN Removes(e, p) ELSE ~Concerns(e, p)
<1>1. CASE \E p \in Paths \ disk : /\ disk' = disk \cup {p}
                                   /\ Changed("file", Report("created", p, NoPath))
  BY <1>1, ReportType DEF Removes, Concerns, Report, ChangeType
<1>2. CASE \E p \in disk : /\ UNCHANGED disk
                           /\ Changed("file", Report("modified", p, NoPath))
  BY <1>2, ReportType DEF Removes, Concerns, Report, ChangeType
<1>3. CASE \E p \in disk : /\ disk' = disk \ {p}
                           /\ Changed("file", Report("deleted", p, NoPath))
  BY <1>3, ReportType DEF Removes, Concerns, Report, ChangeType
<1>4. CASE \E p \in disk, q \in Paths \ disk :
             /\ disk' = (disk \ {p}) \cup {q}
             /\ Changed("file", Report("moved", p, q))
  BY <1>4, ReportType DEF Removes, Concerns, Report, ChangeType
<1>5. CASE \E d, e \in Dirs \ {Root} :
             /\ disk' = {IF p[1] = d THEN <<e, p[2]>> ELSE p : p \in disk}
             /\ Changed("file", Report("dir_moved", d, e))
  <2>1. PICK d \in Dirs \ {Root}, e \in Dirs \ {Root} :
             /\ disk' = {IF p[1] = d THEN <<e, p[2]>> ELSE p : p \in disk}
             /\ Changed("file", Report("dir_moved", d, e))
    BY <1>5
  <2> DEFINE r == Report("dir_moved", d, e)
  <2>2. r.type = "dir_moved" /\ r \in DirEvent
    BY ReportType DEF Report
  <2>3. \A p \in disk : p[1] = Root => p \in disk'
    BY <2>1
  <2> HIDE DEF r
  <2>4. Says(r)
    BY <2>2, <2>3 DEF Concerns, ChangeType
  <2>5. Changed("file", r)
    BY <2>1 DEF r
  <2> QED
    BY <2>2, <2>4, <2>5
<1>6. CASE \E d \in Dirs \ {Root} :
             /\ disk' = disk \ FilesOf(d)
             /\ Changed("dir_out", Report("dir_deleted", d, NoPath))
  BY <1>6, ReportType DEF Removes, Concerns, Report, ChangeType, FilesOf
<1> QED
  BY <1>1, <1>2, <1>3, <1>4, <1>5, <1>6 DEF UserChange

LEMMA UserRemoval ==
    ASSUME TypeInv, watched, UserChange, NEW p \in Paths, p[1] = Root, p \notin disk',
           p \notin disk => Removal(p)
    PROVE  Removal(p)'
<1>1. PICK k \in {"file", "dir_out"}, e \in Event \cup DirEvent :
        /\ Changed(k, e)
        /\ IF p \in disk THEN Removes(e, p) ELSE ~Concerns(e, p)
  BY UserRemoves
<1>2. raw' = Append(raw, e) /\ UNCHANGED <<walk, pending, batches, queue>>
  BY <1>1 DEF UserChange, Changed
<1>3. /\ raw \in Seq(Event \cup DirEvent) /\ Len(raw) \in Nat
      /\ Len(raw') = Len(raw) + 1 /\ raw'[Len(raw) + 1] = e
      /\ \A i \in 1..Len(raw) : raw'[i] = raw[i]
  BY <1>2, AppendKeeps DEF TypeInv, TypeOK
<1>4. CASE p \in disk
  <2>1. Removes(raw'[Len(raw')], p) /\ Len(raw') \in 1..Len(raw')
    BY <1>1, <1>3, <1>4
  <2>2. RemovalReported(p)'
    BY <1>3, <2>1 DEF RemovalReported
  <2>3. Concerns(raw'[Len(raw')], p)
    BY <2>1 DEF Removes, Concerns, ChangeType
  <2> QED
    BY <2>1, <2>2, <2>3 DEF Removal
<1>5. CASE p \notin disk
  <2>1. ~Concerns(e, p) /\ Removal(p)
    BY <1>1, <1>5
  <2>2. (\E i \in 1..Len(raw') : Concerns(raw'[i], p))
           <=> \E i \in 1..Len(raw) : Concerns(raw[i], p)
    BY <1>3, <2>1
  <2>3. RemovalReported(p) => RemovalReported(p)'
    <3>1. ASSUME NEW i \in 1..Len(raw), Removes(raw[i], p),
                 \A j \in (i + 1)..Len(raw) : ~Concerns(raw[j], p)
          PROVE  RemovalReported(p)'
      <4>1. i \in 1..Len(raw') /\ Removes(raw'[i], p)
        BY <1>3, <3>1
      <4>2. ASSUME NEW j \in (i + 1)..Len(raw') PROVE ~Concerns(raw'[j], p)
        BY <1>3, <2>1, <3>1
      <4> QED
        BY <4>1, <4>2 DEF RemovalReported
    <3> QED
      BY <3>1 DEF RemovalReported
  <2> QED
    BY <1>2, <2>1, <2>2, <2>3 DEF Removal, OnItsWay
<1> QED
  BY <1>4, <1>5

\* The watchdog thread takes the report: the entry it makes is the removal, or
\* the file was renamed with its directory.
LEMMA DispatchRemoval ==
    ASSUME TypeInv, watched, Dispatch, NEW p \in Paths, Removal(p)
    PROVE  Removal(p)'
<1> DEFINE r == Head(raw)
<1>1. /\ raw # <<>> /\ raw' = Tail(raw) /\ walk = {} /\ walk' = Expand(r)
      /\ UNCHANGED <<pending, batches, queue>>
  BY DEF Dispatch
<1>2. raw \in Seq(Event \cup DirEvent)
  BY DEF TypeInv, TypeOK
<1>3. /\ r = raw[1] /\ r \in Event \cup DirEvent /\ 1 \in 1..Len(raw)
      /\ Len(raw) \in Nat /\ Len(raw') = Len(raw) - 1
      /\ \A i \in 1..Len(raw') : i + 1 \in 1..Len(raw) /\ raw'[i] = raw[i + 1]
      /\ \A i \in 1..Len(raw) : i # 1 =>
            i - 1 \in 1..Len(raw') /\ raw'[i - 1] = raw[i]
  BY <1>1, <1>2, TailKeeps
<1> HIDE DEF r
<1>4. CASE \E i \in 1..Len(raw') : Concerns(raw'[i], p)
  <2>1. PICK c \in 1..Len(raw') : Concerns(raw[c + 1], p) /\ c + 1 \in 1..Len(raw)
    BY <1>3, <1>4
  <2>2. PICK i \in 1..Len(raw) :
          /\ Removes(raw[i], p)
          /\ \A j \in (i + 1)..Len(raw) : ~Concerns(raw[j], p)
    BY <2>1 DEF Removal, RemovalReported
  <2>3. i # 1
    BY <2>1, <2>2
  <2>4. i - 1 \in 1..Len(raw') /\ Removes(raw'[i - 1], p)
    BY <1>3, <2>2, <2>3
  <2>5. ASSUME NEW j \in ((i - 1) + 1)..Len(raw') PROVE ~Concerns(raw'[j], p)
    <3>1. j \in 1..Len(raw') /\ j + 1 \in (i + 1)..Len(raw)
      BY <1>3, <2>3
    <3> QED
      BY <1>3, <2>2, <3>1
  <2>6. RemovalReported(p)'
    BY <2>4, <2>5 DEF RemovalReported
  <2> QED
    BY <1>4, <2>6 DEF Removal
<1>5. CASE ~\E i \in 1..Len(raw') : Concerns(raw'[i], p)
  <2>1. \A i \in 1..Len(raw) : i # 1 => ~Concerns(raw[i], p)
    BY <1>3, <1>5
  <2>2. CASE Concerns(r, p)
    <3>1. Removes(r, p)
      BY <1>3, <2>1, <2>2 DEF Removal, RemovalReported, Removes, Concerns, ChangeType
    <3>2. Expand(r) = {Fresh(r.type, r.path, r.dest)}
      BY <2>2 DEF Expand, Concerns, ChangeType
    <3>3. Removes(Fresh(r.type, r.path, r.dest), p)
          /\ Fresh(r.type, r.path, r.dest).path = p
      BY <3>1 DEF Removes, Fresh
    <3> QED
      BY <1>1, <1>5, <3>2, <3>3 DEF Removal
  <2>3. CASE ~Concerns(r, p)
    <3>1. \E t \in {"deleted", "moved"} : OnItsWay(t, p)
      BY <1>1, <1>3, <2>1, <2>3 DEF Removal
    <3>2. ASSUME NEW x \in Expand(r), x.path = p PROVE Removes(x, p)
      <4>1. CASE r.type = "dir_moved"
        BY <3>2, <4>1 DEF Expand, Fresh, Removes
      <4>2. CASE r.type # "dir_moved"
        BY <1>3, <2>3, <3>2, <4>2
           DEF Expand, Fresh, Concerns, Event, DirEvent, ChangeType
      <4> QED
        BY <4>1, <4>2
    <3> QED
      BY <1>1, <1>5, <3>1, <3>2 DEF Removal, OnItsWay
  <2> QED
    BY <2>2, <2>3
<1> QED
  BY <1>4, <1>5

\* _debounce: nothing but another removal keeps a removal out of the table, and
\* only an event of the same file replaces it there.
LEMMA DebounceRemoval ==
    ASSUME TypeInv, NEW e \in walk, Debounce(e), NEW p \in Paths, Removal(p)
    PROVE  Removal(p)'
<1>1. UNCHANGED <<raw, batches, queue>> /\ walk' = walk \ {e}
  BY DEF Debounce
<1>2. CASE \E i \in 1..Len(raw) : Concerns(raw[i], p)
  BY <1>1, <1>2 DEF Removal, RemovalReported
<1>3. CASE (~\E i \in 1..Len(raw) : Concerns(raw[i], p)) /\ \E x \in walk : x.path = p
  <2>1. \A x \in walk : x.path = p => Removes(x, p)
    BY <1>3 DEF Removal
  <2>2. CASE \E x \in walk' : x.path = p
    BY <1>1, <1>3, <2>1, <2>2 DEF Removal
  <2>3. CASE ~\E x \in walk' : x.path = p
    <3>1. e.path = p /\ Removes(e, p)
      BY <1>1, <1>3, <2>1, <2>3
    <3>2. \E x \in pending' : Removes(x, p)
      BY <3>1 DEF Debounce, Removes
    <3>3. \E t \in {"deleted", "moved"} : OnItsWay(t, p)'
      BY <3>2 DEF OnItsWay, Removes
    <3> QED
      BY <1>1, <1>3, <2>3, <3>3 DEF Removal
  <2> QED
    BY <2>2, <2>3
<1>4. CASE (~\E i \in 1..Len(raw) : Concerns(raw[i], p)) /\ ~\E x \in walk : x.path = p
  <2>1. \E t \in {"deleted", "moved"} : OnItsWay(t, p)
    BY <1>4 DEF Removal
  <2>2. e.path # p
    BY <1>4
  <2>3. \A x \in pending : x.path = p => x \in pending'
    BY <2>2 DEF Debounce
  <2>4. \E t \in {"deleted", "moved"} : OnItsWay(t, p)'
    BY <1>1, <2>1, <2>3 DEF OnItsWay
  <2> QED
    BY <1>1, <1>4, <2>4 DEF Removal
<1> QED
  BY <1>2, <1>3, <1>4

\* The loop takes the row out of the index when it takes the event.
LEMMA LoopRemoval ==
    ASSUME TypeInv, share = "seeding", HandleEvent, NEW p \in Paths, Removal(p),
           Listed(p)'
    PROVE  Removal(p)' /\ Listed(p)
<1>1. UNCHANGED <<raw, walk>> /\ found = "none" /\ found' = "none"
  BY DEF HandleEvent, TypeInv, StatInv
<1>2. p \in index' /\ p \in index
  BY <1>1 DEF Listed, HandleEvent, DeleteFile
<1>3. ~Removes(Head(queue), p)
  BY <1>2 DEF HandleEvent, DeleteFile, Removes
<1>4. \A t \in {"deleted", "moved"} : OnItsWay(t, p) => OnItsWay(t, p)'
  BY <1>3, LoopKeeps DEF Removes
<1> QED
  BY <1>1, <1>2, <1>4, RemovalSuffices DEF Listed

\* Its handler adds a row only for a file the stat has found.
LEMMA HandlerLists ==
    ASSUME StatFile \/ HandleEnds, NEW p \in Paths, p \notin disk, Listed(p)'
    PROVE  Listed(p)
  BY DEF StatFile, HandleEnds, UpsertFile, Listed, Target, NotHandling

LEMMA IndexStep == TypeInv /\ IndexInv /\ [Next]_vars => IndexInv'
<1> SUFFICES ASSUME TypeInv, IndexInv, [Next]_vars, ~blind'
             PROVE  IndexInv'
  BY DEF IndexInv
<1>1. ~blind /\ (Next => ~Switch /\ ~PauseShare)
  BY DEF Next, vars, UserChange, Dispatch, Debounce, TimerFires, Flush, Emit,
         HandleEvent, StatFile, HandleEnds, Download, DownloadDone, IndexLocalFiles,
         ResumeShare, Switch, PauseShare, Unwatch
<1>2. watched /\ share = "seeding" /\ ~indexing
  BY <1>1 DEF IndexInv
<1>3. \/ UserChange \/ Dispatch \/ (\E e \in walk : Debounce(e)) \/ TimerStep
      \/ HandleEvent \/ StatFile \/ HandleEnds \/ UNCHANGED vars
  BY <1>1, <1>2 DEF Next, TimerStep, Download, DownloadDone, IndexLocalFiles,
                    ResumeShare
<1>4. watched' /\ share' = "seeding" /\ ~indexing'
  <2>1. UNCHANGED <<watched, share, indexing>>
    BY <1>3 DEF vars, UserChange, Dispatch, Debounce, TimerStep, TimerFires, Flush,
                Emit, HandleEvent, StatFile, HandleEnds
  <2> QED
    BY <1>2, <2>1, Zenon
<1>5. ASSUME NEW p \in Paths, p[1] = Root, Listed(p)', p \notin disk'
      PROVE  Removal(p)'
  <2>1. Listed(p) /\ p \notin disk => Removal(p)
    BY <1>1, <1>5 DEF IndexInv
  <2>2. CASE UserChange
    <3>1. Listed(p)
      BY <1>5, <2>2 DEF UserChange, Listed, Target
    <3> QED
      BY <1>2, <1>5, <2>1, <2>2, <3>1, UserRemoval
  <2>3. CASE UNCHANGED vars
    BY <1>5, <2>1, <2>3 DEF vars, Listed, Target, Removal, RemovalReported, OnItsWay
  <2>4. CASE Dispatch
    <3>1. Listed(p) /\ p \notin disk
      BY <1>5, <2>4 DEF Dispatch, Listed, Target
    <3> QED
      BY <1>2, <2>1, <2>4, <3>1, DispatchRemoval
  <2>5. ASSUME NEW e \in walk, Debounce(e) PROVE Removal(p)'
    <3>1. Listed(p) /\ p \notin disk
      BY <1>5, <2>5 DEF Debounce, Listed, Target
    <3> QED
      BY <2>1, <2>5, <3>1, DebounceRemoval
  <2>6. CASE TimerStep
    <3>1. Listed(p) /\ p \notin disk /\ UNCHANGED <<raw, walk>>
      BY <1>5, <2>6 DEF TimerStep, TimerFires, Flush, Emit, Listed, Target
    <3> QED
      BY <2>1, <2>6, <3>1, TimersKeep, RemovalSuffices
  <2>7. CASE HandleEvent
    <3>1. Listed(p) /\ p \notin disk
      BY <1>5, <2>7 DEF HandleEvent, DeleteFile, Listed, TypeInv, StatInv
    <3> QED
      BY <1>2, <1>5, <2>1, <2>7, <3>1, LoopRemoval
  <2>8. CASE StatFile \/ HandleEnds
    <3>1. p \notin disk /\ UNCHANGED <<raw, walk, pending, batches, queue>>
      BY <1>5, <2>8 DEF StatFile, HandleEnds
    <3>2. Listed(p)
      BY <1>5, <2>8, <3>1, HandlerLists
    <3> QED
      BY <2>1, <3>1, <3>2, RemovalSuffices DEF OnItsWay
  <2> QED
    BY <1>3, <2>2, <2>3, <2>4, <2>5, <2>6, <2>7, <2>8
<1> QED
  BY <1>4, <1>5 DEF IndexInv

\* The rows that pre-positioning relies on: as long as the watcher has seen every
\* change, a file of the top directory that is gone is gone from the index once
\* nothing is under way, although a stat may find a file that is deleted before
\* its row is written.
THEOREM IndexStaysClean == Spec => []IndexNeverStale
<1>1. Init => IndexInv
  BY DEF Init, IndexInv, Listed
<1>2. TypeInv /\ IndexInv => IndexNeverStale
  <2> SUFFICES ASSUME TypeInv, IndexInv, Quiet, ~blind,
                      NEW p \in index \ disk, p[1] = Root
               PROVE  FALSE
    BY DEF IndexNeverStale
  <2>1. p \in Paths /\ Listed(p)
    BY DEF TypeInv, TypeOK, Listed
  <2>2. Removal(p)
    BY <2>1 DEF IndexInv
  <2> QED
    BY <2>2 DEF Removal, OnItsWay, Quiet
<1> QED
  BY <1>1, <1>2, TypeInit, TypeStep, IndexStep, PTL DEF Spec

====
