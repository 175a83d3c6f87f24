----------------------------- MODULE FileWatcher -----------------------------
(***************************************************************************)
(* From a change in a share's directory to a request for a rebuild: the    *)
(* debouncing handler of the share, its timer threads, the bridge into the *)
(* event loop, the coordinator's handler of file events, and the file      *)
(* index that pre-positioning relies on.                                   *)
(*                                                                         *)
(* Four actors meet here: whoever changes files, the watchdog thread that  *)
(* calls the handler, the timer threads that flush it, and the loop.  A    *)
(* segment under the handler's lock, or between two awaits, is one step.   *)
(***************************************************************************)
EXTENDS Naturals, Sequences, SequencesExt

CONSTANTS
    Dirs,      \* directories of the share
    Root,      \* its top directory, which is not renamed
    Names,     \* names of files
    NoPath,
    MaxOps,    \* bound: the operations below
    UserOps    \* which of AllOps happen

AllOps == {"create", "modify", "delete", "move", "rename_dir", "move_dir_out",
           "switch", "pause"}

ASSUME FileWatcherAssumption ==
    /\ Root \in Dirs
    /\ MaxOps \in Nat
    /\ UserOps \subseteq AllOps

Paths == Dirs \X Names
ASSUME NoPathAssumption == NoPath \notin Paths /\ NoPath \notin Dirs

\* FileChangedEvent; a rename or a removal of a whole directory names it.
ChangeType == {"created", "modified", "deleted", "moved"}
Event == [type : ChangeType, path : Paths, dest : Paths \cup {NoPath}]
DirEvent == [type : {"dir_moved", "dir_deleted"}, path : Dirs,
             dest : Dirs \cup {NoPath}]
Entry == [type : ChangeType, path : Paths, dest : Paths \cup {NoPath},
          due : BOOLEAN]
NotHandling == [type |-> "none", path |-> NoPath, dest |-> NoPath]

VARIABLES
    \* the share
    disk,      \* files in the directory
    index,     \* rows of local_files
    share,     \* its state
    indexing,  \* _status_update_loop indexes the files of a finished download
    \* FileWatcher and the _ShareHandler it holds
    watched,
    raw,       \* watchdog's queue of events
    walk,      \* what the handler that runs has still to _debounce
    pending,   \* _pending, one entry per path
    timer,     \* a Timer runs
    firing,    \* a Timer has fired and waits for the lock
    batches,   \* what flushing threads have still to emit
    \* the coordinator
    queue,     \* _fs_event_queue
    handling,  \* event whose handler awaits the stat of a file
    found,     \* result of that stat: "none" before it ran
    \* history
    dirty,     \* kinds of changes under the watcher no rebuild request followed
    blind,     \* the watcher was off at some time
    ops

shareVars   == <<share, indexing>>
handlerVars == <<pending, timer, firing>>
loopVars    == <<queue, handling, found>>
vars == <<disk, index, share, indexing, watched, raw, walk, pending, timer, firing,
          batches, queue, handling, found, dirty, blind, ops>>

Init ==
    /\ disk = {Root} \X Names /\ index = disk
    /\ share = "seeding" /\ indexing = FALSE
    /\ watched = TRUE /\ raw = <<>> /\ walk = {}
    /\ pending = {} /\ timer = FALSE /\ firing = FALSE /\ batches = <<>>
    /\ queue = <<>> /\ handling = NotHandling /\ found = "none"
    /\ dirty = {} /\ blind = FALSE /\ ops = 0

Op(name) == name \in UserOps /\ ops < MaxOps /\ ops' = ops + 1

-----------------------------------------------------------------------------
(* Changes in the directory *)

\* inotify reports a change only to a watcher; the history remembers it.
Changed(kind, e) ==
    /\ raw' = IF watched THEN Append(raw, e) ELSE raw
    /\ dirty' = IF watched /\ share = "seeding" THEN dirty \cup {kind} ELSE dirty

Report(type, p, q) == [type |-> type, path |-> p, dest |-> q]

FilesOf(d) == {p \in disk : p[1] = d}

UserChange ==
    /\ \/ \E p \in Paths \ disk :
             /\ Op("create") /\ disk' = disk \cup {p}
             /\ Changed("file", Report("created", p, NoPath))
       \/ \E p \in disk :
             /\ Op("modify") /\ UNCHANGED disk
             /\ Changed("file", Report("modified", p, NoPath))
       \/ \E p \in disk :
             /\ Op("delete") /\ disk' = disk \ {p}
             /\ Changed("file", Report("deleted", p, NoPath))
       \/ \E p \in disk, q \in Paths \ disk :
             /\ Op("move") /\ disk' = (disk \ {p}) \cup {q}
             /\ Changed("file", Report("moved", p, q))
       \/ \E d, e \in Dirs \ {Root} :
             /\ d # e /\ FilesOf(d) # {} /\ FilesOf(e) = {}
             /\ Op("rename_dir")
             /\ disk' = {IF p[1] = d THEN <<e, p[2]>> ELSE p : p \in disk}
             /\ Changed("file", Report("dir_moved", d, e))
       \/ \E d \in Dirs \ {Root} :
             /\ FilesOf(d) # {} /\ Op("move_dir_out")
             /\ disk' = disk \ FilesOf(d)
             /\ Changed("dir_out", Report("dir_deleted", d, NoPath))
    /\ UNCHANGED <<index, shareVars, watched, walk, handlerVars, batches, loopVars,
                   blind>>

-----------------------------------------------------------------------------
(* _ShareHandler *)

Fresh(type, p, q) == [type |-> type, path |-> p, dest |-> q, due |-> FALSE]

\* Mutant of Expand: is_directory is not looked at.
ExpandAll(r) == {Fresh(r.type, r.path, r.dest)}

\* The events a handler makes of a report.  A renamed directory is walked at
\* its new place; other reports about directories are ignored.
Expand(r) ==
    CASE r.type = "dir_moved" ->
           {Fresh("moved", <<r.path, p[2]>>, p) : p \in FilesOf(r.dest)}
      [] r.type = "dir_deleted" -> {}
      [] OTHER -> {Fresh(r.type, r.path, r.dest)}

\* The watchdog thread calls on_created, on_modified, on_deleted or on_moved.
Dispatch ==
    /\ raw # <<>> /\ walk = {}
    /\ raw' = Tail(raw)
    /\ walk' = IF watched THEN Expand(Head(raw)) ELSE {}
    /\ UNCHANGED <<disk, index, shareVars, watched, handlerVars, batches,
                   loopVars, dirty, blind, ops>>

\* Mutant of Debounce: only the first entry of the table starts the timer.
DebounceFirstTimed(e) ==
    /\ walk' = walk \ {e}
    /\ pending' = {x \in pending : x.path # e.path} \cup {e}
    /\ timer' = (timer \/ pending = {})
    /\ UNCHANGED <<disk, index, shareVars, watched, raw, firing, batches,
                   loopVars, dirty, blind, ops>>

\* _debounce: the newest event of a path replaces the older one and restarts
\* the timer, except that nothing replaces "deleted".
Debounce(e) ==
    /\ walk' = walk \ {e}
    /\ IF \E x \in pending : x.path = e.path /\ x.type = "deleted"
       THEN UNCHANGED <<pending, timer>>
       ELSE /\ pending' = {x \in pending : x.path # e.path} \cup {e}
            /\ timer' = TRUE
    /\ UNCHANGED <<disk, index, shareVars, watched, raw, firing, batches,
                   loopVars, dirty, blind, ops>>

\* The Timer fires: what is pending now has reached its deadline; what comes
\* before its thread has the lock has not.
TimerFires ==
    /\ timer /\ ~firing
    /\ timer' = FALSE /\ firing' = TRUE
    /\ pending' = {[x EXCEPT !.due = TRUE] : x \in pending}
    /\ UNCHANGED <<disk, index, shareVars, watched, raw, walk, batches, loopVars,
                   dirty, blind, ops>>

\* What is emitted of a set of entries.
EventsOf(S) == {Report(x.type, x.path, x.dest) : x \in S}

Due == {x \in pending : x.due}

\* Mutant of Flush: the table is emptied, entries that came late are lost.
FlushClears ==
    /\ firing /\ firing' = FALSE
    /\ pending' = {} /\ UNCHANGED timer
    /\ batches' = IF Due = {} THEN batches
                  ELSE Append(batches, [todo |-> EventsOf(Due), again |-> FALSE])
    /\ UNCHANGED <<disk, index, shareVars, watched, raw, walk, loopVars, dirty, blind,
                   ops>>

\* _flush under the lock: the entries that are due leave the table.
Flush ==
    /\ firing /\ firing' = FALSE
    /\ pending' = pending \ Due
    /\ IF Due = {}
       THEN timer' = (timer \/ pending' # {}) /\ UNCHANGED batches
       ELSE /\ batches' = Append(batches, [todo |-> EventsOf(Due),
                                           again |-> pending' # {}])
            /\ UNCHANGED timer
    /\ UNCHANGED <<disk, index, shareVars, watched, raw, walk, loopVars, dirty, blind,
                   ops>>

\* _flush without the lock: one event goes over the bridge to the loop.  After
\* the last one a new timer starts if entries were left behind.
Emit(i) ==
    LET b == batches[i]
    IN  /\ \E e \in b.todo :
              /\ queue' = Append(queue, e)
              /\ IF b.todo = {e}
                 THEN batches' = RemoveAt(batches, i) /\ timer' = (timer \/ b.again)
                 ELSE batches' = [batches EXCEPT ![i].todo = @ \ {e}] /\ UNCHANGED timer
        /\ UNCHANGED <<disk, index, shareVars, watched, raw, walk, pending, firing,
                       handling, found, dirty, blind, ops>>

-----------------------------------------------------------------------------
(* SyncCoordinator._handle_fs_event *)

\* StateDB.delete_file and upsert_file.
DeleteFile(p) == index' = index \ {p}
UpsertFile(p) == index' = index \cup {p}

\* schedule_or_rebuild: a rebuild reads the whole directory.
RequestRebuild == dirty' = {}

\* Mutant of HandleEvent: a moved file keeps its old row.
HandleEventKeepsRow ==
    LET e == Head(queue)
    IN  /\ queue # <<>> /\ handling = NotHandling
        /\ queue' = Tail(queue)
        /\ IF share # "seeding"
           THEN UNCHANGED <<index, handling, dirty>>
           ELSE IF e.type = "deleted"
           THEN DeleteFile(e.path) /\ RequestRebuild /\ UNCHANGED handling
           ELSE handling' = e /\ UNCHANGED <<index, dirty>>
        /\ UNCHANGED <<disk, shareVars, watched, raw, walk, handlerVars, batches, found,
                       blind, ops>>

\* Up to the await of the stat.  Events are ignored unless the share seeds.
HandleEvent ==
    LET e == Head(queue)
    IN  /\ queue # <<>> /\ handling = NotHandling
        /\ queue' = Tail(queue)
        /\ IF share # "seeding"
           THEN UNCHANGED <<index, handling, dirty>>
           ELSE IF e.type = "deleted"
           THEN DeleteFile(e.path) /\ RequestRebuild /\ UNCHANGED handling
           ELSE /\ handling' = e
                /\ IF e.type = "moved" THEN DeleteFile(e.path) ELSE UNCHANGED index
                /\ UNCHANGED dirty
        /\ UNCHANGED <<disk, shareVars, watched, raw, walk, handlerVars, batches, found,
                       blind, ops>>

Target(e) == IF e.type = "moved" THEN e.dest ELSE e.path

\* The stat, in a thread of the pool.
StatFile ==
    /\ handling # NotHandling /\ found = "none"
    /\ found' = IF Target(handling) \in disk THEN "file" ELSE "missing"
    /\ UNCHANGED <<disk, index, shareVars, watched, raw, walk, handlerVars, batches,
                   queue, handling, dirty, blind, ops>>

\* Mutant of HandleEnds: the error about a missing file ends the loop.
HandleEndsOnce ==
    /\ found = "file" \/ (handling.type = "moved" /\ found # "none")
    /\ IF found = "file" THEN UpsertFile(Target(handling)) ELSE UNCHANGED index
    /\ RequestRebuild
    /\ handling' = NotHandling /\ found' = "none"
    /\ UNCHANGED <<disk, shareVars, watched, raw, walk, handlerVars, batches, queue,
                   blind, ops>>

\* After the await.  A created or modified file that is gone again asks for no
\* rebuild; a moved one does.
HandleEnds ==
    /\ found # "none"
    /\ IF found = "file" THEN UpsertFile(Target(handling)) ELSE UNCHANGED index
    /\ IF found = "file" \/ handling.type = "moved"
       THEN RequestRebuild ELSE UNCHANGED dirty
    /\ handling' = NotHandling /\ found' = "none"
    /\ UNCHANGED <<disk, shareVars, watched, raw, walk, handlerVars, batches, queue,
                   blind, ops>>

-----------------------------------------------------------------------------
(* Downloads and pauses turn the watcher off and on *)

\* FileWatcher.add_share, idempotent.
Watch == watched' = TRUE

\* FileWatcher.remove_share: the handler is dropped, its running timer and the
\* call under way are not.
Unwatch ==
    /\ watched' = FALSE /\ blind' = TRUE
    /\ batches' = IF pending \cup walk = {} THEN batches
                  ELSE Append(batches, [todo |-> EventsOf(pending \cup walk),
                                        again |-> FALSE])
    /\ walk' = {} /\ pending' = {} /\ timer' = FALSE /\ firing' = FALSE

\* _switch_to_remote_torrent: the remote version supersedes what is pending.  It
\* may come while the files are indexed, and then the watcher is on again before
\* the download is over.
Switch ==
    /\ Op("switch") /\ share = "seeding"
    /\ share' = "syncing" /\ Unwatch /\ dirty' = {}
    /\ UNCHANGED <<disk, index, indexing, raw, loopVars>>

\* Pre-positioning and libtorrent add and remove files.  What the watcher sees of
\* it counts as an operation.
Download(p) ==
    /\ share = "syncing"
    /\ IF p \in disk
       THEN disk' = disk \ {p} /\ Changed("file", Report("deleted", p, NoPath))
       ELSE disk' = disk \cup {p} /\ Changed("file", Report("created", p, NoPath))
    /\ IF watched THEN Op("switch") ELSE UNCHANGED ops
    /\ UNCHANGED <<index, shareVars, watched, walk, handlerVars, batches, loopVars, blind>>

\* _status_update_loop, one status at a time: SEEDING first, then the index, then
\* the watcher.
DownloadDone ==
    /\ share \in {"syncing", "resuming"} /\ ~indexing
    /\ share' = "seeding" /\ indexing' = TRUE
    /\ UNCHANGED <<disk, index, watched, raw, walk, handlerVars, batches, loopVars,
                   dirty, blind, ops>>

\* _index_local_files adds every file there is and deletes no row.
IndexLocalFiles ==
    /\ indexing
    /\ index' = index \cup disk
    /\ indexing' = FALSE /\ Watch
    /\ UNCHANGED <<disk, share, raw, walk, handlerVars, batches, loopVars, dirty, blind,
                   ops>>

PauseShare ==
    /\ Op("pause") /\ share = "seeding"
    /\ share' = "paused" /\ Unwatch
    /\ dirty' = IF dirty = {} THEN {} ELSE {"paused"}
    /\ UNCHANGED <<disk, index, indexing, raw, loopVars>>

\* resume_share and the activation: the watcher first, SEEDING at the end.
ResumeShare ==
    /\ \/ share = "paused" /\ share' = "resuming" /\ Watch
       \/ share = "resuming" /\ share' = "seeding" /\ UNCHANGED watched
    /\ UNCHANGED <<disk, index, indexing, raw, walk, handlerVars, batches, loopVars,
                   dirty, blind, ops>>

-----------------------------------------------------------------------------
WatchdogStep == Dispatch \/ \E e \in walk : Debounce(e)
TimerStep == TimerFires \/ Flush \/ \E i \in 1..Len(batches) : Emit(i)
LoopStep == HandleEvent \/ HandleEnds

Next ==
    \/ UserChange
    \/ Dispatch \/ (\E e \in walk : Debounce(e))
    \/ TimerFires \/ Flush
    \/ \E i \in 1..Len(batches) : Emit(i)
    \/ HandleEvent \/ StatFile \/ HandleEnds
    \/ Switch \/ (\E p \in Paths : Download(p)) \/ DownloadDone \/ IndexLocalFiles
    \/ PauseShare \/ ResumeShare

Spec == Init /\ [][Next]_vars

\* Threads and the loop run; users, peers and downloads owe nothing.
Fairness ==
    /\ WF_vars(WatchdogStep) /\ WF_vars(TimerStep)
    /\ WF_vars(LoopStep) /\ WF_vars(StatFile)

FairSpec == Spec /\ Fairness

-----------------------------------------------------------------------------
(* Properties *)

TypeOK ==
    /\ disk \subseteq Paths /\ index \subseteq Paths
    /\ share \in {"seeding", "syncing", "paused", "resuming"} /\ indexing \in BOOLEAN
    /\ watched \in BOOLEAN
    /\ raw \in Seq(Event \cup DirEvent)
    /\ walk \subseteq Entry /\ pending \subseteq Entry
    /\ timer \in BOOLEAN /\ firing \in BOOLEAN
    /\ batches \in Seq([todo : SUBSET Event, again : BOOLEAN])
    /\ queue \in Seq(Event)
    /\ handling \in Event \cup {NotHandling}
    /\ found \in {"none", "file", "missing"}
    /\ dirty \subseteq {"file", "dir_out", "paused"} /\ blind \in BOOLEAN /\ ops \in 0..MaxOps

\* Nothing of a change is on its way through watcher and loop.
Quiet ==
    /\ raw = <<>> /\ walk = {} /\ pending = {} /\ batches = <<>> /\ queue = <<>>
    /\ handling = NotHandling /\ share = "seeding"

UnderWay ==
    \/ raw # <<>> \/ walk # {} \/ pending # {} \/ batches # <<>> \/ queue # <<>>
    \/ handling # NotHandling

\* A change made to files under the watcher is not forgotten on its way to the
\* rebuild: until a rebuild is requested, an event is in a table, a thread or a
\* queue.  Debouncing drops events, a flush splits the table, and a vanished
\* file ends its handler without a rebuild; still some event carries the change.
NoLostChange == dirty = {"file"} => UnderWay

\* Every entry of the debounce table has a timer that will flush it.
PendingIsTimed == pending # {} => timer \/ firing

\* Every change to files is followed by a rebuild request, unless a switch, a
\* pause or the removal of a directory overtakes it, once the user stops for
\* longer than the debounce period.
ChangeReported == dirty = {"file"} ~> dirty # {"file"}

\* The file index never keeps a file that was deleted or moved away under the
\* watcher; directories that are renamed while their files move are not held to
\* this.
IndexNeverStale == Quiet /\ ~blind => \A p \in index \ disk : p[1] # Root

\* "so that tracked_paths is accurate": with nothing on its way the index lists
\* every file that appeared under the watcher.
IndexComplete == Quiet /\ ~blind => disk \subseteq index

====
