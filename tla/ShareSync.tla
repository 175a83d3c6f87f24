----------------------------- MODULE ShareSync -----------------------------
(***************************************************************************)
(* One share of peerdup, on every daemon that takes part in it.            *)
(*                                                                         *)
(* A daemon is a single asyncio event loop: the code between two awaits is *)
(* one atomic step here.  What the loop awaits (the thread pool that hashes*)
(* a directory or adds a libtorrent handle) is a task with a pc, so other  *)
(* coroutines run in between.  Per daemon the module keeps the SQLite row  *)
(* of the share, the directory on disk, the cached .torrent file, the      *)
(* libtorrent handle, the file watcher, the coordinator's _switching guard *)
(* and the tasks in flight.  Daemons hear of each other through LAN        *)
(* packets and, for a registry share, through the WatchSharePeers stream.  *)
(*                                                                         *)
(* A version is a directory content up to its info-hash, so it serves as   *)
(* content and as hash.                                                    *)
(***************************************************************************)
EXTENDS Naturals, FiniteSets

CONSTANTS
    Peers,        \* daemons modelled in full
    Outsiders,    \* other daemons: they announce and seed what they like
    Writers,      \* peers whose users write files
    Slots,        \* bound: coroutines in flight per daemon
    MaxVersion,   \* bound: distinct directory contents
    MaxSeq,       \* bound: sequence numbers an outsider announces
    MaxLag,       \* bound: LAN packets of one sender in flight
    MaxOps,       \* bound: the operations and failures below
    UserOps,      \* which of AllOps may happen
    Strategies,   \* conflict strategies users choose from
    LocalOnly     \* TRUE: share without a registry

AllStrategies == {"last_write_wins", "rename_conflict", "ask"}
AllOps == {"announce", "delete", "readd", "pause", "resume", "remove",
           "resolve", "strategy", "restart", "fail"}

ASSUME ConstantsAssumption ==
    /\ Peers \cap Outsiders = {}
    /\ Writers \subseteq Peers
    /\ MaxVersion \in Nat /\ MaxSeq \in Nat /\ MaxLag \in Nat /\ MaxOps \in Nat
    /\ UserOps \subseteq AllOps
    /\ Strategies \subseteq AllStrategies
    /\ LocalOnly \in BOOLEAN

Version == 1..MaxVersion
NoHash  == 0                       \* no info-hash, no files, no torrent
Hash    == Version \cup {NoHash}

ShareState == {"syncing", "seeding", "paused", "error"}

\* A libtorrent handle.  "magnet": info-hash only, no metadata yet.
\* alert: a finished/seeding alert the alert thread has not read yet.
HandleState == {"none", "magnet", "downloading", "complete"}
NoHandle == [ih |-> NoHash, st |-> "none", alert |-> FALSE]
Handle   == [ih : Hash, st : HandleState, alert : BOOLEAN]

\* A coroutine suspended at an await.  ih: the info-hash it works on;
\* files: has_files of an activation; fresh: it read a row with seq 0.
IdleTask == [kind |-> "none", pc |-> "none", ih |-> NoHash,
             files |-> FALSE, fresh |-> FALSE]
\* "orphan": a pool thread whose coroutine was cancelled.
SwitchKinds == {"switch", "regswitch"}
Task == [kind : {"none", "rebuild", "activate", "orphan"} \cup SwitchKinds,
         pc : {"none", "boot", "scan", "start", "add", "finish", "left"},
         ih : Hash, files : BOOLEAN, fresh : BOOLEAN]

NewTask(kind, pc, v) == [IdleTask EXCEPT !.kind = kind, !.pc = pc, !.ih = v]

\* What a LAN packet says of the share.
Packet == [ih : Hash, seq : Nat]

VARIABLES
    \* StateDB, durable
    row,        \* the LocalShare row exists
    state,      \* its state
    ih,         \* its info_hash
    seq,        \* its change counter
    strat,      \* its conflict_strategy
    conflicts,  \* remote info-hashes of the pending LocalConflict rows
    known,      \* KnownPeer rows
    \* file system, durable
    disk,       \* content of the share directory
    tfile,      \* torrent cached in <share_id>.torrent
    \* memory of the daemon
    handle,     \* LibtorrentSession._handles[share]
    watched,    \* the FileWatcher observes the directory
    switching,  \* share in SyncCoordinator._switching
    task,       \* coroutines in flight
    fsq,        \* a debounced FileChangedEvent waits in the queue
    fsstat,     \* _handle_fs_event awaits the stat of the changed file
    rebuilt,    \* TorrentManager._last_rebuild has an entry
    deferred,   \* a deferred rebuild is pending
    status,     \* a finished/seeding TorrentStatus waits in the queue
    indexing,   \* the status loop awaits _index_local_files
    watch,      \* the WatchSharePeers task (and the announce heartbeat)
    \* network, registry and history
    net,        \* LAN packets in flight, by sender
    ann,        \* info-hash in the registry's announcement row
    nver,       \* number of versions that exist
    partial,    \* versions that are half-downloaded directories
    birth,      \* 1 + the seq a version was first published with, 0: not yet
    ops         \* operations and failures so far

rowVars    == <<row, strat>>
shareVars  == <<state, ih, birth>>
diskVars   == <<disk, nver, partial>>
torVars    == <<tfile, handle>>
taskVars   == <<switching, task>>
fsVars     == <<fsstat, rebuilt, deferred>>
statusVars == <<status, indexing>>
regVars    == <<watch, ann>>
vars == <<row, strat, state, ih, seq, birth, conflicts, known, disk, nver,
          partial, tfile, handle, watched, switching, task, fsq, fsstat,
          rebuilt, deferred, status, indexing, watch, ann, net, ops>>

Init ==
    /\ row = [p \in Peers |-> FALSE]
    /\ strat = [p \in Peers |-> "last_write_wins"]
    /\ state = [p \in Peers |-> "syncing"]
    /\ ih = [p \in Peers |-> NoHash]
    /\ seq = [p \in Peers |-> 0]
    /\ birth = [v \in Version |-> 0]
    /\ conflicts = [p \in Peers |-> {}]
    /\ known = [p \in Peers |-> {}]
    /\ disk = [p \in Peers |-> NoHash]
    /\ nver = 0
    /\ partial = {}
    /\ tfile = [p \in Peers |-> NoHash]
    /\ handle = [p \in Peers |-> NoHandle]
    /\ watched = [p \in Peers |-> FALSE]
    /\ switching = [p \in Peers |-> FALSE]
    /\ task = [p \in Peers |-> [k \in Slots |-> IdleTask]]
    /\ fsq = [p \in Peers |-> FALSE]
    /\ fsstat = [p \in Peers |-> FALSE]
    /\ rebuilt = [p \in Peers |-> FALSE]
    /\ deferred = [p \in Peers |-> FALSE]
    /\ status = [p \in Peers |-> NoHash]
    /\ indexing = [p \in Peers |-> FALSE]
    /\ watch = [p \in Peers |-> "none"]
    /\ ann = [p \in Peers \cup Outsiders |-> NoHash]
    /\ net = [p \in Peers \cup Outsiders |-> {}]
    /\ ops = 0

-----------------------------------------------------------------------------
(* Helpers *)

FreeSlots(p) == {k \in Slots : task[p][k] = IdleTask}

\* asyncio.create_task, or a coroutine reaching its first await.
Spawn(p, t) ==
    \E k \in FreeSlots(p) :
        /\ \A j \in FreeSlots(p) : k <= j
        /\ task' = [task EXCEPT ![p][k] = t]

SetTask(p, k, t) == task' = [task EXCEPT ![p][k] = t]

\* A new directory content; the watcher reports it if it observes the share.
WriteDisk(p, v) ==
    /\ disk' = [disk EXCEPT ![p] = v]
    /\ fsq' = [fsq EXCEPT ![p] = @ \/ (watched[p] /\ v # disk[p])]

\* The directory takes a content nobody has seen before.
WriteNew(p, isPartial) ==
    /\ nver < MaxVersion
    /\ nver' = nver + 1
    /\ WriteDisk(p, nver + 1)
    /\ partial' = IF isPartial THEN partial \cup {nver + 1} ELSE partial

SameDisk == UNCHANGED <<disk, nver, partial, fsq>>

\* StateDB.set_share_state: no info_hash (NoHash) leaves the stored one.
\* birth is history: the seq of the row that first carried the hash.
SetShareState(p, s, v) ==
    IF ~row[p] THEN UNCHANGED <<state, ih, birth>>
    ELSE /\ state' = [state EXCEPT ![p] = s]
         /\ ih' = IF v = NoHash THEN ih ELSE [ih EXCEPT ![p] = v]
         /\ birth' = IF v = NoHash \/ birth[v] # 0 THEN birth
                     ELSE [birth EXCEPT ![v] = seq'[p] + 1]

\* Mutant of IncrementSeq: starts over at 1.
IncrementSeqRestarts(p) == seq' = IF row[p] THEN [seq EXCEPT ![p] = 1] ELSE seq

\* StateDB.increment_share_seq
IncrementSeq(p) == seq' = IF row[p] THEN [seq EXCEPT ![p] = @ + 1] ELSE seq

\* AnnounceManager.announce_once: failures are only logged; an empty
\* info_hash leaves the registry's stored one.
AnnounceOnce(p, v) ==
    \/ ann' = ann
    \/ /\ ~LocalOnly
       /\ ann' = [ann EXCEPT ![p] = IF v = NoHash THEN @ ELSE v]

Op(name) == /\ name \in UserOps
            /\ ops < MaxOps
            /\ ops' = ops + 1

-----------------------------------------------------------------------------
(* Activation: SyncCoordinator._activate_share and LibtorrentSession.add_share *)

\* First segment: the watcher starts, the scan for files goes to a thread.
StartActivation(p) ==
    /\ watched' = [watched EXCEPT ![p] = TRUE]
    /\ Spawn(p, NewTask("activate", "scan", NoHash))

\* Last segment: the first activation announces, starts the heartbeat and the
\* watch stream; a later one finds both tables filled and leaves them alone.
ActivationTail(p) ==
    IF LocalOnly \/ watch[p] # "none" THEN UNCHANGED regVars
    ELSE /\ watch' = [watch EXCEPT ![p] = "live"]
         /\ AnnounceOnce(p, ih'[p])

\* create_share or add_share of a share this daemon does not have.
AddShare(p, s) ==
    /\ ~row[p]
    /\ row' = [row EXCEPT ![p] = TRUE]
    /\ strat' = [strat EXCEPT ![p] = s]
    /\ state' = [state EXCEPT ![p] = "syncing"]
    /\ ih' = [ih EXCEPT ![p] = NoHash]
    /\ seq' = [seq EXCEPT ![p] = 0]
    /\ StartActivation(p)
    /\ SameDisk
    /\ UNCHANGED <<birth, conflicts, known, torVars, switching, fsVars,
                   statusVars, regVars, net, ops>>

\* The scan ends: nothing to add and nobody to ask, or on to add_share.
ActivateScan(p, k) ==
    LET files   == disk[p] # NoHash
        needsIh == ~files /\ tfile[p] = NoHash
        remote  == IF LocalOnly THEN {}
                   ELSE {ann[q] : q \in DOMAIN ann \ {p}} \ {NoHash}
        go(v)   == SetTask(p, k, [task[p][k] EXCEPT
                       !.pc = "add", !.ih = v, !.files = files,
                       !.fresh = ~row[p] \/ seq[p] = 0])
    IN  /\ task[p][k].pc = "scan"
        /\ \/ /\ ~needsIh
              /\ go(NoHash)
              /\ UNCHANGED <<shareVars, regVars>>
           \/ /\ needsIh
              /\ \E v \in remote : go(v)
              /\ UNCHANGED <<shareVars, regVars>>
           \/ /\ needsIh                     \* none found, or the call failed
              /\ SetTask(p, k, IdleTask)
              /\ SetShareState(p, "syncing", NoHash)
              /\ ActivationTail(p)
        /\ SameDisk
        /\ UNCHANGED <<rowVars, seq, conflicts, known, torVars, watched,
                       switching, fsVars, statusVars, net, ops>>

\* LibtorrentSession.add_share in its thread: load the cached torrent, or make
\* a magnet, or hash and cache the directory, which fails when it holds no
\* file; then, under the lock, the first handle of a share wins.  Any other
\* failure is AddShareFails.
LtAddShare(p, k) ==
    LET t    == task[p][k]
        seed == t.kind = "rebuild" \/ t.files
        hash == t.ih = NoHash \/ seed
        st   == IF seed THEN "complete" ELSE "downloading"
        insert(v, how) ==
            /\ handle' = IF handle[p] # NoHandle THEN handle
                         ELSE [handle EXCEPT ![p] =
                                 [ih |-> v, st |-> how, alert |-> how = "complete"]]
            /\ SetTask(p, k, [t EXCEPT !.pc = "finish", !.ih = handle'[p].ih])
            /\ UNCHANGED shareVars
    IN  /\ t.pc = "add"
        /\ \/ tfile[p] # NoHash /\ insert(tfile[p], st) /\ UNCHANGED tfile
           \/ tfile[p] = NoHash /\ ~hash /\ insert(t.ih, "magnet") /\ UNCHANGED tfile
           \/ /\ tfile[p] = NoHash /\ hash /\ disk[p] # NoHash
              /\ tfile' = [tfile EXCEPT ![p] = disk[p]]
              /\ insert(disk[p], st)
           \/ /\ tfile[p] = NoHash /\ hash /\ disk[p] = NoHash
              /\ SetTask(p, k, IdleTask)
              /\ IF t.kind = "activate" THEN SetShareState(p, "error", NoHash)
                                        ELSE UNCHANGED shareVars
              /\ UNCHANGED torVars
        /\ SameDisk
        /\ UNCHANGED <<rowVars, seq, conflicts, known, switching, watched,
                       fsVars, statusVars, regVars, net, ops>>

\* add_share in the thread of a cancelled switch: nobody takes its result.
LtAddLeft(p, k) ==
    LET t == task[p][k]
        h == IF tfile[p] # NoHash
             THEN [ih |-> tfile[p], st |-> "downloading", alert |-> FALSE]
             ELSE [ih |-> t.ih, st |-> "magnet", alert |-> FALSE]
    IN  /\ t.kind = "orphan"
        /\ handle' = IF handle[p] # NoHandle THEN handle
                     ELSE [handle EXCEPT ![p] = h]
        /\ SetTask(p, k, IdleTask)
        /\ SameDisk
        /\ UNCHANGED <<rowVars, shareVars, seq, conflicts, known, tfile, watched,
                       switching, fsVars, statusVars, regVars, net, ops>>

\* Mutant of AddShareFails: a switch that fails keeps the guard.
AddShareFailsGuarded(p, k) ==
    /\ Op("fail") /\ task[p][k].pc = "add" /\ task[p][k].kind \in SwitchKinds
    /\ SetTask(p, k, IdleTask)
    /\ SameDisk
    /\ UNCHANGED <<rowVars, shareVars, seq, conflicts, known, torVars, watched,
                   switching, fsVars, statusVars, regVars, net>>

\* add_share raises, before or after it cached the torrent: a switch releases the
\* guard, an activation stores ERROR and stops there, a rebuild is given up.
AddShareFails(p, k) ==
    LET t == task[p][k]
    IN  /\ Op("fail") /\ t.pc \in {"add", "left"}
        /\ SetTask(p, k, IdleTask)
        /\ switching' = IF t.kind \in SwitchKinds
                        THEN [switching EXCEPT ![p] = FALSE] ELSE switching
        /\ UNCHANGED seq
        /\ IF t.kind = "activate" THEN SetShareState(p, "error", NoHash)
                                  ELSE UNCHANGED shareVars
        /\ \/ UNCHANGED tfile
           \/ /\ tfile[p] = NoHash
              /\ t.ih = NoHash \/ t.kind = "rebuild" \/ t.files
              /\ tfile' = [tfile EXCEPT ![p] = disk[p]]
        /\ SameDisk
        /\ UNCHANGED <<rowVars, conflicts, known, handle, watched, fsVars,
                       statusVars, regVars, net>>

ActivateFinish(p, k) ==
    LET t == task[p][k]
    IN  /\ t.pc = "finish" /\ t.kind = "activate"
        /\ IF t.files /\ t.fresh THEN IncrementSeq(p) ELSE UNCHANGED seq
        /\ SetShareState(p, IF t.files THEN "seeding" ELSE "syncing", t.ih)
        /\ SetTask(p, k, IdleTask)
        /\ ActivationTail(p)
        /\ SameDisk
        /\ UNCHANGED <<rowVars, conflicts, known, torVars, watched, switching,
                       fsVars, statusVars, net, ops>>

-----------------------------------------------------------------------------
(* Rebuild after a local change: _handle_fs_event, TorrentManager *)

\* schedule_or_rebuild: outside the debounce window of the last rebuild a
\* task starts at once, inside it a single deferred one (re)starts its sleep.
ScheduleOrRebuild(p) ==
    \/ /\ Spawn(p, NewTask("rebuild", "start", NoHash))
       /\ rebuilt' = [rebuilt EXCEPT ![p] = TRUE]
       /\ UNCHANGED deferred
    \/ /\ rebuilt[p]
       /\ deferred' = [deferred EXCEPT ![p] = TRUE]
       /\ UNCHANGED <<task, rebuilt>>

\* The event loop takes a file event.  A deletion is scheduled in the same
\* step; any other change first awaits the stat of the file.
FsEvent(p) ==
    LET ignored == \/ ~row[p]
                   \/ state[p] = "paused"
                   \/ state[p] = "syncing" /\ ih[p] # NoHash
    IN  /\ fsq[p] /\ ~fsstat[p]
        /\ fsq' = [fsq EXCEPT ![p] = FALSE]
        /\ \/ ignored /\ UNCHANGED <<fsVars, task>>
           \/ /\ ~ignored
              /\ fsstat' = [fsstat EXCEPT ![p] = TRUE]
              /\ UNCHANGED <<rebuilt, deferred, task>>
           \/ ~ignored /\ ScheduleOrRebuild(p) /\ UNCHANGED fsstat
        /\ UNCHANGED <<rowVars, shareVars, seq, conflicts, known, diskVars,
                       torVars, watched, switching, statusVars, regVars, net, ops>>

\* The stat returns.  A file that vanished meanwhile ends the handling; its
\* deletion is then an event of its own.
FsSchedule(p) ==
    /\ fsstat[p]
    /\ fsstat' = [fsstat EXCEPT ![p] = FALSE]
    /\ \/ ScheduleOrRebuild(p)
       \/ fsq[p] /\ UNCHANGED <<rebuilt, deferred, task>>
    /\ SameDisk
    /\ UNCHANGED <<rowVars, shareVars, seq, conflicts, known, torVars,
                   watched, switching, statusVars, regVars, net, ops>>

\* Mutant of DropTorrent: the cached torrent file is not deleted.
DropTorrentKeepsCache(p) ==
    /\ tfile' = tfile
    /\ handle' = [handle EXCEPT ![p] = NoHandle]

\* rebuild up to its await: cached torrent and handle are dropped.
DropTorrent(p) ==
    /\ tfile' = [tfile EXCEPT ![p] = NoHash]
    /\ handle' = [handle EXCEPT ![p] = NoHandle]

RebuildStart(p, k) ==
    /\ task[p][k].pc = "start"
    /\ SetTask(p, k, [task[p][k] EXCEPT !.pc = "add"])
    /\ DropTorrent(p)
    /\ SameDisk
    /\ UNCHANGED <<rowVars, shareVars, seq, conflicts, known, watched,
                   switching, fsVars, statusVars, regVars, net, ops>>

\* The sleep of a deferred rebuild ends: it looks at the share again.
DeferredFire(p) ==
    /\ deferred[p]
    /\ deferred' = [deferred EXCEPT ![p] = FALSE]
    /\ IF row[p] /\ state[p] \notin {"paused", "syncing"}
       THEN Spawn(p, NewTask("rebuild", "add", NoHash)) /\ DropTorrent(p)
       ELSE UNCHANGED <<task, torVars>>
    /\ SameDisk
    /\ UNCHANGED <<rowVars, shareVars, seq, conflicts, known, watched,
                   switching, fsstat, rebuilt, statusVars, regVars, net, ops>>

\* Mutant of RebuildFinish: the new info-hash is not stored.
RebuildFinishKeepsHash(p, k) ==
    /\ task[p][k].pc = "finish" /\ task[p][k].kind = "rebuild"
    /\ IncrementSeq(p)
    /\ SetShareState(p, "seeding", NoHash)
    /\ rebuilt' = [rebuilt EXCEPT ![p] = TRUE]
    /\ AnnounceOnce(p, ih'[p])
    /\ SetTask(p, k, IdleTask)
    /\ SameDisk
    /\ UNCHANGED <<rowVars, conflicts, known, torVars, watched, switching,
                   fsstat, deferred, statusVars, watch, net, ops>>

RebuildFinish(p, k) ==
    LET t == task[p][k]
    IN  /\ t.pc = "finish" /\ t.kind = "rebuild"
        /\ IncrementSeq(p)
        /\ SetShareState(p, "seeding", t.ih)
        /\ rebuilt' = [rebuilt EXCEPT ![p] = TRUE]
        /\ AnnounceOnce(p, ih'[p])
        /\ SetTask(p, k, IdleTask)
        /\ SameDisk
        /\ UNCHANGED <<rowVars, conflicts, known, torVars, watched, switching,
                       fsstat, deferred, statusVars, watch, net, ops>>

-----------------------------------------------------------------------------
(* Remote versions: PeerEventHandler, _switch_to_remote_torrent *)

\* Mutant of SwitchToRemote: the old handle stays in the session.
SwitchKeepsHandle(p, v, kind) ==
    IF switching[p]
    THEN UNCHANGED <<switching, task, shareVars, watched, torVars>>
    ELSE /\ switching' = [switching EXCEPT ![p] = TRUE]
         /\ SetShareState(p, "syncing", v)
         /\ watched' = [watched EXCEPT ![p] = FALSE]
         /\ tfile' = [tfile EXCEPT ![p] = NoHash]
         /\ UNCHANGED handle
         /\ Spawn(p, NewTask(kind, "add", v))

\* Mutant of SwitchToRemote: the share keeps its state and its watcher.
SwitchInPlace(p, v, kind) ==
    IF switching[p]
    THEN UNCHANGED <<switching, task, shareVars, watched, torVars>>
    ELSE /\ switching' = [switching EXCEPT ![p] = TRUE]
         /\ SetShareState(p, state[p], v)
         /\ UNCHANGED watched
         /\ DropTorrent(p)
         /\ Spawn(p, NewTask(kind, "add", v))

\* Up to the await: guard, row, watcher off, torrent and handle dropped.
SwitchToRemote(p, v, kind) ==
    IF switching[p]
    THEN UNCHANGED <<switching, task, shareVars, watched, torVars>>
    ELSE /\ switching' = [switching EXCEPT ![p] = TRUE]
         /\ SetShareState(p, "syncing", v)
         /\ watched' = [watched EXCEPT ![p] = FALSE]
         /\ DropTorrent(p)
         /\ Spawn(p, NewTask(kind, "add", v))

\* After the await: only the guard is released.
SwitchFinish(p, k) ==
    /\ task[p][k].pc = "finish" /\ task[p][k].kind \in SwitchKinds
    /\ switching' = [switching EXCEPT ![p] = FALSE]
    /\ SetTask(p, k, IdleTask)
    /\ SameDisk
    /\ UNCHANGED <<rowVars, shareVars, seq, conflicts, known, torVars,
                   watched, fsVars, statusVars, regVars, net, ops>>

\* rename_conflict_files renames what the file index lists, maybe nothing.
RenameConflictFiles(p) ==
    \/ SameDisk
    \/ disk[p] # NoHash /\ WriteNew(p, disk[p] \in partial)

\* handle_remote_update: apply the conflict strategy to remote version v.
HandleRemoteUpdate(p, v, kind) ==
    \/ /\ strat[p] = "last_write_wins"
       /\ SwitchToRemote(p, v, kind)
       /\ SameDisk
       /\ UNCHANGED conflicts
    \/ /\ strat[p] = "rename_conflict"
       /\ RenameConflictFiles(p)
       /\ SwitchToRemote(p, v, kind)
       /\ UNCHANGED conflicts
    \/ /\ strat[p] = "ask"
       /\ conflicts' = [conflicts EXCEPT ![p] = @ \cup {v}]
       /\ SetShareState(p, "paused", NoHash)
       /\ watched' = [watched EXCEPT ![p] = FALSE]
       /\ SameDisk
       /\ UNCHANGED <<switching, task, torVars>>

\* Mutant of AdoptSeq: set_share_seq is not called.
AdoptSeqForgotten(p, s) == seq' = seq

\* handle_lan_peer: adopt a newer seq, then apply the remote version.
AdoptSeq(p, s) == seq' = [seq EXCEPT ![p] = s]

ReceiveLan(p, q, m) ==
    /\ p # q /\ m \in net[q]
    /\ row[p]
    /\ LocalOnly \/ q \in known[p]
    /\ known' = [known EXCEPT ![p] = @ \cup {q}]
    /\ LET differ == m.ih # NoHash /\ ih[p] # NoHash /\ m.ih # ih[p]
       IN  \/ /\ m.ih # NoHash /\ ih[p] = NoHash
              /\ AdoptSeq(p, m.seq)
              /\ SwitchToRemote(p, m.ih, "switch")
              /\ SameDisk
              /\ UNCHANGED conflicts
           \/ /\ differ /\ m.seq > seq[p]
              /\ AdoptSeq(p, m.seq)
              /\ HandleRemoteUpdate(p, m.ih, "switch")
           \/ /\ differ /\ m.seq = seq[p]
              /\ UNCHANGED seq
              /\ HandleRemoteUpdate(p, m.ih, "switch")
           \/ /\ \/ m.ih = NoHash \/ m.ih = ih[p]
                 \/ differ /\ m.seq < seq[p]
              /\ SameDisk
              /\ UNCHANGED <<seq, conflicts, switching, task, shareVars,
                             watched, torVars>>
    /\ UNCHANGED <<rowVars, fsVars, statusVars, regVars, net, ops>>

\* An ONLINE or UPDATED event of the watch stream.  The stream's loop awaits
\* the handler, so no event is taken while it awaits a switch.
ReceiveReg(p, q) ==
    /\ ~LocalOnly /\ p # q /\ ann[q] # NoHash
    /\ watch[p] = "live"
    /\ \A k \in Slots : task[p][k].kind # "regswitch"
    /\ known' = [known EXCEPT ![p] = @ \cup {q}]
    /\ UNCHANGED seq
    /\ IF row[p] /\ ih[p] # NoHash /\ ann[q] # ih[p]
       THEN HandleRemoteUpdate(p, ann[q], "regswitch")
       ELSE SameDisk /\ UNCHANGED <<conflicts, switching, task, shareVars,
                                    watched, torVars>>
    /\ UNCHANGED <<rowVars, fsVars, statusVars, regVars, net, ops>>

-----------------------------------------------------------------------------
(* Announcements *)

\* LanDiscovery._announce_loop: periodic, every share that is not paused, sent
\* twice.  An older packet of the same sender may still be under way.
AnnounceLan(p) ==
    /\ Peers # {p}                      \* outsiders ignore packets
    /\ row[p] /\ state[p] # "paused"
    /\ \E old \in SUBSET net[p] :
           /\ Cardinality(old) < MaxLag
           /\ net' = [net EXCEPT ![p] =
                         old \cup {[ih |-> ih[p], seq |-> seq[p]]}]
    /\ SameDisk
    /\ UNCHANGED <<rowVars, shareVars, seq, conflicts, known, torVars,
                   watched, taskVars, fsVars, statusVars, regVars, ops>>

\* AnnounceManager._announce_loop, which pausing does not stop.
Heartbeat(p) ==
    /\ ~LocalOnly /\ watch[p] # "none"
    /\ AnnounceOnce(p, IF row[p] THEN ih[p] ELSE NoHash)
    /\ SameDisk
    /\ UNCHANGED <<rowVars, shareVars, seq, conflicts, known, torVars,
                   watched, taskVars, fsVars, statusVars, watch, net, ops>>

\* A daemon outside the model announces a version it published before, or a
\* new one, never under a seq below the one the version was published with.
OutsiderAnnounce(o, v, s) ==
    /\ Op("announce")
    /\ \/ v = nver + 1 /\ nver < MaxVersion /\ s > 0
          /\ nver' = nver + 1
          /\ birth' = [birth EXCEPT ![v] = s + 1]
       \/ v \in 1..nver /\ birth[v] \in 1..(s + 1)
          /\ UNCHANGED <<nver, birth>>
    /\ \E old \in SUBSET net[o] :
           /\ Cardinality(old) < MaxLag
           /\ net' = [net EXCEPT ![o] = old \cup {[ih |-> v, seq |-> s]}]
    /\ ann' = IF LocalOnly THEN ann ELSE [ann EXCEPT ![o] = v]
    /\ UNCHANGED <<rowVars, state, ih, seq, conflicts, known, disk, partial,
                   fsq, torVars, watched, taskVars, fsVars, statusVars, watch>>

-----------------------------------------------------------------------------
(* libtorrent (external) and the status loop *)

Source(p, v) ==
    \/ Outsiders # {}
    \/ \E q \in Peers \ {p} : /\ handle[q].ih = v
                              /\ handle[q].st = "complete"
                              /\ disk[q] = v

\* ut_metadata arrives; pre-positioning and the first pieces change the
\* directory into a half-downloaded one.
LtMetadata(p) ==
    /\ handle[p].st = "magnet" /\ Source(p, handle[p].ih)
    /\ handle' = [handle EXCEPT ![p].st = "downloading"]
    /\ \/ SameDisk
       \/ WriteNew(p, TRUE)
    /\ UNCHANGED <<rowVars, shareVars, seq, conflicts, known, tfile,
                   watched, taskVars, fsVars, statusVars, regVars, net, ops>>

\* Every piece is there: the directory holds the torrent's content.
LtFinish(p) ==
    /\ handle[p].st = "downloading"
    /\ Source(p, handle[p].ih) \/ disk[p] = handle[p].ih
    /\ handle' = [handle EXCEPT ![p].st = "complete", ![p].alert = TRUE]
    /\ WriteDisk(p, handle[p].ih)
    /\ UNCHANGED <<rowVars, shareVars, seq, conflicts, known, nver, partial,
                   tfile, watched, taskVars, fsVars, statusVars, regVars, net,
                   ops>>

\* The alert thread queues the status of a handle that is still the share's.
\* Bound: one status in the queue.
StatusAlert(p) ==
    /\ handle[p].alert /\ status[p] = NoHash
    /\ status' = [status EXCEPT ![p] = handle[p].ih]
    /\ handle' = [handle EXCEPT ![p].alert = FALSE]
    /\ SameDisk
    /\ UNCHANGED <<rowVars, shareVars, seq, conflicts, known, tfile, watched,
                   taskVars, fsVars, indexing, regVars, net, ops>>

\* Mutant of StatusHandle: stores libtorrent's word for the state.
StatusHandleRaw(p) ==
    /\ status[p] # NoHash /\ ~indexing[p]
    /\ status' = [status EXCEPT ![p] = NoHash]
    /\ IF row[p] /\ state[p] = "syncing"
       THEN state' = [state EXCEPT ![p] = "finished"]
       ELSE UNCHANGED state
    /\ SameDisk
    /\ UNCHANGED <<rowVars, ih, birth, seq, conflicts, known, torVars, watched,
                   taskVars, fsVars, indexing, regVars, net, ops>>

\* _status_update_loop: SYNCING becomes SEEDING with the status's info-hash.
StatusHandle(p) ==
    /\ status[p] # NoHash /\ ~indexing[p]
    /\ status' = [status EXCEPT ![p] = NoHash]
    /\ UNCHANGED seq
    /\ IF row[p] /\ state[p] = "syncing"
       THEN /\ SetShareState(p, "seeding", status[p])
            /\ indexing' = [indexing EXCEPT ![p] = TRUE]
       ELSE UNCHANGED <<shareVars, indexing>>
    /\ SameDisk
    /\ UNCHANGED <<rowVars, conflicts, known, torVars, watched,
                   taskVars, fsVars, regVars, net, ops>>

\* Mutant of StatusIndexed: the watcher stays off.
StatusIndexedUnwatched(p) ==
    /\ indexing[p]
    /\ indexing' = [indexing EXCEPT ![p] = FALSE]
    /\ SameDisk
    /\ UNCHANGED <<rowVars, shareVars, seq, conflicts, known, torVars, watched,
                   taskVars, fsVars, status, regVars, net, ops>>

\* The files are indexed; the watcher comes back whatever happened meanwhile.
StatusIndexed(p) ==
    /\ indexing[p]
    /\ indexing' = [indexing EXCEPT ![p] = FALSE]
    /\ watched' = [watched EXCEPT ![p] = TRUE]
    /\ SameDisk
    /\ UNCHANGED <<rowVars, shareVars, seq, conflicts, known, torVars,
                   taskVars, fsVars, status, regVars, net, ops>>

-----------------------------------------------------------------------------
(* The user, and crashes *)

UserEdit(p) ==
    /\ p \in Writers
    /\ WriteNew(p, FALSE)
    /\ UNCHANGED <<rowVars, shareVars, seq, conflicts, known, torVars,
                   watched, taskVars, fsVars, statusVars, regVars, net, ops>>

DeleteAll(p) ==
    /\ Op("delete") /\ p \in Writers /\ disk[p] # NoHash
    /\ WriteDisk(p, NoHash)
    /\ UNCHANGED <<rowVars, shareVars, seq, conflicts, known, nver, partial,
                   torVars, watched, taskVars, fsVars, statusVars, regVars, net>>

\* add_share of a share that is there: the row stays, activation runs again.
ReAddShare(p) ==
    /\ Op("readd") /\ row[p]
    /\ StartActivation(p)
    /\ SameDisk
    /\ UNCHANGED <<rowVars, shareVars, seq, conflicts, known, torVars,
                   switching, fsVars, statusVars, regVars, net>>

PauseShare(p) ==
    /\ Op("pause")
    /\ UNCHANGED seq
    /\ SetShareState(p, "paused", NoHash)
    /\ watched' = [watched EXCEPT ![p] = FALSE]
    /\ watch' = [watch EXCEPT ![p] = IF @ = "live" THEN "stopped" ELSE @]
    /\ SameDisk
    /\ UNCHANGED <<rowVars, conflicts, known, torVars, taskVars, fsVars,
                   statusVars, ann, net>>

ResumeShare(p) ==
    /\ Op("resume") /\ row[p]
    /\ UNCHANGED seq
    /\ SetShareState(p, "syncing", NoHash)
    /\ StartActivation(p)
    /\ SameDisk
    /\ UNCHANGED <<rowVars, conflicts, known, torVars, switching, fsVars,
                   statusVars, regVars, net>>

\* Mutant of CancelWatchTask: the switch it runs is forgotten, its guard is not.
CancelWatchTaskLeaks(p) ==
    /\ task' = [task EXCEPT ![p] = [k \in Slots |->
           IF task[p][k].kind = "regswitch" THEN IdleTask ELSE task[p][k]]]
    /\ UNCHANGED switching

\* The watch task is cancelled.  A switch it awaits ends there and releases the
\* guard (at the loop's next turn, before any other event of the share), but a
\* pool thread that has begun add_share goes on.  Switches of LAN packets and
\* resolutions are other tasks: they keep running, and keep the guard.
CancelWatchTask(p) ==
    LET cut == {k \in Slots : task[p][k].kind = "regswitch"}
    IN  /\ switching' = [switching EXCEPT ![p] = @ /\ cut = {}]
        /\ \E begun \in SUBSET {k \in cut : task[p][k].pc = "add"} :
              task' = [task EXCEPT ![p] = [k \in Slots |->
                  IF k \in begun THEN NewTask("orphan", "left", task[p][k].ih)
                  ELSE IF k \in cut THEN IdleTask ELSE task[p][k]]]

\* remove_share.  Conflict rows, known peers and the cached .torrent stay;
\* delete_files takes what the torrent put there.
RemoveShare(p) ==
    /\ Op("remove") /\ row[p]
    /\ row' = [row EXCEPT ![p] = FALSE]
    /\ ih' = [ih EXCEPT ![p] = NoHash]
    /\ seq' = [seq EXCEPT ![p] = 0]
    /\ state' = [state EXCEPT ![p] = "syncing"]
    /\ watch' = [watch EXCEPT ![p] = "none"]
    /\ CancelWatchTask(p)
    /\ watched' = [watched EXCEPT ![p] = FALSE]
    /\ rebuilt' = [rebuilt EXCEPT ![p] = FALSE]
    /\ deferred' = [deferred EXCEPT ![p] = FALSE]
    /\ handle' = [handle EXCEPT ![p] = NoHandle]
    /\ \/ SameDisk
       \/ /\ handle[p].st \in {"downloading", "complete"}
          /\ disk' = [disk EXCEPT ![p] = NoHash]
          /\ UNCHANGED <<fsq, nver, partial>>
    /\ UNCHANGED <<strat, birth, conflicts, known, tfile, fsstat, statusVars,
                   ann, net>>

\* resolve_conflict: the conflict row goes first, then the version is chosen.
ResolveConflict(p, v) ==
    /\ Op("resolve") /\ row[p] /\ v \in conflicts[p]
    /\ conflicts' = [conflicts EXCEPT ![p] = @ \ {v}]
    /\ UNCHANGED seq
    /\ \/ /\ StartActivation(p)                      \* keep-local
          /\ UNCHANGED <<switching, shareVars, torVars>>
       \/ SwitchToRemote(p, v, "switch")             \* keep-remote
    /\ SameDisk
    /\ UNCHANGED <<rowVars, known, fsVars, statusVars, regVars, net>>

SetConflictStrategy(p, s) ==
    /\ Op("strategy") /\ row[p] /\ s # strat[p]
    /\ strat' = [strat EXCEPT ![p] = s]
    /\ SameDisk
    /\ UNCHANGED <<row, shareVars, seq, conflicts, known, torVars, watched,
                   taskVars, fsVars, statusVars, regVars, net>>

\* The process stops or crashes and starts again: rows and files survive, and
\* _registry_connect_loop is scheduled.
Restart(p) ==
    /\ Op("restart")
    /\ handle' = [handle EXCEPT ![p] = NoHandle]
    /\ watched' = [watched EXCEPT ![p] = FALSE]
    /\ switching' = [switching EXCEPT ![p] = FALSE]
    /\ \E k \in Slots :
          /\ \A j \in Slots : k <= j
          /\ task' = [task EXCEPT ![p] = [j \in Slots |->
                 IF j = k THEN NewTask("activate", "boot", NoHash)
                          ELSE IdleTask]]
    /\ fsq' = [fsq EXCEPT ![p] = FALSE]
    /\ fsstat' = [fsstat EXCEPT ![p] = FALSE]
    /\ rebuilt' = [rebuilt EXCEPT ![p] = FALSE]
    /\ deferred' = [deferred EXCEPT ![p] = FALSE]
    /\ status' = [status EXCEPT ![p] = NoHash]
    /\ indexing' = [indexing EXCEPT ![p] = FALSE]
    /\ watch' = [watch EXCEPT ![p] = "none"]
    /\ UNCHANGED <<rowVars, shareVars, seq, conflicts, known, diskVars,
                   tfile, ann, net>>

\* _registry_connect_loop activates every share that is not paused.
Boot(p, k) ==
    /\ task[p][k].pc = "boot"
    /\ IF row[p] /\ state[p] # "paused"
       THEN /\ watched' = [watched EXCEPT ![p] = TRUE]
            /\ SetTask(p, k, [task[p][k] EXCEPT !.pc = "scan"])
       ELSE SetTask(p, k, IdleTask) /\ UNCHANGED watched
    /\ SameDisk
    /\ UNCHANGED <<rowVars, shareVars, seq, conflicts, known, torVars,
                   switching, fsVars, statusVars, regVars, net, ops>>

-----------------------------------------------------------------------------
(* Specification *)

TaskStep(p, k) ==
    \/ Boot(p, k)
    \/ ActivateScan(p, k)
    \/ ActivateFinish(p, k)
    \/ LtAddShare(p, k)
    \/ RebuildStart(p, k)
    \/ RebuildFinish(p, k)
    \/ SwitchFinish(p, k)

\* What ends in a pool thread with nothing to resume: a cancelled switch, or an
\* add_share that failed.
PoolStep(p, k) == LtAddLeft(p, k) \/ AddShareFails(p, k)

LoopStep(p) ==
    \/ FsEvent(p)
    \/ FsSchedule(p)
    \/ DeferredFire(p)
    \/ StatusAlert(p)
    \/ StatusHandle(p)
    \/ StatusIndexed(p)
    \/ AnnounceLan(p)
    \/ Heartbeat(p)

Receive(p) ==
    \/ \E q \in Peers \cup Outsiders : \E m \in net[q] : ReceiveLan(p, q, m)
    \/ \E q \in Peers \cup Outsiders : ReceiveReg(p, q)

Transfer(p) == LtMetadata(p) \/ LtFinish(p)

UserStep(p) ==
    \/ \E s \in Strategies : AddShare(p, s)
    \/ UserEdit(p)
    \/ DeleteAll(p)
    \/ ReAddShare(p)
    \/ PauseShare(p)
    \/ ResumeShare(p)
    \/ RemoveShare(p)
    \/ \E v \in Version : ResolveConflict(p, v)
    \/ \E s \in Strategies : SetConflictStrategy(p, s)
    \/ Restart(p)

OutsiderStep(o) == \E v \in Version : \E s \in 1..MaxSeq : OutsiderAnnounce(o, v, s)

Next ==
    \/ \E p \in Peers : \/ \E k \in Slots : TaskStep(p, k) \/ PoolStep(p, k)
                        \/ LoopStep(p)
                        \/ Receive(p)
                        \/ Transfer(p)
                        \/ UserStep(p)
    \/ \E o \in Outsiders : OutsiderStep(o)

Spec == Init /\ [][Next]_vars

\* The event loop and the thread pool run every coroutine that can run; the
\* LAN loop repeats its packet, so one of them arrives; libtorrent finishes a
\* download some peer can serve.  Users and outsiders owe nothing.
Fairness ==
    \A p \in Peers :
        /\ \A k \in Slots : WF_vars(TaskStep(p, k)) /\ WF_vars(LtAddLeft(p, k))
        /\ WF_vars(FsEvent(p)) /\ WF_vars(FsSchedule(p))
        /\ WF_vars(DeferredFire(p))
        /\ WF_vars(StatusAlert(p)) /\ WF_vars(StatusHandle(p))
        /\ WF_vars(StatusIndexed(p))
        /\ WF_vars(AnnounceLan(p)) /\ WF_vars(Receive(p))
        /\ WF_vars(Transfer(p))

FairSpec == Spec /\ Fairness

-----------------------------------------------------------------------------
(* Properties *)

TypeOK ==
    /\ row \in [Peers -> BOOLEAN]
    /\ strat \in [Peers -> AllStrategies]
    /\ state \in [Peers -> ShareState]
    /\ ih \in [Peers -> Hash]
    /\ seq \in [Peers -> Nat]
    /\ birth \in [Version -> Nat]
    /\ conflicts \in [Peers -> SUBSET Version]
    /\ known \in [Peers -> SUBSET (Peers \cup Outsiders)]
    /\ disk \in [Peers -> Hash]
    /\ nver \in 0..MaxVersion
    /\ partial \subseteq Version
    /\ tfile \in [Peers -> Hash]
    /\ handle \in [Peers -> Handle]
    /\ watched \in [Peers -> BOOLEAN]
    /\ switching \in [Peers -> BOOLEAN]
    /\ task \in [Peers -> [Slots -> Task]]
    /\ fsq \in [Peers -> BOOLEAN]
    /\ fsstat \in [Peers -> BOOLEAN]
    /\ rebuilt \in [Peers -> BOOLEAN]
    /\ deferred \in [Peers -> BOOLEAN]
    /\ status \in [Peers -> Hash]
    /\ indexing \in [Peers -> BOOLEAN]
    /\ watch \in [Peers -> {"none", "live", "stopped"}]
    /\ ann \in [Peers \cup Outsiders -> Hash]
    /\ net \in [Peers \cup Outsiders -> SUBSET Packet]
    /\ ops \in 0..MaxOps

\* _switching does its job among switches: at most one coroutine that replaces
\* the torrent by a remote one is in flight, and the guard is up exactly then,
\* also when add_share fails, when remove_share cancels the switch halfway and
\* when the share is added again.  (What a cancelled switch leaves in the pool is
\* outside the guard: ReplacementExclusion.)
SwitchExclusion ==
    \A p \in Peers :
        LET inFlight == {k \in Slots : task[p][k].kind \in SwitchKinds}
        IN  /\ \A j, k \in inFlight : j = k
            /\ switching[p] <=> inFlight # {}

\* The guard keeps replacements apart in the pool too: at most one add_share of a
\* remote torrent is under way.  remove_share breaks it, since the thread of the
\* switch it cancels goes on without the guard.
ReplacementExclusion ==
    \A p \in Peers : \A j, k \in Slots :
        {task[p][j].kind, task[p][k].kind} \subseteq SwitchKinds \cup {"orphan"}
            => j = k

\* A switch in flight adds a magnet for a version it knows, so it cannot fail
\* on an empty directory: with SwitchExclusion an inductive invariant.
SwitchTasksSound ==
    \A p \in Peers, k \in Slots : task[p][k].kind \in SwitchKinds =>
        /\ task[p][k].pc \in {"add", "finish"}
        /\ task[p][k].pc = "add" => task[p][k].ih # NoHash /\ ~task[p][k].files
SwitchInv == SwitchExclusion /\ SwitchTasksSound

\* A daemon never advertises a version under a smaller seq than the one the
\* version was first published with: an old seq cannot make peers ignore it.
SeqCoversVersion ==
    \A p \in Peers : row[p] /\ ih[p] # NoHash => seq[p] + 1 >= birth[ih[p]]

\* While a share stays on a daemon its change counter never goes back.
SeqMonotonic ==
    [][\A p \in Peers : row[p] /\ row'[p] => seq'[p] >= seq[p]]_vars

\* "Changes on any peer replicate to all others": once every daemon has the
\* share and some content exists, all directories become and stay equal.
ChangesReplicate ==
    (\A p \in Peers : row[p]) /\ nver > 0 ~>
        [](\A p, q \in Peers : disk[p] = disk[q])

\* Two peers that seed different content under the same seq end up with the
\* same content: "one peer's content wins".
OneContentWins ==
    (/\ \A p \in Peers : row[p] /\ state[p] = "seeding"
     /\ \E p, q \in Peers : seq[p] = seq[q] /\ ih[p] # ih[q]) ~>
        (\A p, q \in Peers : disk[p] = disk[q])

\* A daemon with nothing in flight for the share.
Quiet(p) ==
    /\ \A k \in Slots : task[p][k] = IdleTask
    /\ ~fsq[p] /\ ~fsstat[p] /\ ~deferred[p] /\ ~indexing[p]
    /\ status[p] = NoHash /\ ~handle[p].alert

\* The row and libtorrent agree on the info-hash once a switch or a rebuild
\* is over.
RowMatchesHandle ==
    \A p \in Peers : Quiet(p) /\ row[p] /\ handle[p] # NoHandle
                        => ih[p] = handle[p].ih

\* A seeding share is watched, or later local changes would go unnoticed.
SeedingIsWatched ==
    \A p \in Peers : Quiet(p) /\ row[p] /\ state[p] = "seeding" => watched[p]

\* No half-downloaded directory is ever published as a version of its own.
NoPartialPublished == \A v \in partial : birth[v] = 0

\* A share with an unresolved conflict is paused.
ConflictKeepsPaused ==
    \A p \in Peers : row[p] /\ conflicts[p] # {} => state[p] = "paused"

\* A registry share that is active again listens to its peers again.
ActiveShareListens ==
    \A p \in Peers : Quiet(p) /\ row[p] /\ state[p] \in {"seeding", "syncing"}
                        => watch[p] = "live"

\* A daemon with nothing left to do for a share it seeds publishes what is in
\* the directory: no local change was lost on the way through the watcher,
\* the debounce window and overlapping rebuilds.
LocalChangePublished ==
    \A p \in Peers :
        Quiet(p) /\ row[p] /\ state[p] = "seeding" => ih[p] = disk[p]

\* A removed share leaves no torrent and no watcher behind.
RemovedLeavesNothing ==
    \A p \in Peers : Quiet(p) /\ ~row[p] => handle[p] = NoHandle /\ ~watched[p]

\* With strategy "ask" and no resolution, only the user replaces a complete
\* directory: a step that changes it is an edit or one of the user's operations.
AskNeverOverwrites ==
    [][\A p \in Peers :
         strat[p] = "ask" /\ disk[p] \notin partial \cup {NoHash} /\ disk'[p] # disk[p]
            => ops' > ops \/ (nver' > nver /\ partial' = partial)]_vars

====
