# TLA+ verification of peerdup

Paths are relative to `src/`.

## 1. Inventory

peerdup replicates directories ("shares") between machines. Every machine runs a
**daemon**; an optional **registry** keeps the access list and brokers presence;
an optional **relay** joins two TCP connections of peers behind NAT; file data
moves only through libtorrent.

| Part | Code | State it keeps | Operations | Talks to |
|------|------|----------------|------------|----------|
| SyncCoordinator | `daemon/daemon/sync/coordinator.py` | `_switching`, watch tasks, event and status queues | create/add/remove/pause/resume share, resolve conflict, `_activate_share`, `_switch_to_remote_torrent`, `_handle_fs_event`, status loop | all daemon parts |
| TorrentManager | `daemon/daemon/sync/torrent_mgr.py` | `_last_rebuild`, `_pending_rebuild` | activate, deactivate, replace_with_remote, schedule_or_rebuild, rebuild, pre-positioning | session, state DB |
| PeerEventHandler | `daemon/daemon/sync/peer_handler.py` | none of its own | registry events, LAN peers, conflict strategies, policy | coordinator callbacks |
| AnnounceManager | `daemon/daemon/sync/announce.py` | heartbeat tasks | start/stop share, announce | registry client |
| LibtorrentSession | `daemon/daemon/torrent/session.py` | `_handles` under a lock | add/remove share, limits, alert thread | libtorrent |
| StateDB | `daemon/daemon/state/db.py` | SQLite rows: share, files, peers, conflicts, keys | typed get/set helpers, one transaction each | disk |
| LanDiscovery | `daemon/daemon/lan/discovery.py` | sockets | broadcast `(share, info_hash, seq)`, receive | other daemons, unreliable UDP |
| FileWatcher | `daemon/daemon/watcher/fs.py` | watches, debounce table, timer | add/remove share, debounce, flush | watchdog thread -> event loop |
| RegistryClient | `daemon/daemon/registry/client.py` | token, channel | RPC stubs, `watch_share_peers_loop` with back-off | registry |
| Relay client | `daemon/daemon/relay/client.py` | one tunnel per call | `open_relay_bridge` | relay |
| ControlServicer, CLI | `daemon/daemon/control/servicer.py`, `daemon/cli/peerdup.py` | status subscribers | one RPC per coordinator method | coordinator |
| RegistryServicer | `registry/registry/servicer/registry.py` | SQL rows: peers, shares, members, announcements | Register, CreateShare, Add/RemovePeer, Announce, Watch, policy | event bus |
| TTL sweep | `registry/registry/ttl.py` | - | delete expired announcements, publish OFFLINE | event bus |
| EventBus | `registry/registry/events.py` | one bounded queue per stream | publish, subscribe | watch streams |
| RateLimiter | `registry/registry/servicer/registry.py` | token bucket per (peer, share) | is_allowed | Announce |
| Relay server | `relay/relay/server.py` | `_waiting` table under a lock | handle client, pair, pipe, time out | relay clients |

How they interact. A daemon is one asyncio loop. Two threads feed it through
queues (the watchdog observer of the FileWatcher, the libtorrent alert thread),
and a thread pool does what would block it: scan and hash a directory, add a
handle, read the next event of a registry stream. Daemons meet through UDP
packets `(share, info_hash, seq)` every 30 seconds and, for registry shares,
through Announce and WatchSharePeers. The registry's RPC handlers run in a gRPC
thread pool and publish through `run_coroutine_threadsafe` into one asyncio loop,
which also runs the TTL sweep and the drain of every stream. The relay is one
asyncio loop with a coroutine per connection. The control server has a gRPC
thread pool of its own; most of its calls hand a coroutine to the loop and wait for
it, `ListSharePeers` and `GetShareInfo` call the registry on their thread, and
`set-limit` writes database and libtorrent there.

What is hard.

* *Coroutines that overlap.* An activation, a rebuild and a switch of the same
  share can all be suspended at once; each has read the row before its await and
  writes row, handle and watcher after it. Only switches exclude each other.
* *Unreliable, unordered news.* Packets are lost and come late; the registry
  announces a hash without a seq; a version and its seq are stored in two steps.
* *Restart.* Row, directory and `.torrent` survive, everything else is lost, at
  any point of a download or a rebuild.
* *The registry's two worlds.* Checks and writes are separate transactions, events
  are published after the commit, bounded queues drop, and one call that blocks the
  loop stops everything that runs on it.
* *Everyone waits for everyone.* Unary registry calls block the daemon's loop; each
  watch stream holds a thread of the default pool and one of the registry's; a
  control call holds a control thread until the loop has run it.
* *Two writers of one limit.* The owner's policy and the user's cap meet in a
  libtorrent handle that rebuilds and switches create anew.
* *Debouncing.* Reports are merged per path, a timer thread flushes the table, the
  loop handles an event only after a stat, and files change meanwhile.
* *The relay's rendezvous.* Connectors, time-outs, overwritten entries and lost
  connections race for one table.

What makes each part correct.

| Part | Property |
|------|----------|
| one share, all daemons | changes reach every directory; no half-downloaded directory is published; "ask" asks; one switch at a time; seqs never go back and cover their version |
| relay | a session is in one tunnel only, the table respects its limit, whoever waits is answered or dropped, and a tunnel joins two sessions that want each other |
| registry | the owner stays a member, heartbeats are seen by every open stream, what expired is swept, and the loop never stops (the last two do not hold, section 4) |
| file watcher | no change to a watched file is forgotten before a rebuild is requested; the file index keeps no deleted file |
| threads of the daemon | the loop, every job and the shutdown come to their end; streams return after an outage |
| bandwidth | a policy ends in force, merged with the local cap; a restart never leaves a limit laxer than the stored cap |
| LAN packet | what is reported is true; what can be packed comes back unchanged |
| rate limiter | a denied caller that returns when it was told to is let in; the configured rate holds |
| pre-positioning | untracked files survive; a file that is there ends where the torrent wants it, unless libtorrent wrote that path itself |

The hazards, each at its line, are in `PROJECT.json`.

## 2. Modules

| Module | Models | Extends |
|--------|--------|---------|
| `ShareSync` | one share on all daemons: coordinator, torrent manager, peer handler, announce manager, libtorrent session, state DB, LAN, watch stream | |
| `MCShareSync` | starting points for runs with several daemons | `ShareSync` |
| `ShareSyncProofs` | theorems about `ShareSync` and about one edit of `MCShareSync`'s settled share | `MCShareSync`, TLAPS |
| `Relay` | relay server and the client's connection | |
| `Rendezvous` | what a relay promises, abstractly; `Relay` instantiates it | |
| `RelayProofs` | theorems about `Relay` | `Relay`, TLAPS |
| `Registry` | one share of the registry: membership, announcements, event bus, streams, sweep, loop and thread pool | |
| `RegistryProofs` | theorems about `Registry` | `Registry`, TLAPS |
| `AnnounceLimiter` | the token bucket of one (peer, share) | |
| `Preposition` | `_preposition_for_layout`: moving local files into a new layout | |
| `PrepositionProofs` | theorems about `Preposition` | `Preposition`, TLAPS |
| `FileWatcher` | one share's way from a change of a file to a rebuild request, and its file index | |
| `FileWatcherProofs` | theorems about `FileWatcher` | `FileWatcher`, TLAPS |
| `Daemon` | who waits for whom: loop, default pool, control threads, registry threads | |
| `DaemonProofs` | theorems about `Daemon` | `Daemon`, TLAPS |
| `Bandwidth` | the rate limit of one registry share on one daemon, and theorems about it | TLAPS |
| `LanDiscovery` | the announcement packet byte by byte, its senders and readers | |
| `MCLanDiscovery` | hashes and names for `LanDiscovery` | `LanDiscovery` |
| `AnnounceProofs` | theorems about `LanDiscovery` and `AnnounceLimiter` | both, TLAPS |

Operators named as mutants change one definition the way a plausible bug would;
`PROJECT.json` says which property each of them must break. They are in no
specification.

### ShareSync

State. `row, state, ih, seq, strat, conflicts, known` are the rows of the state
DB; `disk` and `tfile` the directory and the cached `.torrent`; `handle` the
libtorrent handle; `watched` the file watcher; `switching` the guard; `task[p][k]`
a coroutine suspended at an await, with the info-hash it works on; `fsq, fsstat,
rebuilt, deferred` the way of a file event through the queue, the stat and the
debounce of rebuilds; `status, indexing` the status loop; `watch, ann` the
registry; `net` the LAN. `nver, partial, birth` are history: which versions exist,
which are half-downloaded directories, and the seq under which a version was
first published.

A directory content and its info-hash are one number, a *version*: hashing maps a
content to its own version, and a download in progress that finds files in the
directory makes a new, partial version.

Steps. The code between two awaits is one action. An activation is `AddShare` or
`StartActivation`, then `ActivateScan` (directory scan), `LtAddShare` (pool
thread), `ActivateFinish`; a rebuild is `FsEvent`, `FsSchedule`, `RebuildStart` or
`DeferredFire`, `LtAddShare`, `RebuildFinish`; a switch is `ReceiveLan`,
`ReceiveReg` or `ResolveConflict`, `LtAddShare`, `SwitchFinish`. A received packet
is handled up to the first await in one action, with the stored seq, the conflict
strategy and the guard in the code's order.

Failures. `AddShareFails` is `add_share` raising: a switch logs it and releases the
guard, an activation stores ERROR and returns, a rebuild is given up. `RemoveShare`
cancels the watch task (`CancelWatchTask`). A switch that a registry event started
runs inside that task, so it ends there and `_switching` is released; if a pool thread
had begun its `add_share`, that thread goes on as an *orphan* (`LtAddLeft`) and may
still insert its handle. Switches of LAN packets and resolutions are tasks of their own:
they outlive the removal and keep the guard.

Abstractions. `LtAddShare` builds the torrent and inserts the handle in one step
(both run in one pool call; the lock covers the insertion). A finished download
writes the whole directory, so an edit made meanwhile is overwritten, as
libtorrent does with the files of the torrent. A user edit always makes a content
that did not exist before. The status queue holds at most one entry per share. In
the registry the announcement row keeps the latest hash of a peer, and the stream
delivers that (`Registry` has the queues). Outsiders are daemons that announce any
`(hash, seq)` and can serve it: they stand for any number of further members.

### Relay

One handler per connection. `pc` says where it is: reading the hello, sending a
frame while it holds the lock, waiting for its partner, expired, piping, done.
`waiting` is the table, `event` the wake-up, `partner[c]` the session whose bytes
the handler of `c` pipes. A frame suspends only when the connection is lost, and
then raises; that is the source of the error paths. Malformed hellos are one rejected
outcome; a hello that asks for its own sender is accepted, as the server does not look.

`Rendezvous` is the abstract specification: a session is new, then offered, then
taken, never goes back, and a tunnel joins a new session to an offered one it asked
for. The mapping takes a connection before its rendezvous for new, a listed one for
offered, any other for taken, and the pairs of a piping handler and its partner for
the tunnels. Overwritten entries are an offer that replaces an older one of the same
peer. That the *offered* session wanted the newcomer is not promised, because the
code does not keep it (section 4).

### Registry

Handlers are split where their database sessions are: membership and rate limit
(`AnnounceCheck`), upsert (`AnnounceWrite`), publication (`AnnouncePublish`).
`ready` is the FIFO of callbacks on the loop; a loop step starts only if the loop
neither waits in `live_q.put` (`blocked`) nor is inside the sweep. The sweep runs
on the loop but its session is not atomic with the handlers' writes:
`SweepRead`, `SweepPublish`, `SweepCommit`. The session has autoflush off, so the
deletes happen at the commit, by primary key, whatever happened to the row. Signature and token
checks are taken as passed. `Streams` are the stream objects of a run: any watcher
opens one at any time, also while the loop still has the drain of the stream it lost, and
a closed one is not used again. An open stream and a call hold a thread each.
`_active_watches` is written by handler threads without a lock; the model counts each
opening and closing as one step. `StubsTopLevel` says whether `registry_pb2` is a
top-level module: it is in the tests' layout; the shipped build (`registry/setup.py`,
`Makefile`, `install.sh`) puts the stubs into the package, and then the sweep task ends
at its import.

### AnnounceLimiter

`is_allowed` with the clock read before the lock. Tokens are integers: one call
costs `Unit`, a tick returns `Rate`. The specification is `LimiterSpec`, because
`AnnounceProofs` extends this module together with `LanDiscovery`.

### Preposition

One action per file. Files have a directory, a name and a size; the index keeps
one path per name and size, which one is arbitrary because the code takes the last
one `rglob` lists. Empty directories are not modelled; the order of the torrent's
files is arbitrary. libtorrent works on the same paths meanwhile (`LtWrite`): it creates
a wanted file of any size, the full one included, or writes into the one it finds there.
A path that has its full size counts as in place, so the local file is then left where
it is, or deleted as stale; `lt.took` remembers such paths.

### FileWatcher

A change of `disk` puts watchdog's report into `raw`. `Dispatch` starts the handler's
method: `walk` is what it has still to pass to `_debounce`, several entries only for a
renamed directory, which it walks. `Debounce` merges one of them into `pending`, a set
with one entry per path, under the handler's lock and restarts the timer. A fired timer
takes what is due (`Flush`) and its thread emits the events one by one, in any order,
through the bridge into `queue`; the loop handles one at a time, awaits the stat of
the file, updates `index` and requests a rebuild. A timer that fired and waits for the lock can no
longer be cancelled, so two flushes may overlap. `dirty` is history: the kinds of
changes no rebuild request has followed yet. The state "syncing" stands for SYNCING
with an info-hash, "resuming" a resumed share before the status loop has seen it seed;
ERROR and SYNCING without an info-hash, in which an event is treated as in "seeding", are
left out. A switch may come while the status loop awaits the indexing; the watcher is then
on again during the download, and what the download writes is reported.

### Daemon

A segment of a coroutine between two awaits is an action and needs `loop = Idle`; a
unary registry call leaves `loop` occupied until the registry has answered or failed.
`jobs` and `running` are the default pool, `waiting` and `serving` the registry's,
both first in, first out. `wt[s]` is the share's task in `watch_share_peers_loop` and
`cur[s]` says which of the share's streams it reads; `stream[x]` is the client's side of
a stream, and its `next()` is a job. A task that lost its stream, and one that replaces a
removed one, connects at once, so threads of the pool and of the registry may still be
busy with older streams of the share; `Gens` bounds how many streams of a share there
are at a time. `on_event` runs to its end, awaits a job of the pool (a switch), or raises,
after which the loop backs off. A job whose task is cancelled before a thread took it
keeps its place in the queue until a thread drops it. An outage breaks the streams and
fails the calls. Start-up registers, with back-off, and only then
activates the stored shares; shutdown cancels tasks and streams and then waits for
the pool. One activation per share at a time; overlapping ones are in `ShareSync`.
`Workers` are the threads of the registry that other daemons leave, `Working` the shares
whose hashing, stats and sends are modelled.

### Bandwidth

`SetSharePolicy` commits (`policy`) and publishes (`call`) in two steps; the event
comes through `queue` to `_apply_policy`, which reads the row (`ApplyPolicy`) and then
sets the merged limit (`ApplyLimit`) without an await. `set_share_rate_limit` writes `cap`
and then the handle on a control thread, so it can come in between. `ActivateAdd` and `ReplaceAdd` create the handle without a limit.
Upload and download are treated alike, so there is one rate. The stream's queue is
taken to have room; `Registry` models what happens when it has not.

### LanDiscovery

`pack_packet` and `unpack_packet` are operators on sequences of bytes, with the
checks and early returns of the code; the announce loop and the datagram handler are
actions over a network that loses, repeats, reorders and damages datagrams. Byte,
field widths and the largest datagram are parameters, so that a counter overflows and
a packet gets too long after a few steps. With the code's widths a share takes 56
bytes, and the datagram's limit (about 1,168 shares) comes before that of the 16-bit
count. Signatures are ideal: good for the key and bytes they were made of, and
nothing else. Older releases, which send versions 1 to 3, are senders only. Integers are
written byte by byte: `Left` takes the last bytes off a number, `Fits` says nothing is
left after the width of the field, which is when `struct.pack` accepts it.

## 3. Runs

`tlc -workers 2 -config <cfg> <module>`; the longest takes a little over three minutes.

| Run | Question | Instance |
|-----|----------|----------|
| `share_ops` | Do guard, counters and versions stay consistent in a LAN share under edits, deletions, restarts, resolutions, failures of `add_share` and changes of strategy, with other members announcing anything? | 1 daemon, 1 outsider, 2 coroutines, 2 versions, 2 operations; rename_conflict and ask |
| `share_registry` | The same guard with watch stream, heartbeat, failures, pause, resume, re-adding, restart and removal, which cancels a switch halfway. | 1 daemon, 1 outsider, 3 coroutines, 2 versions, 2 operations; last_write_wins |
| `share_one_edit` | Does an edit reach all others, and do all stay equal? Do row and handle agree, are seeding shares watched, is no half download and no unannounced change left? | 3 daemons in sync, the writer edits once; 3 versions, the others half-done downloads |
| `share_two_edits` | And two edits in quick succession? | 2 daemons, 2 edits; **violated** |
| `relay_pairing` | Tunnels, capacity and the end of waiting with connections that come, break and time out; does the relay implement `Rendezvous`? | 3 connections with any hello of 2 peers, 1 share, 1 place in the table |
| `registry_presence` | Membership, sweeps and streams that come and go: owner, heartbeats. | 2 peers, 2 streams of any of them, 3 threads, queues of 1, 3 operations, top-level stubs |
| `limiter_retry` | Is a denied caller told the truth? | 1 thread, burst 2, 30 ticks |
| `preposition_layout` | Untracked files survive, unique files are placed. | every directory, index and layout over 2 directories, 2 names, 2 sizes; 1 write of libtorrent |
| `file_watcher` | Is a change forgotten between a file and a rebuild request? Does the index keep deleted files? | 3 directories, 1 name, 3 operations of any kind |
| `daemon_threads` | Does anybody wait for ever: loop, jobs, shutdown, streams? | 1 registry share, stored or not, with 2 streams, 1 local one, 1 client; 2 pool, 2 registry, 1 control thread; 1 outage, 1 changing call |
| `bandwidth_policy` | Does a policy end in force, and is the stored cap respected after a restart? | 2 limits, 1 owner's call at a time, 4 operations and failures |
| `lan_packet` | Are reports true, and do packets come back unchanged at every boundary? | bytes of 5 values, fields of 1 byte, 2 daemons, 1 older peer, 2 shares, datagrams of 12 bytes |

`share_one_edit` is a statement about calm use: `RowMatchesHandle`,
`SeedingIsWatched`, `NoPartialPublished` and `LocalChangePublished` hold there and
fail when edits, pauses or restarts overlap a switch; section 4 has those cases.
`daemon_threads` likewise shows that nobody waits for ever *as long as* there are more
pool threads than registry shares and more registry threads than streams that stay;
section 4 shows both conditions are needed. Nothing is claimed of control calls: clients
that watch may hold all control threads for as long as they like. `HeartbeatSeen` is
conditional too: one departed client can block the registry's loop for ever
(`Registry_block`), and then no stream is told anything. `registry_presence` has
top-level stubs because the sweep then interferes; that expired rows go is not claimed,
since in the shipped build they stay (`Registry_import`). `StoredCapReturns` says no more
than that the cap is respected after a restart: section 4 has what the documents promise.

Why the bounds are enough. Two coroutine slots are two overlapping tasks, which is
what every race of the coordinator needs; `share_registry` has a third for the thread a
cancelled switch leaves behind. Two versions give a current and a remote one, a third is there where a
partial or an own one is needed. One outsider announces any pair of hash and seq at
any time, so it stands for many. `MaxLag` is 1 because a lost packet is repeated and
a late one is any earlier pair, which the set `net` still delivers after newer
states. A relay table of one place, two keys and three connections: the table is full and
has leaked entries within a few steps, and a second key exists that must not get in; an
entry is overwritten only in a table with more room, which the theorems cover, and shares
do not interact. Registry queues of length 1 are full after one event; two streams are one
that stays and one that comes and goes, of the same peer or of another. One write of
libtorrent is one path taken from the thread, before or after it came there. The file watcher
needs a directory to rename from and to besides the root, and three operations for a
change inside a running debounce inside a running handler. A daemon with one registry
share and two pool threads has one thread to spare, the least `JobsRun` needs; two
registry threads are one for the stream and one for a call, and both are taken for a
while when the share reconnects beside its old stream. Bytes of five values are
the fewest that tell four versions and the lead byte of a long character apart; seqs
then overflow at 5. Deadlock is not checked: the bounds end every run, and a system
nobody uses may rest.

Fairness. In `ShareSync` every coroutine that can run does (asyncio's ready queue is
FIFO, the pool is a FIFO), the LAN loop repeats its packet and some packet arrives,
and libtorrent completes a download that a peer can serve; users and outsiders owe
nothing. In `Relay` handlers go on and `wait_for` timers fire; clients owe nothing.
In `Registry` threads, clock, loop and sweep run as long as the loop is not blocked,
clients read their streams, and only `Steady` peers keep sending heartbeats (which need
a free thread, so more threads than streams); fairness is strong for what needs the
shared loop or a pool thread, because both serve in order of arrival. In
`FileWatcher` the threads and the loop run and timers fire; users and downloads owe
nothing, and `ChangeReported` is about a user who pauses for longer than the debounce
period, as the bound on operations ensures. In `Daemon` all queues are worked off,
and the loop's callbacks get strong fairness because the loop is a FIFO that calls
only occupy for a while; outages may last and watching clients may stay for ever. In
`Bandwidth` the handlers, coroutines and the reconnect go on. `LanDiscovery` states
no liveness: UDP promises nothing. `share_one_edit` starts from the settled state of
`MCShareSync`, which the daemons reach by adding the share.

## 4. Where the code and its documents disagree

The violated run is a finding of `PROJECT.json`:

* `share_two_edits`. `handle_lan_peer` stores the newer seq, then
  `_switch_to_remote_torrent` returns because a switch is in flight. The follower
  announces its old hash under the new seq, the writer takes that for an
  equal-seq conflict and gives up its newest content.

The same modules state further properties that the code does not keep. Each has a
configuration of its own, which TLC refutes:

| Configuration (module) | Property | What happens | The document |
|---|---|---|---|
| `ShareSync_diverged` (MCShareSync) | `OneContentWins` | on equal seq both sides take the other's version and swap contents | `docs/TESTING.md:55` "one peer's content wins" |
| `ShareSync_row_handle` | `RowMatchesHandle` | a rebuild overlaps a switch; the first handle and the last row win | `coordinator.py:804` "The _switching guard prevents concurrent calls racing on DB state and libtorrent handles" |
| `ShareSync_watched` | `SeedingIsWatched` | an activation or rebuild writes SEEDING first, the status loop then leaves the watcher off | `coordinator.py:824` "Re-enabled in _status_update_loop on SEEDING transition" |
| `ShareSync_partial` | `NoPartialPublished` | a rebuild scheduled before the switch hashes the partial directory | `coordinator.py:907` "rebuilding from partial content would produce a wrong info_hash" |
| `ShareSync_restart` | `NoPartialPublished` | after a restart in a magnet download there are files but no `.torrent`, and they are seeded as a version of their own | `docs/TESTING.md:40` "Daemon restart mid-sync - resumes correctly" |
| `ShareSync_ask_bypass` | `AskNeverOverwrites` | while the own files are being hashed the row has no info-hash; a packet counts as a bootstrap and skips the strategy | `daemon/README.md:173` "Pause the share and record the conflict" |
| `ShareSync_paused` | `ConflictKeepsPaused` | an activation in flight overwrites PAUSED | `daemon/README.md:173` "resume only after you resolve it manually" |
| `ShareSync_resume` | `ActiveShareListens` | the finished watch task still counts as running after a pause | `coordinator.py:711` "start watch stream" |
| `ShareSync_removed` | `RemovedLeavesNothing` | the pool thread adds the handle after the removal | `coordinator.py:376` "Remove libtorrent torrent" |
| `ShareSync_import` | `LocalChangePublished` | the deferred rebuild finds SYNCING and gives up | `docs/TESTING.md:34` "all replicate" |
| `Relay_wanted` (Relay) | `PairedAsWanted` | the table does not keep whom a waiter wants | `relay/relay/server.py:14` "pubkey of the peer to connect to" |
| `Relay_listed` | `WaiterIsListed` | a second hello of the same peer overwrites the entry | `relay/relay/server.py:22` "held until partner connects" |
| `Relay_connected` | `ConnectedIsPiped` | the second frame raises after the waiter was told | `relay/relay/server.py:26` "both sides enter raw pipe mode" |
| `Registry_gap` (Registry) | `ViewMatches` | an event between snapshot and subscription is lost | `servicer/registry.py:692` "full state before deltas arrive" |
| `Registry_block` | `LoopGoesOn` | `live_q.put` on the loop waits for a thread that has left | `registry/registry/events.py:35` "drop the event rather than block" |
| `Registry_removed` | `RemovedNotAnnounced` | the announcement is written after the removal | `servicer/registry.py:500` "Also delete any active announcement" |
| `Registry_sweep` | `SweepSparesRenewed` | a renewal between read and commit is deleted | `ttl.py:4` "finds announcements that have expired" |
| `Registry_import` | `ExpiredIsSwept` | the sweep task ends at its import where the stubs are packaged | `setup.py:47` "only works if the stubs are top-level modules" |
| `AnnounceLimiter_rate` (AnnounceLimiter) | `RateRespected` | a denial keeps the refill and the old refill time | `servicer/registry.py:89` "no refill credit consumed" |
| `Preposition_placed` (Preposition) | `PlacedStays` | a file in place is taken for another wanted path | `torrent_mgr.py:393` "Already in place with correct size" |
| `FileWatcher_index` (FileWatcher) | `IndexComplete` | deleted and created again within the window: "deleted" wins and the row of a present file goes | `coordinator.py:1003` "tracked_paths is accurate" |
| `Daemon_local` (Daemon) | `LocalNeedsNoRegistry` | stored local shares wait for the registration to succeed | `README.md:82` "Local-only (LAN, no registry needed)" |
| `Daemon_pool` | `JobsRun` | as many streams as pool threads: no job runs any more | `registry/client.py:334` "doesn't stall the event loop" |
| `Daemon_workers` | `LoopReturns` | streams hold all threads of the registry, the loop waits in a unary call without deadline | `coordinator.py:147` "so startup doesn't block" |
| `Bandwidth_cap` (Bandwidth) | `CapHonoured` | a handle added anew has no limit; an activation overwrites a newer cap | `README.md:182` "Local per-share caps ... always take precedence" |
| `Bandwidth_order` | `PolicyInForce` | two owner's calls publish in the other order than they commit | `servicer/registry.py:951` "Publish POLICY_UPDATED event to all active WatchSharePeers subscribers" |
| `LanDiscovery_each` (MCLanDiscovery) | `EachShareAnnounced` | one share beyond the format, or too many, silences all | `coordinator.py:1042` "triples for all non-paused local shares" |

One disagreement has no configuration, since the code simply does nothing there. A
policy of the owner is kept in memory, in the handle's limit; a restart activates the
share from its row and fetches no policy, so until the next policy event only the cap is
in force. `README.md:182-183` says the more restrictive value wins, and
`daemon/README.md:188-194` that a policy is applied on activation too (it is when a share
is added, not when it is started again). In the model this is `Restart`, which activates
with nothing fetched.

## 5. Proofs

`tlapm <module>.tla` for `ShareSyncProofs`, `RelayProofs`, `RegistryProofs`,
`FileWatcherProofs`, `DaemonProofs`, `PrepositionProofs`, `AnnounceProofs` and
`Bandwidth`; the first takes about five minutes. Every theorem holds for all values of the constants that satisfy the
module's named assumptions, the hypotheses below, and nothing else: any number of
daemons, connections, peers, paths, versions, threads and operations.

**One share on all daemons** (`ShareSyncProofs`).

* `TypeCorrect`: `Spec => []TypeOK`. `TypeOK` is inductive; one lemma per helper that
  writes state and one per group of actions.
* `SwitchesExclusive`: `Spec => []SwitchExclusion`. `SwitchExclusion` alone is not
  inductive: hashing a directory that has lost its last file ends a task in the pool
  call, and the guard would stay up if that task could be a switch.
  `SwitchTasksSound` rules it out: a switch in flight adds a magnet of a known
  version. Most actions leave guard and switch tasks alone; `Calm` says so and
  `CalmKeeps` closes them at once. What remains is starting a switch, its pool call,
  its failure, its end, its cancellation by a removal, and a restart.
* `ReplacementsExclusive`: `Spec => []ReplacementExclusion`, if `"remove"` is not among
  the users' operations: then the guard also keeps the pool threads apart. The hypothesis
  is needed: the orphan of a cancelled switch and a switch of the share added again
  overlap.
* `SeqNeverFalls`: `Spec => SeqMonotonic`, if `"remove"` is not among the users'
  operations. The only assignment that could lower a seq is that of a packet's seq to a
  row without info-hash. `RowInv` says such a row has seq 0 and no switch in flight, a
  daemon without a row has no info-hash, and whatever libtorrent returns to a task is
  one. The hypothesis is needed: a share removed during the switch of a LAN packet leaves
  `_switching` set; added again, it takes over a packet's seq without its hash, and then a smaller
  one. TLC finds that in ten steps.
* `SeqCovers`: `Spec => []SeqCoversVersion` for a LAN share (`LocalOnly`) that is not
  removed. The row alone proves nothing, because its hash comes from elsewhere: a task, a
  handle, the cached torrent, a queued status, a noted conflict, the directory, a packet.
  `CoverInv` therefore speaks of every version a daemon holds anywhere (`HeldCovered`)
  and of every packet (`PacketCovered`), and says that a version nobody has published is
  on one daemon only (`UnbornIsLocal`), or its first publication could outrun the seq
  of another holder. Every step of a daemon is `Sound`: it ends with versions it had,
  wrote, or heard of under a seq it now has, and first publishes only what it had.
  `SoundKeeps` draws the conclusion once. Both hypotheses are needed: registry events
  carry no seq, and removing a share resets the seq but leaves the cached torrent and a
  queued status. TLC refutes the property without either of them.

**One edit of a settled share** (`ShareSyncProofs`, last section). `EditedOnceSpec` is
the specification of `share_one_edit`: all daemons seed version 1, one user changes one
directory once, and the daemons run with any interleaving of coroutines, watchers, status
loops, packets and downloads, over a LAN that loses, repeats and delays. The theorems hold
for any number of daemons, coroutine slots, versions and packets and for every conflict
strategy, under `LocalOnly` and `MaxVersion >= 1` (there is a version to start from).

* `EditRowMatchesHandle`, `EditSeedingIsWatched`, `EditNoPartialPublished` and
  `EditLocalChangePublished`: `EditedOnceSpec => []P` for the four invariants of the run.
  Each is about a daemon *at rest* and says nothing while a task is suspended, so none is
  inductive. `OneEditInv` says what happens in between: every daemon is in one of five
  phases, and the phase fixes row, directory, handle, cached torrent, watcher, queued
  events and every suspended task together. `Old` has not heard of the edit, `Asked` has
  noted a conflict and paused, `Editing` has it in the directory and on its way through
  watcher or rebuild, `Fetching` has switched to it, `Serving` has published or completed
  it. Four facts tie the daemons together: while one is `Editing` all others are `Old`
  (`EditsAlone`); nobody has reached the edit before it was published
  (`ReachedIsPublished`); a packet names version 1 with seq 1, or the published edit with
  a larger seq (`PacketsTell`), so no packet can start a second switch or a switch back;
  and only versions 1 and 2 are ever published (`TwoBorn`). A step of one daemon leaves
  the others in their phase (`ElsewhereKeeps`), so each action is one case per phase.
* `EditKept`: `EditedOnceSpec => EditNeverLost`, an action property: a directory that
  has the edited content keeps it in every step, whatever older packets, switches,
  downloads and rebuilds are still under way.

`LocalOnly` is needed: with a registry share TLC refutes `RowMatchesHandle` from the same
start, because events of the watch stream carry no seq. That there is one edit is needed
too: section 4.

**Relay** (`RelayProofs`, from `RelayAssumption`: shares and peers finite, no bound on
the connections).

* `TypeCorrect`, `TunnelsExclusive` and `CapacityRespected`. The inductive invariant
  `TunnelInv` adds to `TypeOK`: a listed session is listed once, under its own key, and
  unpaired (`ListedOnce`); a handler before the rendezvous has no tunnel (`Untouched`);
  a session served by a tunnel was woken by it and by no other (`ServedByOne`).
  `CapacityRespected` counts: a registration adds at most one key and only below the
  limit, every other step removes keys or keeps them.
* `RelayImplementsRendezvous`: `Spec => ImplementsRendezvous`. Initial states map to
  initial states (`RendezvousInit`); under `TunnelInv` every step maps to an abstract
  step or a stutter (`RendezvousStep`, one case per action). `SameAbstract` closes the
  steps that change neither table nor pipes nor leave the hello, `LeavesHello` those in
  which a session goes. `ListedOnce` is what makes them work: only then does dropping a
  key take exactly one session.

**Registry** (`RegistryProofs`).

* `TypeCorrect`. `TypeOK` is not inductive: `_active_watches` could be counted below
  zero. `OpenCounted` says it is at least the number of open streams.
* `OwnerStaysMember`: `Spec => []OwnerIsMember`, which is inductive as it stands.

**File watcher** (`FileWatcherProofs`).

* `TypeCorrect`, with `StatInv`: a stat has a result only while an event is handled, and
  the path it found is one of the share.
* `EntriesAreTimed`: `Spec => []PendingIsTimed`. An entry that is not due has a running
  timer of its own (`TimedInv`); without that, the flush that takes only the due
  entries could leave the others behind.
* `NoChangeIsLost`: `Spec => []NoLostChange`. That *some* event is under way is not
  inductive, since an event may turn out to be about a file that vanished. `ChangeInv`
  says which event carries the change: the last report of the queue, or every entry of
  the walk, or, behind them, an event that removes a file, one about a file that is
  there, or the handler that runs. Events may be lost only together with a later change,
  which has a later report.
* `IndexStaysClean`: `Spec => []IndexNeverStale`. `IndexInv` says that for a file of the
  top directory that is gone but listed, or about to be listed by the running handler,
  the last report about it is its removal, or, if no report is left, the walk or the
  table, a thread or the queue has the removal (`Removal`).

**Threads of the daemon** (`DaemonProofs`).

* `TypeCorrect`, and `ThreadsBelongToTasks`: `Spec => []NextBelongsToTask`. `ThreadInv`
  says of every stream that it has at most one `next()` in the queue and none there while
  one runs, that a queued one is what the share's task waits for, and that a running one
  is too or its stream is over and not the one a connected task reads. A share may hold
  several threads of the pool for a while, one per stream, and all but one of them are
  let go.

**Pre-positioning** (`PrepositionProofs`).

* `UserFilesSurvive`: `Spec => []OthersSurvive`. A file is indexed under its own name
  (`IndexNames`), so a rename touches only names the torrent wants, and what is removed
  as stale is tracked (`Course`).
* `UniqueFilesPlaced`: `Spec => []UniquePlaced`. `Placing`: before a wanted path is
  looked at, its source is where it was and alone in the index under its name and size;
  after that it is in its place and stays there, or libtorrent took the path and its file
  is there.

**LAN packet** (`AnnounceProofs`, from `FormatAssumption`: the fields hold every
version, identifier and name length, no info-hash is all zeros, shares are finitely many,
a configured name is UTF-8; any base, widths, peers and shares). TLC evaluates the
assumption for the run's constants; the code's (bytes of 256 values, ids of 32 bytes,
hashes of 20, seqs of 4, names cut at 255) satisfy it as well.

* `LanRoundTrip`: `Spec => []RoundTrip`. `unpack_packet` undoes `pack_packet` for every
  list of shares that fits. `Digits` and `Value`, and the loop `PackEntries`, are recursive
  functions, so the proof is by induction over bytes and over entries. The library's
  induction theorems have an operator parameter; `SetInduction` instead says that a *set*
  with 0 and the successors of its members has all numbers, from the well-foundedness of
  `<`, and `LeftDef`, `ValueDef` and `PackEntriesDef` use it to show that the recursive
  functions exist. `ValueOfDigits`: a number that fits its field comes back. `At(b, o, t)`
  says that the bytes `t` are in `b` at offset `o`; `EntryFields`, `PackedEntries` and
  `BodyFields` compute where the writer puts each field, and `UnpackPacked` that the
  reader slices at these offsets, for each of the versions 1 to 4.
* `LanReportsTrue`: `Spec => []ReportsTrue`. A report says nothing of the datagram it came
  from, so the invariant `LanInv` speaks of what is in the air: every datagram, damaged or
  not, bears a peer's signature over a packet that told the truth when it was sent
  (`AirGenuine`), and the history has every row (`Recorded`). Only bytes that are what
  was signed decode, and those decode to what was packed.

**Rate limiter** (`AnnounceProofs`).

* `TypeCorrect`: `LimiterSpec => []TypeOK`, the bucket never exceeds the burst.
* `RetryAfterHonest`: `LimiterSpec => RetryHonest` when one thread calls for the
  key. `PromiseKept`: what is owed is what the bucket lacks, and no clock that was read is
  older than the bucket's last refill, which holds only of calls that follow each other.

**Bandwidth** (in its own module).

* `EffectiveIsTightest`: `EffectiveLimit` is the smaller of the limits that are set, and
  unlimited when none is; and `TypeCorrect`.

Every invariant and every safety property of steps that a run checks is stated by a
theorem; those of `share_one_edit` for the specification of that run with `LocalOnly`,
which the run satisfies, because they do not hold of `Spec` (section 4). Only
model-checked is liveness, which is out of the prover's reach: `ChangesReplicate`,
`WaitEnds`, `HeartbeatSeen`, `ChangeReported`, `LoopReturns`, `JobsRun`,
`StreamReturns`, `ShutdownEnds`, `PolicyInForce` and
`StoredCapReturns`.

## 6. Not modelled

Signatures, tokens and TLS (a guard that is taken as passed, one nondeterministic
refusal, or an ideal signature); opening and closing sockets and the relay's local
bridge; registration and the read-only calls of the registry; contents of control
answers and the status queue; key storage and migrations of the state DB; the command
lines, which parse, call one RPC and print; audit log and metrics; configuration
parsing and logging; generated stubs; the GNOME extension.

## 7. Plan

Done: all modules of section 2 and the theorems of section 5. What is left, in this
order:

1. Crashes between the two commits of a seq and its info-hash, and between the
   deletion of a cached torrent and the end of the rebuild, with a property for what
   the next start announces.
2. An abstract specification of a share, a versioned register per daemon that only
   moves to versions some member published, with `ShareSync` without partial
   downloads shown to implement it.
