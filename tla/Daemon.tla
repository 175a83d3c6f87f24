------------------------------- MODULE Daemon -------------------------------
(***************************************************************************)
(* Who waits for whom in a daemon: the asyncio loop, the default thread    *)
(* pool, the control server's threads and the registry's thread pool.      *)
(*                                                                         *)
(* Unary calls to the registry are made on the event loop and block it     *)
(* until the registry answers.  Every WatchSharePeers stream holds a thread*)
(* of the default pool for its next() and a thread of the registry's pool  *)
(* for as long as it is open.  A control call holds one of the control     *)
(* server's threads until the loop has run its coroutine.                  *)
(*                                                                         *)
(* A segment of a coroutine between two awaits is one step and needs the   *)
(* loop; jobs and calls are queued first in, first out.                    *)
(***************************************************************************)
EXTENDS Naturals, Sequences, FiniteSets, SequencesExt

CONSTANTS
    Shares,
    LocalShares,    \* those with local_only
    Stored,         \* those that may be in the database when the daemon starts
    Clients,        \* command lines and other users of the control socket
    Free,           \* "nothing"
    Threads,        \* threads of the default pool
    Workers,        \* threads of the registry that other daemons leave
    ControlThreads, \* max_workers of the control server
    BackoffMax,
    Working,        \* bound: shares with further jobs for the pool
    Gens,           \* bound: streams of one share that are not yet over
    MaxOutages,     \* bound: times the registry becomes unreachable
    MaxOps,         \* bound: control calls that change something
    UserOps         \* which of AllOps happen

AllOps == {"add", "pause", "resume", "remove", "rpc", "direct", "watch"}

ASSUME DaemonAssumption ==
    /\ LocalShares \subseteq Shares /\ Stored \subseteq Shares
    /\ Working \subseteq Shares
    /\ Free \notin Shares \cup Clients
    /\ {Threads, Workers, ControlThreads, BackoffMax, Gens, MaxOutages, MaxOps}
          \subseteq Nat \ {0}
    /\ UserOps \subseteq AllOps

Remote == Shares \ LocalShares

\* A stream object of a share: the one its watch task uses now, or an older one.
Streams == Shares \X (1..Gens)

\* A job of the thread pool, and a call to the registry.
Cancelled == <<"cancelled", Free>>
Job  == ({"next", "handle"} \X Streams) \cup ({"scan", "torrent", "work"} \X Shares)
        \cup {Cancelled}
Call == ({"watch"} \X Streams) \cup ({"control"} \X Clients) \cup {<<"loop", Free>>}

VARIABLES
    \* event loop and coordinator
    phase,    \* "running", "stopping", "stopped"
    conn,     \* _registry_connect_loop: "try", "sleep", "done"
    loop,     \* the RPC the loop is blocked in: <<kind, subject>>
    row,      \* the share in the state database
    act,      \* where its activation is
    beats,    \* shares with a heartbeat task
    \* watch_share_peers_loop
    wt,       \* where a share's watch task is
    stop,     \* its stop_event
    backoff,
    cur,      \* which of the share's streams it reads
    stream,   \* the client's side of a stream: "queued", "open", "over"
    inbox,    \* an event has arrived on it
    \* default thread pool
    jobs, running,
    \* registry
    up, waiting, serving, outages,
    \* control server
    ctl, ops

coordVars  == <<phase, conn, row, act, beats>>
watchVars  == <<wt, stop, backoff, cur, stream, inbox>>
poolVars   == <<jobs, running>>
regVars    == <<up, waiting, serving, outages>>
ctlVars    == <<ctl, ops>>
vars == <<phase, conn, loop, row, act, beats, wt, stop, backoff, cur, stream,
          inbox, jobs, running, up, waiting, serving, outages, ctl, ops>>

Idle == <<"free", Free>>

Init ==
    /\ phase = "running" /\ conn = "try" /\ loop = Idle
    /\ row \in [Shares -> {"absent", "stored", "paused"}]
    /\ \A s \in Shares : row[s] # "absent" => s \in Stored
    /\ act = [s \in Shares |-> "no"]
    /\ beats = {}
    /\ wt = [s \in Shares |-> "none"]
    /\ stop = [s \in Shares |-> FALSE]
    /\ backoff = [s \in Shares |-> 1]
    /\ cur = [s \in Shares |-> 1]
    /\ stream = [x \in Streams |-> "over"]
    /\ inbox = [x \in Streams |-> FALSE]
    /\ jobs = <<>> /\ running = {}
    /\ up \in BOOLEAN /\ waiting = <<>> /\ serving = {} /\ outages = 0
    /\ ctl = [c \in Clients |-> "idle"] /\ ops = 0

LoopFree == loop = Idle /\ phase = "running"

Set(f, s, v) == [f EXCEPT ![s] = v]

\* A unary call: it reaches the registry unless the channel is broken.
Invoke(call) == waiting' = IF up THEN Append(waiting, call) ELSE waiting

OnLoop == <<"loop", Free>>

\* The loop makes a call and waits for the answer.
CallRegistry(kind, subject) == loop' = <<kind, subject>> /\ Invoke(OnLoop)

Submit(kind, s) == jobs' = Append(jobs, <<kind, s>>)

\* set_share_state writes nothing when the row is gone.
SetShareState(s, v) == row' = IF row[s] = "absent" THEN row ELSE Set(row, s, v)

-----------------------------------------------------------------------------
(* The registry *)

ServeNext ==
    /\ up /\ waiting # <<>> /\ Cardinality(serving) < Workers
    /\ LET c == Head(waiting)
       IN  /\ serving' = serving \cup {c}
           /\ IF c[1] = "watch" /\ stream[c[2]] = "queued"  \* the snapshot first
              THEN /\ stream' = Set(stream, c[2], "open")
                   /\ inbox' = Set(inbox, c[2], TRUE)
              ELSE UNCHANGED <<stream, inbox>>
    /\ waiting' = Tail(waiting)
    /\ UNCHANGED <<coordVars, loop, wt, stop, backoff, cur, poolVars, up, outages,
                   ctlVars>>

SendEvent(x) ==
    /\ <<"watch", x>> \in serving /\ stream[x] = "open" /\ ~inbox[x]
    /\ inbox' = Set(inbox, x, TRUE)
    /\ UNCHANGED <<coordVars, loop, wt, stop, backoff, cur, stream, poolVars, regVars,
                   ctlVars>>

\* The registry, or the way to it, is lost, and every call with it.
GoDown ==
    /\ up /\ outages < MaxOutages
    /\ up' = FALSE /\ outages' = outages + 1
    /\ waiting' = <<>> /\ serving' = {}
    /\ stream' = [x \in Streams |-> "over"]
    /\ UNCHANGED <<coordVars, loop, wt, stop, backoff, cur, inbox, poolVars, ctlVars>>

ComeUp ==
    /\ ~up /\ up' = TRUE
    /\ UNCHANGED <<coordVars, loop, watchVars, poolVars, waiting, serving, outages,
                   ctlVars>>

\* A stream that its client cancelled gives its thread back.
StreamDropped(x) ==
    /\ stream[x] = "over"
    /\ \/ /\ <<"watch", x>> \in serving
          /\ serving' = serving \ {<<"watch", x>>} /\ UNCHANGED waiting
       \/ /\ \E i \in 1..Len(waiting) :
                /\ waiting[i] = <<"watch", x>>
                /\ waiting' = RemoveAt(waiting, i)
          /\ UNCHANGED serving
    /\ UNCHANGED <<coordVars, loop, watchVars, poolVars, up, outages, ctlVars>>

\* Mutant of Returned: with wait_for_ready a call outlasts an outage.
ReturnedWaits(call) == call \in serving

\* A unary call returns: with an answer, or because the registry is not there.
Returned(call) == call \in serving \/ call \notin Range(waiting)

\* The loop goes on.
CallEnds(kind) ==
    /\ loop[1] = kind /\ Returned(OnLoop)
    /\ serving' = serving \ {OnLoop}
    /\ UNCHANGED <<up, outages>>

-----------------------------------------------------------------------------
(* Start-up and activation *)

\* register_peer.
Register ==
    /\ LoopFree /\ conn = "try"
    /\ CallRegistry("register", Free)
    /\ UNCHANGED <<coordVars, watchVars, poolVars, up, serving, outages, ctlVars>>

RegisterReturns ==
    /\ CallEnds("register") /\ loop' = Idle
    /\ conn' = IF OnLoop \in serving THEN "done" ELSE "sleep"
    /\ UNCHANGED <<phase, row, act, beats, watchVars, poolVars, waiting, ctlVars>>

RegisterAgain ==
    /\ LoopFree /\ conn = "sleep"
    /\ conn' = "try"
    /\ UNCHANGED <<phase, loop, row, act, beats, watchVars, poolVars, regVars,
                   ctlVars>>

\* _activate_share up to the scan of the directory.
StartActivation(s) == act' = Set(act, s, "scan") /\ Submit("scan", s)

\* Only then the stored shares, one after the other, the paused ones not.
ResumeStored(s) ==
    /\ LoopFree /\ conn = "done" /\ row[s] = "stored"
    /\ \A t \in Stored : act[t] = "no"
    /\ row' = Set(row, s, "active")
    /\ StartActivation(s)
    /\ UNCHANGED <<phase, conn, loop, beats, watchVars, running, regVars, ctlVars>>

\* The watch task starts unless the table has one, finished or not.
WatchTask(s) ==
    IF wt[s] = "none"
    THEN wt' = Set(wt, s, "connect") /\ stop' = Set(stop, s, FALSE)
    ELSE UNCHANGED <<wt, stop>>

\* The rest of the activation: start_share announces first unless the share has
\* its heartbeat already.
Announce(s) ==
    IF s \in Remote \ beats
    THEN /\ CallRegistry("announce", s) /\ act' = Set(act, s, "announce")
         /\ UNCHANGED <<wt, stop>>
    ELSE /\ loop' = Idle /\ UNCHANGED waiting /\ act' = Set(act, s, "no")
         /\ IF s \in Remote THEN WatchTask(s) ELSE UNCHANGED <<wt, stop>>

\* With files or a cached torrent libtorrent is next.  Without, the registry is
\* asked for a peer's info_hash; a local share just waits.
ActivateScanned(s) ==
    /\ LoopFree /\ act[s] = "scanned"
    /\ \/ /\ act' = Set(act, s, "torrent") /\ Submit("torrent", s)
          /\ UNCHANGED <<loop, waiting, wt, stop, row>>
       \/ /\ s \in Remote /\ CallRegistry("peers", s)
          /\ act' = Set(act, s, "peers")
          /\ UNCHANGED <<wt, stop, row, jobs>>
       \/ /\ s \in LocalShares /\ SetShareState(s, "active") /\ Announce(s)
          /\ UNCHANGED jobs
    /\ UNCHANGED <<phase, conn, beats, backoff, cur, stream, inbox, running, up, serving,
                   outages, ctlVars>>

\* get_share_peers: an info_hash was found, or not.
PeersReturns ==
    LET s == loop[2]
    IN  /\ CallEnds("peers")
        /\ \/ /\ OnLoop \in serving
              /\ act' = Set(act, s, "torrent") /\ Submit("torrent", s)
              /\ loop' = Idle
              /\ UNCHANGED <<waiting, wt, stop, row>>
           \/ /\ SetShareState(s, "active") /\ Announce(s)
              /\ UNCHANGED jobs
        /\ UNCHANGED <<phase, conn, beats, backoff, cur, stream, inbox, running, ctlVars>>

\* libtorrent has the torrent, or raised.
ActivateAdded(s) ==
    /\ LoopFree /\ act[s] = "added"
    /\ \/ SetShareState(s, "active") /\ Announce(s)
       \/ /\ SetShareState(s, "error") /\ act' = Set(act, s, "no")
          /\ UNCHANGED <<loop, waiting, wt, stop>>
    /\ UNCHANGED <<phase, conn, beats, backoff, cur, stream, inbox, poolVars, up, serving,
                   outages, ctlVars>>

\* A failed announcement is logged; heartbeat and watch task start.
AnnounceReturns ==
    LET s == loop[2]
    IN  /\ CallEnds("announce") /\ loop' = Idle
        /\ beats' = beats \cup {s} /\ act' = Set(act, s, "no") /\ WatchTask(s)
        /\ UNCHANGED <<phase, conn, row, backoff, cur, stream, inbox, poolVars, waiting,
                       ctlVars>>

Heartbeat(s) ==
    /\ LoopFree /\ s \in beats
    /\ CallRegistry("heartbeat", s)
    /\ UNCHANGED <<coordVars, watchVars, poolVars, up, serving, outages, ctlVars>>

HeartbeatReturns ==
    /\ CallEnds("heartbeat") /\ loop' = Idle
    /\ UNCHANGED <<coordVars, watchVars, poolVars, waiting, ctlVars>>

-----------------------------------------------------------------------------
(* The default thread pool *)

\* Mutant of StartJob: a pool of one thread.
StartJobSingle ==
    /\ jobs # <<>> /\ running = {}
    /\ running' = IF Head(jobs) = Cancelled THEN {} ELSE {Head(jobs)}
    /\ jobs' = Tail(jobs)
    /\ UNCHANGED <<coordVars, loop, watchVars, regVars, ctlVars>>

\* A thread takes a job; one that was cancelled it drops.
StartJob ==
    /\ jobs # <<>> /\ Cardinality(running) < Threads
    /\ running' = IF Head(jobs) = Cancelled THEN running
                  ELSE running \cup {Head(jobs)}
    /\ jobs' = Tail(jobs)
    /\ UNCHANGED <<coordVars, loop, watchVars, regVars, ctlVars>>

\* The task of the share waits for this job of stream x.
Awaits(x, v) == cur[x[1]] = x[2] /\ wt[x[1]] = v

\* next(stream) returns when there is an event or the call is over.
EndNext(x) ==
    /\ <<"next", x>> \in running
    /\ inbox[x] \/ stream[x] = "over"
    /\ running' = running \ {<<"next", x>>}
    /\ wt' = IF Awaits(x, "next")
             THEN Set(wt, x[1], IF inbox[x] THEN "event" ELSE "lost") ELSE wt
    /\ inbox' = Set(inbox, x, FALSE)
    /\ UNCHANGED <<coordVars, loop, stop, backoff, cur, stream, jobs, regVars, ctlVars>>

\* on_event awaited a job: the torrent was replaced by a remote one.
EndHandle(x) ==
    /\ <<"handle", x>> \in running
    /\ running' = running \ {<<"handle", x>>}
    /\ wt' = IF Awaits(x, "handling") THEN Set(wt, x[1], "handled") ELSE wt
    /\ UNCHANGED <<coordVars, loop, stop, backoff, cur, stream, inbox, jobs, regVars,
                   ctlVars>>

\* The two jobs of an activation.
EndActivationJob(s) ==
    /\ \/ /\ <<"scan", s>> \in running /\ running' = running \ {<<"scan", s>>}
          /\ act' = Set(act, s, "scanned")
       \/ /\ <<"torrent", s>> \in running /\ running' = running \ {<<"torrent", s>>}
          /\ act' = Set(act, s, "added")
    /\ UNCHANGED <<phase, conn, loop, row, beats, watchVars, jobs, regVars, ctlVars>>

\* Hashing, stat, pre-positioning, sending a datagram.
SubmitWork(s) ==
    /\ s \in Working /\ LoopFree /\ row[s] = "active"
    /\ <<"work", s>> \notin Range(jobs) \cup running
    /\ Submit("work", s)
    /\ UNCHANGED <<coordVars, loop, watchVars, running, regVars, ctlVars>>

EndWork(s) ==
    /\ <<"work", s>> \in running
    /\ running' = running \ {<<"work", s>>}
    /\ UNCHANGED <<coordVars, loop, watchVars, jobs, regVars, ctlVars>>

-----------------------------------------------------------------------------
(* watch_share_peers_loop *)

Cur(s) == <<s, cur[s]>>

\* stream.cancel(), or the last reference to the call goes, which cancels it too.
\* What had arrived is read by nobody.
Release(X) ==
    /\ stream' = [x \in Streams |-> IF x \in X THEN "over" ELSE stream[x]]
    /\ inbox' = [x \in Streams |-> inbox[x] /\ x \notin X]

EndTask(s) == wt' = Set(wt, s, "ended") /\ Release({Cur(s)})

\* Nobody holds x any more, so it can stand for a new stream.
Unused(x) == /\ <<"watch", x>> \notin serving \cup Range(waiting)
             /\ {<<"next", x>>, <<"handle", x>>} \cap (running \cup Range(jobs)) = {}

\* A new stream: the call is started, which does not block, next() goes to a
\* thread, and the task lets go of the stream it had.
Connect(s, n) ==
    LET x == <<s, n>>
    IN  /\ Unused(x) /\ \A m \in 1..(n - 1) : ~Unused(<<s, m>>)
        /\ cur' = Set(cur, s, n)
        /\ wt' = Set(wt, s, "next") /\ Submit("next", x)
        /\ stream' = [y \in Streams |->
              IF y = x /\ up THEN "queued"
              ELSE IF y \in {x, Cur(s)} THEN "over" ELSE stream[y]]
        /\ inbox' = [y \in Streams |-> inbox[y] /\ y \notin {x, Cur(s)}]
        /\ Invoke(<<"watch", x>>)

\* Mutant of WatchConnect: the task gives up when the registry is not there.
WatchConnectOnce(s) ==
    /\ LoopFree /\ wt[s] = "connect"
    /\ \/ (stop[s] \/ ~up) /\ EndTask(s) /\ UNCHANGED <<cur, waiting, jobs>>
       \/ ~stop[s] /\ up /\ \E n \in 1..Gens : Connect(s, n)
    /\ UNCHANGED <<coordVars, loop, stop, backoff, running, up, serving, outages,
                   ctlVars>>

\* At once, although threads may still sit in next() on streams that the share
\* had before.
WatchConnect(s) ==
    /\ LoopFree /\ wt[s] = "connect"
    /\ \/ stop[s] /\ EndTask(s) /\ UNCHANGED <<cur, waiting, jobs>>
       \/ ~stop[s] /\ \E n \in 1..Gens : Connect(s, n)
    /\ UNCHANGED <<coordVars, loop, stop, backoff, running, up, serving, outages,
                   ctlVars>>

\* on_event returned and the next event is awaited, unless stop_event is set by
\* now; or it raised.
Handled(s) ==
    \/ stop[s] /\ EndTask(s) /\ UNCHANGED <<backoff, jobs>>
    \/ /\ ~stop[s]
       /\ wt' = Set(wt, s, "next") /\ Submit("next", Cur(s))
       /\ backoff' = Set(backoff, s, 1)
       /\ UNCHANGED <<stream, inbox>>
    \/ wt' = Set(wt, s, "lost") /\ UNCHANGED <<backoff, stream, inbox, jobs>>

\* An event: with stop_event set the stream is cancelled, else on_event runs, to
\* its end or up to an await.
WatchEvent(s) ==
    /\ LoopFree /\ wt[s] = "event"
    /\ \/ stop[s] /\ EndTask(s) /\ UNCHANGED <<backoff, jobs>>
       \/ ~stop[s] /\ Handled(s)
       \/ /\ ~stop[s] /\ wt' = Set(wt, s, "handling") /\ Submit("handle", Cur(s))
          /\ UNCHANGED <<backoff, stream, inbox>>
    /\ UNCHANGED <<coordVars, loop, stop, cur, running, regVars, ctlVars>>

WatchHandled(s) ==
    /\ LoopFree /\ wt[s] = "handled" /\ Handled(s)
    /\ UNCHANGED <<coordVars, loop, stop, cur, running, regVars, ctlVars>>

\* Mutant of WatchLost: the interval grows without bound.
WatchLostUnbounded(s) ==
    /\ LoopFree /\ wt[s] = "lost"
    /\ \/ stop[s] /\ EndTask(s) /\ UNCHANGED backoff
       \/ /\ ~stop[s] /\ wt' = Set(wt, s, "sleep")
          /\ backoff' = Set(backoff, s, 2 * backoff[s])
          /\ UNCHANGED <<stream, inbox>>
    /\ UNCHANGED <<coordVars, loop, stop, cur, poolVars, regVars, ctlVars>>

\* An RpcError, or what on_event raised: sleep, and double the interval up to its
\* maximum.
WatchLost(s) ==
    /\ LoopFree /\ wt[s] = "lost"
    /\ \/ stop[s] /\ EndTask(s) /\ UNCHANGED backoff
       \/ /\ ~stop[s] /\ wt' = Set(wt, s, "sleep")
          /\ backoff' = Set(backoff, s, IF 2 * backoff[s] < BackoffMax
                                        THEN 2 * backoff[s] ELSE BackoffMax)
          /\ UNCHANGED <<stream, inbox>>
    /\ UNCHANGED <<coordVars, loop, stop, cur, poolVars, regVars, ctlVars>>

WatchWakes(s) ==
    /\ LoopFree /\ wt[s] = "sleep"
    /\ wt' = Set(wt, s, "connect")
    /\ UNCHANGED <<coordVars, loop, stop, backoff, cur, stream, inbox, poolVars,
                   regVars, ctlVars>>

\* The future of a job that has not started is cancelled.
CancelJobs(S) ==
    jobs' = [i \in DOMAIN jobs |->
                IF jobs[i][1] \in {"next", "handle"} /\ jobs[i][2][1] \in S
                THEN Cancelled ELSE jobs[i]]

\* Mutant of CancelTask: the stream stays open behind the cancelled task.
CancelTaskOnly(S) ==
    /\ wt' = [s \in Shares |-> IF s \in S THEN "none" ELSE wt[s]]
    /\ UNCHANGED <<stream, inbox>>
    /\ CancelJobs(S)

\* Cancelling the tasks of S: a next() that has not started never will, one that
\* runs ends because its stream is cancelled.
CancelTask(S) ==
    /\ wt' = [s \in Shares |-> IF s \in S THEN "none" ELSE wt[s]]
    /\ Release({x \in Streams : x[1] \in S})
    /\ CancelJobs(S)

-----------------------------------------------------------------------------
(* ControlServicer: a call takes one of the server's threads, then runs on that *)
(* thread, waits for the registry there, waits for a coroutine on the loop, or  *)
(* streams events until the client leaves.                                      *)

Holding == {c \in Clients : ctl[c] \notin {"idle", "asked"}}

Caller(c, before, after) == ctl[c] = before /\ ctl' = Set(ctl, c, after)

ControlAsks(c) ==
    /\ phase = "running" /\ ops < MaxOps
    /\ Caller(c, "idle", "asked") /\ ops' = ops + 1
    /\ UNCHANGED <<coordVars, loop, watchVars, poolVars, regVars>>

\* Listings, limits, strategies: answered from the coordinator's state.
DirectCall(c) ==
    /\ "direct" \in UserOps /\ Cardinality(Holding) < ControlThreads
    /\ Caller(c, "asked", "idle")
    /\ UNCHANGED <<coordVars, loop, watchVars, poolVars, regVars, ops>>

\* ListSharePeers and GetShareInfo ask the registry on the thread itself.
DirectRpc(c) ==
    /\ "direct" \in UserOps /\ Cardinality(Holding) < ControlThreads
    /\ Caller(c, "asked", "registry") /\ Invoke(<<"control", c>>)
    /\ UNCHANGED <<coordVars, loop, watchVars, poolVars, up, serving, outages, ops>>

DirectRpcReturns(c) ==
    /\ Caller(c, "registry", "idle") /\ Returned(<<"control", c>>)
    /\ serving' = serving \ {<<"control", c>>}
    /\ UNCHANGED <<coordVars, loop, watchVars, poolVars, up, waiting, outages, ops>>

\* _run_async.
LoopCall(c) ==
    /\ UserOps \ {"direct", "watch"} # {} /\ Cardinality(Holding) < ControlThreads
    /\ Caller(c, "asked", "loop")
    /\ UNCHANGED <<coordVars, loop, watchVars, poolVars, regVars, ops>>

WatchStatus(c) ==
    /\ "watch" \in UserOps /\ Cardinality(Holding) < ControlThreads
    /\ Caller(c, "asked", "watching")
    /\ UNCHANGED <<coordVars, loop, watchVars, poolVars, regVars, ops>>

ClientLeaves(c) ==
    /\ Caller(c, "watching", "idle")
    /\ UNCHANGED <<coordVars, loop, watchVars, poolVars, regVars, ops>>

\* The share is not there, or not the caller's, and an exception is the answer;
\* or RegistryStatus, which only reads.
ControlError(c) ==
    /\ LoopFree /\ Caller(c, "loop", "idle")
    /\ UNCHANGED <<coordVars, loop, watchVars, poolVars, regVars, ops>>

\* pause_share leaves heartbeat and stream alone.
ControlPause(c, s) ==
    /\ "pause" \in UserOps /\ LoopFree /\ row[s] # "absent"
    /\ Caller(c, "loop", "idle")
    /\ row' = Set(row, s, "paused")
    /\ stop' = Set(stop, s, wt[s] # "none")
    /\ UNCHANGED <<phase, conn, loop, act, beats, wt, backoff, cur, stream, inbox,
                   poolVars, regVars, ops>>

\* resume_share awaits the activation (at most one of a share at a time).
ControlResume(c, s) ==
    /\ "resume" \in UserOps /\ LoopFree /\ row[s] # "absent" /\ act[s] = "no"
    /\ Caller(c, "loop", s)
    /\ row' = Set(row, s, "active") /\ StartActivation(s)
    /\ UNCHANGED <<phase, conn, loop, beats, watchVars, running, regVars, ops>>

\* create_share and add_share: with a registry share it is asked first.
ControlAdd(c, s) ==
    /\ "add" \in UserOps /\ LoopFree /\ row[s] = "absent" /\ act[s] = "no"
    /\ Caller(c, "loop", s)
    /\ IF s \in LocalShares
       THEN /\ row' = Set(row, s, "active") /\ StartActivation(s)
            /\ UNCHANGED <<loop, waiting>>
       ELSE CallRegistry("add", s) /\ UNCHANGED <<row, act, jobs>>
    /\ UNCHANGED <<phase, conn, beats, watchVars, running, up, serving, outages, ops>>

\* add_share goes on without an answer, create_share does not.
AddReturns ==
    LET s == loop[2]
    IN  /\ CallEnds("add") /\ loop' = Idle
        /\ \/ row' = Set(row, s, "active") /\ StartActivation(s)
           \/ OnLoop \notin serving /\ UNCHANGED <<row, act, jobs>>
        /\ UNCHANGED <<phase, conn, beats, watchVars, running, waiting, ctlVars>>

\* remove_share cancels stream and heartbeat, an activation goes on.
ControlRemove(c, s) ==
    /\ "remove" \in UserOps /\ LoopFree /\ row[s] # "absent"
    /\ Caller(c, "loop", "idle")
    /\ row' = Set(row, s, "absent") /\ beats' = beats \ {s}
    /\ CancelTask({s}) /\ stop' = Set(stop, s, FALSE)
    /\ UNCHANGED <<phase, conn, loop, act, backoff, cur, running, regVars, ops>>

\* grant_access, revoke_access and registry_health call the registry on the loop.
ControlRpc(c) ==
    /\ "rpc" \in UserOps /\ LoopFree /\ ctl[c] = "loop"
    /\ CallRegistry("control", c)
    /\ UNCHANGED <<coordVars, watchVars, poolVars, up, serving, outages, ctlVars>>

ControlRpcReturns ==
    /\ CallEnds("control") /\ loop' = Idle
    /\ ctl' = Set(ctl, loop[2], "idle")
    /\ UNCHANGED <<coordVars, watchVars, poolVars, waiting, ops>>

\* The coroutine of create_share, add_share or resume_share is done.
ControlReturns(c) ==
    /\ ctl[c] \in Shares /\ act[ctl[c]] = "no" /\ loop # <<"add", ctl[c]>>
    /\ ctl' = Set(ctl, c, "idle")
    /\ UNCHANGED <<coordVars, loop, watchVars, poolVars, regVars, ops>>

-----------------------------------------------------------------------------
(* Shutdown *)

\* Mutant of Stop: the stop events are set and nothing is cancelled.
StopEventsOnly ==
    /\ LoopFree
    /\ phase' = "stopping"
    /\ wt' = [s \in Shares |-> "none"] /\ stop' = [s \in Shares |-> TRUE]
    /\ beats' = {}
    /\ ctl' = [c \in Clients |-> "idle"]
    /\ UNCHANGED <<conn, loop, row, act, backoff, cur, stream, inbox, poolVars, regVars,
                   ops>>

\* SyncCoordinator.stop cancels the tasks, run closes the channel, and
\* asyncio.run cancels what is left.
Stop ==
    /\ LoopFree
    /\ phase' = "stopping"
    /\ CancelTask(Shares) /\ stop' = [s \in Shares |-> TRUE]
    /\ beats' = {}
    /\ ctl' = [c \in Clients |-> "idle"]
    /\ UNCHANGED <<conn, loop, row, act, backoff, cur, running, regVars, ops>>

\* The default pool is joined.
Stopped ==
    /\ phase = "stopping" /\ jobs = <<>> /\ running = {}
    /\ phase' = "stopped"
    /\ UNCHANGED <<conn, loop, row, act, beats, watchVars, poolVars, regVars, ctlVars>>

-----------------------------------------------------------------------------
CallReturns ==
    \/ RegisterReturns \/ PeersReturns \/ AnnounceReturns \/ HeartbeatReturns
    \/ AddReturns \/ ControlRpcReturns
RegisterStep == Register \/ RegisterAgain
ActivationStep(s) == ResumeStored(s) \/ ActivateScanned(s) \/ ActivateAdded(s)
WatchStep(s) ==
    \/ WatchConnect(s) \/ WatchEvent(s) \/ WatchHandled(s) \/ WatchLost(s)
    \/ WatchWakes(s)
ControlTaken(c) == DirectCall(c) \/ DirectRpc(c) \/ LoopCall(c) \/ WatchStatus(c)
ControlRuns(c) ==
    \/ ControlError(c) \/ ControlRpc(c)
    \/ \E s \in Shares : \/ ControlPause(c, s) \/ ControlResume(c, s)
                         \/ ControlAdd(c, s) \/ ControlRemove(c, s)

Next ==
    \/ ServeNext \/ GoDown \/ ComeUp
    \/ RegisterStep \/ CallReturns
    \/ StartJob
    \/ \E s \in Shares :
          \/ ActivationStep(s) \/ WatchStep(s) \/ Heartbeat(s) \/ SubmitWork(s)
          \/ EndActivationJob(s) \/ EndWork(s)
    \/ \E x \in Streams :
          SendEvent(x) \/ StreamDropped(x) \/ EndNext(x) \/ EndHandle(x)
    \/ \E c \in Clients :
          \/ ControlAsks(c) \/ ControlTaken(c) \/ ControlRuns(c)
          \/ DirectRpcReturns(c) \/ ControlReturns(c) \/ ClientLeaves(c)
    \/ Stop \/ Stopped

Spec == Init /\ [][Next]_vars

\* Threads and the registry work off their queues, and the loop serves its
\* callbacks in order of arrival.  Outages may last, events may stay away,
\* watching clients may stay for ever.
Fairness ==
    /\ WF_vars(ServeNext) /\ WF_vars(StartJob) /\ WF_vars(CallReturns)
    /\ SF_vars(RegisterStep) /\ WF_vars(Stopped)
    /\ \A s \in Shares :
          /\ SF_vars(ActivationStep(s))
          /\ WF_vars(EndActivationJob(s)) /\ WF_vars(EndWork(s))
    /\ \A s \in Remote :
          /\ SF_vars(WatchStep(s))
          /\ \A n \in 1..Gens : /\ WF_vars(EndNext(<<s, n>>) \/ EndHandle(<<s, n>>))
                                /\ WF_vars(StreamDropped(<<s, n>>))
    /\ \A c \in Clients :
          /\ WF_vars(ControlTaken(c)) /\ SF_vars(ControlRuns(c))
          /\ WF_vars(DirectRpcReturns(c) \/ ControlReturns(c))

FairSpec == Spec /\ Fairness

-----------------------------------------------------------------------------
(* Properties *)

TypeOK ==
    /\ phase \in {"running", "stopping", "stopped"}
    /\ conn \in {"try", "sleep", "done"}
    /\ loop \in {Idle, <<"register", Free>>}
                \cup ({"peers", "announce", "heartbeat", "add"} \X Remote)
                \cup ({"control"} \X Clients)
    /\ row \in [Shares -> {"absent", "stored", "active", "paused", "error"}]
    /\ act \in [Shares -> {"no", "scan", "scanned", "peers", "torrent", "added",
                           "announce"}]
    /\ beats \subseteq Remote
    /\ wt \in [Shares -> {"none", "connect", "next", "event", "handling",
                          "handled", "lost", "sleep", "ended"}]
    /\ stop \in [Shares -> BOOLEAN]
    /\ backoff \in [Shares -> 1..BackoffMax]
    /\ cur \in [Shares -> 1..Gens]
    /\ stream \in [Streams -> {"over", "queued", "open"}]
    /\ inbox \in [Streams -> BOOLEAN]
    /\ jobs \in Seq(Job) /\ running \subseteq Job
    /\ up \in BOOLEAN /\ waiting \in Seq(Call) /\ serving \subseteq Call
    /\ outages \in 0..MaxOutages
    /\ ctl \in [Clients -> {"idle", "asked", "loop", "watching", "registry"} \cup Shares]
    /\ ops \in 0..MaxOps

\* A thread that waits for a stream belongs to the live watch task that reads
\* it, or the stream is over and the thread about to be released: tasks that are
\* cancelled or replaced leave no thread behind in an open stream, although a
\* share may hold several threads for a while.  This is what keeps the pool from
\* running out of threads.
NextBelongsToTask ==
    \A x \in Streams : <<"next", x>> \in Range(jobs) \cup running =>
        \/ Awaits(x, "next")
        \/ stream[x] = "over"

\* The loop comes back from every call to the registry: the streams leave the
\* registry a thread to answer with.
LoopReturns == loop # Idle ~> loop = Idle

\* With more threads than registry shares every job gets a thread.
JobsRun ==
    \A s \in Shares : <<"work", s>> \in Range(jobs) ~> <<"work", s>> \notin Range(jobs)

\* "Automatic reconnect": while the registry is reachable an active share has
\* its stream again and again, whatever outages came before.
StreamReturns ==
    \A s \in Remote :
        <>[](up /\ phase = "running" /\ row[s] = "active" /\ ~stop[s])
            => []<>(stream[Cur(s)] = "open")

\* The daemon ends after stop: no thread is left in next().
ShutdownEnds == phase = "stopping" ~> phase = "stopped"

\* "Local-only (LAN, no registry needed)": a stored local share starts although
\* the registry stays away.
LocalNeedsNoRegistry ==
    \A s \in LocalShares : row[s] = "stored" ~> row[s] # "stored" \/ phase # "running"

====
