------------------------------ MODULE Registry ------------------------------
(***************************************************************************)
(* The registry and one of its shares: who is a member, who is online, and *)
(* what the WatchSharePeers streams tell their clients.                    *)
(*                                                                         *)
(* RPC handlers run in threads of a small pool; one database session is one*)
(* step.  The event bus, the drains of the streams and the TTL sweep share *)
(* one asyncio loop: a step of the loop starts only when the loop is free. *)
(* Handlers reach the loop through run_coroutine_threadsafe, a FIFO.       *)
(***************************************************************************)
EXTENDS Naturals, Sequences, FiniteSets

CONSTANTS
    Peers,
    NoPeer,
    TtlHints,      \* ttl_seconds of announce requests
    TtlMin, TtlMax,
    MaxTime,       \* bound: the clock stops here
    QueueSize,     \* EventBus.subscribe maxsize
    LiveSize,      \* maxsize of a stream's live_q
    Workers,       \* max_workers of the gRPC thread pool
    MaxReady,      \* bound: no call starts above this backlog of the loop
    MaxOps,        \* bound: the operations below
    UserOps,       \* which of AllOps happen
    Announcers,    \* peers whose daemon announces itself
    Steady,        \* those of them that never stop sending heartbeats
    Watchers,      \* peers whose daemon watches the share
    Streams,       \* bound: a stream that was closed is not used again
    NoStream,
    StubsTopLevel  \* registry_pb2 can be imported as a top-level module

AllOps == {"add", "remove", "watch", "disconnect"}

ASSUME RegistryAssumption ==
    /\ NoPeer \notin Peers
    /\ IsFiniteSet(Streams) /\ NoStream \notin Streams
    /\ TtlHints \subseteq Nat
    /\ TtlMin \in Nat /\ TtlMax \in Nat /\ TtlMin <= TtlMax
    /\ {MaxTime, QueueSize, LiveSize, Workers, MaxReady, MaxOps} \subseteq Nat
    /\ UserOps \subseteq AllOps
    /\ Steady \subseteq Announcers /\ Announcers \subseteq Peers
    /\ Watchers \subseteq Peers
    /\ StubsTopLevel \in BOOLEAN

NoRow == 0                                  \* no announcement; else expires_at
EventType == {"ONLINE", "UPDATED", "OFFLINE", "REMOVED"}
Event == [type : EventType, peer : Peers]
Callback == Event \cup [type : {"SUBSCRIBE", "CANCEL"}, stream : Streams]
Unused == [pc |-> "new", todo |-> {}, sub |-> FALSE, aq |-> <<>>, lq |-> <<>>]
Closed == [Unused EXCEPT !.pc = "off"]

VARIABLES
    \* database
    owner, members, ann,
    \* handlers in the thread pool
    call,      \* Announce: "idle", "checked", or the event to publish
    removing,  \* peers whose REMOVED event is to be published
    \* event loop
    ready,     \* callbacks scheduled on the loop
    sweep,     \* the sweep: rows it read, rows it has still to report
    blocked,   \* stream whose full live_q the loop is waiting for
    \* WatchSharePeers
    stream,    \* a stream: handler, snapshot to do, queues
    active,    \* _active_watches
    view,      \* what the client of a stream believes: peer online?
    \* environment
    now, ops

memberVars == <<owner, members>>
loopVars   == <<ready, sweep, blocked>>
watchVars  == <<stream, active, view>>
vars == <<owner, members, ann, call, removing, ready, sweep, blocked, stream,
          active, view, now, ops>>

Init ==
    /\ owner = NoPeer /\ members = {}
    /\ ann = [p \in Peers |-> NoRow]
    /\ call = [p \in Peers |-> "idle"]
    /\ removing = {}
    /\ ready = <<>>
    /\ sweep = [read |-> {}, todo |-> {}]
    /\ blocked = NoStream
    /\ stream = [s \in Streams |-> Unused]
    /\ active = 0
    /\ view = [s \in Streams |-> [p \in Peers |-> FALSE]]
    /\ now = 1 /\ ops = 0

-----------------------------------------------------------------------------
(* Helpers *)

ClampTtl(requested) ==
    IF requested > TtlMax THEN TtlMax
    ELSE IF requested < TtlMin THEN TtlMin ELSE requested

Online(p) == ann[p] > now

\* Every call and every open stream holds a thread of the pool.
Busy == Cardinality({p \in Peers : call[p] # "idle"}) + Cardinality(removing)
        + Cardinality({s \in Streams : stream[s].pc \in {"snapshot", "live"}})
WorkerFree == Busy < Workers /\ Len(ready) < MaxReady

\* run_coroutine_threadsafe
Schedule(callback) == ready' = Append(ready, callback)

LoopFree == blocked = NoStream /\ sweep.read = {}

\* EventBus.publish: into the queue of every subscriber that has room.
Publish(e) ==
    stream' = [s \in Streams |->
        IF stream[s].sub /\ Len(stream[s].aq) < QueueSize
        THEN [stream[s] EXCEPT !.aq = Append(@, e)]
        ELSE stream[s]]

Op(name) == name \in UserOps /\ ops < MaxOps /\ ops' = ops + 1

-----------------------------------------------------------------------------
(* Membership *)

CreateShare(p) ==
    /\ owner = NoPeer /\ WorkerFree
    /\ owner' = p
    /\ members' = {p}
    /\ UNCHANGED <<ann, call, removing, loopVars, watchVars, now, ops>>

\* By the owner; watchers are not told (_publish_updated does nothing).
AddPeerToShare(p) ==
    /\ Op("add") /\ WorkerFree
    /\ owner # NoPeer /\ p \notin members
    /\ members' = members \cup {p}
    /\ UNCHANGED <<owner, ann, call, removing, loopVars, watchVars, now>>

\* Mutant of RemovePeerFromShare: the owner may remove itself.
RemoveAnyPeer(p) ==
    /\ Op("remove") /\ WorkerFree
    /\ owner # NoPeer
    /\ members' = members \ {p}
    /\ ann' = [ann EXCEPT ![p] = NoRow]
    /\ removing' = removing \cup {p}
    /\ UNCHANGED <<owner, call, loopVars, watchVars, now>>

\* By the owner: membership and announcement go in one transaction, the event
\* is published after it.
RemovePeerFromShare(p) ==
    /\ Op("remove") /\ WorkerFree
    /\ owner # NoPeer /\ p # owner
    /\ p \notin removing
    /\ members' = members \ {p}
    /\ ann' = [ann EXCEPT ![p] = NoRow]
    /\ removing' = removing \cup {p}
    /\ UNCHANGED <<owner, call, loopVars, watchVars, now>>

PublishRemoved(p) ==
    /\ p \in removing
    /\ removing' = removing \ {p}
    /\ Schedule([type |-> "REMOVED", peer |-> p])
    /\ UNCHANGED <<memberVars, ann, call, sweep, blocked, watchVars, now, ops>>

-----------------------------------------------------------------------------
(* Announce *)

\* Authentication, signature, membership and rate limit, before the write.
AnnounceCheck(p) ==
    /\ call[p] = "idle" /\ WorkerFree
    /\ p \in members \cap Announcers
    /\ call' = [call EXCEPT ![p] = "checked"]
    /\ UNCHANGED <<memberVars, ann, removing, loopVars, watchVars, now, ops>>

\* The upsert, whatever happened to the membership meanwhile.
AnnounceWrite(p) ==
    /\ call[p] = "checked"
    /\ \E ttl \in TtlHints : ann' = [ann EXCEPT ![p] = now + ClampTtl(ttl)]
    /\ call' = [call EXCEPT ![p] = IF Online(p) THEN "UPDATED" ELSE "ONLINE"]
    /\ UNCHANGED <<memberVars, removing, loopVars, watchVars, now, ops>>

\* Mutant of AnnouncePublish: an update is not published.
AnnouncePublishOnlineOnly(p) ==
    /\ call[p] \in EventType
    /\ call' = [call EXCEPT ![p] = "idle"]
    /\ IF call[p] = "ONLINE" THEN Schedule([type |-> "ONLINE", peer |-> p])
                            ELSE UNCHANGED ready
    /\ UNCHANGED <<memberVars, ann, removing, sweep, blocked, watchVars, now, ops>>

AnnouncePublish(p) ==
    /\ call[p] \in EventType
    /\ call' = [call EXCEPT ![p] = "idle"]
    /\ Schedule([type |-> call[p], peer |-> p])
    /\ UNCHANGED <<memberVars, ann, removing, sweep, blocked, watchVars, now, ops>>

-----------------------------------------------------------------------------
(* The event loop *)

\* The next callback: publish, subscribe a stream's drain, or cancel it.  The
\* drain of a client that has left ends at its first test of is_active.
LoopStep ==
    LET c == Head(ready)
    IN  /\ LoopFree /\ ready # <<>>
        /\ ready' = Tail(ready)
        /\ \/ c.type \in EventType /\ Publish(c)
           \/ /\ c.type = "SUBSCRIBE"
              /\ stream' = [stream EXCEPT
                               ![c.stream].sub = stream[c.stream].pc = "live"]
           \/ /\ c.type = "CANCEL"
              /\ stream' = [stream EXCEPT ![c.stream] = Closed]
        /\ UNCHANGED <<memberVars, ann, call, removing, sweep, blocked, active,
                       view, now, ops>>

\* _drain moves an event into the thread's queue and, when the client has left
\* meanwhile, ends.  live_q.put blocks the whole loop while that queue is full.
Drain(s) ==
    LET moved == [stream[s] EXCEPT !.aq = Tail(@),
                                   !.lq = Append(@, Head(stream[s].aq))]
    IN  /\ stream[s].sub /\ stream[s].aq # <<>>
        /\ LoopFree \/ blocked = s
        /\ IF Len(stream[s].lq) < LiveSize
           THEN /\ stream' = [stream EXCEPT
                      ![s] = IF stream[s].pc = "live" THEN moved ELSE Closed]
                /\ blocked' = NoStream
           ELSE blocked' = s /\ UNCHANGED stream
        /\ UNCHANGED <<memberVars, ann, call, removing, ready, sweep, active,
                       view, now, ops>>

Expired == {p \in Peers : ann[p] # NoRow /\ ann[p] <= now}

\* _sweep reads the expired rows.  The task ends at its import when the stubs
\* are no top-level module.
SweepRead ==
    /\ StubsTopLevel /\ LoopFree
    /\ Expired # {}
    /\ sweep' = [read |-> Expired, todo |-> Expired]
    /\ UNCHANGED <<memberVars, ann, call, removing, ready, blocked, watchVars,
                   now, ops>>

\* For each of them: OFFLINE to the subscribers if it is still a member.
SweepPublish(p) ==
    /\ p \in sweep.todo
    /\ sweep' = [sweep EXCEPT !.todo = @ \ {p}]
    /\ IF p \in members THEN Publish([type |-> "OFFLINE", peer |-> p])
                        ELSE UNCHANGED stream
    /\ UNCHANGED <<memberVars, ann, call, removing, ready, blocked, active,
                   view, now, ops>>

\* The commit deletes the rows that were read, renewed or not.
SweepCommit ==
    /\ sweep.read # {} /\ sweep.todo = {}
    /\ ann' = [p \in Peers |-> IF p \in sweep.read THEN NoRow ELSE ann[p]]
    /\ sweep' = [sweep EXCEPT !.read = {}]
    /\ UNCHANGED <<memberVars, call, removing, ready, blocked, watchVars, now, ops>>

-----------------------------------------------------------------------------
(* WatchSharePeers and its client *)

\* Mutant of WatchOpen: the stream is not counted in.
WatchOpenUncounted(s, w) ==
    /\ Op("watch") /\ WorkerFree
    /\ stream[s] = Unused /\ w \in members \cap Watchers
    /\ stream' = [stream EXCEPT ![s].pc = "snapshot", ![s].todo = members]
    /\ UNCHANGED <<memberVars, ann, call, removing, loopVars, active, view, now>>

\* Authentication and membership; the members to report are read.  A daemon may
\* come back while the drain of the stream it lost is still on the loop.
WatchOpen(s, w) ==
    /\ Op("watch") /\ WorkerFree
    /\ stream[s] = Unused /\ w \in members \cap Watchers
    /\ stream' = [stream EXCEPT ![s].pc = "snapshot", ![s].todo = members]
    /\ active' = active + 1
    /\ UNCHANGED <<memberVars, ann, call, removing, loopVars, view, now>>

\* One member of the snapshot, as ONLINE or OFFLINE.
SnapshotPeer(s, p) ==
    /\ stream[s].pc = "snapshot" /\ p \in stream[s].todo
    /\ stream' = [stream EXCEPT ![s].todo = @ \ {p}]
    /\ view' = [view EXCEPT ![s][p] = Online(p)]
    /\ UNCHANGED <<memberVars, ann, call, removing, loopVars, active, now, ops>>

\* After the snapshot the drain is scheduled on the loop.
SnapshotDone(s) ==
    /\ stream[s].pc = "snapshot" /\ stream[s].todo = {}
    /\ stream' = [stream EXCEPT ![s].pc = "live"]
    /\ Schedule([type |-> "SUBSCRIBE", stream |-> s])
    /\ UNCHANGED <<memberVars, ann, call, removing, sweep, blocked, active, view,
                   now, ops>>

\* The thread yields an event and the client takes it.
StreamYield(s) ==
    LET e == Head(stream[s].lq)
    IN  /\ stream[s].pc = "live" /\ stream[s].lq # <<>>
        /\ stream' = [stream EXCEPT ![s].lq = Tail(@)]
        /\ view' = [view EXCEPT ![s][e.peer] = e.type \in {"ONLINE", "UPDATED"}]
        /\ UNCHANGED <<memberVars, ann, call, removing, loopVars, active, now, ops>>

\* The client goes away.  Only a stream past its snapshot has the finally
\* clause that cancels the drain and counts the stream out.
Disconnect(s) ==
    /\ Op("disconnect")
    /\ \/ /\ stream[s].pc = "snapshot"
          /\ stream' = [stream EXCEPT ![s] = Closed]
          /\ UNCHANGED <<active, ready>>
       \/ /\ stream[s].pc = "live"
          /\ stream' = [stream EXCEPT ![s].pc = "off"]
          /\ active' = active - 1
          /\ Schedule([type |-> "CANCEL", stream |-> s])
    /\ view' = [view EXCEPT ![s] = [p \in Peers |-> FALSE]]
    /\ UNCHANGED <<memberVars, ann, call, removing, sweep, blocked, now>>

Tick ==
    /\ now < MaxTime
    /\ now' = now + 1
    /\ UNCHANGED <<memberVars, ann, call, removing, loopVars, watchVars, ops>>

-----------------------------------------------------------------------------
Next ==
    \/ \E p \in Peers :
          \/ CreateShare(p) \/ AddPeerToShare(p)
          \/ RemovePeerFromShare(p) \/ PublishRemoved(p)
          \/ AnnounceCheck(p) \/ AnnounceWrite(p) \/ AnnouncePublish(p)
          \/ SweepPublish(p)
    \/ \E s \in Streams :
          \/ \E p \in Peers : WatchOpen(s, p) \/ SnapshotPeer(s, p)
          \/ SnapshotDone(s) \/ StreamYield(s) \/ Disconnect(s)
          \/ Drain(s)
    \/ LoopStep \/ SweepRead \/ SweepCommit
    \/ Tick

Spec == Init /\ [][Next]_vars

\* Threads run, the clock advances, clients read their streams and steady
\* daemons send heartbeats.  Strong where the pool or the loop is shared: both
\* serve in order of arrival.  Nobody else owes anything.
Fairness ==
    /\ \A p \in Steady : SF_vars(AnnounceCheck(p))
    /\ \A p \in Peers :
          WF_vars(PublishRemoved(p) \/ AnnounceWrite(p) \/ AnnouncePublish(p))
    /\ \A s \in Streams :
          /\ WF_vars(SnapshotDone(s) \/ \E p \in Peers : SnapshotPeer(s, p))
          /\ SF_vars(Drain(s)) /\ WF_vars(StreamYield(s))
    /\ SF_vars(LoopStep) /\ SF_vars(SweepRead)
    /\ WF_vars(SweepCommit \/ \E p \in Peers : SweepPublish(p)) /\ WF_vars(Tick)

FairSpec == Spec /\ Fairness

-----------------------------------------------------------------------------
(* Properties *)

TypeOK ==
    /\ owner \in Peers \cup {NoPeer} /\ members \subseteq Peers
    /\ ann \in [Peers -> Nat]
    /\ call \in [Peers -> {"idle", "checked", "ONLINE", "UPDATED"}]
    /\ removing \subseteq Peers
    /\ ready \in Seq(Callback)
    /\ sweep \in [read : SUBSET Peers, todo : SUBSET Peers]
    /\ blocked \in Streams \cup {NoStream}
    /\ stream \in [Streams -> [pc : {"new", "snapshot", "live", "off"},
                               todo : SUBSET Peers, sub : BOOLEAN,
                               aq : Seq(Event), lq : Seq(Event)]]
    /\ active \in Nat
    /\ view \in [Streams -> [Peers -> BOOLEAN]]
    /\ now \in Nat /\ ops \in 0..MaxOps

\* The owner of the share stays a member, so its own announcements and streams
\* are never refused, whatever is added and removed.
OwnerIsMember == owner # NoPeer => owner \in members

\* A peer that keeps announcing is seen online again and again by every stream
\* that stays open, reconnects and departures of other clients notwithstanding:
\* heartbeats repair what the gap between snapshot and subscription, a full
\* queue or a racing sweep has lost.  It holds as long as the event loop does not
\* wait for ever for a client that left (LoopGoesOn shows that it may).
HeartbeatSeen ==
    []<>(blocked = NoStream) =>
        \A s \in Streams, p \in Steady :
            <>[](stream[s].pc = "live" /\ p \in members) => []<>view[s][p]

\* "Runs every TTL_SWEEP_INTERVAL_SECONDS, finds announcements that have
\* expired": what ran out is deleted or renewed, unless the event loop waits for
\* a stream that nobody reads.
ExpiredIsSwept ==
    \A p \in Peers :
        ann[p] \in 1..now ~> ann[p] \notin 1..now \/ blocked # NoStream

\* Nothing under way that could still change what stream s shows.
Settled(s) ==
    /\ stream[s].pc = "live" /\ stream[s].sub
    /\ stream[s].aq = <<>> /\ stream[s].lq = <<>> /\ ready = <<>>
    /\ sweep.read = {} /\ removing = {} /\ \A p \in Peers : call[p] = "idle"

\* "so client has full state before deltas arrive": snapshot and deltas
\* together show a client every member that is online, and no member whose
\* announcement is gone.
ViewMatches ==
    \A s \in Streams : Settled(s) =>
        \A p \in members : /\ Online(p) => view[s][p]
                           /\ view[s][p] => ann[p] # NoRow

\* "drop the event rather than block": the loop never waits for one stream for
\* ever.
LoopGoesOn == blocked # NoStream ~> blocked = NoStream

\* "Also delete any active announcement": no announcement of a removed peer
\* outlives the calls that were under way.
RemovedNotAnnounced ==
    \A p \in Peers : p \notin members /\ call[p] = "idle" => ann[p] = NoRow

\* The sweep deletes only what has expired.
SweepSparesRenewed ==
    [][\A p \in Peers : Online(p) /\ ann'[p] = NoRow => p \in removing']_vars

====
