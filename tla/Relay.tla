------------------------------- MODULE Relay -------------------------------
(***************************************************************************)
(* The relay server: two TCP connections that ask for each other are joined*)
(* by a pipe.  Every connection has a handler coroutine; the code between  *)
(* two awaits that can suspend is one step.  Writing a short frame does not*)
(* suspend unless the connection is lost, and then it raises.              *)
(*                                                                         *)
(* The client side (open_relay_bridge in the daemon) appears through what  *)
(* it does to its connection: it connects, says hello, and closes when one *)
(* of its timeouts runs out or the tunnel is no longer used.               *)
(***************************************************************************)
EXTENDS Naturals, FiniteSets

CONSTANTS
    Conns,        \* bound: TCP connections made to the relay
    Shares,
    Peers,
    MaxWaiting,   \* relay.max_waiting
    NoConn        \* "no connection"

ASSUME RelayAssumption ==
    /\ MaxWaiting \in Nat
    /\ NoConn \notin Conns
    /\ IsFiniteSet(Shares) /\ IsFiniteSet(Peers)

\* What a signed hello may hold: the server does not look whether a peer asks for
\* itself.
Hello == [share : Shares, peer : Peers, want : Peers]

Key == Shares \X Peers
KeyOf(h)     == <<h.share, h.peer>>
\* Mutant of WantKeyOf: the peer's own key is looked up.
WantKeyOfSelf(h) == <<h.share, h.peer>>
WantKeyOf(h) == <<h.share, h.want>>

VARIABLES
    hello,     \* what the connection asked for
    pc,        \* where its handler is
    link,      \* the client's end: "open", "closed" (EOF sent), "lost"
    writer,    \* the server's end: "open" or "closed"
    told,      \* last status frame sent to the client
    waiting,   \* RelayServer._waiting
    event,     \* _WaitingSession.event
    lock,      \* the handler that suspended while it holds RelayServer._lock
    partner    \* whose pipe this handler runs

connVars == <<hello, link>>
vars == <<hello, pc, link, writer, told, waiting, event, lock, partner>>

Init ==
    /\ hello \in [Conns -> Hello]
    /\ pc = [c \in Conns |-> "idle"]
    /\ link = [c \in Conns |-> "open"]
    /\ writer = [c \in Conns |-> "open"]
    /\ told = [c \in Conns |-> "none"]
    /\ waiting = [k \in Key |-> NoConn]
    /\ event = [c \in Conns |-> FALSE]
    /\ lock = NoConn
    /\ partner = [c \in Conns |-> NoConn]

Waiters == {k \in Key : waiting[k] # NoConn}
Free == lock = NoConn

Goto(c, place) == pc' = [pc EXCEPT ![c] = place]
Close(c) == writer' = [writer EXCEPT ![c] = "closed"]
Tell(c, s) == told' = [told EXCEPT ![c] = s]

-----------------------------------------------------------------------------
(* The client and the network *)

\* open_connection and the hello frame.
Connect(c) ==
    /\ pc[c] = "idle"
    /\ Goto(c, "hello")
    /\ UNCHANGED <<connVars, writer, told, waiting, event, lock, partner>>

\* The client gives up: no answer within 15 s, no partner within pair_timeout,
\* libtorrent never came, or the tunnel ended.  The server may still write.
ClientCloses(c) ==
    /\ pc[c] # "idle" /\ link[c] = "open"
    /\ link' = [link EXCEPT ![c] = "closed"]
    /\ UNCHANGED <<hello, pc, writer, told, waiting, event, lock, partner>>

\* The connection breaks: every later drain of its writer raises.
ConnectionLost(c) ==
    /\ pc[c] # "idle" /\ link[c] # "lost"
    /\ link' = [link EXCEPT ![c] = "lost"]
    /\ UNCHANGED <<hello, pc, writer, told, waiting, event, lock, partner>>

-----------------------------------------------------------------------------
(* RelayServer._handle_client *)

\* Mutant of HelloRejected: answers with a status the protocol does not have.
HelloRejectedOddly(c) ==
    /\ pc[c] = "hello"
    /\ Goto(c, "done")
    /\ Close(c)
    /\ Tell(c, "rejected")
    /\ UNCHANGED <<connVars, waiting, event, lock, partner>>

\* _read_hello returns None (slow, malformed, stale or unsigned), or the
\* connection ends before the hello is complete.
HelloRejected(c) ==
    /\ pc[c] = "hello"
    /\ Goto(c, "done")
    /\ Close(c)
    /\ \/ UNCHANGED told
       \/ Tell(c, "error")
    /\ UNCHANGED <<connVars, waiting, event, lock, partner>>

\* Mutant of Pair: the matched session stays in the table.
PairKeepsEntry(c) ==
    LET s == waiting[WantKeyOf(hello[c])]
    IN  /\ pc[c] = "hello" /\ Free
        /\ s # NoConn
        /\ event' = [event EXCEPT ![s] = TRUE]
        /\ told' = [told EXCEPT ![s] = "connected", ![c] = "connected"]
        /\ Goto(c, "piping")
        /\ partner' = [partner EXCEPT ![c] = s]
        /\ UNCHANGED <<connVars, writer, waiting, lock>>

\* The partner waits: pop it, wake its handler, tell both, run the pipes.  A
\* lost connection raises at its frame and the finally clause closes only c.
Pair(c) ==
    LET w == WantKeyOf(hello[c])
        s == waiting[w]
    IN  /\ pc[c] = "hello" /\ Free
        /\ s # NoConn
        /\ waiting' = [waiting EXCEPT ![w] = NoConn]
        /\ event' = [event EXCEPT ![s] = TRUE]
        /\ \/ /\ link[s] = "lost"
              /\ Goto(c, "done") /\ Close(c)
              /\ UNCHANGED <<told, partner>>
           \/ /\ link[s] # "lost" /\ link[c] = "lost"
              /\ Tell(s, "connected")
              /\ Goto(c, "done") /\ Close(c)
              /\ UNCHANGED partner
           \/ /\ link[s] # "lost" /\ link[c] # "lost"
              /\ told' = [told EXCEPT ![s] = "connected", ![c] = "connected"]
              /\ Goto(c, "piping")
              /\ partner' = [partner EXCEPT ![c] = s]
              /\ UNCHANGED writer
        /\ UNCHANGED <<connVars, lock>>

AtCapacity(c) ==
    /\ pc[c] = "hello" /\ Free
    /\ waiting[WantKeyOf(hello[c])] = NoConn
    /\ Cardinality(Waiters) >= MaxWaiting
    /\ IF link[c] = "lost" THEN UNCHANGED told ELSE Tell(c, "error")
    /\ Goto(c, "done") /\ Close(c)
    /\ UNCHANGED <<connVars, waiting, event, lock, partner>>

\* Mutant of Register: off by one in the capacity check.
RegisterOneMore(c) ==
    /\ pc[c] = "hello" /\ Free
    /\ waiting[WantKeyOf(hello[c])] = NoConn
    /\ Cardinality(Waiters) <= MaxWaiting
    /\ waiting' = [waiting EXCEPT ![KeyOf(hello[c])] = c]
    /\ Tell(c, "waiting") /\ Goto(c, "waiting") /\ UNCHANGED lock
    /\ UNCHANGED <<connVars, writer, event, partner>>

\* Nobody to pair with: the session goes into the table, over an older one of
\* the same peer.  On a lost connection the frame suspends with the lock held.
Register(c) ==
    /\ pc[c] = "hello" /\ Free
    /\ waiting[WantKeyOf(hello[c])] = NoConn
    /\ Cardinality(Waiters) < MaxWaiting
    /\ waiting' = [waiting EXCEPT ![KeyOf(hello[c])] = c]
    /\ IF link[c] = "lost"
       THEN lock' = c /\ Goto(c, "sending") /\ UNCHANGED told
       ELSE Tell(c, "waiting") /\ Goto(c, "waiting") /\ UNCHANGED lock
    /\ UNCHANGED <<connVars, writer, event, partner>>

\* The frame raises inside the lock: the entry stays behind.
SendRaises(c) ==
    /\ pc[c] = "sending"
    /\ lock' = NoConn
    /\ Goto(c, "done") /\ Close(c)
    /\ UNCHANGED <<connVars, told, waiting, event, partner>>

\* The waiter resumes after event.set(): the pipes own the writer.
WaiterWakes(c) ==
    /\ pc[c] = "waiting" /\ event[c]
    /\ Goto(c, "done")
    /\ UNCHANGED <<connVars, writer, told, waiting, event, lock, partner>>

\* session_timeout runs out.  The event may have been set in the same round
\* of the loop: the timeout still wins.
WaitTimesOut(c) ==
    /\ pc[c] = "waiting"
    /\ Goto(c, "expired")
    /\ UNCHANGED <<connVars, writer, told, waiting, event, lock, partner>>

\* Mutant of TimeoutCleanup: the writer is left open.
TimeoutCleanupLeaks(c) ==
    /\ pc[c] = "expired" /\ Free
    /\ waiting' = [waiting EXCEPT ![KeyOf(hello[c])] = NoConn]
    /\ Goto(c, "done")
    /\ UNCHANGED <<connVars, writer, told, event, lock, partner>>

\* The timed-out handler takes the lock, pops its key whoever is listed there,
\* and closes its writer.
TimeoutCleanup(c) ==
    /\ pc[c] = "expired" /\ Free
    /\ waiting' = [waiting EXCEPT ![KeyOf(hello[c])] = NoConn]
    /\ Goto(c, "done") /\ Close(c)
    /\ UNCHANGED <<connVars, told, event, lock, partner>>

\* One side of a tunnel ended, or its writer was closed: each _pipe closes the
\* writer it feeds, which ends the other one.
PipesEnd(c) ==
    LET s == partner[c]
    IN  /\ pc[c] = "piping"
        /\ link[c] # "open" \/ link[s] # "open" \/ writer[s] = "closed"
        /\ Goto(c, "done")
        /\ writer' = [writer EXCEPT ![c] = "closed", ![s] = "closed"]
        /\ UNCHANGED <<connVars, told, waiting, event, lock, partner>>

-----------------------------------------------------------------------------
HandlerStep(c) ==
    \/ HelloRejected(c)
    \/ Pair(c)
    \/ AtCapacity(c)
    \/ Register(c)
    \/ SendRaises(c)
    \/ WaiterWakes(c)
    \/ WaitTimesOut(c)
    \/ TimeoutCleanup(c)
    \/ PipesEnd(c)

Next == \E c \in Conns : \/ Connect(c)
                         \/ ClientCloses(c)
                         \/ ConnectionLost(c)
                         \/ HandlerStep(c)

Spec == Init /\ [][Next]_vars

\* The event loop runs every handler that can go on, and a wait_for timer
\* fires.  Clients owe nothing: a tunnel may stay open for ever.
Fairness == \A c \in Conns : WF_vars(HandlerStep(c))

FairSpec == Spec /\ Fairness

-----------------------------------------------------------------------------
(* Properties *)

TypeOK ==
    /\ hello \in [Conns -> Hello]
    /\ pc \in [Conns -> {"idle", "hello", "sending", "waiting", "expired",
                         "piping", "done"}]
    /\ link \in [Conns -> {"open", "closed", "lost"}]
    /\ writer \in [Conns -> {"open", "closed"}]
    /\ told \in [Conns -> {"none", "waiting", "connected", "error"}]
    /\ waiting \in [Key -> Conns \cup {NoConn}]
    /\ event \in [Conns -> BOOLEAN]
    /\ lock \in Conns \cup {NoConn}
    /\ partner \in [Conns -> Conns \cup {NoConn}]

\* A session is joined to at most one other, and a session that runs a pipe is
\* not offered to a third: nobody's bytes reach two tunnels.
OneTunnelPerSession ==
    \A c \in Conns : partner[c] # NoConn =>
        /\ partner[c] # c
        /\ \A d \in Conns : partner[d] = partner[c] => d = c
        /\ partner[partner[c]] = NoConn
        /\ \A k \in Key : waiting[k] \notin {c, partner[c]}

\* Why it holds, in inductive form.  A listed session is listed once, under its
\* own key, and nobody has paired it; a handler before the rendezvous has no
\* part in any tunnel; whoever is served by a tunnel was woken by it.
ListedOnce ==
    \A k \in Key : waiting[k] # NoConn =>
        /\ k = KeyOf(hello[waiting[k]])
        /\ pc[waiting[k]] \notin {"idle", "hello"}
        /\ ~event[waiting[k]]
        /\ partner[waiting[k]] = NoConn
Untouched ==
    \A c \in Conns : pc[c] \in {"idle", "hello"} =>
        ~event[c] /\ partner[c] = NoConn
ServedByOne ==
    \A c \in Conns : partner[c] # NoConn =>
        /\ event[partner[c]]
        /\ pc[partner[c]] \notin {"idle", "hello"}
        /\ partner[partner[c]] = NoConn
        /\ \A d \in Conns : partner[d] = partner[c] => d = c
TunnelInv == TypeOK /\ ListedOnce /\ Untouched /\ ServedByOne

\* The table of unpaired sessions never exceeds max_waiting, through
\* overwritten, leaked and timed-out entries.
WaitingBounded == Cardinality(Waiters) <= MaxWaiting

\* The relay implements the abstract rendezvous: whatever its handlers do to
\* the table and to each other, every session is offered and taken at most once,
\* and a tunnel joins a session to one it asked for.
StateOf(c) ==
    IF pc[c] \in {"idle", "hello"} THEN "new"
    ELSE IF \E k \in Key : waiting[k] = c THEN "offered" ELSE "taken"
Tunnels == {<<c, partner[c]>> : c \in {d \in Conns : pc[d] = "piping"}}

R == INSTANCE Rendezvous WITH
         Sessions <- Conns, ask <- hello,
         state <- [c \in Conns |-> StateOf(c)], tunnels <- Tunnels

ImplementsRendezvous == R!Spec

\* A client that was told to wait and stays is connected or dropped.
WaitEnds ==
    \A c \in Conns :
        told[c] = "waiting" ~>
            told[c] = "connected" \/ writer[c] = "closed" \/ link[c] # "open"

\* A tunnel joins two sessions that asked for each other.
PairedAsWanted ==
    \A c \in Conns : partner[c] # NoConn =>
        hello[partner[c]].want = hello[c].peer

\* A session told to wait can be found by its partner until it is dropped.
WaiterIsListed ==
    \A c \in Conns : pc[c] = "waiting" /\ ~event[c] =>
        waiting[KeyOf(hello[c])] = c

\* A client that was told "connected" and is still there has a pipe that
\* serves it until the server closes its connection.
ConnectedIsPiped ==
    \A c \in Conns :
        told[c] = "connected" /\ link[c] = "open" /\ writer[c] = "open" =>
            pc[c] = "piping" \/ \E d \in Conns : partner[d] = c /\ pc[d] = "piping"

====
