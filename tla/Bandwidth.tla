----------------------------- MODULE Bandwidth -----------------------------
(***************************************************************************)
(* The rate limit of one registry share on one daemon.                     *)
(*                                                                         *)
(* Two parties write it.  The share's owner sets a policy in the registry, *)
(* which reaches the daemon with add_share's GetShare and as POLICY_UPDATED*)
(* events of the watch stream; the user stores a local cap with set-limit. *)
(* Both end in the limit of the libtorrent handle, which an activation, a  *)
(* rebuild or a switch may create anew.  The event loop, the control       *)
(* server's thread that serves set-limit and the pool thread that adds the *)
(* handle interleave.  Upload and download are treated alike: one rate.    *)
(***************************************************************************)
EXTENDS Integers, Sequences, FiniteSets, TLAPS

CONSTANTS
    Limits,    \* the limits in use besides "unlimited"
    Calls,     \* SetSharePolicy calls the owner may have in flight
    MaxOps     \* bound: operations of owner and user, and failures

ASSUME LimitsAssumption == Limits \subseteq Nat \ {0} /\ MaxOps \in Nat

Unlimited == 0
Rate      == Limits \cup {Unlimited}
Requested == Rate \cup {-1}          \* what a SetSharePolicy request may hold

\* A value in flight is a set with at most one member.
Pending == {{}} \cup {{r} : r \in Rate}

\* A running _activate_share.  cap: the cap of the row it read; fetched: the
\* policy GetShare returned to the add_share that awaits it.
Activation == [pc : {"none", "scan", "add", "tail", "policy"},
               cap : Rate, fetched : Pending]
NoActivation == [pc |-> "none", cap |-> Unlimited, fetched |-> {}]

VARIABLES
    policy,     \* registry: upload_limit_bps of the share's row
    call,       \* registry: policies committed and not yet published
    stream,     \* the watch task: none, down, live, stopped
    queue,      \* POLICY_UPDATED events on the way to the daemon
    cap,        \* StateDB: upload_limit of the local row
    handle,     \* libtorrent's limit for the share; {}: no handle
    apply,      \* event loop, in _apply_policy: the limit it computed
    setting,    \* control thread, in set_share_rate_limit: the cap it stored
    act,        \* the activation in flight
    replacing,  \* a rebuild or a switch dropped the handle to add it anew
    ops         \* operations and failures so far

vars == <<policy, call, stream, queue, cap, handle, apply, setting, act,
          replacing, ops>>

Op == ops < MaxOps /\ ops' = ops + 1

\* What GetShare may return to add_share: the policy, or an error that is logged.
GetShare == {{}, {policy}}

\* add_share has stored the row; GetShare answered or failed.
Init ==
    /\ policy \in Rate
    /\ call = [o \in Calls |-> {}]
    /\ stream = "none" /\ queue = <<>>
    /\ cap = Unlimited
    /\ handle = {} /\ apply = {} /\ setting = {}
    /\ act \in {[NoActivation EXCEPT !.pc = "scan", !.fetched = f] : f \in GetShare}
    /\ replacing = FALSE
    /\ ops = 0

-----------------------------------------------------------------------------
(* The limit of a handle *)

\* Mutant of EffectiveLimit: the registry overrides the local cap.
EffectiveLimitRegistry(registry, local) ==
    IF registry = Unlimited THEN local ELSE registry

\* _effective_limit: the lower of the two that are set.
EffectiveLimit(registry, local) ==
    CASE registry = Unlimited -> local
      [] local = Unlimited -> registry
      [] OTHER -> IF registry < local THEN registry ELSE local

\* LibtorrentSession.set_rate_limit and set_share_rate_limit: without a handle
\* the limit is dropped.
SetRateLimit(r) == handle' = IF handle = {} THEN {} ELSE {r}

\* LibtorrentSession.add_share: a new handle starts without a limit.
AddHandle == handle' = IF handle = {} THEN {Unlimited} ELSE handle

\* The event loop is not inside a coroutine that has no await.
LoopFree == apply = {} /\ act.pc # "policy"

-----------------------------------------------------------------------------
(* The registry *)

\* Mutant of StoredPolicy: a negative limit is stored as it is.
StoredPolicyRaw(r) == r

\* SetSharePolicy stores no negative limit.
StoredPolicy(r) == IF r < 0 THEN 0 ELSE r

\* SetSharePolicy commits ...
SetSharePolicy(o, r) ==
    /\ Op /\ call[o] = {}
    /\ policy' = StoredPolicy(r)
    /\ call' = [call EXCEPT ![o] = {StoredPolicy(r)}]
    /\ UNCHANGED <<stream, queue, cap, handle, apply, setting, act, replacing>>

\* ... and then publishes to the streams that are open.
PublishPolicy(o) ==
    /\ call[o] # {}
    /\ \E r \in call[o] :
          queue' = IF stream = "live" THEN Append(queue, r) ELSE queue
    /\ call' = [call EXCEPT ![o] = {}]
    /\ UNCHANGED <<policy, stream, cap, handle, apply, setting, act, replacing,
                   ops>>

-----------------------------------------------------------------------------
(* The event loop *)

\* _apply_policy up to its call of libtorrent: the row is read.
ApplyPolicy(r) == apply' = {EffectiveLimit(r, cap)}

\* A POLICY_UPDATED event of the watch stream.
HandlePolicy ==
    /\ LoopFree /\ stream = "live" /\ queue # <<>>
    /\ ApplyPolicy(Head(queue))
    /\ queue' = Tail(queue)
    /\ UNCHANGED <<policy, call, stream, cap, handle, setting, act, replacing,
                   ops>>

ApplyLimit ==
    /\ apply # {}
    /\ \E r \in apply : SetRateLimit(r)
    /\ apply' = {}
    /\ UNCHANGED <<policy, call, stream, queue, cap, setting, act, replacing,
                   ops>>

\* watch_share_peers_loop opens the stream.  The snapshot holds no policy.
WatchConnect ==
    /\ stream = "down"
    /\ stream' = "live"
    /\ UNCHANGED <<policy, call, queue, cap, handle, apply, setting, act,
                   replacing, ops>>

StreamLost ==
    /\ Op /\ stream = "live"
    /\ stream' = "down" /\ queue' = <<>>
    /\ UNCHANGED <<policy, call, cap, handle, apply, setting, act, replacing>>

-----------------------------------------------------------------------------
(* Activation *)

StartActivation(f) ==
    act' = [NoActivation EXCEPT !.pc = "scan", !.fetched = f]

\* add_share of a share that is there: the policy is fetched again.
AddShare ==
    /\ Op /\ LoopFree /\ act = NoActivation
    /\ \E f \in GetShare : StartActivation(f)
    /\ UNCHANGED <<policy, call, stream, queue, cap, handle, apply, setting,
                   replacing>>

\* The scan ends: the row is read, and there is something to add or not.
ActivateScan ==
    /\ LoopFree /\ act.pc = "scan"
    /\ \E next \in {"add", "tail"} :
          act' = [act EXCEPT !.pc = next, !.cap = cap]
    /\ UNCHANGED <<policy, call, stream, queue, cap, handle, apply, setting,
                   replacing, ops>>

\* What follows _activate_share: add_share applies the policy it fetched.
ActivationEnds ==
    act' = IF act.fetched = {} THEN NoActivation ELSE [act EXCEPT !.pc = "policy"]

\* The pool thread adds the handle, or fails, which ends the activation.
ActivateAdd ==
    /\ act.pc = "add"
    /\ \/ AddHandle /\ act' = [act EXCEPT !.pc = "tail"]
       \/ LoopFree /\ ActivationEnds /\ UNCHANGED handle
    /\ UNCHANGED <<policy, call, stream, queue, cap, apply, setting, replacing,
                   ops>>

\* Mutant of ActivateTail: the stored cap is not applied.
ActivateTailForgets ==
    /\ LoopFree /\ act.pc = "tail"
    /\ stream' = IF stream = "none" THEN "down" ELSE stream
    /\ ActivationEnds
    /\ UNCHANGED <<policy, call, queue, cap, handle, apply, setting, replacing,
                   ops>>

\* The cap read before the await is applied; the first activation starts the
\* watch task.
ActivateTail ==
    /\ LoopFree /\ act.pc = "tail"
    /\ IF act.cap # Unlimited THEN SetRateLimit(act.cap) ELSE UNCHANGED handle
    /\ stream' = IF stream = "none" THEN "down" ELSE stream
    /\ ActivationEnds
    /\ UNCHANGED <<policy, call, queue, cap, apply, setting, replacing, ops>>

ApplyFetched ==
    /\ act.pc = "policy"
    /\ \E r \in act.fetched : ApplyPolicy(r)
    /\ act' = NoActivation
    /\ UNCHANGED <<policy, call, stream, queue, cap, handle, setting, replacing,
                   ops>>

\* rebuild or replace_with_remote: the handle goes, a pool thread adds one.
ReplaceTorrent ==
    /\ Op /\ LoopFree /\ ~replacing
    /\ handle' = {} /\ replacing' = TRUE
    /\ UNCHANGED <<policy, call, stream, queue, cap, apply, setting, act>>

\* The thread adds the handle, or raises, which is logged.
ReplaceAdd ==
    /\ replacing
    /\ AddHandle \/ UNCHANGED handle
    /\ replacing' = FALSE
    /\ UNCHANGED <<policy, call, stream, queue, cap, apply, setting, act, ops>>

-----------------------------------------------------------------------------
(* The user, and restarts *)

\* set_share_rate_limit on a control thread: the row first ...
SetShareRateLimit(c) ==
    /\ Op /\ setting = {}
    /\ cap' = c /\ setting' = {c}
    /\ UNCHANGED <<policy, call, stream, queue, handle, apply, act, replacing>>

\* ... then the handle, whatever the registry's policy is.
SetHandleLimit ==
    /\ setting # {}
    /\ \E c \in setting : SetRateLimit(c)
    /\ setting' = {}
    /\ UNCHANGED <<policy, call, stream, queue, cap, apply, act, replacing, ops>>

\* pause_share stops the watch task for good; the handle stays.
PauseShare ==
    /\ Op /\ LoopFree
    /\ stream' = IF stream = "none" THEN "none" ELSE "stopped"
    /\ queue' = <<>>
    /\ UNCHANGED <<policy, call, cap, handle, apply, setting, act, replacing>>

ResumeShare ==
    /\ Op /\ LoopFree /\ act = NoActivation
    /\ StartActivation({})
    /\ UNCHANGED <<policy, call, stream, queue, cap, handle, apply, setting,
                   replacing>>

\* The daemon restarts: its database survives.  A paused share stays inactive.
Restart ==
    /\ Op
    /\ stream' = "none" /\ queue' = <<>>
    /\ handle' = {} /\ apply' = {} /\ setting' = {} /\ replacing' = FALSE
    /\ act' = NoActivation \/ StartActivation({})
    /\ UNCHANGED <<policy, call, cap>>

-----------------------------------------------------------------------------

Next ==
    \/ \E o \in Calls : \/ \E r \in Requested : SetSharePolicy(o, r)
                        \/ PublishPolicy(o)
    \/ HandlePolicy \/ ApplyLimit \/ WatchConnect \/ StreamLost
    \/ AddShare \/ ActivateScan \/ ActivateAdd \/ ActivateTail \/ ApplyFetched
    \/ ReplaceTorrent \/ ReplaceAdd
    \/ \E c \in Rate : SetShareRateLimit(c)
    \/ SetHandleLimit
    \/ PauseShare \/ ResumeShare \/ Restart

\* Threads and coroutines that can run do run; the stream reconnects.
Fairness ==
    /\ \A o \in Calls : WF_vars(PublishPolicy(o))
    /\ WF_vars(HandlePolicy) /\ WF_vars(ApplyLimit) /\ WF_vars(WatchConnect)
    /\ WF_vars(ActivateScan) /\ WF_vars(ActivateAdd) /\ WF_vars(ActivateTail)
    /\ WF_vars(ApplyFetched) /\ WF_vars(ReplaceAdd) /\ WF_vars(SetHandleLimit)

Spec == Init /\ [][Next]_vars /\ Fairness

-----------------------------------------------------------------------------
(* Properties *)

\* Every rate in the registry, the database, libtorrent and on the way between
\* them is one somebody asked for, clamped at zero by SetSharePolicy.
TypeOK ==
    /\ policy \in Rate
    /\ call \in [Calls -> Pending]
    /\ stream \in {"none", "down", "live", "stopped"}
    /\ queue \in Seq(Rate)
    /\ cap \in Rate
    /\ handle \in Pending /\ apply \in Pending /\ setting \in Pending
    /\ act \in Activation
    /\ replacing \in BOOLEAN
    /\ ops \in 0..MaxOps

\* Nothing but the policy's own delivery is left to happen to the handle.
Undisturbed ==
    /\ ops = MaxOps
    /\ stream = "live" /\ handle # {}
    /\ act = NoActivation /\ ~replacing /\ setting = {}

\* The most restrictive of a set of limits, where 0 restricts nothing.
Tightest(S) ==
    IF S \subseteq {Unlimited} THEN Unlimited
    ELSE CHOOSE r \in S \ {Unlimited} : \A t \in S \ {Unlimited} : r <= t

\* Whatever happened before (lost streams, restarts, rebuilds, racing caps), a
\* policy the owner sets while the stream is up is in force in the end,
\* merged with the cap of the local row, and stays so.
PolicyInForce ==
    \A o \in Calls :
        Undisturbed /\ call[o] # {} ~> [](handle = {Tightest({policy, cap})})

\* After a restart the limit in force is never laxer than the stored cap, although
\* the new handle starts without one and policies still arrive, were fetched or
\* are being applied.  (A policy set before the restart is not in force again.)
StoredCapReturns ==
    (/\ ops = MaxOps /\ act.pc = "scan" /\ handle = {}
     /\ setting = {} /\ ~replacing)
        ~> [](cap # Unlimited => \A r \in handle : r # Unlimited /\ r <= cap)

\* With nothing in flight the local cap is respected: "Local per-share caps
\* always take precedence - if both are set, the more restrictive value wins".
CapHonoured ==
    (apply = {} /\ setting = {} /\ act = NoActivation /\ ~replacing /\ cap # Unlimited)
        => \A r \in handle : r # Unlimited /\ r <= cap

-----------------------------------------------------------------------------
(* Proofs *)

\* The rates, and the values that may be in flight.
LEMMA Rates ==
    /\ Rate \subseteq Nat /\ Unlimited \in Rate /\ {} \in Pending
    /\ \A r \in Rate : {r} \in Pending
    /\ \A x \in Pending : \A r \in x : r \in Rate
    /\ <<>> \in Seq(Rate)
<1>1. <<>> \in Seq(Rate)
  OBVIOUS
<1> QED
  BY <1>1, LimitsAssumption DEF Rate, Unlimited, Pending

\* _effective_limit returns the more restrictive of two limits, whichever of
\* them are set.
LEMMA EffectiveIsTightest ==
    ASSUME NEW r \in Rate, NEW c \in Rate
    PROVE  EffectiveLimit(r, c) = Tightest({r, c}) /\ EffectiveLimit(r, c) \in Rate
<1>1. r \in Nat /\ c \in Nat
  BY Rates
<1> DEFINE S == {r, c} \ {Unlimited}
           Least(x) == x \in S /\ \A t \in S : x <= t
<1>2. CASE r = Unlimited /\ c = Unlimited
  BY <1>2 DEF EffectiveLimit, Tightest
<1>3. CASE ~(r = Unlimited /\ c = Unlimited)
  <2>1. EffectiveLimit(r, c) \in {r, c} /\ Least(EffectiveLimit(r, c))
    BY <1>1, <1>3 DEF EffectiveLimit, Unlimited
  <2>2. \A x, y : Least(x) /\ Least(y) => x = y
    BY <1>1
  <2>3. Tightest({r, c}) = CHOOSE x \in S : \A t \in S : x <= t
    BY <1>3 DEF Tightest
  <2>4. Least(Tightest({r, c}))
    BY <2>1, <2>3
  <2> QED
    BY <2>1, <2>2, <2>4
<1> QED
  BY <1>2, <1>3

\* Every rate in the registry, the database, libtorrent and on the way between
\* them is zero or one somebody asked for.
THEOREM TypeCorrect == Spec => []TypeOK
<1>1. Init => TypeOK
  <2> SUFFICES ASSUME Init PROVE TypeOK
    OBVIOUS
  <2>1. ASSUME NEW f \in GetShare
        PROVE  [NoActivation EXCEPT !.pc = "scan", !.fetched = f] \in Activation
    BY Rates DEF Init, GetShare, NoActivation, Activation
  <2>2. act \in Activation
    BY <2>1 DEF Init
  <2>3. /\ policy \in Rate /\ call \in [Calls -> Pending] /\ queue \in Seq(Rate)
        /\ cap \in Rate /\ replacing \in BOOLEAN /\ ops \in 0..MaxOps
    <3>1. call \in [Calls -> Pending]
      BY Rates DEF Init
    <3>2. queue \in Seq(Rate)
      BY Rates, Zenon DEF Init
    <3>start. ops = 0
      BY DEF Init
    <3>3. ops \in 0..MaxOps
      BY <3>start, LimitsAssumption
    <3> QED
      BY <3>1, <3>2, <3>3, Rates, Zenon DEF Init
  <2>4. /\ handle \in Pending /\ apply \in Pending /\ setting \in Pending
        /\ stream \in {"none", "down", "live", "stopped"}
    BY Rates DEF Init
  <2> QED
    BY <2>2, <2>3, <2>4 DEF TypeOK
<1>2. TypeOK /\ [Next]_vars => TypeOK'
  <2> SUFFICES ASSUME TypeOK, [Next]_vars PROVE TypeOK'
    OBVIOUS
  <2> USE Rates, LimitsAssumption DEF TypeOK, Op
  <2>0. CASE UNCHANGED vars
    BY <2>0 DEF vars
  <2>activation.
        /\ NoActivation \in Activation
        /\ \A f \in Pending :
              [NoActivation EXCEPT !.pc = "scan", !.fetched = f] \in Activation
        /\ \A x \in {"add", "tail", "policy"} : [act EXCEPT !.pc = x] \in Activation
        /\ \A x \in {"add", "tail"} : [act EXCEPT !.pc = x, !.cap = cap] \in Activation
    BY DEF NoActivation, Activation
  <2>1. ASSUME NEW o \in Calls, NEW r \in Requested, SetSharePolicy(o, r)
        PROVE  TypeOK'
    <3>1. StoredPolicy(r) \in Rate
      BY DEF StoredPolicy, Requested, Unlimited
    <3>2. call' \in [Calls -> Pending]
      BY <2>1, <3>1 DEF SetSharePolicy
    <3> QED
      BY <2>1, <3>1, <3>2 DEF SetSharePolicy
  <2>2. ASSUME NEW o \in Calls, PublishPolicy(o) PROVE TypeOK'
    BY <2>2 DEF PublishPolicy
  <2>3. CASE HandlePolicy
    <3>1. Head(queue) \in Rate /\ Tail(queue) \in Seq(Rate)
      BY <2>3 DEF HandlePolicy
    <3>2. apply' \in Pending
      BY <2>3, <3>1, EffectiveIsTightest DEF HandlePolicy, ApplyPolicy
    <3> QED
      BY <2>3, <3>1, <3>2 DEF HandlePolicy
  <2>4. CASE ApplyLimit
    BY <2>4 DEF ApplyLimit, SetRateLimit
  <2>5. CASE WatchConnect \/ StreamLost
    <3>1. CASE WatchConnect
      BY <3>1 DEF WatchConnect
    <3>2. CASE StreamLost
      BY <3>2 DEF StreamLost
    <3> QED
      BY <2>5, <3>1, <3>2
  <2>6. CASE AddShare \/ ResumeShare
    <3>1. act' \in Activation
      <4>1. \E f \in Pending : StartActivation(f)
        BY <2>6 DEF AddShare, ResumeShare, GetShare
      <4> QED
        BY <2>activation, <4>1 DEF StartActivation
    <3> QED
      BY <2>6, <3>1 DEF AddShare, ResumeShare
  <2>7. CASE ActivateScan
    <3>1. act' \in Activation
      BY <2>7, <2>activation DEF ActivateScan
    <3> QED
      BY <2>7, <3>1 DEF ActivateScan
  <2>8. CASE ActivateAdd \/ ActivateTail
    <3>1. act' \in Activation
      BY <2>8, <2>activation DEF ActivateAdd, ActivateTail, ActivationEnds
    <3>2. act.cap \in Rate
      BY DEF Activation
    <3>3. handle' \in Pending
      BY <2>8, <3>2 DEF ActivateAdd, ActivateTail, AddHandle, SetRateLimit
    <3> QED
      BY <2>8, <3>1, <3>3 DEF ActivateAdd, ActivateTail
  <2>9. CASE ApplyFetched
    <3>1. act.fetched \in Pending
      BY DEF Activation
    <3>2. PICK r \in act.fetched : apply' = {EffectiveLimit(r, cap)}
      BY <2>9 DEF ApplyFetched, ApplyPolicy
    <3>3. EffectiveLimit(r, cap) \in Rate
      BY <3>1, EffectiveIsTightest
    <3> QED
      BY <2>9, <2>activation, <3>2, <3>3 DEF ApplyFetched
  <2>10. CASE ReplaceTorrent \/ ReplaceAdd
    <3>1. CASE ReplaceTorrent
      BY <3>1 DEF ReplaceTorrent
    <3>2. CASE ReplaceAdd
      <4>1. handle' \in Pending
        BY <3>2 DEF ReplaceAdd, AddHandle
      <4> QED
        BY <3>2, <4>1 DEF ReplaceAdd
    <3> QED
      BY <2>10, <3>1, <3>2
  <2>11. CASE (\E c \in Rate : SetShareRateLimit(c)) \/ SetHandleLimit
    <3>1. CASE \E c \in Rate : SetShareRateLimit(c)
      BY <3>1 DEF SetShareRateLimit
    <3>2. CASE SetHandleLimit
      BY <3>2 DEF SetHandleLimit, SetRateLimit
    <3> QED
      BY <2>11, <3>1, <3>2
  <2>12. CASE PauseShare
    <3>1. queue' \in Seq(Rate)
      BY <2>12 DEF PauseShare
    <3> QED
      BY <2>12, <3>1 DEF PauseShare
  <2>13. CASE Restart
    <3>1. act' \in Activation
      BY <2>13, <2>activation DEF Restart, StartActivation
    <3>2. /\ stream' = "none" /\ queue' = <<>> /\ ops' = ops + 1 /\ ops < MaxOps
          /\ handle' = {} /\ apply' = {} /\ setting' = {} /\ replacing' = FALSE
          /\ UNCHANGED <<policy, call, cap>>
      BY <2>13 DEF Restart
    <3>3. queue' \in Seq(Rate)
      BY <3>2, Zenon
    <3>4. ops' \in 0..MaxOps
      BY <3>2
    <3> QED
      BY <3>1, <3>2, <3>3, <3>4, Zenon
  <2> QED
    BY <2>0, <2>1, <2>2, <2>3, <2>4, <2>5, <2>6, <2>7, <2>8, <2>9, <2>10, <2>11,
       <2>12, <2>13 DEF Next
<1> QED
  BY <1>1, <1>2, PTL DEF Spec

====
