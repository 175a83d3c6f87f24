-------------------------- MODULE AnnounceLimiter --------------------------
(***************************************************************************)
(* The registry's RateLimiter: the token bucket of one (peer, share).      *)
(* Handler threads read the clock before they take the lock, so a call may *)
(* work with a clock older than the one that updated the bucket last.      *)
(*                                                                         *)
(* Tokens are counted in units: a call costs Unit of them and Rate of them *)
(* come back per tick, so rate_per_minute / 60 is Rate / Unit.             *)
(***************************************************************************)
EXTENDS Integers, FiniteSets

CONSTANTS
    Threads,   \* handler threads that call is_allowed
    Unit,
    Rate,
    Burst,     \* tokens of a full bucket
    MaxTime    \* bound: the clock stops here

ASSUME LimiterAssumption ==
    /\ Unit \in Nat \ {0} /\ Rate \in Nat \ {0}
    /\ Burst \in Nat \ {0} /\ MaxTime \in Nat

Idle == -1

VARIABLES
    now,
    call,      \* the clock a thread has read, or Idle
    tokens,    \* the bucket, in units
    last,      \* its last_refill_time; Idle: no bucket yet
    granted,   \* history: calls that were allowed
    promise    \* history: clock and missing units of the last denial since a
               \* grant, when it told the caller how long to wait

limiterVars == <<now, call, tokens, last, granted, promise>>

NoPromise == [at |-> Idle, owe |-> 0]

LimiterInit ==
    /\ now = 0
    /\ call = [t \in Threads |-> Idle]
    /\ tokens = Burst * Unit
    /\ last = Idle
    /\ granted = 0
    /\ promise = NoPromise

ReadClock(t) ==
    /\ call[t] = Idle
    /\ call' = [call EXCEPT ![t] = now]
    /\ UNCHANGED <<now, tokens, last, granted, promise>>

Smaller(a, b) == IF a < b THEN a ELSE b

\* Mutant of Refilled: the bucket may overflow.
RefilledUncapped(clock) ==
    IF last = Idle THEN Burst * Unit ELSE tokens + (clock - last) * Rate

\* The bucket after the refill up to a clock; a new one is full.
Refilled(clock) ==
    IF last = Idle THEN Burst * Unit
    ELSE Smaller(Burst * Unit, tokens + (clock - last) * Rate)

\* Mutant of IsAllowed: a denial moves the refill time and loses the refill.
IsAllowedForgets(t) ==
    LET full == Refilled(call[t])
    IN  /\ call[t] # Idle
        /\ call' = [call EXCEPT ![t] = Idle]
        /\ last' = call[t]
        /\ IF full >= Unit
           THEN /\ tokens' = full - Unit
                /\ granted' = granted + 1
                /\ promise' = NoPromise
           ELSE /\ promise' = [at |-> call[t], owe |-> Unit - full]
                /\ UNCHANGED <<tokens, granted>>
        /\ UNCHANGED now

\* The locked part of is_allowed.  A denial stores the refilled tokens with
\* the old refill time.
IsAllowed(t) ==
    LET full == Refilled(call[t])
    IN  /\ call[t] # Idle
        /\ call' = [call EXCEPT ![t] = Idle]
        /\ IF full >= Unit
           THEN /\ tokens' = full - Unit
                /\ last' = call[t]
                /\ granted' = granted + 1
                /\ promise' = NoPromise
           ELSE /\ tokens' = full
                /\ last' = IF last = Idle THEN call[t] ELSE last
                /\ promise' = [at |-> call[t], owe |-> Unit - full]
                /\ UNCHANGED granted
        /\ UNCHANGED now

Tick ==
    /\ now < MaxTime
    /\ now' = now + 1
    /\ UNCHANGED <<call, tokens, last, granted, promise>>

LimiterNext == Tick \/ \E t \in Threads : ReadClock(t) \/ IsAllowed(t)

LimiterSpec == LimiterInit /\ [][LimiterNext]_limiterVars

-----------------------------------------------------------------------------
(* Properties *)

TypeOK ==
    /\ now \in 0..MaxTime
    /\ call \in [Threads -> 0..MaxTime \cup {Idle}]
    /\ tokens \in Int /\ tokens <= Burst * Unit
    /\ last \in 0..MaxTime \cup {Idle}
    /\ granted \in Nat
    /\ promise \in [at : 0..MaxTime \cup {Idle}, owe : Nat]

\* "Retry after": a caller that was denied and comes back after the time it was
\* told is allowed, if nobody else was meanwhile.
RetryHonest ==
    [][\A t \in Threads :
         /\ promise # NoPromise /\ call[t] # Idle /\ call'[t] = Idle
         /\ (call[t] - promise.at) * Rate >= promise.owe
         => granted' > granted]_limiterVars

\* "Sustained announce rate allowed per key": never more calls than a full
\* bucket and the time since the start pay for.
RateRespected == granted * Unit <= Burst * Unit + now * Rate

====
