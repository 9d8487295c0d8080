---------------------------- MODULE RateLimiter ----------------------------
(***************************************************************************)
(* The permit counter that the threads of the request simulation share     *)
(* (tools/request_simulation/rate_limiter.cc).  Acquire keeps its mutex    *)
(* while it sleeps, so that others wait for the mutex meanwhile; their     *)
(* time-out starts when they have it.  Time advances in ticks, and         *)
(* `Second` ticks are the unit of the fill rate.                           *)
(***************************************************************************)
EXTENDS Integers, FiniteSets, TLC

CONSTANTS Threads,    \* callers of Acquire
          Amounts,    \* numbers of permits asked for at once
          Initial,    \* initial_permits
          Rates,      \* values of permits_fill_rate_, in permits per second
          Second,     \* ticks of a second
          Timeout,    \* timeout_, in ticks
          Oversleep,  \* ticks a sleep may take longer than asked for
          MaxTime     \* bound of the run

LimiterAssumption ==
    /\ Rates \subseteq Nat \ {0}
    /\ Second \in Nat \ {0}
    /\ Initial \in Nat /\ Timeout \in Nat /\ Oversleep \in Nat
    /\ MaxTime \in Nat

VARIABLES now,         \* clock_
          permits,     \* permits_
          rate,        \* permits_fill_rate_
          last,        \* last_refill_time_
          th,          \* th[t]: where thread t is in Acquire
          granted,     \* permits handed out since the beginning
          earned       \* what the highest rate has allowed since the beginning,
                       \* in permits times Second

vars == <<now, permits, rate, last, th, granted, earned>>

MaxRate == CHOOSE r \in Rates : \A q \in Rates : q <= r

Idle == [pc |-> "idle"]

(* The thread that has mu_.                                                *)
Holds(t) == th[t].pc = "sleeping"
Free == \A t \in Threads : ~Holds(t)

Init ==
    /\ now = 0
    /\ permits = Initial
    /\ rate \in Rates
    /\ last = 0
    /\ th = [t \in Threads |-> Idle]
    /\ granted = 0
    /\ earned = Initial * Second

(* Time does not pass the moment at which the longest sleep ends.          *)
Tick ==
    /\ now < MaxTime
    /\ \A t \in Threads : th[t].pc = "sleeping" => now < th[t].until + Oversleep
    /\ now' = now + 1
    /\ earned' = earned + MaxRate
    /\ UNCHANGED <<permits, rate, last, th, granted>>

(* Acquire(n), before the mutex is free.                                   *)
Acquire(t, n) ==
    /\ th[t].pc \in {"idle", "ok", "late"}
    /\ th' = [th EXCEPT ![t] = [pc |-> "locking", n |-> n]]
    /\ UNCHANGED <<now, permits, rate, last, granted, earned>>

(* The integer division of the code: a rate that does not divide a second  *)
(* gives a sleep that is a little too short.                               *)
SleepTime(n) == (Second * n) \div rate

TooFew(p, n) == p - n < 0

(* The condition of the loop, with p permits: sleep when they are too few, *)
(* take them and return otherwise.                                         *)
Loop(t, n, start, p) ==
    IF TooFew(p, n)
    THEN /\ th' = [th EXCEPT ![t] = [pc |-> "sleeping", n |-> n,
                                     start |-> start, until |-> now + SleepTime(n)]]
         /\ permits' = p
         /\ UNCHANGED granted
    ELSE /\ permits' = p - n
         /\ granted' = granted + n
         /\ th' = [th EXCEPT ![t] = [pc |-> "ok", waited |-> now - start]]

Lock(t) ==
    /\ th[t].pc = "locking"
    /\ Free
    /\ Loop(t, th[t].n, now, permits)
    /\ UNCHANGED <<now, rate, last, earned>>

(* Mutant: the watch keeps running, and time is paid for twice.            *)
NotReset == last

(* RefillPermits: whole permits only, and the watch starts anew.           *)
Filled == (rate * (now - last)) \div Second
LastRefill == now

(* Mutant: the time-out is not looked at.                                  *)
NeverLate(t) == FALSE

DeadlinePassed(t) == now >= th[t].start + Timeout

(* The end of a sleep.  The deadline counts even when the permits are      *)
(* there now; they stay for the next caller.  Only sleeping takes time.    *)
WakeUp(t) ==
    /\ th[t].pc = "sleeping"
    /\ now >= th[t].until
    /\ last' = LastRefill
    /\ IF DeadlinePassed(t)
       THEN /\ permits' = permits + Filled
            /\ th' = [th EXCEPT ![t] = [pc |-> "late"]]
            /\ UNCHANGED granted
       ELSE Loop(t, th[t].n, th[t].start, permits + Filled)
    /\ UNCHANGED <<now, rate, earned>>

(* SetFillRate takes the mutex.  The time since the last refill is later   *)
(* filled at the new rate.                                                 *)
SetFillRate ==
    /\ Free
    /\ rate' \in Rates \ {rate}
    /\ UNCHANGED <<now, permits, last, th, granted, earned>>

Next ==
    \/ Tick
    \/ SetFillRate
    \/ \E t \in Threads : \/ \E n \in Amounts : Acquire(t, n)
                          \/ Lock(t) \/ WakeUp(t)

Spec == Init /\ [][Next]_vars

-----------------------------------------------------------------------------
(* Types; at most one thread is inside the mutex.                          *)
TypeOK ==
    /\ now \in 0..MaxTime /\ last \in 0..now
    /\ permits \in Nat /\ granted \in Nat /\ earned \in Nat
    /\ rate \in Rates
    /\ Cardinality({t \in Threads : Holds(t)}) <= 1
    /\ \A t \in Threads : th[t].pc \in {"idle", "locking", "sleeping", "ok", "late"}

(* However the calls interleave and however long sleeps take, Acquire      *)
(* hands out no more than the initial permits and what the highest rate    *)
(* that was set allows for the time that has passed.                       *)
RateIsKept == granted * Second <= earned

(* A caller that had to wait, and gets permits, gets them within the       *)
(* time-out, counted from when it had the mutex.                           *)
GrantedInTime ==
    \A t \in Threads : th[t].pc = "ok" => th[t].waited = 0 \/ th[t].waited < Timeout

-----------------------------------------------------------------------------
(* What documentation or comments say.  The code does otherwise, see       *)
(* README.md; these are no properties of the model.                        *)

(* rate_limiter.h: "The permits are refilled at given rate".  When a       *)
(* refill has just happened, all permits that the rate allows by then have *)
(* been added.                                                             *)
RefilledAtRate ==
    now = last => granted + permits = earned \div Second
=============================================================================
