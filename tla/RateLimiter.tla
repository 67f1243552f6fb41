---------------------------- MODULE RateLimiter ----------------------------
(***************************************************************************)
(* The request rate limiter of src/liteclient/rate_limit.rs: a token       *)
(* bucket behind a mutex, shared by every clone of a RateLimiter, and the  *)
(* tasks that call `acquire` on it.                                        *)
(*                                                                         *)
(* Time is the integer number of ticks since `start`; NANOS ticks are one  *)
(* second (NANOS_PER_SECOND).  The bucket is read and written only with    *)
(* the mutex held and the clock is read under it, so one locked section    *)
(* is one step.  A task may be dropped while it waits for the lock or      *)
(* sleeps: a future that is not polled any more leaves no trace.           *)
(***************************************************************************)
EXTENDS Integers, Sequences

CONSTANTS NANOS,    \* ticks per second
          Rps,      \* RequestRateLimit::rps
          Burst,    \* RequestRateLimit::burst
          U32Max,   \* u32::MAX, the width of `tokens`
          Tasks,    \* the tasks that share the limiter
          MaxNow    \* bound on the clock

\* with_burst rejects a zero rps and a zero burst; both are u32.
ASSUME LimitAssumption == /\ NANOS \in Nat \ {0}
                          /\ Rps \in Nat \ {0}
                          /\ Burst \in Nat \ {0}
                          /\ U32Max \in Nat
                          /\ Burst <= U32Max
                          /\ MaxNow \in Nat

VARIABLES now,             \* start.elapsed()
          tokens,          \* TokenBucket::tokens
          last_refill_ns,  \* TokenBucket::last_refill_ns
          pc,              \* pc[t]: where task t is in `acquire`
          wake,            \* wake[t]: when the sleep of t ends
          seen,            \* seen[t]: number of grants when t went to sleep
          grants           \* the times of the grants, oldest first

vars == <<now, tokens, last_refill_ns, pc, wake, seen, grants>>

MinOf(a, b) == IF a <= b THEN a ELSE b
MaxOf(a, b) == IF a >= b THEN a ELSE b

saturating_sub(a, b) == MaxOf(a - b, 0)
saturating_add_u32(a, b) == MinOf(a + b, U32Max)

\* NANOS_PER_SECOND.div_ceil(rps), and its rounding down.
CeilCost == (NANOS + Rps - 1) \div Rps
FloorCost == NANOS \div Rps

\* What `refill` at time t adds, and what it leaves in the bucket.
new_tokens(t) == (saturating_sub(t, last_refill_ns) * Rps) \div NANOS

\* Mutant: the refill forgets the cap at `burst`.
refilled_tokens_uncapped(t) ==
  saturating_add_u32(tokens, MinOf(new_tokens(t), U32Max))

refilled_tokens(t) ==
  IF new_tokens(t) = 0
    THEN tokens
    ELSE MinOf(saturating_add_u32(tokens, MinOf(new_tokens(t), U32Max)), Burst)

\* Mutant: the refill time is advanced by one token less than was added.
refilled_at_short(t) ==
  IF new_tokens(t) = 0
    THEN last_refill_ns
    ELSE last_refill_ns + ((new_tokens(t) - 1) * NANOS) \div Rps

refilled_at(t) ==
  IF new_tokens(t) = 0
    THEN last_refill_ns
    ELSE last_refill_ns + (new_tokens(t) * NANOS) \div Rps

\* Mutant: the wait is a whole token cost, whatever has already elapsed.
wait_duration_full(t) == MaxOf(CeilCost, 1)

\* Mutant: the wait is rounded down.
wait_duration_floor(t) ==
  MaxOf(saturating_sub(FloorCost, saturating_sub(t, refilled_at(t))), 1)

\* wait_duration, after the refill: the time to the next whole token, never
\* zero.
wait_duration(t) ==
  MaxOf(saturating_sub(CeilCost, saturating_sub(t, refilled_at(t))), 1)

Init ==
  /\ now = 0
  /\ tokens = Burst
  /\ last_refill_ns = 0
  /\ pc = [t \in Tasks |-> "idle"]
  /\ wake = [t \in Tasks |-> 0]
  /\ seen = [t \in Tasks |-> 0]
  /\ grants = <<>>

\* A task calls `acquire` and queues for the mutex.
Acquire(t) ==
  /\ pc[t] = "idle"
  /\ pc' = [pc EXCEPT ![t] = "locking"]
  /\ UNCHANGED <<now, tokens, last_refill_ns, wake, seen, grants>>

\* acquire_at under the lock, when the refilled bucket has a token.
AcquireGranted(t) ==
  /\ pc[t] = "locking"
  /\ refilled_tokens(now) > 0
  /\ tokens' = refilled_tokens(now) - 1
  /\ last_refill_ns' = refilled_at(now)
  /\ pc' = [pc EXCEPT ![t] = "idle"]
  /\ grants' = Append(grants, now)
  /\ UNCHANGED <<now, wake, seen>>

\* acquire_at under the lock, when it has none: the task sleeps.
AcquireMustWait(t) ==
  /\ pc[t] = "locking"
  /\ refilled_tokens(now) = 0
  /\ tokens' = refilled_tokens(now)
  /\ last_refill_ns' = refilled_at(now)
  /\ pc' = [pc EXCEPT ![t] = "sleeping"]
  /\ wake' = [wake EXCEPT ![t] = now + wait_duration(now)]
  /\ seen' = [seen EXCEPT ![t] = Len(grants)]
  /\ UNCHANGED <<now, grants>>

\* The sleep ends, at its deadline or later, and the loop locks again.
Wake(t) ==
  /\ pc[t] = "sleeping"
  /\ now >= wake[t]
  /\ pc' = [pc EXCEPT ![t] = "locking"]
  /\ wake' = [wake EXCEPT ![t] = 0]
  /\ seen' = [seen EXCEPT ![t] = 0]
  /\ UNCHANGED <<now, tokens, last_refill_ns, grants>>

\* The caller drops the future of `acquire` at one of its two await points.
Cancel(t) ==
  /\ pc[t] \in {"locking", "sleeping"}
  /\ pc' = [pc EXCEPT ![t] = "idle"]
  /\ wake' = [wake EXCEPT ![t] = 0]
  /\ seen' = [seen EXCEPT ![t] = 0]
  /\ UNCHANGED <<now, tokens, last_refill_ns, grants>>

Tick ==
  /\ now < MaxNow
  /\ now' = now + 1
  /\ UNCHANGED <<tokens, last_refill_ns, pc, wake, seen, grants>>

Next ==
  \/ Tick
  \/ \E t \in Tasks : \/ Acquire(t)
                      \/ AcquireGranted(t)
                      \/ AcquireMustWait(t)
                      \/ Wake(t)
                      \/ Cancel(t)

Spec == Init /\ [][Next]_vars

-----------------------------------------------------------------------------
\* The bucket never holds more than `burst` tokens, and the refill time it
\* keeps never runs ahead of the clock although it is advanced by a rounded
\* multiple of the token cost (TokenBucket::refill).
TypeOK ==
  /\ now \in Nat
  /\ tokens \in 0 .. Burst
  /\ last_refill_ns \in 0 .. now
  /\ pc \in [Tasks -> {"idle", "locking", "sleeping"}]
  /\ wake \in [Tasks -> Nat]
  /\ seen \in [Tasks -> Nat]
  /\ grants \in Seq(Nat)

\* The quota: between any two grants, however the tasks interleave, sleep,
\* oversleep or are dropped, the limiter lets through at most `burst`
\* requests plus one per (rounded down) token cost, plus the fraction of a
\* token a full bucket keeps.
WindowBound ==
  \A i, j \in 1 .. Len(grants) :
    i <= j => (j - i + 1 - Burst) * FloorCost
                 <= grants[j] - grants[i] + CeilCost

\* A task never sleeps while there is a token for it: as long as its sleep
\* has not ended, a refill at this instant would leave the bucket empty,
\* whatever the other tasks did since wait_duration was computed.
NoOversleep ==
  \A t \in Tasks :
    pc[t] = "sleeping" /\ now < wake[t] => refilled_tokens(now) = 0

\* A sleep is long enough: when it ends and nobody took a token meanwhile,
\* the task gets one, so `acquire` does not spin (div_ceil in wait_duration).
WakeFindsToken ==
  \A t \in Tasks :
    /\ pc[t] = "sleeping"
    /\ now >= wake[t]
    /\ seen[t] = Len(grants)
    => refilled_tokens(now) > 0

=============================================================================
