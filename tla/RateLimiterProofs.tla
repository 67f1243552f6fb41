------------------------- MODULE RateLimiterProofs -------------------------
(***************************************************************************)
(* Proofs about RateLimiter, for every rate, burst and set of tasks.       *)
(***************************************************************************)
EXTENDS RateLimiter, TLAPS

\* Division with remainder, in the form the other lemmas use.
LEMMA DivMod ==
  ASSUME NEW a \in Nat, NEW b \in Nat \ {0}
  PROVE  /\ a \div b \in Nat
         /\ b * (a \div b) <= a
         /\ a < b * (a \div b) + b
BY Z3

\* A product bounds a quotient from below and from above.
LEMMA DivLower ==
  ASSUME NEW a \in Nat, NEW b \in Nat \ {0}, NEW q \in Nat, b * q <= a
  PROVE  q <= a \div b
<1>1. /\ a \div b \in Nat
      /\ a < b * (a \div b) + b
  BY DivMod
<1>2. SUFFICES ASSUME q > a \div b PROVE FALSE
  BY <1>1
<1>3. q >= (a \div b) + 1
  BY <1>1, <1>2
<1>4. b * q >= b * ((a \div b) + 1)
  BY <1>1, <1>3, Z3
<1>5. QED
  BY <1>1, <1>4, Z3

LEMMA DivUpper ==
  ASSUME NEW a \in Nat, NEW b \in Nat \ {0}, NEW q \in Nat, a < b * q
  PROVE  a \div b < q
<1>1. /\ a \div b \in Nat
      /\ b * (a \div b) <= a
  BY DivMod
<1>2. SUFFICES ASSUME q <= a \div b PROVE FALSE
  BY <1>1
<1>3. b * q <= b * (a \div b)
  BY <1>1, <1>2, Z3
<1>4. QED
  BY <1>1, <1>3, Z3

\* The two roundings of the token cost.
LEMMA CostBounds ==
  /\ FloorCost \in Nat /\ CeilCost \in Nat
  /\ Rps * FloorCost <= NANOS
  /\ NANOS <= Rps * CeilCost
  /\ Rps * CeilCost < NANOS + Rps
<1>1. NANOS + Rps - 1 \in Nat
  BY LimitAssumption
<1>2. /\ CeilCost \in Nat
      /\ Rps * CeilCost <= NANOS + Rps - 1
      /\ NANOS + Rps - 1 < Rps * CeilCost + Rps
  BY <1>1, DivMod, LimitAssumption DEF CeilCost
<1>3. FloorCost \in Nat /\ Rps * FloorCost <= NANOS
  BY DivMod, LimitAssumption DEF FloorCost
<1>4. Rps * CeilCost \in Nat
  BY <1>2, LimitAssumption, Z3
<1>5. QED
  BY <1>2, <1>3, <1>4, LimitAssumption

\* No token is added before, and one is added from, CeilCost ticks on.
LEMMA FirstToken ==
  ASSUME NEW e \in Nat
  PROVE  (e < CeilCost) <=> ((e * Rps) \div NANOS = 0)
<1>1. /\ CeilCost \in Nat
      /\ NANOS <= Rps * CeilCost
      /\ Rps * CeilCost < NANOS + Rps
  BY CostBounds
<1>2. e * Rps \in Nat
  BY LimitAssumption, Z3
<1>3. ASSUME e < CeilCost PROVE (e * Rps) \div NANOS = 0
  <2>1. e + 1 <= CeilCost
    BY <1>1, <1>3
  <2>2. (e + 1) * Rps <= Rps * CeilCost
    BY <2>1, <1>1, LimitAssumption, Z3
  <2>3. e * Rps < NANOS * 1
    BY <2>2, <1>1, <1>2, LimitAssumption, Z3
  <2>4. (e * Rps) \div NANOS < 1
    BY <2>3, <1>2, DivUpper, LimitAssumption
  <2>5. QED
    BY <2>4, <1>2, DivMod, LimitAssumption
<1>4. ASSUME ~(e < CeilCost) PROVE (e * Rps) \div NANOS >= 1
  <2>1. Rps * CeilCost <= e * Rps
    BY <1>1, <1>4, LimitAssumption, Z3
  <2>2. NANOS * 1 <= e * Rps
    BY <2>1, <1>1, <1>2, LimitAssumption, Z3
  <2>3. QED
    BY <2>2, <1>2, DivLower, LimitAssumption
<1>5. QED
  BY <1>3, <1>4, <1>2, DivMod, LimitAssumption

\* Adding k tokens after e ticks moves the refill time by at least k rounded
\* down costs, not past the clock, and leaves at most one rounded up cost.
LEMMA RefillStep ==
  ASSUME NEW e \in Nat, NEW k \in Nat, k = (e * Rps) \div NANOS
  PROVE  LET d == (k * NANOS) \div Rps
         IN  /\ d \in Nat
             /\ d <= e
             /\ k * FloorCost <= d
             /\ e - d <= CeilCost
<1> DEFINE d == (k * NANOS) \div Rps
<1>1. e * Rps \in Nat /\ k * NANOS \in Nat /\ k * FloorCost \in Nat
  BY CostBounds, LimitAssumption, Z3
<1>2. NANOS * k <= e * Rps /\ e * Rps < NANOS * k + NANOS
  BY <1>1, DivMod, LimitAssumption
<1>3. d \in Nat /\ Rps * d <= k * NANOS /\ k * NANOS < Rps * d + Rps
  BY <1>1, DivMod, LimitAssumption
<1>4. d <= e
  <2>1. SUFFICES ASSUME d >= e + 1 PROVE FALSE
    BY <1>3
  <2>2. Rps * d >= Rps * (e + 1)
    BY <1>3, <2>1, LimitAssumption, Z3
  <2>3. QED
    BY <1>2, <1>3, <2>2, LimitAssumption, Z3
<1>5. k * FloorCost <= d
  <2>1. Rps * (k * FloorCost) <= k * NANOS
    <3>1. FloorCost \in Nat /\ Rps * FloorCost <= NANOS
      BY CostBounds
    <3>2. k * (Rps * FloorCost) <= k * NANOS
      BY <3>1, LimitAssumption, Z3
    <3>3. k * (Rps * FloorCost) = Rps * (k * FloorCost)
      BY <3>1, LimitAssumption, Z3
    <3>4. QED
      BY <3>2, <3>3
  <2>2. QED
    BY <2>1, <1>1, DivLower, LimitAssumption
<1>6. e - d <= CeilCost
  <2>1. CeilCost \in Nat /\ NANOS <= Rps * CeilCost
    BY CostBounds
  <2>2. SUFFICES ASSUME e - d >= CeilCost + 1 PROVE FALSE
    BY <1>3, <2>1
  <2>3. Rps * (e - d) >= Rps * (CeilCost + 1)
    BY <1>3, <2>1, <2>2, LimitAssumption, Z3
  <2>4. e * Rps - Rps * d >= Rps * CeilCost + Rps
    BY <2>3, <1>3, <2>1, LimitAssumption, Z3
  <2>5. e * Rps < Rps * d + Rps + NANOS
    BY <1>2, <1>3, <1>1, LimitAssumption, Z3
  <2>6. QED
    BY <2>1, <2>4, <2>5, <1>1, <1>3, LimitAssumption, Z3
<1>7. QED
  BY <1>3, <1>4, <1>5, <1>6

-----------------------------------------------------------------------------
\* After every step, the grants since the i-th and the tokens that are left
\* have been paid for by the refill time.
Quota ==
  \A i \in 1 .. Len(grants) :
    (Len(grants) - i + 1 + tokens - Burst) * FloorCost
       <= last_refill_ns - grants[i] + CeilCost

\* A sleep that nobody overtook ends one token cost after the last refill,
\* and nobody overtakes a sleep that has not ended.
Sleepers ==
  \A t \in Tasks : pc[t] = "sleeping" =>
    /\ seen[t] <= Len(grants)
    /\ seen[t] = Len(grants) => /\ tokens = 0
                                /\ wake[t] = last_refill_ns + CeilCost
    /\ now < wake[t] => seen[t] = Len(grants)

\* The inductive invariant.
IInv == TypeOK /\ Quota /\ WindowBound /\ Sleepers

\* What a refill at the current time does to the bucket.
LEMMA RefillFacts ==
  ASSUME TypeOK
  PROVE  /\ new_tokens(now) \in Nat
         /\ refilled_tokens(now) \in 0 .. Burst
         /\ refilled_tokens(now) <= tokens + new_tokens(now)
         /\ refilled_at(now) \in last_refill_ns .. now
         /\ new_tokens(now) * FloorCost <= refilled_at(now) - last_refill_ns
         /\ now - refilled_at(now) <= CeilCost
         /\ (now - last_refill_ns < CeilCost) <=> (new_tokens(now) = 0)
         /\ new_tokens(now) # 0 => refilled_tokens(now) > 0
         /\ new_tokens(now) = 0 => /\ refilled_tokens(now) = tokens
                                   /\ refilled_at(now) = last_refill_ns
<1> DEFINE e == now - last_refill_ns
           k == (e * Rps) \div NANOS
<1>1. e \in Nat /\ tokens \in Nat /\ last_refill_ns \in Nat /\ now \in Nat
  BY DEF TypeOK
<1>2. saturating_sub(now, last_refill_ns) = e
  BY <1>1 DEF saturating_sub, MaxOf
<1>3. new_tokens(now) = k
  BY <1>2 DEF new_tokens
<1>4. k \in Nat
  <2>1. e * Rps \in Nat
    BY <1>1, LimitAssumption, Z3
  <2>2. QED
    BY <2>1, DivMod, LimitAssumption
<1> DEFINE d == (k * NANOS) \div Rps
<1>5. /\ d \in Nat
      /\ d <= e
      /\ k * FloorCost <= d
      /\ e - d <= CeilCost
  BY <1>1, <1>4, RefillStep
<1>6. (e < CeilCost) <=> (k = 0)
  BY <1>1, FirstToken
<1>7. FloorCost \in Nat /\ CeilCost \in Nat
  BY CostBounds
<1> HIDE DEF e, k, d
<1>8. refilled_at(now) = IF k = 0 THEN last_refill_ns ELSE last_refill_ns + d
  BY <1>3 DEF refilled_at, d
<1>9. /\ refilled_at(now) \in last_refill_ns .. now
      /\ k * FloorCost <= refilled_at(now) - last_refill_ns
      /\ now - refilled_at(now) <= CeilCost
  <2>1. CASE k = 0
    <3>1. k * FloorCost = 0
      BY <2>1, <1>7
    <3>2. QED
      BY <2>1, <3>1, <1>8, <1>6, <1>1, <1>7 DEF e
  <2>2. CASE k # 0
    BY <2>2, <1>8, <1>5, <1>1, <1>7 DEF e
  <2>3. QED
    BY <2>1, <2>2
<1>10. /\ refilled_tokens(now) \in 0 .. Burst
       /\ refilled_tokens(now) <= tokens + k
       /\ k # 0 => refilled_tokens(now) > 0
       /\ k = 0 => refilled_tokens(now) = tokens
  BY <1>1, <1>3, <1>4, LimitAssumption
     DEF refilled_tokens, saturating_add_u32, MinOf, TypeOK
<1>11. QED
  BY <1>3, <1>4, <1>6, <1>8, <1>9, <1>10 DEF e

\* A sleeping task was told to wait for exactly one token cost after the
\* last refill.
LEMMA WaitIsExact ==
  ASSUME TypeOK, refilled_tokens(now) = 0
  PROVE  /\ tokens = 0
         /\ refilled_at(now) = last_refill_ns
         /\ now + wait_duration(now) = last_refill_ns + CeilCost
<1>1. new_tokens(now) = 0
  BY RefillFacts
<1>2. tokens = 0 /\ refilled_at(now) = last_refill_ns
  BY <1>1, RefillFacts
<1>3. now - last_refill_ns < CeilCost
  BY <1>1, RefillFacts
<1>4. QED
  BY <1>2, <1>3, CostBounds
     DEF wait_duration, saturating_sub, MaxOf, TypeOK

\* The initial state satisfies the invariant.
LEMMA InitIInv == Init => IInv
<1> SUFFICES ASSUME Init PROVE IInv
  OBVIOUS
<1>1. TypeOK
  BY LimitAssumption DEF Init, TypeOK
<1>2. Len(grants) = 0
  BY DEF Init
<1>3. Quota /\ WindowBound
  BY <1>2 DEF Quota, WindowBound
<1>4. Sleepers
  BY DEF Init, Sleepers
<1>5. QED
  BY <1>1, <1>3, <1>4 DEF IInv

\* A grant keeps the invariant: it is paid for by what the refill added, and
\* no task that still sleeps can be overtaken by it.
LEMMA GrantIInv ==
  ASSUME IInv, NEW t \in Tasks, AcquireGranted(t)
  PROVE  IInv'
<1> DEFINE n == Len(grants)
           k == new_tokens(now)
           r == refilled_tokens(now)
           a == refilled_at(now)
<1>1. TypeOK /\ Quota /\ WindowBound /\ Sleepers
  BY DEF IInv
<1>2. /\ k \in Nat /\ r \in 0 .. Burst /\ r <= tokens + k
      /\ a \in last_refill_ns .. now
      /\ k * FloorCost <= a - last_refill_ns
      /\ now - a <= CeilCost
  BY <1>1, RefillFacts
<1>3. /\ r > 0 /\ tokens' = r - 1 /\ last_refill_ns' = a
      /\ grants' = Append(grants, now) /\ now' = now
      /\ wake' = wake /\ seen' = seen /\ pc' = [pc EXCEPT ![t] = "idle"]
  BY DEF AcquireGranted
<1>4. /\ n \in Nat /\ now \in Nat /\ tokens \in Nat /\ last_refill_ns \in Nat
      /\ \A i \in 1 .. n : grants[i] \in Nat
  BY <1>1 DEF TypeOK
<1>5. /\ Len(grants') = n + 1
      /\ \A i \in 1 .. n : grants'[i] = grants[i]
      /\ grants'[n + 1] = now
  BY <1>1, <1>3 DEF TypeOK
<1>6. FloorCost \in Nat /\ CeilCost \in Nat
  BY CostBounds
<1>7. TypeOK'
  <2>1. grants' \in Seq(Nat)
    BY <1>1, <1>3 DEF TypeOK
  <2>2. tokens' \in 0 .. Burst /\ last_refill_ns' \in 0 .. now'
    BY <1>2, <1>3, <1>4, LimitAssumption
  <2>3. QED
    BY <1>1, <1>3, <2>1, <2>2 DEF TypeOK
<1> HIDE DEF n, k, r, a
<1>8. ASSUME NEW i \in 1 .. n + 1
      PROVE  (n + 1 - i + 1 + (r - 1) - Burst) * FloorCost
                <= a - grants'[i] + CeilCost
  <2>1. CASE i = n + 1
    <3>1. n + 1 - i + 1 + (r - 1) - Burst <= 0
      BY <2>1, <1>2, <1>4, LimitAssumption
    <3>2. (n + 1 - i + 1 + (r - 1) - Burst) * FloorCost <= 0
      BY <3>1, <1>2, <1>4, <1>6, LimitAssumption, Z3
    <3>3. QED
      BY <3>2, <2>1, <1>2, <1>4, <1>5, <1>6, LimitAssumption
  <2>2. CASE i \in 1 .. n
    <3> DEFINE p == n - i + 1 + tokens - Burst
               q == n + 1 - i + 1 + (r - 1) - Burst
    <3>1. p * FloorCost <= last_refill_ns - grants[i] + CeilCost
      BY <2>2, <1>1 DEF Quota, n
    <3>2. p \in Int /\ q \in Int /\ q <= p + k
      BY <2>2, <1>2, <1>4, LimitAssumption
    <3>3. q * FloorCost <= (p + k) * FloorCost
      BY <3>2, <1>2, <1>6, Z3
    <3>4. (p + k) * FloorCost = p * FloorCost + k * FloorCost
      BY <3>2, <1>2, <1>6, Z3
    <3>5. p * FloorCost \in Int /\ k * FloorCost \in Int /\ q * FloorCost \in Int
      BY <3>2, <1>2, <1>6, Z3
    <3>6. grants'[i] = grants[i] /\ grants[i] \in Nat
      BY <2>2, <1>4, <1>5
    <3> HIDE DEF p, q
    <3>7. q * FloorCost <= a - grants'[i] + CeilCost
      BY <3>1, <3>3, <3>4, <3>5, <3>6, <1>2, <1>4, <1>6
    <3>8. QED
      BY <3>7 DEF q
  <2>3. QED
    BY <2>1, <2>2, <1>4
<1>9. Quota'
  <2>1. tokens' = r - 1 /\ last_refill_ns' = a /\ Len(grants') = n + 1
    BY <1>3, <1>5 DEF r, a
  <2>2. SUFFICES ASSUME NEW i \in 1 .. Len(grants')
                 PROVE  (Len(grants') - i + 1 + tokens' - Burst) * FloorCost
                           <= last_refill_ns' - grants'[i] + CeilCost
    BY DEF Quota, FloorCost, CeilCost
  <2>3. i \in 1 .. n + 1
    BY <2>1
  <2>4. (n + 1 - i + 1 + (r - 1) - Burst) * FloorCost
           <= a - grants'[i] + CeilCost
    BY <1>8, <2>3
  <2>5. QED
    BY <2>1, <2>3, <2>4, <1>2, <1>4, <1>6, LimitAssumption
<1>10. WindowBound'
  <2>1. SUFFICES ASSUME NEW i \in 1 .. n + 1, NEW j \in 1 .. n + 1, i <= j
                 PROVE  (j - i + 1 - Burst) * FloorCost
                           <= grants'[j] - grants'[i] + CeilCost
    BY <1>5 DEF WindowBound, FloorCost, CeilCost
  <2>2. CASE j \in 1 .. n
    BY <2>1, <2>2, <1>1, <1>4, <1>5 DEF WindowBound, n
  <2>3. CASE j = n + 1
    <3> DEFINE p == j - i + 1 - Burst
               q == n + 1 - i + 1 + (r - 1) - Burst
    <3>1. p \in Int /\ q \in Int /\ p <= q
      BY <2>3, <1>2, <1>3, <1>4, LimitAssumption DEF r
    <3>2. p * FloorCost <= q * FloorCost
      BY <3>1, <1>6, Z3
    <3>3. q * FloorCost <= a - grants'[i] + CeilCost
      BY <1>8
    <3>4. p * FloorCost \in Int /\ q * FloorCost \in Int
      BY <3>1, <1>6, Z3
    <3>5. grants'[i] \in Nat
      BY <1>4, <1>5
    <3> HIDE DEF p, q
    <3>6. p * FloorCost <= now - grants'[i] + CeilCost
      BY <3>2, <3>3, <3>4, <3>5, <1>2, <1>4, <1>6
    <3>7. QED
      BY <3>6, <2>3, <1>5 DEF p
  <2>4. QED
    BY <2>2, <2>3, <1>4
<1>11. Sleepers'
  <2>1. SUFFICES ASSUME NEW u \in Tasks, pc'[u] = "sleeping"
                 PROVE  seen[u] <= n /\ now >= wake[u]
    BY <1>1, <1>3, <1>4, <1>5 DEF Sleepers, TypeOK
  <2>2. pc[u] = "sleeping"
    BY <2>1, <1>1, <1>3 DEF TypeOK
  <2>3. seen[u] <= n
    BY <2>2, <1>1 DEF Sleepers, n
  <2>4. SUFFICES ASSUME now < wake[u] PROVE FALSE
    BY <2>3, <1>1, <1>4 DEF TypeOK
  <2>5. tokens = 0 /\ wake[u] = last_refill_ns + CeilCost
    BY <2>2, <2>4, <1>1 DEF Sleepers
  <2>6. new_tokens(now) = 0
    BY <2>4, <2>5, <1>1, <1>4, <1>6, RefillFacts
  <2>7. QED
    BY <2>5, <2>6, <1>1, <1>3, RefillFacts DEF r
<1>12. QED
  BY <1>7, <1>9, <1>10, <1>11 DEF IInv

\* Every step keeps the invariant.
LEMMA NextIInv == IInv /\ [Next]_vars => IInv'
<1> SUFFICES ASSUME IInv, [Next]_vars PROVE IInv'
  OBVIOUS
<1>0. TypeOK /\ Quota /\ WindowBound /\ Sleepers
  BY DEF IInv
<1>1. CASE Tick
  <2>1. now' \in Nat /\ now' > now
    BY <1>0, <1>1 DEF Tick, TypeOK
  <2>2. TypeOK'
    BY <1>0, <1>1, <2>1 DEF Tick, TypeOK
  <2>3. Quota' /\ WindowBound'
    BY <1>0, <1>1 DEF Tick, Quota, WindowBound, FloorCost, CeilCost
  <2>4. Sleepers'
    BY <1>0, <1>1, <2>1 DEF Tick, Sleepers, TypeOK, CeilCost
  <2>5. QED
    BY <2>2, <2>3, <2>4 DEF IInv
<1>2. ASSUME NEW t \in Tasks, Acquire(t) PROVE IInv'
  <2>1. TypeOK'
    BY <1>0, <1>2 DEF Acquire, TypeOK
  <2>2. Quota' /\ WindowBound'
    BY <1>0, <1>2 DEF Acquire, Quota, WindowBound, FloorCost, CeilCost
  <2>3. Sleepers'
    BY <1>0, <1>2 DEF Acquire, Sleepers, TypeOK, CeilCost
  <2>4. QED
    BY <2>1, <2>2, <2>3 DEF IInv
<1>3. ASSUME NEW t \in Tasks, AcquireGranted(t) PROVE IInv'
  BY <1>3, GrantIInv
<1>4. ASSUME NEW t \in Tasks, AcquireMustWait(t) PROVE IInv'
  <2>1. /\ tokens = 0 /\ refilled_at(now) = last_refill_ns
        /\ refilled_tokens(now) = 0
        /\ now + wait_duration(now) = last_refill_ns + CeilCost
    BY <1>0, <1>4, WaitIsExact DEF AcquireMustWait
  <2>2. /\ tokens' = 0 /\ last_refill_ns' = last_refill_ns
        /\ wake' = [wake EXCEPT ![t] = last_refill_ns + CeilCost]
        /\ seen' = [seen EXCEPT ![t] = Len(grants)]
        /\ pc' = [pc EXCEPT ![t] = "sleeping"]
        /\ now' = now /\ grants' = grants
    BY <2>1, <1>4 DEF AcquireMustWait
  <2>3. TypeOK'
    BY <1>0, <2>2, CostBounds, LimitAssumption DEF TypeOK
  <2>4. Quota' /\ WindowBound'
    BY <1>0, <2>1, <2>2 DEF Quota, WindowBound, FloorCost, CeilCost
  <2>5. Sleepers'
    <3>1. CeilCost' = CeilCost /\ CeilCost \in Nat
      BY CostBounds DEF CeilCost
    <3>2. Len(grants) \in Nat
      BY <1>0 DEF TypeOK
    <3>3. QED
      BY <1>0, <2>1, <2>2, <3>1, <3>2 DEF Sleepers, TypeOK
  <2>6. QED
    BY <2>3, <2>4, <2>5 DEF IInv
<1>5. ASSUME NEW t \in Tasks, Wake(t) PROVE IInv'
  <2>1. TypeOK'
    BY <1>0, <1>5 DEF Wake, TypeOK
  <2>2. Quota' /\ WindowBound'
    BY <1>0, <1>5 DEF Wake, Quota, WindowBound, FloorCost, CeilCost
  <2>3. Sleepers'
    BY <1>0, <1>5 DEF Wake, Sleepers, TypeOK, CeilCost
  <2>4. QED
    BY <2>1, <2>2, <2>3 DEF IInv
<1>6. ASSUME NEW t \in Tasks, Cancel(t) PROVE IInv'
  <2>1. TypeOK'
    BY <1>0, <1>6 DEF Cancel, TypeOK
  <2>2. Quota' /\ WindowBound'
    BY <1>0, <1>6 DEF Cancel, Quota, WindowBound, FloorCost, CeilCost
  <2>3. Sleepers'
    BY <1>0, <1>6 DEF Cancel, Sleepers, TypeOK, CeilCost
  <2>4. QED
    BY <2>1, <2>2, <2>3 DEF IInv
<1>7. CASE UNCHANGED vars
  BY <1>0, <1>7
     DEF vars, IInv, TypeOK, Quota, WindowBound, Sleepers, FloorCost, CeilCost
<1>8. QED
  BY <1>1, <1>2, <1>3, <1>4, <1>5, <1>6, <1>7 DEF Next

\* The invariant holds in every reachable state.
THEOREM Invariance == Spec => []IInv
BY InitIInv, NextIInv, PTL DEF Spec

\* The bucket keeps to its capacity and its refill time to the clock, for
\* every rate and burst (TokenBucket::refill).
THEOREM TypeCorrect == Spec => []TypeOK
<1>1. IInv => TypeOK
  BY DEF IInv
<1>2. QED
  BY <1>1, Invariance, PTL

\* The quota holds in every window, for every rate, burst and number of
\* tasks, however they interleave (TokenBucket::acquire_at).
THEOREM QuotaHolds == Spec => []WindowBound
<1>1. IInv => WindowBound
  BY DEF IInv
<1>2. QED
  BY <1>1, Invariance, PTL

\* No task sleeps while there is a token (TokenBucket::wait_duration).
THEOREM NeverOversleeps == Spec => []NoOversleep
<1>1. IInv => NoOversleep
  <2>1. SUFFICES ASSUME IInv, NEW t \in Tasks, pc[t] = "sleeping",
                        now < wake[t]
                 PROVE  refilled_tokens(now) = 0
    BY DEF NoOversleep
  <2>2. TypeOK /\ tokens = 0 /\ wake[t] = last_refill_ns + CeilCost
    BY <2>1 DEF IInv, Sleepers
  <2>3. new_tokens(now) = 0
    BY <2>1, <2>2, RefillFacts, CostBounds DEF TypeOK
  <2>4. QED
    BY <2>2, <2>3, RefillFacts
<1>2. QED
  BY <1>1, Invariance, PTL

\* A sleep that ends with nobody having taken a token finds one
\* (TokenBucket::wait_duration).
THEOREM WakesToToken == Spec => []WakeFindsToken
<1>1. IInv => WakeFindsToken
  <2>1. SUFFICES ASSUME IInv, NEW t \in Tasks, pc[t] = "sleeping",
                        now >= wake[t], seen[t] = Len(grants)
                 PROVE  refilled_tokens(now) > 0
    BY DEF WakeFindsToken
  <2>2. TypeOK /\ wake[t] = last_refill_ns + CeilCost
    BY <2>1 DEF IInv, Sleepers
  <2>3. new_tokens(now) # 0
    BY <2>1, <2>2, RefillFacts, CostBounds DEF TypeOK
  <2>4. QED
    BY <2>2, <2>3, RefillFacts
<1>2. QED
  BY <1>1, Invariance, PTL

=============================================================================
