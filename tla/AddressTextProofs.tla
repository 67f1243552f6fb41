------------------------- MODULE AddressTextProofs -------------------------
(***************************************************************************)
(* Proofs about AddressText, for an address hash of any length.            *)
(***************************************************************************)
EXTENDS AddressText, SequenceTheorems, WellFoundedInduction, TLAPS

\* Induction on the naturals: the least number that is not in S.
LEMMA NatMin ==
  ASSUME NEW T \in SUBSET Nat, T # {}
  PROVE  \E x \in T : \A y \in T : x <= y
<1>1. PICK x \in T : \A y \in T : <<y, x>> \notin OpToRel(<, Nat)
  BY NatLessThanWellFounded, WFMin
<1>2. \A y \in T : ~(y < x)
  BY <1>1 DEF OpToRel
<1>3. \A y \in T : x <= y
  BY <1>2
<1>4. QED
  BY <1>3

Inductive(S) == \A n \in Nat : (\A m \in 0 .. n - 1 : m \in S) => n \in S

LEMMA Induction ==
  ASSUME NEW S, Inductive(S)
  PROVE  \A n \in Nat : n \in S
<1>1. SUFFICES ASSUME NEW k \in Nat, k \notin S PROVE FALSE
  OBVIOUS
<1>2. PICK n \in Nat \ S : \A m \in Nat \ S : n <= m
  BY <1>1, NatMin
<1>3. \A m \in 0 .. n - 1 : m \in S
  BY <1>2
<1> QED
  BY <1>2, <1>3 DEF Inductive

-----------------------------------------------------------------------------
\* One shift of the checksum.

State == [1 .. 16 -> Bit]

LEMMA ShiftIndex ==
  ASSUME NEW s \in State
  PROVE  /\ Shifted(s) \in State
         /\ Shifted(s)[16] = s[1]
         /\ \A i \in 1 .. 15 :
              Shifted(s)[i] = IF s[1] = 1 THEN (s[i + 1] + Polynomial[i]) % 2 ELSE s[i + 1]
<1>2. PICK left : left = [i \in 1 .. 16 |-> IF i = 16 THEN 0 ELSE s[i + 1]]
  OBVIOUS
<1>3. \A i \in 1 .. 16 : s[i] = 0 \/ s[i] = 1
  BY DEF State, Bit
<1>4. left \in State /\ left[16] = 0 /\ \A i \in 1 .. 15 : left[i] = s[i + 1]
  <2>1. left[16] = 0 /\ \A i \in 1 .. 15 : left[i] = s[i + 1]
    BY <1>2
  <2>2. \A i \in 1 .. 16 : (IF i = 16 THEN 0 ELSE s[i + 1]) \in Bit
    BY <1>3 DEF Bit
  <2> QED
    BY <1>2, <2>1, <2>2 DEF State
<1>5. Polynomial[16] = 1 /\ \A i \in 1 .. 16 : Polynomial[i] = 0 \/ Polynomial[i] = 1
  BY DEF Polynomial
<1>6. \A i \in 1 .. 16 : left[i] = 0 \/ left[i] = 1
  BY <1>4 DEF State, Bit
<1>7. CASE s[1] = 1
  <2>1. PICK x : x = [i \in 1 .. 16 |-> (left[i] + Polynomial[i]) % 2]
    OBVIOUS
  <2>2. Shifted(s) = x
    BY <1>2, <1>7, <2>1 DEF Shifted
  <2>3. \A i \in 1 .. 16 : x[i] \in Bit
    BY <1>5, <1>6, <2>1 DEF Bit
  <2>4. x \in State
    BY <2>1, <2>3 DEF State
  <2>5. x[16] = 1
    BY <1>4, <1>5, <2>1
  <2>6. \A i \in 1 .. 15 : x[i] = (s[i + 1] + Polynomial[i]) % 2
    BY <1>4, <2>1
  <2> QED
    BY <1>7, <2>2, <2>4, <2>5, <2>6
<1>8. CASE s[1] # 1
  <2>1. Shifted(s) = left
    BY <1>2, <1>8 DEF Shifted
  <2>2. s[1] = 0
    BY <1>3, <1>8
  <2> QED
    BY <1>4, <1>8, <2>1, <2>2
<1> QED
  BY <1>7, <1>8

\* The bit that leaves at the top comes back at the bottom, and when it is the
\* same in two checksums the others stay as equal or different as they were.
LEMMA ShiftPair ==
  ASSUME NEW s \in State, NEW t \in State
  PROVE  /\ Shifted(s)[16] = Shifted(t)[16] <=> s[1] = t[1]
         /\ s[1] = t[1] =>
              \A i \in 1 .. 15 : Shifted(s)[i] = Shifted(t)[i] <=> s[i + 1] = t[i + 1]
<1>1. \A i \in 1 .. 16 : (s[i] = 0 \/ s[i] = 1) /\ (t[i] = 0 \/ t[i] = 1)
  BY DEF State, Bit
<1>2. \A i \in 1 .. 16 : Polynomial[i] = 0 \/ Polynomial[i] = 1
  BY DEF Polynomial
<1>3. Shifted(s)[16] = Shifted(t)[16] <=> s[1] = t[1]
  BY ShiftIndex
<1>4. ASSUME s[1] = t[1], NEW i \in 1 .. 15
      PROVE  Shifted(s)[i] = Shifted(t)[i] <=> s[i + 1] = t[i + 1]
  <2>1. /\ Shifted(s)[i] = IF s[1] = 1 THEN (s[i + 1] + Polynomial[i]) % 2 ELSE s[i + 1]
        /\ Shifted(t)[i] = IF s[1] = 1 THEN (t[i + 1] + Polynomial[i]) % 2 ELSE t[i + 1]
    BY <1>4, ShiftIndex
  <2>2. i + 1 \in 1 .. 16 /\ i \in 1 .. 16
    OBVIOUS
  <2>3. PICK p : p = Polynomial[i]
    OBVIOUS
  <2>4. p = 0 \/ p = 1
    BY <1>2, <2>2, <2>3
  <2>5. PICK a, b : a = s[i + 1] /\ b = t[i + 1]
    OBVIOUS
  <2>6. (a = 0 \/ a = 1) /\ (b = 0 \/ b = 1)
    BY <1>1, <2>2, <2>5
  <2>7. (a + p) % 2 = (b + p) % 2 <=> a = b
    BY <2>4, <2>6
  <2> QED
    BY <2>1, <2>3, <2>5, <2>7
<1> QED
  BY <1>3, <1>4

Same(s, t, a, b) == \A i \in a .. b : s[i] = t[i]

\* What two checksums have in common after a shift, and had before.
LEMMA ShiftForward ==
  ASSUME NEW s \in State, NEW t \in State, s[1] = t[1],
         NEW a \in 1 .. 15, NEW b \in 1 .. 15, Same(s, t, a + 1, b + 1)
  PROVE  Same(Shifted(s), Shifted(t), a, b)
<1>1. ASSUME NEW i \in a .. b PROVE Shifted(s)[i] = Shifted(t)[i]
  <2>1. i \in 1 .. 15 /\ i + 1 \in a + 1 .. b + 1
    OBVIOUS
  <2>2. s[i + 1] = t[i + 1]
    BY <2>1 DEF Same
  <2> QED
    BY <2>1, <2>2, ShiftPair
<1> QED
  BY <1>1 DEF Same

LEMMA ShiftBackward ==
  ASSUME NEW s \in State, NEW t \in State, Shifted(s)[16] = Shifted(t)[16],
         NEW a \in 1 .. 15, NEW b \in 1 .. 15, Same(Shifted(s), Shifted(t), a, b)
  PROVE  s[1] = t[1] /\ Same(s, t, a + 1, b + 1)
<1>1. s[1] = t[1]
  BY ShiftPair
<1>2. ASSUME NEW i \in a + 1 .. b + 1 PROVE s[i] = t[i]
  <2>1. PICK j \in 1 .. 15 : i = j + 1 /\ j \in a .. b
    <3>1. i - 1 \in 1 .. 15 /\ i = (i - 1) + 1 /\ i - 1 \in a .. b
      OBVIOUS
    <3> QED
      BY <3>1
  <2>2. Shifted(s)[j] = Shifted(t)[j]
    BY <2>1 DEF Same
  <2>3. s[j + 1] = t[j + 1]
    BY <1>1, <2>2, ShiftPair
  <2> QED
    BY <2>1, <2>3
<1> QED
  BY <1>1, <1>2 DEF Same

LEMMA SameAll ==
  ASSUME NEW s \in State, NEW t \in State, Same(s, t, 1, 16)
  PROVE  s = t
BY DEF Same, State

LEMMA ShiftInjective ==
  ASSUME NEW s \in State, NEW t \in State, Shifted(s) = Shifted(t)
  PROVE  s = t
<1>1. s[1] = t[1] /\ Same(s, t, 2, 16)
  <2>1. Same(Shifted(s), Shifted(t), 1, 15)
    BY DEF Same
  <2>2. s[1] = t[1] /\ Same(s, t, 1 + 1, 15 + 1)
    BY <2>1, ShiftBackward
  <2> QED
    BY <2>2
<1>2. Same(s, t, 1, 16)
  BY <1>1 DEF Same
<1> QED
  BY <1>2, SameAll

LEMMA Shift4Injective ==
  ASSUME NEW s \in State, NEW t \in State
  PROVE  Shifted4(s) \in State /\ (Shifted4(s) = Shifted4(t) => s = t)
<1>1. ASSUME NEW u \in State, NEW v \in State
      PROVE  Shifted(u) \in State /\ (Shifted(u) = Shifted(v) => u = v)
  BY ShiftIndex, ShiftInjective
<1>2. PICK s1 \in State, t1 \in State : s1 = Shifted(s) /\ t1 = Shifted(t)
  BY <1>1
<1>3. PICK s2 \in State, t2 \in State : s2 = Shifted(s1) /\ t2 = Shifted(t1)
  BY <1>1
<1>4. PICK s3 \in State, t3 \in State : s3 = Shifted(s2) /\ t3 = Shifted(t2)
  BY <1>1
<1>5. Shifted4(s) = Shifted(s3) /\ Shifted4(t) = Shifted(t3)
  BY <1>2, <1>3, <1>4 DEF Shifted4
<1> QED
  BY <1>1, <1>2, <1>3, <1>4, <1>5

\* A difference within the lower half of the upper byte leaves one in the lower
\* byte after eight shifts.
LEMMA LowerByte ==
  ASSUME NEW s \in State, NEW t \in State, Same(s, t, 1, 4), Same(s, t, 9, 16),
         Same(Shifted4(Shifted4(s)), Shifted4(Shifted4(t)), 9, 16)
  PROVE  s = t
<1>1. PICK s1 \in State, t1 \in State : s1 = Shifted(s) /\ t1 = Shifted(t)
  BY ShiftIndex
<1>2. PICK s2 \in State, t2 \in State : s2 = Shifted(s1) /\ t2 = Shifted(t1)
  BY ShiftIndex
<1>3. PICK s3 \in State, t3 \in State : s3 = Shifted(s2) /\ t3 = Shifted(t2)
  BY ShiftIndex
<1>4. PICK s4 \in State, t4 \in State : s4 = Shifted(s3) /\ t4 = Shifted(t3)
  BY ShiftIndex
<1>5. PICK s5 \in State, t5 \in State : s5 = Shifted(s4) /\ t5 = Shifted(t4)
  BY ShiftIndex
<1>6. PICK s6 \in State, t6 \in State : s6 = Shifted(s5) /\ t6 = Shifted(t5)
  BY ShiftIndex
<1>7. PICK s7 \in State, t7 \in State : s7 = Shifted(s6) /\ t7 = Shifted(t6)
  BY ShiftIndex
<1>8. PICK s8 \in State, t8 \in State : s8 = Shifted(s7) /\ t8 = Shifted(t7)
  BY ShiftIndex
<1>9. s4 = Shifted4(s) /\ t4 = Shifted4(t)
  BY <1>1, <1>2, <1>3, <1>4 DEF Shifted4
<1>10. s8 = Shifted4(s4) /\ t8 = Shifted4(t4)
  BY <1>5, <1>6, <1>7, <1>8 DEF Shifted4
\* Forward, the equal bits above the difference leave at the top.
<1>11. Same(s1, t1, 1, 3) /\ Same(s1, t1, 8, 16)
  <2>1. s[1] = t[1] /\ Same(s, t, 1 + 1, 3 + 1) /\ Same(s, t, 8 + 1, 15 + 1)
    BY DEF Same
  <2>2. Same(s1, t1, 1, 3) /\ Same(s1, t1, 8, 15)
    BY <1>1, <2>1, ShiftForward
  <2>3. s1[16] = t1[16]
    BY <1>1, <2>1, ShiftPair
  <2> QED
    BY <2>2, <2>3 DEF Same
<1>12. Same(s2, t2, 1, 2) /\ Same(s2, t2, 7, 16)
  <2>1. s1[1] = t1[1] /\ Same(s1, t1, 1 + 1, 2 + 1) /\ Same(s1, t1, 7 + 1, 15 + 1)
    BY <1>11 DEF Same
  <2>2. Same(s2, t2, 1, 2) /\ Same(s2, t2, 7, 15)
    BY <1>2, <2>1, ShiftForward
  <2>3. s2[16] = t2[16]
    BY <1>2, <2>1, ShiftPair
  <2> QED
    BY <2>2, <2>3 DEF Same
<1>13. Same(s3, t3, 1, 1) /\ Same(s3, t3, 6, 16)
  <2>1. s2[1] = t2[1] /\ Same(s2, t2, 1 + 1, 1 + 1) /\ Same(s2, t2, 6 + 1, 15 + 1)
    BY <1>12 DEF Same
  <2>2. Same(s3, t3, 1, 1) /\ Same(s3, t3, 6, 15)
    BY <1>3, <2>1, ShiftForward
  <2>3. s3[16] = t3[16]
    BY <1>3, <2>1, ShiftPair
  <2> QED
    BY <2>2, <2>3 DEF Same
<1>14. Same(s4, t4, 5, 16)
  <2>1. s3[1] = t3[1] /\ Same(s3, t3, 5 + 1, 15 + 1)
    BY <1>13 DEF Same
  <2>2. Same(s4, t4, 5, 15)
    BY <1>4, <2>1, ShiftForward
  <2>3. s4[16] = t4[16]
    BY <1>4, <2>1, ShiftPair
  <2> QED
    BY <2>2, <2>3 DEF Same
\* Backward, equal bits at the bottom were equal bits at the top.
<1>15. Same(s7, t7, 1, 1) /\ Same(s7, t7, 10, 16)
  <2>1. Same(s8, t8, 9, 16)
    BY <1>9, <1>10
  <2>2. s8[16] = t8[16] /\ Same(s8, t8, 9, 15)
    BY <2>1 DEF Same
  <2>3. s7[1] = t7[1] /\ Same(s7, t7, 9 + 1, 15 + 1)
    BY <1>8, <2>2, ShiftBackward
  <2> QED
    BY <2>3 DEF Same
<1>16. Same(s6, t6, 1, 2) /\ Same(s6, t6, 11, 16)
  <2>1. s7[16] = t7[16] /\ Same(s7, t7, 1, 1) /\ Same(s7, t7, 10, 15)
    BY <1>15 DEF Same
  <2>2. s6[1] = t6[1] /\ Same(s6, t6, 1 + 1, 1 + 1) /\ Same(s6, t6, 10 + 1, 15 + 1)
    BY <1>7, <2>1, ShiftBackward
  <2> QED
    BY <2>2 DEF Same
<1>17. Same(s5, t5, 1, 3) /\ Same(s5, t5, 12, 16)
  <2>1. s6[16] = t6[16] /\ Same(s6, t6, 1, 2) /\ Same(s6, t6, 11, 15)
    BY <1>16 DEF Same
  <2>2. s5[1] = t5[1] /\ Same(s5, t5, 1 + 1, 2 + 1) /\ Same(s5, t5, 11 + 1, 15 + 1)
    BY <1>6, <2>1, ShiftBackward
  <2> QED
    BY <2>2 DEF Same
<1>18. Same(s4, t4, 1, 4)
  <2>1. s5[16] = t5[16] /\ Same(s5, t5, 1, 3)
    BY <1>17 DEF Same
  <2>2. s4[1] = t4[1] /\ Same(s4, t4, 1 + 1, 3 + 1)
    BY <1>5, <2>1, ShiftBackward
  <2> QED
    BY <2>2 DEF Same
<1>19. s4 = t4
  <2>1. Same(s4, t4, 1, 16)
    BY <1>14, <1>18 DEF Same
  <2> QED
    BY <2>1, SameAll
<1> QED
  BY <1>9, <1>19, Shift4Injective

-----------------------------------------------------------------------------
\* The checksum of the first n bytes.

Zero == [i \in 1 .. 16 |-> 0]

LEMMA ZeroState == Zero \in State
BY DEF Zero, State, Bit

OfBytes(d, N) == d \in Seq(Bit) /\ Len(d) = 8 * N

SameByte(d, e, n) == \A i \in 1 .. 8 : d[8 * (n - 1) + i] = e[8 * (n - 1) + i]

ChecksumBody(g, d, m) == IF m = 0 THEN Zero ELSE Updated(g[m - 1], d, m)

LEMMA ChecksumExists ==
  ASSUME NEW d, NEW w \in Nat
  PROVE  \E f : f = [m \in 0 .. w |-> ChecksumBody(f, d, m)]
<1> DEFINE Part(g, n) == \A m \in 0 .. n - 1 : g[m] = ChecksumBody(g, d, m)
<1>1. PICK S : S = {n \in Nat : \E g : Part(g, n)}
  OBVIOUS
<1>2. Inductive(S)
  <2>1. SUFFICES ASSUME NEW n \in Nat, \A m \in 0 .. n - 1 : m \in S
                 PROVE  \E g : Part(g, n)
    BY <1>1 DEF Inductive
  <2>2. CASE n = 0
    BY <2>2
  <2>3. CASE n # 0
    <3>1. PICK g : Part(g, n - 1)
      BY <1>1, <2>1, <2>3
    <3>2. PICK h : h = [m \in 0 .. n - 1 |-> IF m < n - 1 THEN g[m] ELSE ChecksumBody(g, d, m)]
      OBVIOUS
    <3>3. \A m \in 0 .. n - 1 : ChecksumBody(h, d, m) = ChecksumBody(g, d, m)
      BY <3>2 DEF ChecksumBody
    <3>4. Part(h, n)
      BY <3>1, <3>2, <3>3
    <3> QED
      BY <3>4
  <2> QED
    BY <2>2, <2>3
<1>3. PICK g : Part(g, w + 1)
  <2>1. w + 1 \in S
    BY <1>2, Induction
  <2> QED
    BY <1>1, <2>1
<1>4. PICK f : f = [m \in 0 .. w |-> g[m]]
  OBVIOUS
<1>5. \A m \in 0 .. w : ChecksumBody(f, d, m) = ChecksumBody(g, d, m)
  BY <1>4 DEF ChecksumBody
<1>6. f = [m \in 0 .. w |-> ChecksumBody(f, d, m)]
  BY <1>3, <1>4, <1>5
<1> QED
  BY <1>6

LEMMA ChecksumRec ==
  ASSUME NEW N \in Nat, NEW d, OfBytes(d, N)
  PROVE  /\ Checksums(d) = [m \in 0 .. N |-> ChecksumBody(Checksums(d), d, m)]
         /\ crc16(d) = Checksums(d)[N]
<1>1. Len(d) \div 8 = N
  BY DEF OfBytes
<1>2. PICK f : f = [m \in 0 .. N |-> ChecksumBody(f, d, m)]
  BY ChecksumExists
<1>3. crc16(d) = Checksums(d)[N]
  BY <1>1 DEF crc16
<1> QED
  BY <1>1, <1>2, <1>3 DEF Checksums, ChecksumBody, Zero

LEMMA EnteredType ==
  ASSUME NEW N \in Nat, NEW d, OfBytes(d, N), NEW n \in 1 .. N, NEW s \in State
  PROVE  Entered(s, d, n) \in State /\ Updated(s, d, n) \in State
<1>1. \A i \in 1 .. 16 : s[i] = 0 \/ s[i] = 1
  BY DEF State, Bit
<1>2. \A i \in 1 .. 8 : 8 * (n - 1) + i \in 1 .. Len(d)
  BY DEF OfBytes
<1>3. \A i \in 1 .. 8 : d[8 * (n - 1) + i] = 0 \/ d[8 * (n - 1) + i] = 1
  BY <1>2 DEF OfBytes, Bit
<1>4. \A i \in 1 .. 16 : (IF i <= 8 THEN (s[i] + d[8 * (n - 1) + i]) % 2 ELSE s[i]) \in Bit
  <2>1. TAKE i \in 1 .. 16
  <2>2. CASE i <= 8
    <3>1. PICK a, b : a = s[i] /\ b = d[8 * (n - 1) + i]
      OBVIOUS
    <3>2. (a = 0 \/ a = 1) /\ (b = 0 \/ b = 1)
      BY <1>1, <1>3, <2>2, <3>1
    <3>3. (a + b) % 2 = 0 \/ (a + b) % 2 = 1
      BY <3>2
    <3> QED
      BY <2>2, <3>1, <3>3 DEF Bit
  <2>3. CASE ~(i <= 8)
    BY <1>1, <2>3 DEF Bit
  <2> QED
    BY <2>2, <2>3
<1>5. Entered(s, d, n) \in State
  BY <1>4 DEF Entered, State
<1> QED
  BY <1>5, Shift4Injective DEF Updated

LEMMA ChecksumStep ==
  ASSUME NEW N \in Nat, NEW d, OfBytes(d, N)
  PROVE  /\ Checksums(d)[0] = Zero
         /\ \A n \in 1 .. N : Checksums(d)[n] = Updated(Checksums(d)[n - 1], d, n)
<1>1. PICK f : f = Checksums(d)
  OBVIOUS
<1>2. f = [m \in 0 .. N |-> ChecksumBody(f, d, m)]
  BY <1>1, ChecksumRec
<1>3. \A m \in 0 .. N : f[m] = ChecksumBody(f, d, m)
  BY <1>2
<1>4. f[0] = Zero
  BY <1>3 DEF ChecksumBody
<1>5. \A n \in 1 .. N : f[n] = Updated(f[n - 1], d, n)
  BY <1>3 DEF ChecksumBody
<1> QED
  BY <1>1, <1>4, <1>5

LEMMA ChecksumType ==
  ASSUME NEW N \in Nat, NEW d, OfBytes(d, N)
  PROVE  (\A n \in 0 .. N : Checksums(d)[n] \in State) /\ crc16(d) \in State
<1>1. PICK S : S = {n \in Nat : n <= N => Checksums(d)[n] \in State}
  OBVIOUS
<1>2. Inductive(S)
  <2>1. SUFFICES ASSUME NEW n \in Nat, \A m \in 0 .. n - 1 : m \in S, n <= N
                 PROVE  Checksums(d)[n] \in State
    BY <1>1 DEF Inductive
  <2>2. CASE n = 0
    BY <2>2, ChecksumStep, ZeroState
  <2>3. CASE n # 0
    <3>1. n \in 1 .. N /\ n - 1 \in 0 .. n - 1
      BY <2>1, <2>3
    <3>2. Checksums(d)[n - 1] \in State
      BY <1>1, <2>1, <3>1
    <3> QED
      BY <3>1, <3>2, ChecksumStep, EnteredType
  <2> QED
    BY <2>2, <2>3
<1>3. \A n \in Nat : n \in S
  BY <1>2, Induction
<1> QED
  BY <1>1, <1>3, ChecksumRec

-----------------------------------------------------------------------------
\* What the checksum tells about the bytes.

\* Adding two bits, as numbers of one bit.
LEMMA BitSum ==
  ASSUME NEW a \in Bit, NEW b \in Bit, NEW x \in Bit, NEW y \in Bit
  PROVE  /\ (a = b /\ (a + x) % 2 = (b + y) % 2) => x = y
         /\ (x = y /\ (a + x) % 2 = (b + y) % 2) => a = b
<1>1. (a = 0 \/ a = 1) /\ (b = 0 \/ b = 1) /\ (x = 0 \/ x = 1) /\ (y = 0 \/ y = 1)
  BY DEF Bit
<1> QED
  BY <1>1

LEMMA ByteBits ==
  ASSUME NEW N \in Nat, NEW d, OfBytes(d, N), NEW n \in 1 .. N, NEW i \in 1 .. 8
  PROVE  d[8 * (n - 1) + i] \in Bit
<1>1. 8 * (n - 1) + i \in 1 .. Len(d)
  BY DEF OfBytes
<1> QED
  BY <1>1 DEF OfBytes

LEMMA EnteredBits ==
  ASSUME NEW s, NEW d, NEW n
  PROVE  /\ \A i \in 1 .. 8 : Entered(s, d, n)[i] = (s[i] + d[8 * (n - 1) + i]) % 2
         /\ \A i \in 9 .. 16 : Entered(s, d, n)[i] = s[i]
BY DEF Entered

\* A checksum and a byte tell each other apart.
LEMMA EnteredSame ==
  ASSUME NEW N \in Nat, NEW d, OfBytes(d, N), NEW e, OfBytes(e, N), NEW n \in 1 .. N,
         NEW s \in State, NEW t \in State, Entered(s, d, n) = Entered(t, e, n)
  PROVE  /\ Same(s, t, 9, 16)
         /\ SameByte(d, e, n) <=> s = t
<1>1. \A i \in 9 .. 16 : s[i] = t[i]
  BY EnteredBits
<1>2. ASSUME NEW i \in 1 .. 8
      PROVE  s[i] = t[i] <=> d[8 * (n - 1) + i] = e[8 * (n - 1) + i]
  <2>1. PICK a \in Bit, b \in Bit : a = s[i] /\ b = t[i]
    BY DEF State
  <2>2. d[8 * (n - 1) + i] \in Bit /\ e[8 * (n - 1) + i] \in Bit
    BY ByteBits
  <2>3. PICK x \in Bit, y \in Bit : x = d[8 * (n - 1) + i] /\ y = e[8 * (n - 1) + i]
    BY <2>2
  <2>4. (a + x) % 2 = (b + y) % 2
    BY <2>1, <2>3, EnteredBits
  <2> QED
    BY <2>1, <2>3, <2>4, BitSum
<1>3. SameByte(d, e, n) <=> Same(s, t, 1, 8)
  BY <1>2 DEF SameByte, Same
<1>4. Same(s, t, 1, 8) => Same(s, t, 1, 16)
  BY <1>1 DEF Same
<1>5. s = t => Same(s, t, 1, 8)
  BY DEF Same
<1>6. Same(s, t, 9, 16)
  BY <1>1 DEF Same
<1> QED
  BY <1>3, <1>4, <1>5, <1>6, SameAll

LEMMA SameEntered ==
  ASSUME NEW s, NEW d, NEW e, NEW n, SameByte(d, e, n)
  PROVE  Entered(s, d, n) = Entered(s, e, n)
BY DEF Entered, SameByte

LEMMA UpdatedSame ==
  ASSUME NEW N \in Nat, NEW d, OfBytes(d, N), NEW e, OfBytes(e, N), NEW n \in 1 .. N,
         NEW s \in State, NEW t \in State, Updated(s, d, n) = Updated(t, e, n)
  PROVE  Entered(s, d, n) = Entered(t, e, n)
<1>1. PICK x \in State, y \in State : x = Entered(s, d, n) /\ y = Entered(t, e, n)
  BY EnteredType
<1>2. Shifted4(x) \in State /\ Shifted4(y) \in State
  BY Shift4Injective
<1>3. Shifted4(Shifted4(x)) = Shifted4(Shifted4(y))
  BY <1>1 DEF Updated
<1>4. x = y
  BY <1>2, <1>3, Shift4Injective
<1> QED
  BY <1>1, <1>4

\* Equal bytes from the first have equal checksums.
LEMMA SameBefore ==
  ASSUME NEW N \in Nat, NEW d, OfBytes(d, N), NEW e, OfBytes(e, N), NEW n \in 0 .. N,
         \A m \in 1 .. n : SameByte(d, e, m)
  PROVE  Checksums(d)[n] = Checksums(e)[n]
<1>1. PICK S : S = {k \in Nat : k <= n => Checksums(d)[k] = Checksums(e)[k]}
  OBVIOUS
<1>2. Inductive(S)
  <2>1. SUFFICES ASSUME NEW k \in Nat, \A m \in 0 .. k - 1 : m \in S, k <= n
                 PROVE  Checksums(d)[k] = Checksums(e)[k]
    BY <1>1 DEF Inductive
  <2>2. CASE k = 0
    BY <2>2, ChecksumStep
  <2>3. CASE k # 0
    <3>1. k \in 1 .. N /\ k \in 1 .. n /\ k - 1 \in 0 .. k - 1
      BY <2>1, <2>3
    <3>2. Checksums(d)[k - 1] = Checksums(e)[k - 1]
      BY <1>1, <2>1, <3>1
    <3>3. PICK s : s = Checksums(d)[k - 1]
      OBVIOUS
    <3>4. Checksums(d)[k] = Updated(s, d, k) /\ Checksums(e)[k] = Updated(s, e, k)
      BY <3>1, <3>2, <3>3, ChecksumStep
    <3>5. Entered(s, d, k) = Entered(s, e, k)
      BY <3>1, SameEntered
    <3> QED
      BY <3>4, <3>5 DEF Updated
  <2> QED
    BY <2>2, <2>3
<1>3. n \in S
  BY <1>2, Induction
<1> QED
  BY <1>1, <1>3

\* Equal bytes at the end and equal checksums had equal checksums before them.
LEMMA SameAfter ==
  ASSUME NEW N \in Nat, NEW d, OfBytes(d, N), NEW e, OfBytes(e, N), NEW n \in 0 .. N,
         \A m \in n + 1 .. N : SameByte(d, e, m), Checksums(d)[N] = Checksums(e)[N]
  PROVE  Checksums(d)[n] = Checksums(e)[n]
<1>1. PICK S : S = {k \in Nat : k <= N - n => Checksums(d)[N - k] = Checksums(e)[N - k]}
  OBVIOUS
<1>2. Inductive(S)
  <2>1. SUFFICES ASSUME NEW k \in Nat, \A m \in 0 .. k - 1 : m \in S, k <= N - n
                 PROVE  Checksums(d)[N - k] = Checksums(e)[N - k]
    BY <1>1 DEF Inductive
  <2>2. CASE k = 0
    BY <2>2
  <2>3. CASE k # 0
    <3>1. PICK m \in 1 .. N : m = N - (k - 1) /\ m \in n + 1 .. N /\ m - 1 = N - k
      <4>1. N - (k - 1) \in 1 .. N /\ N - (k - 1) \in n + 1 .. N /\ N - (k - 1) - 1 = N - k
        BY <2>1, <2>3
      <4> QED
        BY <4>1
    <3>2. Checksums(d)[m] = Checksums(e)[m]
      <4>1. k - 1 \in S /\ k - 1 <= N - n /\ k - 1 \in Nat
        BY <2>1, <2>3
      <4> QED
        BY <1>1, <3>1, <4>1
    <3>3. m - 1 \in 0 .. N
      OBVIOUS
    <3>4. PICK s \in State, t \in State : s = Checksums(d)[m - 1] /\ t = Checksums(e)[m - 1]
      BY <3>3, ChecksumType
    <3>5. Updated(s, d, m) = Updated(t, e, m)
      BY <3>2, <3>4, ChecksumStep
    <3>6. Entered(s, d, m) = Entered(t, e, m)
      BY <3>5, UpdatedSame
    <3>7. s = t
      BY <3>1, <3>6, EnteredSame
    <3> QED
      BY <3>1, <3>4, <3>7
  <2> QED
    BY <2>2, <2>3
<1>3. N - n \in Nat /\ N - n \in S
  BY <1>2, Induction
<1>4. N - (N - n) = n
  OBVIOUS
<1> QED
  BY <1>1, <1>3, <1>4

LEMMA AllBytes ==
  ASSUME NEW N \in Nat, NEW d, OfBytes(d, N), NEW e, OfBytes(e, N),
         \A m \in 1 .. N : SameByte(d, e, m)
  PROVE  d = e
<1>1. ASSUME NEW p \in 1 .. 8 * N PROVE d[p] = e[p]
  <2>1. PICK m \in 1 .. N, i \in 1 .. 8 : p = 8 * (m - 1) + i
    <3>1. 1 + ((p - 1) \div 8) \in 1 .. N /\ 1 + ((p - 1) % 8) \in 1 .. 8
      OBVIOUS
    <3>2. p = 8 * ((1 + ((p - 1) \div 8)) - 1) + (1 + ((p - 1) % 8))
      OBVIOUS
    <3> QED
      BY <3>1, <3>2
  <2> QED
    BY <2>1 DEF SameByte
<1>2. d \in Seq(Bit) /\ e \in Seq(Bit) /\ Len(d) = 8 * N /\ Len(e) = 8 * N
  BY DEF OfBytes
<1> QED
  BY <1>1, <1>2, SeqEqual

\* Half of a byte.
SameHalf(d, e, n) == \A i \in 1 .. 4 : d[8 * (n - 1) + i] = e[8 * (n - 1) + i]

\* Bytes that agree but for one of them have different checksums.
LEMMA OneByte ==
  ASSUME NEW N \in Nat, NEW d, OfBytes(d, N), NEW e, OfBytes(e, N), NEW n \in 1 .. N,
         \A m \in (1 .. N) \ {n} : SameByte(d, e, m), crc16(d) = crc16(e)
  PROVE  d = e
<1>1. n - 1 \in 0 .. N
  OBVIOUS
<1>2. Checksums(d)[n - 1] = Checksums(e)[n - 1]
  <2>1. \A m \in 1 .. n - 1 : SameByte(d, e, m)
    OBVIOUS
  <2> QED
    BY <1>1, <2>1, SameBefore
<1>3. Checksums(d)[n] = Checksums(e)[n]
  <2>1. \A m \in n + 1 .. N : SameByte(d, e, m)
    OBVIOUS
  <2>2. Checksums(d)[N] = Checksums(e)[N] /\ n \in 0 .. N
    BY ChecksumRec
  <2> QED
    BY <2>1, <2>2, SameAfter
<1>4. PICK s \in State : s = Checksums(d)[n - 1]
  BY <1>1, ChecksumType
<1>5. Updated(s, d, n) = Updated(s, e, n)
  BY <1>2, <1>3, <1>4, ChecksumStep
<1>6. SameByte(d, e, n)
  BY <1>5, UpdatedSame, EnteredSame
<1> QED
  BY <1>6, AllBytes

\* A difference in the second half of a byte reaches the lower half of the checksum.
LEMMA HalfByte ==
  ASSUME NEW N \in Nat, NEW d, OfBytes(d, N), NEW e, OfBytes(e, N), NEW n \in 1 .. N,
         \A m \in 1 .. n - 1 : SameByte(d, e, m), SameHalf(d, e, n),
         Same(Checksums(d)[n], Checksums(e)[n], 9, 16)
  PROVE  SameByte(d, e, n)
<1>1. n - 1 \in 0 .. N
  OBVIOUS
<1>2. Checksums(d)[n - 1] = Checksums(e)[n - 1]
  BY <1>1, SameBefore
<1>3. PICK s \in State : s = Checksums(d)[n - 1]
  BY <1>1, ChecksumType
<1>4. Same(Updated(s, d, n), Updated(s, e, n), 9, 16)
  BY <1>2, <1>3, ChecksumStep
<1>5. PICK x \in State, y \in State : x = Entered(s, d, n) /\ y = Entered(s, e, n)
  BY EnteredType
<1>6. Same(x, y, 1, 4) /\ Same(x, y, 9, 16)
  <2>1. \A i \in 1 .. 4 : x[i] = y[i]
    BY <1>5, EnteredBits DEF SameHalf
  <2>2. \A i \in 9 .. 16 : x[i] = y[i]
    BY <1>5, EnteredBits
  <2> QED
    BY <2>1, <2>2 DEF Same
<1>7. Same(Shifted4(Shifted4(x)), Shifted4(Shifted4(y)), 9, 16)
  BY <1>4, <1>5 DEF Updated
<1>8. x = y
  BY <1>6, <1>7, LowerByte
<1> QED
  BY <1>5, <1>8, EnteredSame

\* So do bytes that agree but for the second half of one and the next one.
LEMMA TwoBytes ==
  ASSUME NEW N \in Nat, NEW d, OfBytes(d, N), NEW e, OfBytes(e, N), NEW n \in 1 .. N - 1,
         \A m \in (1 .. N) \ {n, n + 1} : SameByte(d, e, m), SameHalf(d, e, n),
         crc16(d) = crc16(e)
  PROVE  d = e
<1>1. n \in 0 .. N /\ n \in 1 .. N /\ n + 1 \in 1 .. N /\ n + 1 \in 0 .. N
  OBVIOUS
<1>2. Checksums(d)[n + 1] = Checksums(e)[n + 1]
  <2>1. \A m \in (n + 1) + 1 .. N : SameByte(d, e, m)
    OBVIOUS
  <2>2. Checksums(d)[N] = Checksums(e)[N]
    BY ChecksumRec
  <2> QED
    BY <1>1, <2>1, <2>2, SameAfter
<1>3. PICK s \in State, t \in State : s = Checksums(d)[n] /\ t = Checksums(e)[n]
  BY <1>1, ChecksumType
<1>4. Updated(s, d, n + 1) = Updated(t, e, n + 1)
  <2>1. (n + 1) - 1 = n
    OBVIOUS
  <2>2. /\ Checksums(d)[n + 1] = Updated(Checksums(d)[(n + 1) - 1], d, n + 1)
        /\ Checksums(e)[n + 1] = Updated(Checksums(e)[(n + 1) - 1], e, n + 1)
    BY <1>1, ChecksumStep
  <2> QED
    BY <1>2, <1>3, <2>1, <2>2
<1>5. Entered(s, d, n + 1) = Entered(t, e, n + 1)
  BY <1>1, <1>4, UpdatedSame
<1>6. Same(s, t, 9, 16)
  BY <1>1, <1>5, EnteredSame
<1>7. SameByte(d, e, n)
  BY <1>1, <1>3, <1>6, HalfByte
<1>8. \A m \in (1 .. N) \ {n + 1} : SameByte(d, e, m)
  BY <1>7
<1> QED
  BY <1>1, <1>8, OneByte

-----------------------------------------------------------------------------
\* Data and its checksum.

Checked(d) == d \o crc16(d)

LEMMA FunctionIsSeq ==
  ASSUME NEW S, NEW n \in Nat, NEW s \in [1 .. n -> S]
  PROVE  s \in Seq(S) /\ Len(s) = n
<1>1. s \in Seq(S)
  BY SeqDef
<1>2. DOMAIN s = 1 .. n /\ DOMAIN s = 1 .. Len(s) /\ Len(s) \in Nat
  BY <1>1, LenProperties
<1> QED
  BY <1>1, <1>2

LEMMA StateIsSeq ==
  ASSUME NEW s \in State
  PROVE  s \in Seq(Bit) /\ Len(s) = 16
<1>1. 16 \in Nat /\ s \in [1 .. 16 -> Bit]
  BY DEF State
<1> QED
  BY <1>1, FunctionIsSeq

LEMMA CheckedBits ==
  ASSUME NEW N \in Nat, NEW d, OfBytes(d, N)
  PROVE  /\ Checked(d) \in Seq(Bit) /\ Len(Checked(d)) = 8 * N + 16
         /\ \A p \in 1 .. 8 * N : Checked(d)[p] = d[p]
         /\ \A i \in 1 .. 16 : Checked(d)[8 * N + i] = crc16(d)[i]
<1>1. PICK c \in Seq(Bit) : c = crc16(d) /\ Len(c) = 16
  BY ChecksumType, StateIsSeq
<1>2. d \in Seq(Bit) /\ Len(d) = 8 * N
  BY DEF OfBytes
<1>3. /\ d \o c \in Seq(Bit) /\ Len(d \o c) = 8 * N + 16
      /\ \A p \in 1 .. 8 * N + 16 : (d \o c)[p] = IF p <= 8 * N THEN d[p] ELSE c[p - 8 * N]
  <2>1. /\ d \o c \in Seq(Bit) /\ Len(d \o c) = Len(d) + Len(c)
        /\ \A p \in 1 .. Len(d) + Len(c) :
             (d \o c)[p] = IF p <= Len(d) THEN d[p] ELSE c[p - Len(d)]
    BY <1>2, ConcatProperties
  <2> QED
    BY <1>1, <1>2, <2>1
<1>4. \A i \in 1 .. 16 : (d \o c)[8 * N + i] = c[i]
  <2>1. TAKE i \in 1 .. 16
  <2>2. 8 * N + i \in 1 .. 8 * N + 16 /\ ~(8 * N + i <= 8 * N) /\ (8 * N + i) - 8 * N = i
    OBVIOUS
  <2> QED
    BY <1>3, <2>2
<1>5. \A p \in 1 .. 8 * N : (d \o c)[p] = d[p]
  BY <1>3
<1> QED
  BY <1>1, <1>3, <1>4, <1>5 DEF Checked

\* The bits of a character are in one byte, or in the second half of a byte and
\* the first half of the next one.
LEMMA SextetBytes ==
  ASSUME NEW j \in Nat \ {0}
  PROVE  \E n \in Nat \ {0} :
           \/ 8 * (n - 1) < 6 * j - 5 /\ 6 * j <= 8 * n
           \/ 8 * (n - 1) + 4 < 6 * j - 5 /\ 6 * j <= 8 * n + 4
<1>1. PICK a \in Nat : j = 4 * a + 1 \/ j = 4 * a + 2 \/ j = 4 * a + 3 \/ j = 4 * a + 4
  <2>1. (j - 1) \div 4 \in Nat /\ j - 1 = 4 * ((j - 1) \div 4) + ((j - 1) % 4) /\ (j - 1) % 4 \in 0 .. 3
    OBVIOUS
  <2> QED
    BY <2>1
<1>2. CASE j = 4 * a + 1
  <2>1. 3 * a + 1 \in Nat \ {0} /\ 8 * ((3 * a + 1) - 1) < 6 * j - 5 /\ 6 * j <= 8 * (3 * a + 1)
    BY <1>2
  <2> QED
    BY <2>1
<1>3. CASE j = 4 * a + 2
  <2>1. 3 * a + 1 \in Nat \ {0} /\ 8 * ((3 * a + 1) - 1) + 4 < 6 * j - 5 /\ 6 * j <= 8 * (3 * a + 1) + 4
    BY <1>3
  <2> QED
    BY <2>1
<1>4. CASE j = 4 * a + 3
  <2>1. 3 * a + 2 \in Nat \ {0} /\ 8 * ((3 * a + 2) - 1) + 4 < 6 * j - 5 /\ 6 * j <= 8 * (3 * a + 2) + 4
    BY <1>4
  <2> QED
    BY <2>1
<1>5. CASE j = 4 * a + 4
  <2>1. 3 * a + 3 \in Nat \ {0} /\ 8 * ((3 * a + 3) - 1) < 6 * j - 5 /\ 6 * j <= 8 * (3 * a + 3)
    BY <1>5
  <2> QED
    BY <2>1
<1> QED
  BY <1>1, <1>2, <1>3, <1>4, <1>5

\* D and E differ within the bits a to b at most.
Within(D, E, a, b) == \A p \in 1 .. Len(D) : p < a \/ b < p => D[p] = E[p]

Outside(N, d, e, a, b) ==
  /\ \A p \in 1 .. 8 * N : p < a \/ b < p => d[p] = e[p]
  /\ \A i \in 1 .. 16 : 8 * N + i < a \/ b < 8 * N + i => crc16(d)[i] = crc16(e)[i]

LEMMA WithinBytes ==
  ASSUME NEW N \in Nat, NEW d, OfBytes(d, N), NEW e, OfBytes(e, N),
         NEW a \in Int, NEW b \in Int, Within(Checked(d), Checked(e), a, b)
  PROVE  Outside(N, d, e, a, b)
<1>1. PICK D, E : D = Checked(d) /\ E = Checked(e)
  OBVIOUS
<1>2. \A p \in 1 .. 8 * N + 16 : p < a \/ b < p => D[p] = E[p]
  BY <1>1, CheckedBits DEF Within
<1>3. /\ \A p \in 1 .. 8 * N : D[p] = d[p] /\ E[p] = e[p]
      /\ \A i \in 1 .. 16 : D[8 * N + i] = crc16(d)[i] /\ E[8 * N + i] = crc16(e)[i]
  BY <1>1, CheckedBits
<1>4. ASSUME NEW p \in 1 .. 8 * N, p < a \/ b < p PROVE d[p] = e[p]
  <2>1. p \in 1 .. 8 * N + 16
    OBVIOUS
  <2> QED
    BY <1>2, <1>3, <1>4, <2>1
<1>5. ASSUME NEW i \in 1 .. 16, 8 * N + i < a \/ b < 8 * N + i PROVE crc16(d)[i] = crc16(e)[i]
  <2>1. PICK p : p = 8 * N + i
    OBVIOUS
  <2>2. p \in 1 .. 8 * N + 16
    BY <2>1
  <2>3. D[p] = E[p]
    BY <1>2, <1>5, <2>1, <2>2
  <2> QED
    BY <1>3, <2>1, <2>3
<1> QED
  BY <1>4, <1>5 DEF Outside

\* The bytes before and after the window are the same.
LEMMA OutsideBytes ==
  ASSUME NEW N \in Nat, NEW d, NEW e, NEW a \in Int, NEW b \in Int,
         \A p \in 1 .. 8 * N : p < a \/ b < p => d[p] = e[p],
         NEW m \in 1 .. N, 8 * m < a \/ b <= 8 * (m - 1)
  PROVE  SameByte(d, e, m)
<1>1. ASSUME NEW i \in 1 .. 8 PROVE d[8 * (m - 1) + i] = e[8 * (m - 1) + i]
  <2>1. PICK p : p = 8 * (m - 1) + i
    OBVIOUS
  <2>2. p \in 1 .. 8 * N /\ (p < a \/ b < p)
    BY <2>1
  <2> QED
    BY <2>1, <2>2
<1> QED
  BY <1>1 DEF SameByte

\* The checksum catches what differs within one character.
LEMMA Burst ==
  ASSUME NEW N \in Nat, NEW d, OfBytes(d, N), NEW e, OfBytes(e, N),
         NEW j \in Nat \ {0}, Within(Checked(d), Checked(e), 6 * j - 5, 6 * j)
  PROVE  d = e
<1>1. PICK a \in Int, b \in Int : a = 6 * j - 5 /\ b = 6 * j
  OBVIOUS
<1>2. /\ \A p \in 1 .. 8 * N : p < a \/ b < p => d[p] = e[p]
      /\ \A i \in 1 .. 16 : 8 * N + i < a \/ b < 8 * N + i => crc16(d)[i] = crc16(e)[i]
  <2>1. Within(Checked(d), Checked(e), a, b)
    BY <1>1
  <2>2. Outside(N, d, e, a, b)
    BY <2>1, WithinBytes
  <2> QED
    BY <2>2 DEF Outside
<1>3. PICK n \in Nat \ {0} : \/ 8 * (n - 1) < a /\ b <= 8 * n
                             \/ 8 * (n - 1) + 4 < a /\ b <= 8 * n + 4
  BY <1>1, SextetBytes
<1>4. PICK s \in State, t \in State : s = crc16(d) /\ t = crc16(e)
  BY ChecksumType
<1>5. ASSUME b <= 8 * N PROVE crc16(d) = crc16(e)
  <2>1. \A i \in 1 .. 16 : s[i] = t[i]
    BY <1>2, <1>4, <1>5
  <2>2. Same(s, t, 1, 16)
    BY <2>1 DEF Same
  <2> QED
    BY <1>4, <2>2, SameAll
<1>6. CASE n > N
  <2>1. ASSUME NEW m \in 1 .. N PROVE SameByte(d, e, m)
    <3>1. 8 * m < a
      BY <1>3, <1>6
    <3> QED
      BY <1>2, <3>1, OutsideBytes
  <2> QED
    BY <2>1, AllBytes
<1>7. CASE n <= N /\ 8 * (n - 1) < a /\ b <= 8 * n
  <2>1. n \in 1 .. N /\ b <= 8 * N
    BY <1>7
  <2>2. ASSUME NEW m \in (1 .. N) \ {n} PROVE SameByte(d, e, m)
    <3>1. 8 * m < a \/ b <= 8 * (m - 1)
      BY <1>7
    <3> QED
      BY <1>2, <3>1, OutsideBytes
  <2> QED
    BY <1>5, <2>1, <2>2, OneByte
<1>8. ASSUME n <= N, 8 * (n - 1) + 4 < a, b <= 8 * n + 4
      PROVE  d = e
  <2>1. SameHalf(d, e, n)
    <3>1. ASSUME NEW i \in 1 .. 4 PROVE d[8 * (n - 1) + i] = e[8 * (n - 1) + i]
      <4>1. PICK p : p = 8 * (n - 1) + i
        OBVIOUS
      <4>2. p \in 1 .. 8 * N /\ p < a
        BY <1>8, <4>1
      <4> QED
        BY <1>2, <4>1, <4>2
    <3> QED
      BY <3>1 DEF SameHalf
  <2>2. ASSUME NEW m \in (1 .. N) \ {n, n + 1} PROVE SameByte(d, e, m)
    <3>1. 8 * m < a \/ b <= 8 * (m - 1)
      BY <1>8
    <3> QED
      BY <1>2, <3>1, OutsideBytes
  <2>3. CASE n < N
    <3>1. n \in 1 .. N - 1 /\ b <= 8 * N
      BY <1>8, <2>3
    <3> QED
      BY <1>5, <2>1, <2>2, <3>1, TwoBytes
  <2>4. CASE n = N
    <3>1. \A i \in 9 .. 16 : s[i] = t[i]
      BY <1>2, <1>4, <1>8, <2>4
    <3>2. Same(Checksums(d)[N], Checksums(e)[N], 9, 16)
      BY <1>4, <3>1, ChecksumRec DEF Same
    <3>3. N \in 1 .. N /\ \A m \in 1 .. N - 1 : SameByte(d, e, m)
      BY <2>2, <2>4
    <3>4. SameByte(d, e, N)
      BY <2>1, <2>4, <3>2, <3>3, HalfByte
    <3>5. \A m \in 1 .. N : SameByte(d, e, m)
      BY <3>3, <3>4
    <3> QED
      BY <3>5, AllBytes
  <2> QED
    BY <1>8, <2>3, <2>4
<1> QED
  BY <1>3, <1>6, <1>7, <1>8

-----------------------------------------------------------------------------
\* The bits of a friendly text.

Addresses ==
  [workchain : -128 .. 127, hash_part : {h \in Seq(Bit) : Len(h) = 8 * AddressHashBytes},
   is_bounceable : BOOLEAN, is_test_only : BOOLEAN]

\* u is s, of m bits, followed by t, of n bits.
Joined(u, s, m, t, n) ==
  /\ u \in Seq(Bit) /\ Len(u) = m + n
  /\ \A p \in 1 .. m : u[p] = s[p]
  /\ \A p \in 1 .. n : u[m + p] = t[p]

LEMMA Join ==
  ASSUME NEW s \in Seq(Bit), NEW t \in Seq(Bit), NEW m \in Nat, NEW n \in Nat,
         Len(s) = m, Len(t) = n
  PROVE  Joined(s \o t, s, m, t, n)
<1>1. /\ s \o t \in Seq(Bit) /\ Len(s \o t) = Len(s) + Len(t)
      /\ \A p \in 1 .. Len(s) + Len(t) :
           (s \o t)[p] = IF p <= Len(s) THEN s[p] ELSE t[p - Len(s)]
  BY ConcatProperties
<1>2. PICK u : u = s \o t
  OBVIOUS
<1>3. /\ u \in Seq(Bit) /\ Len(u) = m + n
      /\ \A p \in 1 .. m + n : u[p] = IF p <= m THEN s[p] ELSE t[p - m]
  BY <1>1, <1>2
<1>4. \A p \in 1 .. m : u[p] = s[p]
  BY <1>3
<1>5. \A p \in 1 .. n : u[m + p] = t[p]
  <2>1. TAKE p \in 1 .. n
  <2>2. m + p \in 1 .. m + n /\ ~(m + p <= m) /\ (m + p) - m = p
    OBVIOUS
  <2> QED
    BY <1>3, <2>2
<1>6. Joined(u, s, m, t, n)
  BY <1>3, <1>4, <1>5 DEF Joined
<1> QED
  BY <1>2, <1>6

\* t is the n bits of u after the first m.
LEMMA SubSeqIs ==
  ASSUME NEW u \in Seq(Bit), NEW m \in Nat, NEW n \in Nat, m + n <= Len(u),
         NEW t \in Seq(Bit), Len(t) = n, \A i \in 1 .. n : u[m + i] = t[i]
  PROVE  SubSeq(u, m + 1, m + n) = t
<1>1. PICK a \in Int, b \in Int : a = m + 1 /\ b = m + n
  OBVIOUS
<1>2. \A i \in a .. b : u[i] \in Bit
  BY <1>1
<1>3. /\ SubSeq(u, a, b) \in Seq(Bit)
      /\ Len(SubSeq(u, a, b)) = IF a <= b THEN b - a + 1 ELSE 0
      /\ \A i \in 1 .. b - a + 1 : SubSeq(u, a, b)[i] = u[a + i - 1]
  BY <1>2, SubSeqProperties
<1>4. PICK s : s = SubSeq(u, a, b)
  OBVIOUS
<1>5. /\ s \in Seq(Bit) /\ Len(s) = IF a <= b THEN b - a + 1 ELSE 0
      /\ \A i \in 1 .. b - a + 1 : s[i] = u[a + i - 1]
  BY <1>3, <1>4
<1>6. (IF a <= b THEN b - a + 1 ELSE 0) = n /\ b - a + 1 = n
  BY <1>1
<1>7. ASSUME NEW i \in 1 .. n PROVE s[i] = t[i]
  <2>1. a + i - 1 = m + i
    BY <1>1
  <2> QED
    BY <1>5, <1>6, <2>1
<1>8. s = t
  BY <1>5, <1>6, <1>7, SeqEqual
<1> QED
  BY <1>1, <1>4, <1>8

\* The casts are inverse.
LEMMA Casts ==
  ASSUME NEW w \in -128 .. 127
  PROVE  as_u8(w) \in Seq(Bit) /\ Len(as_u8(w)) = 8 /\ as_i8(as_u8(w)) = w
<1>1. PICK b : b = as_u8(w)
  OBVIOUS
<1>2. /\ b[1] = (w \div 128) % 2 /\ b[2] = (w \div 64) % 2
      /\ b[3] = (w \div 32) % 2 /\ b[4] = (w \div 16) % 2
      /\ b[5] = (w \div 8) % 2 /\ b[6] = (w \div 4) % 2
      /\ b[7] = (w \div 2) % 2 /\ b[8] = (w \div 1) % 2
  BY <1>1 DEF as_u8
<1>3. b \in [1 .. 8 -> Bit]
  <2>1. \A i \in 1 .. 8 : b[i] \in Bit
    BY <1>2 DEF Bit
  <2> QED
    BY <1>1, <2>1 DEF as_u8
<1>4. b \in Seq(Bit) /\ Len(b) = 8
  <2>1. 8 \in Nat
    OBVIOUS
  <2> QED
    BY <1>3, <2>1, FunctionIsSeq
<1>5. as_i8(b) = w
  BY <1>2 DEF as_i8
<1> QED
  BY <1>1, <1>4, <1>5

LEMMA Tags ==
  ASSUME NEW bounceable \in BOOLEAN, NEW test_only \in BOOLEAN
  PROVE  /\ <<IF test_only THEN 1 ELSE 0>> \in Seq(Bit) /\ Len(<<IF test_only THEN 1 ELSE 0>>) = 1
         /\ BOUNCEABLE_TAG \in Seq(Bit) /\ Len(BOUNCEABLE_TAG) = 7
         /\ NON_BOUNCEABLE_TAG \in Seq(Bit) /\ Len(NON_BOUNCEABLE_TAG) = 7
         /\ BOUNCEABLE_TAG # NON_BOUNCEABLE_TAG
<1>1. <<IF test_only THEN 1 ELSE 0>> \in Seq(Bit) /\ Len(<<IF test_only THEN 1 ELSE 0>>) = 1
  BY DEF Bit
<1>2. BOUNCEABLE_TAG \in Seq(Bit) /\ Len(BOUNCEABLE_TAG) = 7
  BY DEF Bit, BOUNCEABLE_TAG
<1>3. NON_BOUNCEABLE_TAG \in Seq(Bit) /\ Len(NON_BOUNCEABLE_TAG) = 7
  BY DEF Bit, NON_BOUNCEABLE_TAG
<1>4. BOUNCEABLE_TAG # NON_BOUNCEABLE_TAG
  BY DEF BOUNCEABLE_TAG, NON_BOUNCEABLE_TAG
<1> QED
  BY <1>1, <1>2, <1>3, <1>4

\* Where the parts of an address are in its text.
TextIs(d, a, tag, test_only) ==
  /\ OfBytes(d, 2 + AddressHashBytes)
  /\ d[1] = IF test_only THEN 1 ELSE 0
  /\ SubSeq(d, 2, 8) = tag
  /\ SubSeq(d, 9, 16) = as_u8(a.workchain)
  /\ SubSeq(d, 17, Len(d)) = a.hash_part

LEMMA TextParts ==
  ASSUME NEW a \in Addresses, NEW bounceable \in BOOLEAN, NEW test_only \in BOOLEAN,
         NEW d, d = TextData(a, bounceable, test_only),
         NEW tag, tag = (IF bounceable THEN BOUNCEABLE_TAG ELSE NON_BOUNCEABLE_TAG)
  PROVE  TextIs(d, a, tag, test_only)
<1>1. PICK f \in Seq(Bit) : f = <<IF test_only THEN 1 ELSE 0>> /\ Len(f) = 1
  BY Tags
<1>2. tag \in Seq(Bit) /\ Len(tag) = 7
  BY Tags
<1>3. PICK w \in Seq(Bit) : w = as_u8(a.workchain) /\ Len(w) = 8
  <2>1. a.workchain \in -128 .. 127
    BY DEF Addresses
  <2> QED
    BY <2>1, Casts
<1>4. PICK H \in Nat : H = 8 * AddressHashBytes
  BY AddressAssumption
<1>5. PICK h \in Seq(Bit) : h = a.hash_part /\ Len(h) = H
  BY <1>4 DEF Addresses
<1>6. PICK x : x = f \o tag
  OBVIOUS
<1>7. Joined(x, f, 1, tag, 7)
  BY <1>1, <1>2, <1>6, Join
<1>8. PICK y : y = x \o w
  OBVIOUS
<1>9. Joined(y, x, 8, w, 8)
  <2>1. x \in Seq(Bit) /\ Len(x) = 8
    BY <1>7 DEF Joined
  <2> QED
    BY <1>3, <1>8, <2>1, Join
<1>10. Joined(d, y, 16, h, H)
  <2>1. y \in Seq(Bit) /\ Len(y) = 16
    BY <1>9 DEF Joined
  <2>2. d = y \o h
    BY <1>1, <1>3, <1>5, <1>6, <1>8 DEF TextData
  <2> QED
    BY <1>5, <2>1, <2>2, Join
<1>11. d \in Seq(Bit) /\ Len(d) = 16 + H
  BY <1>10 DEF Joined
<1>12. OfBytes(d, 2 + AddressHashBytes)
  BY <1>4, <1>11, AddressAssumption DEF OfBytes
<1>13. \A p \in 1 .. 8 : d[p] = x[p]
  <2>1. \A p \in 1 .. 16 : d[p] = y[p]
    BY <1>10 DEF Joined
  <2>2. \A p \in 1 .. 8 : y[p] = x[p]
    BY <1>9 DEF Joined
  <2> QED
    BY <2>1, <2>2
<1>14. d[1] = IF test_only THEN 1 ELSE 0
  <2>1. x[1] = f[1]
    BY <1>7 DEF Joined
  <2>2. d[1] = f[1]
    BY <1>13, <2>1
  <2> QED
    BY <1>1, <2>2
<1>15. SubSeq(d, 2, 8) = tag
  <2>1. ASSUME NEW i \in 1 .. 7 PROVE d[1 + i] = tag[i]
    <3>1. 1 + i \in 1 .. 8 /\ x[1 + i] = tag[i]
      BY <1>7 DEF Joined
    <3> QED
      BY <1>13, <3>1
  <2>2. 1 + 7 <= Len(d) /\ 1 \in Nat /\ 7 \in Nat
    BY <1>11
  <2>3. SubSeq(d, 1 + 1, 1 + 7) = tag
    BY <1>2, <1>11, <2>1, <2>2, SubSeqIs
  <2> QED
    BY <2>3
<1>16. SubSeq(d, 9, 16) = w
  <2>1. ASSUME NEW i \in 1 .. 8 PROVE d[8 + i] = w[i]
    <3>1. \A p \in 1 .. 8 : y[8 + p] = w[p]
      BY <1>9 DEF Joined
    <3>2. \A p \in 1 .. 16 : d[p] = y[p]
      BY <1>10 DEF Joined
    <3>3. 8 + i \in 1 .. 16
      OBVIOUS
    <3> QED
      BY <3>1, <3>2, <3>3
  <2>2. 8 + 8 <= Len(d) /\ 8 \in Nat
    BY <1>11
  <2>3. SubSeq(d, 8 + 1, 8 + 8) = w
    BY <1>3, <1>11, <2>1, <2>2, SubSeqIs
  <2> QED
    BY <2>3
<1>17. SubSeq(d, 17, Len(d)) = h
  <2>1. \A i \in 1 .. H : d[16 + i] = h[i]
    BY <1>10 DEF Joined
  <2>2. 16 + H <= Len(d) /\ 16 \in Nat
    BY <1>11
  <2>3. SubSeq(d, 16 + 1, 16 + H) = h
    BY <1>5, <1>11, <2>1, <2>2, SubSeqIs
  <2> QED
    BY <1>11, <2>3
<1> QED
  BY <1>3, <1>5, <1>12, <1>14, <1>15, <1>16, <1>17 DEF TextIs

SameParts(D, d, M) ==
  \A m \in Nat, n \in Nat : m + n <= M => SubSeq(D, m + 1, m + n) = SubSeq(d, m + 1, m + n)

LEMMA CheckedParts ==
  ASSUME NEW N \in Nat, NEW d, OfBytes(d, N), NEW D, D = Checked(d)
  PROVE  /\ Len(D) = 8 * N + 16
         /\ SubSeq(D, 1, Len(D) - 16) = d
         /\ SubSeq(D, Len(D) - 15, Len(D)) = crc16(d)
         /\ SameParts(D, d, 8 * N)
<1>1. /\ D \in Seq(Bit) /\ Len(D) = 8 * N + 16
      /\ \A p \in 1 .. 8 * N : D[p] = d[p]
      /\ \A i \in 1 .. 16 : D[8 * N + i] = crc16(d)[i]
  BY CheckedBits
<1>2. d \in Seq(Bit) /\ Len(d) = 8 * N
  BY DEF OfBytes
<1>3. PICK M \in Nat : M = 8 * N
  OBVIOUS
<1>4. SubSeq(D, 0 + 1, 0 + M) = d
  <2>1. 0 \in Nat /\ 0 + M <= Len(D) /\ Len(d) = M
    BY <1>1, <1>2, <1>3
  <2>2. ASSUME NEW i \in 1 .. M PROVE D[0 + i] = d[i]
    <3>1. 0 + i = i /\ i \in 1 .. 8 * N
      BY <1>3
    <3> QED
      BY <1>1, <3>1
  <2>3. D \in Seq(Bit) /\ d \in Seq(Bit)
    BY <1>1, <1>2
  <2> QED
    BY <2>1, <2>2, <2>3, SubSeqIs
<1>5. SubSeq(D, M + 1, M + 16) = crc16(d)
  <2>1. crc16(d) \in Seq(Bit) /\ Len(crc16(d)) = 16
    BY ChecksumType, StateIsSeq
  <2>2. M + 16 <= Len(D) /\ 16 \in Nat /\ \A i \in 1 .. 16 : D[M + i] = crc16(d)[i]
    BY <1>1, <1>3
  <2> QED
    BY <1>1, <2>1, <2>2, SubSeqIs
<1>6. ASSUME NEW m \in Nat, NEW n \in Nat, m + n <= 8 * N
      PROVE  SubSeq(D, m + 1, m + n) = SubSeq(d, m + 1, m + n)
  <2>1. PICK a \in Int, b \in Int : a = m + 1 /\ b = m + n
    OBVIOUS
  <2>2. \A i \in a .. b : d[i] \in Bit
    BY <1>2, <1>6, <2>1
  <2>3. /\ SubSeq(d, a, b) \in Seq(Bit)
        /\ Len(SubSeq(d, a, b)) = IF a <= b THEN b - a + 1 ELSE 0
        /\ \A i \in 1 .. b - a + 1 : SubSeq(d, a, b)[i] = d[a + i - 1]
    BY <2>2, SubSeqProperties
  <2>4. PICK s : s = SubSeq(d, a, b)
    OBVIOUS
  <2>5. (IF a <= b THEN b - a + 1 ELSE 0) = n /\ b - a + 1 = n
    BY <2>1
  <2>6. s \in Seq(Bit) /\ Len(s) = n /\ \A i \in 1 .. n : s[i] = d[a + i - 1]
    BY <2>3, <2>4, <2>5
  <2>7. ASSUME NEW i \in 1 .. n PROVE D[m + i] = s[i]
    <3>1. a + i - 1 = m + i /\ m + i \in 1 .. 8 * N
      BY <1>6, <2>1
    <3> QED
      BY <1>1, <2>6, <3>1
  <2>8. m + n <= Len(D)
    BY <1>1, <1>6
  <2>9. SubSeq(D, m + 1, m + n) = s
    BY <1>1, <2>6, <2>7, <2>8, SubSeqIs
  <2> QED
    BY <2>1, <2>4, <2>9
<1>7. Len(D) - 16 = 0 + M /\ Len(D) - 15 = M + 1 /\ Len(D) = M + 16 /\ 0 + 1 = 1
  BY <1>1, <1>3
<1>8. SubSeq(D, 1, Len(D) - 16) = d
  BY <1>4, <1>7
<1>9. SubSeq(D, Len(D) - 15, Len(D)) = crc16(d)
  BY <1>5, <1>7
<1>10. SameParts(D, d, 8 * N)
  BY <1>6 DEF SameParts
<1> QED
  BY <1>1, <1>8, <1>9, <1>10

\* What was written is read, when its workchain is one that is accepted.
LEMMA ReadWritten ==
  ASSUME NEW a \in Addresses, NEW bounceable \in BOOLEAN, NEW test_only \in BOOLEAN
  PROVE  AddressIn(Checked(TextData(a, bounceable, test_only))) =
           IF validate_workchain(a.workchain)
             THEN {Address(a.workchain, a.hash_part, bounceable, test_only)} ELSE {}
<1>1. PICK d : d = TextData(a, bounceable, test_only)
  OBVIOUS
<1>2. PICK tag : tag = (IF bounceable THEN BOUNCEABLE_TAG ELSE NON_BOUNCEABLE_TAG)
  OBVIOUS
<1>3. PICK N \in Nat : N = 2 + AddressHashBytes
  BY AddressAssumption
<1>4. /\ OfBytes(d, N)
      /\ d[1] = IF test_only THEN 1 ELSE 0
      /\ SubSeq(d, 2, 8) = tag
      /\ SubSeq(d, 9, 16) = as_u8(a.workchain)
      /\ SubSeq(d, 17, Len(d)) = a.hash_part
  <2>1. TextIs(d, a, tag, test_only)
    BY <1>1, <1>2, TextParts
  <2> QED
    BY <1>3, <2>1 DEF TextIs
<1>5. PICK D : D = Checked(d)
  OBVIOUS
<1>6. /\ Len(D) = 8 * N + 16
      /\ SubSeq(D, 1, Len(D) - 16) = d
      /\ SubSeq(D, Len(D) - 15, Len(D)) = crc16(d)
  BY <1>4, <1>5, CheckedParts
<1>7. SameParts(D, d, 8 * N)
  BY <1>4, <1>5, CheckedParts
<1>8. N >= 2
  BY <1>3, AddressAssumption
<1>9. SubSeq(D, 2, 8) = tag
  <2>1. 1 + 7 <= 8 * N /\ 1 \in Nat /\ 7 \in Nat
    BY <1>8
  <2>2. SubSeq(D, 1 + 1, 1 + 7) = SubSeq(d, 1 + 1, 1 + 7)
    BY <1>7, <2>1 DEF SameParts
  <2> QED
    BY <1>4, <2>2
<1>10. as_i8(SubSeq(D, 9, 16)) = a.workchain
  <2>1. 8 + 8 <= 8 * N /\ 8 \in Nat
    BY <1>8
  <2>2. SubSeq(D, 8 + 1, 8 + 8) = SubSeq(d, 8 + 1, 8 + 8)
    BY <1>7, <2>1 DEF SameParts
  <2>3. SubSeq(D, 9, 16) = as_u8(a.workchain)
    BY <1>4, <2>2
  <2>4. a.workchain \in -128 .. 127
    BY DEF Addresses
  <2> QED
    BY <2>3, <2>4, Casts
<1>11. (D[1] = 1) = test_only
  <2>1. D[1] = d[1]
    <3>1. 1 \in 1 .. 8 * N
      BY <1>8
    <3> QED
      BY <1>4, <1>5, <3>1, CheckedBits
  <2>2. CASE test_only
    BY <1>4, <2>1, <2>2
  <2>3. CASE ~test_only
    BY <1>4, <2>1, <2>3
  <2> QED
    BY <2>2, <2>3
<1>12. tag \in {BOUNCEABLE_TAG, NON_BOUNCEABLE_TAG} /\ (tag = BOUNCEABLE_TAG) = bounceable
  <2>1. BOUNCEABLE_TAG # NON_BOUNCEABLE_TAG
    BY Tags
  <2>2. CASE bounceable
    BY <1>2, <2>2
  <2>3. CASE ~bounceable
    BY <1>2, <2>1, <2>3
  <2> QED
    BY <2>2, <2>3
<1>13. Len(D) = 8 * USER_FRIENDLY_ADDRESS_LEN
  BY <1>3, <1>6, AddressAssumption DEF USER_FRIENDLY_ADDRESS_LEN
<1>14. AddressIn(D) = IF ~validate_workchain(a.workchain) THEN {}
                      ELSE {Address(a.workchain, a.hash_part, tag = BOUNCEABLE_TAG, D[1] = 1)}
  BY <1>4, <1>6, <1>9, <1>10, <1>12, <1>13, Zenon DEF AddressIn
<1>15. AddressIn(D) = IF ~validate_workchain(a.workchain) THEN {}
                      ELSE {Address(a.workchain, a.hash_part, bounceable, test_only)}
  BY <1>11, <1>12, <1>14, Zenon
<1> QED
  BY <1>1, <1>5, <1>15, Zenon

\* What is read is bytes with their checksum.
LEMMA ReadChecked ==
  ASSUME NEW X \in Seq(Bit), AddressIn(X) # {}
  PROVE  \E e : OfBytes(e, 2 + AddressHashBytes) /\ X = Checked(e)
<1>1. PICK N \in Nat : N = 2 + AddressHashBytes
  BY AddressAssumption
<1>2. Len(X) = 8 * USER_FRIENDLY_ADDRESS_LEN
  BY DEF AddressIn
<1>3. Len(X) = 8 * N + 16
  BY <1>1, <1>2, AddressAssumption DEF USER_FRIENDLY_ADDRESS_LEN
<1>4. PICK e : e = SubSeq(X, 1, Len(X) - 16)
  OBVIOUS
<1>5. SubSeq(X, Len(X) - 15, Len(X)) = crc16(e)
  BY <1>4 DEF AddressIn
<1>6. PICK M \in Nat : M = 8 * N
  OBVIOUS
<1>7. e \in Seq(Bit) /\ Len(e) = M /\ \A i \in 1 .. M : e[i] = X[i]
  <2>1. PICK x \in Int, y \in Int : x = 1 /\ y = M
    OBVIOUS
  <2>2. \A i \in x .. y : X[i] \in Bit
    BY <1>3, <1>6, <2>1
  <2>3. /\ SubSeq(X, x, y) \in Seq(Bit)
        /\ Len(SubSeq(X, x, y)) = IF x <= y THEN y - x + 1 ELSE 0
        /\ \A i \in 1 .. y - x + 1 : SubSeq(X, x, y)[i] = X[x + i - 1]
    BY <2>2, SubSeqProperties
  <2>4. e = SubSeq(X, x, y)
    BY <1>3, <1>4, <1>6, <2>1
  <2>5. /\ e \in Seq(Bit) /\ Len(e) = IF x <= y THEN y - x + 1 ELSE 0
        /\ \A i \in 1 .. y - x + 1 : e[i] = X[x + i - 1]
    BY <2>3, <2>4
  <2>6. (IF x <= y THEN y - x + 1 ELSE 0) = M /\ y - x + 1 = M
    BY <2>1
  <2>7. \A i \in 1 .. M : x + i - 1 = i
    BY <2>1
  <2> QED
    BY <2>5, <2>6, <2>7
<1>8. OfBytes(e, N)
  BY <1>6, <1>7 DEF OfBytes
<1>9. PICK c : c = crc16(e)
  OBVIOUS
<1>10. c \in Seq(Bit) /\ Len(c) = 16 /\ \A i \in 1 .. 16 : c[i] = X[M + i]
  <2>1. PICK x \in Int, y \in Int : x = M + 1 /\ y = M + 16
    OBVIOUS
  <2>2. \A i \in x .. y : X[i] \in Bit
    BY <1>3, <1>6, <2>1
  <2>3. /\ SubSeq(X, x, y) \in Seq(Bit)
        /\ Len(SubSeq(X, x, y)) = IF x <= y THEN y - x + 1 ELSE 0
        /\ \A i \in 1 .. y - x + 1 : SubSeq(X, x, y)[i] = X[x + i - 1]
    BY <2>2, SubSeqProperties
  <2>5. c = SubSeq(X, x, y)
    BY <1>3, <1>5, <1>6, <1>9, <2>1
  <2>6. /\ c \in Seq(Bit) /\ Len(c) = IF x <= y THEN y - x + 1 ELSE 0
        /\ \A i \in 1 .. y - x + 1 : c[i] = X[x + i - 1]
    BY <2>3, <2>5
  <2>7. (IF x <= y THEN y - x + 1 ELSE 0) = 16 /\ y - x + 1 = 16
    BY <2>1
  <2>8. \A i \in 1 .. 16 : x + i - 1 = M + i
    BY <2>1
  <2> QED
    BY <2>6, <2>7, <2>8
<1>13. PICK D : D = Checked(e)
  OBVIOUS
<1>14. /\ D \in Seq(Bit) /\ Len(D) = M + 16
       /\ \A p \in 1 .. M : D[p] = e[p]
       /\ \A i \in 1 .. 16 : D[M + i] = c[i]
  <2>1. /\ D \in Seq(Bit) /\ Len(D) = 8 * N + 16
        /\ \A p \in 1 .. 8 * N : D[p] = e[p]
        /\ \A i \in 1 .. 16 : D[8 * N + i] = crc16(e)[i]
    BY <1>8, <1>13, CheckedBits
  <2> QED
    BY <1>6, <1>9, <2>1
<1>11. ASSUME NEW p \in 1 .. M + 16 PROVE X[p] = D[p]
  <2>1. CASE p <= M
    <3>1. p \in 1 .. M
      BY <2>1
    <3> QED
      BY <1>7, <1>14, <3>1
  <2>2. CASE p > M
    <3>1. PICK i \in 1 .. 16 : p = M + i
      <4>1. p - M \in 1 .. 16 /\ p = M + (p - M)
        BY <2>2
      <4> QED
        BY <4>1
    <3> QED
      BY <1>10, <1>14, <3>1
  <2> QED
    BY <2>1, <2>2
<1>12. X = D
  BY <1>3, <1>6, <1>14, <1>11, SeqEqual
<1> QED
  BY <1>1, <1>8, <1>13, <1>12

-----------------------------------------------------------------------------
\* The characters of a friendly text.

\* Character i has the six bits that follow the first 6 * (i - 1).
Spells(C, D, K, alphabet) ==
  /\ C \in Seq(Char) /\ Len(C) = 4 * K
  /\ \A i \in 1 .. 4 * K : C[i].alphabet \in {"both", alphabet}
  /\ \A i \in 1 .. 4 * K, k \in 1 .. 6 : C[i].sextet[k] = D[6 * (i - 1) + k]

Alphabet(url_safe) == IF url_safe THEN "url_safe" ELSE "standard"

LEMMA CharIs ==
  ASSUME NEW s \in [1 .. 6 -> Bit], NEW url_safe \in BOOLEAN, NEW c, c = CharOf(s, url_safe)
  PROVE  c \in Char /\ c.sextet = s /\ c.alphabet \in {"both", Alphabet(url_safe)}
<1>1. CASE \E i \in 1 .. 5 : s[i] = 0
  <2>1. c = [sextet |-> s, alphabet |-> "both"]
    BY <1>1 DEF CharOf
  <2> QED
    BY <1>1, <2>1 DEF Char
<1>2. CASE ~ \E i \in 1 .. 5 : s[i] = 0
  <2>1. c = [sextet |-> s, alphabet |-> Alphabet(url_safe)]
    BY <1>2 DEF CharOf, Alphabet
  <2>2. Alphabet(url_safe) \in {"url_safe", "standard"}
    BY DEF Alphabet
  <2> QED
    BY <1>2, <2>1, <2>2 DEF Char
<1> QED
  BY <1>1, <1>2

IsSextet(s, D, i) == s \in [1 .. 6 -> Bit] /\ \A k \in 1 .. 6 : s[k] = D[6 * (i - 1) + k]

LEMMA SextetOf ==
  ASSUME NEW K \in Nat, NEW D \in Seq(Bit), Len(D) = 24 * K, NEW i \in 1 .. 4 * K,
         NEW s, s = SubSeq(D, 6 * i - 5, 6 * i)
  PROVE  IsSextet(s, D, i)
<1>1. PICK x \in Int, y \in Int : x = 6 * i - 5 /\ y = 6 * i
  OBVIOUS
<1>2. \A p \in x .. y : D[p] \in Bit
  <2>1. \A p \in x .. y : p \in 1 .. Len(D)
    BY <1>1
  <2> QED
    BY <2>1, ElementOfSeq
<1>3. /\ SubSeq(D, x, y) \in Seq(Bit)
      /\ Len(SubSeq(D, x, y)) = IF x <= y THEN y - x + 1 ELSE 0
      /\ \A p \in 1 .. y - x + 1 : SubSeq(D, x, y)[p] = D[x + p - 1]
  BY <1>2, SubSeqProperties
<1>4. s = SubSeq(D, x, y) /\ y - x + 1 = 6 /\ x <= y
  BY <1>1
<1>5. s \in Seq(Bit) /\ Len(s) = 6 /\ \A p \in 1 .. 6 : s[p] = D[x + p - 1]
  BY <1>3, <1>4
<1>6. s \in [1 .. 6 -> Bit]
  BY <1>5, LenProperties
<1>7. \A k \in 1 .. 6 : x + k - 1 = 6 * (i - 1) + k
  BY <1>1
<1> QED
  BY <1>5, <1>6, <1>7 DEF IsSextet

LEMMA Base64Spells ==
  ASSUME NEW K \in Nat, NEW D \in Seq(Bit), Len(D) = 24 * K, NEW url_safe \in BOOLEAN
  PROVE  Spells(Base64(D, url_safe), D, K, Alphabet(url_safe))
<1>1. PICK C : C = Base64(D, url_safe)
  OBVIOUS
<1>2. Len(D) \div 6 = 4 * K
  OBVIOUS
<1>3. C = [i \in 1 .. 4 * K |-> CharOf(SubSeq(D, 6 * i - 5, 6 * i), url_safe)]
  BY <1>1, <1>2 DEF Base64
<1>4. ASSUME NEW i \in 1 .. 4 * K
      PROVE  /\ C[i] \in Char /\ C[i].alphabet \in {"both", Alphabet(url_safe)}
             /\ \A k \in 1 .. 6 : C[i].sextet[k] = D[6 * (i - 1) + k]
  <2>1. PICK s : s = SubSeq(D, 6 * i - 5, 6 * i)
    OBVIOUS
  <2>2. s \in [1 .. 6 -> Bit] /\ \A k \in 1 .. 6 : s[k] = D[6 * (i - 1) + k]
    <3>1. IsSextet(s, D, i)
      BY <2>1, SextetOf
    <3> QED
      BY <3>1 DEF IsSextet
  <2>3. C[i] = CharOf(s, url_safe)
    BY <1>3, <2>1
  <2>4. C[i] \in Char /\ C[i].sextet = s /\ C[i].alphabet \in {"both", Alphabet(url_safe)}
    BY <2>2, <2>3, CharIs
  <2> QED
    BY <2>2, <2>4
<1>5. C \in [1 .. 4 * K -> Char]
  BY <1>3, <1>4
<1>6. C \in Seq(Char) /\ Len(C) = 4 * K
  BY <1>5, FunctionIsSeq
<1>7. Spells(C, D, K, Alphabet(url_safe))
  BY <1>4, <1>6 DEF Spells
<1> QED
  BY <1>1, <1>7

\* The bits of a text of whole groups.
BitsOf(C, K) == [n \in 1 .. 24 * K |-> BitOf(C, n)]

LEMMA BitPlace ==
  ASSUME NEW K \in Nat, NEW n \in 1 .. 24 * K
  PROVE  \E i \in 1 .. 4 * K, k \in 1 .. 6 :
           i = 1 + ((n - 1) \div 6) /\ k = 1 + ((n - 1) % 6) /\ n = 6 * (i - 1) + k
<1>1. 1 + ((n - 1) \div 6) \in 1 .. 4 * K /\ 1 + ((n - 1) % 6) \in 1 .. 6
  OBVIOUS
<1>2. n = 6 * ((1 + ((n - 1) \div 6)) - 1) + (1 + ((n - 1) % 6))
  OBVIOUS
<1> QED
  BY <1>1, <1>2

LEMMA SpelledBits ==
  ASSUME NEW K \in Nat, NEW D \in Seq(Bit), Len(D) = 24 * K, NEW C, NEW alphabet,
         Spells(C, D, K, alphabet)
  PROVE  (\A n \in 1 .. 24 * K : BitOf(C, n) = D[n]) /\ BitsOf(C, K) = D
<1>1. ASSUME NEW n \in 1 .. 24 * K PROVE BitOf(C, n) = D[n]
  <2>1. PICK i \in 1 .. 4 * K, k \in 1 .. 6 :
          i = 1 + ((n - 1) \div 6) /\ k = 1 + ((n - 1) % 6) /\ n = 6 * (i - 1) + k
    BY BitPlace
  <2>2. BitOf(C, n) = C[i].sextet[k]
    BY <2>1 DEF BitOf
  <2> QED
    BY <2>1, <2>2 DEF Spells
<1>2. D \in [1 .. 24 * K -> Bit]
  BY LenProperties
<1> QED
  BY <1>1, <1>2 DEF BitsOf

\* A text of whole groups is refused, or all of its bits are read.
LEMMA DecodeGroups ==
  ASSUME NEW K \in Nat, NEW C \in Seq(Char), Len(C) = 4 * K
  PROVE  /\ decode_user_friendly(C) \subseteq {BitsOf(C, K)}
         /\ \A u \in BOOLEAN :
              (\A i \in 1 .. 4 * K : C[i].alphabet \in {"both", Alphabet(u)})
                => decode_user_friendly(C) = {BitsOf(C, K)}
<1>1. PICK bytes : bytes = (6 * Len(C)) \div 8
  OBVIOUS
<1>2. 8 * bytes = 24 * K /\ Len(C) % 4 # 1 /\ DOMAIN C = 1 .. 4 * K /\ 6 * Len(C) = 24 * K
  BY <1>1
<1>3. \A n \in 8 * bytes + 1 .. 6 * Len(C) : BitOf(C, n) = 0
  <2>1. 8 * bytes + 1 .. 6 * Len(C) = {}
    BY <1>2
  <2> QED
    BY <2>1
<1>4. [n \in 1 .. 8 * bytes |-> BitOf(C, n)] = BitsOf(C, K)
  BY <1>2 DEF BitsOf
<1>5. PICK P : P = [alphabet \in {"url_safe", "standard"} |->
                      \A i \in DOMAIN C : C[i].alphabet \in {"both", alphabet}]
  OBVIOUS
<1>6. decode_user_friendly(C) = IF P["url_safe"] \/ P["standard"] THEN {BitsOf(C, K)} ELSE {}
  <2>1. P["url_safe"] <=> \A i \in DOMAIN C : C[i].alphabet \in {"both", "url_safe"}
    BY <1>5
  <2>2. P["standard"] <=> \A i \in DOMAIN C : C[i].alphabet \in {"both", "standard"}
    BY <1>5
  <2>3. Len(C) % 4 # 1
    BY <1>2
  <2> QED
    BY <1>1, <1>3, <1>4, <2>1, <2>2, <2>3, Zenon DEF decode_user_friendly
<1>7. ASSUME NEW u \in BOOLEAN, \A i \in 1 .. 4 * K : C[i].alphabet \in {"both", Alphabet(u)}
      PROVE  P["url_safe"] \/ P["standard"]
  <2>1. CASE u
    BY <1>2, <1>5, <1>7, <2>1 DEF Alphabet
  <2>2. CASE ~u
    BY <1>2, <1>5, <1>7, <2>2 DEF Alphabet
  <2> QED
    BY <2>1, <2>2
<1> QED
  BY <1>6, <1>7

-----------------------------------------------------------------------------
\* Reading a friendly text.

LEMMA Groups ==
  \E K \in Nat \ {0} : /\ 8 * (2 + AddressHashBytes) + 16 = 24 * K
                       /\ 8 * USER_FRIENDLY_ADDRESS_LEN = 24 * K
<1>1. PICK q \in Nat : AddressHashBytes = 3 * q + 2
  <2>1. AddressHashBytes \div 3 \in Nat /\ AddressHashBytes = 3 * (AddressHashBytes \div 3) + 2
    BY AddressAssumption
  <2> QED
    BY <2>1
<1>2. /\ q + 2 \in Nat \ {0} /\ 8 * (2 + AddressHashBytes) + 16 = 24 * (q + 2)
      /\ 8 * USER_FRIENDLY_ADDRESS_LEN = 24 * (q + 2)
  BY <1>1 DEF USER_FRIENDLY_ADDRESS_LEN
<1> QED
  BY <1>2

LEMMA ReadFriendly ==
  ASSUME NEW text, text.form = "friendly"
  PROVE  from_str(text) = UNION {AddressIn(bits) : bits \in decode_user_friendly(text.chars)}
<1>1. from_hex(text) = {}
  BY DEF from_hex
<1>2. from_str(text) = from_base64(text)
  BY <1>1 DEF from_str
<1> QED
  BY <1>2 DEF from_base64

\* A text that to_string writes.
Written(text, D, K, url_safe) ==
  /\ text = [form |-> "friendly", chars |-> Base64(D, url_safe)]
  /\ Spells(text.chars, D, K, Alphabet(url_safe))
  /\ D \in Seq(Bit) /\ Len(D) = 24 * K

LEMMA WrittenText ==
  ASSUME NEW a \in Addresses, NEW url_safe \in BOOLEAN, NEW bounceable \in BOOLEAN,
         NEW test_only \in BOOLEAN, NEW K \in Nat \ {0}, 8 * (2 + AddressHashBytes) + 16 = 24 * K,
         NEW d, d = TextData(a, bounceable, test_only)
  PROVE  /\ OfBytes(d, 2 + AddressHashBytes)
         /\ Written(to_string(a, url_safe, bounceable, test_only), Checked(d), K, url_safe)
<1>1. OfBytes(d, 2 + AddressHashBytes)
  <2>1. PICK tag : tag = (IF bounceable THEN BOUNCEABLE_TAG ELSE NON_BOUNCEABLE_TAG)
    OBVIOUS
  <2>2. TextIs(d, a, tag, test_only)
    BY <2>1, TextParts
  <2> QED
    BY <2>2 DEF TextIs
<1>2. PICK D : D = Checked(d)
  OBVIOUS
<1>3. D \in Seq(Bit) /\ Len(D) = 24 * K
  <2>1. 2 + AddressHashBytes \in Nat
    BY AddressAssumption
  <2> QED
    BY <1>1, <1>2, <2>1, CheckedBits
<1>4. PICK text : text = to_string(a, url_safe, bounceable, test_only)
  OBVIOUS
<1>5. text = [form |-> "friendly", chars |-> Base64(D, url_safe)]
  BY <1>2, <1>4 DEF to_string, Checked
<1>6. Spells(text.chars, D, K, Alphabet(url_safe))
  BY <1>3, <1>5, Base64Spells
<1>7. Written(text, D, K, url_safe)
  BY <1>3, <1>5, <1>6 DEF Written
<1> QED
  BY <1>1, <1>2, <1>4, <1>7

\* A user-friendly text is read as the address it was written for, with the flags
\* it was written with, whatever its alphabet: from_str after to_string.  One of a
\* workchain below -1, which Address::new takes, is refused.
THEOREM FriendlyRoundTrip ==
  ASSUME NEW a \in Addresses, NEW url_safe \in BOOLEAN, NEW bounceable \in BOOLEAN,
         NEW test_only \in BOOLEAN
  PROVE  from_str(to_string(a, url_safe, bounceable, test_only)) =
           IF validate_workchain(a.workchain)
             THEN {Address(a.workchain, a.hash_part, bounceable, test_only)} ELSE {}
<1>1. PICK K \in Nat \ {0} : 8 * (2 + AddressHashBytes) + 16 = 24 * K
  BY Groups
<1>2. PICK d : d = TextData(a, bounceable, test_only)
  OBVIOUS
<1>3. PICK text : text = to_string(a, url_safe, bounceable, test_only)
  OBVIOUS
<1>4. PICK D : D = Checked(d)
  OBVIOUS
<1>5. Written(text, D, K, url_safe)
  BY <1>1, <1>2, <1>3, <1>4, WrittenText
<1>6. /\ text.form = "friendly" /\ Spells(text.chars, D, K, Alphabet(url_safe))
      /\ D \in Seq(Bit) /\ Len(D) = 24 * K
  BY <1>5 DEF Written
<1>7. decode_user_friendly(text.chars) = {D}
  <2>1. PICK C : C = text.chars
    OBVIOUS
  <2>2. /\ C \in Seq(Char) /\ Len(C) = 4 * K
        /\ \A i \in 1 .. 4 * K : C[i].alphabet \in {"both", Alphabet(url_safe)}
    BY <1>6, <2>1 DEF Spells
  <2>3. decode_user_friendly(C) = {BitsOf(C, K)}
    BY <2>2, DecodeGroups
  <2>4. BitsOf(C, K) = D
    BY <1>6, <2>1, SpelledBits
  <2> QED
    BY <2>1, <2>3, <2>4
<1>8. from_str(text) = AddressIn(D)
  <2>1. from_str(text) = UNION {AddressIn(bits) : bits \in {D}}
    BY <1>6, <1>7, ReadFriendly
  <2>2. {AddressIn(bits) : bits \in {D}} = {AddressIn(D)}
    OBVIOUS
  <2> QED
    BY <2>1, <2>2
<1> QED
  BY <1>2, <1>3, <1>4, <1>8, ReadWritten

\* What is read of bits that differ from written ones within one character.
LEMMA ReadDifferent ==
  ASSUME NEW a \in Addresses, NEW bounceable \in BOOLEAN, NEW test_only \in BOOLEAN,
         NEW d, d = TextData(a, bounceable, test_only), OfBytes(d, 2 + AddressHashBytes),
         NEW X \in Seq(Bit), NEW j \in Nat \ {0}, Within(Checked(d), X, 6 * j - 5, 6 * j)
  PROVE  AddressIn(X) \subseteq {Address(a.workchain, a.hash_part, bounceable, test_only)}
<1>1. CASE AddressIn(X) = {}
  BY <1>1
<1>2. CASE AddressIn(X) # {}
  <2>1. PICK e : OfBytes(e, 2 + AddressHashBytes) /\ X = Checked(e)
    BY <1>2, ReadChecked
  <2>2. 2 + AddressHashBytes \in Nat
    BY AddressAssumption
  <2>3. Within(Checked(d), Checked(e), 6 * j - 5, 6 * j)
    BY <2>1
  <2>4. d = e
    BY <2>1, <2>2, <2>3, Burst
  <2> QED
    BY <2>1, <2>4, ReadWritten
<1> QED
  BY <1>1, <1>2

LEMMA CharBits ==
  ASSUME NEW c \in Char
  PROVE  c.sextet \in [1 .. 6 -> Bit]
BY DEF Char

\* A character differs: so do its bits at most.
LEMMA OtherChar ==
  ASSUME NEW K \in Nat, NEW C \in Seq(Char), Len(C) = 4 * K, NEW j \in 1 .. 4 * K,
         NEW c \in Char, NEW E, E = [C EXCEPT ![j] = c],
         NEW D \in Seq(Bit), Len(D) = 24 * K, \A n \in 1 .. 24 * K : BitOf(C, n) = D[n]
  PROVE  /\ E \in Seq(Char) /\ Len(E) = 4 * K
         /\ BitsOf(E, K) \in Seq(Bit)
         /\ Within(D, BitsOf(E, K), 6 * j - 5, 6 * j)
<1>1. /\ E \in Seq(Char) /\ Len(E) = 4 * K
      /\ \A i \in 1 .. 4 * K : E[i] = IF i = j THEN c ELSE C[i]
  BY ExceptSeq
<1>2. ASSUME NEW n \in 1 .. 24 * K
      PROVE  BitOf(E, n) \in Bit /\ (n < 6 * j - 5 \/ 6 * j < n => BitOf(E, n) = D[n])
  <2>1. PICK i \in 1 .. 4 * K, k \in 1 .. 6 :
          i = 1 + ((n - 1) \div 6) /\ k = 1 + ((n - 1) % 6) /\ n = 6 * (i - 1) + k
    BY BitPlace
  <2>2. BitOf(E, n) = E[i].sextet[k] /\ BitOf(C, n) = C[i].sextet[k]
    BY <2>1 DEF BitOf
  <2>3. E[i] \in Char
    BY <1>1, ElementOfSeq
  <2>4. BitOf(E, n) \in Bit
    <3>1. E[i].sextet \in [1 .. 6 -> Bit]
      BY <2>3, CharBits
    <3> QED
      BY <2>2, <3>1
  <2>5. ASSUME n < 6 * j - 5 \/ 6 * j < n PROVE BitOf(E, n) = D[n]
    <3>1. i # j
      BY <2>1, <2>5
    <3>2. E[i] = C[i]
      BY <1>1, <3>1
    <3> QED
      BY <2>2, <3>2
  <2> QED
    BY <2>4, <2>5
<1>3. PICK X : X = BitsOf(E, K)
  OBVIOUS
<1>4. X \in [1 .. 24 * K -> Bit] /\ \A n \in 1 .. 24 * K : X[n] = BitOf(E, n)
  BY <1>2, <1>3 DEF BitsOf
<1>5. X \in Seq(Bit)
  <2>1. 24 * K \in Nat
    OBVIOUS
  <2> QED
    BY <1>4, <2>1, FunctionIsSeq
<1>6. Within(D, X, 6 * j - 5, 6 * j)
  BY <1>2, <1>4 DEF Within
<1> QED
  BY <1>1, <1>3, <1>5, <1>6

\* A character is missing: the bytes are too few.
LEMMA FewerChars ==
  ASSUME NEW K \in Nat \ {0}, 8 * USER_FRIENDLY_ADDRESS_LEN = 24 * K,
         NEW C, NEW j, NEW E, E = Without(C, j), Len(C) = 4 * K,
         NEW X \in decode_user_friendly(E)
  PROVE  AddressIn(X) = {}
<1>1. PICK L \in Nat : L = 4 * K - 1
  OBVIOUS
<1>2. Len(E) = L
  <2>1. E = [p \in 1 .. L |-> IF p < j THEN C[p] ELSE C[p + 1]]
    BY <1>1 DEF Without
  <2>2. PICK S : S = {E[p] : p \in 1 .. L}
    OBVIOUS
  <2>3. E \in [1 .. L -> S]
    BY <2>1, <2>2
  <2> QED
    BY <2>3, FunctionIsSeq
<1>3. PICK bytes : bytes = (6 * Len(E)) \div 8
  OBVIOUS
<1>4. bytes = 3 * K - 1
  BY <1>1, <1>2, <1>3
<1>5. X = [n \in 1 .. 8 * bytes |-> BitOf(E, n)]
  BY <1>3 DEF decode_user_friendly
<1>6. PICK M \in Nat : M = 8 * bytes /\ M # 24 * K
  BY <1>4
<1>7. Len(X) = M
  <2>1. X = [n \in 1 .. M |-> BitOf(E, n)]
    BY <1>5, <1>6
  <2>2. PICK S : S = {X[n] : n \in 1 .. M}
    OBVIOUS
  <2>3. X \in [1 .. M -> S]
    BY <2>1, <2>2
  <2> QED
    BY <2>3, FunctionIsSeq
<1>8. Len(X) # 8 * USER_FRIENDLY_ADDRESS_LEN
  BY <1>6, <1>7
<1> QED
  BY <1>8 DEF AddressIn

\* A user-friendly text with one character wrong or left out is never read as
\* another address, nor as the same one with other flags: it is refused, or the
\* character was that of the other alphabet.
THEOREM TypoIsHarmlessAlways ==
  ASSUME NEW a \in Addresses, NEW url_safe \in BOOLEAN, NEW bounceable \in BOOLEAN,
         NEW test_only \in BOOLEAN,
         NEW typed \in Mistyped(to_string(a, url_safe, bounceable, test_only))
  PROVE  from_str(typed) \subseteq {Address(a.workchain, a.hash_part, bounceable, test_only)}
<1>1. PICK K \in Nat \ {0} : /\ 8 * (2 + AddressHashBytes) + 16 = 24 * K
                             /\ 8 * USER_FRIENDLY_ADDRESS_LEN = 24 * K
  BY Groups
<1>2. PICK d : d = TextData(a, bounceable, test_only)
  OBVIOUS
<1>3. PICK text : text = to_string(a, url_safe, bounceable, test_only)
  OBVIOUS
<1>4. PICK D : D = Checked(d)
  OBVIOUS
<1>5. OfBytes(d, 2 + AddressHashBytes) /\ Written(text, D, K, url_safe)
  BY <1>1, <1>2, <1>3, <1>4, WrittenText
<1>6. PICK C : C = Base64(D, url_safe)
  OBVIOUS
<1>7. /\ text = [form |-> "friendly", chars |-> C] /\ Spells(C, D, K, Alphabet(url_safe))
      /\ D \in Seq(Bit) /\ Len(D) = 24 * K
  BY <1>5, <1>6 DEF Written
<1>8. C \in Seq(Char) /\ Len(C) = 4 * K /\ DOMAIN C = 1 .. 4 * K
  BY <1>7 DEF Spells
<1>9. typed \in Mistyped(text)
  BY <1>3
<1>10. \/ \E j \in DOMAIN C, c \in Char : typed = [form |-> "friendly", chars |-> [C EXCEPT ![j] = c]]
       \/ \E j \in DOMAIN C : typed = [form |-> "friendly", chars |-> Without(C, j)]
  BY <1>7, <1>9 DEF Mistyped
<1>11. ASSUME NEW j \in DOMAIN C, NEW c \in Char,
              typed = [form |-> "friendly", chars |-> [C EXCEPT ![j] = c]],
              NEW X \in decode_user_friendly(typed.chars)
       PROVE  AddressIn(X) \subseteq {Address(a.workchain, a.hash_part, bounceable, test_only)}
  <2>1. PICK E : E = [C EXCEPT ![j] = c]
    OBVIOUS
  <2>2. \A n \in 1 .. 24 * K : BitOf(C, n) = D[n]
    BY <1>7, SpelledBits
  <2>3. j \in 1 .. 4 * K /\ j \in Nat \ {0}
    BY <1>8
  <2>4. /\ E \in Seq(Char) /\ Len(E) = 4 * K
        /\ BitsOf(E, K) \in Seq(Bit)
        /\ Within(D, BitsOf(E, K), 6 * j - 5, 6 * j)
    BY <1>7, <1>8, <2>1, <2>2, <2>3, OtherChar
  <2>5. X \in decode_user_friendly(E)
    BY <1>11, <2>1
  <2>6. X = BitsOf(E, K)
    BY <2>4, <2>5, DecodeGroups
  <2>7. X \in Seq(Bit) /\ Within(Checked(d), X, 6 * j - 5, 6 * j)
    BY <1>4, <2>4, <2>6
  <2> QED
    BY <1>2, <1>5, <2>3, <2>7, ReadDifferent
<1>12. ASSUME NEW j \in DOMAIN C, typed = [form |-> "friendly", chars |-> Without(C, j)],
              NEW X \in decode_user_friendly(typed.chars)
       PROVE  AddressIn(X) \subseteq {Address(a.workchain, a.hash_part, bounceable, test_only)}
  <2>1. PICK E : E = Without(C, j)
    OBVIOUS
  <2>2. X \in decode_user_friendly(E)
    BY <1>12, <2>1
  <2>3. AddressIn(X) = {}
    BY <1>1, <1>8, <2>1, <2>2, FewerChars
  <2> QED
    BY <2>3
<1>13. typed.form = "friendly"
  BY <1>10
<1>14. \A X \in decode_user_friendly(typed.chars) :
         AddressIn(X) \subseteq {Address(a.workchain, a.hash_part, bounceable, test_only)}
  BY <1>10, <1>11, <1>12
<1> QED
  BY <1>13, <1>14, ReadFriendly

=============================================================================
