---------------------------- MODULE HashmapProofs ----------------------------
(***************************************************************************)
(* Proofs about Hashmap, for dictionaries of every key width and every     *)
(* number of entries.                                                      *)
(***************************************************************************)
EXTENDS Hashmap, WellFoundedInduction, TLAPS

-----------------------------------------------------------------------------
\* Induction over the natural numbers, on a set that contains each one whose
\* predecessors it contains.

LEMMA NatMin ==
  ASSUME NEW T \in SUBSET Nat, T # {}
  PROVE  \E x \in T : \A y \in T : x <= y
<1>1. PICK x \in T : \A y \in T : <<y, x>> \notin OpToRel(<, Nat)
  BY NatLessThanWellFounded, WFMin
<1>2. \A y \in T : ~(y < x)
  BY <1>1 DEF OpToRel
<1>3. \A y \in T : x <= y
  BY <1>2
<1>4. QED
  BY <1>3

Inductive(S) == \A n \in Nat : (\A m \in 0 .. n - 1 : m \in S) => n \in S

LEMMA Induction ==
  ASSUME NEW S, Inductive(S)
  PROVE  \A n \in Nat : n \in S
<1>1. SUFFICES ASSUME NEW n \in Nat, n \notin S
               PROVE  FALSE
  OBVIOUS
<1>2. PICK x \in Nat \ S : \A y \in Nat \ S : x <= y
  BY <1>1, NatMin
<1>3. \A m \in 0 .. x - 1 : m \in S
  BY <1>2
<1> QED
  BY <1>2, <1>3 DEF Inductive

\* Two functions agree on the numbers below m.
Agree(g, h, m) == \A i \in 0 .. m - 1 : g[i] = h[i]

-----------------------------------------------------------------------------
\* The recursion of ShiftRight.

ShiftBody(g, v, m) == IF m = 0 THEN v ELSE g[m - 1] \div 2

LEMMA ShiftExists ==
  ASSUME NEW v \in Nat, NEW w \in Nat
  PROVE  \E f : f = [m \in 0 .. w |-> ShiftBody(f, v, m)]
<1> DEFINE Part(g, n) == \A m \in 0 .. n - 1 : g[m] = ShiftBody(g, v, m)
<1>1. PICK S : S = {n \in Nat : \E g : Part(g, n)}
  OBVIOUS
<1>2. Inductive(S)
  <2>1. SUFFICES ASSUME NEW n \in Nat, \A m \in 0 .. n - 1 : m \in S
                 PROVE  \E g : Part(g, n)
    BY <1>1 DEF Inductive
  <2>2. CASE n = 0
    BY <2>2
  <2>3. CASE n # 0
    <3>1. PICK g : Part(g, n - 1)
      BY <1>1, <2>1, <2>3
    <3>2. PICK h : h = [m \in 0 .. n - 1 |-> IF m < n - 1 THEN g[m] ELSE ShiftBody(g, v, m)]
      OBVIOUS
    <3>3. \A m \in 0 .. n - 1 : ShiftBody(h, v, m) = ShiftBody(g, v, m)
      BY <3>2 DEF ShiftBody
    <3>4. Part(h, n)
      BY <3>1, <3>2, <3>3
    <3> QED
      BY <3>4
  <2> QED
    BY <2>2, <2>3
<1>3. PICK g : Part(g, w + 1)
  <2>1. w + 1 \in S
    BY <1>2, Induction
  <2> QED
    BY <1>1, <2>1
<1>4. PICK f : f = [m \in 0 .. w |-> g[m]]
  OBVIOUS
<1>5. \A m \in 0 .. w : ShiftBody(f, v, m) = ShiftBody(g, v, m)
  BY <1>4 DEF ShiftBody
<1>6. f = [m \in 0 .. w |-> ShiftBody(f, v, m)]
  BY <1>3, <1>4, <1>5
<1> QED
  BY <1>6

LEMMA ShiftRec ==
  ASSUME NEW v \in Nat, NEW w \in Nat
  PROVE  ShiftRight(v, w) = [m \in 0 .. w |-> ShiftBody(ShiftRight(v, w), v, m)]
<1>1. PICK f : f = [m \in 0 .. w |-> ShiftBody(f, v, m)]
  BY ShiftExists
<1> QED
  BY <1>1 DEF ShiftRight, ShiftBody

\* The recursion of load_label_len.

ValueBody(g, s, m) == IF m = 0 THEN 0 ELSE 2 * g[m - 1] + s[m]

LEMMA ValueExists ==
  ASSUME NEW s, NEW w \in Nat
  PROVE  \E f : f = [m \in 0 .. w |-> ValueBody(f, s, m)]
<1> DEFINE Part(g, n) == \A m \in 0 .. n - 1 : g[m] = ValueBody(g, s, m)
<1>1. PICK S : S = {n \in Nat : \E g : Part(g, n)}
  OBVIOUS
<1>2. Inductive(S)
  <2>1. SUFFICES ASSUME NEW n \in Nat, \A m \in 0 .. n - 1 : m \in S
                 PROVE  \E g : Part(g, n)
    BY <1>1 DEF Inductive
  <2>2. CASE n = 0
    BY <2>2
  <2>3. CASE n # 0
    <3>1. PICK g : Part(g, n - 1)
      BY <1>1, <2>1, <2>3
    <3>2. PICK h : h = [m \in 0 .. n - 1 |-> IF m < n - 1 THEN g[m] ELSE ValueBody(g, s, m)]
      OBVIOUS
    <3>3. \A m \in 0 .. n - 1 : ValueBody(h, s, m) = ValueBody(g, s, m)
      BY <3>2 DEF ValueBody
    <3>4. Part(h, n)
      BY <3>1, <3>2, <3>3
    <3> QED
      BY <3>4
  <2> QED
    BY <2>2, <2>3
<1>3. PICK g : Part(g, w + 1)
  <2>1. w + 1 \in S
    BY <1>2, Induction
  <2> QED
    BY <1>1, <2>1
<1>4. PICK f : f = [m \in 0 .. w |-> g[m]]
  OBVIOUS
<1>5. \A m \in 0 .. w : ValueBody(f, s, m) = ValueBody(g, s, m)
  BY <1>4 DEF ValueBody
<1>6. f = [m \in 0 .. w |-> ValueBody(f, s, m)]
  BY <1>3, <1>4, <1>5
<1> QED
  BY <1>6

LEMMA ValueRec ==
  ASSUME NEW s \in Seq(Bit)
  PROVE  Values(s) = [m \in 0 .. Len(s) |-> ValueBody(Values(s), s, m)]
<1>1. Len(s) \in Nat
  OBVIOUS
<1>2. PICK f : f = [m \in 0 .. Len(s) |-> ValueBody(f, s, m)]
  BY <1>1, ValueExists
<1> QED
  BY <1>2 DEF Values, ValueBody

\* The number that bits are read as.
LEMMA ValueType ==
  ASSUME NEW s \in Seq(Bit)
  PROVE  /\ Values(s) \in [0 .. Len(s) -> Nat]
         /\ load_label_len(s) \in Nat
<1>1. PICK S : S = {n \in Nat : n <= Len(s) => Values(s)[n] \in Nat}
  OBVIOUS
<1>2. Inductive(S)
  <2>1. SUFFICES ASSUME NEW n \in Nat, \A m \in 0 .. n - 1 : m \in S, n <= Len(s)
                 PROVE  Values(s)[n] \in Nat
    BY <1>1 DEF Inductive
  <2>2. Values(s)[n] = ValueBody(Values(s), s, n)
    BY <2>1, ValueRec
  <2>3. n # 0 => s[n] \in Nat /\ Values(s)[n - 1] \in Nat
    BY <1>1, <2>1 DEF Bit
  <2> QED
    BY <2>2, <2>3 DEF ValueBody
<1>3. \A n \in Nat : n <= Len(s) => Values(s)[n] \in Nat
  BY <1>1, <1>2, Induction
<1>4. Values(s) = [m \in 0 .. Len(s) |-> Values(s)[m]]
  BY ValueRec
<1> QED
  BY <1>3, <1>4 DEF load_label_len

LEMMA ShiftStep ==
  ASSUME NEW v \in Nat, NEW w \in Nat
  PROVE  /\ ShiftRight(v, w)[0] = v
         /\ \A j \in 0 .. w : ShiftRight(v, w)[j] \in Nat
         /\ \A j \in 0 .. w - 1 :
              ShiftRight(v, w)[j + 1] = ShiftRight(v, w)[j] \div 2
<1>1. \A j \in 0 .. w : ShiftRight(v, w)[j] = ShiftBody(ShiftRight(v, w), v, j)
  BY ShiftRec
<1>2. ShiftRight(v, w)[0] = v
  BY <1>1 DEF ShiftBody
<1>3. \A j \in 0 .. w - 1 : ShiftRight(v, w)[j + 1] = ShiftRight(v, w)[j] \div 2
  BY <1>1 DEF ShiftBody
<1>4. PICK S : S = {n \in Nat : n <= w => ShiftRight(v, w)[n] \in Nat}
  OBVIOUS
<1>5. Inductive(S)
  <2>1. SUFFICES ASSUME NEW n \in Nat, \A m \in 0 .. n - 1 : m \in S, n <= w, n # 0
                 PROVE  ShiftRight(v, w)[n] \in Nat
    BY <1>2, <1>4 DEF Inductive
  <2>2. ShiftRight(v, w)[n - 1] \in Nat
    BY <1>4, <2>1
  <2>3. ShiftRight(v, w)[n] = ShiftRight(v, w)[n - 1] \div 2
    BY <1>3, <2>1
  <2> QED
    BY <2>2, <2>3
<1>6. \A n \in Nat : n <= w => ShiftRight(v, w)[n] \in Nat
  BY <1>4, <1>5, Induction
<1> QED
  BY <1>2, <1>3, <1>6

\* A smaller number leaves no more after a shift, whatever the bound.
LEMMA ShiftMonotonic ==
  ASSUME NEW u \in Nat, NEW v \in Nat, u <= v, NEW w \in Nat, NEW x \in Nat,
         NEW j \in Nat, j <= w, j <= x
  PROVE  ShiftRight(u, w)[j] <= ShiftRight(v, x)[j]
<1>1. PICK S : S = {n \in Nat : n <= w /\ n <= x => ShiftRight(u, w)[n] <= ShiftRight(v, x)[n]}
  OBVIOUS
<1>2. Inductive(S)
  <2>1. SUFFICES ASSUME NEW n \in Nat, \A m \in 0 .. n - 1 : m \in S, n <= w, n <= x
                 PROVE  ShiftRight(u, w)[n] <= ShiftRight(v, x)[n]
    BY <1>1 DEF Inductive
  <2>2. CASE n = 0
    BY <2>2, ShiftStep
  <2>3. CASE n # 0
    <3>1. ShiftRight(u, w)[n - 1] <= ShiftRight(v, x)[n - 1]
      BY <1>1, <2>1, <2>3
    <3>2. PICK i \in Nat : n = i + 1
      BY <2>3
    <3>3. /\ ShiftRight(u, w)[i] \in Nat
          /\ ShiftRight(u, w)[i + 1] = ShiftRight(u, w)[i] \div 2
      BY <2>1, <3>2, ShiftStep
    <3>4. /\ ShiftRight(v, x)[i] \in Nat
          /\ ShiftRight(v, x)[i + 1] = ShiftRight(v, x)[i] \div 2
      BY <2>1, <3>2, ShiftStep
    <3>5. ShiftRight(u, w)[i] <= ShiftRight(v, x)[i]
      BY <3>1, <3>2
    <3>6. \A a, b \in Nat : a <= b => a \div 2 <= b \div 2
      OBVIOUS
    <3> QED
      BY <3>2, <3>3, <3>4, <3>5, <3>6
  <2> QED
    BY <2>2, <2>3
<1> QED
  BY <1>1, <1>2, Induction

\* As many shifts as the number leave nothing.
LEMMA ShiftEnds ==
  ASSUME NEW v \in Nat
  PROVE  ShiftRight(v, v)[v] = 0
<1>1. PICK S : S = {n \in Nat : n <= v => ShiftRight(v, v)[n] <= v - n}
  OBVIOUS
<1>2. Inductive(S)
  <2>1. SUFFICES ASSUME NEW n \in Nat, \A m \in 0 .. n - 1 : m \in S, n <= v
                 PROVE  ShiftRight(v, v)[n] <= v - n
    BY <1>1 DEF Inductive
  <2>2. CASE n = 0
    BY <2>2, ShiftStep
  <2>3. CASE n # 0
    <3>1. PICK i \in Nat : n = i + 1
      BY <2>3
    <3>2. ShiftRight(v, v)[i] <= v - i
      BY <1>1, <2>1, <3>1
    <3>3. /\ ShiftRight(v, v)[i] \in Nat
          /\ ShiftRight(v, v)[i + 1] = ShiftRight(v, v)[i] \div 2
      BY <2>1, <3>1, ShiftStep
    <3>4. \A a \in Nat : a \div 2 <= a /\ (a > 0 => a \div 2 <= a - 1)
      OBVIOUS
    <3>5. CASE ShiftRight(v, v)[i] = 0
      BY <2>1, <3>1, <3>3, <3>5
    <3>6. CASE ShiftRight(v, v)[i] > 0
      BY <3>1, <3>2, <3>3, <3>4, <3>6
    <3> QED
      BY <3>3, <3>5, <3>6
  <2> QED
    BY <2>2, <2>3
<1>3. ShiftRight(v, v)[v] <= v - v
  BY <1>1, <1>2, Induction
<1> QED
  BY <1>3, ShiftStep

LEMMA MinOfNats ==
  ASSUME NEW T \in SUBSET Nat, T # {}
  PROVE  Min(T) \in T /\ \A y \in T : Min(T) <= y
<1>1. \E x \in T : \A y \in T : x <= y
  BY NatMin
<1> QED
  BY <1>1 DEF Min

\* label_len_width: the lengths up to max fit in that many bits.
LEMMA WidthFits ==
  ASSUME NEW max \in Nat
  PROVE  /\ label_len_width(max) \in Nat
         /\ \A n \in 0 .. max :
              ShiftRight(n, label_len_width(max))[label_len_width(max)] = 0
<1> DEFINE T == {x \in 0 .. max : ShiftRight(max, max)[x] = 0}
<1>1. T \in SUBSET Nat /\ max \in T
  BY ShiftEnds
<1>2. PICK w : w = label_len_width(max)
  OBVIOUS
<1>3. w \in T
  BY <1>1, <1>2, MinOfNats DEF label_len_width
<1>4. w \in Nat /\ w <= max /\ ShiftRight(max, max)[w] = 0
  BY <1>3
<1>5. \A n \in 0 .. max : ShiftRight(n, w)[w] = 0
  <2>1. TAKE n \in 0 .. max
  <2>2. ShiftRight(n, w)[w] <= ShiftRight(max, max)[w]
    BY <1>4, ShiftMonotonic
  <2>3. ShiftRight(n, w)[w] \in Nat
    BY <1>4, ShiftStep
  <2> QED
    BY <1>4, <2>2, <2>3
<1> QED
  BY <1>2, <1>4, <1>5

\* push_uint_bits and load_label_len: a number that fits is read back.
LEMMA PushedBits ==
  ASSUME NEW v \in Nat, NEW w \in Nat
  PROVE  /\ push_uint_bits(v, w) \in Seq(Bit)
         /\ push_uint_bits(v, w) \in [1 .. w -> Bit]
         /\ Len(push_uint_bits(v, w)) = w
<1>1. \A j \in 0 .. w : ShiftRight(v, w)[j] \in Nat
  BY ShiftStep
<1>2. \A a \in Nat : a % 2 \in {0, 1}
  OBVIOUS
<1>3. \A i \in 1 .. w : ShiftRight(v, w)[w - i] % 2 \in {0, 1}
  BY <1>1, <1>2
<1>4. push_uint_bits(v, w) \in [1 .. w -> Bit]
  BY <1>3 DEF push_uint_bits, Bit
<1> QED
  BY <1>4

LEMMA PushLoad ==
  ASSUME NEW v \in Nat, NEW w \in Nat, ShiftRight(v, w)[w] = 0
  PROVE  load_label_len(push_uint_bits(v, w)) = v
<1>1. PICK s : s = push_uint_bits(v, w)
  OBVIOUS
<1>2. s \in Seq(Bit) /\ Len(s) = w
  BY <1>1, PushedBits
<1>3. PICK S : S = {n \in Nat : n <= w => Values(s)[n] = ShiftRight(v, w)[w - n]}
  OBVIOUS
<1>4. Inductive(S)
  <2>1. SUFFICES ASSUME NEW n \in Nat, \A m \in 0 .. n - 1 : m \in S, n <= w
                 PROVE  Values(s)[n] = ShiftRight(v, w)[w - n]
    BY <1>3 DEF Inductive
  <2>2. Values(s)[n] = ValueBody(Values(s), s, n)
    BY <1>2, <2>1, ValueRec
  <2>3. CASE n = 0
    BY <2>2, <2>3 DEF ValueBody
  <2>4. CASE n # 0
    <3>1. Values(s)[n - 1] = ShiftRight(v, w)[w - (n - 1)]
      BY <1>3, <2>1, <2>4
    <3>2. s[n] = ShiftRight(v, w)[w - n] % 2
      BY <1>1, <2>1, <2>4 DEF push_uint_bits
    <3>3. PICK j \in Nat : j = w - n /\ j \in 0 .. w - 1
      BY <2>1, <2>4
    <3>4. /\ ShiftRight(v, w)[j] \in Nat
          /\ ShiftRight(v, w)[j + 1] = ShiftRight(v, w)[j] \div 2
      BY <3>3, ShiftStep
    <3>5. w - (n - 1) = j + 1
      BY <3>3
    <3>6. Values(s)[n] = 2 * (ShiftRight(v, w)[j] \div 2) + (ShiftRight(v, w)[j] % 2)
      BY <2>2, <2>4, <3>1, <3>2, <3>3, <3>4, <3>5 DEF ValueBody
    <3>7. \A a \in Nat : 2 * (a \div 2) + (a % 2) = a
      OBVIOUS
    <3> QED
      BY <3>3, <3>4, <3>6, <3>7
  <2> QED
    BY <2>3, <2>4
<1>5. Values(s)[w] = ShiftRight(v, w)[w - w]
  BY <1>3, <1>4, Induction
<1> QED
  BY <1>1, <1>2, <1>5, ShiftStep DEF load_label_len

-----------------------------------------------------------------------------
\* Sequences of bits.

LEMMA CatType ==
  ASSUME NEW s \in Seq(Bit), NEW t \in Seq(Bit)
  PROVE  s \o t \in Seq(Bit) /\ Len(s \o t) = Len(s) + Len(t)
OBVIOUS

LEMMA CatIndex ==
  ASSUME NEW s \in Seq(Bit), NEW t \in Seq(Bit)
  PROVE  /\ \A i \in 1 .. Len(s) : (s \o t)[i] = s[i]
         /\ \A i \in 1 .. Len(t) : (s \o t)[Len(s) + i] = t[i]
OBVIOUS

LEMMA SameBits ==
  ASSUME NEW s \in Seq(Bit), NEW t \in Seq(Bit), Len(s) = Len(t),
         \A i \in 1 .. Len(s) : s[i] = t[i]
  PROVE  s = t
OBVIOUS

LEMMA CatAssoc ==
  ASSUME NEW s \in Seq(Bit), NEW t \in Seq(Bit), NEW u \in Seq(Bit)
  PROVE  (s \o t) \o u = s \o (t \o u)
<1>1. /\ s \o t \in Seq(Bit) /\ Len(s \o t) = Len(s) + Len(t)
      /\ t \o u \in Seq(Bit) /\ Len(t \o u) = Len(t) + Len(u)
  BY CatType
<1>2. PICK x \in Seq(Bit) : x = (s \o t) \o u
  BY <1>1, CatType
<1>3. PICK y \in Seq(Bit) : y = s \o (t \o u)
  BY <1>1, CatType
<1>4. Len(x) = Len(s) + Len(t) + Len(u) /\ Len(y) = Len(x)
  BY <1>1, <1>2, <1>3
<1>5. ASSUME NEW i \in 1 .. Len(x) PROVE x[i] = y[i]
  <2>1. CASE i <= Len(s)
    BY <1>1, <1>2, <1>3, <1>4, <2>1
  <2>2. CASE i > Len(s) /\ i <= Len(s) + Len(t)
    BY <1>1, <1>2, <1>3, <1>4, <2>2
  <2>3. CASE i > Len(s) + Len(t)
    BY <1>1, <1>2, <1>3, <1>4, <2>3
  <2> QED
    BY <1>4, <2>1, <2>2, <2>3
<1>6. x = y
  BY <1>4, <1>5
<1> QED
  BY <1>2, <1>3, <1>6

\* What is read after, and before, the end of a prefix.
LEMMA FromCat ==
  ASSUME NEW s \in Seq(Bit), NEW t \in Seq(Bit)
  PROVE  /\ From(s \o t, Len(s) + 1) = t
         /\ SubSeq(s \o t, 1, Len(s)) = s
         /\ From(s, Len(s) + 1) = <<>>
<1>1. PICK x \in Seq(Bit) : x = s \o t
  BY CatType
<1>2. Len(x) = Len(s) + Len(t)
  BY <1>1
<1>3. \A i \in 1 .. Len(t) : x[Len(s) + i] = t[i]
  BY <1>1
<1>4. \A i \in 1 .. Len(s) : x[i] = s[i]
  BY <1>1
<1>5. SubSeq(x, Len(s) + 1, Len(x)) = t
  <2>1. PICK y : y = SubSeq(x, Len(s) + 1, Len(x))
    OBVIOUS
  <2>2. y \in Seq(Bit) /\ Len(y) = Len(t)
    BY <1>2, <2>1
  <2>3. \A i \in 1 .. Len(t) : y[i] = x[Len(s) + i]
    BY <1>2, <2>1, <2>2
  <2>4. y = t
    BY <1>3, <2>2, <2>3
  <2> QED
    BY <2>1, <2>4
<1>6. SubSeq(x, 1, Len(s)) = s
  <2>1. PICK y : y = SubSeq(x, 1, Len(s))
    OBVIOUS
  <2>2. y \in Seq(Bit) /\ Len(y) = Len(s)
    BY <1>2, <2>1
  <2>3. \A i \in 1 .. Len(s) : y[i] = x[i]
    BY <1>2, <2>1, <2>2
  <2>4. y = s
    BY <1>4, <2>2, <2>3
  <2> QED
    BY <2>1, <2>4
<1>7. From(s, Len(s) + 1) = <<>>
  BY DEF From
<1> QED
  BY <1>1, <1>5, <1>6, <1>7 DEF From

LEMMA TakeExact ==
  ASSUME NEW b \in Seq(Bit), NEW rest \in Seq(Bit), NEW max \in Nat, Len(b) <= max
  PROVE  TakeLabel(b \o rest, Len(b), max) = {[label |-> b, rest |-> rest]}
<1>1. Len(b) <= Len(b \o rest)
  OBVIOUS
<1> QED
  BY <1>1, FromCat DEF TakeLabel

LEMMA RepeatType ==
  ASSUME NEW b \in Bit, NEW n \in Nat
  PROVE  RepeatBit(b, n) \in Seq(Bit) /\ Len(RepeatBit(b, n)) = n
         /\ \A i \in 1 .. n : RepeatBit(b, n)[i] = b
BY DEF RepeatBit

-----------------------------------------------------------------------------
\* The three forms of a label.

LEMMA LoadLongCase ==
  ASSUME NEW s \in Seq(Bit), NEW max \in Nat, NEW w \in Nat, w = label_len_width(max),
         s # <<>>, s[1] = 1, s[2] = 0, Len(s) >= 2 + w
  PROVE  load_label(s, max)
           = TakeLabel(From(s, 3 + w), load_label_len(SubSeq(s, 3, 2 + w)), max)
BY DEF load_label

LEMMA LoadSameCase ==
  ASSUME NEW s \in Seq(Bit), NEW max \in Nat, NEW w \in Nat, w = label_len_width(max),
         s # <<>>, s[1] = 1, s[2] = 1, Len(s) >= 3 + w
  PROVE  load_label(s, max) =
           LET n == load_label_len(SubSeq(s, 4, 3 + w))
           IN  IF n > max THEN {}
               ELSE {[label |-> RepeatBit(s[3], n), rest |-> From(s, 4 + w)]}
BY DEF load_label

LEMMA LoadShort ==
  ASSUME NEW bits \in Seq(Bit), NEW rest \in Seq(Bit), NEW max \in Nat, Len(bits) <= max
  PROVE  /\ encode_short_label(bits) \in Seq(Bit)
         /\ Len(encode_short_label(bits)) = 2 + 2 * Len(bits)
         /\ load_label(encode_short_label(bits) \o rest, max)
              = {[label |-> bits, rest |-> rest]}
<1>1. PICK n \in Nat : n = Len(bits)
  OBVIOUS
<1>2. PICK R \in Seq(Bit) : R = RepeatBit(1, n) /\ Len(R) = n /\ \A i \in 1 .. n : R[i] = 1
  BY RepeatType DEF Bit
<1>3. PICK h : h = <<0>> \o R \o <<0>>
  OBVIOUS
<1>4. <<0>> \in Seq(Bit) /\ Len(<<0>>) = 1
  BY DEF Bit
<1>5. h \in Seq(Bit) /\ Len(h) = n + 2
  BY <1>2, <1>3, <1>4, CatType
<1>6. h[1] = 0 /\ (\A i \in 1 .. n : h[i + 1] = 1) /\ h[n + 2] = 0
  BY <1>2, <1>3
<1>7. PICK t \in Seq(Bit) : t = bits \o rest
  BY CatType
<1>8. PICK s \in Seq(Bit) : s = h \o t
  BY <1>5, CatType
<1>9. Len(s) = n + 2 + Len(t) /\ \A i \in 1 .. n + 2 : s[i] = h[i]
  <2>1. Len(s) = Len(h) + Len(t) /\ \A i \in 1 .. Len(h) : s[i] = h[i]
    BY <1>5, <1>8, CatType, CatIndex
  <2> QED
    BY <1>5, <2>1
<1>10. encode_short_label(bits) = h \o bits
  BY <1>1, <1>2, <1>3 DEF encode_short_label
<1>11. encode_short_label(bits) \o rest = s
  <2>1. (h \o bits) \o rest = h \o (bits \o rest)
    BY <1>5, CatAssoc
  <2> QED
    BY <1>7, <1>8, <1>10, <2>1
<1>12. PICK stops : stops = {m \in 0 .. Len(s) - 2 : s[m + 2] = 0}
  OBVIOUS
<1>13. Min(stops) = n /\ stops # {}
  <2>1. n \in stops
    BY <1>6, <1>9, <1>12
  <2>2. \A m \in stops : m >= n
    <3>1. ASSUME NEW m \in stops, m < n PROVE FALSE
      <4>1. m \in Nat /\ s[m + 2] = 0
        BY <1>12
      <4>2. PICK i \in 1 .. n : i = m + 1
        BY <3>1, <4>1
      <4>3. i + 1 = m + 2 /\ i + 1 \in 1 .. n + 2
        BY <4>1, <4>2
      <4>4. h[i + 1] = 1 /\ s[i + 1] = h[i + 1]
        BY <1>6, <1>9, <4>2, <4>3
      <4> QED
        BY <4>1, <4>3, <4>4
    <3> QED
      BY <1>12, <3>1
  <2>3. stops \in SUBSET Nat
    BY <1>12
  <2>4. Min(stops) \in stops /\ \A y \in stops : Min(stops) <= y
    BY <2>1, <2>3, MinOfNats
  <2>5. PICK z : z = Min(stops)
    OBVIOUS
  <2>6. z \in Nat /\ z <= n /\ z >= n
    BY <2>1, <2>2, <2>3, <2>4, <2>5
  <2> QED
    BY <2>1, <2>5, <2>6
<1>14. s # <<>> /\ s[1] = 0
  BY <1>6, <1>9
<1>15. From(s, n + 3) = t
  BY <1>5, <1>8, FromCat
<1>16. load_label(s, max) = TakeLabel(t, n, max)
  BY <1>12, <1>13, <1>14, <1>15 DEF load_label
<1>17. h \o bits \in Seq(Bit) /\ Len(h \o bits) = 2 + 2 * n
  <2>1. h \o bits \in Seq(Bit) /\ Len(h \o bits) = Len(h) + Len(bits)
    BY <1>5, CatType
  <2>2. (n + 2) + n = 2 + 2 * n
    OBVIOUS
  <2> QED
    BY <1>1, <1>5, <2>1, <2>2
<1>18. TakeLabel(t, n, max) = {[label |-> bits, rest |-> rest]}
  BY <1>1, <1>7, TakeExact
<1> QED
  BY <1>1, <1>10, <1>11, <1>16, <1>17, <1>18

LEMMA LoadLong ==
  ASSUME NEW bits \in Seq(Bit), NEW rest \in Seq(Bit), NEW max \in Nat, Len(bits) <= max
  PROVE  /\ encode_long_label(bits, max) \in Seq(Bit)
         /\ Len(encode_long_label(bits, max)) = 2 + label_len_width(max) + Len(bits)
         /\ load_label(encode_long_label(bits, max) \o rest, max)
              = {[label |-> bits, rest |-> rest]}
<1>1. PICK n \in Nat : n = Len(bits)
  OBVIOUS
<1>2. PICK w \in Nat : w = label_len_width(max) /\ ShiftRight(n, w)[w] = 0
  <2>1. n \in 0 .. max
    BY <1>1
  <2>2. PICK w : w = label_len_width(max)
    OBVIOUS
  <2>3. w \in Nat /\ ShiftRight(n, w)[w] = 0
    BY <2>1, <2>2, WidthFits
  <2> QED
    BY <2>2, <2>3
<1>3. PICK U \in Seq(Bit) : U = push_uint_bits(n, w) /\ Len(U) = w /\ load_label_len(U) = n
  BY <1>2, PushedBits, PushLoad
<1>4. PICK h : h = <<1, 0>> \o U
  OBVIOUS
<1>5. <<1, 0>> \in Seq(Bit) /\ Len(<<1, 0>>) = 2
  BY DEF Bit
<1>6. h \in Seq(Bit) /\ Len(h) = 2 + w
  BY <1>3, <1>4, <1>5, CatType
<1>7. h[1] = 1 /\ h[2] = 0 /\ \A i \in 1 .. w : h[2 + i] = U[i]
  BY <1>3, <1>4
<1>8. PICK t \in Seq(Bit) : t = bits \o rest
  BY CatType
<1>9. PICK s \in Seq(Bit) : s = h \o t
  BY <1>6, CatType
<1>10. Len(s) = 2 + w + Len(t) /\ \A i \in 1 .. 2 + w : s[i] = h[i]
  <2>1. Len(s) = Len(h) + Len(t) /\ \A i \in 1 .. Len(h) : s[i] = h[i]
    BY <1>6, <1>9, CatType, CatIndex
  <2> QED
    BY <1>6, <2>1
<1>11. encode_long_label(bits, max) = h \o bits
  BY <1>1, <1>2, <1>3, <1>4 DEF encode_long_label
<1>12. encode_long_label(bits, max) \o rest = s
  <2>1. (h \o bits) \o rest = h \o (bits \o rest)
    BY <1>6, CatAssoc
  <2> QED
    BY <1>8, <1>9, <1>11, <2>1
<1>13. SubSeq(s, 3, 2 + w) = U
  <2>1. PICK y : y = SubSeq(s, 3, 2 + w)
    OBVIOUS
  <2>2. y \in Seq(Bit) /\ Len(y) = w
    BY <1>10, <2>1
  <2>3. \A i \in 1 .. w : y[i] = s[2 + i]
    BY <1>10, <2>1, <2>2
  <2>4. \A i \in 1 .. w : s[2 + i] = U[i]
    BY <1>7, <1>10
  <2>5. \A i \in 1 .. Len(y) : y[i] = U[i]
    BY <2>2, <2>3, <2>4
  <2>6. y = U
    BY <1>3, <2>2, <2>5, SameBits
  <2> QED
    BY <2>1, <2>6
<1>14. s # <<>> /\ s[1] = 1 /\ s[2] = 0 /\ Len(s) >= 2 + w
  BY <1>7, <1>10
<1>15. From(s, 3 + w) = t
  BY <1>6, <1>9, FromCat
<1>16. load_label(s, max) = TakeLabel(t, n, max)
  <2>1. load_label(s, max)
          = TakeLabel(From(s, 3 + w), load_label_len(SubSeq(s, 3, 2 + w)), max)
    BY <1>2, <1>14, LoadLongCase
  <2> QED
    BY <1>3, <1>13, <1>15, <2>1
<1>17. h \o bits \in Seq(Bit) /\ Len(h \o bits) = 2 + w + n
  BY <1>1, <1>6, CatType
<1>18. TakeLabel(t, n, max) = {[label |-> bits, rest |-> rest]}
  BY <1>1, <1>8, TakeExact
<1> QED
  BY <1>1, <1>2, <1>11, <1>12, <1>16, <1>17, <1>18

Uniform(bits) == \E b \in Bit : \A i \in 1 .. Len(bits) : bits[i] = b

LEMMA LoadSame ==
  ASSUME NEW bits \in Seq(Bit), NEW rest \in Seq(Bit), NEW max \in Nat, Len(bits) <= max
  PROVE  /\ encode_same_label(bits, max) \in Seq(Bit)
         /\ Len(encode_same_label(bits, max)) = 3 + label_len_width(max)
         /\ Uniform(bits) => load_label(encode_same_label(bits, max) \o rest, max)
                               = {[label |-> bits, rest |-> rest]}
<1>1. PICK n \in Nat : n = Len(bits)
  OBVIOUS
<1>2. PICK w \in Nat : w = label_len_width(max) /\ ShiftRight(n, w)[w] = 0
  <2>1. n \in 0 .. max
    BY <1>1
  <2>2. PICK w : w = label_len_width(max)
    OBVIOUS
  <2>3. w \in Nat /\ ShiftRight(n, w)[w] = 0
    BY <2>1, <2>2, WidthFits
  <2> QED
    BY <2>2, <2>3
<1>3. PICK U \in Seq(Bit) : U = push_uint_bits(n, w) /\ Len(U) = w /\ load_label_len(U) = n
  BY <1>2, PushedBits, PushLoad
<1>4. PICK c \in Bit : c = IF bits = <<>> THEN 0 ELSE bits[1]
  BY DEF Bit
<1>5. PICK h : h = <<1, 1, c>> \o U
  OBVIOUS
<1>6. <<1, 1, c>> \in Seq(Bit) /\ Len(<<1, 1, c>>) = 3
  BY DEF Bit
<1>7. h \in Seq(Bit) /\ Len(h) = 3 + w
  BY <1>3, <1>5, <1>6, CatType
<1>8. h[1] = 1 /\ h[2] = 1 /\ h[3] = c /\ \A i \in 1 .. w : h[3 + i] = U[i]
  BY <1>3, <1>5
<1>9. encode_same_label(bits, max) = h
  BY <1>1, <1>2, <1>3, <1>4, <1>5 DEF encode_same_label
<1>10. PICK s \in Seq(Bit) : s = h \o rest
  BY <1>7, CatType
<1>11. Len(s) = 3 + w + Len(rest) /\ \A i \in 1 .. 3 + w : s[i] = h[i]
  <2>1. Len(s) = Len(h) + Len(rest) /\ \A i \in 1 .. Len(h) : s[i] = h[i]
    BY <1>7, <1>10, CatType, CatIndex
  <2> QED
    BY <1>7, <2>1
<1>12. SubSeq(s, 4, 3 + w) = U
  <2>1. PICK y : y = SubSeq(s, 4, 3 + w)
    OBVIOUS
  <2>2. y \in Seq(Bit) /\ Len(y) = w
    BY <1>11, <2>1
  <2>3. \A i \in 1 .. w : y[i] = s[3 + i]
    BY <1>11, <2>1, <2>2
  <2>4. \A i \in 1 .. w : s[3 + i] = U[i]
    BY <1>8, <1>11
  <2>5. \A i \in 1 .. Len(y) : y[i] = U[i]
    BY <2>2, <2>3, <2>4
  <2>6. y = U
    BY <1>3, <2>2, <2>5, SameBits
  <2> QED
    BY <2>1, <2>6
<1>13. s # <<>> /\ s[1] = 1 /\ s[2] = 1 /\ s[3] = c /\ Len(s) >= 3 + w
  BY <1>8, <1>11
<1>14. From(s, 4 + w) = rest
  BY <1>7, <1>10, FromCat
<1>15. load_label(s, max) = {[label |-> RepeatBit(c, n), rest |-> rest]}
  <2>1. ~(n > max)
    BY <1>1
  <2> QED
    <3>1. load_label(s, max) =
            LET l == load_label_len(SubSeq(s, 4, 3 + w))
            IN  IF l > max THEN {}
                ELSE {[label |-> RepeatBit(s[3], l), rest |-> From(s, 4 + w)]}
      BY <1>2, <1>13, LoadSameCase
    <3>2. load_label_len(SubSeq(s, 4, 3 + w)) = n
      BY <1>3, <1>12
    <3> QED
      BY <1>13, <1>14, <2>1, <3>1, <3>2
<1>16. ASSUME Uniform(bits) PROVE RepeatBit(c, n) = bits
  <2>1. PICK b \in Bit : \A i \in 1 .. n : bits[i] = b
    BY <1>1, <1>16 DEF Uniform
  <2>2. \A i \in 1 .. n : bits[i] = c
    BY <1>1, <1>4, <2>1
  <2>3. RepeatBit(c, n) \in Seq(Bit) /\ Len(RepeatBit(c, n)) = n /\ \A i \in 1 .. n : RepeatBit(c, n)[i] = c
    BY RepeatType
  <2> QED
    BY <1>1, <2>2, <2>3
<1> QED
  BY <1>2, <1>7, <1>9, <1>10, <1>15, <1>16

-----------------------------------------------------------------------------
\* The label that is written.

Forms(bits, max) ==
  {encode_short_label(bits), encode_long_label(bits, max)}
    \cup IF Uniform(bits) THEN {encode_same_label(bits, max)} ELSE {}

LEMMA FirstOfThree ==
  ASSUME NEW s \in Seq(Bit), NEW t \in Seq(Bit), NEW u \in Seq(Bit)
  PROVE  \E x \in {s, t, u} : \A y \in {s, t, u} : NotAfter(x, y)
<1>1. /\ load_label_len(s) \in Nat /\ load_label_len(t) \in Nat
      /\ load_label_len(u) \in Nat
  BY ValueType
<1>2. Len(s) \in Nat /\ Len(t) \in Nat /\ Len(u) \in Nat
  OBVIOUS
<1> QED
  BY <1>1, <1>2 DEF NotAfter

LEMMA CanonicalForm ==
  ASSUME NEW bits \in Seq(Bit), NEW max \in Nat, Len(bits) <= max
  PROVE  /\ canonical_label(bits, max) \in Forms(bits, max)
         /\ \A t \in Forms(bits, max) : Len(canonical_label(bits, max)) <= Len(t)
<1>1. PICK s \in Seq(Bit) : s = encode_short_label(bits)
  BY LoadShort
<1>2. PICK t \in Seq(Bit) : t = encode_long_label(bits, max)
  BY LoadLong
<1>3. PICK u \in Seq(Bit) : u = encode_same_label(bits, max)
  BY LoadSame
<1>4. PICK F : F = Forms(bits, max)
  OBVIOUS
<1>5. F = {s, t, u} \/ F = {s, t, t}
  BY <1>1, <1>2, <1>3, <1>4 DEF Forms
<1>6. \E x \in F : \A y \in F : NotAfter(x, y)
  <2>1. CASE F = {s, t, u}
    <3>1. \E x \in {s, t, u} : \A y \in {s, t, u} : NotAfter(x, y)
      BY FirstOfThree
    <3> QED
      BY <2>1, <3>1
  <2>2. CASE F = {s, t, t}
    <3>1. \E x \in {s, t, t} : \A y \in {s, t, t} : NotAfter(x, y)
      BY FirstOfThree
    <3> QED
      BY <2>2, <3>1
  <2> QED
    BY <1>5, <2>1, <2>2
<1>7. canonical_label(bits, max) = CHOOSE x \in F : \A y \in F : NotAfter(x, y)
  BY <1>4 DEF canonical_label, Forms, Uniform
<1>8. PICK c : c = canonical_label(bits, max)
  OBVIOUS
<1>9. c \in F /\ \A y \in F : NotAfter(c, y)
  BY <1>6, <1>7, <1>8
<1>10. F \in SUBSET Seq(Bit)
  BY <1>5
<1>11. \A y \in F : Len(c) <= Len(y)
  BY <1>9, <1>10 DEF NotAfter
<1> QED
  BY <1>4, <1>8, <1>9, <1>11

\* A label that was written is read back, whatever follows it.
LEMMA CanonicalRead ==
  ASSUME NEW bits \in Seq(Bit), NEW max \in Nat, Len(bits) <= max
  PROVE  /\ canonical_label(bits, max) \in Seq(Bit)
         /\ \A rest \in Seq(Bit) :
              load_label(canonical_label(bits, max) \o rest, max)
                = {[label |-> bits, rest |-> rest]}
<1>1. PICK c : c = canonical_label(bits, max)
  OBVIOUS
<1>2. \/ c = encode_short_label(bits)
      \/ c = encode_long_label(bits, max)
      \/ Uniform(bits) /\ c = encode_same_label(bits, max)
  BY <1>1, CanonicalForm DEF Forms
<1>3. <<>> \in Seq(Bit)
  OBVIOUS
<1>4. c \in Seq(Bit)
  BY <1>2, <1>3, LoadShort, LoadLong, LoadSame
<1>5. ASSUME NEW rest \in Seq(Bit)
      PROVE  load_label(c \o rest, max) = {[label |-> bits, rest |-> rest]}
  <2>1. CASE c = encode_short_label(bits)
    BY <2>1, LoadShort
  <2>2. CASE c = encode_long_label(bits, max)
    BY <2>2, LoadLong
  <2>3. CASE Uniform(bits) /\ c = encode_same_label(bits, max)
    BY <2>3, LoadSame
  <2> QED
    BY <1>2, <2>1, <2>2, <2>3
<1> QED
  BY <1>1, <1>4, <1>5

\* What load_label returns: a label that fits, with the bits after it.  Its
\* length tells how many bits were read at least.
LEMMA LoadBound ==
  ASSUME NEW s \in Seq(Bit), NEW max \in Nat, NEW l \in load_label(s, max)
  PROVE  /\ l.label \in Seq(Bit) /\ l.rest \in Seq(Bit) /\ Len(l.label) <= max
         /\ \/ Len(s) >= 2 + 2 * Len(l.label)
            \/ Len(s) >= 2 + label_len_width(max) + Len(l.label)
            \/ Uniform(l.label) /\ Len(s) >= 3 + label_len_width(max)
<1>1. PICK w \in Nat : w = label_len_width(max)
  BY WidthFits
<1>2. ASSUME NEW t \in Seq(Bit), NEW n \in Nat, l \in TakeLabel(t, n, max)
      PROVE  /\ l.label \in Seq(Bit) /\ l.rest \in Seq(Bit)
             /\ Len(l.label) = n /\ n <= max /\ n <= Len(t)
  <2>1. n <= max /\ n <= Len(t) /\ l = [label |-> SubSeq(t, 1, n), rest |-> From(t, n + 1)]
    BY <1>2 DEF TakeLabel
  <2>2. SubSeq(t, 1, n) \in Seq(Bit) /\ Len(SubSeq(t, 1, n)) = n
    BY <2>1
  <2>3. From(t, n + 1) \in Seq(Bit)
    BY <2>1 DEF From
  <2> QED
    BY <2>1, <2>2, <2>3
<1>3. CASE s = <<>>
  <2>1. ~(Len(<<>>) >= 2 + w) /\ ~(Len(<<>>) >= 3 + w)
    OBVIOUS
  <2>2. load_label(<<>>, max) = {}
    BY <1>1, <2>1 DEF load_label
  <2> QED
    BY <1>3, <2>2
<1>4. CASE s # <<>> /\ s[1] = 0
  <2>1. PICK stops : stops = {m \in 0 .. Len(s) - 2 : s[m + 2] = 0}
    OBVIOUS
  <2>2. stops # {} /\ l \in TakeLabel(From(s, Min(stops) + 3), Min(stops), max)
    BY <1>4, <2>1 DEF load_label
  <2>3. PICK n : n = Min(stops)
    OBVIOUS
  <2>4. n \in stops
    BY <2>1, <2>2, <2>3, MinOfNats
  <2>5. n \in Nat /\ n + 2 <= Len(s)
    BY <2>1, <2>4
  <2>6. PICK t : t = From(s, n + 3)
    OBVIOUS
  <2>7. t \in Seq(Bit) /\ Len(t) = Len(s) - n - 2
    BY <2>5, <2>6 DEF From
  <2>8. /\ l.label \in Seq(Bit) /\ l.rest \in Seq(Bit)
        /\ Len(l.label) = n /\ n <= max /\ n <= Len(t)
    BY <1>2, <2>2, <2>3, <2>5, <2>6, <2>7
  <2> QED
    BY <2>5, <2>7, <2>8
<1>5. CASE Len(s) >= 2 + w /\ s # <<>> /\ s[1] = 1 /\ s[2] = 0
  <2>1. l \in TakeLabel(From(s, 3 + w), load_label_len(SubSeq(s, 3, 2 + w)), max)
    BY <1>1, <1>5, LoadLongCase
  <2>2. SubSeq(s, 3, 2 + w) \in Seq(Bit)
    BY <1>5
  <2>3. PICK n \in Nat : n = load_label_len(SubSeq(s, 3, 2 + w))
    BY <2>2, ValueType
  <2>4. PICK t : t = From(s, 3 + w)
    OBVIOUS
  <2>5. t \in Seq(Bit) /\ Len(t) = Len(s) - w - 2
    BY <1>5, <2>4 DEF From
  <2>6. /\ l.label \in Seq(Bit) /\ l.rest \in Seq(Bit)
        /\ Len(l.label) = n /\ n <= max /\ n <= Len(t)
    BY <1>2, <2>1, <2>3, <2>4, <2>5
  <2>7. Len(s) >= 2 + w + Len(l.label)
    BY <2>5, <2>6
  <2> QED
    BY <1>1, <2>6, <2>7
<1>6. CASE Len(s) >= 3 + w /\ s # <<>> /\ s[1] = 1 /\ s[2] = 1
  <2>1. SubSeq(s, 4, 3 + w) \in Seq(Bit)
    BY <1>6
  <2>2. PICK n \in Nat : n = load_label_len(SubSeq(s, 4, 3 + w))
    BY <2>1, ValueType
  <2>3. l \in IF n > max THEN {}
              ELSE {[label |-> RepeatBit(s[3], n), rest |-> From(s, 4 + w)]}
    BY <1>1, <1>6, <2>2, LoadSameCase
  <2>4. n <= max /\ l.label = RepeatBit(s[3], n) /\ l.rest = From(s, 4 + w)
    BY <2>3
  <2>5. s[3] \in Bit
    BY <1>6
  <2>6. l.label \in Seq(Bit) /\ Len(l.label) = n /\ \A i \in 1 .. n : l.label[i] = s[3]
    <3>1. PICK r : r = RepeatBit(s[3], n)
      OBVIOUS
    <3>2. r \in Seq(Bit) /\ Len(r) = n /\ \A i \in 1 .. n : r[i] = s[3]
      BY <2>5, <3>1, RepeatType
    <3> QED
      BY <2>4, <3>1, <3>2
  <2>7. Uniform(l.label)
    BY <2>5, <2>6 DEF Uniform
  <2>8. l.rest \in Seq(Bit)
    BY <1>6, <2>4 DEF From
  <2> QED
    BY <1>1, <1>6, <2>4, <2>6, <2>7, <2>8
<1>7. CASE s # <<>> /\ s[1] = 1 /\ s[2] = 0 /\ ~(Len(s) >= 2 + w)
  BY <1>1, <1>7 DEF load_label
<1>8. CASE s # <<>> /\ s[1] = 1 /\ s[2] = 1 /\ ~(Len(s) >= 3 + w)
  BY <1>1, <1>8 DEF load_label
<1>9. CASE s # <<>> /\ s[1] = 1 /\ Len(s) < 2
  BY <1>1, <1>9 DEF load_label
<1> QED
  <2>1. s # <<>> => Len(s) \in Nat /\ Len(s) >= 1 /\ s[1] \in {0, 1}
    BY DEF Bit
  <2>2. Len(s) >= 2 => s[2] \in {0, 1}
    BY DEF Bit
  <2> QED
    BY <1>3, <1>4, <1>5, <1>6, <1>7, <1>8, <1>9, <2>1, <2>2

\* No sequence of bits that load_label reads as the label is shorter.
LEMMA CanonicalShortest ==
  ASSUME NEW bits \in Seq(Bit), NEW max \in Nat, Len(bits) <= max,
         NEW s \in Seq(Bit), NEW rest, [label |-> bits, rest |-> rest] \in load_label(s, max)
  PROVE  Len(canonical_label(bits, max)) <= Len(s)
<1>1. PICK c \in Seq(Bit) : c = canonical_label(bits, max)
  BY CanonicalRead
<1>2. PICK w \in Nat : w = label_len_width(max)
  BY WidthFits
<1>3. \/ Len(s) >= 2 + 2 * Len(bits)
      \/ Len(s) >= 2 + w + Len(bits)
      \/ Uniform(bits) /\ Len(s) >= 3 + w
  <2>1. PICK l : l = [label |-> bits, rest |-> rest]
    OBVIOUS
  <2>2. l \in load_label(s, max) /\ l.label = bits
    BY <2>1
  <2> QED
    BY <1>2, <2>2, LoadBound
<1>4. <<>> \in Seq(Bit)
  OBVIOUS
<1>5. Len(c) <= 2 + 2 * Len(bits)
  BY <1>1, <1>4, CanonicalForm, LoadShort DEF Forms
<1>6. Len(c) <= 2 + w + Len(bits)
  BY <1>1, <1>2, <1>4, CanonicalForm, LoadLong DEF Forms
<1>7. Uniform(bits) => Len(c) <= 3 + w
  BY <1>1, <1>2, <1>4, CanonicalForm, LoadSame DEF Forms
<1> QED
  BY <1>1, <1>2, <1>3, <1>5, <1>6, <1>7

-----------------------------------------------------------------------------
\* The trees of a height.

TreeBody(g, Data, m) == [data : Data, refs : IF m = 0 THEN {<<>>} ELSE Seq(g[m - 1])]

LEMMA TreeCongruent ==
  ASSUME NEW Data, NEW m \in Nat, NEW g, NEW h, Agree(g, h, m)
  PROVE  TreeBody(g, Data, m) = TreeBody(h, Data, m)
<1>1. m = 0 \/ g[m - 1] = h[m - 1]
  BY DEF Agree
<1> QED
  BY <1>1 DEF TreeBody

LEMMA TreeExists ==
  ASSUME NEW Data, NEW w \in Nat
  PROVE  \E f : f = [m \in 0 .. w |-> TreeBody(f, Data, m)]
<1> DEFINE Part(g, n) == \A m \in 0 .. n - 1 : g[m] = TreeBody(g, Data, m)
<1>1. PICK S : S = {n \in Nat : n <= w + 1 => \E g : Part(g, n)}
  OBVIOUS
<1>2. Inductive(S)
  <2>1. SUFFICES ASSUME NEW n \in Nat, \A m \in 0 .. n - 1 : m \in S, n <= w + 1
                 PROVE  \E g : Part(g, n)
    BY <1>1 DEF Inductive
  <2>2. CASE n = 0
    BY <2>2
  <2>3. CASE n # 0
    <3>1. PICK g : Part(g, n - 1)
      BY <1>1, <2>1, <2>3
    <3>2. PICK h : h = [m \in 0 .. n - 1 |-> IF m < n - 1 THEN g[m] ELSE TreeBody(g, Data, m)]
      OBVIOUS
    <3>3. ASSUME NEW m \in 0 .. n - 1
          PROVE  TreeBody(h, Data, m) = TreeBody(g, Data, m)
      <4>1. m \in 0 .. w /\ Agree(h, g, m)
        BY <2>1, <3>2 DEF Agree
      <4> QED
        BY <4>1, TreeCongruent
    <3>4. Part(h, n)
      BY <3>1, <3>2, <3>3
    <3> QED
      BY <3>4
  <2> QED
    BY <2>2, <2>3
<1>3. PICK g : Part(g, w + 1)
  <2>1. w + 1 \in S
    BY <1>2, Induction
  <2> QED
    BY <1>1, <2>1
<1>4. PICK f : f = [m \in 0 .. w |-> g[m]]
  OBVIOUS
<1>5. ASSUME NEW m \in 0 .. w
      PROVE  TreeBody(f, Data, m) = TreeBody(g, Data, m)
  <2>1. Agree(f, g, m)
    BY <1>4 DEF Agree
  <2> QED
    BY <2>1, TreeCongruent
<1>6. f = [m \in 0 .. w |-> TreeBody(f, Data, m)]
  BY <1>3, <1>4, <1>5
<1> QED
  BY <1>6

Trees(Data, h) == CHOOSE f : f = [m \in 0 .. h |-> TreeBody(f, Data, m)]

LEMMA TreeRec ==
  ASSUME NEW Data, NEW h \in Nat
  PROVE  /\ Trees(Data, h) = [m \in 0 .. h |-> TreeBody(Trees(Data, h), Data, m)]
         /\ Tree(Data, h) = Trees(Data, h)[h]
<1>1. PICK f : f = [m \in 0 .. h |-> TreeBody(f, Data, m)]
  BY TreeExists
<1>2. Trees(Data, h) = [m \in 0 .. h |-> TreeBody(Trees(Data, h), Data, m)]
  BY <1>1 DEF Trees
<1>3. Tree(Data, h) = Trees(Data, h)[h]
  BY DEF Tree, Trees, TreeBody
<1> QED
  BY <1>2, <1>3

\* Trees of a height are the same sets, whatever the bound on heights.
LEMMA TreesAgree ==
  ASSUME NEW Data, NEW h \in Nat, NEW i \in 0 .. h
  PROVE  Trees(Data, h)[i] = Tree(Data, i)
<1>1. PICK S : S = {n \in Nat : \A j \in Nat, k \in Nat :
                      n <= j /\ n <= k => Trees(Data, j)[n] = Trees(Data, k)[n]}
  OBVIOUS
<1>2. Inductive(S)
  <2>1. SUFFICES ASSUME NEW n \in Nat, \A m \in 0 .. n - 1 : m \in S,
                        NEW j \in Nat, NEW k \in Nat, n <= j, n <= k
                 PROVE  Trees(Data, j)[n] = Trees(Data, k)[n]
    BY <1>1 DEF Inductive
  <2>2. Agree(Trees(Data, j), Trees(Data, k), n)
    BY <1>1, <2>1 DEF Agree
  <2>3. TreeBody(Trees(Data, j), Data, n) = TreeBody(Trees(Data, k), Data, n)
    BY <2>2, TreeCongruent
  <2>4. Trees(Data, j)[n] = TreeBody(Trees(Data, j), Data, n)
    BY <2>1, TreeRec
  <2>5. Trees(Data, k)[n] = TreeBody(Trees(Data, k), Data, n)
    BY <2>1, TreeRec
  <2> QED
    BY <2>3, <2>4, <2>5
<1>3. i \in S
  BY <1>2, Induction
<1>4. Trees(Data, h)[i] = Trees(Data, i)[i]
  BY <1>1, <1>3
<1> QED
  BY <1>4, TreeRec

LEMMA TreeStep ==
  ASSUME NEW Data
  PROVE  /\ Tree(Data, 0) = [data : Data, refs : {<<>>}]
         /\ \A h \in Nat : Tree(Data, h + 1) = [data : Data, refs : Seq(Tree(Data, h))]
<1>1. Tree(Data, 0) = TreeBody(Trees(Data, 0), Data, 0)
  BY TreeRec
<1>2. ASSUME NEW h \in Nat
      PROVE  Tree(Data, h + 1) = [data : Data, refs : Seq(Tree(Data, h))]
  <2>1. Tree(Data, h + 1) = TreeBody(Trees(Data, h + 1), Data, h + 1)
    BY TreeRec
  <2>2. Trees(Data, h + 1)[h] = Tree(Data, h)
    BY TreesAgree
  <2>3. (h + 1) - 1 = h /\ h + 1 # 0
    OBVIOUS
  <2> QED
    BY <2>1, <2>2, <2>3 DEF TreeBody
<1> QED
  BY <1>1, <1>2 DEF TreeBody

LEMMA SeqMonotonic ==
  ASSUME NEW A, NEW B, A \subseteq B
  PROVE  Seq(A) \subseteq Seq(B)
OBVIOUS

LEMMA RecordsMonotonic ==
  ASSUME NEW Data, NEW A, NEW B, A \subseteq B
  PROVE  [data : Data, refs : A] \subseteq [data : Data, refs : B]
OBVIOUS

\* A tree of a height is one of every greater height.
LEMMA TreeMonotonic ==
  ASSUME NEW Data, NEW i \in Nat, NEW j \in Nat, i <= j
  PROVE  Tree(Data, i) \subseteq Tree(Data, j)
<1>1. PICK S : S = {n \in Nat : Tree(Data, n) \subseteq Tree(Data, n + 1)}
  OBVIOUS
<1>2. Inductive(S)
  <2>1. SUFFICES ASSUME NEW n \in Nat, \A m \in 0 .. n - 1 : m \in S
                 PROVE  Tree(Data, n) \subseteq Tree(Data, n + 1)
    BY <1>1 DEF Inductive
  <2>2. Tree(Data, n + 1) = [data : Data, refs : Seq(Tree(Data, n))]
    BY TreeStep
  <2>3. CASE n = 0
    <3>1. {<<>>} \subseteq Seq(Tree(Data, n))
      OBVIOUS
    <3>2. Tree(Data, n) = [data : Data, refs : {<<>>}]
      BY <2>3, TreeStep
    <3> QED
      BY <2>2, <3>1, <3>2, RecordsMonotonic
  <2>4. CASE n # 0
    <3>1. PICK m \in Nat : n = m + 1
      BY <2>4
    <3>2. Tree(Data, m) \subseteq Tree(Data, n)
      BY <1>1, <2>1, <3>1
    <3>3. Seq(Tree(Data, m)) \subseteq Seq(Tree(Data, n))
      BY <3>2, SeqMonotonic
    <3>4. Tree(Data, n) = [data : Data, refs : Seq(Tree(Data, m))]
      BY <3>1, TreeStep
    <3> QED
      BY <2>2, <3>3, <3>4, RecordsMonotonic
  <2> QED
    BY <2>3, <2>4
<1>3. \A n \in Nat : Tree(Data, n) \subseteq Tree(Data, n + 1)
  BY <1>1, <1>2, Induction
<1>4. PICK R : R = {n \in Nat : i <= n => Tree(Data, i) \subseteq Tree(Data, n)}
  OBVIOUS
<1>5. Inductive(R)
  <2>1. SUFFICES ASSUME NEW n \in Nat, \A m \in 0 .. n - 1 : m \in R, i <= n
                 PROVE  Tree(Data, i) \subseteq Tree(Data, n)
    BY <1>4 DEF Inductive
  <2>2. CASE n = i
    BY <2>2
  <2>3. CASE n # i
    <3>1. PICK m \in Nat : n = m + 1 /\ i <= m
      BY <2>1, <2>3
    <3>2. Tree(Data, i) \subseteq Tree(Data, m)
      BY <1>4, <2>1, <3>1
    <3>3. Tree(Data, m) \subseteq Tree(Data, n)
      BY <1>3, <3>1
    <3> QED
      BY <3>2, <3>3
  <2> QED
    BY <2>2, <2>3
<1>6. j \in R
  BY <1>5, Induction
<1> QED
  BY <1>4, <1>6

-----------------------------------------------------------------------------
\* Keys and the prefixes they share.

KeysOf(w) == [1 .. w -> Bit]

LEMMA MaxOfRange ==
  ASSUME NEW r \in Nat, NEW T \in SUBSET (0 .. r), T # {}
  PROVE  Max(T) \in T /\ \A y \in T : y <= Max(T)
<1>1. PICK R : R = {r - x : x \in T}
  OBVIOUS
<1>2. R \in SUBSET Nat /\ R # {}
  <2>1. \A x \in T : x \in 0 .. r
    OBVIOUS
  <2>2. \A x \in T : r - x \in Nat
    BY <2>1
  <2> QED
    BY <1>1, <2>2
<1>3. PICK z \in R : \A y \in R : z <= y
  BY <1>2, NatMin
<1>4. PICK x \in T : z = r - x
  BY <1>1, <1>3
<1>5. \A y \in T : x >= y
  <2>1. TAKE y \in T
  <2>2. z <= r - y
    BY <1>1, <1>3
  <2>3. x \in Nat /\ y \in Nat
    OBVIOUS
  <2> QED
    BY <1>4, <2>2, <2>3
<1>6. \E u \in T : \A y \in T : u >= y
  BY <1>5
<1> QED
  BY <1>6 DEF Max

LEMMA KeyPart ==
  ASSUME NEW w \in Nat, NEW k \in KeysOf(w), NEW d \in Nat, NEW n \in Nat, d + n <= w
  PROVE  /\ k \in Seq(Bit) /\ Len(k) = w
         /\ SubSeq(k, d + 1, d + n) \in Seq(Bit)
         /\ Len(SubSeq(k, d + 1, d + n)) = n
         /\ \A i \in 1 .. n : SubSeq(k, d + 1, d + n)[i] = k[d + i]
<1>1. k \in Seq(Bit) /\ Len(k) = w
  BY DEF KeysOf
<1>2. SubSeq(k, d + 1, d + n) \in Seq(Bit) /\ Len(SubSeq(k, d + 1, d + n)) = n
  BY <1>1
<1>3. ASSUME NEW i \in 1 .. n PROVE SubSeq(k, d + 1, d + n)[i] = k[d + i]
  <2>1. SubSeq(k, d + 1, d + n)[i] = k[i + (d + 1) - 1]
    BY <1>1
  <2>2. i + (d + 1) - 1 = d + i
    OBVIOUS
  <2> QED
    BY <2>1, <2>2
<1> QED
  BY <1>1, <1>2, <1>3

Share(k, l, d, n) == SubSeq(k, d + 1, d + n) = SubSeq(l, d + 1, d + n)

LEMMA ShareBits ==
  ASSUME NEW w \in Nat, NEW k \in KeysOf(w), NEW l \in KeysOf(w),
         NEW d \in Nat, NEW n \in Nat, d + n <= w
  PROVE  Share(k, l, d, n) <=> \A i \in 1 .. n : k[d + i] = l[d + i]
<1>1. PICK x \in Seq(Bit) : /\ x = SubSeq(k, d + 1, d + n) /\ Len(x) = n
                            /\ \A i \in 1 .. n : x[i] = k[d + i]
  BY KeyPart
<1>2. PICK y \in Seq(Bit) : /\ y = SubSeq(l, d + 1, d + n) /\ Len(y) = n
                            /\ \A i \in 1 .. n : y[i] = l[d + i]
  BY KeyPart
<1>3. x = y => \A i \in 1 .. n : k[d + i] = l[d + i]
  BY <1>1, <1>2
<1>4. ASSUME \A i \in 1 .. n : k[d + i] = l[d + i] PROVE x = y
  <2>1. \A i \in 1 .. Len(x) : x[i] = y[i]
    BY <1>1, <1>2, <1>4
  <2> QED
    BY <1>1, <1>2, <2>1, SameBits
<1> QED
  BY <1>1, <1>2, <1>3, <1>4 DEF Share

\* common_prefix_len: all keys share that many bits, and no more unless none
\* are left.
LEMMA CommonPrefix ==
  ASSUME NEW w \in Nat, NEW r \in 0 .. w, NEW keys \in SUBSET KeysOf(w)
  PROVE  LET d == w - r
             n == common_prefix_len(keys, d, r)
         IN  /\ n \in 0 .. r
             /\ \A k, l \in keys : \A i \in 1 .. n : k[d + i] = l[d + i]
             /\ n < r => \E k, l \in keys : k[d + n + 1] # l[d + n + 1]
<1>1. PICK d \in Nat : d = w - r /\ d + r = w
  OBVIOUS
<1>2. PICK T : T = {m \in 0 .. r : \A k, l \in keys : Share(k, l, d, m)}
  OBVIOUS
<1>3. \A m \in 0 .. r : d + m <= w /\ m \in Nat
  BY <1>1
<1>4. ASSUME NEW m \in 0 .. r
      PROVE  m \in T <=> \A k, l \in keys : \A i \in 1 .. m : k[d + i] = l[d + i]
  <2>1. d + m <= w /\ m \in Nat
    BY <1>3
  <2>2. ASSUME NEW k \in keys, NEW l \in keys
        PROVE  Share(k, l, d, m) <=> \A i \in 1 .. m : k[d + i] = l[d + i]
    BY <2>1, ShareBits
  <2> QED
    BY <1>2, <2>2
<1>5. T \in SUBSET (0 .. r) /\ 0 \in T
  BY <1>2, <1>4
<1>6. PICK n : n = common_prefix_len(keys, d, r)
  OBVIOUS
<1>7. n = Max(T)
  BY <1>2, <1>6 DEF common_prefix_len, Share
<1>8. n \in T /\ \A y \in T : y <= n
  BY <1>5, <1>7, MaxOfRange
<1>9. n \in 0 .. r /\ \A k, l \in keys : \A i \in 1 .. n : k[d + i] = l[d + i]
  BY <1>2, <1>4, <1>8
<1>10. ASSUME n < r, \A k, l \in keys : k[d + n + 1] = l[d + n + 1] PROVE FALSE
  <2>1. n + 1 \in 0 .. r /\ n \in Nat
    BY <1>9, <1>10
  <2>2. ASSUME NEW k \in keys, NEW l \in keys, NEW i \in 1 .. n + 1
        PROVE  k[d + i] = l[d + i]
    <3>1. CASE i = n + 1
      <4>1. d + i = d + n + 1
        BY <2>1, <3>1
      <4> QED
        BY <1>10, <4>1
    <3>2. CASE i \in 1 .. n
      BY <1>9, <3>2
    <3> QED
      BY <2>1, <3>1, <3>2
  <2>3. n + 1 \in T
    BY <1>4, <2>1, <2>2
  <2>4. n + 1 <= n
    BY <1>8, <2>3
  <2> QED
    BY <2>1, <2>4
<1> QED
  BY <1>1, <1>6, <1>9, <1>10

-----------------------------------------------------------------------------
\* The recursion of build_edge.

EdgeBody(g, map, w, m) ==
  [keys \in SUBSET DOMAIN map |-> EdgeCell(g, map, w, m, keys)]

LEMMA EdgeCongruent ==
  ASSUME NEW map, NEW w \in Nat, DOMAIN map \subseteq KeysOf(w), NEW m \in 0 .. w,
         NEW g, NEW h, Agree(g, h, m)
  PROVE  EdgeBody(g, map, w, m) = EdgeBody(h, map, w, m)
<1>1. ASSUME NEW keys \in SUBSET DOMAIN map
      PROVE  EdgeCell(g, map, w, m, keys) = EdgeCell(h, map, w, m, keys)
  <2>1. PICK n : n = common_prefix_len(keys, w - m, m)
    OBVIOUS
  <2>2. n \in 0 .. m
    BY <2>1, CommonPrefix
  <2>3. n # m => g[m - n - 1] = h[m - n - 1]
    BY <2>2 DEF Agree
  <2> QED
    BY <2>1, <2>3 DEF EdgeCell
<1> QED
  BY <1>1 DEF EdgeBody

LEMMA EdgeExists ==
  ASSUME NEW map, NEW w \in Nat, DOMAIN map \subseteq KeysOf(w)
  PROVE  \E f : f = [m \in 0 .. w |-> EdgeBody(f, map, w, m)]
<1> DEFINE Part(g, n) == \A m \in 0 .. n - 1 : g[m] = EdgeBody(g, map, w, m)
<1>1. PICK S : S = {n \in Nat : n <= w + 1 => \E g : Part(g, n)}
  OBVIOUS
<1>2. Inductive(S)
  <2>1. SUFFICES ASSUME NEW n \in Nat, \A m \in 0 .. n - 1 : m \in S, n <= w + 1
                 PROVE  \E g : Part(g, n)
    BY <1>1 DEF Inductive
  <2>2. CASE n = 0
    BY <2>2
  <2>3. CASE n # 0
    <3>1. PICK g : Part(g, n - 1)
      BY <1>1, <2>1, <2>3
    <3>2. PICK h : h = [m \in 0 .. n - 1 |-> IF m < n - 1 THEN g[m] ELSE EdgeBody(g, map, w, m)]
      OBVIOUS
    <3>3. ASSUME NEW m \in 0 .. n - 1
          PROVE  EdgeBody(h, map, w, m) = EdgeBody(g, map, w, m)
      <4>1. m \in 0 .. w /\ Agree(h, g, m)
        BY <2>1, <3>2 DEF Agree
      <4> QED
        BY <4>1, EdgeCongruent
    <3>4. Part(h, n)
      BY <3>1, <3>2, <3>3
    <3> QED
      BY <3>4
  <2> QED
    BY <2>2, <2>3
<1>3. PICK g : Part(g, w + 1)
  <2>1. w + 1 \in S
    BY <1>2, Induction
  <2> QED
    BY <1>1, <2>1
<1>4. PICK f : f = [m \in 0 .. w |-> g[m]]
  OBVIOUS
<1>5. ASSUME NEW m \in 0 .. w
      PROVE  EdgeBody(f, map, w, m) = EdgeBody(g, map, w, m)
  <2>1. Agree(f, g, m)
    BY <1>4 DEF Agree
  <2> QED
    BY <2>1, EdgeCongruent
<1>6. f = [m \in 0 .. w |-> EdgeBody(f, map, w, m)]
  BY <1>3, <1>4, <1>5
<1> QED
  BY <1>6

LEMMA EdgeRec ==
  ASSUME NEW map, NEW w \in Nat, DOMAIN map \subseteq KeysOf(w),
         NEW r \in 0 .. w, NEW keys \in SUBSET DOMAIN map
  PROVE  build_edge(map, w)[r][keys]
           = EdgeCell(build_edge(map, w), map, w, r, keys)
<1>1. PICK f : f = [m \in 0 .. w |-> EdgeBody(f, map, w, m)]
  BY EdgeExists
<1>2. build_edge(map, w) = CHOOSE g : g = [m \in 0 .. w |-> EdgeBody(g, map, w, m)]
  BY DEF build_edge, EdgeBody
<1>3. build_edge(map, w) = [m \in 0 .. w |-> EdgeBody(build_edge(map, w), map, w, m)]
  BY <1>1, <1>2
<1>4. build_edge(map, w)[r] = EdgeBody(build_edge(map, w), map, w, r)
  BY <1>3
<1> QED
  BY <1>4 DEF EdgeBody

-----------------------------------------------------------------------------
\* The shape of the edge over some keys.

LEMMA BranchFacts ==
  ASSUME NEW w \in Nat, NEW r \in 0 .. w, NEW keys \in SUBSET KeysOf(w),
         NEW n \in 0 .. r, n = common_prefix_len(keys, w - r, r), n < r
  PROVE  /\ Branch(keys, w - r + n, 0) # {}
         /\ Branch(keys, w - r + n, 1) # {}
         /\ keys = Branch(keys, w - r + n, 0) \cup Branch(keys, w - r + n, 1)
         /\ Branch(keys, w - r + n, 0) \cap Branch(keys, w - r + n, 1) = {}
<1>1. PICK j : j = w - r + n + 1
  OBVIOUS
<1>2. j \in 1 .. w
  BY <1>1
<1>3. \A k \in keys : k[j] \in {0, 1}
  BY <1>2 DEF KeysOf, Bit
<1>4. PICK k \in keys, l \in keys : k[j] # l[j]
  BY <1>1, CommonPrefix
<1>5. \A b : Branch(keys, w - r + n, b) = {x \in keys : x[j] = b}
  BY <1>1 DEF Branch
<1> QED
  BY <1>3, <1>4, <1>5

\* The label of the edge over the keys, and one of the keys.
Labels(w, r, keys, n, L, k) ==
  /\ n = common_prefix_len(keys, w - r, r)
  /\ n \in 0 .. r
  /\ k \in keys
  /\ k = CHOOSE x \in keys : TRUE
  /\ L = collect_key_bits(keys, w - r, n)
  /\ L \in Seq(Bit)
  /\ Len(L) = n
  /\ \A x \in keys : \A i \in 1 .. n : x[w - r + i] = L[i]

LEMMA LabelFacts ==
  ASSUME NEW w \in Nat, NEW r \in 0 .. w, NEW keys \in SUBSET KeysOf(w), keys # {}
  PROVE  \E n, L, k : Labels(w, r, keys, n, L, k)
<1>1. PICK n : n = common_prefix_len(keys, w - r, r)
  OBVIOUS
<1>2. n \in 0 .. r /\ \A k, l \in keys : \A i \in 1 .. n : k[w - r + i] = l[w - r + i]
  BY <1>1, CommonPrefix
<1>3. PICK k \in keys : k = CHOOSE x \in keys : TRUE
  OBVIOUS
<1>4. PICK L : L = SubSeq(k, (w - r) + 1, (w - r) + n)
  OBVIOUS
<1>5. w - r \in Nat /\ n \in Nat /\ (w - r) + n <= w /\ k \in KeysOf(w)
  BY <1>2
<1>6. L \in Seq(Bit) /\ Len(L) = n /\ \A i \in 1 .. n : L[i] = k[(w - r) + i]
  <2>1. PICK d \in Nat : d = w - r
    BY <1>5
  <2>2. d + n <= w /\ L = SubSeq(k, d + 1, d + n)
    BY <1>4, <1>5, <2>1
  <2>3. L \in Seq(Bit) /\ Len(L) = n /\ \A i \in 1 .. n : L[i] = k[d + i]
    <3>1. n \in Nat /\ k \in KeysOf(w) /\ d + n <= w
      BY <1>5, <2>2
    <3>2. /\ SubSeq(k, d + 1, d + n) \in Seq(Bit)
          /\ Len(SubSeq(k, d + 1, d + n)) = n
          /\ \A i \in 1 .. n : SubSeq(k, d + 1, d + n)[i] = k[d + i]
      BY <3>1, KeyPart
    <3> QED
      BY <2>2, <3>2
  <2> QED
    BY <2>1, <2>3
<1>7. L = collect_key_bits(keys, w - r, n)
  BY <1>3, <1>4 DEF collect_key_bits
<1>8. \A x \in keys : \A i \in 1 .. n : x[w - r + i] = L[i]
  BY <1>2, <1>6
<1>9. Labels(w, r, keys, n, L, k)
  BY <1>1, <1>2, <1>3, <1>6, <1>7, <1>8 DEF Labels
<1> QED
  BY <1>9

\* All keys start with the d bits p.
Under(keys, p, d) == Len(p) = d /\ \A x \in keys : \A i \in 1 .. d : x[i] = p[i]

\* Keys that share their first bits p and the label L after them.
LEMMA LeafKey ==
  ASSUME NEW w \in Nat, NEW r \in 0 .. w, NEW keys \in SUBSET KeysOf(w), keys # {},
         NEW L, NEW k, Labels(w, r, keys, r, L, k),
         NEW p \in Seq(Bit), Under(keys, p, w - r)
  PROVE  keys = {k} /\ p \o L = k
<1>0. Len(p) = w - r /\ \A x \in keys : \A i \in 1 .. w - r : x[i] = p[i]
  BY DEF Under
<1>1. L \in Seq(Bit) /\ Len(L) = r /\ k \in keys
  BY DEF Labels
<1>2. p \o L \in Seq(Bit) /\ Len(p \o L) = w
  BY <1>0, <1>1, CatType
<1>3. ASSUME NEW x \in keys PROVE x = p \o L
  <2>1. x \in Seq(Bit) /\ Len(x) = w
    BY DEF KeysOf
  <2>2. ASSUME NEW i \in 1 .. w PROVE x[i] = (p \o L)[i]
    <3>1. CASE i <= w - r
      <4>1. i \in 1 .. Len(p)
        BY <1>0, <3>1
      <4>2. (p \o L)[i] = p[i]
        BY <1>1, <4>1, CatIndex
      <4> QED
        BY <1>0, <3>1, <4>2
    <3>2. CASE i > w - r
      <4>1. PICK j \in 1 .. r : i = (w - r) + j
        BY <3>2
      <4>2. x[(w - r) + j] = L[j]
        BY DEF Labels
      <4>3. (p \o L)[Len(p) + j] = L[j]
        BY <1>1, CatIndex
      <4> QED
        BY <1>0, <4>1, <4>2, <4>3
    <3>3. i <= w - r \/ i > w - r
      OBVIOUS
    <3> QED
      BY <3>1, <3>2, <3>3
  <2> QED
    BY <1>2, <2>1, <2>2, SameBits
<1> QED
  BY <1>1, <1>3

LEMMA ForkKeys ==
  ASSUME NEW w \in Nat, NEW r \in 0 .. w, NEW keys \in SUBSET KeysOf(w), keys # {},
         NEW n, n # r, NEW L, NEW k, Labels(w, r, keys, n, L, k), NEW b \in Bit,
         NEW p \in Seq(Bit), Under(keys, p, w - r)
  PROVE  LET q == Append(p \o L, b)
             s == r - n - 1
         IN  /\ s \in 0 .. r - 1
             /\ q \in Seq(Bit)
             /\ Under(Branch(keys, w - r + n, b), q, w - s)
<1>0. Len(p) = w - r /\ \A x \in keys : \A i \in 1 .. w - r : x[i] = p[i]
  BY DEF Under
<1>1. L \in Seq(Bit) /\ Len(L) = n /\ k \in keys /\ n \in 0 .. r
  BY DEF Labels
<1>2. p \o L \in Seq(Bit) /\ Len(p \o L) = w - r + n
  BY <1>0, <1>1, CatType
<1>3. PICK s : s = r - n - 1
  OBVIOUS
<1>4. s \in 0 .. r - 1 /\ w - s = (w - r + n) + 1
  BY <1>1, <1>3
<1>5. PICK q : q = Append(p \o L, b)
  OBVIOUS
<1>6. /\ q \in Seq(Bit) /\ Len(q) = (w - r + n) + 1
      /\ q[(w - r + n) + 1] = b
      /\ \A i \in 1 .. w - r + n : q[i] = (p \o L)[i]
  BY <1>2, <1>5
<1>7. ASSUME NEW x \in Branch(keys, w - r + n, b), NEW i \in 1 .. (w - r + n) + 1
      PROVE  x[i] = q[i]
  <2>1. x \in keys /\ x[(w - r + n) + 1] = b
    BY DEF Branch
  <2>2. CASE i <= w - r
    <3>1. i \in 1 .. Len(p) /\ i \in 1 .. w - r + n
      BY <1>0, <1>1, <2>2
    <3>2. (p \o L)[i] = p[i]
      BY <1>1, <3>1, CatIndex
    <3> QED
      BY <1>0, <1>6, <2>1, <2>2, <3>1, <3>2
  <2>3. CASE i > w - r /\ i <= w - r + n
    <3>1. PICK j \in 1 .. n : i = (w - r) + j
      BY <1>1, <2>3
    <3>2. x[(w - r) + j] = L[j]
      BY <2>1 DEF Labels
    <3>3. (p \o L)[Len(p) + j] = L[j]
      BY <1>1, CatIndex
    <3>4. i \in 1 .. w - r + n
      BY <2>3
    <3>5. q[i] = (p \o L)[i]
      BY <1>6, <3>4
    <3> QED
      BY <1>0, <3>1, <3>2, <3>3, <3>5
  <2>4. CASE i = (w - r + n) + 1
    BY <1>6, <2>1, <2>4
  <2> QED
    BY <1>1, <2>2, <2>3, <2>4
<1> QED
  BY <1>3, <1>4, <1>5, <1>6, <1>7 DEF Under

-----------------------------------------------------------------------------
\* What build_edge builds.

\* A map whose keys have w bits and whose values are bits.
KeyMap(map, w) ==
  /\ DOMAIN map \subseteq KeysOf(w)
  /\ \A k \in DOMAIN map : map[k] \in Bit

LeafCell(L, r, v) == [data |-> canonical_label(L, r) \o <<v>>, refs |-> <<>>]
ForkCell(L, r, x, y) == [data |-> canonical_label(L, r), refs |-> <<x, y>>]

LEMMA EdgeLeaf ==
  ASSUME NEW map, NEW w \in Nat, KeyMap(map, w), NEW r \in 0 .. w,
         NEW keys \in SUBSET DOMAIN map, NEW L, NEW k, Labels(w, r, keys, r, L, k)
  PROVE  build_edge(map, w)[r][keys] = LeafCell(L, r, map[k])
<1>1. build_edge(map, w)[r][keys] = EdgeCell(build_edge(map, w), map, w, r, keys)
  BY EdgeRec DEF KeyMap
<1>2. /\ r = common_prefix_len(keys, w - r, r)
      /\ L = collect_key_bits(keys, w - r, r)
      /\ k = CHOOSE x \in keys : TRUE
  BY DEF Labels
<1> QED
  BY <1>1, <1>2 DEF EdgeCell, LeafCell

LEMMA EdgeFork ==
  ASSUME NEW map, NEW w \in Nat, KeyMap(map, w), NEW r \in 0 .. w,
         NEW keys \in SUBSET DOMAIN map, NEW n, NEW L, NEW k, Labels(w, r, keys, n, L, k),
         n # r
  PROVE  build_edge(map, w)[r][keys] =
           ForkCell(L, r, build_edge(map, w)[r - n - 1][Branch(keys, w - r + n, 0)],
                          build_edge(map, w)[r - n - 1][Branch(keys, w - r + n, 1)])
<1>1. build_edge(map, w)[r][keys] = EdgeCell(build_edge(map, w), map, w, r, keys)
  BY EdgeRec DEF KeyMap
<1>2. /\ n = common_prefix_len(keys, w - r, r)
      /\ L = collect_key_bits(keys, w - r, n)
  BY DEF Labels
<1> QED
  BY <1>1, <1>2 DEF EdgeCell, ForkCell

LEMMA CellStep ==
  ASSUME NEW r \in Nat, NEW c \in Seq(Bit)
  PROVE  /\ [data |-> c, refs |-> <<>>] \in Cell(r)
         /\ r # 0 => \A x, y \in Cell(r - 1) : [data |-> c, refs |-> <<x, y>>] \in Cell(r)
<1>1. [data |-> c, refs |-> <<>>] \in Cell(0)
  BY TreeStep DEF Cell
<1>2. Cell(0) \subseteq Cell(r)
  BY TreeMonotonic DEF Cell
<1>3. ASSUME r # 0, NEW x \in Cell(r - 1), NEW y \in Cell(r - 1)
      PROVE  [data |-> c, refs |-> <<x, y>>] \in Cell(r)
  <2>1. PICK i \in Nat : i = r - 1 /\ r = i + 1
    BY <1>3
  <2>2. Cell(r) = [data : Seq(Bit), refs : Seq(Cell(i))]
    BY <2>1, TreeStep DEF Cell
  <2>3. <<x, y>> \in Seq(Cell(i))
    BY <1>3, <2>1
  <2> QED
    BY <2>2, <2>3
<1> QED
  BY <1>1, <1>2, <1>3

LEMMA CellData ==
  ASSUME NEW h \in Nat, NEW c \in Cell(h)
  PROVE  c.data \in Seq(Bit)
<1>1. CASE h = 0
  <2>1. Cell(0) = [data : Seq(Bit), refs : {<<>>}]
    BY TreeStep DEF Cell
  <2> QED
    BY <1>1, <2>1
<1>2. CASE h # 0
  <2>1. PICK i \in Nat : h = i + 1
    BY <1>2
  <2>2. Cell(h) = [data : Seq(Bit), refs : Seq(Tree(Seq(Bit), i))]
    BY <2>1, TreeStep DEF Cell
  <2> QED
    BY <2>2
<1> QED
  BY <1>1, <1>2

LEMMA EdgeType ==
  ASSUME NEW map, NEW w \in Nat, KeyMap(map, w), NEW r \in 0 .. w,
         NEW keys \in SUBSET DOMAIN map, keys # {}
  PROVE  build_edge(map, w)[r][keys] \in Cell(r)
<1> DEFINE Typed(s) == \A K \in SUBSET DOMAIN map :
                         K # {} => build_edge(map, w)[s][K] \in Cell(s)
<1>1. PICK S : S = {s \in Nat : s <= w => Typed(s)}
  OBVIOUS
<1>2. Inductive(S)
  <2>1. SUFFICES ASSUME NEW s \in Nat, \A m \in 0 .. s - 1 : m \in S, s <= w,
                        NEW K \in SUBSET DOMAIN map, K # {}
                 PROVE  build_edge(map, w)[s][K] \in Cell(s)
    BY <1>1 DEF Inductive
  <2>2. s \in 0 .. w /\ K \in SUBSET KeysOf(w)
    BY <2>1 DEF KeyMap
  <2>3. PICK n, L, k : Labels(w, s, K, n, L, k)
    BY <2>1, <2>2, LabelFacts
  <2>4. n \in 0 .. s /\ L \in Seq(Bit) /\ Len(L) = n /\ k \in K /\ n = common_prefix_len(K, w - s, s)
    BY <2>3 DEF Labels
  <2>5. PICK c \in Seq(Bit) : c = canonical_label(L, s)
    BY <2>4, CanonicalRead
  <2>6. CASE n = s
    <3>1. build_edge(map, w)[s][K] = LeafCell(L, s, map[k])
      <4>1. Labels(w, s, K, s, L, k)
        BY <2>3, <2>6
      <4> QED
        BY <2>2, <4>1, EdgeLeaf
    <3>2. map[k] \in Bit
      BY <2>1, <2>4 DEF KeyMap
    <3>3. c \o <<map[k]>> \in Seq(Bit)
      BY <3>2
    <3> QED
      BY <2>5, <3>1, <3>3, CellStep DEF LeafCell
  <2>7. CASE n # s
    <3>1. PICK i \in Nat : i = s - n - 1 /\ i <= s - 1 /\ i <= w /\ i \in 0 .. s - 1
      BY <2>1, <2>4, <2>7
    <3>2. PICK A : A = Branch(K, w - s + n, 0)
      OBVIOUS
    <3>3. PICK B : B = Branch(K, w - s + n, 1)
      OBVIOUS
    <3>4. build_edge(map, w)[s][K]
            = ForkCell(L, s, build_edge(map, w)[i][A], build_edge(map, w)[i][B])
      BY <2>2, <2>3, <2>7, <3>1, <3>2, <3>3, EdgeFork
    <3>5. A # {} /\ B # {} /\ A \subseteq K /\ B \subseteq K
      <4>1. n < s
        BY <2>4, <2>7
      <4> QED
        BY <2>2, <2>4, <3>2, <3>3, <4>1, BranchFacts
    <3>6. Typed(i)
      BY <1>1, <2>1, <3>1
    <3>7. build_edge(map, w)[i][A] \in Cell(i) /\ build_edge(map, w)[i][B] \in Cell(i)
      BY <3>5, <3>6
    <3>8. Cell(i) \subseteq Cell(s - 1)
      BY <2>7, <3>1, TreeMonotonic DEF Cell
    <3>9. s # 0
      BY <3>1
    <3>10. /\ build_edge(map, w)[i][A] \in Cell(s - 1)
           /\ build_edge(map, w)[i][B] \in Cell(s - 1)
      BY <3>7, <3>8
    <3> QED
      BY <2>5, <3>4, <3>9, <3>10, CellStep DEF ForkCell
  <2> QED
    BY <2>6, <2>7
<1>3. r \in S
  BY <1>2, Induction
<1> QED
  BY <1>1, <1>3

-----------------------------------------------------------------------------
\* The recursion of parse_edge.

Merged(A, B) == {Join(a, b) : a \in A, b \in B}

LabelMaps(read, remaining, cell, prefix, l) ==
  LET key == prefix \o l.label
      rest == remaining - Len(l.label)
  IN  IF rest = 0
      THEN IF l.rest = <<>> THEN {} ELSE {Insert(EmptyMap, key, Head(l.rest))}
      ELSE IF Len(cell.refs) < 2 THEN {}
           ELSE Merged(read[rest - 1][cell.refs[1]][Append(key, 0)],
                       read[rest - 1][cell.refs[2]][Append(key, 1)])

ParseBody(g, w, m) ==
  [cell \in Cell(w) |-> [prefix \in Seq(Bit) |-> EdgeMaps(g, m, cell, prefix)]]

LEMMA ParseCongruent ==
  ASSUME NEW w \in Nat, NEW m \in 0 .. w, NEW g, NEW h, Agree(g, h, m)
  PROVE  ParseBody(g, w, m) = ParseBody(h, w, m)
<1>1. ASSUME NEW cell \in Cell(w), NEW prefix \in Seq(Bit)
      PROVE  EdgeMaps(g, m, cell, prefix) = EdgeMaps(h, m, cell, prefix)
  <2>1. ASSUME NEW l \in load_label(cell.data, m)
        PROVE  LabelMaps(g, m, cell, prefix, l) = LabelMaps(h, m, cell, prefix, l)
    <3>1. Len(l.label) \in Nat /\ Len(l.label) <= m
      BY CellData, LoadBound
    <3>2. PICK rest : rest = m - Len(l.label)
      OBVIOUS
    <3>3. rest # 0 => g[rest - 1] = h[rest - 1]
      BY <3>1, <3>2 DEF Agree
    <3> QED
      BY <3>2, <3>3 DEF LabelMaps
  <2>2. \A f : EdgeMaps(f, m, cell, prefix)
                 = UNION {LabelMaps(f, m, cell, prefix, l) : l \in load_label(cell.data, m)}
    BY DEF EdgeMaps, LabelMaps, Merged
  <2> QED
    BY <2>1, <2>2
<1> QED
  BY <1>1 DEF ParseBody

LEMMA ParseExists ==
  ASSUME NEW w \in Nat
  PROVE  \E f : f = [m \in 0 .. w |-> ParseBody(f, w, m)]
<1> DEFINE Part(g, n) == \A m \in 0 .. n - 1 : g[m] = ParseBody(g, w, m)
<1>1. PICK S : S = {n \in Nat : n <= w + 1 => \E g : Part(g, n)}
  OBVIOUS
<1>2. Inductive(S)
  <2>1. SUFFICES ASSUME NEW n \in Nat, \A m \in 0 .. n - 1 : m \in S, n <= w + 1
                 PROVE  \E g : Part(g, n)
    BY <1>1 DEF Inductive
  <2>2. CASE n = 0
    BY <2>2
  <2>3. CASE n # 0
    <3>1. PICK g : Part(g, n - 1)
      BY <1>1, <2>1, <2>3
    <3>2. PICK h : h = [m \in 0 .. n - 1 |-> IF m < n - 1 THEN g[m] ELSE ParseBody(g, w, m)]
      OBVIOUS
    <3>3. ASSUME NEW m \in 0 .. n - 1
          PROVE  ParseBody(h, w, m) = ParseBody(g, w, m)
      <4>1. m \in 0 .. w /\ Agree(h, g, m)
        BY <2>1, <3>2 DEF Agree
      <4> QED
        BY <4>1, ParseCongruent
    <3>4. Part(h, n)
      BY <3>1, <3>2, <3>3
    <3> QED
      BY <3>4
  <2> QED
    BY <2>2, <2>3
<1>3. PICK g : Part(g, w + 1)
  <2>1. w + 1 \in S
    BY <1>2, Induction
  <2> QED
    BY <1>1, <2>1
<1>4. PICK f : f = [m \in 0 .. w |-> g[m]]
  OBVIOUS
<1>5. ASSUME NEW m \in 0 .. w
      PROVE  ParseBody(f, w, m) = ParseBody(g, w, m)
  <2>1. Agree(f, g, m)
    BY <1>4 DEF Agree
  <2> QED
    BY <2>1, ParseCongruent
<1>6. f = [m \in 0 .. w |-> ParseBody(f, w, m)]
  BY <1>3, <1>4, <1>5
<1> QED
  BY <1>6

LEMMA ParseRec ==
  ASSUME NEW w \in Nat, NEW r \in 0 .. w, NEW cell \in Cell(w), NEW prefix \in Seq(Bit)
  PROVE  parse_edge(w)[r][cell][prefix] = EdgeMaps(parse_edge(w), r, cell, prefix)
<1>1. PICK f : f = [m \in 0 .. w |-> ParseBody(f, w, m)]
  BY ParseExists
<1>2. parse_edge(w) = CHOOSE g : g = [m \in 0 .. w |-> ParseBody(g, w, m)]
  BY DEF parse_edge, ParseBody
<1>3. parse_edge(w) = [m \in 0 .. w |-> ParseBody(parse_edge(w), w, m)]
  BY <1>1, <1>2
<1>4. parse_edge(w)[r] = ParseBody(parse_edge(w), w, r)
  BY <1>3
<1> QED
  BY <1>4 DEF ParseBody

\* When there is one way to read the label, there is one way to go on.
LEMMA ParseLabel ==
  ASSUME NEW w \in Nat, NEW r \in 0 .. w, NEW cell \in Cell(w), NEW prefix \in Seq(Bit),
         NEW l, load_label(cell.data, r) = {l}
  PROVE  parse_edge(w)[r][cell][prefix] = LabelMaps(parse_edge(w), r, cell, prefix, l)
<1>1. parse_edge(w)[r][cell][prefix] = EdgeMaps(parse_edge(w), r, cell, prefix)
  BY ParseRec
<1>2. EdgeMaps(parse_edge(w), r, cell, prefix)
        = UNION {LabelMaps(parse_edge(w), r, cell, prefix, x) : x \in load_label(cell.data, r)}
  BY DEF EdgeMaps, LabelMaps, Merged
<1> QED
  BY <1>1, <1>2

-----------------------------------------------------------------------------
\* parse_edge reads back what build_edge built.

SubMap(map, keys) == [k \in keys |-> map[k]]

LeafLabel(l, L, v) == l.label = L /\ l.rest = <<v>>
LeafReads(map, k, read, r, cell, p, l) == LabelMaps(read, r, cell, p, l) = {SubMap(map, {k})}

LEMMA LeafMap ==
  ASSUME NEW map, NEW k, NEW read, NEW r \in Nat, NEW cell, NEW p, NEW L \in Seq(Bit),
         Len(L) = r, p \o L = k, NEW l, LeafLabel(l, L, map[k])
  PROVE  LeafReads(map, k, read, r, cell, p, l)
<1>1. l.label = L /\ l.rest = <<map[k]>>
  BY DEF LeafLabel
<1>2. r - Len(l.label) = 0 /\ l.rest # <<>> /\ Head(l.rest) = map[k]
  BY <1>1
<1>3. LabelMaps(read, r, cell, p, l) = {Insert(EmptyMap, k, map[k])}
  BY <1>1, <1>2 DEF LabelMaps
<1>4. Insert(EmptyMap, k, map[k]) = SubMap(map, {k})
  BY DEF Insert, EmptyMap, SubMap
<1> QED
  BY <1>3, <1>4 DEF LeafReads

LEMMA ForkMap ==
  ASSUME NEW map, NEW A, NEW B, A \cap B = {}
  PROVE  Merged({SubMap(map, A)}, {SubMap(map, B)}) = {SubMap(map, A \cup B)}
<1>1. Join(SubMap(map, A), SubMap(map, B)) = SubMap(map, A \cup B)
  BY DEF Join, SubMap
<1> QED
  BY <1>1 DEF Merged

LEMMA CatEmpty ==
  ASSUME NEW s \in Seq(Bit)
  PROVE  s \o <<>> = s
OBVIOUS

ReadBack(map, w, r, keys, p) ==
  parse_edge(w)[r][build_edge(map, w)[r][keys]][p] = {SubMap(map, keys)}

LEMMA EdgeReadBack ==
  ASSUME NEW map, NEW w \in Nat, KeyMap(map, w), NEW r \in 0 .. w,
         NEW keys \in SUBSET DOMAIN map, keys # {}, NEW p \in Seq(Bit), Under(keys, p, w - r)
  PROVE  ReadBack(map, w, r, keys, p)
<1> DEFINE Read(s) == \A K \in SUBSET DOMAIN map : \A q \in Seq(Bit) :
                        K # {} /\ Under(K, q, w - s) =>
                          ReadBack(map, w, s, K, q)
<1>1. PICK S : S = {s \in Nat : s <= w => Read(s)}
  OBVIOUS
<1>2. Inductive(S)
  <2>1. SUFFICES ASSUME NEW s \in Nat, \A m \in 0 .. s - 1 : m \in S, s <= w,
                        NEW K \in SUBSET DOMAIN map, K # {},
                        NEW q \in Seq(Bit), Under(K, q, w - s)
                 PROVE  ReadBack(map, w, s, K, q)
    <3>1. SUFFICES ASSUME NEW s \in Nat, \A m \in 0 .. s - 1 : m \in S, s <= w
                   PROVE  Read(s)
      BY <1>1 DEF Inductive
    <3> QED
      BY <3>1
  <2>2. s \in 0 .. w /\ K \in SUBSET KeysOf(w)
    BY <2>1 DEF KeyMap
  <2>3. PICK n, L, k : Labels(w, s, K, n, L, k)
    BY <2>1, <2>2, LabelFacts
  <2>4. n \in 0 .. s /\ L \in Seq(Bit) /\ Len(L) = n /\ k \in K /\ n = common_prefix_len(K, w - s, s)
    BY <2>3 DEF Labels
  <2>5. PICK c : c = build_edge(map, w)[s][K]
    OBVIOUS
  <2>6. c \in Cell(w)
    <3>1. c \in Cell(s)
      BY <2>1, <2>2, <2>5, EdgeType
    <3>2. Cell(s) \subseteq Cell(w)
      BY <2>1, TreeMonotonic DEF Cell
    <3> QED
      BY <3>1, <3>2
  <2>7. /\ canonical_label(L, s) \in Seq(Bit)
        /\ \A rest \in Seq(Bit) :
             load_label(canonical_label(L, s) \o rest, s) = {[label |-> L, rest |-> rest]}
    BY <2>4, CanonicalRead
  <2>8. 0 \in Bit /\ 1 \in Bit
    BY DEF Bit
  <2>9. CASE n = s
    <3>1. Labels(w, s, K, s, L, k)
      BY <2>3, <2>9
    <3>2. c = LeafCell(L, s, map[k])
      BY <2>2, <2>5, <3>1, EdgeLeaf
    <3>3. <<map[k]>> \in Seq(Bit)
      BY <2>1, <2>4 DEF KeyMap
    <3>4. PICK l : l = [label |-> L, rest |-> <<map[k]>>]
      OBVIOUS
    <3>5. c.data = canonical_label(L, s) \o <<map[k]>>
      BY <3>2 DEF LeafCell
    <3>6. load_label(c.data, s) = {l}
      BY <2>7, <3>3, <3>4, <3>5
    <3>7. parse_edge(w)[s][c][q] = LabelMaps(parse_edge(w), s, c, q, l)
      BY <2>2, <2>6, <3>6, ParseLabel
    <3>8. K = {k} /\ q \o L = k
      BY <2>1, <2>2, <3>1, LeafKey
    <3>9. LabelMaps(parse_edge(w), s, c, q, l) = {SubMap(map, {k})}
      <4>1. LeafLabel(l, L, map[k])
        BY <3>4 DEF LeafLabel
      <4>2. Len(L) = s
        BY <2>4, <2>9
      <4>3. q \o L = k /\ L \in Seq(Bit)
        BY <2>4, <3>8
      <4>4. LeafReads(map, k, parse_edge(w), s, c, q, l)
        BY <4>1, <4>2, <4>3, LeafMap
      <4> QED
        BY <4>4 DEF LeafReads
    <3> QED
      BY <2>5, <3>7, <3>8, <3>9 DEF ReadBack
  <2>10. CASE n # s
    <3>1. PICK i \in Nat : i = s - n - 1 /\ i <= w /\ i \in 0 .. s - 1
      BY <2>1, <2>4, <2>10
    <3>2. PICK A : A = Branch(K, w - s + n, 0)
      OBVIOUS
    <3>3. PICK B : B = Branch(K, w - s + n, 1)
      OBVIOUS
    <3>4. PICK x : x = build_edge(map, w)[i][A]
      OBVIOUS
    <3>5. PICK y : y = build_edge(map, w)[i][B]
      OBVIOUS
    <3>6. c = ForkCell(L, s, x, y)
      BY <2>2, <2>3, <2>5, <2>10, <3>1, <3>2, <3>3, <3>4, <3>5, EdgeFork
    <3>7. A # {} /\ B # {} /\ K = A \cup B /\ A \cap B = {}
      <4>1. n < s
        BY <2>4, <2>10
      <4> QED
        BY <2>2, <2>4, <3>2, <3>3, <4>1, BranchFacts
    <3>8. c.data = canonical_label(L, s) /\ c.refs = <<x, y>>
      BY <3>6 DEF ForkCell
    <3>9. PICK l : l = [label |-> L, rest |-> <<>>]
      OBVIOUS
    <3>10. load_label(c.data, s) = {l}
      <4>1. canonical_label(L, s) \o <<>> = canonical_label(L, s)
        BY <2>7, CatEmpty
      <4>2. <<>> \in Seq(Bit)
        OBVIOUS
      <4> QED
        BY <2>7, <3>8, <3>9, <4>1, <4>2
    <3>11. parse_edge(w)[s][c][q] = LabelMaps(parse_edge(w), s, c, q, l)
      BY <2>2, <2>6, <3>10, ParseLabel
    <3>12. PICK q0 : q0 = Append(q \o L, 0)
      OBVIOUS
    <3>13. PICK q1 : q1 = Append(q \o L, 1)
      OBVIOUS
    <3>14. q0 \in Seq(Bit) /\ Under(A, q0, w - i)
      BY <2>1, <2>2, <2>3, <2>8, <2>10, <3>1, <3>2, <3>12, ForkKeys
    <3>15. q1 \in Seq(Bit) /\ Under(B, q1, w - i)
      BY <2>1, <2>2, <2>3, <2>8, <2>10, <3>1, <3>3, <3>13, ForkKeys
    <3>16. Read(i)
      BY <1>1, <2>1, <3>1
    <3>17. parse_edge(w)[i][x][q0] = {SubMap(map, A)}
      BY <3>4, <3>7, <3>14, <3>16 DEF ReadBack
    <3>18. parse_edge(w)[i][y][q1] = {SubMap(map, B)}
      BY <3>5, <3>7, <3>15, <3>16 DEF ReadBack
    <3>19. LabelMaps(parse_edge(w), s, c, q, l)
             = Merged(parse_edge(w)[i][x][q0], parse_edge(w)[i][y][q1])
      <4>1. l.label = L /\ s - Len(l.label) = s - n /\ (s - n) - 1 = i /\ s - n # 0
        BY <2>4, <2>10, <3>1, <3>9
      <4>2. c.refs[1] = x /\ c.refs[2] = y /\ ~(Len(c.refs) < 2)
        BY <3>8
      <4> QED
        BY <3>12, <3>13, <4>1, <4>2 DEF LabelMaps
    <3> QED
      BY <2>5, <3>7, <3>11, <3>17, <3>18, <3>19, ForkMap DEF ReadBack
  <2> QED
    BY <2>9, <2>10
<1>3. r \in S
  BY <1>2, Induction
<1>4. Read(r)
  BY <1>1, <1>3
<1> QED
  BY <1>4

\* A dictionary of any width is read back as it was written.
LEMMA DictionaryReadBack ==
  ASSUME NEW map, NEW w \in Nat, KeyMap(map, w), map = [k \in DOMAIN map |-> map[k]]
  PROVE  load_hashmap_e(store_hashmap_e(map, w), w) = {map}
<1>1. CASE map = EmptyMap
  <2>1. PICK c : c = [data |-> <<0>>, refs |-> <<>>]
    OBVIOUS
  <2>2. store_hashmap_e(map, w) = c
    BY <1>1, <2>1 DEF store_hashmap_e
  <2>3. c.data = <<0>>
    BY <2>1
  <2>4. c.data # <<>> /\ Head(c.data) = 0
    BY <2>3
  <2>5. load_hashmap_e(c, w) = {EmptyMap}
    BY <2>4 DEF load_hashmap_e
  <2> QED
    BY <1>1, <2>2, <2>5
<1>2. CASE map # EmptyMap
  <2>1. PICK x : x = build_edge(map, w)[w][DOMAIN map]
    OBVIOUS
  <2>2. PICK c : c = [data |-> <<1>>, refs |-> <<x>>]
    OBVIOUS
  <2>3. store_hashmap_e(map, w) = c
    BY <1>2, <2>1, <2>2 DEF store_hashmap_e
  <2>4. c.data # <<>> /\ Head(c.data) # 0 /\ c.refs # <<>> /\ c.refs[1] = x
    BY <2>2
  <2>5. load_hashmap_e(c, w) = parse_edge(w)[w][x][<<>>]
    BY <2>4 DEF load_hashmap_e
  <2>6. DOMAIN map # {}
    BY <1>2 DEF EmptyMap
  <2>7. PICK r \in 0 .. w : r = w
    OBVIOUS
  <2>8. PICK p : p = <<>>
    OBVIOUS
  <2>9. p \in Seq(Bit) /\ Len(p) = 0
    BY <2>8
  <2>10. parse_edge(w)[w][build_edge(map, w)[w][DOMAIN map]][p] = {SubMap(map, DOMAIN map)}
    <3>1. Under(DOMAIN map, p, w - r)
      BY <2>7, <2>9 DEF Under
    <3>2. PICK K \in SUBSET DOMAIN map : K = DOMAIN map
      OBVIOUS
    <3>3. ReadBack(map, w, r, K, p)
      <4>1. K # {} /\ Under(K, p, w - r) /\ p \in Seq(Bit)
        BY <2>6, <2>9, <3>1, <3>2
      <4> QED
        BY <4>1, EdgeReadBack
    <3> QED
      BY <2>7, <3>2, <3>3 DEF ReadBack
  <2>11. SubMap(map, DOMAIN map) = map
    BY DEF SubMap
  <2> QED
    BY <2>1, <2>3, <2>5, <2>8, <2>10, <2>11
<1> QED
  BY <1>1, <1>2

-----------------------------------------------------------------------------
\* The dictionary in memory.

IsMap(map) == map = [k \in DOMAIN map |-> map[k]]

\* The strengthening: a HashmapE has no index, so that a removal cannot leave a
\* key in it.
HashmapInv ==
  /\ TypeOK
  /\ IsMap(inner)
  /\ kind = "HashmapE" => int_keys = {}

LEMMA InvKeyMap ==
  ASSUME TypeOK
  PROVE  key_bits \in Nat /\ KeyMap(inner, key_bits)
BY HashmapAssumption DEF TypeOK, KeyMap, KeysOf, Keys

LEMMA InsertMap ==
  ASSUME NEW map, NEW k, NEW v
  PROVE  /\ IsMap(Insert(map, k, v))
         /\ DOMAIN Insert(map, k, v) = DOMAIN map \cup {k}
BY DEF Insert, IsMap

LEMMA InitInv == Init => HashmapInv
<1>1. IsMap(EmptyMap) /\ DOMAIN EmptyMap = {}
  BY DEF EmptyMap, IsMap
<1> QED
  BY <1>1 DEF Init, HashmapInv, TypeOK

LEMMA InsertInv ==
  ASSUME HashmapInv, NEW k \in Keys, NEW v \in Bit, InsertBitKey(k, v)
  PROVE  HashmapInv'
<1>1. inner' = Insert(inner, k, v) /\ UNCHANGED <<kind, key_bits, int_keys>>
  BY DEF InsertBitKey
<1>2. IsMap(inner') /\ DOMAIN inner' = DOMAIN inner \cup {k}
  BY <1>1, InsertMap
<1>3. \A x \in DOMAIN inner' : x \in Keys /\ inner'[x] \in Bit
  <2>1. \A x \in DOMAIN inner \cup {k} : inner'[x] = IF x = k THEN v ELSE inner[x]
    BY <1>1 DEF Insert
  <2>2. \A x \in DOMAIN inner : x \in Keys /\ inner[x] \in Bit
    BY DEF HashmapInv, TypeOK
  <2> QED
    BY <1>2, <2>1, <2>2
<1>4. Keys' = Keys /\ \A i : from_u64(i)' = from_u64(i)
  BY <1>1 DEF Keys, from_u64
<1> QED
  BY <1>1, <1>2, <1>3, <1>4 DEF HashmapInv, TypeOK

LEMMA RemoveInv ==
  ASSUME HashmapInv, NEW k \in Keys, RemoveBitKey(k)
  PROVE  HashmapInv'
<1>1. /\ inner' = [l \in DOMAIN inner \ {k} |-> inner[l]]
      /\ UNCHANGED <<kind, key_bits, int_keys>>
      /\ int_keys = {}
  BY DEF RemoveBitKey, HashmapInv
<1>2. IsMap(inner') /\ DOMAIN inner' = DOMAIN inner \ {k}
  BY <1>1 DEF IsMap
<1>3. \A x \in DOMAIN inner' : x \in Keys /\ inner'[x] \in Bit
  BY <1>1, <1>2 DEF HashmapInv, TypeOK
<1>4. Keys' = Keys
  BY <1>1 DEF Keys
<1> QED
  BY <1>1, <1>2, <1>3, <1>4 DEF HashmapInv, TypeOK

LEMMA SetIntInv ==
  ASSUME HashmapInv, NEW i \in IntKeys, NEW v \in Bit, SetIntKey(i, v)
  PROVE  HashmapInv'
<1>1. /\ inner' = Insert(inner, from_u64(i), v)
      /\ UNCHANGED <<kind, key_bits>>
      /\ int_keys' = int_keys \cup {i}
      /\ kind = "Dict"
  BY DEF SetIntKey
<1>2. IsMap(inner') /\ DOMAIN inner' = DOMAIN inner \cup {from_u64(i)}
  BY <1>1, InsertMap
<1>3. from_u64(i) \in Keys
  <2>1. i \in Nat
    BY DEF IntKeys
  <2>2. key_bits \in Nat
    BY InvKeyMap DEF HashmapInv
  <2> QED
    BY <2>1, <2>2, PushedBits DEF from_u64, Keys
<1>4. \A x \in DOMAIN inner' : x \in Keys /\ inner'[x] \in Bit
  <2>1. \A x \in DOMAIN inner \cup {from_u64(i)} :
          inner'[x] = IF x = from_u64(i) THEN v ELSE inner[x]
    BY <1>1 DEF Insert
  <2>2. \A x \in DOMAIN inner : x \in Keys /\ inner[x] \in Bit
    BY DEF HashmapInv, TypeOK
  <2> QED
    BY <1>2, <1>3, <2>1, <2>2
<1>5. Keys' = Keys /\ \A j : from_u64(j)' = from_u64(j)
  BY <1>1 DEF Keys, from_u64
<1> QED
  BY <1>1, <1>2, <1>4, <1>5 DEF HashmapInv, TypeOK

LEMMA RoundTripLemma ==
  ASSUME HashmapInv
  PROVE  RoundTrip
BY InvKeyMap, DictionaryReadBack DEF HashmapInv, IsMap, RoundTrip

LEMMA ReloadInv ==
  ASSUME HashmapInv, Reload
  PROVE  HashmapInv'
<1>1. load_hashmap_e(store_hashmap_e(inner, key_bits), key_bits) = {inner}
  BY RoundTripLemma DEF RoundTrip
<1>2. inner' = inner /\ int_keys' = {} /\ UNCHANGED <<kind, key_bits>>
  BY <1>1 DEF Reload
<1>3. Keys' = Keys
  BY <1>2 DEF Keys
<1> QED
  BY <1>2, <1>3 DEF HashmapInv, TypeOK

LEMMA StepInv == HashmapInv /\ [Next]_vars => HashmapInv'
<1>1. SUFFICES ASSUME HashmapInv, [Next]_vars PROVE HashmapInv'
  OBVIOUS
<1>2. CASE \E k \in Keys, v \in Bit : InsertBitKey(k, v)
  BY <1>1, <1>2, InsertInv
<1>3. CASE \E k \in Keys : RemoveBitKey(k)
  BY <1>1, <1>3, RemoveInv
<1>4. CASE \E i \in IntKeys, v \in Bit : SetIntKey(i, v)
  BY <1>1, <1>4, SetIntInv
<1>5. CASE Reload
  BY <1>1, <1>5, ReloadInv
<1>6. CASE UNCHANGED vars
  <2>1. UNCHANGED <<kind, key_bits, inner, int_keys>>
    BY <1>6 DEF vars
  <2>2. Keys' = Keys /\ \A i : from_u64(i)' = from_u64(i)
    BY <2>1 DEF Keys, from_u64
  <2> QED
    BY <1>1, <2>1, <2>2 DEF HashmapInv, TypeOK
<1> QED
  BY <1>1, <1>2, <1>3, <1>4, <1>5, <1>6 DEF Next

LEMMA InvHolds == Spec => []HashmapInv
  BY InitInv, StepInv, PTL DEF Spec

\* Every key of a dictionary keeps its width, and the index of a Dict names
\* only keys of its map, through insertions, removals and reloads, for every
\* width and every bound on the entries.
THEOREM TypeCorrect == Spec => []TypeOK
<1>1. HashmapInv => TypeOK
  BY DEF HashmapInv
<1> QED
  BY <1>1, InvHolds, PTL

\* What store_hashmap_e_with writes, load_hashmap_e_with reads back as the same
\* map, for every key width and every set of entries.
THEOREM RoundTripHolds == Spec => []RoundTrip
<1>1. HashmapInv => RoundTrip
  BY RoundTripLemma
<1> QED
  BY <1>1, InvHolds, PTL

LEMMA LabelsShortest ==
  ASSUME NEW w \in Nat, NEW k \in KeysOf(w), NEW d \in 0 .. w, NEW n \in 0 .. w - d
  PROVE  LET label == SubSeq(k, d + 1, d + n)
             max == w - d
             chosen == canonical_label(label, max)
         IN  /\ load_label(chosen, max) = {[label |-> label, rest |-> <<>>]}
             /\ \A m \in 0 .. Len(chosen) - 1 : \A s \in [1 .. m -> Bit] :
                  load_label(s, max) # {[label |-> label, rest |-> <<>>]}
<1>1. d \in Nat /\ n \in Nat /\ d + n <= w /\ w - d \in Nat /\ n <= w - d
  OBVIOUS
<1>2. PICK L : L = SubSeq(k, d + 1, d + n)
  OBVIOUS
<1>3. L \in Seq(Bit) /\ Len(L) = n
  <2>1. /\ SubSeq(k, d + 1, d + n) \in Seq(Bit)
        /\ Len(SubSeq(k, d + 1, d + n)) = n
    BY <1>1, KeyPart
  <2> QED
    BY <1>2, <2>1
<1>4. PICK max \in Nat : max = w - d
  BY <1>1
<1>5. Len(L) <= max
  BY <1>1, <1>3, <1>4
<1>6. PICK c : c = canonical_label(L, max)
  OBVIOUS
<1>7. c \in Seq(Bit) /\ \A rest \in Seq(Bit) : load_label(c \o rest, max) = {[label |-> L, rest |-> rest]}
  BY <1>3, <1>5, <1>6, CanonicalRead
<1>8. load_label(c, max) = {[label |-> L, rest |-> <<>>]}
  <2>1. c \o <<>> = c
    BY <1>7, CatEmpty
  <2>2. <<>> \in Seq(Bit)
    OBVIOUS
  <2> QED
    BY <1>7, <2>1, <2>2
<1>9. ASSUME NEW m \in 0 .. Len(c) - 1, NEW s \in [1 .. m -> Bit],
             load_label(s, max) = {[label |-> L, rest |-> <<>>]}
      PROVE  FALSE
  <2>1. Len(c) \in Nat
    BY <1>7
  <2>2. m \in Nat /\ m < Len(c)
    BY <2>1
  <2>3. s \in Seq(Bit) /\ Len(s) = m
    BY <2>2
  <2>4. PICK e : e = <<>>
    OBVIOUS
  <2>5. [label |-> L, rest |-> e] \in load_label(s, max)
    BY <1>9, <2>4
  <2>6. Len(canonical_label(L, max)) <= Len(s)
    BY <1>3, <1>5, <2>3, <2>5, CanonicalShortest
  <2> QED
    BY <1>6, <2>1, <2>2, <2>3, <2>6
<1> QED
  BY <1>2, <1>4, <1>6, <1>8, <1>9

\* No bit string that load_label accepts as a label is shorter than the one
\* that canonical_label chooses, for any part of any key of any width.
THEOREM ShortestLabelsHold == Spec => []ShortestLabels
<1>1. ASSUME HashmapInv PROVE ShortestLabels
  <2>1. key_bits \in Nat /\ \A k \in DOMAIN inner : k \in KeysOf(key_bits)
    BY <1>1, InvKeyMap DEF HashmapInv, KeyMap
  <2> QED
    BY <2>1, LabelsShortest DEF ShortestLabels
<1> QED
  BY <1>1, InvHolds, PTL

-----------------------------------------------------------------------------
\* Augmented trees: the recursion of build_aug_node.

AugBody(g, map, w, m) ==
  [keys \in SUBSET DOMAIN map |-> AugNode(g, map, w, m, keys)]

LEMMA AugCongruent ==
  ASSUME NEW map, NEW w \in Nat, DOMAIN map \subseteq KeysOf(w), NEW m \in 0 .. w,
         NEW g, NEW h, Agree(g, h, m)
  PROVE  AugBody(g, map, w, m) = AugBody(h, map, w, m)
<1>1. ASSUME NEW keys \in SUBSET DOMAIN map
      PROVE  AugNode(g, map, w, m, keys) = AugNode(h, map, w, m, keys)
  <2>1. PICK n : n = common_prefix_len(keys, w - m, m)
    OBVIOUS
  <2>2. n \in 0 .. m
    BY <2>1, CommonPrefix
  <2>3. n # m => g[m - n - 1] = h[m - n - 1]
    BY <2>2 DEF Agree
  <2> QED
    BY <2>1, <2>3 DEF AugNode
<1> QED
  BY <1>1 DEF AugBody

LEMMA AugExists ==
  ASSUME NEW map, NEW w \in Nat, DOMAIN map \subseteq KeysOf(w)
  PROVE  \E f : f = [m \in 0 .. w |-> AugBody(f, map, w, m)]
<1> DEFINE Part(g, n) == \A m \in 0 .. n - 1 : g[m] = AugBody(g, map, w, m)
<1>1. PICK S : S = {n \in Nat : n <= w + 1 => \E g : Part(g, n)}
  OBVIOUS
<1>2. Inductive(S)
  <2>1. SUFFICES ASSUME NEW n \in Nat, \A m \in 0 .. n - 1 : m \in S, n <= w + 1
                 PROVE  \E g : Part(g, n)
    BY <1>1 DEF Inductive
  <2>2. CASE n = 0
    BY <2>2
  <2>3. CASE n # 0
    <3>1. PICK g : Part(g, n - 1)
      BY <1>1, <2>1, <2>3
    <3>2. PICK h : h = [m \in 0 .. n - 1 |-> IF m < n - 1 THEN g[m] ELSE AugBody(g, map, w, m)]
      OBVIOUS
    <3>3. ASSUME NEW m \in 0 .. n - 1
          PROVE  AugBody(h, map, w, m) = AugBody(g, map, w, m)
      <4>1. m \in 0 .. w /\ Agree(h, g, m)
        BY <2>1, <3>2 DEF Agree
      <4> QED
        BY <4>1, AugCongruent
    <3>4. Part(h, n)
      BY <3>1, <3>2, <3>3
    <3> QED
      BY <3>4
  <2> QED
    BY <2>2, <2>3
<1>3. PICK g : Part(g, w + 1)
  <2>1. w + 1 \in S
    BY <1>2, Induction
  <2> QED
    BY <1>1, <2>1
<1>4. PICK f : f = [m \in 0 .. w |-> g[m]]
  OBVIOUS
<1>5. ASSUME NEW m \in 0 .. w
      PROVE  AugBody(f, map, w, m) = AugBody(g, map, w, m)
  <2>1. Agree(f, g, m)
    BY <1>4 DEF Agree
  <2> QED
    BY <2>1, AugCongruent
<1>6. f = [m \in 0 .. w |-> AugBody(f, map, w, m)]
  BY <1>3, <1>4, <1>5
<1> QED
  BY <1>6

LEMMA AugRec ==
  ASSUME NEW map, NEW w \in Nat, DOMAIN map \subseteq KeysOf(w),
         NEW r \in 0 .. w, NEW keys \in SUBSET DOMAIN map
  PROVE  build_aug_node(map, w)[r][keys]
           = AugNode(build_aug_node(map, w), map, w, r, keys)
<1>1. PICK f : f = [m \in 0 .. w |-> AugBody(f, map, w, m)]
  BY AugExists
<1>2. build_aug_node(map, w) = CHOOSE g : g = [m \in 0 .. w |-> AugBody(g, map, w, m)]
  BY DEF build_aug_node, AugBody
<1>3. build_aug_node(map, w) = [m \in 0 .. w |-> AugBody(build_aug_node(map, w), map, w, m)]
  BY <1>1, <1>2
<1>4. build_aug_node(map, w)[r] = AugBody(build_aug_node(map, w), map, w, r)
  BY <1>3
<1> QED
  BY <1>4 DEF AugBody

LeafNode(L, e, v) ==
  [data |-> [label |-> L, extra |-> e, value |-> <<v>>], refs |-> <<>>]
ForkNode(L, x, y) ==
  [data |-> [label |-> L, extra |-> ForkExtra, value |-> <<>>], refs |-> <<x, y>>]

LEMMA AugLeaf ==
  ASSUME NEW map, NEW w \in Nat, KeyMap(map, w), NEW r \in 0 .. w,
         NEW keys \in SUBSET DOMAIN map, NEW L, NEW k, Labels(w, r, keys, r, L, k)
  PROVE  build_aug_node(map, w)[r][keys] = LeafNode(L, LeafExtra(map, k), map[k])
<1>1. build_aug_node(map, w)[r][keys] = AugNode(build_aug_node(map, w), map, w, r, keys)
  BY AugRec DEF KeyMap
<1>2. /\ r = common_prefix_len(keys, w - r, r)
      /\ L = collect_key_bits(keys, w - r, r)
      /\ k = CHOOSE x \in keys : TRUE
  BY DEF Labels
<1> QED
  BY <1>1, <1>2 DEF AugNode, LeafNode

LEMMA AugFork ==
  ASSUME NEW map, NEW w \in Nat, KeyMap(map, w), NEW r \in 0 .. w,
         NEW keys \in SUBSET DOMAIN map, NEW n, NEW L, NEW k, Labels(w, r, keys, n, L, k),
         n # r
  PROVE  build_aug_node(map, w)[r][keys] =
           ForkNode(L, build_aug_node(map, w)[r - n - 1][Branch(keys, w - r + n, 0)],
                       build_aug_node(map, w)[r - n - 1][Branch(keys, w - r + n, 1)])
<1>1. build_aug_node(map, w)[r][keys] = AugNode(build_aug_node(map, w), map, w, r, keys)
  BY AugRec DEF KeyMap
<1>2. /\ n = common_prefix_len(keys, w - r, r)
      /\ L = collect_key_bits(keys, w - r, n)
  BY DEF Labels
<1> QED
  BY <1>1, <1>2 DEF AugNode, ForkNode

NodeData == [label : Seq(Bit), extra : Bit, value : Seq(Bit)]

LEMMA AugTreeStep ==
  /\ AugTree(0) = [data : NodeData, refs : {<<>>}]
  /\ \A h \in Nat : AugTree(h + 1) = [data : NodeData, refs : Seq(AugTree(h))]
BY TreeStep DEF AugTree, NodeData

LEMMA LeafNodeType ==
  ASSUME NEW r \in Nat, NEW L \in Seq(Bit), NEW e \in Bit, NEW v \in Bit
  PROVE  LeafNode(L, e, v) \in AugTree(r)
<1>1. <<v>> \in Seq(Bit)
  OBVIOUS
<1>2. LeafNode(L, e, v) \in AugTree(0)
  BY <1>1, AugTreeStep DEF LeafNode, NodeData
<1>3. AugTree(0) \subseteq AugTree(r)
  BY TreeMonotonic DEF AugTree
<1> QED
  BY <1>2, <1>3

LEMMA ForkNodeType ==
  ASSUME NEW r \in Nat, NEW L \in Seq(Bit), NEW x \in AugTree(r), NEW y \in AugTree(r)
  PROVE  ForkNode(L, x, y) \in AugTree(r + 1)
<1>1. <<>> \in Seq(Bit) /\ ForkExtra \in Bit
  BY DEF Bit, ForkExtra
<1>2. <<x, y>> \in Seq(AugTree(r))
  OBVIOUS
<1>3. [label |-> L, extra |-> ForkExtra, value |-> <<>>] \in NodeData
  BY <1>1 DEF NodeData
<1>4. AugTree(r + 1) = [data : NodeData, refs : Seq(AugTree(r))]
  BY AugTreeStep
<1> QED
  BY <1>2, <1>3, <1>4 DEF ForkNode

\* The node over the keys, as a leaf or as a fork of two smaller ones.
LeafOf(map, w, r, keys, L, k) ==
  /\ Labels(w, r, keys, r, L, k)
  /\ LeafExtra(map, k) \in Bit
  /\ map[k] \in Bit
  /\ build_aug_node(map, w)[r][keys] = LeafNode(L, LeafExtra(map, k), map[k])

ForkOf(map, w, r, keys, n, L, i, A, B) ==
  /\ n \in Nat /\ i \in Nat /\ i = r - n - 1 /\ i + 1 <= r /\ n < r
  /\ L \in Seq(Bit) /\ Len(L) = n
  /\ A \in SUBSET DOMAIN map /\ A # {}
  /\ B \in SUBSET DOMAIN map /\ B # {}
  /\ build_aug_node(map, w)[r][keys]
       = ForkNode(L, build_aug_node(map, w)[i][A], build_aug_node(map, w)[i][B])

LEMMA AugShape ==
  ASSUME NEW map, NEW w \in Nat, KeyMap(map, w), NEW r \in 0 .. w,
         NEW keys \in SUBSET DOMAIN map, keys # {}
  PROVE  \/ \E L, k : LeafOf(map, w, r, keys, L, k)
         \/ \E n, L, i, A, B : ForkOf(map, w, r, keys, n, L, i, A, B)
<1>1. keys \in SUBSET KeysOf(w)
  BY DEF KeyMap
<1>2. PICK n, L, k : Labels(w, r, keys, n, L, k)
  BY <1>1, LabelFacts
<1>3. n \in 0 .. r /\ L \in Seq(Bit) /\ Len(L) = n /\ k \in keys /\ n = common_prefix_len(keys, w - r, r)
  BY <1>2 DEF Labels
<1>4. CASE n = r
  <2>1. Labels(w, r, keys, r, L, k)
    BY <1>2, <1>4
  <2>2. map[k] \in Bit
    BY <1>3 DEF KeyMap
  <2>3. LeafExtra(map, k) \in Bit
    BY <2>2 DEF LeafExtra, Bit
  <2>4. build_aug_node(map, w)[r][keys] = LeafNode(L, LeafExtra(map, k), map[k])
    BY <2>1, AugLeaf
  <2>5. LeafOf(map, w, r, keys, L, k)
    BY <2>1, <2>2, <2>3, <2>4 DEF LeafOf
  <2> QED
    BY <2>5
<1>5. CASE n # r
  <2>1. PICK i \in Nat : i = r - n - 1 /\ i + 1 <= r
    BY <1>3, <1>5
  <2>2. PICK A : A = Branch(keys, w - r + n, 0)
    OBVIOUS
  <2>3. PICK B : B = Branch(keys, w - r + n, 1)
    OBVIOUS
  <2>4. n \in Nat /\ n < r
    BY <1>3, <1>5
  <2>5. A # {} /\ B # {} /\ keys = A \cup B
    BY <1>1, <1>3, <2>2, <2>3, <2>4, BranchFacts
  <2>6. build_aug_node(map, w)[r][keys]
          = ForkNode(L, build_aug_node(map, w)[i][A], build_aug_node(map, w)[i][B])
    BY <1>2, <1>5, <2>1, <2>2, <2>3, AugFork
  <2>7. A \in SUBSET DOMAIN map /\ B \in SUBSET DOMAIN map
    BY <2>5
  <2>8. ForkOf(map, w, r, keys, n, L, i, A, B)
    BY <1>3, <2>1, <2>4, <2>5, <2>6, <2>7 DEF ForkOf
  <2> QED
    BY <2>8
<1> QED
  BY <1>4, <1>5

LEMMA AugType ==
  ASSUME NEW map, NEW w \in Nat, KeyMap(map, w), NEW r \in 0 .. w,
         NEW keys \in SUBSET DOMAIN map, keys # {}
  PROVE  build_aug_node(map, w)[r][keys] \in AugTree(r)
<1> DEFINE Typed(s) == \A K \in SUBSET DOMAIN map :
                         K # {} => build_aug_node(map, w)[s][K] \in AugTree(s)
<1>1. PICK S : S = {s \in Nat : s <= w => Typed(s)}
  OBVIOUS
<1>2. Inductive(S)
  <2>1. SUFFICES ASSUME NEW s \in Nat, \A m \in 0 .. s - 1 : m \in S, s <= w,
                        NEW K \in SUBSET DOMAIN map, K # {}
                 PROVE  build_aug_node(map, w)[s][K] \in AugTree(s)
    BY <1>1 DEF Inductive
  <2>2. s \in 0 .. w
    BY <2>1
  <2>3. CASE \E L, k : LeafOf(map, w, s, K, L, k)
    <3>1. PICK L, k : LeafOf(map, w, s, K, L, k)
      BY <2>3
    <3>2. L \in Seq(Bit)
      BY <3>1 DEF LeafOf, Labels
    <3> QED
      BY <3>1, <3>2, LeafNodeType DEF LeafOf
  <2>4. CASE \E n, L, i, A, B : ForkOf(map, w, s, K, n, L, i, A, B)
    <3>1. PICK n, L, i, A, B : ForkOf(map, w, s, K, n, L, i, A, B)
      BY <2>4
    <3>2. i \in Nat /\ i \in 0 .. s - 1 /\ i <= w /\ i + 1 <= s /\ L \in Seq(Bit)
      BY <2>1, <3>1 DEF ForkOf
    <3>3. Typed(i)
      BY <1>1, <2>1, <3>2
    <3>4. build_aug_node(map, w)[i][A] \in AugTree(i) /\ build_aug_node(map, w)[i][B] \in AugTree(i)
      BY <3>1, <3>3 DEF ForkOf
    <3>5. build_aug_node(map, w)[s][K] \in AugTree(i + 1)
      BY <3>1, <3>2, <3>4, ForkNodeType DEF ForkOf
    <3>6. AugTree(i + 1) \subseteq AugTree(s)
      BY <3>2, TreeMonotonic DEF AugTree
    <3> QED
      BY <3>5, <3>6
  <2> QED
    BY <2>1, <2>2, <2>3, <2>4, AugShape
<1>3. r \in S
  BY <1>2, Induction
<1> QED
  BY <1>1, <1>3

-----------------------------------------------------------------------------
\* The recursion of total_aug_edge_bits and of store_aug_node.

\* A tree without references, or one over smaller trees.
LEMMA AugTreeCases ==
  ASSUME NEW m \in Nat, NEW node \in AugTree(m)
  PROVE  /\ node.data \in NodeData
         /\ m = 0 => node.refs = <<>>
         /\ m # 0 => node.refs \in Seq(AugTree(m - 1))
<1>1. CASE m = 0
  <2>1. AugTree(0) = [data : NodeData, refs : {<<>>}]
    BY AugTreeStep
  <2>2. node \in [data : NodeData, refs : {<<>>}]
    BY <1>1, <2>1
  <2>3. node.data \in NodeData /\ node.refs = <<>>
    BY <2>2
  <2> QED
    BY <1>1, <2>3
<1>2. CASE m # 0
  <2>1. PICK i \in Nat : m = i + 1 /\ i = m - 1
    BY <1>2
  <2>2. AugTree(i + 1) = [data : NodeData, refs : Seq(AugTree(i))]
    BY AugTreeStep
  <2>3. node \in [data : NodeData, refs : Seq(AugTree(i))]
    BY <2>1, <2>2
  <2>4. node.data \in NodeData /\ node.refs \in Seq(AugTree(i))
    BY <2>3
  <2>5. node.refs \in Seq(AugTree(m - 1))
    BY <2>1, <2>4
  <2> QED
    BY <1>2, <2>4, <2>5
<1> QED
  BY <1>1, <1>2

TotalBody(g, m) ==
  [node \in AugTree(m) |->
     Len(node.data.label) + IF node.refs = <<>> THEN 0
                            ELSE 1 + g[m - 1][node.refs[1]]]

LEMMA TotalCongruent ==
  ASSUME NEW m \in Nat, NEW g, NEW h, Agree(g, h, m)
  PROVE  TotalBody(g, m) = TotalBody(h, m)
<1>1. CASE m = 0
  <2>1. \A node \in AugTree(m) : node.refs = <<>>
    BY <1>1, AugTreeCases
  <2> QED
    BY <2>1 DEF TotalBody
<1>2. CASE m # 0
  <2>1. g[m - 1] = h[m - 1]
    BY <1>2 DEF Agree
  <2> QED
    BY <2>1 DEF TotalBody
<1> QED
  BY <1>1, <1>2

LEMMA TotalExists ==
  ASSUME NEW w \in Nat
  PROVE  \E f : f = [m \in 0 .. w |-> TotalBody(f, m)]
<1> DEFINE Part(g, n) == \A m \in 0 .. n - 1 : g[m] = TotalBody(g, m)
<1>1. PICK S : S = {n \in Nat : n <= w + 1 => \E g : Part(g, n)}
  OBVIOUS
<1>2. Inductive(S)
  <2>1. SUFFICES ASSUME NEW n \in Nat, \A m \in 0 .. n - 1 : m \in S, n <= w + 1
                 PROVE  \E g : Part(g, n)
    BY <1>1 DEF Inductive
  <2>2. CASE n = 0
    BY <2>2
  <2>3. CASE n # 0
    <3>1. PICK g : Part(g, n - 1)
      BY <1>1, <2>1, <2>3
    <3>2. PICK h : h = [m \in 0 .. n - 1 |-> IF m < n - 1 THEN g[m] ELSE TotalBody(g, m)]
      OBVIOUS
    <3>3. ASSUME NEW m \in 0 .. n - 1
          PROVE  TotalBody(h, m) = TotalBody(g, m)
      <4>1. m \in 0 .. w /\ Agree(h, g, m)
        BY <2>1, <3>2 DEF Agree
      <4> QED
        BY <4>1, TotalCongruent
    <3>4. Part(h, n)
      BY <3>1, <3>2, <3>3
    <3> QED
      BY <3>4
  <2> QED
    BY <2>2, <2>3
<1>3. PICK g : Part(g, w + 1)
  <2>1. w + 1 \in S
    BY <1>2, Induction
  <2> QED
    BY <1>1, <2>1
<1>4. PICK f : f = [m \in 0 .. w |-> g[m]]
  OBVIOUS
<1>5. ASSUME NEW m \in 0 .. w
      PROVE  TotalBody(f, m) = TotalBody(g, m)
  <2>1. Agree(f, g, m)
    BY <1>4 DEF Agree
  <2> QED
    BY <2>1, TotalCongruent
<1>6. f = [m \in 0 .. w |-> TotalBody(f, m)]
  BY <1>3, <1>4, <1>5
<1> QED
  BY <1>6

LEMMA TotalRec ==
  ASSUME NEW w \in Nat, NEW m \in 0 .. w, NEW node \in AugTree(m)
  PROVE  total_aug_edge_bits(w)[m][node] =
           Len(node.data.label) + IF node.refs = <<>> THEN 0
                                  ELSE 1 + total_aug_edge_bits(w)[m - 1][node.refs[1]]
<1>1. PICK f : f = [i \in 0 .. w |-> TotalBody(f, i)]
  BY TotalExists
<1>2. total_aug_edge_bits(w) = CHOOSE g : g = [i \in 0 .. w |-> TotalBody(g, i)]
  BY DEF total_aug_edge_bits, TotalBody
<1>3. total_aug_edge_bits(w) = [i \in 0 .. w |-> TotalBody(total_aug_edge_bits(w), i)]
  BY <1>1, <1>2
<1>4. total_aug_edge_bits(w)[m] = TotalBody(total_aug_edge_bits(w), m)
  BY <1>3
<1> QED
  BY <1>4 DEF TotalBody

LEMMA LeafNodeFields ==
  ASSUME NEW L, NEW e, NEW v
  PROVE  /\ LeafNode(L, e, v).data.label = L /\ LeafNode(L, e, v).data.extra = e
         /\ LeafNode(L, e, v).data.value = <<v>> /\ LeafNode(L, e, v).refs = <<>>
BY DEF LeafNode

LEMMA ForkNodeFields ==
  ASSUME NEW L, NEW x, NEW y
  PROVE  /\ ForkNode(L, x, y).data.label = L /\ ForkNode(L, x, y).data.extra = ForkExtra
         /\ ForkNode(L, x, y).data.value = <<>> /\ ForkNode(L, x, y).refs = <<x, y>>
BY DEF ForkNode

\* A node of r remaining key bits, as a tree of height up to i.
LEMMA AugHeight ==
  ASSUME NEW map, NEW w \in Nat, KeyMap(map, w), NEW r \in 0 .. w,
         NEW keys \in SUBSET DOMAIN map, keys # {}, NEW i \in Nat, r <= i
  PROVE  build_aug_node(map, w)[r][keys] \in AugTree(i)
<1>1. build_aug_node(map, w)[r][keys] \in AugTree(r)
  BY AugType
<1>2. AugTree(r) \subseteq AugTree(i)
  BY TreeMonotonic DEF AugTree
<1> QED
  BY <1>1, <1>2

\* total_aug_edge_bits finds the key bits that were left where the node was
\* built, however it is bounded.
LEMMA TotalBits ==
  ASSUME NEW map, NEW w \in Nat, KeyMap(map, w), NEW r \in 0 .. w,
         NEW keys \in SUBSET DOMAIN map, keys # {}, NEW h \in Nat, NEW i \in 0 .. h, r <= i
  PROVE  total_aug_edge_bits(h)[i][build_aug_node(map, w)[r][keys]] = r
<1> DEFINE Counted(s) ==
      \A K \in SUBSET DOMAIN map : \A j \in 0 .. h :
        K # {} /\ s <= j => total_aug_edge_bits(h)[j][build_aug_node(map, w)[s][K]] = s
<1>1. PICK S : S = {s \in Nat : s <= w => Counted(s)}
  OBVIOUS
<1>2. Inductive(S)
  <2>1. SUFFICES ASSUME NEW s \in Nat, \A m \in 0 .. s - 1 : m \in S, s <= w,
                        NEW K \in SUBSET DOMAIN map, K # {}, NEW j \in 0 .. h, s <= j
                 PROVE  total_aug_edge_bits(h)[j][build_aug_node(map, w)[s][K]] = s
    <3>1. SUFFICES ASSUME NEW s \in Nat, \A m \in 0 .. s - 1 : m \in S, s <= w
                   PROVE  Counted(s)
      BY <1>1 DEF Inductive
    <3> QED
      BY <3>1
  <2>2. s \in 0 .. w /\ j \in Nat
    BY <2>1
  <2>3. PICK node : node = build_aug_node(map, w)[s][K]
    OBVIOUS
  <2>4. node \in AugTree(j)
    BY <2>1, <2>2, <2>3, AugHeight
  <2>5. total_aug_edge_bits(h)[j][node] =
          Len(node.data.label) + IF node.refs = <<>> THEN 0
                                 ELSE 1 + total_aug_edge_bits(h)[j - 1][node.refs[1]]
    BY <2>4, TotalRec
  <2>6. CASE \E L, k : LeafOf(map, w, s, K, L, k)
    <3>1. PICK L, k : LeafOf(map, w, s, K, L, k)
      BY <2>6
    <3>2. L \in Seq(Bit) /\ Len(L) = s
      BY <3>1 DEF LeafOf, Labels
    <3>3. node.data.label = L /\ node.refs = <<>>
      BY <2>3, <3>1, LeafNodeFields DEF LeafOf
    <3> QED
      BY <2>3, <2>5, <3>2, <3>3
  <2>7. CASE \E n, L, k, A, B : ForkOf(map, w, s, K, n, L, k, A, B)
    <3>1. PICK n, L, k, A, B : ForkOf(map, w, s, K, n, L, k, A, B)
      BY <2>7
    <3>2. /\ n \in Nat /\ k \in Nat /\ k = s - n - 1 /\ k \in 0 .. s - 1 /\ k <= w
          /\ L \in Seq(Bit) /\ Len(L) = n /\ A \in SUBSET DOMAIN map /\ A # {}
      BY <2>1, <3>1 DEF ForkOf
    <3>3. PICK x : x = build_aug_node(map, w)[k][A]
      OBVIOUS
    <3>4. node.data.label = L /\ node.refs # <<>> /\ node.refs[1] = x
      BY <2>3, <3>1, <3>3, ForkNodeFields DEF ForkOf
    <3>5. j - 1 \in 0 .. h /\ k <= j - 1
      BY <2>1, <2>2, <3>2
    <3>6. Counted(k)
      BY <1>1, <2>1, <3>2
    <3>7. total_aug_edge_bits(h)[j - 1][x] = k
      BY <3>2, <3>3, <3>5, <3>6
    <3>8. total_aug_edge_bits(h)[j][node] = n + (1 + k)
      BY <2>5, <3>2, <3>4, <3>7
    <3>9. n + (1 + k) = s
      BY <3>2
    <3> QED
      BY <2>3, <3>8, <3>9
  <2> QED
    BY <2>1, <2>2, <2>6, <2>7, AugShape
<1>3. r \in S
  BY <1>2, Induction
<1>4. Counted(r)
  BY <1>1, <1>3
<1> QED
  BY <1>4

LEMMA MaxOfOne ==
  ASSUME NEW x \in Nat
  PROVE  Max({x}) = x
BY DEF Max

\* So store_aug_node writes the label of a node for the same number of key bits
\* as load_label will read it with.
LEMMA LabelBits ==
  ASSUME NEW map, NEW w \in Nat, KeyMap(map, w), NEW r \in 0 .. w,
         NEW keys \in SUBSET DOMAIN map, keys # {}, NEW i \in Nat, r <= i, NEW node,
         node = build_aug_node(map, w)[r][keys]
  PROVE  node_remaining_after_label(node, i) + Len(node.data.label) = r
<1>1. CASE \E L, k : LeafOf(map, w, r, keys, L, k)
  <2>1. PICK L, k : LeafOf(map, w, r, keys, L, k)
    BY <1>1
  <2>2. L \in Seq(Bit) /\ Len(L) = r
    BY <2>1 DEF LeafOf, Labels
  <2>3. node.data.label = L /\ node.refs = <<>>
    BY <2>1, LeafNodeFields DEF LeafOf
  <2> QED
    BY <2>2, <2>3 DEF node_remaining_after_label
<1>2. CASE \E n, L, k, A, B : ForkOf(map, w, r, keys, n, L, k, A, B)
  <2>1. PICK n, L, k, A, B : ForkOf(map, w, r, keys, n, L, k, A, B)
    BY <1>2
  <2>2. /\ n \in Nat /\ k \in Nat /\ k = r - n - 1 /\ k \in 0 .. w /\ k + 1 <= r
        /\ L \in Seq(Bit) /\ Len(L) = n
    BY <2>1 DEF ForkOf
  <2>3. A \in SUBSET DOMAIN map /\ A # {} /\ B \in SUBSET DOMAIN map /\ B # {}
    BY <2>1 DEF ForkOf
  <2>4. PICK x : x = build_aug_node(map, w)[k][A]
    OBVIOUS
  <2>5. PICK y : y = build_aug_node(map, w)[k][B]
    OBVIOUS
  <2>6. node.data.label = L /\ node.refs = <<x, y>>
    BY <2>1, <2>4, <2>5, ForkNodeFields DEF ForkOf
  <2>7. PICK j \in Nat : j = i - 1 /\ k <= j /\ j \in 0 .. j
    BY <2>2
  <2>8. total_aug_edge_bits(j)[j][x] = k
    <3>1. total_aug_edge_bits(j)[j][build_aug_node(map, w)[k][A]] = k
      BY <2>2, <2>3, <2>7, TotalBits
    <3> QED
      BY <2>4, <3>1
  <2>9. total_aug_edge_bits(j)[j][y] = k
    <3>1. total_aug_edge_bits(j)[j][build_aug_node(map, w)[k][B]] = k
      BY <2>2, <2>3, <2>7, TotalBits
    <3> QED
      BY <2>5, <3>1
  <2>10. node.refs # <<>> /\ node.refs[1] = x /\ node.refs[2] = y
    BY <2>6
  <2>11. {total_aug_edge_bits(i - 1)[i - 1][node.refs[b]] : b \in {1, 2}} = {k}
    BY <2>7, <2>8, <2>9, <2>10
  <2>12. node_remaining_after_label(node, i) = 1 + k
    BY <2>2, <2>10, <2>11, MaxOfOne DEF node_remaining_after_label
  <2> QED
    BY <2>2, <2>6, <2>12
<1> QED
  BY <1>1, <1>2, AugShape

StoredNode(g, m, node) ==
  [data |-> canonical_label(node.data.label,
                            node_remaining_after_label(node, m) + Len(node.data.label))
              \o <<node.data.extra>> \o node.data.value,
   refs |-> [b \in 1 .. Len(node.refs) |-> g[m - 1][node.refs[b]]]]

StoreBody(g, m) == [node \in AugTree(m) |-> StoredNode(g, m, node)]

LEMMA StoreCongruent ==
  ASSUME NEW m \in Nat, NEW g, NEW h, Agree(g, h, m)
  PROVE  StoreBody(g, m) = StoreBody(h, m)
<1>1. CASE m = 0
  <2>1. ASSUME NEW node \in AugTree(m) PROVE StoredNode(g, m, node) = StoredNode(h, m, node)
    <3>1. node.refs = <<>>
      BY <1>1, AugTreeCases
    <3>2. 1 .. Len(node.refs) = {}
      BY <3>1
    <3>3. [b \in 1 .. Len(node.refs) |-> g[m - 1][node.refs[b]]]
            = [b \in 1 .. Len(node.refs) |-> h[m - 1][node.refs[b]]]
      BY <3>2
    <3> QED
      BY <3>3 DEF StoredNode
  <2> QED
    BY <2>1 DEF StoreBody
<1>2. CASE m # 0
  <2>1. g[m - 1] = h[m - 1]
    BY <1>2 DEF Agree
  <2>2. \A node : StoredNode(g, m, node) = StoredNode(h, m, node)
    BY <2>1 DEF StoredNode
  <2> QED
    BY <2>2 DEF StoreBody
<1> QED
  BY <1>1, <1>2

LEMMA StoreExists ==
  ASSUME NEW w \in Nat
  PROVE  \E f : f = [m \in 0 .. w |-> StoreBody(f, m)]
<1> DEFINE Part(g, n) == \A m \in 0 .. n - 1 : g[m] = StoreBody(g, m)
<1>1. PICK S : S = {n \in Nat : n <= w + 1 => \E g : Part(g, n)}
  OBVIOUS
<1>2. Inductive(S)
  <2>1. SUFFICES ASSUME NEW n \in Nat, \A m \in 0 .. n - 1 : m \in S, n <= w + 1
                 PROVE  \E g : Part(g, n)
    BY <1>1 DEF Inductive
  <2>2. CASE n = 0
    BY <2>2
  <2>3. CASE n # 0
    <3>1. PICK g : Part(g, n - 1)
      BY <1>1, <2>1, <2>3
    <3>2. PICK h : h = [m \in 0 .. n - 1 |-> IF m < n - 1 THEN g[m] ELSE StoreBody(g, m)]
      OBVIOUS
    <3>3. ASSUME NEW m \in 0 .. n - 1
          PROVE  StoreBody(h, m) = StoreBody(g, m)
      <4>1. m \in 0 .. w /\ Agree(h, g, m)
        BY <2>1, <3>2 DEF Agree
      <4> QED
        BY <4>1, StoreCongruent
    <3>4. Part(h, n)
      BY <3>1, <3>2, <3>3
    <3> QED
      BY <3>4
  <2> QED
    BY <2>2, <2>3
<1>3. PICK g : Part(g, w + 1)
  <2>1. w + 1 \in S
    BY <1>2, Induction
  <2> QED
    BY <1>1, <2>1
<1>4. PICK f : f = [m \in 0 .. w |-> g[m]]
  OBVIOUS
<1>5. ASSUME NEW m \in 0 .. w
      PROVE  StoreBody(f, m) = StoreBody(g, m)
  <2>1. Agree(f, g, m)
    BY <1>4 DEF Agree
  <2> QED
    BY <2>1, StoreCongruent
<1>6. f = [m \in 0 .. w |-> StoreBody(f, m)]
  BY <1>3, <1>4, <1>5
<1> QED
  BY <1>6

LEMMA StoreRec ==
  ASSUME NEW w \in Nat, NEW m \in 0 .. w, NEW node \in AugTree(m)
  PROVE  store_aug_node(w)[m][node] = StoredNode(store_aug_node(w), m, node)
<1>1. PICK f : f = [i \in 0 .. w |-> StoreBody(f, i)]
  BY StoreExists
<1>2. store_aug_node(w) = CHOOSE g : g = [i \in 0 .. w |-> StoreBody(g, i)]
  BY DEF store_aug_node, StoreBody, StoredNode
<1>3. store_aug_node(w) = [i \in 0 .. w |-> StoreBody(store_aug_node(w), i)]
  BY <1>1, <1>2
<1>4. store_aug_node(w)[m] = StoreBody(store_aug_node(w), m)
  BY <1>3
<1> QED
  BY <1>4 DEF StoreBody

-----------------------------------------------------------------------------
\* The cells that store_aug_node writes for the nodes of build_aug_node.

AugLeafCell(L, r, e, v) ==
  [data |-> canonical_label(L, r) \o <<e>> \o <<v>>, refs |-> <<>>]
AugForkCell(L, r, x, y) ==
  [data |-> canonical_label(L, r) \o <<ForkExtra>>, refs |-> <<x, y>>]

Stored(map, w, i, r, keys) == store_aug_node(w)[i][build_aug_node(map, w)[r][keys]]

LEMMA EmptyRange ==
  ASSUME NEW g, NEW s, s = <<>>
  PROVE  [b \in 1 .. Len(s) |-> g[s[b]]] = <<>>
OBVIOUS

LEMMA PairRange ==
  ASSUME NEW g, NEW x, NEW y, NEW s, s = <<x, y>>
  PROVE  [b \in 1 .. Len(s) |-> g[s[b]]] = <<g[x], g[y]>>
OBVIOUS

StoredCell(w, i, r, node) ==
  [data |-> canonical_label(node.data.label, r) \o <<node.data.extra>> \o node.data.value,
   refs |-> [b \in 1 .. Len(node.refs) |-> store_aug_node(w)[i - 1][node.refs[b]]]]

LEMMA StoredFields ==
  ASSUME NEW map, NEW w \in Nat, KeyMap(map, w), NEW r \in 0 .. w,
         NEW keys \in SUBSET DOMAIN map, keys # {}, NEW i \in 0 .. w, r <= i,
         NEW node, node = build_aug_node(map, w)[r][keys]
  PROVE  Stored(map, w, i, r, keys) = StoredCell(w, i, r, node)
<1>1. i \in Nat
  OBVIOUS
<1>2. node \in AugTree(i)
  BY <1>1, AugHeight
<1>3. store_aug_node(w)[i][node] = StoredNode(store_aug_node(w), i, node)
  BY <1>2, StoreRec
<1>4. node_remaining_after_label(node, i) + Len(node.data.label) = r
  BY <1>1, LabelBits
<1> QED
  BY <1>3, <1>4 DEF StoredNode, Stored, StoredCell

LEMMA StoreLeaf ==
  ASSUME NEW map, NEW w \in Nat, KeyMap(map, w), NEW r \in 0 .. w,
         NEW keys \in SUBSET DOMAIN map, keys # {}, NEW i \in 0 .. w, r <= i,
         NEW L, NEW k, LeafOf(map, w, r, keys, L, k)
  PROVE  Stored(map, w, i, r, keys) = AugLeafCell(L, r, LeafExtra(map, k), map[k])
<1>1. PICK node : node = build_aug_node(map, w)[r][keys]
  OBVIOUS
<1>2. node = LeafNode(L, LeafExtra(map, k), map[k])
  BY <1>1 DEF LeafOf
<1>3. /\ node.data.label = L /\ node.data.extra = LeafExtra(map, k)
      /\ node.data.value = <<map[k]>> /\ node.refs = <<>>
  BY <1>2, LeafNodeFields
<1>4. PICK refs : refs = [b \in 1 .. Len(node.refs) |-> store_aug_node(w)[i - 1][node.refs[b]]]
  OBVIOUS
<1>5. Stored(map, w, i, r, keys) = StoredCell(w, i, r, node)
  BY <1>1, StoredFields
<1>6. Stored(map, w, i, r, keys) =
        [data |-> canonical_label(node.data.label, r) \o <<node.data.extra>> \o node.data.value,
         refs |-> refs]
  BY <1>4, <1>5 DEF StoredCell
<1>7. refs = <<>>
  <2>1. PICK g : g = store_aug_node(w)[i - 1]
    OBVIOUS
  <2>2. [b \in 1 .. Len(node.refs) |-> g[node.refs[b]]] = <<>>
    BY <1>3, EmptyRange
  <2> QED
    BY <1>4, <2>1, <2>2
<1> QED
  BY <1>3, <1>6, <1>7 DEF AugLeafCell

LEMMA StoreFork ==
  ASSUME NEW map, NEW w \in Nat, KeyMap(map, w), NEW r \in 0 .. w,
         NEW keys \in SUBSET DOMAIN map, keys # {}, NEW i \in 0 .. w, r <= i,
         NEW n, NEW L, NEW j, NEW A, NEW B, ForkOf(map, w, r, keys, n, L, j, A, B)
  PROVE  Stored(map, w, i, r, keys)
           = AugForkCell(L, r, Stored(map, w, i - 1, j, A), Stored(map, w, i - 1, j, B))
<1>1. PICK node : node = build_aug_node(map, w)[r][keys]
  OBVIOUS
<1>2. PICK x : x = build_aug_node(map, w)[j][A]
  OBVIOUS
<1>3. PICK y : y = build_aug_node(map, w)[j][B]
  OBVIOUS
<1>4. node = ForkNode(L, x, y) /\ L \in Seq(Bit) /\ Len(L) = n /\ n < r /\ n \in Nat
  BY <1>1, <1>2, <1>3 DEF ForkOf
<1>5. /\ node.data.label = L /\ node.data.extra = ForkExtra
      /\ node.data.value = <<>> /\ node.refs = <<x, y>>
  BY <1>4, ForkNodeFields
<1>6. PICK refs : refs = [b \in 1 .. Len(node.refs) |-> store_aug_node(w)[i - 1][node.refs[b]]]
  OBVIOUS
<1>7. Stored(map, w, i, r, keys) = StoredCell(w, i, r, node)
  BY <1>1, StoredFields
<1>8. Stored(map, w, i, r, keys) =
        [data |-> canonical_label(node.data.label, r) \o <<node.data.extra>> \o node.data.value,
         refs |-> refs]
  BY <1>6, <1>7 DEF StoredCell
<1>9. refs = <<Stored(map, w, i - 1, j, A), Stored(map, w, i - 1, j, B)>>
  <2>1. PICK g : g = store_aug_node(w)[i - 1]
    OBVIOUS
  <2>2. [b \in 1 .. Len(node.refs) |-> g[node.refs[b]]] = <<g[x], g[y]>>
    BY <1>5, PairRange
  <2> QED
    BY <1>2, <1>3, <1>6, <2>1, <2>2 DEF Stored
<1>10. canonical_label(L, r) \o <<ForkExtra>> \o <<>> = canonical_label(L, r) \o <<ForkExtra>>
  <2>1. canonical_label(L, r) \in Seq(Bit)
    BY <1>4, CanonicalRead
  <2>2. <<ForkExtra>> \in Seq(Bit)
    BY DEF ForkExtra, Bit
  <2>3. canonical_label(L, r) \o <<ForkExtra>> \in Seq(Bit)
    BY <2>1, <2>2
  <2> QED
    BY <2>3, CatEmpty
<1>11. PICK d : d = canonical_label(node.data.label, r) \o <<node.data.extra>> \o node.data.value
  OBVIOUS
<1>12. d = canonical_label(L, r) \o <<ForkExtra>>
  BY <1>5, <1>10, <1>11
<1>13. Stored(map, w, i, r, keys) = [data |-> d, refs |-> refs]
  BY <1>8, <1>11
<1> QED
  BY <1>9, <1>12, <1>13 DEF AugForkCell

LEMMA StoreType ==
  ASSUME NEW map, NEW w \in Nat, KeyMap(map, w), NEW r \in 0 .. w,
         NEW keys \in SUBSET DOMAIN map, keys # {}, NEW i \in 0 .. w, r <= i
  PROVE  Stored(map, w, i, r, keys) \in Cell(r)
<1> DEFINE Typed(s) == \A K \in SUBSET DOMAIN map : \A j \in 0 .. w :
                         K # {} /\ s <= j => Stored(map, w, j, s, K) \in Cell(s)
<1>1. PICK S : S = {s \in Nat : s <= w => Typed(s)}
  OBVIOUS
<1>2. Inductive(S)
  <2>1. SUFFICES ASSUME NEW s \in Nat, \A m \in 0 .. s - 1 : m \in S, s <= w,
                        NEW K \in SUBSET DOMAIN map, K # {}, NEW j \in 0 .. w, s <= j
                 PROVE  Stored(map, w, j, s, K) \in Cell(s)
    <3>1. SUFFICES ASSUME NEW s \in Nat, \A m \in 0 .. s - 1 : m \in S, s <= w
                   PROVE  Typed(s)
      BY <1>1 DEF Inductive
    <3> QED
      BY <3>1
  <2>2. s \in 0 .. w
    BY <2>1
  <2>3. CASE \E L, k : LeafOf(map, w, s, K, L, k)
    <3>1. PICK L, k : LeafOf(map, w, s, K, L, k)
      BY <2>3
    <3>2. L \in Seq(Bit) /\ Len(L) = s /\ LeafExtra(map, k) \in Bit /\ map[k] \in Bit
      BY <3>1 DEF LeafOf, Labels
    <3>3. Stored(map, w, j, s, K) = AugLeafCell(L, s, LeafExtra(map, k), map[k])
      BY <2>1, <2>2, <3>1, StoreLeaf
    <3>4. canonical_label(L, s) \in Seq(Bit)
      BY <3>2, CanonicalRead
    <3>5. canonical_label(L, s) \o <<LeafExtra(map, k)>> \o <<map[k]>> \in Seq(Bit)
      BY <3>2, <3>4
    <3> QED
      BY <3>3, <3>5, CellStep DEF AugLeafCell
  <2>4. CASE \E n, L, i0, A, B : ForkOf(map, w, s, K, n, L, i0, A, B)
    <3>1. PICK n, L, i0, A, B : ForkOf(map, w, s, K, n, L, i0, A, B)
      BY <2>4
    <3>2. /\ i0 \in Nat /\ i0 \in 0 .. s - 1 /\ i0 <= w /\ i0 <= s - 1 /\ s # 0 /\ s - 1 \in Nat
          /\ j - 1 \in 0 .. w /\ i0 <= j - 1
          /\ L \in Seq(Bit) /\ Len(L) <= s
      BY <2>1, <3>1 DEF ForkOf
    <3>3. A \in SUBSET DOMAIN map /\ A # {} /\ B \in SUBSET DOMAIN map /\ B # {}
      BY <3>1 DEF ForkOf
    <3>4. PICK x : x = Stored(map, w, j - 1, i0, A)
      OBVIOUS
    <3>5. PICK y : y = Stored(map, w, j - 1, i0, B)
      OBVIOUS
    <3>6. Typed(i0)
      BY <1>1, <2>1, <3>2
    <3>7. x \in Cell(i0) /\ y \in Cell(i0)
      BY <3>2, <3>3, <3>4, <3>5, <3>6
    <3>8. Cell(i0) \subseteq Cell(s - 1)
      BY <3>2, TreeMonotonic DEF Cell
    <3>9. Stored(map, w, j, s, K) = AugForkCell(L, s, x, y)
      BY <2>1, <2>2, <3>1, <3>4, <3>5, StoreFork
    <3>10. canonical_label(L, s) \in Seq(Bit)
      BY <3>2, CanonicalRead
    <3>11. canonical_label(L, s) \o <<ForkExtra>> \in Seq(Bit)
      <4>1. ForkExtra \in Bit
        BY DEF ForkExtra, Bit
      <4> QED
        BY <3>10, <4>1
    <3>12. x \in Cell(s - 1) /\ y \in Cell(s - 1)
      BY <3>7, <3>8
    <3> QED
      BY <3>2, <3>9, <3>11, <3>12, CellStep DEF AugForkCell
  <2> QED
    BY <2>1, <2>2, <2>3, <2>4, AugShape
<1>3. r \in S
  BY <1>2, Induction
<1>4. Typed(r)
  BY <1>1, <1>3
<1> QED
  BY <1>4

-----------------------------------------------------------------------------
\* The recursion of parse_aug_node.

Forks(l, X, Y) ==
  {[data |-> [label |-> l.label, extra |-> l.rest[1], value |-> <<>>],
    refs |-> <<x, y>>] : x \in X, y \in Y}

LabelNodes(read, remaining, cell, l) ==
  LET rest == remaining - Len(l.label)
  IN  IF rest = 0
      THEN IF Len(l.rest) # 2 \/ cell.refs # <<>> THEN {}
           ELSE {[data |-> [label |-> l.label, extra |-> l.rest[1],
                            value |-> <<l.rest[2]>>],
                  refs |-> <<>>]}
      ELSE IF Len(l.rest) # 1 \/ Len(cell.refs) # 2 THEN {}
           ELSE Forks(l, read[rest - 1][cell.refs[1]], read[rest - 1][cell.refs[2]])

AugParseBody(g, w, m) == [cell \in Cell(w) |-> AugNodes(g, m, cell)]

LEMMA AugParseCongruent ==
  ASSUME NEW w \in Nat, NEW m \in 0 .. w, NEW g, NEW h, Agree(g, h, m)
  PROVE  AugParseBody(g, w, m) = AugParseBody(h, w, m)
<1>1. ASSUME NEW cell \in Cell(w)
      PROVE  AugNodes(g, m, cell) = AugNodes(h, m, cell)
  <2>1. ASSUME NEW l \in load_label(cell.data, m)
        PROVE  LabelNodes(g, m, cell, l) = LabelNodes(h, m, cell, l)
    <3>1. Len(l.label) \in Nat /\ Len(l.label) <= m
      BY CellData, LoadBound
    <3>2. PICK rest : rest = m - Len(l.label)
      OBVIOUS
    <3>3. rest # 0 => g[rest - 1] = h[rest - 1]
      BY <3>1, <3>2 DEF Agree
    <3> QED
      BY <3>2, <3>3 DEF LabelNodes
  <2>2. \A f : AugNodes(f, m, cell)
                 = UNION {LabelNodes(f, m, cell, l) : l \in load_label(cell.data, m)}
    BY DEF AugNodes, LabelNodes, Forks
  <2> QED
    BY <2>1, <2>2
<1> QED
  BY <1>1 DEF AugParseBody

LEMMA AugParseExists ==
  ASSUME NEW w \in Nat
  PROVE  \E f : f = [m \in 0 .. w |-> AugParseBody(f, w, m)]
<1> DEFINE Part(g, n) == \A m \in 0 .. n - 1 : g[m] = AugParseBody(g, w, m)
<1>1. PICK S : S = {n \in Nat : n <= w + 1 => \E g : Part(g, n)}
  OBVIOUS
<1>2. Inductive(S)
  <2>1. SUFFICES ASSUME NEW n \in Nat, \A m \in 0 .. n - 1 : m \in S, n <= w + 1
                 PROVE  \E g : Part(g, n)
    BY <1>1 DEF Inductive
  <2>2. CASE n = 0
    BY <2>2
  <2>3. CASE n # 0
    <3>1. PICK g : Part(g, n - 1)
      BY <1>1, <2>1, <2>3
    <3>2. PICK h : h = [m \in 0 .. n - 1 |-> IF m < n - 1 THEN g[m] ELSE AugParseBody(g, w, m)]
      OBVIOUS
    <3>3. ASSUME NEW m \in 0 .. n - 1
          PROVE  AugParseBody(h, w, m) = AugParseBody(g, w, m)
      <4>1. m \in 0 .. w /\ Agree(h, g, m)
        BY <2>1, <3>2 DEF Agree
      <4> QED
        BY <4>1, AugParseCongruent
    <3>4. Part(h, n)
      BY <3>1, <3>2, <3>3
    <3> QED
      BY <3>4
  <2> QED
    BY <2>2, <2>3
<1>3. PICK g : Part(g, w + 1)
  <2>1. w + 1 \in S
    BY <1>2, Induction
  <2> QED
    BY <1>1, <2>1
<1>4. PICK f : f = [m \in 0 .. w |-> g[m]]
  OBVIOUS
<1>5. ASSUME NEW m \in 0 .. w
      PROVE  AugParseBody(f, w, m) = AugParseBody(g, w, m)
  <2>1. Agree(f, g, m)
    BY <1>4 DEF Agree
  <2> QED
    BY <2>1, AugParseCongruent
<1>6. f = [m \in 0 .. w |-> AugParseBody(f, w, m)]
  BY <1>3, <1>4, <1>5
<1> QED
  BY <1>6

LEMMA AugParseRec ==
  ASSUME NEW w \in Nat, NEW r \in 0 .. w, NEW cell \in Cell(w)
  PROVE  parse_aug_node(w)[r][cell] = AugNodes(parse_aug_node(w), r, cell)
<1>1. PICK f : f = [m \in 0 .. w |-> AugParseBody(f, w, m)]
  BY AugParseExists
<1>2. parse_aug_node(w) = CHOOSE g : g = [m \in 0 .. w |-> AugParseBody(g, w, m)]
  BY DEF parse_aug_node, AugParseBody
<1>3. parse_aug_node(w) = [m \in 0 .. w |-> AugParseBody(parse_aug_node(w), w, m)]
  BY <1>1, <1>2
<1>4. parse_aug_node(w)[r] = AugParseBody(parse_aug_node(w), w, r)
  BY <1>3
<1> QED
  BY <1>4 DEF AugParseBody

LEMMA AugParseLabel ==
  ASSUME NEW w \in Nat, NEW r \in 0 .. w, NEW cell \in Cell(w),
         NEW l, load_label(cell.data, r) = {l}
  PROVE  parse_aug_node(w)[r][cell] = LabelNodes(parse_aug_node(w), r, cell, l)
<1>1. parse_aug_node(w)[r][cell] = AugNodes(parse_aug_node(w), r, cell)
  BY AugParseRec
<1>2. AugNodes(parse_aug_node(w), r, cell)
        = UNION {LabelNodes(parse_aug_node(w), r, cell, x) : x \in load_label(cell.data, r)}
  BY DEF AugNodes, LabelNodes, Forks
<1> QED
  BY <1>1, <1>2

-----------------------------------------------------------------------------
\* parse_aug_node reads back what store_aug_node wrote.

AugReadBack(map, w, i, r, keys) ==
  parse_aug_node(w)[r][Stored(map, w, i, r, keys)] = {build_aug_node(map, w)[r][keys]}

\* What a leaf cell reads as.
LEMMA AugLeafRead ==
  ASSUME NEW w \in Nat, NEW r \in 0 .. w, NEW L \in Seq(Bit), Len(L) = r,
         NEW e \in Bit, NEW v \in Bit, NEW cell \in Cell(w), cell = AugLeafCell(L, r, e, v)
  PROVE  parse_aug_node(w)[r][cell] = {LeafNode(L, e, v)}
<1>1. /\ canonical_label(L, r) \in Seq(Bit)
      /\ \A rest \in Seq(Bit) :
           load_label(canonical_label(L, r) \o rest, r) = {[label |-> L, rest |-> rest]}
  BY CanonicalRead
<1>2. PICK t \in Seq(Bit) : t = <<e>> \o <<v>>
  <2>1. <<e>> \o <<v>> \in Seq(Bit)
    OBVIOUS
  <2> QED
    BY <2>1
<1>3. Len(t) = 2 /\ t[1] = e /\ t[2] = v
  BY <1>2
<1>4. PICK l : l = [label |-> L, rest |-> t]
  OBVIOUS
<1>5. cell.data = canonical_label(L, r) \o t /\ cell.refs = <<>>
  <2>1. <<e>> \in Seq(Bit) /\ <<v>> \in Seq(Bit)
    OBVIOUS
  <2>2. canonical_label(L, r) \o <<e>> \o <<v>> = canonical_label(L, r) \o (<<e>> \o <<v>>)
    BY <1>1, <2>1, CatAssoc
  <2>3. cell.data = canonical_label(L, r) \o <<e>> \o <<v>> /\ cell.refs = <<>>
    BY DEF AugLeafCell
  <2> QED
    BY <1>2, <2>2, <2>3
<1>6. load_label(cell.data, r) = {l}
  BY <1>1, <1>4, <1>5
<1>7. parse_aug_node(w)[r][cell] = LabelNodes(parse_aug_node(w), r, cell, l)
  BY <1>6, AugParseLabel
<1>8. l.label = L /\ l.rest = t /\ r - Len(l.label) = 0
  BY <1>4
<1>9. Len(l.rest) = 2 /\ l.rest[1] = e /\ l.rest[2] = v
  BY <1>3, <1>8
<1>10. LabelNodes(parse_aug_node(w), r, cell, l)
         = {[data |-> [label |-> L, extra |-> e, value |-> <<v>>], refs |-> <<>>]}
  BY <1>5, <1>8, <1>9 DEF LabelNodes
<1> QED
  BY <1>7, <1>10 DEF LeafNode

\* What a fork cell reads as, when its references do as one node each.
LEMMA AugForkRead ==
  ASSUME NEW w \in Nat, NEW r \in 0 .. w, NEW n \in Nat, NEW L \in Seq(Bit), Len(L) = n,
         n < r, NEW x, NEW y, NEW cell \in Cell(w), cell = AugForkCell(L, r, x, y),
         NEW a, NEW b, NEW i, i = r - n - 1,
         parse_aug_node(w)[i][x] = {a}, parse_aug_node(w)[i][y] = {b}
  PROVE  parse_aug_node(w)[r][cell] = {ForkNode(L, a, b)}
<1>1. /\ canonical_label(L, r) \in Seq(Bit)
      /\ \A rest \in Seq(Bit) :
           load_label(canonical_label(L, r) \o rest, r) = {[label |-> L, rest |-> rest]}
  BY CanonicalRead
<1>2. PICK t \in Seq(Bit) : t = <<ForkExtra>>
  <2>1. ForkExtra \in Bit
    BY DEF ForkExtra, Bit
  <2>2. <<ForkExtra>> \in Seq(Bit)
    BY <2>1
  <2> QED
    BY <2>2
<1>3. Len(t) = 1 /\ t[1] = ForkExtra
  BY <1>2
<1>4. PICK l : l = [label |-> L, rest |-> t]
  OBVIOUS
<1>5. cell.data = canonical_label(L, r) \o t /\ cell.refs = <<x, y>>
  BY <1>2 DEF AugForkCell
<1>6. load_label(cell.data, r) = {l}
  BY <1>1, <1>4, <1>5
<1>7. parse_aug_node(w)[r][cell] = LabelNodes(parse_aug_node(w), r, cell, l)
  BY <1>6, AugParseLabel
<1>8. l.label = L /\ l.rest = t
  BY <1>4
<1>9. Len(l.rest) = 1 /\ l.rest[1] = ForkExtra
  BY <1>3, <1>8
<1>10. r - Len(l.label) # 0 /\ (r - Len(l.label)) - 1 = i
  BY <1>8
<1>11. Len(cell.refs) = 2 /\ cell.refs[1] = x /\ cell.refs[2] = y
  BY <1>5
<1>12. LabelNodes(parse_aug_node(w), r, cell, l)
         = Forks(l, parse_aug_node(w)[i][x], parse_aug_node(w)[i][y])
  BY <1>9, <1>10, <1>11 DEF LabelNodes
<1>13. Forks(l, {a}, {b})
         = {[data |-> [label |-> L, extra |-> ForkExtra, value |-> <<>>], refs |-> <<a, b>>]}
  BY <1>8, <1>9 DEF Forks
<1> QED
  BY <1>7, <1>12, <1>13 DEF ForkNode

LEMMA AugTreeReadBack ==
  ASSUME NEW map, NEW w \in Nat, KeyMap(map, w), NEW r \in 0 .. w,
         NEW keys \in SUBSET DOMAIN map, keys # {}, NEW i \in 0 .. w, r <= i
  PROVE  AugReadBack(map, w, i, r, keys)
<1> DEFINE Read(s) == \A K \in SUBSET DOMAIN map : \A j \in 0 .. w :
                        K # {} /\ s <= j => AugReadBack(map, w, j, s, K)
<1>1. PICK S : S = {s \in Nat : s <= w => Read(s)}
  OBVIOUS
<1>2. Inductive(S)
  <2>1. SUFFICES ASSUME NEW s \in Nat, \A m \in 0 .. s - 1 : m \in S, s <= w,
                        NEW K \in SUBSET DOMAIN map, K # {}, NEW j \in 0 .. w, s <= j
                 PROVE  AugReadBack(map, w, j, s, K)
    <3>1. SUFFICES ASSUME NEW s \in Nat, \A m \in 0 .. s - 1 : m \in S, s <= w
                   PROVE  Read(s)
      BY <1>1 DEF Inductive
    <3> QED
      BY <3>1
  <2>2. s \in 0 .. w
    BY <2>1
  <2>3. PICK c : c = Stored(map, w, j, s, K)
    OBVIOUS
  <2>4. c \in Cell(w)
    <3>1. Stored(map, w, j, s, K) \in Cell(s)
      BY <2>1, <2>2, StoreType
    <3>2. Cell(s) \subseteq Cell(w)
      BY <2>1, TreeMonotonic DEF Cell
    <3> QED
      BY <2>3, <3>1, <3>2
  <2>5. CASE \E L, k : LeafOf(map, w, s, K, L, k)
    <3>1. PICK L, k : LeafOf(map, w, s, K, L, k)
      BY <2>5
    <3>2. PICK e : e = LeafExtra(map, k)
      OBVIOUS
    <3>3. PICK v : v = map[k]
      OBVIOUS
    <3>4. L \in Seq(Bit) /\ Len(L) = s /\ e \in Bit /\ v \in Bit
      BY <3>1, <3>2, <3>3 DEF LeafOf, Labels
    <3>5. Stored(map, w, j, s, K) = AugLeafCell(L, s, LeafExtra(map, k), map[k])
      BY <2>1, <2>2, <3>1, StoreLeaf
    <3>6. c = AugLeafCell(L, s, e, v)
      BY <2>3, <3>2, <3>3, <3>5
    <3>7. parse_aug_node(w)[s][c] = {LeafNode(L, e, v)}
      BY <2>2, <2>4, <3>4, <3>6, AugLeafRead
    <3>8. build_aug_node(map, w)[s][K] = LeafNode(L, e, v)
      BY <3>1, <3>2, <3>3 DEF LeafOf
    <3> QED
      BY <2>3, <3>7, <3>8 DEF AugReadBack
  <2>6. CASE \E n, L, i0, A, B : ForkOf(map, w, s, K, n, L, i0, A, B)
    <3>1. PICK n, L, i0, A, B : ForkOf(map, w, s, K, n, L, i0, A, B)
      BY <2>6
    <3>2. /\ n \in Nat /\ n < s /\ i0 = s - n - 1
          /\ i0 \in Nat /\ i0 \in 0 .. s - 1 /\ i0 <= w
          /\ j - 1 \in 0 .. w /\ i0 <= j - 1
          /\ L \in Seq(Bit) /\ Len(L) = n
      BY <2>1, <3>1 DEF ForkOf
    <3>3. A \in SUBSET DOMAIN map /\ A # {} /\ B \in SUBSET DOMAIN map /\ B # {}
      BY <3>1 DEF ForkOf
    <3>4. PICK x : x = Stored(map, w, j - 1, i0, A)
      OBVIOUS
    <3>5. PICK y : y = Stored(map, w, j - 1, i0, B)
      OBVIOUS
    <3>6. PICK a : a = build_aug_node(map, w)[i0][A]
      OBVIOUS
    <3>7. PICK b : b = build_aug_node(map, w)[i0][B]
      OBVIOUS
    <3>8. Read(i0)
      BY <1>1, <2>1, <3>2
    <3>9. AugReadBack(map, w, j - 1, i0, A) /\ AugReadBack(map, w, j - 1, i0, B)
      BY <3>2, <3>3, <3>8
    <3>10. parse_aug_node(w)[i0][x] = {a} /\ parse_aug_node(w)[i0][y] = {b}
      BY <3>4, <3>5, <3>6, <3>7, <3>9 DEF AugReadBack
    <3>11. Stored(map, w, j, s, K)
             = AugForkCell(L, s, Stored(map, w, j - 1, i0, A), Stored(map, w, j - 1, i0, B))
      BY <2>1, <2>2, <3>1, StoreFork
    <3>12. c = AugForkCell(L, s, x, y)
      BY <2>3, <3>4, <3>5, <3>11
    <3>13. parse_aug_node(w)[s][c] = {ForkNode(L, a, b)}
      BY <2>2, <2>4, <3>2, <3>10, <3>12, AugForkRead
    <3>14. build_aug_node(map, w)[s][K] = ForkNode(L, a, b)
      BY <3>1, <3>6, <3>7 DEF ForkOf
    <3> QED
      BY <2>3, <3>13, <3>14 DEF AugReadBack
  <2> QED
    BY <2>1, <2>2, <2>5, <2>6, AugShape
<1>3. r \in S
  BY <1>2, Induction
<1>4. Read(r)
  BY <1>1, <1>3
<1> QED
  BY <1>4

\* An augmented tree is read back node by node with no cell left half read, for
\* every key width and every set of entries: the width that store_aug_node
\* recomputes for a label is the one that parse_aug_node reads it with.
THEOREM AugRoundTripHolds == Spec => []AugRoundTrip
<1>1. ASSUME HashmapInv PROVE AugRoundTrip
  <2>1. KeyMap(inner, key_bits) /\ key_bits \in Nat
    BY <1>1, InvKeyMap DEF HashmapInv
  <2>2. ASSUME inner # EmptyMap
        PROVE  AugReadBack(inner, key_bits, key_bits, key_bits, DOMAIN inner)
    <3>1. DOMAIN inner # {}
      BY <1>1, <2>2 DEF HashmapInv, IsMap, EmptyMap
    <3>2. PICK K \in SUBSET DOMAIN inner : K = DOMAIN inner
      OBVIOUS
    <3>3. PICK w \in Nat : w = key_bits
      BY <2>1
    <3>4. PICK r \in 0 .. w : r = w
      OBVIOUS
    <3>5. K # {} /\ KeyMap(inner, w) /\ r <= r
      BY <2>1, <3>1, <3>2, <3>3
    <3>6. AugReadBack(inner, w, r, r, K)
      BY <3>5, AugTreeReadBack
    <3> QED
      BY <3>2, <3>3, <3>4, <3>6
  <2> QED
    BY <2>2 DEF AugRoundTrip, AugReadBack, Stored
<1> QED
  BY <1>1, InvHolds, PTL

=============================================================================
