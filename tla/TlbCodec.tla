------------------------------ MODULE TlbCodec ------------------------------
(***************************************************************************)
(* What src/tlb does with a TL-B layout: store_tlb appends the fields of a *)
(* value to a Builder, load_tlb takes them from a Slice, to_cell and       *)
(* from_cell do so for a cell of its own (core.rs).                        *)
(*                                                                         *)
(* A layout is a record made by one of the operators below.  Contents are  *)
(* real bits, but wide fields are narrowed to two of them and a byte of a  *)
(* VarUInteger to one; a builder's `width` counts the bits of the real     *)
(* cell, and that is what the limit of a cell is about.                    *)
(***************************************************************************)
EXTENDS Integers, Sequences, FiniteSets, SequencesExt

CONSTANTS MaxCellBits, MaxCellRefs, MaxOutListActions

ASSUME CellAssumption == MaxCellBits \in Nat /\ MaxCellRefs \in Nat
ASSUME OutListAssumption == MaxOutListActions \in Nat

Narrow(n) == IF n <= 7 THEN n ELSE 2

-----------------------------------------------------------------------------
\* Layouts.

\* An n-bit field whose values are lo .. hi: store_uint_custom or store_big_int
\* with the range check around it.
Ranged(n, lo, hi) == [k |-> "u", n |-> n, lo |-> lo, hi |-> hi]
U(n) == Ranged(n, 0, 2^Narrow(n) - 1)
I(n) == Ranged(n, -2^(Narrow(n) - 1), 2^(Narrow(n) - 1) - 1)
Bool == U(1)
Hash == U(256)

\* Constructor tags, in bits or in hexadecimal digits.
Tag(s) == [k |-> "tag", bits |-> s]
Hex(digits) ==
  Tag([i \in 1 .. 4 * Len(digits) |->
         (digits[(i + 3) \div 4] \div 2^((4 * Len(digits) - i) % 4)) % 2])

\* A VarUInteger with n bits for the number of bytes, at most max.
Var(n, max) == [k |-> "var", n |-> n, max |-> max]
Grams == Var(4, 15)

\* The length of a string of bits, then x, then the string.  The length has n
\* bits, lo .. hi in units of `unit` bits.
Bits(n, w, lo, hi, unit, x) ==
  [k |-> "bits", n |-> n, w |-> w, lo |-> lo, hi |-> hi, unit |-> unit, x |-> x]

\* Bytes in this cell and, when it is full, in a chain of cells below it.  A byte
\* is 0 or, if no UTF-8 text holds it, 1.
Snake == [k |-> "snake", of |-> {0, 1}]
Text == [k |-> "snake", of |-> {0}]
ByteWidth == 8

AnyRef == [k |-> "ref"]                    \* ^Cell, kept as it is

\* The remaining bits and references.  Of a Preserved payload, a caller may have
\* taken it from a cell with one of the tags.
Preserved(tags) == [k |-> "rest", tags |-> tags]
Rest == Preserved(<<>>)

\* The flags of an Address, <<is_bounceable, is_test_only>>: no cell holds them and
\* a reader makes up those of Address::new.
Flags == [k |-> "flags"]
NewFlags == <<TRUE, FALSE>>

Ref(x) == [k |-> "child", x |-> x]         \* ^T
Maybe(x) == [k |-> "maybe", x |-> x]
Either(x, y) == [k |-> "either", x |-> x, y |-> y]

\* A type: the constructors as store_tlb writes them and as load_tlb, which is
\* code of its own, tells them apart and reads them.  A constructor is a name, a
\* tag and fields <<name, layout>>; one that is Kept is known by its tag, which
\* stays part of its payload.  A Sum is what both sides go through alike.
Type(writes, reads) == [k |-> "sum", cs |-> writes, rs |-> reads]
Con(name, tag, fields) == [name |-> name, tag |-> tag, fields |-> fields, kept |-> FALSE]
Kept(name, tag, fields) == [Con(name, tag, fields) EXCEPT !.kept = TRUE]
NoTag == Tag(<<>>)
Tagged(tag, written, read) == Type(<<Con("", tag, written)>>, <<Con("", tag, read)>>)
Struct(written, read) == Tagged(NoTag, written, read)
Sum(constructors) == Type(constructors, constructors)

\* Dictionaries of one entry with one long label, its key narrowed like any
\* wide field.  A HashmapE leaf is read without looking at what follows it in
\* its cell (labels.rs, parse_edge); the references of an augmented dictionary
\* must be used up.
LenBits(n) == CHOOSE w \in 1 .. 9 : 2^(w - 1) <= n /\ n < 2^w
Label(n) == U(2 + LenBits(n) + n)
Leaf(x) == [k |-> "leaf", x |-> x]
Row(fields) == Sum(<<Con("", NoTag, fields)>>)
HashmapE(n, x) == Maybe(Leaf(Row(<< <<"key", Label(n)>>, <<"value", x>> >>)))
HashmapAug(n, x, e) ==
  Row(<< <<"key", Label(n)>>, <<"extra", e>>, <<"value", x>> >>)
HashmapAugE(n, x, e) ==
  Row(<< <<"root", Maybe(Ref(HashmapAug(n, x, e)))>>, <<"extra", e>> >>)

\* A HashmapE of any number of entries: its tree (module Hashmap) is abstracted
\* to a cell with the keys in order and the values as references.  A value is a
\* sequence of pairs.
Dict(key, x) == [k |-> "dict", key |-> key, x |-> x]

\* A list whose last element is in the root cell and whose rest is the root's
\* first reference, down to an empty cell.
Chain(x) == [k |-> "chain", x |-> x]

\* A list of at least one element whose first one is in the root cell and whose
\* rest, if any, is the root's last reference.  Only its reader has a limit.
List(x) == [k |-> "list", x |-> x]

\* A type without values.
Unsupported == Ranged(1, 1, 0)

-----------------------------------------------------------------------------
\* Storing.  A builder that refused something has ok = FALSE.

RECURSIVE Number(_)
Number(bits) == IF bits = <<>> THEN 0 ELSE 2 * Number(Front(bits)) + Last(bits)
Xor(s, t) == [i \in DOMAIN s |-> (s[i] + t[i]) % 2]
ToBits(v, w) == [i \in 1 .. w |-> (v \div 2^(w - i)) % 2]

EmptyCell == [exotic |-> FALSE, bits |-> <<>>, refs |-> <<>>]
NewBuilder == [ok |-> TRUE, cell |-> EmptyCell, width |-> 0]
Refuse(b) == [b EXCEPT !.ok = FALSE]

store_bits(b, bits, width) ==
  IF b.ok /\ b.width + width <= MaxCellBits
    THEN [b EXCEPT !.cell.bits = @ \o bits, !.width = @ + width]
    ELSE Refuse(b)

store_refs(b, refs) ==
  IF b.ok /\ Len(b.cell.refs) + Len(refs) <= MaxCellRefs
    THEN [b EXCEPT !.cell.refs = @ \o refs]
    ELSE Refuse(b)

store_cell(b, c, width) == store_refs(store_bits(b, c.bits, width), c.refs)

store_builder(b, other) ==
  IF other.ok THEN store_cell(b, other.cell, other.width) ELSE Refuse(b)

\* store_ref of what a builder of its own made.
store_child(b, child) ==
  IF child.ok THEN store_refs(b, <<child.cell>>) ELSE Refuse(b)

store_uint(b, v, n) == store_bits(b, ToBits(v, Narrow(n)), n)

available_bytes(b) == (MaxCellBits - b.width) \div ByteWidth

RECURSIVE store_snake_bytes(_, _)
store_snake_bytes(b, bytes) ==
  LET n == available_bytes(b)
      first == store_bits(b, SubSeq(bytes, 1, n), ByteWidth * n)
  IN  IF Len(bytes) <= n THEN store_bits(b, bytes, ByteWidth * Len(bytes))
      ELSE store_child(first, store_snake_bytes(NewBuilder, SubSeq(bytes, n + 1, Len(bytes))))

\* store_hashmap_e_with: the leaf of the i-th entry is where its key comes among
\* the keys.
dict_node(keys, values) ==
  LET Before(i) == {j \in DOMAIN keys : Number(keys[j].cell.bits) < Number(keys[i].cell.bits)}
      order == [n \in DOMAIN keys |-> CHOOSE i \in DOMAIN keys : Cardinality(Before(i)) = n - 1]
  IN  [exotic |-> FALSE,
       bits |-> FlattenSeq([n \in DOMAIN keys |-> keys[order[n]].cell.bits]),
       refs |-> [n \in DOMAIN keys |-> values[order[n]].cell]]
store_dict(b, keys, values) ==
  IF keys = <<>> THEN store_bits(b, <<0>>, 1)
  ELSE IF \E i \in DOMAIN keys : ~keys[i].ok \/ ~values[i].ok THEN Refuse(b)
  ELSE IF \E i, j \in DOMAIN keys : i # j /\ keys[i] = keys[j] THEN Refuse(b)
  ELSE store_refs(store_bits(b, <<1>>, 1), <<dict_node(keys, values)>>)

RECURSIVE store_tlb(_, _, _), store_chain(_, _), store_fields(_, _, _)
store_tlb(b, x, v) ==
  CASE x.k = "u" ->
         IF v \in x.lo .. x.hi THEN store_uint(b, v, x.n)
                               ELSE Refuse(b)
    [] x.k = "tag" -> store_bits(b, x.bits, Len(x.bits))
    [] x.k = "var" ->
         IF Len(v) <= x.max
         THEN store_bits(store_bits(b, ToBits(Len(v), x.n), x.n), v, 8 * Len(v))
         ELSE Refuse(b)
    [] x.k = "bits" ->
         IF Len(v[2]) \in x.lo .. x.hi
         THEN store_bits(store_tlb(store_bits(b, ToBits(Len(v[2]), x.w), x.n),
                                   x.x, v[1]),
                         v[2], x.unit * Len(v[2]))
         ELSE Refuse(b)
    [] x.k = "snake" -> store_snake_bytes(b, v)
    [] x.k = "ref" -> store_refs(b, <<v>>)
    [] x.k = "rest" -> store_cell(b, v, Len(v.bits))
    [] x.k = "flags" -> b
    [] x.k \in {"child", "leaf"} -> store_child(b, store_tlb(NewBuilder, x.x, v))
    [] x.k = "chain" ->
         IF Len(v) <= MaxOutListActions THEN store_builder(b, store_chain(x.x, v)) ELSE Refuse(b)
    [] x.k = "list" ->
         LET first == store_tlb(b, x.x, v[1])
         IN  IF v = <<>> THEN Refuse(b)
             ELSE IF Len(v) = 1 THEN first
             ELSE store_child(first, store_tlb(NewBuilder, x, Tail(v)))
    [] x.k = "dict" ->
         store_dict(b, [i \in DOMAIN v |-> store_tlb(NewBuilder, x.key, v[i][1])],
                       [i \in DOMAIN v |-> store_tlb(NewBuilder, x.x, v[i][2])])
    [] x.k = "maybe" ->
         IF v = <<>> THEN store_bits(b, <<0>>, 1)
                     ELSE store_tlb(store_bits(b, <<1>>, 1), x.x, v[1])
    [] x.k = "either" ->
         IF v[1] = 0 THEN store_tlb(store_bits(b, <<0>>, 1), x.x, v[2])
                     ELSE store_tlb(store_bits(b, <<1>>, 1), x.y, v[2])
    [] x.k = "sum" ->
         store_fields(store_tlb(b, x.cs[v[1]].tag, <<>>), x.cs[v[1]].fields, v[2])

\* Each node of an OutList holds the one before it and an action.
store_chain(x, v) ==
  IF v = <<>> THEN NewBuilder
  ELSE store_tlb(store_child(NewBuilder, store_chain(x, Front(v))), x, Last(v))

store_fields(b, fields, vs) ==
  IF fields = <<>> THEN b
  ELSE store_fields(store_tlb(b, Head(fields)[2], Head(vs)), Tail(fields), Tail(vs))

-----------------------------------------------------------------------------
\* Loading.  A reader carries the value read last; ok = FALSE is an error.

Reader(c) == [ok |-> TRUE, s |-> [c EXCEPT !.exotic = FALSE], v |-> <<>>]
Failed(r) == [r EXCEPT !.ok = FALSE]
Return(r, v) == [r EXCEPT !.v = v]

\* The values read so far and the one just read.
Extend(l, next) == IF next.ok THEN Return(next, Append(l.v, next.v)) ELSE next

load_bits(r, w) ==
  IF r.ok /\ w <= Len(r.s.bits)
  THEN [ok |-> TRUE, v |-> SubSeq(r.s.bits, 1, w),
        s |-> [r.s EXCEPT !.bits = SubSeq(@, w + 1, Len(@))]]
  ELSE Failed(r)

load_uint(r, n) ==
  LET l == load_bits(r, Narrow(n)) IN IF l.ok THEN Return(l, Number(l.v)) ELSE l

load_reference(r) ==
  IF r.ok /\ r.s.refs # <<>>
  THEN [ok |-> TRUE, v |-> Head(r.s.refs), s |-> [r.s EXCEPT !.refs = Tail(@)]]
  ELSE Failed(r)

\* flatten_snake_slice: the rest of this cell's bits and of the cells below it,
\* of which each has one reference at most.
RECURSIVE load_snake_bytes(_)
load_snake_bytes(r) ==
  LET below == load_snake_bytes(Reader(r.s.refs[1]))
      all == [r EXCEPT !.s = EmptyCell, !.v = r.s.bits]
  IN  IF r.s.refs = <<>> THEN all
      ELSE IF Len(r.s.refs) > 1 \/ ~below.ok THEN Failed(r)
      ELSE Return(all, r.s.bits \o below.v)

ensure_empty(r) == r.ok /\ r.s.bits = <<>> /\ r.s.refs = <<>>

\* Mutant: leading zero bytes are skipped.
load_var_uint_lax(r, n, max) ==
  LET len == load_bits(r, n)
      l == load_bits(len, Number(len.v))
      ones == {i \in DOMAIN l.v : l.v[i] = 1}
      first == IF ones = {} THEN Len(l.v) + 1 ELSE CHOOSE i \in ones : \A j \in ones : i <= j
  IN  IF ~len.ok THEN Failed(r)
      ELSE IF Number(len.v) > max \/ ~l.ok THEN Failed(l)
      ELSE Return(l, SubSeq(l.v, first, Len(l.v)))

load_var_uint(r, n, max) ==
  LET len == load_bits(r, n)
      l == load_bits(len, Number(len.v))
  IN  IF ~len.ok THEN Failed(r)
      ELSE IF Number(len.v) > max \/ ~l.ok \/ (l.v # <<>> /\ l.v[1] = 0)
           THEN Failed(l) ELSE l

\* The constructor whose tag the slice begins with, or 0.
ConstructorOf(r, cs) ==
  LET fits == {i \in 1 .. Len(cs) : IsPrefix(cs[i].tag.bits, r.s.bits)}
  IN  IF fits = {} THEN 0 ELSE CHOOSE i \in fits : \A j \in fits : i <= j

RECURSIVE load_tlb(_, _), load_constructor(_, _, _), load_fields(_, _),
          load_with_depth(_, _, _), load_actions(_, _, _), load_dict(_, _)
load_tlb(r, x) ==
  IF ~r.ok THEN r
  ELSE
  CASE x.k = "u" ->
         LET l == load_uint(r, x.n)
             v == IF x.lo < 0 /\ l.v > x.hi THEN l.v - 2^Narrow(x.n) ELSE l.v
         IN  IF l.ok /\ v \in x.lo .. x.hi THEN Return(l, v) ELSE Failed(r)
    [] x.k = "tag" -> load_bits(r, Len(x.bits))
    [] x.k = "var" -> load_var_uint(r, x.n, x.max)
    [] x.k = "bits" ->
         LET len == load_bits(r, x.w)
             n == Number(len.v)
             mid == load_tlb(len, x.x)
             l == load_bits(mid, n)
         IN  IF len.ok /\ n \in x.lo .. x.hi /\ l.ok
               THEN Return(l, <<mid.v, l.v>>) ELSE Failed(r)
    [] x.k = "snake" ->
         LET l == load_snake_bytes(r)
         IN  IF l.ok /\ \A i \in DOMAIN l.v : l.v[i] \in x.of THEN l ELSE Failed(r)
    [] x.k = "ref" -> load_reference(r)
    [] x.k = "rest" -> [ok |-> TRUE, s |-> EmptyCell, v |-> r.s]
    [] x.k = "flags" -> Return(r, NewFlags)
    [] x.k = "child" ->
         LET l == load_reference(r)
             child == load_tlb(Reader(l.v), x.x)
         IN  IF l.ok /\ ensure_empty(child) THEN Return(l, child.v) ELSE Failed(r)
    [] x.k = "leaf" ->
         LET l == load_reference(r)
             child == load_tlb(Reader(l.v), x.x)
         IN  IF l.ok /\ child.ok THEN Return(l, child.v) ELSE Failed(r)
    [] x.k = "chain" -> load_with_depth(r, x.x, 0)
    [] x.k = "list" -> load_actions(r, x.x, 0)
    [] x.k = "dict" -> load_dict(r, x)
    [] x.k = "maybe" ->
         LET flag == load_bits(r, 1)
             l == load_tlb(flag, x.x)
         IN  IF ~flag.ok THEN flag
             ELSE IF flag.v = <<0>> THEN Return(flag, <<>>)
             ELSE IF l.ok THEN Return(l, <<l.v>>) ELSE l
    [] x.k = "either" ->
         LET flag == load_bits(r, 1)
             l == load_tlb(flag, IF flag.v = <<0>> THEN x.x ELSE x.y)
         IN  IF flag.ok /\ l.ok THEN Return(l, <<flag.v[1], l.v>>) ELSE Failed(r)
    [] x.k = "sum" ->
         LET c == ConstructorOf(r, x.rs)
         IN  IF c = 0 THEN Failed(r) ELSE load_constructor(r, x.cs, x.rs[c])

\* The value has the fields in the order in which the type declares them, here
\* that of the writer.
load_constructor(r, cs, con) ==
  LET c == CHOOSE i \in DOMAIN cs : cs[i].name = con.name
      start == IF con.kept THEN r ELSE load_tlb(r, con.tag)
      l == load_fields(Return(start, <<>>), con.fields)
      Read(name) == l.v[CHOOSE i \in DOMAIN con.fields : con.fields[i][1] = name]
  IN  IF l.ok THEN Return(l, <<c, [i \in DOMAIN cs[c].fields |-> Read(cs[c].fields[i][1])]>>)
      ELSE Failed(r)

load_fields(l, fields) ==
  IF fields = <<>> \/ ~l.ok THEN l
  ELSE load_fields(Extend(l, load_tlb(l, Head(fields)[2])), Tail(fields))

\* OutList::load_with_depth.
load_with_depth(r, x, depth) ==
  LET l == load_reference(r)
      prev == load_with_depth(Reader(l.v), x, depth + 1)
      action == load_tlb(l, x)
  IN  IF ensure_empty(r) THEN Return(r, <<>>)
      ELSE IF depth >= MaxOutListActions \/ ~l.ok THEN Failed(r)
      ELSE IF ~ensure_empty(prev) \/ ~action.ok THEN Failed(r)
      ELSE Return(action, Append(prev.v, action.v))

\* WalletV5R1ExtendedActionList::load_actions.
load_actions(r, x, depth) ==
  LET action == load_tlb(r, x)
      l == load_reference(action)
      next == load_actions(Reader(l.v), x, depth + 1)
  IN  IF depth >= MaxOutListActions \/ ~action.ok THEN Failed(r)
      ELSE IF action.s.refs = <<>> THEN Return(action, <<action.v>>)
      ELSE IF Len(action.s.refs) > 1 \/ ~ensure_empty(next) THEN Failed(r)
      ELSE Return(l, <<action.v>> \o next.v)

\* load_hashmap_e_with: the entries in the order of their keys.
load_dict(r, x) ==
  LET flag == load_bits(r, 1)
      l == load_reference(flag)
      n == Len(l.v.refs)
      w == Narrow(x.key.n)
      Key(i) == load_tlb(Reader([l.v EXCEPT !.bits = SubSeq(@, w * (i - 1) + 1, w * i)]), x.key)
      Value(i) == load_tlb(Reader(l.v.refs[i]), x.x)
      InOrder == \A i \in 2 .. n : Number(SubSeq(l.v.bits, w * (i - 2) + 1, w * (i - 1)))
                                    < Number(SubSeq(l.v.bits, w * (i - 1) + 1, w * i))
  IN  IF ~flag.ok THEN flag
      ELSE IF flag.v = <<0>> THEN Return(flag, <<>>)
      ELSE IF ~l.ok THEN l
      ELSE IF n = 0 \/ Len(l.v.bits) # n * w THEN Failed(r)
      ELSE IF ~InOrder \/ \E i \in 1 .. n : ~ensure_empty(Value(i)) THEN Failed(r)
      ELSE Return(l, [i \in 1 .. n |-> <<Key(i).v, Value(i).v>>])

\* to_cell and from_cell: a set that is empty for an error.
to_cell(x, v) ==
  LET b == store_tlb(NewBuilder, x, v) IN IF b.ok THEN {b.cell} ELSE {}

from_cell(x, c) ==
  LET r == load_tlb(Reader(c), x) IN IF ensure_empty(r) THEN {r.v} ELSE {}

=============================================================================
