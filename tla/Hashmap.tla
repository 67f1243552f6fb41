------------------------------- MODULE Hashmap -------------------------------
(***************************************************************************)
(* The dictionaries of src/tvm/dict: HashmapE (a map from keys of a fixed  *)
(* number of bits), the compatibility wrapper Dict with its index of       *)
(* integer keys, and the Patricia trees of cells that they, and HashmapAug *)
(* with an extra value per node, are written to and read from.             *)
(*                                                                         *)
(* A cell is a sequence of bits and a sequence of references.  A value and *)
(* an extra are one bit each, stored by the caller's callback.  A reader   *)
(* returns the set of its results: empty for an error, else one.           *)
(***************************************************************************)
EXTENDS Integers, Sequences, FiniteSets, FiniteSetsExt

CONSTANTS KeyBits,      \* the key widths of the dictionaries
          MaxEntries    \* MaxEntries[n]: bound on the entries for width n

ASSUME HashmapAssumption ==
  \A n \in KeyBits : n \in Nat /\ MaxEntries[n] \in Nat

VARIABLES kind,      \* "HashmapE" or "Dict"
          key_bits,
          inner,     \* the map
          int_keys   \* Dict::int_keys, {} for a HashmapE

vars == <<kind, key_bits, inner, int_keys>>

Bit == {0, 1}
EmptyMap == [k \in {} |-> 0]

Insert(map, k, v) ==
  [x \in DOMAIN map \cup {k} |-> IF x = k THEN v ELSE map[x]]

Join(a, b) ==
  [x \in DOMAIN a \cup DOMAIN b |-> IF x \in DOMAIN a THEN a[x] ELSE b[x]]

-----------------------------------------------------------------------------
\* Labels (labels.rs).

RepeatBit(b, n) == [i \in 1 .. n |-> b]

\* v >> j, for j up to w.
ShiftRight(v, w) ==
  LET shifted[j \in 0 .. w] == IF j = 0 THEN v ELSE shifted[j - 1] \div 2
  IN  shifted

\* Mutant: the top bit of m is not counted.
label_len_width_below(m) == Min({w \in 0 .. m : ShiftRight(m, m)[w] <= 1})

\* The number of bits of m: the shifts that leave nothing of it.
label_len_width(m) == Min({w \in 0 .. m : ShiftRight(m, m)[w] = 0})

push_uint_bits(v, w) == [i \in 1 .. w |-> ShiftRight(v, w)[w - i] % 2]

\* The numbers that the first bits of s are read as.
Values(s) ==
  LET value[i \in 0 .. Len(s)] == IF i = 0 THEN 0 ELSE 2 * value[i - 1] + s[i]
  IN  value

load_label_len(s) == Values(s)[Len(s)]

encode_short_label(bits) ==
  <<0>> \o RepeatBit(1, Len(bits)) \o <<0>> \o bits

encode_long_label(bits, max) ==
  <<1, 0>> \o push_uint_bits(Len(bits), label_len_width(max)) \o bits

encode_same_label(bits, max) ==
  <<1, 1, IF bits = <<>> THEN 0 ELSE bits[1]>>
    \o push_uint_bits(Len(bits), label_len_width(max))

\* Shorter, or as long and not greater in lexicographic order.
NotAfter(s, t) ==
  \/ Len(s) < Len(t)
  \/ Len(s) = Len(t) /\ load_label_len(s) <= load_label_len(t)

\* Mutant: a label of equal bits is never written in its short form.
canonical_label_plain(bits, max) ==
  LET forms == {encode_short_label(bits), encode_long_label(bits, max)}
  IN  CHOOSE s \in forms : \A t \in forms : NotAfter(s, t)

canonical_label(bits, max) ==
  LET uniform == \E b \in Bit : \A i \in 1 .. Len(bits) : bits[i] = b
      forms == {encode_short_label(bits), encode_long_label(bits, max)}
                 \cup IF uniform THEN {encode_same_label(bits, max)} ELSE {}
  IN  CHOOSE s \in forms : \A t \in forms : NotAfter(s, t)

From(s, i) == SubSeq(s, i, Len(s))

\* The first n bits of s as a label, if they are there and n fits.
TakeLabel(s, n, max) ==
  IF n <= max /\ n <= Len(s)
    THEN {[label |-> SubSeq(s, 1, n), rest |-> From(s, n + 1)]}
    ELSE {}

\* load_label on the bits s: the label and the bits after it.
load_label(s, max) ==
  LET w == label_len_width(max)
      stops == {n \in 0 .. Len(s) - 2 : s[n + 2] = 0}
  IN  CASE s = <<>> -> {}
        [] s # <<>> /\ s[1] = 0 ->
             IF stops = {} THEN {}
             ELSE TakeLabel(From(s, Min(stops) + 3), Min(stops), max)
        [] Len(s) >= 2 + w /\ s[1] = 1 /\ s[2] = 0 ->
             TakeLabel(From(s, 3 + w),
                       load_label_len(SubSeq(s, 3, 2 + w)), max)
        [] Len(s) >= 3 + w /\ s[1] = 1 /\ s[2] = 1 ->
             LET n == load_label_len(SubSeq(s, 4, 3 + w))
             IN  IF n > max THEN {}
                 ELSE {[label |-> RepeatBit(s[3], n), rest |-> From(s, 4 + w)]}
        [] OTHER -> {}

-----------------------------------------------------------------------------
\* Trees: of cells, whose data are bits, and of the nodes of HashmapAug.

\* The trees of height at most h.
Tree(Data, h) ==
  LET trees[i \in 0 .. h] ==
        [data : Data, refs : IF i = 0 THEN {<<>>} ELSE Seq(trees[i - 1])]
  IN  trees[h]

Cell(h) == Tree(Seq(Bit), h)

AugTree(h) == Tree([label : Seq(Bit), extra : Bit, value : Seq(Bit)], h)

-----------------------------------------------------------------------------
\* The tree of a map (hashmap.rs, build_edge; labels.rs, parse_edge).

\* The number of bits after the first `depth` ones, at most max, that all keys
\* share.
common_prefix_len(keys, depth, max) ==
  Max({n \in 0 .. max : \A k, l \in keys :
         SubSeq(k, depth + 1, depth + n) = SubSeq(l, depth + 1, depth + n)})

collect_key_bits(keys, depth, n) ==
  SubSeq(CHOOSE k \in keys : TRUE, depth + 1, depth + n)

\* The two runs of the sorted entries around a fork.
Branch(keys, depth, b) == {k \in keys : k[depth + 1] = b}

\* The cell of an edge over `remaining` of w key bits, from the edges over fewer.
EdgeCell(edge, map, w, remaining, keys) ==
  LET depth == w - remaining
      n == common_prefix_len(keys, depth, remaining)
      label == canonical_label(collect_key_bits(keys, depth, n), remaining)
      Child(b) == edge[remaining - n - 1][Branch(keys, depth + n, b)]
  IN  IF n = remaining
      THEN [data |-> label \o <<map[CHOOSE k \in keys : TRUE]>>, refs |-> <<>>]
      ELSE [data |-> label, refs |-> <<Child(0), Child(1)>>]

build_edge(map, w) ==
  LET edge[remaining \in 0 .. w] ==
        [keys \in SUBSET DOMAIN map |-> EdgeCell(edge, map, w, remaining, keys)]
  IN  edge

\* The maps that a cell reads as, given how the cells over fewer key bits do:
\* the keys are `prefix` and `remaining` more bits.
EdgeMaps(read, remaining, cell, prefix) ==
  UNION {LET key == prefix \o l.label
             rest == remaining - Len(l.label)
         IN  IF rest = 0
             THEN IF l.rest = <<>> THEN {} ELSE {Insert(EmptyMap, key, Head(l.rest))}
             ELSE IF Len(cell.refs) < 2 THEN {}
                  ELSE {Join(a, b) :
                          a \in read[rest - 1][cell.refs[1]][Append(key, 0)],
                          b \in read[rest - 1][cell.refs[2]][Append(key, 1)]}
         : l \in load_label(cell.data, remaining)}

parse_edge(w) ==
  LET read[remaining \in 0 .. w] ==
        [cell \in Cell(w) |-> [prefix \in Seq(Bit) |->
           EdgeMaps(read, remaining, cell, prefix)]]
  IN  read

\* store_hashmap_e_with: a bit, and the root as a reference.
store_hashmap_e(map, n) ==
  IF map = EmptyMap
    THEN [data |-> <<0>>, refs |-> <<>>]
    ELSE [data |-> <<1>>, refs |-> <<build_edge(map, n)[n][DOMAIN map]>>]

load_hashmap_e(cell, n) ==
  CASE cell.data = <<>> -> {}
    [] cell.data # <<>> /\ Head(cell.data) = 0 -> {EmptyMap}
    [] OTHER -> IF cell.refs = <<>> THEN {}
                ELSE parse_edge(n)[n][cell.refs[1]][<<>>]

-----------------------------------------------------------------------------
\* Augmented trees (labels.rs): an extra before the value of a leaf and after
\* the references of a fork.

ForkExtra == 1
LeafExtra(map, k) == 1 - map[k]

\* The node in memory of an edge, from the nodes over fewer key bits.
AugNode(node, map, w, remaining, keys) ==
  LET depth == w - remaining
      n == common_prefix_len(keys, depth, remaining)
      label == collect_key_bits(keys, depth, n)
      key == CHOOSE k \in keys : TRUE
      Child(b) == node[remaining - n - 1][Branch(keys, depth + n, b)]
  IN  IF n = remaining
      THEN [data |-> [label |-> label, extra |-> LeafExtra(map, key),
                      value |-> <<map[key]>>],
            refs |-> <<>>]
      ELSE [data |-> [label |-> label, extra |-> ForkExtra, value |-> <<>>],
            refs |-> <<Child(0), Child(1)>>]

build_aug_node(map, w) ==
  LET node[remaining \in 0 .. w] ==
        [keys \in SUBSET DOMAIN map |-> AugNode(node, map, w, remaining, keys)]
  IN  node

\* total_aug_edge_bits: the key bits of an edge and below, along its left side,
\* for the trees of height at most h.
total_aug_edge_bits(h) ==
  LET total[i \in 0 .. h] ==
        [node \in AugTree(i) |->
           Len(node.data.label) + IF node.refs = <<>> THEN 0
                                  ELSE 1 + total[i - 1][node.refs[1]]]
  IN  total

\* Mutant: the branch bit of a fork is not counted.
node_remaining_short(node, h) ==
  IF node.refs = <<>> THEN 0
  ELSE Max({total_aug_edge_bits(h - 1)[h - 1][node.refs[b]] : b \in {1, 2}})

\* For a tree of height at most h.
node_remaining_after_label(node, h) ==
  IF node.refs = <<>> THEN 0
  ELSE 1 + Max({total_aug_edge_bits(h - 1)[h - 1][node.refs[b]] : b \in {1, 2}})

store_aug_node(h) ==
  LET stored[i \in 0 .. h] ==
        [node \in AugTree(i) |->
           [data |-> canonical_label(node.data.label,
                                     node_remaining_after_label(node, i)
                                       + Len(node.data.label))
                       \o <<node.data.extra>> \o node.data.value,
            refs |-> [b \in 1 .. Len(node.refs) |-> stored[i - 1][node.refs[b]]]]]
  IN  stored

\* The nodes that a cell reads as, with ensure_aug_ref_consumed for the cell:
\* every bit and reference of it is read.
AugNodes(read, remaining, cell) ==
  UNION {LET rest == remaining - Len(l.label)
         IN  IF rest = 0
             THEN IF Len(l.rest) # 2 \/ cell.refs # <<>> THEN {}
                  ELSE {[data |-> [label |-> l.label, extra |-> l.rest[1],
                                   value |-> <<l.rest[2]>>],
                         refs |-> <<>>]}
             ELSE IF Len(l.rest) # 1 \/ Len(cell.refs) # 2 THEN {}
                  ELSE {[data |-> [label |-> l.label, extra |-> l.rest[1],
                                   value |-> <<>>],
                         refs |-> <<x, y>>] :
                          x \in read[rest - 1][cell.refs[1]],
                          y \in read[rest - 1][cell.refs[2]]}
         : l \in load_label(cell.data, remaining)}

parse_aug_node(w) ==
  LET read[remaining \in 0 .. w] ==
        [cell \in Cell(w) |-> AugNodes(read, remaining, cell)]
  IN  read

-----------------------------------------------------------------------------
\* The operations.

Keys == [1 .. key_bits -> Bit]

\* BitKey::from_u64, for integers that fit.
IntKeys == 0 .. 2^key_bits - 1
from_u64(i) == push_uint_bits(i, key_bits)

Init ==
  /\ kind \in {"HashmapE", "Dict"}
  /\ key_bits \in KeyBits
  /\ inner = EmptyMap
  /\ int_keys = {}

Room(k) == k \in DOMAIN inner \/ Cardinality(DOMAIN inner) < MaxEntries[key_bits]

\* insert_bit_key; for a Dict: set with a key that is not an integer.
InsertBitKey(k, v) ==
  /\ Room(k)
  /\ inner' = Insert(inner, k, v)
  /\ UNCHANGED <<kind, key_bits, int_keys>>

\* Mutant: a Dict can remove a key, and its index keeps it.
RemoveBitKey_any(k) ==
  /\ k \in DOMAIN inner
  /\ inner' = [l \in DOMAIN inner \ {k} |-> inner[l]]
  /\ UNCHANGED <<kind, key_bits, int_keys>>

\* remove_bit_key; a Dict has no removal.
RemoveBitKey(k) ==
  /\ kind = "HashmapE"
  /\ k \in DOMAIN inner
  /\ inner' = [l \in DOMAIN inner \ {k} |-> inner[l]]
  /\ UNCHANGED <<kind, key_bits, int_keys>>

\* set_int_key, and set with an integer key.
SetIntKey(i, v) ==
  /\ kind = "Dict"
  /\ Room(from_u64(i))
  /\ inner' = Insert(inner, from_u64(i), v)
  /\ int_keys' = int_keys \cup {i}
  /\ UNCHANGED <<kind, key_bits>>

\* The dictionary is written to a cell and read back; a Dict that was read has
\* no integer keys.
Reload ==
  /\ inner # EmptyMap
  /\ \E m \in load_hashmap_e(store_hashmap_e(inner, key_bits), key_bits) :
       inner' = m
  /\ int_keys' = {}
  /\ UNCHANGED <<kind, key_bits>>

Next ==
  \/ \E k \in Keys, v \in Bit : InsertBitKey(k, v)
  \/ \E k \in Keys : RemoveBitKey(k)
  \/ \E i \in IntKeys, v \in Bit : SetIntKey(i, v)
  \/ Reload

Spec == Init /\ [][Next]_vars

-----------------------------------------------------------------------------
\* Every key has the width of the dictionary, and the index of a Dict names
\* only keys that are in the map.
TypeOK ==
  /\ key_bits \in KeyBits
  /\ \A k \in DOMAIN inner : k \in Keys /\ inner[k] \in Bit
  /\ \A i \in int_keys : from_u64(i) \in DOMAIN inner

\* What store_hashmap_e_with writes, load_hashmap_e_with reads back as the same
\* map, for every shape of tree and form of label.
RoundTrip ==
  load_hashmap_e(store_hashmap_e(inner, key_bits), key_bits) = {inner}

\* "chooses the shortest encoded bitstring": no shorter sequence of bits is
\* accepted by load_label as the same label, whatever part of a key it is.
ShortestLabels ==
  Cardinality(DOMAIN inner) = 1 =>
    \A k \in DOMAIN inner : \A d \in 0 .. key_bits : \A n \in 0 .. key_bits - d :
      LET label == SubSeq(k, d + 1, d + n)
          max == key_bits - d
          chosen == canonical_label(label, max)
      IN  /\ load_label(chosen, max) = {[label |-> label, rest |-> <<>>]}
          /\ \A m \in 0 .. Len(chosen) - 1 : \A s \in [1 .. m -> Bit] :
               load_label(s, max) # {[label |-> label, rest |-> <<>>]}

\* An augmented tree built from the same entries is read back node by node:
\* labels, leaf and fork extras and values, with no cell left half read,
\* although store_aug_node recomputes the width of a fork's label from the
\* labels below it.
AugRoundTrip ==
  inner # EmptyMap =>
    LET tree == build_aug_node(inner, key_bits)[key_bits][DOMAIN inner]
        cell == store_aug_node(key_bits)[key_bits][tree]
    IN  parse_aug_node(key_bits)[key_bits][cell] = {tree}

=============================================================================
