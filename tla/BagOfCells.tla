----------------------------- MODULE BagOfCells -----------------------------
(***************************************************************************)
(* Cells with their levels and hashes (src/tvm/cell) and the bag of cells  *)
(* they travel in (src/tvm/boc/api.rs).  A bag is a sequence of bytes; the *)
(* checksum at its end is kept apart, as the bytes it was computed over.   *)
(* A hash is the tuple of what SHA-256 is computed over.                   *)
(***************************************************************************)
EXTENDS TlbCodec

CONSTANT IndexBase         \* a byte of a count, an index or an offset: 256

ASSUME IndexBaseAssumption == IndexBase \in Nat /\ IndexBase > 1

HashBytes == 1             \* 32
DepthBytes == 1            \* 2

div_ceil(n, k) == (n + k - 1) \div k
BitSet(n, i) == (n \div 2^i) % 2 = 1
count_ones(n) == Cardinality({i \in 0 .. 7 : BitSet(n, i)})
saturating_pred(n) == IF n = 0 THEN 0 ELSE n - 1

\* Bits as bytes, the last one filled up with zeros, and back.
ToBytes(bits) ==
  [i \in 1 .. div_ceil(Len(bits), ByteWidth) |->
     Number([j \in 1 .. ByteWidth |->
               LET n == ByteWidth * (i - 1) + j IN IF n <= Len(bits) THEN bits[n] ELSE 0])]
FromBytes(bytes) == FlattenSeq([i \in DOMAIN bytes |-> ToBits(bytes[i], ByteWidth)])

-----------------------------------------------------------------------------
\* Exotic cells: a type, a payload of fixed length, a number of references.

Payload(c, bytes, refs) == Len(c.bits) = ByteWidth * bytes /\ Len(c.refs) = refs

parse_pruned_branch(c) ==
  /\ Len(c.bits) >= 2 * ByteWidth
  /\ LET level_mask == ToBytes(c.bits)[2]
     IN  level_mask \in 1 .. 7
           /\ Payload(c, 2 + count_ones(level_mask) * (HashBytes + DepthBytes), 0)
parse_library_reference(c) == Payload(c, 1 + HashBytes, 0)
parse_merkle_proof(c) == Payload(c, 1 + HashBytes + DepthBytes, 1)
parse_merkle_update(c) == Payload(c, 1 + 2 * HashBytes + 2 * DepthBytes, 2)

parse_exotic_kind(c) ==
  /\ Len(c.bits) >= ByteWidth
  /\ LET tag == ToBytes(c.bits)[1]
     IN  \/ tag = 1 /\ parse_pruned_branch(c)
         \/ tag = 2 /\ parse_library_reference(c)
         \/ tag = 3 /\ parse_merkle_proof(c)
         \/ tag = 4 /\ parse_merkle_update(c)

exotic_level(data, below) ==
  CASE data[1] = 1 -> CHOOSE l \in 1 .. 3 : 2^(l - 1) <= data[2] /\ data[2] < 2^l
    [] data[1] = 2 -> 0
    [] OTHER -> saturating_pred(below)

-----------------------------------------------------------------------------
\* Cells.

RECURSIVE level(_), depth(_), hash(_)
level(c) ==
  LET below == Max({0} \cup {level(c.refs[i]) : i \in DOMAIN c.refs})
  IN  IF c.exotic THEN exotic_level(ToBytes(c.bits), below) ELSE below

descriptors(c) ==
  << Len(c.refs) + (IF c.exotic THEN 8 ELSE 0) + 32 * level(c),
     Len(c.bits) \div ByteWidth + div_ceil(Len(c.bits), ByteWidth) >>

serialize_data(c) ==
  ToBytes(IF Len(c.bits) % ByteWidth = 0 THEN c.bits ELSE Append(c.bits, 1))

depth(c) ==
  IF c.refs = <<>> THEN 0 ELSE 1 + Max({depth(c.refs[i]) : i \in DOMAIN c.refs})

hash(c) ==
  << descriptors(c), serialize_data(c),
     [i \in DOMAIN c.refs |-> depth(c.refs[i])], [i \in DOMAIN c.refs |-> hash(c.refs[i])] >>

\* What with_data and add_reference, or with_exotic_data, accept.
ValidCell(c) ==
  /\ Len(c.bits) <= MaxCellBits
  /\ Len(c.refs) <= MaxCellRefs
  /\ c.exotic => parse_exotic_kind(c)

-----------------------------------------------------------------------------
\* Writing.

\* Mutant: a power of the base is given one byte less.
bytes_needed_short(n) ==
  IF n <= 1 THEN 1 ELSE CHOOSE w \in 1 .. 8 : IndexBase^(w - 1) < n /\ n <= IndexBase^w

bytes_needed(n) ==
  IF n = 0 THEN 1 ELSE CHOOSE w \in 1 .. 8 : IndexBase^(w - 1) <= n /\ n < IndexBase^w
write_uint(n, size) == [i \in 1 .. size |-> (n \div IndexBase^(size - i)) % IndexBase]

\* The cells below a cell and the cell itself, children first, each once.
RECURSIVE collect_cells(_, _), collect_refs(_, _)
collect_cells(cells, c) ==
  IF \E i \in DOMAIN cells : hash(cells[i]) = hash(c) THEN cells
  ELSE Append(collect_refs(cells, c.refs), c)
collect_refs(cells, refs) ==
  IF refs = <<>> THEN cells ELSE collect_refs(collect_cells(cells, Head(refs)), Tail(refs))

IndexIn(cells, c) == (CHOOSE i \in DOMAIN cells : hash(cells[i]) = hash(c)) - 1

serialize_cell(c, cells, size) ==
  descriptors(c) \o serialize_data(c)
    \o FlattenSeq([i \in DOMAIN c.refs |-> write_uint(IndexIn(cells, c.refs[i]), size)])

NoChecksum == <<>>

\* The bag of some cells, with a table of the ends of their records if has_idx.
Assemble(cells, roots, has_idx, has_crc32) ==
  LET size == bytes_needed(Len(cells))
      records == [i \in DOMAIN cells |-> serialize_cell(cells[i], cells, size)]
      End(i) == Len(FlattenSeq(SubSeq(records, 1, i)))
      cells_size == End(Len(cells))
      width == bytes_needed(cells_size)
      bytes == << 128 * (IF has_idx THEN 1 ELSE 0) + 64 * (IF has_crc32 THEN 1 ELSE 0) + size,
                  width >>
                 \o write_uint(Len(cells), size) \o write_uint(Len(roots), size)
                 \o write_uint(0, size) \o write_uint(cells_size, width)
                 \o FlattenSeq([i \in DOMAIN roots |-> write_uint(IndexIn(cells, roots[i]), size)])
                 \o (IF has_idx
                       THEN FlattenSeq([i \in DOMAIN cells |-> write_uint(End(i), width)])
                       ELSE <<>>)
                 \o FlattenSeq(records)
  IN  [magic |-> "generic", bytes |-> bytes,
       crc |-> IF has_crc32 THEN <<bytes>> ELSE NoChecksum]

\* serialize_boc: none if a reference is not among the cells before it.
serialize_boc(root, has_crc32) ==
  LET cells == collect_cells(<<>>, root)
      Known(i, c) == \E j \in 1 .. i : hash(cells[j]) = hash(c)
  IN  IF \A i \in DOMAIN cells : \A k \in DOMAIN cells[i].refs : Known(i, cells[i].refs[k])
        THEN {Assemble(cells, <<root>>, FALSE, has_crc32)} ELSE {}

\* Bags of other writers: parents before their children, a table of offsets.
ForeignBag(root, has_crc32) ==
  Assemble(Reverse(collect_cells(<<>>, root)), <<root>>, TRUE, has_crc32)

-----------------------------------------------------------------------------
\* Reading.  A reader has the bytes not read yet and the value read last.

BytesReader(bytes) == [ok |-> TRUE, data |-> bytes, v |-> <<>>]

take_bytes(r, n) ==
  IF r.ok /\ n <= Len(r.data)
    THEN [ok |-> TRUE, v |-> SubSeq(r.data, 1, n), data |-> SubSeq(r.data, n + 1, Len(r.data))]
    ELSE Failed(r)

RECURSIVE BigEndian(_)
BigEndian(bytes) == IF bytes = <<>> THEN 0 ELSE IndexBase * BigEndian(Front(bytes)) + Last(bytes)
AsUint(l) == IF l.ok THEN Return(l, BigEndian(l.v)) ELSE l
read_uint(r, size) == AsUint(take_bytes(r, size))

\* n numbers: root indices, offsets, the references of a cell.
RECURSIVE read_more_uints(_, _, _)
read_more_uints(l, n, size) ==
  IF n = 0 \/ ~l.ok THEN l ELSE read_more_uints(Extend(l, read_uint(l, size)), n - 1, size)
read_uints(r, n, size) == read_more_uints(Return(r, <<>>), n, size)

\* parse_boc_generic_layout reads the flags, three counts, the size of the cells,
\* the roots and the table of offsets, and stops at the first that is wrong: none
\* for an error.
check_index(bag, flags, counts, cells_size, roots, index) ==
  IF /\ index.ok
     /\ index.v # <<>> =>
          /\ \A i \in 2 .. Len(index.v) : index.v[i - 1] <= index.v[i]
          /\ Last(index.v) = cells_size.v
     /\ cells_size.v = Len(index.data)
     /\ bag.crc = IF BitSet(flags.v[1], 6) THEN <<bag.bytes>> ELSE NoChecksum
    THEN {[count |-> counts.v[1], size |-> flags.v[1] % 8, roots |-> roots.v, cells |-> index.data]}
    ELSE {}

check_roots(bag, flags, counts, cells_size, roots) ==
  IF roots.ok /\ \A i \in DOMAIN roots.v : roots.v[i] < counts.v[1]
    THEN check_index(bag, flags, counts, cells_size, roots,
           read_uints(roots, IF BitSet(flags.v[1], 7) THEN counts.v[1] ELSE 0, flags.v[2]))
    ELSE {}

check_counts(bag, flags, counts, cells_size) ==
  IF counts.ok /\ counts.v[2] # 0 /\ cells_size.ok
    THEN check_roots(bag, flags, counts, cells_size,
           read_uints(cells_size, counts.v[2], flags.v[1] % 8))
    ELSE {}

check_flags(bag, flags, counts) ==
  IF flags.ok /\ ~BitSet(flags.v[1], 5) /\ flags.v[1] % 8 # 0 /\ flags.v[2] \in 1 .. 8
    THEN check_counts(bag, flags, counts, read_uint(counts, flags.v[2]))
    ELSE {}

read_counts(bag, flags) == check_flags(bag, flags, read_uints(flags, 3, flags.v[1] % 8))
parse_boc_generic_layout(bag) == read_counts(bag, take_bytes(BytesReader(bag.bytes), 2))

\* One record of a cell; the numbers of bytes and references are in the
\* descriptors.
RecordOf(d, data, refs) ==
  IF refs.ok THEN Return(refs, [d |-> d.v, data |-> data.v, refs |-> refs.v]) ELSE refs
read_refs(d, data, size) ==
  IF data.ok THEN RecordOf(d, data, read_uints(data, d.v[1] % 8, size)) ELSE data
read_data(d, size) ==
  IF ~d.ok THEN d
  ELSE IF BitSet(d.v[1], 4) \/ BitSet(d.v[1], 7) THEN Failed(d)
  ELSE read_refs(d, take_bytes(d, div_ceil(d.v[2], 2)), size)
parse_record(r, size) == read_data(take_bytes(r, 2), size)

\* Nothing is left after the last record.
RECURSIVE parse_records(_, _, _)
parse_records(l, n, size) ==
  IF ~l.ok THEN l
  ELSE IF n = 0 THEN (IF l.data = <<>> THEN l ELSE Failed(l))
  ELSE parse_records(Extend(l, parse_record(l, size)), n - 1, size)

\* The bits of a cell: its last byte, if it is not full, ends with a top-up bit
\* after one data bit at least.
decode_cell_data(data, d2) ==
  LET bits == FromBytes(data)
      ones == {i \in 1 .. ByteWidth : bits[Len(bits) - ByteWidth + i] = 1}
  IN  IF d2 % 2 = 0 THEN {bits}
      ELSE IF ones = {} THEN {}
      ELSE IF Max(ones) = 1 THEN {}
      ELSE {SubSeq(bits, 1, Len(bits) - ByteWidth + Max(ones) - 1)}

\* The cell of a record, unless its references lead back to it.
RECURSIVE build_parsed_cell(_, _, _)
build_parsed_cell(records, i, visiting) ==
  LET rec == records[i + 1]
      sound == \A k \in DOMAIN rec.refs :
                 rec.refs[k] < Len(records) /\ rec.refs[k] \notin visiting \cup {i}
      below == [k \in DOMAIN rec.refs |->
                  build_parsed_cell(records, rec.refs[k], visiting \cup {i})]
      bits == decode_cell_data(rec.data, rec.d[2])
      made == {[exotic |-> BitSet(rec.d[1], 3), bits |-> b,
                refs |-> [k \in DOMAIN below |-> CHOOSE c \in below[k] : TRUE]] : b \in bits}
  IN  IF ~sound THEN {}
      ELSE IF \E k \in DOMAIN below : below[k] = {} THEN {}
      ELSE {c \in made : ValidCell(c) /\ level(c) = (rec.d[1] \div 32) % 4}

\* One of each, if there is one of each.
All(sets) ==
  IF \E i \in DOMAIN sets : sets[i] = {} THEN {} ELSE {[i \in DOMAIN sets |-> CHOOSE x \in sets[i] : TRUE]}

build_cells(r) ==
  IF r.ok THEN All([i \in DOMAIN r.v |-> build_parsed_cell(r.v, i - 1, {})]) ELSE {}
parse_cells(layout) ==
  build_cells(parse_records(BytesReader(layout.cells), layout.count, layout.size))

deserialize_boc_roots(bag) ==
  IF bag.magic # "generic" THEN {}
  ELSE UNION {{[i \in DOMAIN l.roots |-> cells[l.roots[i] + 1]] : cells \in parse_cells(l)} :
                l \in parse_boc_generic_layout(bag)}

deserialize_boc(bag) == {roots[1] : roots \in {s \in deserialize_boc_roots(bag) : Len(s) = 1}}

-----------------------------------------------------------------------------
\* inspect_boc: the hashes of the roots, from the records alone.

RECURSIVE compute_raw_cell_hash(_, _, _)
compute_raw_cell_hash(records, i, visiting) ==
  LET rec == records[i + 1]
      below == [k \in DOMAIN rec.refs |->
                  compute_raw_cell_hash(records, rec.refs[k], visiting \cup {i})]
      Below(k) == CHOOSE h \in below[k] : TRUE
  IN  IF \E k \in DOMAIN rec.refs : rec.refs[k] \in visiting \cup {i} THEN {}
      ELSE IF \E k \in DOMAIN below : below[k] = {} THEN {}
      ELSE {[depth |-> IF rec.refs = <<>> THEN 0
                       ELSE 1 + Max({Below(k).depth : k \in DOMAIN below}),
             hash |-> << rec.d, rec.data, [k \in DOMAIN below |-> Below(k).depth],
                         [k \in DOMAIN below |-> Below(k).hash] >>]}

check_raw_cells(r) ==
  IF /\ r.ok
     /\ \A i \in DOMAIN r.v :
          /\ Len(r.v[i].refs) <= MaxCellRefs
          /\ \A k \in DOMAIN r.v[i].refs : r.v[i].refs[k] < Len(r.v)
    THEN {r.v} ELSE {}
parse_raw_cells(layout) ==
  check_raw_cells(parse_records(BytesReader(layout.cells), layout.count, layout.size))

inspect_boc(bag) ==
  IF bag.magic # "generic" THEN {}
  ELSE UNION {
         UNION {{[i \in DOMAIN l.roots |-> hashes[l.roots[i] + 1].hash] :
                   hashes \in All([i \in DOMAIN records |-> compute_raw_cell_hash(records, i - 1, {})])}
                : records \in parse_raw_cells(l)}
         : l \in parse_boc_generic_layout(bag)}

=============================================================================
