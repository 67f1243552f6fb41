------------------------------ MODULE TvmStack ------------------------------
(***************************************************************************)
(* The stack of a get-method in cells (src/tvm/stack.rs): its length and a *)
(* chain of nodes with up to three entries, each in a cell of its own.  An *)
(* entry is <<kind, what it holds>>.  Integers are written in bytes of     *)
(* IntByte bits, two's complement.                                         *)
(***************************************************************************)
EXTENDS TlbCodec

IntByte == 2
NodeEntries == 3
MaxUnsupported == 127

Null == <<"null", <<>>>>

IntBytes(v) ==
  CHOOSE n \in 1 .. 9 : /\ v \in -2^(IntByte * n - 1) .. 2^(IntByte * n - 1) - 1
                        /\ n > 1 => v \notin -2^(IntByte * (n - 1) - 1) .. 2^(IntByte * (n - 1) - 1) - 1

\* A length of w bits, in as many bits here as Narrow leaves, and the bytes.
LengthBits(w) == IF w = 16 THEN 4 ELSE 8
store_sized(b, w, bits, n) ==
  store_bits(store_bits(b, ToBits(n, LengthBits(w)), w), bits, ByteWidth * n)

EntryTag(b, tag) == store_bits(b, ToBits(tag, ByteWidth), ByteWidth)

RECURSIVE encode_entries(_), encode_entry_chain(_), store_entries(_, _), encode_entry(_)
encode_entries(entries) ==
  LET b == store_bits(NewBuilder, ToBits(Len(entries), 4), 24)
  IN  IF entries = <<>> THEN b ELSE store_child(b, encode_entry_chain(entries))

encode_entry_chain(entries) ==
  LET count == IF Len(entries) < NodeEntries THEN Len(entries) ELSE NodeEntries
      more == Len(entries) > count
      head == store_bits(store_bits(NewBuilder, ToBits(count, ByteWidth), ByteWidth),
                         IF more THEN <<1>> ELSE <<0>>, 1)
      node == store_entries(head, SubSeq(entries, 1, count))
  IN  IF more THEN store_child(node, encode_entry_chain(SubSeq(entries, count + 1, Len(entries))))
      ELSE node

store_entries(b, entries) ==
  IF entries = <<>> THEN b
  ELSE store_entries(store_child(b, encode_entry(Head(entries))), Tail(entries))

encode_entry(e) ==
  CASE e[1] = "null" -> EntryTag(NewBuilder, 0)
    [] e[1] = "int" -> store_sized(EntryTag(NewBuilder, 1), 16,
                                   ToBits(e[2], IntByte * IntBytes(e[2])), IntBytes(e[2]))
    [] e[1] = "cell" -> store_refs(EntryTag(NewBuilder, 2), <<e[2]>>)
    [] e[1] = "slice" -> store_refs(EntryTag(NewBuilder, 3), <<e[2]>>)
    [] e[1] = "tuple" -> store_child(EntryTag(NewBuilder, 4), encode_entries(e[2]))
    [] e[1] = "list" -> store_child(EntryTag(NewBuilder, 5), encode_entries(e[2]))
    [] e[1] = "unsupported" ->
         IF Len(e[2]) <= MaxUnsupported
           THEN store_sized(EntryTag(NewBuilder, 255), 8, e[2], Len(e[2]))
           ELSE Refuse(NewBuilder)

-----------------------------------------------------------------------------
\* Decoding: none for an error.  What follows an entry in its cell, or a node
\* in its, is not looked at.

Uint(r, w) == LET l == load_bits(r, w) IN IF l.ok THEN Return(l, Number(l.v)) ELSE l

RECURSIVE decode_entries(_), decode_entry_chain(_, _), decode_entry(_), decode_refs(_)
decode_entries(c) ==
  LET len == Uint(Reader(c), 4)
      chain == load_reference(len)
  IN  IF ~len.ok THEN {}
      ELSE IF len.v = 0 THEN {<<>>}
      ELSE IF ~chain.ok THEN {}
      ELSE {es \in decode_entry_chain(chain.v, len.v) : Len(es) = len.v}

decode_entry_chain(c, remaining) ==
  LET count == Uint(Reader(c), ByteWidth)
      has_next == load_bits(count, 1)
      refs == has_next.s.refs
      entries == decode_refs(SubSeq(refs, 1, count.v))
      rest == IF has_next.v = <<0>> THEN {<<>>}
              ELSE decode_entry_chain(refs[count.v + 1], remaining - count.v)
  IN  IF ~count.ok \/ ~has_next.ok THEN {}
      ELSE IF count.v > NodeEntries \/ count.v > remaining THEN {}
      ELSE IF Len(refs) < count.v + has_next.v[1] THEN {}
      ELSE {es[1] \o es[2] : es \in entries \X rest}

decode_refs(refs) ==
  IF refs = <<>> THEN {<<>>}
  ELSE {<<es[1]>> \o es[2] : es \in decode_entry(refs[1]) \X decode_refs(Tail(refs))}

decode_entry(c) ==
  LET tag == Uint(Reader(c), ByteWidth)
      ref == load_reference(tag)
      Held(kind) == IF ref.ok THEN {<<kind, ref.v>>} ELSE {}
      Nested(kind) == IF ref.ok THEN {<<kind, es>> : es \in decode_entries(ref.v)} ELSE {}
      Sized(w, unit) ==
        LET len == Uint(tag, LengthBits(w)) IN IF len.ok THEN load_bits(len, unit * len.v) ELSE len
      int == Sized(16, IntByte)
      bytes == Sized(8, 1)
      Signed(bits) == IF bits # <<>> /\ bits[1] = 1 THEN Number(bits) - 2^Len(bits) ELSE Number(bits)
  IN  IF ~tag.ok THEN {}
      ELSE CASE tag.v = 0 -> {Null}
             [] tag.v = 1 -> IF int.ok THEN {<<"int", Signed(int.v)>>} ELSE {}
             [] tag.v = 2 -> Held("cell")
             [] tag.v = 3 -> Held("slice")
             [] tag.v = 4 -> Nested("tuple")
             [] tag.v = 5 -> Nested("list")
             [] tag.v = 255 -> IF bytes.ok THEN {<<"unsupported", bytes.v>>} ELSE {}
             [] OTHER -> {}

=============================================================================
