-------------------------------- MODULE Abi --------------------------------
(***************************************************************************)
(* Contract calls by an ABI (src/abi): values of declared types as entries *)
(* of a get-method's stack (model.rs) or as the body of a message          *)
(* (codec.rs, map.rs).  Operators return a set, empty for an error.        *)
(***************************************************************************)
EXTENDS TlbWallets, TvmStack

AbiInt(n) == [t |-> "int", n |-> n]
AbiUint(n) == [t |-> "uint", n |-> n]
AbiType(t) == [t |-> t]                  \* bool, bytes, string, address, cell, slice
AbiTuple(fields) == [t |-> "tuple", fields |-> fields]
AbiArray(item) == [t |-> "array", item |-> item]
AbiOptional(item) == [t |-> "optional", item |-> item]
AbiMap(key, item) == [t |-> "map", key |-> key, item |-> item]

\* A standard address without anycast.
AbiAddress ==
  Sum(<< Con("", Tag(<<1, 0, 0>>),
             << <<"workchain", I(8)>>, <<"hash_part", Hash>>, <<"flags", Flags>> >>) >>)

\* map_key_bits: integers only.
KeyLayout(ty) ==
  CASE ty.t = "int" -> I(ty.n) [] ty.t = "uint" -> U(ty.n) [] OTHER -> Unsupported

\* The layout of a value in a body, as it is written and as it is read.
RECURSIVE store_body_value(_)
store_body_value(ty) ==
  CASE ty.t \in {"int", "uint"} -> KeyLayout(ty)
    [] ty.t = "bool" -> Bool
    [] ty.t = "bytes" -> Ref(Snake)
    [] ty.t = "string" -> Ref(Text)
    [] ty.t = "address" -> AbiAddress
    [] ty.t \in {"cell", "slice"} -> AnyRef
    [] ty.t = "tuple" -> Row([i \in DOMAIN ty.fields |-> <<i, store_body_value(ty.fields[i])>>])
    [] ty.t = "optional" -> Maybe(store_body_value(ty.item))
    [] ty.t = "map" -> Ref(Dict(KeyLayout(ty.key), store_body_value(ty.item)))
    [] ty.t = "array" -> Unsupported

RECURSIVE load_body_value(_)
load_body_value(ty) ==
  CASE ty.t \in {"int", "uint"} -> KeyLayout(ty)
    [] ty.t = "bool" -> Bool
    [] ty.t = "bytes" -> Ref(Snake)
    [] ty.t = "string" -> Ref(Text)
    [] ty.t = "address" -> AbiAddress
    [] ty.t \in {"cell", "slice"} -> AnyRef
    [] ty.t = "tuple" -> Row([i \in DOMAIN ty.fields |-> <<i, load_body_value(ty.fields[i])>>])
    [] ty.t = "optional" -> Maybe(load_body_value(ty.item))
    [] ty.t = "map" -> Ref(Dict(KeyLayout(ty.key), load_body_value(ty.item)))
    [] ty.t = "array" -> Unsupported

\* The one result of every element of a sequence of results, none if one failed.
AllOf(results) ==
  IF \E i \in DOMAIN results : results[i] = {} THEN {}
  ELSE {[i \in DOMAIN results |-> CHOOSE x \in results[i] : TRUE]}

\* abi_value_to_stack_entry.
RECURSIVE to_stack_entry(_, _)
to_stack_entry(ty, v) ==
  CASE ty.t \in {"int", "uint"} ->
         IF v \in KeyLayout(ty).lo .. KeyLayout(ty).hi THEN {<<"int", v>>} ELSE {}
    [] ty.t = "bool" -> {<<"int", -v>>}
    [] ty.t \in {"bytes", "string", "map"} ->
         {<<"cell", c>> : c \in to_cell(store_body_value(ty).x, v)}
    [] ty.t = "address" -> {<<"slice", c>> : c \in to_cell(AbiAddress, v)}
    [] ty.t \in {"cell", "slice"} -> {<<ty.t, v>>}
    [] ty.t = "tuple" ->
         {<<"tuple", es>> : es \in AllOf([i \in DOMAIN ty.fields |->
                                            to_stack_entry(ty.fields[i], v[2][i])])}
    [] ty.t = "array" ->
         {<<"list", es>> : es \in AllOf([i \in DOMAIN v |-> to_stack_entry(ty.item, v[i])])}
    [] ty.t = "optional" -> IF v = <<>> THEN {Null} ELSE to_stack_entry(ty.item, v[1])

\* abi_value_from_stack_entry.
RECURSIVE from_stack_entry(_, _)
from_stack_entry(ty, e) ==
  CASE ty.t \in {"int", "uint"} ->
         IF e[1] = "int" THEN {e[2]} \cap KeyLayout(ty).lo .. KeyLayout(ty).hi ELSE {}
    [] ty.t = "bool" -> IF e[1] = "int" THEN {-e[2]} \cap {0, 1} ELSE {}
    [] ty.t \in {"bytes", "string", "map"} ->
         IF e[1] = "cell" THEN from_cell(load_body_value(ty).x, e[2]) ELSE {}
    [] ty.t = "address" -> IF e[1] = "slice" THEN from_cell(AbiAddress, e[2]) ELSE {}
    [] ty.t \in {"cell", "slice"} -> IF e[1] = ty.t THEN {e[2]} ELSE {}
    [] ty.t = "tuple" ->
         IF e[1] # "tuple" THEN {}
         ELSE IF Len(e[2]) # Len(ty.fields) THEN {}
         ELSE {<<1, vs>> : vs \in AllOf([i \in DOMAIN ty.fields |->
                                           from_stack_entry(ty.fields[i], e[2][i])])}
    [] ty.t = "array" ->
         IF e[1] # "list" THEN {}
         ELSE AllOf([i \in DOMAIN e[2] |-> from_stack_entry(ty.item, e[2][i])])
    [] ty.t = "optional" ->
         IF e = Null THEN {<<>>} ELSE {<<v>> : v \in from_stack_entry(ty.item, e)}

-----------------------------------------------------------------------------
\* Functions: a kind, a selector and parameters.

NoSelector == <<"none">>
Opcode(digits) == <<"opcode", digits>>
MethodId == <<"method id">>
Function(kind, selector, inputs) == [kind |-> kind, selector |-> selector, inputs |-> inputs]

ensure_get_method_function(f) == f.kind = "get method" /\ f.selector[1] # "opcode"
ensure_message_function(f) == f.kind = "message" /\ f.selector[1] # "method id"

store_selector(f) == IF f.selector = NoSelector THEN Tag(<<>>) ELSE Hex(f.selector[2])

\* encode_get_method_inputs and decode_get_method_outputs, with the cells of the
\* stack between them.
encode_get_method(f, vs) ==
  LET entries == AllOf([i \in DOMAIN f.inputs |-> to_stack_entry(f.inputs[i], vs[i])])
      Made(es) == LET b == encode_entries(es) IN IF b.ok THEN {b.cell} ELSE {}
  IN  IF ~ensure_get_method_function(f) \/ Len(vs) # Len(f.inputs) THEN {}
      ELSE UNION {Made(es) : es \in entries}
decode_get_method(f, c) ==
  UNION {IF Len(es) # Len(f.inputs) THEN {}
         ELSE AllOf([i \in DOMAIN f.inputs |-> from_stack_entry(f.inputs[i], es[i])])
         : es \in decode_entries(c)}

\* encode_message_body, decode_message_body and the payloads of events.
MessageLayout(f) ==
  Tagged(store_selector(f), [i \in DOMAIN f.inputs |-> <<i, store_body_value(f.inputs[i])>>],
                            [i \in DOMAIN f.inputs |-> <<i, load_body_value(f.inputs[i])>>])
encode_message_body(f, vs) ==
  IF ~ensure_message_function(f) \/ Len(vs) # Len(f.inputs) THEN {}
  ELSE to_cell(MessageLayout(f), <<1, vs>>)
decode_message_body(f, c) == {v[2] : v \in from_cell(MessageLayout(f), c)}

\* What is read back of a value: an address with new flags, a map in the order of
\* its keys' bits, so that negative keys come last, and on the stack an absent
\* value for a present but empty one.
RECURSIVE ReadBack(_, _, _)
ReadBack(ty, v, on_stack) ==
  CASE ty.t = "tuple" ->
         <<1, [i \in DOMAIN ty.fields |-> ReadBack(ty.fields[i], v[2][i], on_stack)]>>
    [] ty.t = "address" -> [v EXCEPT ![2][3] = NewFlags]
    [] ty.t = "array" -> [i \in DOMAIN v |-> ReadBack(ty.item, v[i], on_stack)]
    [] ty.t = "map" ->
         LET Order(p, q) == p[1] % 2^Narrow(ty.key.n) < q[1] % 2^Narrow(ty.key.n)
         IN  SortSeq([i \in DOMAIN v |-> <<v[i][1], ReadBack(ty.item, v[i][2], FALSE)>>], Order)
    [] ty.t = "optional" ->
         IF v = <<>> THEN <<>>
         ELSE LET inner == ReadBack(ty.item, v[1], on_stack)
              IN  IF on_stack /\ ty.item.t = "optional" /\ inner = <<>> THEN <<>> ELSE <<inner>>
    [] OTHER -> v

=============================================================================
