--------------------------- MODULE Serialization ---------------------------
(***************************************************************************)
(* The way of a value out of the program and back: it is written to a cell *)
(* (to_cell, the encoders of stacks, ABI calls and wallet ids), the cell   *)
(* travels as it is or in a bag of cells, either may be changed on the     *)
(* way, and what arrives is read.  Addresses travel as text, accounts in   *)
(* the answers of servers.                                                 *)
(***************************************************************************)
EXTENDS Abi, AccountReads

VARIABLES
  type,     \* the type written
  value,    \* the value written
  phase,    \* "value", "refused", "cell", "bag", "damaged bag", "received",
            \* "rejected", "read"
  cell,     \* what the writer made of the value, then what became of it: a cell,
            \* a text or an answer
  bag,      \* the bag the cell is in, or none
  intact,   \* nothing was changed on the way
  out       \* what the reader made of the cell: one value or, for an error, none

vars == <<type, value, phase, cell, bag, intact, out>>

Schema ==
  [Anycast |-> Anycast, MsgAddressInt |-> MsgAddressInt, MsgAddressExt |-> MsgAddressExt,
   MsgAddress |-> MsgAddress, CurrencyCollection |-> CurrencyCollection,
   StateInit |-> StateInit, StateInitWithLibs |-> StateInitWithLibs,
   CommonMsgInfo |-> CommonMsgInfo, CommonMsgInfoRelaxed |-> CommonMsgInfoRelaxed,
   Message |-> Message, MessageRelaxed |-> MessageRelaxed, OutAction |-> OutAction,
   OutList |-> OutList, TrActionPhase |-> TrActionPhase, StorageInfo |-> StorageInfo,
   AccountStorage |-> AccountStorage, Account |-> Account, ShardAccount |-> ShardAccount,
   ShardAccounts |-> ShardAccounts, TrStoragePhase |-> TrStoragePhase,
   TrCreditPhase |-> TrCreditPhase, TrComputePhase |-> TrComputePhase,
   TrBouncePhase |-> TrBouncePhase, TransactionDescr |-> TransactionDescr(Nothing),
   Transaction |-> AnyTransaction, AccountBlock |-> AccountBlock,
   ShardAccountBlocks |-> ShardAccountBlocks, BlockIdExtTlb |-> BlockIdExtTlb,
   ExtBlkRef |-> ExtBlkRef, Block |-> Block, BlockInfo |-> BlockInfo,
   BlockPrevInfo |-> BlockPrevInfo, BlockExtra |-> BlockExtra,
   McBlockExtra |-> McBlockExtra, ValueFlow |-> ValueFlow, ShardState |-> ShardState,
   ShardStateUnsplit |-> ShardStateUnsplit, HashUpdate |-> HashUpdate,
   ConfigParams |-> ConfigParams, JettonTransferPayload |-> JettonTransferPayload,
   JettonBurnPayload |-> JettonBurnPayload,
   JettonInternalTransferPayload |-> JettonInternalTransferPayload,
   NftTransferPayload |-> NftTransferPayload,
   NftOwnershipAssignedPayload |-> NftOwnershipAssignedPayload,
   NftReportStaticDataPayload |-> NftReportStaticDataPayload,
   NftReportRoyaltyParamsPayload |-> NftReportRoyaltyParamsPayload,
   WalletV5R1Data |-> WalletV5R1Data, WalletV4R2Data |-> WalletV4R2Data,
   WalletV5R1ExtendedActionList |-> WalletV5R1ExtendedActionList,
   WalletV5R1ExternalBody |-> WalletV5R1ExternalBody]

-----------------------------------------------------------------------------
\* The values tried: a least one with nothing optional, a great one with
\* everything, its amounts as long as a u64, and each of these changed in one
\* place, at any depth, where amounts also take their full length.
AmountBytes == 8
Shorter(m, n) == IF m < n THEN m ELSE n

Ones(n) == [i \in 1 .. n |-> 1]
RawCell == [exotic |-> FALSE, bits |-> <<1>>, refs |-> <<EmptyCell>>]
Beginning(tag, c) == [c EXCEPT !.bits = tag.bits \o @]

RECURSIVE Base(_, _)
Base(x, great) ==
  CASE x.k = "u" -> IF great THEN x.hi ELSE x.lo
    [] x.k = "tag" -> <<>>
    [] x.k = "var" -> IF great THEN Ones(Shorter(x.max, AmountBytes)) ELSE <<>>
    [] x.k = "bits" -> <<Base(x.x, great), Ones(IF great THEN x.hi ELSE x.lo)>>
    [] x.k = "flags" -> IF great THEN <<FALSE, TRUE>> ELSE NewFlags
    [] x.k = "ref" \/ x = Rest -> IF great THEN RawCell ELSE EmptyCell
    [] x.k = "rest" -> Beginning(x.tags[1], IF great THEN RawCell ELSE EmptyCell)
    [] x.k \in {"child", "leaf"} -> Base(x.x, great)
    [] x.k = "maybe" -> IF great THEN <<Base(x.x, great)>> ELSE <<>>
    [] x.k = "either" -> IF great THEN <<1, Base(x.y, great)>> ELSE <<0, Base(x.x, great)>>
    [] x.k = "chain" -> IF great THEN <<Base(x.x, great)>> ELSE <<>>
    [] x.k = "list" -> <<Base(x.x, great)>>
    [] x.k = "sum" ->
         LET c == IF great THEN Len(x.cs) ELSE 1
         IN  <<c, [i \in 1 .. Len(x.cs[c].fields) |-> Base(x.cs[c].fields[i][2], great)]>>

Bases(x) ==
  {Base(x, FALSE), Base(x, TRUE)}
    \cup IF x.k = "sum" THEN {<<c, Base(Sum(<<x.cs[c]>>), FALSE)[2]>> : c \in DOMAIN x.cs} ELSE {}

\* What is in a cell of its own is changed as a whole.
RECURSIVE Near(_, _)
Near(x, great) ==
  CASE x.k = "u" -> {Base(x, ~great)}
    [] x.k = "tag" -> {}
    [] x.k = "var" -> {<<>>, <<1>>, Ones(x.max)}
    [] x.k = "bits" -> {<<Base(x.x, great), Ones(IF great THEN x.lo ELSE x.hi)>>}
                         \cup {<<v, Base(x, great)[2]>> : v \in Near(x.x, great)}
    [] x.k = "flags" -> BOOLEAN \X BOOLEAN
    [] x.k = "ref" \/ x = Rest -> {Base(x, ~great)}
    [] x.k = "rest" -> {Beginning(x.tags[i], RawCell) : i \in DOMAIN x.tags} \cup {RawCell, EmptyCell}
    [] x.k = "leaf" -> Near(x.x, great)
    [] x.k = "child" -> Bases(x.x)
    [] x.k = "maybe" -> {<<>>} \cup {<<v>> : v \in Near(x.x, great) \cup {Base(x.x, great)}}
    [] x.k = "either" ->
         {<<0, v>> : v \in Near(x.x, great) \cup {Base(x.x, great)}}
           \cup {<<1, v>> : v \in Near(x.y, great) \cup {Base(x.y, great)}}
    [] x.k \in {"chain", "list"} ->
         {[i \in 1 .. n |-> Base(x.x, great)] : n \in 0 .. MaxOutListActions + 1}
           \cup {<<v>> : v \in Near(x.x, great)}
           \cup {<<Base(x.x, great), v>> : v \in Near(x.x, great)}
    [] x.k = "sum" ->
         UNION {LET fields == x.cs[c].fields
                    base == [i \in 1 .. Len(fields) |-> Base(fields[i][2], great)]
                IN  {<<c, base>>}
                      \cup UNION {{<<c, [base EXCEPT ![i] = v]>> :
                                     v \in Near(fields[i][2], great)} :
                                   i \in 1 .. Len(fields)}
                : c \in 1 .. Len(x.cs)}

Values(x) == Near(x, FALSE) \cup Near(x, TRUE) \cup {Base(x, FALSE), Base(x, TRUE)}

\* What may become of a cell: a bit or a reference more or less, a bit flipped,
\* in it or in a cell below it.
RECURSIVE Longer(_), Changed(_)
Longer(c) ==
  {[c EXCEPT !.bits = Append(@, b)] : b \in {0, 1}}
    \cup {[c EXCEPT !.refs = Append(@, EmptyCell)]}
    \cup UNION {{[c EXCEPT !.refs[i] = d] : d \in Longer(c.refs[i])} : i \in DOMAIN c.refs}
Changed(c) ==
  {[c EXCEPT !.bits[i] = 1 - @] : i \in DOMAIN c.bits}
    \cup {[c EXCEPT !.bits = Front(@)] : i \in {1} \cap DOMAIN c.bits}
    \cup {[c EXCEPT !.refs = Front(@)] : i \in {1} \cap DOMAIN c.refs}
    \cup UNION {{[c EXCEPT !.refs[i] = d] : d \in Changed(c.refs[i])} : i \in DOMAIN c.refs}

-----------------------------------------------------------------------------
\* Values of the types that have no layout of their own.

Node(bits, refs) == [exotic |-> FALSE, bits |-> bits, refs |-> refs]
Exotic(bytes, refs) == [exotic |-> TRUE, bits |-> FromBytes(bytes), refs |-> refs]
Pruned(mask) ==
  Exotic(<<1, mask>> \o [i \in 1 .. count_ones(mask) * (HashBytes + DepthBytes) |-> 7], <<>>)
RECURSIVE Line(_)
Line(n) == IF n = 0 THEN Node(ToBits(165, 8), <<>>) ELSE Node(ToBits(n, 3), <<Line(n - 1)>>)

\* Bags of one, two, three, IndexBase and more cells, shared children, and every
\* kind of exotic cell.
Cells ==
  {EmptyCell, Node(<<1, 0, 1>>, <<>>), Line(1), Line(IndexBase - 1), Line(IndexBase),
   Node(<<>>, <<Line(1), Line(0)>>),
   Node(<<1>>, <<Node(<<0>>, <<Line(0)>>), Node(<<1>>, <<Line(0)>>)>>),
   Node(<<1>>, <<Line(0), Line(0), EmptyCell, EmptyCell>>),
   Pruned(1), Exotic(<<2, 7>>, <<>>), Exotic(<<3, 7, 7>>, <<Line(0)>>),
   Exotic(<<3, 7, 7>>, <<Pruned(1)>>), Exotic(<<3, 7, 7>>, <<Node(<<>>, <<Pruned(5)>>)>>),
   Exotic(<<4, 7, 7, 7, 7>>, <<Pruned(2), Line(0)>>), Node(<<0>>, <<Pruned(5), Line(0)>>)}

Entries ==
  {<<"int", n>> : n \in {-9, -3, -2, 0, 1, 2, 8}}
    \cup {Null, <<"cell", RawCell>>, <<"slice", EmptyCell>>, <<"unsupported", <<1, 0>>>>,
          <<"unsupported", Ones(MaxUnsupported)>>, <<"unsupported", Ones(MaxUnsupported + 1)>>,
          <<"tuple", <<>>>>, <<"list", <<Null, <<"tuple", <<<<"int", 1>>, Null>>>>>>>>}
Stacks ==
  {<<e>> : e \in Entries}
    \cup {[i \in 1 .. n |-> <<"int", i>>] : n \in 0 .. 2 * NodeEntries + 1}
    \cup {<<<<"tuple", [i \in 1 .. NodeEntries + 1 |-> e]>>, e>> : e \in Entries}

\* Three bytes, and more than a cell holds.
ShortBytes == 3
LongBytes == 130
Addresses == {Base(AbiAddress, great) : great \in BOOLEAN}

RECURSIVE AbiValues(_)
AbiValues(ty) ==
  CASE ty.t \in {"int", "uint"} -> LET x == KeyLayout(ty) IN {x.lo - 1, x.lo, x.hi, x.hi + 1}
    [] ty.t = "bool" -> {0, 1}
    [] ty.t = "bytes" -> {<<>>, Ones(ShortBytes), Ones(LongBytes)}
    [] ty.t = "string" -> {<<>>, [i \in 1 .. LongBytes |-> 0]}
    [] ty.t = "address" -> Addresses
    [] ty.t \in {"cell", "slice"} -> {EmptyCell, RawCell}
    [] ty.t = "tuple" ->
         {<<1, <<a, b>>>> : a \in AbiValues(ty.fields[1]), b \in AbiValues(ty.fields[2])}
    [] ty.t = "array" -> {<<>>} \cup {<<v, w>> : v, w \in AbiValues(ty.item)}
    [] ty.t = "optional" -> {<<>>} \cup {<<v>> : v \in AbiValues(ty.item)}
    [] ty.t = "map" ->
         {<<>>} \cup {<<<<k, v>>, <<l, v>>>> : k, l \in AbiValues(ty.key), v \in AbiValues(ty.item)}

Parameters ==
  {AbiType(t) : t \in {"bool", "bytes", "string", "address", "cell", "slice"}}
    \cup {AbiInt(3), AbiUint(3), AbiUint(1), AbiArray(AbiUint(3)),
          AbiTuple(<<AbiType("address"), AbiOptional(AbiType("cell"))>>),
          AbiOptional(AbiOptional(AbiType("bool"))), AbiArray(AbiOptional(AbiInt(2))),
          AbiMap(AbiInt(3), AbiType("bool")), AbiMap(AbiUint(2), AbiOptional(AbiType("bytes"))),
          AbiMap(AbiType("bool"), AbiType("bool")), AbiMap(AbiUint(2), AbiArray(AbiType("bool")))}
Selectors == {NoSelector, MethodId, Opcode(<<0, 15, 8, 10, 7, 14, 10, 5>>)}
\* One parameter and, before and after it, four more.
Calls ==
  LET Four == [i \in 1 .. 4 |-> AbiType("cell")]
      FourCells == [i \in 1 .. 4 |-> RawCell]
  IN  UNION {{<<Function(kind, s, <<p>>), <<v>>>> : v \in AbiValues(p), s \in Selectors}
               \cup {<<Function(kind, s, Append(Four, p)), Append(FourCells, v)>> :
                       v \in AbiValues(p), s \in {NoSelector}}
             : kind \in {"get method", "message"}, p \in Parameters}

\* Two networks' global ids, -3 and -239 in eight bits.
Networks == {ToBits(253, IdBits), ToBits(17, IdBits)}
WalletIds ==
  {<<n, v>> : n \in Networks, v \in Values(WalletV5R1Context) \cup {<<1, <<0, 0, 4>>>>, <<2, <<128>>>>}}

Contents ==
  {<<"OffChain", bytes>> : bytes \in AbiValues(AbiType("bytes"))}
    \cup {<<"Unsupported", Node(<<1, 1, 1, 1, 1, 1, 1, 1>>, <<>>)>>, <<"Unsupported", EmptyCell>>}
    \cup {<<"OnChain", <<<<0, v>>, <<3, w>>>>>> :
            v, w \in {<<"Snake", b>> : b \in AbiValues(AbiType("bytes"))}
                      \cup {<<"Chunked", <<Ones(ShortBytes), Ones(LongBytes)>>>>,
                            <<"Malformed", <<>>>>, <<"Unsupported", <<1, 1, 1, 1, 1, 1, 1, 1, 0>>>>}}

\* Addresses with every pair of flags; -2 is a workchain TL-B has and texts do not.
AddressValues ==
  {Address(w, h, b, t) : w \in {-2, -1, 0},
                         h \in {ToBits(0, 16), ToBits(51966, 16)},
                         b \in BOOLEAN, t \in BOOLEAN}

\* An account of the address asked for: none, and one of each state, with and
\* without an anycast.
AccountAt(anycast, workchain, hash_part, lt, state) ==
  <<2, <<<<2, <<anycast, workchain, hash_part, NewFlags>>>>, Base(StorageInfo, FALSE),
         <<1, <<lt, Base(CurrencyCollection, TRUE), state>>>>>>>>
Anycasts == {Base(MaybeAnycast, great) : great \in BOOLEAN}
AccountStates == Bases(AccountState)
AccountQueries ==
  {[asked |-> Address(0, 1, b, t), shard_account |-> <<1, <<account, 2, 3>>>>] :
     b \in BOOLEAN, t \in BOOLEAN,
     account \in {NoAccount} \cup {AccountAt(a, 0, 1, 2, s) : a \in Anycasts, s \in AccountStates}}

\* Answers of servers, which prove an account by its shard account.
CellBag(c) == <<Assemble(collect_cells(<<>>, c), <<c>>, FALSE, FALSE)>>
BagOf(x, v) == CellBag(CHOOSE c \in to_cell(x, v) : TRUE)
Answer(shard_account) ==
  [shard_proof |-> <<>>, proof |-> BagOf(ShardAccount, shard_account),
   state |-> BagOf(Account, AccountOf(shard_account))]

\* The answer with its parts left out, cut, with a second root, or taken from
\* answers for other addresses and from other blocks.
AnswersForOthers ==
  {Answer(<<1, <<account, 2, 3>>>>) :
     account \in {NoAccount, AccountAt(<<>>, 0, 1, 3, <<1, <<>>>>)}
                  \cup {AccountAt(a, 0, 0, 2, <<1, <<>>>>) : a \in Anycasts}
                  \cup {AccountAt(a, -1, 1, 2, <<1, <<>>>>) : a \in Anycasts}}
TwoRoots(proof) ==
  {<<Assemble(collect_cells(<<>>, c), <<c, c.refs[1]>>, FALSE, FALSE)>> : c \in deserialize_boc(proof[1])}
Cut(b) == <<[b[1] EXCEPT !.bytes = Front(@)]>>
Variants(answer, two_roots, others) ==
  {[shard_proof |-> sp, proof |-> p, state |-> s] :
     sp \in {<<>>, Cut(answer.proof)} \cup two_roots,
     p \in {<<>>, answer.proof, Cut(answer.proof)} \cup two_roots \cup {a.proof : a \in others},
     s \in {<<>>, answer.state, Cut(answer.state)} \cup {a.state : a \in others}}
OtherAnswers(answer) == Variants(answer, TwoRoots(answer.proof), AnswersForOthers)

-----------------------------------------------------------------------------
\* The writer and the reader of a type.

Encode(schema, t, v) ==
  CASE t = "Cell" -> {v}
    [] t = "TvmStack" -> LET b == encode_entries(v) IN IF b.ok THEN {b.cell} ELSE {}
    [] t = "Abi" -> IF v[1].kind = "message" THEN encode_message_body(v[1], v[2])
                    ELSE encode_get_method(v[1], v[2])
    [] t = "WalletV5R1WalletId" -> pack(v[1], v[2])
    [] t = "Tep64Content" -> write_tep64_content(v)
    [] t = "Address" -> {to_raw(v), to_user_friendly(v, TRUE), to_user_friendly(v, FALSE)}
    [] t = "AccountState" -> {Answer(v.shard_account)}
    [] t = "WalletV5R1ExternalBody" -> build_signed_external_body(v)
    [] OTHER -> to_cell(schema[t], v)

\* A reader knows the function called and the network, not the values.
Decode(schema, t, v, c) ==
  CASE t = "Cell" -> {c}
    [] t = "TvmStack" -> decode_entries(c)
    [] t = "Abi" -> {<<v[1], vs>> : vs \in IF v[1].kind = "message" THEN decode_message_body(v[1], c)
                                         ELSE decode_get_method(v[1], c)}
    [] t = "WalletV5R1WalletId" -> {<<v[1], context>> : context \in unpack(c, v[1])}
    [] t = "Tep64Content" -> parse_tep64_content(c)
    [] t = "Address" -> from_str(c)
    [] t = "AccountState" -> from_raw_verified(c, v.asked)
    [] OTHER -> from_cell(schema[t], c)

HasLayout(t) ==
  t \notin {"Cell", "TvmStack", "Abi", "WalletV5R1WalletId", "Tep64Content", "Address",
            "AccountState"}
ValuesOf(schema) == UNION {{<<t, v>> : v \in Values(schema[t])} : t \in DOMAIN schema}
BasesOf(schema) == [t \in DOMAIN schema |-> Bases(schema[t])]
SchemaBases == BasesOf(Schema)

Init ==
  /\ bag = {}
  /\ out = {}
  /\ intact = TRUE
  /\ \/ type = "Cell" /\ value \in Cells /\ cell = value /\ phase = "cell"
     \/ /\ cell = EmptyCell
        /\ phase = "value"
        /\ \/ type = "TvmStack" /\ value \in Stacks
           \/ type = "Abi" /\ value \in Calls
           \/ type = "WalletV5R1WalletId" /\ value \in WalletIds
           \/ type = "Tep64Content" /\ value \in Contents
           \/ type = "Address" /\ value \in AddressValues
           \/ type = "AccountState" /\ value \in AccountQueries
           \/ \E tv \in ValuesOf(Schema) : type = tv[1] /\ value = tv[2]

ToCell(schema) ==
  /\ phase = "value"
  /\ LET made == Encode(schema, type, value)
     IN  \/ made = {} /\ phase' = "refused" /\ UNCHANGED cell
         \/ phase' = "cell" /\ cell' \in made
  /\ UNCHANGED <<type, value, bag, intact, out>>

\* A bag of this program, or of another writer.  Of a type with a layout, only the
\* cells of a great value and of a least one of every constructor travel in bags,
\* or are changed.
Serialize(bases) ==
  /\ phase = "cell"
  /\ type \in {"Cell", "TvmStack", "Tep64Content"} \/ (HasLayout(type) /\ value \in bases[type])
  /\ \E has_crc32 \in BOOLEAN :
       \/ \E b \in serialize_boc(cell, has_crc32) : bag' = {b}
       \/ type = "Cell" /\ bag' = {ForeignBag(cell, has_crc32)}
  /\ phase' = "bag"
  /\ UNCHANGED <<type, value, cell, intact, out>>

\* One byte more, less or different, or another magic number.
DamageBag ==
  /\ phase = "bag"
  /\ type = "Cell"
  /\ bag' \in UNION {{{[b EXCEPT !.magic = "other"]}, {[b EXCEPT !.bytes = Append(@, 0)]},
                       {[b EXCEPT !.bytes = Front(@)]}}
                       \cup {{[b EXCEPT !.bytes[i] = n]} : i \in DOMAIN b.bytes,
                               n \in {0, 1, 2, 3, 9, 16, 128, 255}} : b \in bag}
  /\ bag' # bag
  /\ phase' = "damaged bag"
  /\ intact' = FALSE
  /\ UNCHANGED <<type, value, cell, out>>

Deserialize ==
  /\ phase \in {"bag", "damaged bag"}
  /\ LET made == UNION {deserialize_boc(b) : b \in bag}
     IN  \/ made = {} /\ phase' = "rejected" /\ UNCHANGED cell
         \/ phase' = "received" /\ cell' \in made
  /\ bag' = {}
  /\ UNCHANGED <<type, value, intact, out>>

FromCell(schema) ==
  /\ phase \in {"cell", "received"}
  /\ out' = Decode(schema, type, value, cell)
  /\ phase' = "read"
  /\ UNCHANGED <<type, value, cell, bag, intact>>

\* A changed cell arrives.
FromDamagedCell(schema, bases) ==
  /\ phase = "cell"
  /\ HasLayout(type)
  /\ value \in bases[type]
  /\ cell' \in Longer(cell) \cup Changed(cell)
  /\ out' = from_cell(schema[type], cell')
  /\ phase' = "read"
  /\ intact' = FALSE
  /\ UNCHANGED <<type, value, bag>>

\* A friendly address is typed with one character wrong, or with one left out.
FromMistypedText ==
  /\ phase = "cell"
  /\ type = "Address"
  /\ cell.form = "friendly"
  /\ cell' \in Mistyped(cell)
  /\ out' = from_str(cell')
  /\ phase' = "read"
  /\ intact' = FALSE
  /\ UNCHANGED <<type, value, bag>>

FromOtherAnswer ==
  /\ phase = "cell"
  /\ type = "AccountState"
  /\ cell' \in OtherAnswers(cell)
  /\ out' = from_raw_verified(cell', value.asked)
  /\ phase' = "read"
  /\ intact' = FALSE
  /\ UNCHANGED <<type, value, bag>>

Steps(schema, bases) ==
  \/ ToCell(schema) \/ Serialize(bases) \/ DamageBag \/ Deserialize \/ FromCell(schema)
  \/ FromDamagedCell(schema, bases) \/ FromMistypedText \/ FromOtherAnswer

Next == Steps(Schema, SchemaBases)

Spec == Init /\ [][Next]_vars

-----------------------------------------------------------------------------
\* What arrives of a value with a layout: a set, empty if the reader has a limit
\* that the writer does not have.
RECURSIVE Arrives(_, _)
Arrives(x, v) ==
  CASE x.k = "flags" -> {NewFlags}
    [] x.k \in {"child", "leaf"} -> Arrives(x.x, v)
    [] x.k = "maybe" -> IF v = <<>> THEN {<<>>} ELSE {<<w>> : w \in Arrives(x.x, v[1])}
    [] x.k = "either" -> {<<v[1], w>> : w \in Arrives(IF v[1] = 0 THEN x.x ELSE x.y, v[2])}
    [] x.k \in {"chain", "list"} ->
         IF Len(v) > MaxOutListActions THEN {} ELSE AllOf([i \in DOMAIN v |-> Arrives(x.x, v[i])])
    [] x.k = "sum" ->
         {<<v[1], fields>> :
            fields \in AllOf([i \in DOMAIN v[2] |-> Arrives(x.cs[v[1]].fields[i][2], v[2][i])])}
    [] OTHER -> {v}

\* The payload of the value does not begin with the tag its reader wants.
Mislabelled(x, v) ==
  x.k = "sum" /\ \E c \in DOMAIN x.rs :
    /\ x.rs[c].kept
    /\ x.rs[c].name = x.cs[v[1]].name
    /\ ~IsPrefix(x.rs[c].tag.bits, v[2][1].bits)

\* What is read when the value written arrives.
Expected(schema) ==
  CASE type = "Abi" ->
         {<<value[1], [i \in DOMAIN value[2] |->
                         ReadBack(value[1].inputs[i], value[2][i], value[1].kind = "get method")]>>}
    [] type = "Address" ->
         {IF cell.form = "raw" THEN NewAddress(value.workchain, value.hash_part) ELSE value}
    [] type = "AccountState" ->
         {[shard_proof |-> <<>>, proof |-> <<(CHOOSE h \in inspect_boc(cell.proof[1]) : TRUE)>>,
           shard_account |-> <<value.shard_account>>,
           account |-> <<AccountOf(value.shard_account)>>]}
    [] HasLayout(type) ->
         Arrives(schema[type], IF type = "WalletV5R1ExternalBody" THEN NormalBody(value) ELSE value)
    [] OTHER -> {value}

\* Texts have no workchain below -1.  An account that exists is found only for an
\* address with the flags of Address::new: those of the address asked for are
\* compared with them.
CanBeRead ==
  CASE type = "Address" -> validate_workchain(value.workchain)
    [] type = "AccountState" ->
         IsFull(AccountOf(value.shard_account))
           => value.asked.is_bounceable /\ ~value.asked.is_test_only
    [] OTHER -> TRUE

ArrivesIntact(schema) ==
  IF HasLayout(type) /\ Mislabelled(schema[type], value) THEN value \notin out
  ELSE out = IF CanBeRead THEN Expected(schema) ELSE {}

\* What store_tlb or an encoder writes is read back by the load_tlb or the decoder
\* of its type, which is code of its own: its tags tell the constructors apart as
\* they were written, fields are read in the order and the width they were written
\* in, a stack keeps its entries and their order over the nodes of its chain, an ABI
\* call its values, and nothing is left over.  What is lost on the way is the flags
\* of an address outside a friendly text, the list of extended actions that is too
\* long for its reader, and the payload of ValueFlow or ShardState that was given
\* without the tag of its constructor: that is refused or taken for another one.
RoundTrip == phase = "read" /\ intact => ArrivesIntact(Schema)

RECURSIVE HoldsDictionary(_)
HoldsDictionary(x) ==
  CASE x.k = "leaf" -> TRUE
    [] x.k \in {"child", "maybe", "bits", "chain", "list"} -> HoldsDictionary(x.x)
    [] x.k = "either" -> HoldsDictionary(x.x) \/ HoldsDictionary(x.y)
    [] x.k = "sum" -> \E c \in DOMAIN x.cs : \E i \in DOMAIN x.cs[c].fields :
                        HoldsDictionary(x.cs[c].fields[i][2])
    [] OTHER -> FALSE

\* The cell c without what follows the values in some of the cells below it.
RECURSIVE Trimmed(_, _)
Trimmed(c, d) ==
  /\ IsPrefix(d.bits, c.bits)
  /\ Len(d.refs) <= Len(c.refs)
  /\ \A i \in DOMAIN d.refs : Trimmed(c.refs[i], d.refs[i])

WouldWrite(x, v) ==
  \E d \in to_cell(x, v) :
     \/ d = cell
     \/ HoldsDictionary(x) /\ d.bits = cell.bits /\ Trimmed(cell, d)

\* from_cell accepts a cell only as what to_cell writes for the value it returns,
\* so that a parsed value has the hash of the cell it came from.  The exception
\* is what follows the value in a leaf of a HashmapE: it is dropped.
Canonical ==
  HasLayout(type) => \A v \in out : WouldWrite(Schema[type], v)

RECURSIVE Bulky(_, _)
Bulky(x, v) ==
  CASE x.k = "bits" -> v[2] # <<>>
    [] x.k = "rest" -> v # EmptyCell
    [] x.k \in {"child", "leaf"} -> Bulky(x.x, v)
    [] x.k = "maybe" -> v # <<>> /\ Bulky(x.x, v[1])
    [] x.k = "either" ->
         IF v[1] = 0 THEN x.x.k # "rest" \/ Bulky(x.x, v[2]) ELSE Bulky(x.y, v[2])
    [] x.k = "chain" -> Len(v) > MaxOutListActions \/ \E i \in DOMAIN v : Bulky(x.x, v[i])
    [] x.k = "list" -> v = <<>> \/ \E i \in DOMAIN v : Bulky(x.x, v[i])
    [] x.k = "sum" -> \E i \in DOMAIN v[2] : Bulky(x.cs[v[1]].fields[i][2], v[2][i])
    [] OTHER -> FALSE

\* A value with all its optional parts, amounts up to a u64 and one of them
\* longer, fits the 1023 bits and 4 references of its cells: to_cell refuses
\* only what holds an anycast prefix, a long address, something inline that could
\* have been a reference, too many actions or an empty list of extended ones.
RefusedForAReason ==
  phase = "refused" /\ HasLayout(type) =>
    \/ Bulky(Schema[type], value)
    \/ type = "WalletV5R1ExternalBody" /\ ActionCount(value) > MaxOutListActions

\* A bag gives back the cell it was made of, whoever wrote it: index widths at
\* their limits, shared cells, levels of exotic cells.  Whatever else is accepted
\* as a bag is a cell this program can send on, and inspect_boc, which hashes the
\* records as they came, sees the same roots as deserialize_boc_roots, which hashes
\* the cells it built.
BagRoundTrip ==
  \A b \in bag :
    /\ IF phase = "bag" THEN deserialize_boc(b) = {cell}
       ELSE \A c \in deserialize_boc(b) : \E d \in serialize_boc(c, TRUE) : deserialize_boc(d) = {c}
    /\ \A roots \in deserialize_boc_roots(b) :
         inspect_boc(b) = {[i \in DOMAIN roots |-> hash(roots[i])]}

\* A friendly address with one character wrong or left out is not taken for
\* another address, nor for the same one with other flags: it is refused, or the
\* character was that of the other alphabet.
TypoIsHarmless == phase = "read" /\ type = "Address" /\ ~intact => out \subseteq {value}

\* A shard account that from_raw_verified returns is of the address asked for, in
\* the same workchain, and holds the account the answer's state holds.  An anycast
\* in the account's address is not looked at.
VerifiedIsAsked ==
  phase = "read" /\ type = "AccountState" =>
    \A d \in out : \A i \in DOMAIN d.shard_account :
      LET account == AccountOf(d.shard_account[i])
      IN  /\ d.account = <<account>>
          /\ IsFull(account) =>
               \E anycast \in Anycasts :
                 AddrOf(account) = <<2, <<anycast, value.asked.workchain, value.asked.hash_part, NewFlags>>>>

Agree(view, told, decoded) ==
  /\ view.state = told.state
  /\ view.last_transaction_lt = told.last_transaction_lt
  /\ view.last_transaction_hash = told.last_transaction_hash
  /\ {view.balance[i] : i \in DOMAIN view.balance} = {GramsOf(b) : b \in active_balance(decoded)}
  /\ view.state = "Active" <=> active_state_init(decoded) # {}

\* The CLI's view of an answer and the accessors of Contract and SimpleAccount, each
\* of them code of its own, tell the same: the state, the balance and the last
\* transaction, which the view takes from a proof only if from_raw_verified does,
\* also when it falls back on the state alone because the proof does not hold.
ViewsAgree ==
  phase = "read" /\ type = "AccountState" =>
    \A d \in from_raw(cell) :
      Agree(best_effort_account_state_view(cell, value.asked),
            simple(IF out = {} THEN d ELSE CHOOSE v \in out : TRUE), d)

=============================================================================
