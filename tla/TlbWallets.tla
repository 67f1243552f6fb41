----------------------------- MODULE TlbWallets -----------------------------
(***************************************************************************)
(* The layouts of src/wallet: the data of the wallet contracts, the signed *)
(* body of a V5R1 request, the packed wallet id; and the TEP-64 metadata   *)
(* that Jettons and NFTs carry (src/metadata.rs), which the program only   *)
(* reads.                                                                  *)
(***************************************************************************)
EXTENDS TlbBlocks

WalletV5R1Extensions == HashmapE(256, Bool)
WalletV5R1Data ==
  Struct(<< <<"is_signature_allowed", Bool>>, <<"seqno", U(32)>>, <<"wallet_id", U(32)>>,
            <<"public_key", Hash>>, <<"extensions", WalletV5R1Extensions>> >>,
         << <<"is_signature_allowed", Bool>>, <<"seqno", U(32)>>, <<"wallet_id", U(32)>>,
            <<"public_key", Hash>>, <<"extensions", WalletV5R1Extensions>> >>)
WalletV4R2Data ==
  Struct(<< <<"seqno", U(32)>>, <<"wallet_id", U(32)>>, <<"public_key", Hash>>,
            <<"plugins", HashmapE(256, Bool)>> >>,
         << <<"seqno", U(32)>>, <<"wallet_id", U(32)>>, <<"public_key", Hash>>,
            <<"plugins", HashmapE(256, Bool)>> >>)

WalletV5R1ExtendedAction ==
  Type(<< Con("AddExtension", Hex(<<0, 2>>), << <<"address", MsgAddressInt>> >>),
          Con("DeleteExtension", Hex(<<0, 3>>), << <<"address", MsgAddressInt>> >>),
          Con("SetSignatureAuthAllowed", Hex(<<0, 4>>), << <<"allowed", Bool>> >>) >>,
       << Con("AddExtension", Hex(<<0, 2>>), << <<"address", MsgAddressInt>> >>),
          Con("DeleteExtension", Hex(<<0, 3>>), << <<"address", MsgAddressInt>> >>),
          Con("SetSignatureAuthAllowed", Hex(<<0, 4>>), << <<"allowed", Bool>> >>) >>)
WalletV5R1ExtendedActionList == List(WalletV5R1ExtendedAction)

store_v5_inner_request(out_list, extended_actions) ==
  << <<"out_list", Maybe(Ref(out_list))>>, <<"extended_actions", Maybe(extended_actions)>> >>
load_v5_inner_request(out_list, extended_actions) ==
  << <<"out_list", Maybe(Ref(out_list))>>, <<"extended_actions", Maybe(extended_actions)>> >>
SignedRequest(out_list, extended_actions) ==
  Tagged(Hex(<<7, 3, 6, 9, 6, 7, 6, 14>>),
         << <<"wallet_id", U(32)>>, <<"valid_until", U(32)>>, <<"seqno", U(32)>> >>
           \o store_v5_inner_request(out_list, extended_actions) \o << <<"signature", U(512)>> >>,
         << <<"wallet_id", U(32)>>, <<"valid_until", U(32)>>, <<"seqno", U(32)>> >>
           \o load_v5_inner_request(out_list, extended_actions) \o << <<"signature", U(512)>> >>)
WalletV5R1ExternalBody == SignedRequest(OutList, WalletV5R1ExtendedActionList)

\* build_external_signing_cell_with_extended_actions and the signature: the
\* messages and the extended actions are counted together, a list of none is left
\* out.  None for too many.
OrNone(list) == IF list = <<>> THEN <<>> ELSE <<list>>
NormalBody(body) ==
  [body EXCEPT ![2][4] = OrNone(FlattenSeq(@)), ![2][5] = OrNone(FlattenSeq(@))]
ActionCount(body) == Len(FlattenSeq(body[2][4])) + Len(FlattenSeq(body[2][5]))
build_signed_external_body(body) ==
  IF ActionCount(body) > MaxOutListActions THEN {}
  ELSE to_cell(WalletV5R1ExternalBody, NormalBody(body))

-----------------------------------------------------------------------------
\* Wallet ids, of 8 bits here: a context, exclusive-or the network's global id.

IdBits == 8
WalletV5R1Context ==
  Sum(<< Con("Client", Tag(<<1>>), << <<"workchain", I(3)>>, <<"wallet_version", U(2)>>,
                                      <<"subwallet_number", U(2)>> >>),
         Con("Custom", Tag(<<0>>), << <<"counter", U(7)>> >>) >>)


\* The bits of the id, none for a context out of range.
pack(network_global_id, context) ==
  {[c EXCEPT !.bits = Xor(@, network_global_id)] : c \in to_cell(WalletV5R1Context, context)}
unpack(c, network_global_id) ==
  IF Len(c.bits) = IdBits
    THEN from_cell(WalletV5R1Context, [c EXCEPT !.bits = Xor(@, network_global_id)]) ELSE {}

-----------------------------------------------------------------------------
\* Metadata.  Fields are kept in the order of their keys; a field that cannot be
\* decoded is kept as Malformed or Unsupported and spoils no other.

OffChain == Con("OffChain", Hex(<<0, 1>>), << <<"uri", Snake>> >>)
OnChain == Con("OnChain", Hex(<<0, 0>>), << <<"fields", Dict(Hash, Rest)>> >>)
SnakeValue == Con("Snake", Hex(<<0, 0>>), << <<"bytes", Snake>> >>)
Chunked == Con("Chunked", Hex(<<0, 1>>), << <<"chunks", Dict(U(32), Rest)>> >>)

\* The only field of the value of one constructor: none if it is malformed.
Only(con, c) == {v[2][1] : v \in from_cell(Sum(<<con>>), c)}
HasTag(con, c) == IsPrefix(con.tag.bits, c.bits)
TagBits == 8

flatten_snake_cell(c) == from_cell(Snake, c)

\* decode_chunked_slice: the chunks in the order of their indices, none empty.
decode_chunked(c) ==
  {[i \in DOMAIN chunks |-> CHOOSE bytes \in flatten_snake_cell(chunks[i][2]) : TRUE] :
     chunks \in {s \in Only(Chunked, c) :
                   \A i \in DOMAIN s : s[i][2] # EmptyCell /\ flatten_snake_cell(s[i][2]) # {}}}

decode_field_value(c) ==
  LET Field(kind, results) == IF results = {} THEN <<"Malformed", <<>>>>
                              ELSE <<kind, CHOOSE r \in results : TRUE>>
  IN  CASE Len(c.bits) >= TagBits /\ HasTag(SnakeValue, c) -> Field("Snake", Only(SnakeValue, c))
        [] Len(c.bits) >= TagBits /\ HasTag(Chunked, c) -> Field("Chunked", decode_chunked(c))
        [] OTHER -> Field("Unsupported", flatten_snake_cell(c))

parse_tep64_content(c) ==
  CASE Len(c.bits) >= TagBits /\ HasTag(OffChain, c) ->
         {<<"OffChain", uri>> : uri \in Only(OffChain, c)}
    [] Len(c.bits) >= TagBits /\ HasTag(OnChain, c) ->
         {<<"OnChain", [i \in DOMAIN fields |-> <<fields[i][1], decode_field_value(fields[i][2])>>]>> :
            fields \in Only(OnChain, c)}
    [] OTHER -> {<<"Unsupported", c>>}

\* What minters write: well-formed fields, a field of an unknown kind and one
\* whose snake forks.
FieldCell(v) ==
  CASE v[1] = "Snake" -> to_cell(Sum(<<SnakeValue>>), <<1, <<v[2]>>>>)
    [] v[1] = "Chunked" ->
         to_cell(Sum(<<Con("", Chunked.tag, << <<"chunks", Dict(U(32), Snake)>> >>)>>),
                 <<1, <<[i \in DOMAIN v[2] |-> <<i - 1, v[2][i]>>]>>>>)
    [] v[1] = "Unsupported" -> {[EmptyCell EXCEPT !.bits = v[2]]}
    [] v[1] = "Malformed" ->
         {[EmptyCell EXCEPT !.bits = SnakeValue.tag.bits, !.refs = <<EmptyCell, EmptyCell>>]}
write_tep64_content(content) ==
  CASE content[1] = "OffChain" -> to_cell(Sum(<<OffChain>>), <<1, <<content[2]>>>>)
    [] content[1] = "OnChain" ->
         LET Entry(f) == <<f[1], CHOOSE c \in FieldCell(f[2]) : TRUE>>
         IN  to_cell(Sum(<<OnChain>>),
                     <<1, <<[i \in DOMAIN content[2] |-> Entry(content[2][i])]>>>>)
    [] content[1] = "Unsupported" -> {content[2]}

=============================================================================
