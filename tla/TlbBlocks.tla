----------------------------- MODULE TlbBlocks -----------------------------
(***************************************************************************)
(* The layouts of src/tlb/block.rs and of the message bodies of Jettons    *)
(* and NFTs, as they are written and as they are read.  The writers of     *)
(* ValueFlow and of an unsplit ShardState store the payload they are given *)
(* and no tag; their readers want the tag and leave it in the payload.     *)
(***************************************************************************)
EXTENDS TlbTransactions

ShardIdent ==
  Tagged(Tag(<<0, 0>>),
         << <<"shard_pfx_bits", Ranged(6, 0, 60)>>, <<"workchain_id", I(32)>>,
            <<"shard_prefix", U(64)>> >>,
         << <<"shard_pfx_bits", Ranged(6, 0, 60)>>, <<"workchain_id", I(32)>>,
            <<"shard_prefix", U(64)>> >>)
ExtBlkRef ==
  Struct(<< <<"end_lt", U(64)>>, <<"seq_no", U(32)>>, <<"root_hash", Hash>>, <<"file_hash", Hash>> >>,
         << <<"end_lt", U(64)>>, <<"seq_no", U(32)>>, <<"root_hash", Hash>>, <<"file_hash", Hash>> >>)
BlockIdExtTlb ==
  Struct(<< <<"shard_id", ShardIdent>>, <<"seq_no", U(32)>>,
            <<"root_hash", Hash>>, <<"file_hash", Hash>> >>,
         << <<"shard_id", ShardIdent>>, <<"seq_no", U(32)>>,
            <<"root_hash", Hash>>, <<"file_hash", Hash>> >>)

Block ==
  Tagged(Hex(<<1, 1, 14, 15, 5, 5, 10, 10>>),
         << <<"global_id", I(32)>>, <<"info", AnyRef>>, <<"value_flow", AnyRef>>,
            <<"state_update", AnyRef>>, <<"extra", AnyRef>> >>,
         << <<"global_id", I(32)>>, <<"info", AnyRef>>, <<"value_flow", AnyRef>>,
            <<"state_update", AnyRef>>, <<"extra", AnyRef>> >>)

\* Kept as they come.
BlockInfo == Rest
BlockPrevInfo == Rest
BlockExtra == Rest
McBlockExtra == Rest

VALUE_FLOW_TAG == Hex(<<11, 8, 14, 4, 8, 13, 15, 11>>)
VALUE_FLOW_V2_TAG == Hex(<<3, 14, 11, 15, 9, 8, 11, 7>>)
SHARD_STATE_TAG == Hex(<<9, 0, 2, 3, 10, 15, 14, 2>>)
SPLIT_STATE_TAG == Hex(<<5, 15, 3, 2, 7, 13, 10, 5>>)

ValueFlow ==
  Type(<< Con("V1", NoTag, << <<"payload", Preserved(<<VALUE_FLOW_TAG, VALUE_FLOW_V2_TAG>>)>> >>),
          Con("V2", NoTag, << <<"payload", Preserved(<<VALUE_FLOW_V2_TAG, VALUE_FLOW_TAG>>)>> >>) >>,
       << Kept("V1", VALUE_FLOW_TAG, << <<"payload", Rest>> >>),
          Kept("V2", VALUE_FLOW_V2_TAG, << <<"payload", Rest>> >>) >>)

WriteUnsplit ==
  Con("Unsplit", NoTag, << <<"payload", Preserved(<<SHARD_STATE_TAG, SPLIT_STATE_TAG>>)>> >>)
ReadUnsplit == Kept("Unsplit", SHARD_STATE_TAG, << <<"payload", Rest>> >>)
ShardStateUnsplit == Type(<<WriteUnsplit>>, <<ReadUnsplit>>)
ShardState ==
  Type(<< WriteUnsplit,
          Con("Split", SPLIT_STATE_TAG, << <<"left", AnyRef>>, <<"right", AnyRef>> >>) >>,
       << ReadUnsplit,
          Con("Split", SPLIT_STATE_TAG, << <<"left", AnyRef>>, <<"right", AnyRef>> >>) >>)

HashUpdate ==
  Tagged(Tag(<<0, 1, 1, 1, 0, 0, 1, 0>>), << <<"old_hash", Hash>>, <<"new_hash", Hash>> >>,
                                          << <<"old_hash", Hash>>, <<"new_hash", Hash>> >>)
ConfigParams ==
  Struct(<< <<"config_addr", Hash>>, <<"config", AnyRef>> >>,
         << <<"config_addr", Hash>>, <<"config", AnyRef>> >>)

-----------------------------------------------------------------------------
\* Message bodies: a 32-bit operation, a query id and fields.

ForwardPayload == Either(Rest, Ref(Rest))
CustomPayload == Maybe(Ref(Rest))
Body(op, written, read) ==
  Tagged(Hex(op), << <<"query_id", U(64)>> >> \o written, << <<"query_id", U(64)>> >> \o read)

JettonTransferPayload ==
  Body(<<0, 15, 8, 10, 7, 14, 10, 5>>,
       << <<"amount", Grams>>, <<"destination", MsgAddress>>,
          <<"response_destination", MsgAddress>>, <<"custom_payload", CustomPayload>>,
          <<"forward_ton_amount", Grams>>, <<"forward_payload", ForwardPayload>> >>,
       << <<"amount", Grams>>, <<"destination", MsgAddress>>,
          <<"response_destination", MsgAddress>>, <<"custom_payload", CustomPayload>>,
          <<"forward_ton_amount", Grams>>, <<"forward_payload", ForwardPayload>> >>)
JettonBurnPayload ==
  Body(<<5, 9, 5, 15, 0, 7, 11, 12>>,
       << <<"amount", Grams>>, <<"response_destination", MsgAddress>>,
          <<"custom_payload", CustomPayload>> >>,
       << <<"amount", Grams>>, <<"response_destination", MsgAddress>>,
          <<"custom_payload", CustomPayload>> >>)
JettonInternalTransferPayload ==
  Body(<<1, 7, 8, 13, 4, 5, 1, 9>>,
       << <<"amount", Grams>>, <<"from", MsgAddress>>, <<"response_address", MsgAddress>>,
          <<"forward_ton_amount", Grams>>, <<"forward_payload", ForwardPayload>> >>,
       << <<"amount", Grams>>, <<"from", MsgAddress>>, <<"response_address", MsgAddress>>,
          <<"forward_ton_amount", Grams>>, <<"forward_payload", ForwardPayload>> >>)
NftTransferPayload ==
  Body(<<5, 15, 12, 12, 3, 13, 1, 4>>,
       << <<"new_owner", MsgAddress>>, <<"response_destination", MsgAddress>>,
          <<"custom_payload", CustomPayload>>, <<"forward_amount", Grams>>,
          <<"forward_payload", ForwardPayload>> >>,
       << <<"new_owner", MsgAddress>>, <<"response_destination", MsgAddress>>,
          <<"custom_payload", CustomPayload>>, <<"forward_amount", Grams>>,
          <<"forward_payload", ForwardPayload>> >>)
NftOwnershipAssignedPayload ==
  Body(<<0, 5, 1, 3, 8, 13, 9, 1>>,
       << <<"prev_owner", MsgAddress>>, <<"forward_payload", ForwardPayload>> >>,
       << <<"prev_owner", MsgAddress>>, <<"forward_payload", ForwardPayload>> >>)
NftReportStaticDataPayload ==
  Body(<<8, 11, 7, 7, 1, 7, 3, 5>>,
       << <<"index", U(256)>>, <<"collection", MsgAddress>> >>,
       << <<"index", U(256)>>, <<"collection", MsgAddress>> >>)
NftReportRoyaltyParamsPayload ==
  Body(<<10, 8, 12, 11, 0, 0, 10, 13>>,
       << <<"numerator", U(16)>>, <<"denominator", U(16)>>, <<"destination", MsgAddress>> >>,
       << <<"numerator", U(16)>>, <<"denominator", U(16)>>, <<"destination", MsgAddress>> >>)

=============================================================================
