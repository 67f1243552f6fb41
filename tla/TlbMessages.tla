---------------------------- MODULE TlbMessages ----------------------------
(***************************************************************************)
(* The layouts of src/tlb/message: addresses, currencies, messages, state  *)
(* init and the actions of a transaction.  Of a type there is what its     *)
(* store_tlb writes and then what its load_tlb reads.                      *)
(***************************************************************************)
EXTENDS TlbCodec

Nothing == NoTag

\* A depth of 5 bits in 1 .. 30, in units of 15 bits: 0 and the last of the
\* four values of the model's length are the depths 0 and 31.
Anycast == Bits(5, 2, 1, 2, 15, Nothing)
MaybeAnycast == Maybe(Anycast)

\* Bit lengths up to 511, in units of 73 bits.
AddrVar == Bits(9, 3, 0, 7, 73, I(32))
AddrExtern == Bits(9, 3, 0, 7, 73, Nothing)

WriteInt ==
  << Con("Var", Tag(<<1, 1>>), << <<"anycast", MaybeAnycast>>, <<"address", AddrVar>> >>),
     Con("Std", Tag(<<1, 0>>), << <<"anycast", MaybeAnycast>>, <<"workchain", I(8)>>,
                                  <<"hash_part", Hash>>, <<"flags", Flags>> >>) >>
WriteExt ==
  << Con("None", Tag(<<0, 0>>), <<>>),
     Con("Extern", Tag(<<0, 1>>), << <<"address", AddrExtern>> >>) >>

MsgAddressInt ==
  Type(WriteInt,
       << Con("Std", Tag(<<1, 0>>), << <<"anycast", MaybeAnycast>>, <<"workchain", I(8)>>,
                                       <<"hash_part", Hash>>, <<"flags", Flags>> >>),
          Con("Var", Tag(<<1, 1>>), << <<"anycast", MaybeAnycast>>, <<"address", AddrVar>> >>) >>)
MsgAddressExt ==
  Type(WriteExt,
       << Con("None", Tag(<<0, 0>>), <<>>),
          Con("Extern", Tag(<<0, 1>>), << <<"address", AddrExtern>> >>) >>)

\* Written by the types it wraps, read by code of its own.
MsgAddress ==
  Type(WriteExt \o WriteInt,
       << Con("None", Tag(<<0, 0>>), <<>>),
          Con("Extern", Tag(<<0, 1>>), << <<"address", AddrExtern>> >>),
          Con("Std", Tag(<<1, 0>>), << <<"anycast", MaybeAnycast>>, <<"workchain", I(8)>>,
                                       <<"hash_part", Hash>>, <<"flags", Flags>> >>),
          Con("Var", Tag(<<1, 1>>), << <<"anycast", MaybeAnycast>>, <<"address", AddrVar>> >>) >>)

CurrencyCollection ==
  Struct(<< <<"grams", Grams>>, <<"other", HashmapE(32, Var(5, 31))>> >>,
         << <<"grams", Grams>>, <<"other", HashmapE(32, Var(5, 31))>> >>)

TickTock == Struct(<< <<"tick", Bool>>, <<"tock", Bool>> >>, << <<"tick", Bool>>, <<"tock", Bool>> >>)
MaybeTickTock == Maybe(TickTock)
MaybeRefCell == Maybe(AnyRef)
MaybeI32 == Maybe(I(32))
VarUInt7 == Var(3, 6)

store_state_init_prefix ==
  << <<"fixed_prefix_length", Maybe(U(5))>>, <<"special", MaybeTickTock>>,
     <<"code", MaybeRefCell>>, <<"data", MaybeRefCell>> >>
load_state_init_prefix ==
  << <<"fixed_prefix_length", Maybe(U(5))>>, <<"special", MaybeTickTock>>,
     <<"code", MaybeRefCell>>, <<"data", MaybeRefCell>> >>
StateInit ==
  Struct(Append(store_state_init_prefix, <<"library", MaybeRefCell>>),
         Append(load_state_init_prefix, <<"library", MaybeRefCell>>))
SimpleLib ==
  Struct(<< <<"public", Bool>>, <<"root", AnyRef>> >>, << <<"public", Bool>>, <<"root", AnyRef>> >>)
StateInitWithLibs ==
  Struct(Append(store_state_init_prefix, <<"library", HashmapE(256, SimpleLib)>>),
         Append(load_state_init_prefix, <<"library", HashmapE(256, SimpleLib)>>))

\* The constructors of CommonMsgInfo and, with another type of source address, of
\* CommonMsgInfoRelaxed, as they are written and as they are read.
WriteInternal(src) ==
  Con("Internal", Tag(<<0>>),
      << <<"ihr_disabled", Bool>>, <<"bounce", Bool>>, <<"bounced", Bool>>,
         <<"src", src>>, <<"dest", MsgAddressInt>>, <<"value", CurrencyCollection>>,
         <<"extra_flags", Grams>>, <<"fwd_fee", Grams>>,
         <<"created_lt", U(64)>>, <<"created_at", U(32)>> >>)
ReadInternal(src) ==
  Con("Internal", Tag(<<0>>),
      << <<"ihr_disabled", Bool>>, <<"bounce", Bool>>, <<"bounced", Bool>>,
         <<"src", src>>, <<"dest", MsgAddressInt>>, <<"value", CurrencyCollection>>,
         <<"extra_flags", Grams>>, <<"fwd_fee", Grams>>,
         <<"created_lt", U(64)>>, <<"created_at", U(32)>> >>)
WriteExternalOut(src) ==
  Con("ExternalOut", Tag(<<1, 1>>),
      << <<"src", src>>, <<"dest", MsgAddressExt>>,
         <<"created_lt", U(64)>>, <<"created_at", U(32)>> >>)
ReadExternalOut(src) ==
  Con("ExternalOut", Tag(<<1, 1>>),
      << <<"src", src>>, <<"dest", MsgAddressExt>>,
         <<"created_lt", U(64)>>, <<"created_at", U(32)>> >>)

InfoOf(address) ==
  Type(<< Con("ExternalIn", Tag(<<1, 0>>),
              << <<"src", MsgAddressExt>>, <<"dest", address>>, <<"import_fee", Grams>> >>),
          WriteExternalOut(address), WriteInternal(address) >>,
       << ReadInternal(address), ReadExternalOut(address),
          Con("ExternalIn", Tag(<<1, 0>>),
              << <<"src", MsgAddressExt>>, <<"dest", address>>, <<"import_fee", Grams>> >>) >>)
CommonMsgInfo == InfoOf(MsgAddressInt)
InfoRelaxedOf(address) ==
  Type(<< WriteExternalOut(address), WriteInternal(address) >>,
       << ReadInternal(address), ReadExternalOut(address) >>)
CommonMsgInfoRelaxed == InfoRelaxedOf(MsgAddress)

\* store_message_init and load_message_init, store_message_body and load_message_body.
MessageInit == Maybe(Either(StateInit, Ref(StateInit)))
MessageBody == Either(Rest, AnyRef)
MessageOf(info) ==
  Struct(<< <<"info", info>>, <<"init", MessageInit>>, <<"body", MessageBody>> >>,
         << <<"info", info>>, <<"init", MessageInit>>, <<"body", MessageBody>> >>)
Message == MessageOf(CommonMsgInfo)
MessageRelaxedOf(info) ==
  Struct(<< <<"info", info>>, <<"init", MessageInit>>, <<"body", MessageBody>> >>,
         << <<"info", info>>, <<"init", MessageInit>>, <<"body", MessageBody>> >>)
MessageRelaxed == MessageRelaxedOf(CommonMsgInfoRelaxed)

LibRef ==
  Type(<< Con("Hash", Tag(<<0>>), << <<"hash", Hash>> >>),
          Con("Ref", Tag(<<1>>), << <<"library", AnyRef>> >>) >>,
       << Con("Hash", Tag(<<0>>), << <<"hash", Hash>> >>),
          Con("Ref", Tag(<<1>>), << <<"library", AnyRef>> >>) >>)

ACTION_SEND_MSG_TAG == Hex(<<0, 14, 12, 3, 12, 8, 6, 13>>)
ACTION_SET_CODE_TAG == Hex(<<10, 13, 4, 13, 14, 0, 8, 14>>)
ACTION_RESERVE_CURRENCY_TAG == Hex(<<3, 6, 14, 6, 11, 8, 0, 9>>)
ACTION_CHANGE_LIBRARY_TAG == Hex(<<2, 6, 15, 10, 1, 13, 13, 4>>)
OutActionOf(message) ==
  Type(<< Con("SendMsg", ACTION_SEND_MSG_TAG,
              << <<"mode", U(8)>>, <<"out_msg", Ref(message)>> >>),
          Con("SetCode", ACTION_SET_CODE_TAG, << <<"new_code", AnyRef>> >>),
          Con("ReserveCurrency", ACTION_RESERVE_CURRENCY_TAG,
              << <<"mode", U(8)>>, <<"currency", CurrencyCollection>> >>),
          Con("ChangeLibrary", ACTION_CHANGE_LIBRARY_TAG,
              << <<"mode", U(7)>>, <<"libref", LibRef>> >>) >>,
       << Con("SendMsg", ACTION_SEND_MSG_TAG,
              << <<"mode", U(8)>>, <<"out_msg", Ref(message)>> >>),
          Con("SetCode", ACTION_SET_CODE_TAG, << <<"new_code", AnyRef>> >>),
          Con("ReserveCurrency", ACTION_RESERVE_CURRENCY_TAG,
              << <<"mode", U(8)>>, <<"currency", CurrencyCollection>> >>),
          Con("ChangeLibrary", ACTION_CHANGE_LIBRARY_TAG,
              << <<"mode", U(7)>>, <<"libref", LibRef>> >>) >>)
OutAction == OutActionOf(MessageRelaxed)
OutList == Chain(OutAction)

WriteAccStatusChange ==
  << Con("Unchanged", Tag(<<0>>), <<>>), Con("Frozen", Tag(<<1, 0>>), <<>>),
     Con("Deleted", Tag(<<1, 1>>), <<>>) >>

\* Mutant: the reader takes a set second bit for Frozen.
AccStatusChange_Swapped ==
  Type(WriteAccStatusChange,
       << Con("Unchanged", Tag(<<0>>), <<>>), Con("Deleted", Tag(<<1, 0>>), <<>>),
          Con("Frozen", Tag(<<1, 1>>), <<>>) >>)

AccStatusChange ==
  Type(WriteAccStatusChange,
       << Con("Unchanged", Tag(<<0>>), <<>>), Con("Frozen", Tag(<<1, 0>>), <<>>),
          Con("Deleted", Tag(<<1, 1>>), <<>>) >>)

StorageUsed ==
  Struct(<< <<"cells", VarUInt7>>, <<"bits", VarUInt7>> >>,
         << <<"cells", VarUInt7>>, <<"bits", VarUInt7>> >>)

TrActionPhase ==
  Struct(<< <<"success", Bool>>, <<"valid", Bool>>, <<"no_funds", Bool>>,
            <<"status_change", AccStatusChange>>, <<"total_fwd_fees", Maybe(Grams)>>,
            <<"total_action_fees", Maybe(Grams)>>, <<"result_code", I(32)>>,
            <<"result_arg", MaybeI32>>, <<"tot_actions", U(16)>>,
            <<"spec_actions", U(16)>>, <<"skipped_actions", U(16)>>,
            <<"msgs_created", U(16)>>, <<"action_list_hash", Hash>>,
            <<"tot_msg_size", StorageUsed>> >>,
         << <<"success", Bool>>, <<"valid", Bool>>, <<"no_funds", Bool>>,
            <<"status_change", AccStatusChange>>, <<"total_fwd_fees", Maybe(Grams)>>,
            <<"total_action_fees", Maybe(Grams)>>, <<"result_code", I(32)>>,
            <<"result_arg", MaybeI32>>, <<"tot_actions", U(16)>>,
            <<"spec_actions", U(16)>>, <<"skipped_actions", U(16)>>,
            <<"msgs_created", U(16)>>, <<"action_list_hash", Hash>>,
            <<"tot_msg_size", StorageUsed>> >>)

=============================================================================
