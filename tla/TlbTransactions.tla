-------------------------- MODULE TlbTransactions --------------------------
(***************************************************************************)
(* The layouts of src/tlb/transaction: accounts, transactions and their    *)
(* descriptions, as they are written and as they are read.                 *)
(* TransactionDescr and Transaction are mutually recursive: a description  *)
(* that holds a transaction holds one with an Inner one.                   *)
(***************************************************************************)
EXTENDS TlbMessages

StorageExtraInfo ==
  Type(<< Con("None", Tag(<<0, 0, 0>>), <<>>),
          Con("Info", Tag(<<0, 0, 1>>), << <<"dict_hash", Hash>> >>) >>,
       << Con("None", Tag(<<0, 0, 0>>), <<>>),
          Con("Info", Tag(<<0, 0, 1>>), << <<"dict_hash", Hash>> >>) >>)

StorageInfo ==
  Struct(<< <<"used", StorageUsed>>, <<"extra", StorageExtraInfo>>,
            <<"last_paid", U(32)>>, <<"due_payment", Maybe(Grams)>> >>,
         << <<"used", StorageUsed>>, <<"extra", StorageExtraInfo>>,
            <<"last_paid", U(32)>>, <<"due_payment", Maybe(Grams)>> >>)

AccountState ==
  Type(<< Con("Uninit", Tag(<<0, 0>>), <<>>),
          Con("Frozen", Tag(<<0, 1>>), << <<"state_hash", Hash>> >>),
          Con("Active", Tag(<<1>>), << <<"state_init", StateInit>> >>) >>,
       << Con("Active", Tag(<<1>>), << <<"state_init", StateInit>> >>),
          Con("Frozen", Tag(<<0, 1>>), << <<"state_hash", Hash>> >>),
          Con("Uninit", Tag(<<0, 0>>), <<>>) >>)

AccountStorage ==
  Struct(<< <<"last_trans_lt", U(64)>>, <<"balance", CurrencyCollection>>,
            <<"state", AccountState>> >>,
         << <<"last_trans_lt", U(64)>>, <<"balance", CurrencyCollection>>,
            <<"state", AccountState>> >>)

AccountStatus ==
  Type(<< Con("Uninit", Tag(<<0, 0>>), <<>>), Con("Frozen", Tag(<<0, 1>>), <<>>),
          Con("Active", Tag(<<1, 0>>), <<>>), Con("Nonexist", Tag(<<1, 1>>), <<>>) >>,
       << Con("Uninit", Tag(<<0, 0>>), <<>>), Con("Frozen", Tag(<<0, 1>>), <<>>),
          Con("Active", Tag(<<1, 0>>), <<>>), Con("Nonexist", Tag(<<1, 1>>), <<>>) >>)

FullAccount(storage_stat, storage) ==
  Type(<< Con("None", Tag(<<0>>), <<>>),
          Con("Full", Tag(<<1>>), << <<"addr", MsgAddressInt>>, <<"storage_stat", storage_stat>>,
                                     <<"storage", storage>> >>) >>,
       << Con("Full", Tag(<<1>>), << <<"addr", MsgAddressInt>>, <<"storage_stat", storage_stat>>,
                                     <<"storage", storage>> >>),
          Con("None", Tag(<<0>>), <<>>) >>)
Account == FullAccount(StorageInfo, AccountStorage)

ShardAccountOf(account) ==
  Struct(<< <<"account", Ref(account)>>, <<"last_trans_hash", Hash>>, <<"last_trans_lt", U(64)>> >>,
         << <<"account", Ref(account)>>, <<"last_trans_hash", Hash>>, <<"last_trans_lt", U(64)>> >>)
ShardAccount == ShardAccountOf(Account)

DepthBalanceInfo ==
  Struct(<< <<"split_depth", Ranged(5, 0, 30)>>, <<"balance", CurrencyCollection>> >>,
         << <<"split_depth", Ranged(5, 0, 30)>>, <<"balance", CurrencyCollection>> >>)

ShardAccounts == HashmapAugE(256, ShardAccount, DepthBalanceInfo)

HashUpdateAccount ==
  Tagged(Hex(<<7, 2>>), << <<"old_hash", Hash>>, <<"new_hash", Hash>> >>,
                        << <<"old_hash", Hash>>, <<"new_hash", Hash>> >>)

TrStoragePhase ==
  Struct(<< <<"storage_fees_collected", Grams>>, <<"storage_fees_due", Maybe(Grams)>>,
            <<"status_change", AccStatusChange>> >>,
         << <<"storage_fees_collected", Grams>>, <<"storage_fees_due", Maybe(Grams)>>,
            <<"status_change", AccStatusChange>> >>)

TrCreditPhase ==
  Struct(<< <<"due_fees_collected", Maybe(Grams)>>, <<"credit", CurrencyCollection>> >>,
         << <<"due_fees_collected", Maybe(Grams)>>, <<"credit", CurrencyCollection>> >>)

ComputeSkipReason ==
  Type(<< Con("NoState", Tag(<<0, 0>>), <<>>), Con("BadState", Tag(<<0, 1>>), <<>>),
          Con("NoGas", Tag(<<1, 0>>), <<>>), Con("Suspended", Tag(<<1, 1, 0>>), <<>>) >>,
       << Con("NoState", Tag(<<0, 0>>), <<>>), Con("BadState", Tag(<<0, 1>>), <<>>),
          Con("NoGas", Tag(<<1, 0>>), <<>>), Con("Suspended", Tag(<<1, 1, 0>>), <<>>) >>)

MaybeVarUInt3 == Maybe(Var(2, 2))

\* The part of the phase in a cell of its own; load_compute_vm_tail reads it.
ComputeVmTail ==
  Struct(<< <<"gas_used", VarUInt7>>, <<"gas_limit", VarUInt7>>,
            <<"gas_credit", MaybeVarUInt3>>, <<"mode", I(8)>>, <<"exit_code", I(32)>>,
            <<"exit_arg", MaybeI32>>, <<"vm_steps", U(32)>>,
            <<"vm_init_state_hash", Hash>>, <<"vm_final_state_hash", Hash>> >>,
         << <<"gas_used", VarUInt7>>, <<"gas_limit", VarUInt7>>,
            <<"gas_credit", MaybeVarUInt3>>, <<"mode", I(8)>>, <<"exit_code", I(32)>>,
            <<"exit_arg", MaybeI32>>, <<"vm_steps", U(32)>>,
            <<"vm_init_state_hash", Hash>>, <<"vm_final_state_hash", Hash>> >>)

TrComputePhase ==
  Type(<< Con("Skipped", Tag(<<0>>), << <<"reason", ComputeSkipReason>> >>),
          Con("Vm", Tag(<<1>>),
              << <<"success", Bool>>, <<"msg_state_used", Bool>>, <<"account_activated", Bool>>,
                 <<"gas_fees", Grams>>, <<"vm", Ref(ComputeVmTail)>> >>) >>,
       << Con("Skipped", Tag(<<0>>), << <<"reason", ComputeSkipReason>> >>),
          Con("Vm", Tag(<<1>>),
              << <<"success", Bool>>, <<"msg_state_used", Bool>>, <<"account_activated", Bool>>,
                 <<"gas_fees", Grams>>, <<"vm", Ref(ComputeVmTail)>> >>) >>)

TrBouncePhase ==
  Type(<< Con("NegativeFunds", Tag(<<0, 0>>), <<>>),
          Con("NoFunds", Tag(<<0, 1>>), << <<"msg_size", StorageUsed>>, <<"req_fwd_fees", Grams>> >>),
          Con("Ok", Tag(<<1>>), << <<"msg_size", StorageUsed>>, <<"msg_fees", Grams>>,
                                   <<"fwd_fees", Grams>> >>) >>,
       << Con("Ok", Tag(<<1>>), << <<"msg_size", StorageUsed>>, <<"msg_fees", Grams>>,
                                   <<"fwd_fees", Grams>> >>),
          Con("NoFunds", Tag(<<0, 1>>), << <<"msg_size", StorageUsed>>, <<"req_fwd_fees", Grams>> >>),
          Con("NegativeFunds", Tag(<<0, 0>>), <<>>) >>)

SplitMergeInfo ==
  Struct(<< <<"cur_shard_pfx_len", U(6)>>, <<"acc_split_depth", U(6)>>,
            <<"this_addr", Hash>>, <<"sibling_addr", Hash>> >>,
         << <<"cur_shard_pfx_len", U(6)>>, <<"acc_split_depth", U(6)>>,
            <<"this_addr", Hash>>, <<"sibling_addr", Hash>> >>)

MaybeRefActionPhase == Maybe(Ref(TrActionPhase))
MaybeRefMessage(message) == Maybe(Ref(message))

TransactionDescr(transaction) ==
  LET split_info == <<"split_info", SplitMergeInfo>>
      aborted == <<"aborted", Bool>>
      destroyed == <<"destroyed", Bool>>
      compute_ph == <<"compute_ph", TrComputePhase>>
      action == <<"action", MaybeRefActionPhase>>
      storage_ph == <<"storage_ph", TrStoragePhase>>
      maybe_storage_ph == <<"storage_ph", Maybe(TrStoragePhase)>>
      credit_ph == <<"credit_ph", Maybe(TrCreditPhase)>>
      bounce == <<"bounce", Maybe(TrBouncePhase)>>
      prepare_transaction == <<"prepare_transaction", Ref(transaction)>>
  IN
  Type(<< Con("Storage", Tag(<<0, 0, 0, 1>>), <<storage_ph>>),
          Con("TickTock", Tag(<<0, 0, 1>>),
              << <<"is_tock", Bool>>, storage_ph, compute_ph, action, aborted, destroyed >>),
          Con("SplitPrepare", Tag(<<0, 1, 0, 0>>),
              << split_info, maybe_storage_ph, compute_ph, action, aborted, destroyed >>),
          Con("SplitInstall", Tag(<<0, 1, 0, 1>>),
              << split_info, prepare_transaction, <<"installed", Bool>> >>),
          Con("MergePrepare", Tag(<<0, 1, 1, 0>>), << split_info, storage_ph, aborted >>),
          Con("MergeInstall", Tag(<<0, 1, 1, 1>>),
              << split_info, prepare_transaction, maybe_storage_ph, credit_ph, compute_ph,
                 action, aborted, destroyed >>),
          Con("Ordinary", Tag(<<0, 0, 0, 0>>),
              << <<"credit_first", Bool>>, maybe_storage_ph, credit_ph, compute_ph, action,
                 aborted, bounce, destroyed >>) >>,
       << Con("Ordinary", Tag(<<0, 0, 0, 0>>),
              << <<"credit_first", Bool>>, maybe_storage_ph, credit_ph, compute_ph, action,
                 aborted, bounce, destroyed >>),
          Con("Storage", Tag(<<0, 0, 0, 1>>), <<storage_ph>>),
          Con("TickTock", Tag(<<0, 0, 1>>),
              << <<"is_tock", Bool>>, storage_ph, compute_ph, action, aborted, destroyed >>),
          Con("SplitPrepare", Tag(<<0, 1, 0, 0>>),
              << split_info, maybe_storage_ph, compute_ph, action, aborted, destroyed >>),
          Con("SplitInstall", Tag(<<0, 1, 0, 1>>),
              << split_info, prepare_transaction, <<"installed", Bool>> >>),
          Con("MergePrepare", Tag(<<0, 1, 1, 0>>), << split_info, storage_ph, aborted >>),
          Con("MergeInstall", Tag(<<0, 1, 1, 1>>),
              << split_info, prepare_transaction, maybe_storage_ph, credit_ph, compute_ph,
                 action, aborted, destroyed >>) >>)

\* The references of a transaction are its messages, in a cell of their own,
\* the update and the description.
TransactionMessages(message) ==
  Struct(<< <<"in_msg", MaybeRefMessage(message)>>, <<"out_msgs", HashmapE(15, Ref(message))>> >>,
         << <<"in_msg", MaybeRefMessage(message)>>, <<"out_msgs", HashmapE(15, Ref(message))>> >>)

WriteTransactionHead(messages) ==
  << <<"account_addr", Hash>>, <<"lt", U(64)>>, <<"prev_trans_hash", Hash>>,
     <<"prev_trans_lt", U(64)>>, <<"now", U(32)>>, <<"outmsg_cnt", U(15)>>,
     <<"orig_status", AccountStatus>>, <<"end_status", AccountStatus>>,
     <<"messages", Ref(messages)>>, <<"total_fees", CurrencyCollection>>,
     <<"state_update", Ref(HashUpdateAccount)>> >>
ReadTransactionHead(messages) ==
  << <<"account_addr", Hash>>, <<"lt", U(64)>>, <<"prev_trans_hash", Hash>>,
     <<"prev_trans_lt", U(64)>>, <<"now", U(32)>>, <<"outmsg_cnt", U(15)>>,
     <<"orig_status", AccountStatus>>, <<"end_status", AccountStatus>>,
     <<"messages", Ref(messages)>>, <<"total_fees", CurrencyCollection>>,
     <<"state_update", Ref(HashUpdateAccount)>> >>

\* Mutant: the description is stored in the transaction's own cell.
Transaction_InlineDescription(messages, descr) ==
  Tagged(Tag(<<0, 1, 1, 1>>),
         Append(WriteTransactionHead(messages), <<"description", descr>>),
         Append(ReadTransactionHead(messages), <<"description", descr>>))

Transaction(messages, descr) ==
  Tagged(Tag(<<0, 1, 1, 1>>),
         Append(WriteTransactionHead(messages), <<"description", Ref(descr)>>),
         Append(ReadTransactionHead(messages), <<"description", Ref(descr)>>))

\* What is below the transaction inside a description, cut off by a layout with
\* no value but one: the empty cell.
Inner(messages) == Transaction(messages, TransactionDescr(Nothing))
Outer(messages) == Transaction(messages, TransactionDescr(Inner(messages)))
AnyTransaction == Outer(TransactionMessages(Message))

\* The dictionary's root edge is in the block's own cell.
BlockOf(transaction) ==
  Tagged(Tag(<<0, 1, 0, 1>>),
         << <<"account_addr", Hash>>,
            <<"transactions", HashmapAug(64, Ref(transaction), CurrencyCollection)>>,
            <<"state_update", Ref(HashUpdateAccount)>> >>,
         << <<"account_addr", Hash>>,
            <<"transactions", HashmapAug(64, Ref(transaction), CurrencyCollection)>>,
            <<"state_update", Ref(HashUpdateAccount)>> >>)
AccountBlock == BlockOf(Inner(TransactionMessages(Message)))
ShardAccountBlocks == HashmapAugE(256, AccountBlock, CurrencyCollection)

=============================================================================
