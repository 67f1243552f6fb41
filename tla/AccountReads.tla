---------------------------- MODULE AccountReads ----------------------------
(***************************************************************************)
(* What becomes of a liteServer.accountState (src/liteclient/boc.rs, the   *)
(* accessors of src/contracts/provider.rs, the account view of src/cli):   *)
(* the account in its state, and the shard account in its proof if it is   *)
(* that of the address asked for.  Operators return a set, empty for an    *)
(* error; an optional part is a sequence.                                  *)
(***************************************************************************)
EXTENDS TlbTransactions, BagOfCells, AddressText

\* The parts of the values of TlbTransactions.
NoAccount == <<1, <<>>>>
IsFull(account) == account[1] = 2
AddrOf(account) == account[2][1]
StorageOf(account) == account[2][3]
LastLtOf(account) == StorageOf(account)[2][1]
BalanceOf(account) == StorageOf(account)[2][2]
StateOf(account) == StorageOf(account)[2][3]
GramsOf(currency_collection) == currency_collection[2][1]
AccountOf(shard_account) == shard_account[2][1]
LastHashIn(shard_account) == shard_account[2][2]
LastLtIn(shard_account) == shard_account[2][3]

\* DecodedBoc::decode and from_cell.
decode_boc(bag, layout) == UNION {from_cell(layout, c) : c \in deserialize_boc(bag)}
decode_account_state_boc(bag) == decode_boc(bag, Account)

inspect_optional_proof_boc(raw) ==
  IF raw = <<>> THEN {<<>>} ELSE {<<hashes>> : hashes \in inspect_boc(raw[1])}

-----------------------------------------------------------------------------
\* Mutant: the workchain is not compared.
validate_account_address_hash(addr, asked) ==
  addr[1] = 2 /\ addr[2][3] = asked.hash_part

\* A standard address, whatever its anycast; its flags are compared as well.
validate_account_address(addr, asked) ==
  addr[1] = 2 /\ Address(addr[2][2], addr[2][3], addr[2][4][1], addr[2][4][2]) = asked

validate_shard_account(shard_account, state, asked) ==
  LET account == AccountOf(shard_account)
  IN  /\ IsFull(account) => validate_account_address(AddrOf(account), asked)
      /\ state # <<>> => decode_account_state_boc(state[1]) = {account}

extract_verified_shard_account_with_root_hash(proof, state, asked, expected) ==
  UNION {IF expected # <<>> /\ expected # <<hash(root)>> THEN {}
         ELSE {s \in from_cell(ShardAccount, root) : validate_shard_account(s, state, asked)}
         : root \in deserialize_boc(proof)}

extract_verified_shard_account(proof, state, asked) ==
  extract_verified_shard_account_with_root_hash(proof, state, asked, <<>>)

\* DecodedAccountState::from_raw.
from_raw(raw) ==
  {[shard_proof |-> shard_proof, proof |-> proof, shard_account |-> <<>>, account |-> account] :
     shard_proof \in inspect_optional_proof_boc(raw.shard_proof),
     proof \in inspect_optional_proof_boc(raw.proof),
     account \in IF raw.state = <<>> THEN {<<>>}
                ELSE {<<a>> : a \in decode_account_state_boc(raw.state[1])}}

from_raw_verified(raw, asked) ==
  UNION {IF raw.proof = <<>> \/ raw.state = <<>> THEN {d}
         ELSE {[d EXCEPT !.shard_account = <<s>>] :
                 s \in extract_verified_shard_account(raw.proof[1], raw.state, asked)}
         : d \in from_raw(raw)}

-----------------------------------------------------------------------------
\* What a caller is told of an account.

simple_account_state(account) ==
  IF IsFull(account) THEN <<"Uninit", "Frozen", "Active">>[StateOf(account)[1]] ELSE "None"

\* DecodedAccountState::simple.
simple(decoded) ==
  LET Full == {i \in DOMAIN decoded.account : IsFull(decoded.account[i])}
  IN  [last_transaction_lt |->
         IF decoded.shard_account # <<>> THEN <<LastLtIn(decoded.shard_account[1])>>
         ELSE IF Full # {} THEN <<LastLtOf(decoded.account[1])>> ELSE <<>>,
       last_transaction_hash |->
         IF decoded.shard_account # <<>> THEN <<LastHashIn(decoded.shard_account[1])>> ELSE <<>>,
       state |-> IF decoded.account = <<>> THEN "None"
                 ELSE simple_account_state(decoded.account[1])]

active_state_init(decoded) ==
  {StateOf(decoded.account[i])[2][1] :
     i \in {j \in DOMAIN decoded.account :
              IsFull(decoded.account[j]) /\ simple_account_state(decoded.account[j]) = "Active"}}

active_balance(decoded) ==
  {BalanceOf(decoded.account[i]) : i \in {j \in DOMAIN decoded.account : IsFull(decoded.account[j])}}

-----------------------------------------------------------------------------
\* The CLI's view of an answer, which has code of its own for the same parts.

account_summary(account) ==
  IF account = <<>> \/ ~IsFull(account[1]) THEN [state |-> "None", balance |-> <<>>]
  ELSE [state |-> <<"Uninit", "Frozen", "Active">>[StateOf(account[1])[1]],
        balance |-> <<GramsOf(BalanceOf(account[1]))>>]

ViewOf(account, shard_account) ==
  [state |-> account_summary(account).state,
   balance |-> account_summary(account).balance,
   last_transaction_lt |->
     IF shard_account # <<>> THEN <<LastLtIn(shard_account[1])>>
     ELSE IF account = <<>> THEN <<>>
     ELSE IF IsFull(account[1]) THEN <<LastLtOf(account[1])>> ELSE <<>>,
   last_transaction_hash |->
     IF shard_account # <<>> THEN <<LastHashIn(shard_account[1])>> ELSE <<>>]

\* What there is of a part, or another.
Or(parts, default) == IF parts = {} THEN default ELSE CHOOSE part \in parts : TRUE

ViewFrom(decoded, fallback) ==
  ViewOf(Or({d.account : d \in {e \in decoded : e.account # <<>>}}, Or(fallback, <<>>)),
         Or({d.shard_account : d \in decoded}, <<>>))

\* Mutant: an answer whose proof does not hold has no account.
best_effort_verified(raw, asked) == ViewFrom(from_raw_verified(raw, asked), {})

\* The account of a verified answer or, if there is none, of the state alone;
\* errors leave parts of the view out.
best_effort_account_state_view(raw, asked) ==
  ViewFrom(from_raw_verified(raw, asked),
           IF raw.state = <<>> THEN {} ELSE {<<a>> : a \in decode_account_state_boc(raw.state[1])})

=============================================================================
