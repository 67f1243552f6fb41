------------------------------- MODULE Wallet -------------------------------
(***************************************************************************)
(* Transfers from one wallet: `tonutils wallet send` (src/cli) and the     *)
(* library's WalletV5R1::seqno with send_external_message (src/wallet).    *)
(* A run reads the latest block a server knows, reads the wallet's seqno   *)
(* at that block, builds and signs a message for it and submits it once.   *)
(* Runs overlap, servers lag behind, messages are lost, late or            *)
(* duplicated.  What a run pays for is not modelled: the tools keep no     *)
(* record of it, and to them a run that a user repeats is one more run.    *)
(*                                                                         *)
(* The wallet contract and the clock are external.                         *)
(***************************************************************************)
EXTENDS Integers, Sequences, FiniteSets

CONSTANTS
  MaxRuns,         \* runs that are started
  MaxActions,      \* 4 for V4R2, 255 for V5R1
  Timeout,         \* --timeout
  U32Max,
  Pins             \* seqnos users pass with --seqno

ASSUME WalletAssumption ==
  /\ MaxRuns \in Nat /\ MaxActions \in Nat /\ Timeout \in Nat /\ U32Max \in Nat
  /\ Pins \subseteq 0 .. U32Max

VARIABLES
  runs,            \* the runs started, in that order
  pool,            \* messages that reached the network; they never leave it
  log,             \* messages the wallet contract executed
  history,         \* the wallet's [deployed, seqno] after every block that changed it
  now              \* the clock, in units of seconds

vars == <<runs, pool, log, history, now>>

None == -1
Wallet == history[Len(history)]

\* What a run is asked for.  The library's runs read the seqno with
\* WalletV5R1::seqno and pass it on.
Args ==
  [tool : {"cli"}, deploy : BOOLEAN, pin : Pins \cup {None}, actions : {1}]
  \cup [tool : {"library"}, deploy : BOOLEAN, pin : {None}, actions : {1, MaxActions + 1}]

Run(args) == [args |-> args, pc |-> "started", block |-> 0, seqno |-> None,
              built |-> 0, valid_until |-> 0]

-----------------------------------------------------------------------------
\* What becomes of a get-method's answer: the seqno, or none for an error.

\* Answers to run_get_method with mode 0, which asks for no stack: servers may
\* leave it out.  A wallet that is not deployed has none.
RunGetMethod(w) ==
  IF w.deployed
  THEN {[exit_code |-> 0, stack |-> "decoded", value |-> w.seqno],
        [exit_code |-> 0, stack |-> "missing", value |-> None],
        [exit_code |-> 0, stack |-> "undecodable", value |-> None]}
  ELSE {[exit_code |-> -256, stack |-> "missing", value |-> None]}

U32(n) == {n} \cap (0 .. U32Max)

\* Mutant: the seqno is taken for that of the last message.
seqno_from_stack_next(result) ==
  IF result.stack = "decoded" THEN U32(result.value + 1) ELSE {}

seqno_from_stack(result) ==
  IF result.stack = "decoded" THEN U32(result.value) ELSE {}

seqno_from_stack_or_deploy_zero(result, deploy) ==
  IF deploy /\ result.stack = "missing" THEN {0} ELSE seqno_from_stack(result)

\* WalletV5R1::run_v5r1_get_method and wallet_stack_u32.
v5r1_seqno(result) ==
  IF result.exit_code = 0 /\ result.stack = "decoded" THEN U32(result.value) ELSE {}

-----------------------------------------------------------------------------
\* Runs.

Init ==
  /\ runs = <<>>
  /\ pool = {}
  /\ log = <<>>
  /\ history = <<[deployed |-> FALSE, seqno |-> 0]>>
  /\ now = 0

Start ==
  /\ Len(runs) < MaxRuns
  /\ \E args \in Args : runs' = Append(runs, Run(args))
  /\ UNCHANGED <<pool, log, history, now>>

\* get_masterchain_info: the latest block of some server, which may lag.
GetMasterchainInfo(r) ==
  /\ runs[r].pc = "started"
  /\ \/ \E b \in DOMAIN history : runs' = [runs EXCEPT ![r].block = b, ![r].pc = "block"]
     \/ runs' = [runs EXCEPT ![r].pc = "failed"]
  /\ UNCHANGED <<pool, log, history, now>>

\* Mutant: a run without an answer begins again.
ReadSeqno_retries(r) ==
  /\ runs[r].pc = "block"
  /\ \E result \in RunGetMethod(history[runs[r].block]) :
       \/ /\ seqno_from_stack(result) = {}
          /\ runs' = [runs EXCEPT ![r].pc = "started"]
       \/ \E n \in seqno_from_stack(result) :
            runs' = [runs EXCEPT ![r].seqno = n, ![r].pc = "seqno"]
  /\ UNCHANGED <<pool, log, history, now>>

\* The seqno at that block, unless it was given.
ReadSeqno(r) ==
  LET args == runs[r].args
      Found(seqnos) ==
        \/ seqnos = {} /\ runs' = [runs EXCEPT ![r].pc = "failed"]
        \/ \E n \in seqnos : runs' = [runs EXCEPT ![r].seqno = n, ![r].pc = "seqno"]
  IN
  /\ runs[r].pc = "block"
  /\ \/ args.pin # None /\ Found({args.pin})
     \/ /\ args.pin = None
        /\ \E result \in RunGetMethod(history[runs[r].block]) :
             Found(IF args.tool = "cli" THEN seqno_from_stack_or_deploy_zero(result, args.deploy)
                                        ELSE v5r1_seqno(result))
     \/ args.pin = None /\ Found({})                                \* the call failed
  /\ UNCHANGED <<pool, log, history, now>>

\* Mutant: the sum is cut to 32 bits.
valid_until_cut(t) == {(t + Timeout) % (U32Max + 1)}

\* Mutant: the sum is not checked.
valid_until_wide(t) == {t + Timeout}

valid_until_from_timeout(t) == U32(t + Timeout)

\* build_external_message_boc: too many actions, or a time beyond 32 bits, and
\* nothing is submitted.
Build(r) ==
  /\ runs[r].pc = "seqno"
  /\ \/ /\ runs[r].args.actions > MaxActions \/ valid_until_from_timeout(now) = {}
        /\ runs' = [runs EXCEPT ![r].pc = "failed"]
     \/ /\ runs[r].args.actions <= MaxActions
        /\ \E t \in valid_until_from_timeout(now) :
             runs' = [runs EXCEPT ![r].built = now, ![r].valid_until = t, ![r].pc = "built"]
  /\ UNCHANGED <<pool, log, history, now>>

\* The message of a run.  Its run is not in it: it tells messages apart here.
Message(r) ==
  [run |-> r, seqno |-> runs[r].seqno, valid_until |-> runs[r].valid_until,
   init |-> runs[r].args.deploy]

\* send_external_message_boc: an error does not mean that the message is lost, a
\* status does not mean that it is not.
Submit(r) ==
  /\ runs[r].pc = "built"
  /\ pool' \in {pool, pool \cup {Message(r)}}
  /\ \E pc \in {"sent", "failed"} : runs' = [runs EXCEPT ![r].pc = pc]
  /\ UNCHANGED <<log, history, now>>

-----------------------------------------------------------------------------
\* The chain.

CanExecute(m) ==
  /\ Wallet.deployed \/ m.init
  /\ m.seqno = Wallet.seqno
  /\ now < m.valid_until

Execute ==
  /\ \E m \in pool : CanExecute(m) /\ log' = Append(log, m)
  /\ history' = Append(history, [deployed |-> TRUE, seqno |-> Wallet.seqno + 1])
  /\ UNCHANGED <<runs, pool, now>>

\* Anybody may deploy a wallet, by an internal message with its StateInit.
DeployedByOthers ==
  /\ ~Wallet.deployed
  /\ history' = Append(history, [Wallet EXCEPT !.deployed = TRUE])
  /\ UNCHANGED <<runs, pool, log, now>>

Tick == now < U32Max /\ now' = now + 1 /\ UNCHANGED <<runs, pool, log, history>>

Step(r) == GetMasterchainInfo(r) \/ ReadSeqno(r) \/ Build(r) \/ Submit(r)
Next == Start \/ (\E r \in DOMAIN runs : Step(r)) \/ Execute \/ DeployedByOthers \/ Tick

Spec == Init /\ [][Next]_vars

\* A run goes on, because every query of a client returns (LiteSession,
\* QueryReturns), and time passes.
FairSpec ==
  /\ Spec
  /\ \A r \in 1 .. MaxRuns : WF_vars(r \in DOMAIN runs /\ Step(r))
  /\ WF_vars(Tick)

-----------------------------------------------------------------------------
TypeOK ==
  /\ \A r \in DOMAIN runs :
       /\ runs[r].args \in Args
       /\ runs[r].pc \in {"started", "block", "seqno", "built", "sent", "failed"}
       /\ runs[r].block \in 0 .. Len(history)
       /\ runs[r].seqno \in -1 .. U32Max
       /\ runs[r].valid_until \in 0 .. U32Max
  /\ \A m \in pool : m.run \in DOMAIN runs
  /\ \A i \in DOMAIN log : log[i] \in pool
  /\ now \in 0 .. U32Max

Pin(m) == runs[m.run].args.pin
SeenBy(m) == history[runs[m.run].block]

\* A message for a seqno that was read executes only if the wallet executed
\* nothing since the block it was read at: no other run came between.
NothingCameBetween ==
  \A i \in DOMAIN log : Pin(log[i]) = None => SeenBy(log[i]).seqno = i - 1

\* A message is valid for the whole timeout from when it was built, also where the
\* clock comes to the end of its 32 bits.
ValidForTimeout ==
  \A m \in pool : m.valid_until = runs[m.run].built + Timeout

\* A message that cannot be executed any more.
Dead(m) == m.seqno < Wallet.seqno \/ now >= m.valid_until

\* Every run comes to an end and its message, if it has one, is executed or can
\* no longer be: a payment does not stay open.
RunsSettle ==
  \A r \in 1 .. MaxRuns :
    r \in DOMAIN runs ~>
      /\ r \in DOMAIN runs
      /\ runs[r].pc \in {"sent", "failed"}
      /\ \A m \in pool : m.run = r => Dead(m)

=============================================================================
