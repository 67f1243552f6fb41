---------------------------- MODULE WalletProofs ----------------------------
(***************************************************************************)
(* Proofs about Wallet, for any number of runs, transfers and clock ticks, *)
(* any timeout and any limit on the actions of a message.                  *)
(***************************************************************************)
EXTENDS Wallet, SequenceTheorems, TLAPS

Pcs == {"started", "block", "seqno", "built", "sent", "failed"}
RunSet == [args : Args, pc : Pcs, block : Nat, seqno : -1 .. U32Max,
           built : 0 .. U32Max, valid_until : 0 .. U32Max]
MessageSet == [run : Nat, seqno : 0 .. U32Max, valid_until : 0 .. U32Max, init : BOOLEAN]
StateSet == [deployed : BOOLEAN, seqno : Nat]

Typed ==
  /\ runs \in Seq(RunSet)
  /\ pool \subseteq MessageSet
  /\ log \in Seq(MessageSet)
  /\ history \in Seq(StateSet)
  /\ now \in 0 .. U32Max

\* The contract's seqno counts what it executed, and never falls.
ChainCounts ==
  /\ Len(history) >= 1
  /\ history[Len(history)].seqno = Len(log)
  /\ \A a, b \in 1 .. Len(history) : a <= b => history[a].seqno <= history[b].seqno

\* Where a run's seqno comes from.  It may be the zero of a run with --deploy
\* whose answer had no stack, although the wallet is deployed at that block.
Chosen(run) ==
  IF run.args.pin # None THEN run.seqno = run.args.pin
  ELSE run.seqno = history[run.block].seqno \/ run.seqno = 0

\* What is settled about a run when it has come to one of its steps.
RunSettled(run) ==
  /\ run.block \in 0 .. Len(history)
  /\ run.pc \in {"block", "seqno", "built", "sent"} => run.block \in 1 .. Len(history)
  /\ run.pc \in {"seqno", "built", "sent"} => run.seqno \in 0 .. U32Max /\ Chosen(run)
  /\ run.pc \in {"built", "sent"} => run.valid_until = run.built + Timeout

RunsSettled == \A r \in 1 .. Len(runs) : RunSettled(runs[r])

\* A message in the network is that of its run, whose fields do not change any
\* more: the run has ended, also where its submission was taken for a failure.
MessageOfRun(m, run) ==
  /\ run.pc \in {"sent", "failed"}
  /\ m.seqno = run.seqno /\ m.valid_until = run.valid_until
  /\ run.block \in 1 .. Len(history)
  /\ Chosen(run)
  /\ run.valid_until = run.built + Timeout

MessagesOfRuns ==
  \A m \in pool : m.run \in 1 .. Len(runs) /\ MessageOfRun(m, runs[m.run])

\* The contract executed the messages in the order of their seqnos.
LogInOrder ==
  \A i \in 1 .. Len(log) : log[i] \in pool /\ log[i].seqno = i - 1

\* The inductive invariant.
IInv ==
  /\ Typed /\ ChainCounts /\ RunsSettled /\ MessagesOfRuns /\ LogInOrder
  /\ NothingCameBetween

-----------------------------------------------------------------------------
\* A pin is a seqno, never the mark for none; runs are asked for 1 action or more.
LEMMA ArgsFields ==
  ASSUME NEW a \in Args
  PROVE  /\ a.pin \in -1 .. U32Max
         /\ a.pin # None => a.pin \in 0 .. U32Max
         /\ a.deploy \in BOOLEAN
<1>1. a.pin \in Pins \cup {None} /\ a.deploy \in BOOLEAN
  BY DEF Args
<1>2. U32Max \in Nat /\ Pins \subseteq 0 .. U32Max
  BY WalletAssumption
<1>3. ASSUME NEW p \in Pins \cup {None}
      PROVE  p \in -1 .. U32Max /\ (p # None => p \in 0 .. U32Max)
  BY <1>2 DEF None
<1>4. QED
  BY <1>1, <1>3

\* What a run takes for the seqno of a wallet: its seqno, or zero.
LEMMA SeqnoFound ==
  ASSUME NEW w \in StateSet, NEW result \in RunGetMethod(w), NEW d \in BOOLEAN,
         NEW n \in seqno_from_stack_or_deploy_zero(result, d) \cup v5r1_seqno(result)
  PROVE  n \in 0 .. U32Max /\ (n = w.seqno \/ n = 0)
<1>1. U32Max \in Nat
  BY WalletAssumption
<1>2. result.stack = "decoded" => result.value = w.seqno
  BY DEF RunGetMethod
<1>3. QED
  BY <1>1, <1>2 DEF seqno_from_stack_or_deploy_zero, seqno_from_stack, v5r1_seqno, U32

\* Replacing one run keeps the sequence and the other runs.
LEMMA RunReplaced ==
  ASSUME Typed, NEW r \in 1 .. Len(runs), NEW e \in RunSet,
         runs' = [runs EXCEPT ![r] = e]
  PROVE  /\ runs' \in Seq(RunSet)
         /\ Len(runs') = Len(runs)
         /\ runs'[r] = e
         /\ \A q \in 1 .. Len(runs) : q # r => runs'[q] = runs[q]
BY ExceptSeq DEF Typed

\* What the contract executed had reached the network.
LEMMA LogFromPool ==
  ASSUME IInv
  PROVE  DOMAIN log = 1 .. Len(log) /\ \A i \in DOMAIN log : log[i] \in pool
<1>1. DOMAIN log = 1 .. Len(log)
  BY DEF IInv, Typed
<1>2. QED
  BY <1>1 DEF IInv, LogInOrder

\* A step of a run that leaves the chain alone, settles what it should and has no
\* message in the network yet, preserves the invariant.
LEMMA RunStep ==
  ASSUME IInv, NEW r \in 1 .. Len(runs), NEW e \in RunSet,
         runs[r].pc \notin {"sent", "failed"},
         runs' = [runs EXCEPT ![r] = e],
         RunSettled(e), UNCHANGED <<pool, log, history, now>>
  PROVE  IInv'
<1>1. /\ runs' \in Seq(RunSet)
      /\ Len(runs') = Len(runs)
      /\ runs'[r] = e
      /\ \A q \in 1 .. Len(runs) : q # r => runs'[q] = runs[q]
  BY RunReplaced DEF IInv
<1>2. Typed' /\ ChainCounts' /\ LogInOrder'
  BY <1>1 DEF IInv, Typed, ChainCounts, LogInOrder
<1>3. RunsSettled'
  <2>1. RunSettled(e)'
    BY DEF RunSettled, Chosen
  <2>2. ASSUME NEW q \in 1 .. Len(runs), q # r PROVE RunSettled(runs[q])'
    BY <1>1, <2>2 DEF IInv, RunsSettled, RunSettled, Chosen
  <2>3. QED
    BY <1>1, <2>1, <2>2 DEF RunsSettled, RunSettled, Chosen
<1>4. \A m \in pool : m.run # r /\ m.run \in 1 .. Len(runs)
  BY DEF IInv, MessagesOfRuns, MessageOfRun
<1>5. MessagesOfRuns'
  BY <1>1, <1>4 DEF IInv, MessagesOfRuns, MessageOfRun, Chosen
<1>6. NothingCameBetween'
  BY <1>1, <1>4 DEF IInv, NothingCameBetween, LogInOrder, Pin, SeenBy, Typed
<1>7. QED
  BY <1>2, <1>3, <1>5, <1>6 DEF IInv

\* A run that fails before it submitted anything preserves the invariant.
LEMMA RunFails ==
  ASSUME IInv, NEW r \in 1 .. Len(runs), runs[r].pc \notin {"sent", "failed"},
         runs' = [runs EXCEPT ![r].pc = "failed"],
         UNCHANGED <<pool, log, history, now>>
  PROVE  IInv'
<1> DEFINE e == [runs[r] EXCEPT !.pc = "failed"]
<1>1. runs[r] \in RunSet /\ RunSettled(runs[r])
  BY DEF IInv, Typed, RunsSettled
<1>2. e \in RunSet /\ RunSettled(e)
  BY <1>1 DEF RunSet, Pcs, RunSettled
<1>3. runs' = [runs EXCEPT ![r] = e]
  BY <1>1 DEF RunSet
<1>4. QED
  BY <1>2, <1>3, RunStep

-----------------------------------------------------------------------------
\* Before the first run nothing is executed and the wallet is not deployed (Init).
LEMMA InitIInv == Init => IInv
<1> SUFFICES ASSUME Init PROVE IInv
  OBVIOUS
<1> USE DEF Init
<1>1. U32Max \in Nat
  BY WalletAssumption
<1>2. Typed
  BY <1>1 DEF Typed, StateSet
<1>3. ChainCounts
  BY DEF ChainCounts
<1>4. RunsSettled /\ MessagesOfRuns /\ LogInOrder /\ NothingCameBetween
  BY DEF RunsSettled, MessagesOfRuns, LogInOrder, NothingCameBetween
<1>5. QED
  BY <1>2, <1>3, <1>4 DEF IInv

\* A run that starts has read nothing and has no message.
LEMMA StartIInv == IInv /\ Start => IInv'
<1> SUFFICES ASSUME IInv, NEW args \in Args, runs' = Append(runs, Run(args)),
                    UNCHANGED <<pool, log, history, now>>
             PROVE  IInv'
  BY DEF Start
<1> DEFINE e == Run(args)
<1>1. e \in RunSet /\ e.pc = "started" /\ e.block = 0
  BY WalletAssumption DEF Run, RunSet, Pcs, None
<1> HIDE DEF e
<1>2. /\ runs' \in Seq(RunSet) /\ Len(runs') = Len(runs) + 1 /\ Len(runs) \in Nat
      /\ runs'[Len(runs) + 1] = e
      /\ \A q \in 1 .. Len(runs) : runs'[q] = runs[q]
  BY <1>1 DEF IInv, Typed, e
<1>3. Typed' /\ ChainCounts' /\ LogInOrder'
  BY <1>2 DEF IInv, Typed, ChainCounts, LogInOrder
<1>4. RunsSettled'
  <2>1. RunSettled(e)'
    BY <1>1 DEF RunSettled, IInv, Typed
  <2>2. ASSUME NEW q \in 1 .. Len(runs) PROVE RunSettled(runs[q])'
    BY <1>2 DEF IInv, RunsSettled, RunSettled, Chosen
  <2>3. QED
    BY <1>2, <2>1, <2>2 DEF RunsSettled, RunSettled, Chosen
<1>5. MessagesOfRuns'
  BY <1>2 DEF IInv, MessagesOfRuns, MessageOfRun, Chosen
<1>6. NothingCameBetween'
  <2>1. \A m \in pool : runs'[m.run] = runs[m.run]
    BY <1>2 DEF IInv, MessagesOfRuns
  <2>2. \A i \in DOMAIN log : log[i] \in pool
    BY LogFromPool
  <2> QED
    BY <2>1, <2>2 DEF IInv, NothingCameBetween, Pin, SeenBy
<1>7. QED
  BY <1>3, <1>4, <1>5, <1>6 DEF IInv

\* A run takes a block some server has, so one of the history (get_masterchain_info).
LEMMA GetMasterchainInfoIInv ==
  ASSUME IInv, NEW r \in DOMAIN runs, GetMasterchainInfo(r)
  PROVE  IInv'
<1>1. r \in 1 .. Len(runs) /\ runs[r] \in RunSet /\ RunSettled(runs[r])
  BY DEF IInv, Typed, RunsSettled
<1>2. ASSUME NEW b \in DOMAIN history,
             runs' = [runs EXCEPT ![r].block = b, ![r].pc = "block"]
      PROVE  IInv'
  <2> DEFINE e == [runs[r] EXCEPT !.block = b, !.pc = "block"]
  <2>1. b \in 1 .. Len(history) /\ Len(history) \in Nat /\ b \in Nat
    BY <1>2 DEF IInv, Typed
  <2>2. e \in RunSet /\ e.pc = "block" /\ e.block = b
    BY <1>1, <2>1 DEF RunSet, Pcs
  <2>3. RunSettled(e)
    BY <2>1, <2>2 DEF RunSettled
  <2>4. runs' = [runs EXCEPT ![r] = e]
    BY <1>1, <1>2 DEF RunSet
  <2> QED
    BY <1>1, <2>2, <2>3, <2>4, RunStep DEF GetMasterchainInfo
<1>3. ASSUME runs' = [runs EXCEPT ![r].pc = "failed"]
      PROVE  IInv'
  BY <1>1, <1>3, RunFails DEF GetMasterchainInfo
<1>4. QED
  BY <1>2, <1>3 DEF GetMasterchainInfo

\* A run comes by its seqno in the two ways of Chosen (ReadSeqno).
LEMMA ReadSeqnoIInv ==
  ASSUME IInv, NEW r \in DOMAIN runs, ReadSeqno(r)
  PROVE  IInv'
<1> DEFINE run == runs[r]
           Source(n) == IF run.args.pin # None THEN n = run.args.pin
                        ELSE n = history[run.block].seqno \/ n = 0
<1>a. r \in 1 .. Len(runs) /\ run \in RunSet /\ RunSettled(run)
  BY DEF IInv, Typed, RunsSettled
<1>b. run.pc = "block" /\ UNCHANGED <<pool, log, history, now>>
  BY DEF ReadSeqno
<1>1. /\ r \in 1 .. Len(runs) /\ run \in RunSet /\ RunSettled(run)
      /\ run.pc = "block" /\ UNCHANGED <<pool, log, history, now>>
  BY <1>a, <1>b
<1>2. /\ run.args \in Args
      /\ run.block \in 1 .. Len(history) /\ history[run.block] \in StateSet
  BY <1>1 DEF RunSet, RunSettled, IInv, Typed
<1>3. \/ runs' = [runs EXCEPT ![r].pc = "failed"]
      \/ \E n \in 0 .. U32Max :
           Source(n) /\ runs' = [runs EXCEPT ![r].seqno = n, ![r].pc = "seqno"]
  <2>1. CASE run.args.pin # None
    BY <1>2, <2>1, ArgsFields DEF ReadSeqno
  <2>2. CASE run.args.pin = None
    <3>1. ASSUME NEW result \in RunGetMethod(history[run.block]),
                 NEW n \in seqno_from_stack_or_deploy_zero(result, run.args.deploy)
                            \cup v5r1_seqno(result)
          PROVE  n \in 0 .. U32Max /\ Source(n)
      <4>1. run.args.deploy \in BOOLEAN
        BY <1>2, ArgsFields
      <4> QED
        BY <1>2, <2>2, <3>1, <4>1, SeqnoFound
    <3> HIDE DEF Source, run
    <3> QED
      BY <2>2, <3>1 DEF ReadSeqno, run
  <2> QED
    BY <2>1, <2>2
<1>4. ASSUME NEW n \in 0 .. U32Max, Source(n),
             runs' = [runs EXCEPT ![r].seqno = n, ![r].pc = "seqno"]
      PROVE  IInv'
  <2> DEFINE e == [run EXCEPT !.seqno = n, !.pc = "seqno"]
  <2>1. n \in -1 .. U32Max
    BY WalletAssumption
  <2>2. /\ e \in RunSet /\ e.pc = "seqno" /\ e.seqno = n
        /\ e.block = run.block /\ e.args = run.args
    BY <1>1, <2>1 DEF RunSet, Pcs
  <2>3. RunSettled(e)
    BY <1>1, <1>4, <2>2 DEF RunSettled, Chosen
  <2>4. runs' = [runs EXCEPT ![r] = e]
    BY <1>1, <1>4 DEF RunSet
  <2> QED
    BY <1>1, <2>2, <2>3, <2>4, RunStep
<1>5. QED
  BY <1>1, <1>3, <1>4, RunFails

\* The end of a message's validity is the sum, or the run fails.
LEMMA BuildIInv ==
  ASSUME IInv, NEW r \in DOMAIN runs, Build(r)
  PROVE  IInv'
<1> DEFINE run == runs[r]
<1>a. r \in 1 .. Len(runs) /\ run \in RunSet /\ RunSettled(run) /\ now \in 0 .. U32Max
  BY DEF IInv, Typed, RunsSettled
<1>b. run.pc = "seqno" /\ UNCHANGED <<pool, log, history, now>>
  BY DEF Build
<1>1. /\ r \in 1 .. Len(runs) /\ run \in RunSet /\ RunSettled(run) /\ now \in 0 .. U32Max
      /\ run.pc = "seqno" /\ UNCHANGED <<pool, log, history, now>>
  BY <1>a, <1>b
<1>2. ASSUME NEW t \in valid_until_from_timeout(now),
             runs' = [runs EXCEPT ![r].built = now, ![r].valid_until = t, ![r].pc = "built"]
      PROVE  IInv'
  <2> DEFINE e == [run EXCEPT !.built = now, !.valid_until = t, !.pc = "built"]
  <2>1. t = now + Timeout /\ t \in 0 .. U32Max
    BY DEF valid_until_from_timeout, U32
  <2>2. /\ e \in RunSet /\ e.pc = "built" /\ e.built = now /\ e.valid_until = t
        /\ e.block = run.block /\ e.args = run.args /\ e.seqno = run.seqno
    BY <1>1, <2>1 DEF RunSet, Pcs
  <2>3. RunSettled(e)
    BY <1>1, <2>1, <2>2 DEF RunSettled, Chosen
  <2>4. runs' = [runs EXCEPT ![r] = e]
    BY <1>1, <1>2 DEF RunSet
  <2> QED
    BY <1>1, <2>2, <2>3, <2>4, RunStep
<1>3. QED
  BY <1>1, <1>2, RunFails DEF Build

\* The message that is submitted is that of the run, whether or not it arrives
\* and whatever the run is told.
LEMMA SubmitIInv ==
  ASSUME IInv, NEW r \in DOMAIN runs, Submit(r)
  PROVE  IInv'
<1> DEFINE run == runs[r]
<1>1. r \in 1 .. Len(runs) /\ run \in RunSet /\ RunSettled(run)
  BY DEF IInv, Typed, RunsSettled
<1>2. run.pc = "built" /\ UNCHANGED <<log, history, now>>
  BY DEF Submit
<1>3. PICK pc \in {"sent", "failed"} : runs' = [runs EXCEPT ![r].pc = pc]
  BY DEF Submit
<1>0. [run EXCEPT !.pc = pc] \in RunSet
  BY <1>1, <1>3 DEF RunSet, Pcs
<1> PICK e \in RunSet : e = [run EXCEPT !.pc = pc]
  BY <1>0
<1>4. /\ e \in RunSet /\ e.pc = pc /\ e.seqno = run.seqno /\ e.block = run.block
      /\ e.args = run.args /\ e.built = run.built /\ e.valid_until = run.valid_until
  BY <1>1, <1>3 DEF RunSet, Pcs
<1>5. runs' = [runs EXCEPT ![r] = e]
  BY <1>1, <1>3 DEF RunSet
<1>6. RunSettled(e)
  BY <1>1, <1>2, <1>3, <1>4 DEF RunSettled, Chosen
<1>7. /\ runs' \in Seq(RunSet) /\ Len(runs') = Len(runs)
      /\ runs'[r] = e
      /\ \A q \in 1 .. Len(runs) : q # r => runs'[q] = runs[q]
  BY <1>1, <1>4, <1>5, RunReplaced DEF IInv
<1>8. PICK msg \in MessageSet :
        /\ msg = Message(r) /\ msg.run = r
        /\ msg.seqno = run.seqno /\ msg.valid_until = run.valid_until
  <2>1. run.args.deploy \in BOOLEAN
    BY <1>1, ArgsFields DEF RunSet
  <2>2. run.seqno \in 0 .. U32Max /\ run.valid_until \in 0 .. U32Max /\ r \in Nat
    BY <1>1, <1>2 DEF RunSettled, RunSet
  <2>3. Message(r) \in MessageSet
    BY <2>1, <2>2 DEF Message, MessageSet
  <2> QED
    BY <2>3 DEF Message
<1>9. Typed' /\ ChainCounts' /\ LogInOrder'
  <2>1. Typed'
    BY <1>2, <1>7, <1>8 DEF IInv, Typed, Submit
  <2>2. ChainCounts' /\ LogInOrder'
    BY <1>2 DEF IInv, ChainCounts, LogInOrder, Submit
  <2> QED
    BY <2>1, <2>2
<1>10. RunsSettled'
  <2>1. RunSettled(e)'
    BY <1>2, <1>6 DEF RunSettled, Chosen
  <2>2. ASSUME NEW q \in 1 .. Len(runs), q # r PROVE RunSettled(runs[q])'
    BY <1>2, <1>7, <2>2 DEF IInv, RunsSettled, RunSettled, Chosen
  <2> QED
    BY <1>7, <2>1, <2>2 DEF RunsSettled, RunSettled, Chosen
<1>11. \A m \in pool : m.run # r /\ m.run \in 1 .. Len(runs)
  BY <1>2 DEF IInv, MessagesOfRuns, MessageOfRun
<1>12. MessagesOfRuns'
  <2>1. ASSUME NEW m \in pool PROVE MessageOfRun(m, runs[m.run])'
    BY <1>2, <1>7, <1>11 DEF IInv, MessagesOfRuns, MessageOfRun, Chosen
  <2>2. MessageOfRun(msg, e)'
    BY <1>1, <1>2, <1>3, <1>4, <1>8 DEF RunSettled, MessageOfRun, Chosen
  <2> QED
    BY <1>1, <1>7, <1>8, <1>11, <2>1, <2>2 DEF MessagesOfRuns, MessageOfRun, Chosen, Submit
<1>13. NothingCameBetween'
  <2>1. \A m \in pool : runs'[m.run] = runs[m.run]
    BY <1>7, <1>11
  <2>2. \A i \in DOMAIN log : log[i] \in pool
    BY LogFromPool
  <2> QED
    BY <1>2, <2>1, <2>2 DEF IInv, NothingCameBetween, Pin, SeenBy
<1>14. QED
  BY <1>9, <1>10, <1>12, <1>13 DEF IInv

\* A message executes at the wallet's seqno: its run saw a block with that seqno,
\* or took zero for it and the wallet had executed nothing at all.
LEMMA ExecuteIInv == IInv /\ Execute => IInv'
<1> SUFFICES ASSUME IInv, Execute PROVE IInv'
  OBVIOUS
<1>1. PICK m \in pool : CanExecute(m) /\ log' = Append(log, m)
  BY DEF Execute
<1>2. /\ UNCHANGED <<runs, pool, now>>
      /\ history' = Append(history, [deployed |-> TRUE, seqno |-> Wallet.seqno + 1])
  BY DEF Execute
<1>0. Len(history) \in Nat /\ Len(log) \in Nat
  BY DEF IInv, Typed
<1> PICK n \in Nat, k \in Nat : n = Len(history) /\ k = Len(log)
  BY <1>0
<1>3. /\ n \in Nat /\ n >= 1 /\ k \in Nat /\ Wallet.seqno = k
      /\ log \in Seq(MessageSet) /\ history \in Seq(StateSet) /\ m \in MessageSet
  BY DEF IInv, Typed, ChainCounts, Wallet
<1>4. PICK w \in StateSet : w = [deployed |-> TRUE, seqno |-> k + 1]
  <2>1. k + 1 \in Nat
    BY <1>3
  <2> QED
    BY <2>1 DEF StateSet
<1>5. /\ history' \in Seq(StateSet) /\ Len(history') = n + 1
      /\ history'[n + 1].seqno = k + 1
      /\ \A b \in 1 .. n : history'[b] = history[b]
  <2>1. history' = Append(history, w)
    BY <1>2, <1>3, <1>4
  <2> QED
    BY <1>3, <1>4, <2>1
<1>6. /\ log' \in Seq(MessageSet) /\ Len(log') = k + 1 /\ log'[k + 1] = m
      /\ \A i \in 1 .. k : log'[i] = log[i]
  BY <1>1, <1>3
<1>7. Typed'
  BY <1>2, <1>5, <1>6 DEF IInv, Typed
<1>8. ASSUME NEW b \in 1 .. n PROVE history[b].seqno \in Nat /\ history[b].seqno <= k
  <2>1. history[b] \in StateSet
    BY <1>3
  <2>2. history[b].seqno <= history[n].seqno
    BY <1>3 DEF IInv, ChainCounts
  <2> QED
    BY <1>3, <2>1, <2>2 DEF Wallet, StateSet
<1>9. ChainCounts'
  <2>1. \A a, b \in 1 .. n : a <= b => history[a].seqno <= history[b].seqno
    BY DEF IInv, ChainCounts
  <2>2. ASSUME NEW a \in 1 .. n + 1, NEW b \in 1 .. n + 1, a <= b
        PROVE  history'[a].seqno <= history'[b].seqno
    <3>1. CASE b \in 1 .. n
      BY <1>5, <2>1, <2>2, <3>1
    <3>2. CASE b = n + 1 /\ a \in 1 .. n
      BY <1>3, <1>5, <1>8, <3>2
    <3>3. CASE b = n + 1 /\ a = n + 1
      BY <1>3, <1>5, <3>3
    <3> QED
      BY <2>2, <3>1, <3>2, <3>3
  <2>3. Len(history)' = n + 1 /\ Len(log)' = k + 1
    BY <1>5, <1>6
  <2>4. Len(history)' >= 1
    BY <1>3, <2>3
  <2>5. history'[Len(history)'].seqno = Len(log)'
    BY <1>5, <2>3
  <2>6. \A a, b \in 1 .. Len(history)' : a <= b => history'[a].seqno <= history'[b].seqno
    BY <2>2, <2>3
  <2> QED
    BY <2>4, <2>5, <2>6 DEF ChainCounts
<1>10. RunsSettled'
  <2>1. ASSUME NEW r \in 1 .. Len(runs) PROVE RunSettled(runs[r])'
    <3>1. RunSettled(runs[r])
      BY DEF IInv, RunsSettled
    <3> QED
      BY <1>2, <1>3, <1>5, <3>1 DEF RunSettled, Chosen
  <2> QED
    BY <1>2, <2>1 DEF RunsSettled, RunSettled, Chosen
<1>11. MessagesOfRuns'
  BY <1>2, <1>3, <1>5 DEF IInv, MessagesOfRuns, MessageOfRun, Chosen
<1>12. m.seqno = k
  BY <1>1, <1>3 DEF CanExecute
<1>13. LogInOrder'
  <2>1. \A i \in 1 .. k : log[i] \in pool /\ log[i].seqno = i - 1
    BY DEF IInv, LogInOrder
  <2>2. ASSUME NEW i \in 1 .. k + 1 PROVE log'[i] \in pool /\ log'[i].seqno = i - 1
    <3>1. CASE i \in 1 .. k
      BY <1>6, <2>1, <3>1
    <3>2. CASE i = k + 1
      <4>1. k + 1 - 1 = k
        BY <1>3
      <4> QED
        BY <1>1, <1>6, <1>12, <3>2, <4>1
    <3>3. i \in 1 .. k \/ i = k + 1
      BY <1>3, <2>2
    <3> QED
      BY <3>1, <3>2, <3>3
  <2>3. Len(log)' = k + 1 /\ pool' = pool
    BY <1>2, <1>6
  <2> QED
    BY <2>2, <2>3 DEF LogInOrder
<1>14. NothingCameBetween'
  <2>1. ASSUME NEW i \in 1 .. k, Pin(log[i])' = None PROVE SeenBy(log[i])'.seqno = i - 1
    <3>1. log[i] \in pool /\ log'[i] = log[i]
      BY <1>6 DEF IInv, LogInOrder
    <3>2. runs[log[i].run].block \in 1 .. n
      BY <3>1 DEF IInv, MessagesOfRuns, MessageOfRun
    <3>3. Pin(log[i]) = None => SeenBy(log[i]).seqno = i - 1
      BY <1>3 DEF IInv, NothingCameBetween
    <3> QED
      BY <1>2, <1>5, <2>1, <3>1, <3>2, <3>3 DEF Pin, SeenBy
  <2>2. ASSUME Pin(m) = None PROVE history[runs[m.run].block].seqno = k
    <3>1. runs[m.run].block \in 1 .. n /\ Chosen(runs[m.run]) /\ m.seqno = runs[m.run].seqno
      BY DEF IInv, MessagesOfRuns, MessageOfRun
    <3> QED
      BY <1>3, <1>8, <1>12, <2>2, <3>1 DEF Chosen, Pin
  <2>3. runs[m.run].block \in 1 .. n
    BY DEF IInv, MessagesOfRuns, MessageOfRun
  <2>4. Pin(log[k + 1])' = None => SeenBy(log[k + 1])'.seqno = k + 1 - 1
    BY <1>2, <1>3, <1>5, <1>6, <2>2, <2>3 DEF Pin, SeenBy
  <2>5. DOMAIN log' = 1 .. k + 1
    BY <1>6
  <2> QED
    BY <1>3, <2>1, <2>4, <2>5 DEF NothingCameBetween
<1>15. QED
  BY <1>7, <1>9, <1>10, <1>11, <1>13, <1>14 DEF IInv

\* Somebody else deploys the wallet: a block more, the same seqno.
LEMMA DeployedByOthersIInv == IInv /\ DeployedByOthers => IInv'
<1> SUFFICES ASSUME IInv, DeployedByOthers PROVE IInv'
  OBVIOUS
<1>1. /\ UNCHANGED <<runs, pool, log, now>>
      /\ history' = Append(history, [Wallet EXCEPT !.deployed = TRUE])
  BY DEF DeployedByOthers
<1>2. Len(history) \in Nat /\ Len(history) >= 1 /\ history \in Seq(StateSet)
  BY DEF IInv, Typed, ChainCounts
<1> PICK n \in Nat : n = Len(history)
  BY <1>2
<1>3. Wallet \in StateSet /\ Wallet = history[n]
  BY <1>2 DEF Wallet
<1>4. PICK w \in StateSet : w = [Wallet EXCEPT !.deployed = TRUE] /\ w.seqno = history[n].seqno
  <2>1. [Wallet EXCEPT !.deployed = TRUE] \in StateSet
    BY <1>3 DEF StateSet
  <2>2. [Wallet EXCEPT !.deployed = TRUE].seqno = history[n].seqno
    BY <1>3 DEF StateSet
  <2> QED
    BY <2>1, <2>2
<1>5. /\ history' \in Seq(StateSet) /\ Len(history') = n + 1
      /\ history'[n + 1].seqno = history[n].seqno
      /\ \A b \in 1 .. n : history'[b] = history[b]
  <2>1. history' = Append(history, w)
    BY <1>1, <1>4
  <2> QED
    BY <1>2, <1>4, <2>1
<1>6. Typed' /\ LogInOrder'
  BY <1>1, <1>5 DEF IInv, Typed, LogInOrder
<1>7. ChainCounts'
  <2>1. \A a, b \in 1 .. n : a <= b => history[a].seqno <= history[b].seqno
    BY DEF IInv, ChainCounts
  <2>2. ASSUME NEW a \in 1 .. n + 1, NEW b \in 1 .. n + 1, a <= b
        PROVE  history'[a].seqno <= history'[b].seqno
    <3>1. history[n].seqno \in Nat
      BY <1>3 DEF StateSet
    <3>2. CASE b \in 1 .. n
      BY <1>5, <2>1, <2>2, <3>2
    <3>3. CASE b = n + 1 /\ a \in 1 .. n
      BY <1>2, <1>5, <2>1, <3>3
    <3>4. CASE b = n + 1 /\ a = n + 1
      BY <1>5, <3>1, <3>4
    <3> QED
      BY <2>2, <3>2, <3>3, <3>4
  <2> QED
    BY <1>1, <1>2, <1>5, <2>2 DEF IInv, ChainCounts
<1>8. RunsSettled'
  <2>1. ASSUME NEW r \in 1 .. Len(runs) PROVE RunSettled(runs[r])'
    <3>1. RunSettled(runs[r])
      BY DEF IInv, RunsSettled
    <3> QED
      BY <1>1, <1>2, <1>5, <3>1 DEF RunSettled, Chosen
  <2> QED
    BY <1>1, <2>1 DEF RunsSettled, RunSettled, Chosen
<1>9. MessagesOfRuns'
  BY <1>1, <1>2, <1>5 DEF IInv, MessagesOfRuns, MessageOfRun, Chosen
<1>10. NothingCameBetween'
  <2>1. \A i \in DOMAIN log : runs[log[i].run].block \in 1 .. n
    BY LogFromPool DEF IInv, MessagesOfRuns, MessageOfRun
  <2> QED
    BY <1>1, <1>5, <2>1 DEF IInv, NothingCameBetween, Pin, SeenBy
<1>11. QED
  BY <1>6, <1>7, <1>8, <1>9, <1>10 DEF IInv

\* The clock says nothing about what was built and executed before.
LEMMA TickIInv == IInv /\ (Tick \/ UNCHANGED vars) => IInv'
<1> SUFFICES ASSUME IInv, Tick \/ UNCHANGED vars PROVE IInv'
  OBVIOUS
<1>1. UNCHANGED <<runs, pool, log, history>>
  BY DEF Tick, vars
<1>2. now' \in 0 .. U32Max
  BY WalletAssumption DEF IInv, Typed, Tick, vars
<1>3. Typed' /\ ChainCounts' /\ LogInOrder' /\ NothingCameBetween'
  BY <1>1, <1>2 DEF IInv, Typed, ChainCounts, LogInOrder, NothingCameBetween, Pin, SeenBy
<1>4. RunsSettled' /\ MessagesOfRuns'
  BY <1>1 DEF IInv, RunsSettled, RunSettled, MessagesOfRuns, MessageOfRun, Chosen
<1>5. QED
  BY <1>3, <1>4 DEF IInv

\* Every step of a run, of the chain and of the clock preserves the invariant.
THEOREM NextIInv == IInv /\ [Next]_vars => IInv'
<1> SUFFICES ASSUME IInv, [Next]_vars PROVE IInv'
  OBVIOUS
<1>1. ASSUME NEW r \in DOMAIN runs, Step(r) PROVE IInv'
  BY <1>1, GetMasterchainInfoIInv, ReadSeqnoIInv, BuildIInv, SubmitIInv DEF Step
<1>2. QED
  BY <1>1, StartIInv, ExecuteIInv, DeployedByOthersIInv, TickIInv DEF Next

\* The invariant holds in every state of the runs and the chain.
THEOREM Inductive == Spec => []IInv
BY InitIInv, NextIInv, PTL DEF Spec

-----------------------------------------------------------------------------
\* The module's type invariant is part of what the inductive one says.
THEOREM TypeCorrect == Spec => []TypeOK
<1>1. IInv => TypeOK
  <2> SUFFICES ASSUME IInv PROVE TypeOK
    OBVIOUS
  <2>1. ASSUME NEW r \in DOMAIN runs
        PROVE  /\ runs[r].args \in Args
               /\ runs[r].pc \in {"started", "block", "seqno", "built", "sent", "failed"}
               /\ runs[r].block \in 0 .. Len(history)
               /\ runs[r].seqno \in -1 .. U32Max
               /\ runs[r].valid_until \in 0 .. U32Max
    <3>1. runs[r] \in RunSet /\ r \in 1 .. Len(runs)
      BY DEF IInv, Typed
    <3>2. runs[r].block \in 0 .. Len(history)
      BY <3>1 DEF IInv, RunsSettled, RunSettled
    <3> QED
      BY <3>1, <3>2 DEF RunSet, Pcs
  <2>2. \A m \in pool : m.run \in DOMAIN runs
    <3>1. DOMAIN runs = 1 .. Len(runs)
      BY DEF IInv, Typed
    <3> QED
      BY <3>1 DEF IInv, MessagesOfRuns
  <2>3. now \in 0 .. U32Max
    BY DEF IInv, Typed
  <2> QED
    BY <2>1, <2>2, <2>3, LogFromPool DEF TypeOK
<1>2. QED
  BY <1>1, Inductive, PTL

\* A message for a seqno that a run read executes only if the wallet executed
\* nothing since the block it was read at, whatever the run took for the seqno of
\* an answer without a stack (ReadSeqno).
THEOREM NothingBetween == Spec => []NothingCameBetween
<1>1. IInv => NothingCameBetween
  BY DEF IInv
<1>2. QED
  BY <1>1, Inductive, PTL

\* A message is valid for the whole timeout from when it was built: where the sum
\* does not fit 32 bits, the run fails instead (Build).
THEOREM WholeTimeout == Spec => []ValidForTimeout
<1>1. IInv => ValidForTimeout
  BY DEF IInv, MessagesOfRuns, MessageOfRun, ValidForTimeout
<1>2. QED
  BY <1>1, Inductive, PTL

\* The message of a run is executed at most once.
ExecutedOnce == \A i, j \in DOMAIN log : log[i].run = log[j].run => i = j

\* A message is executed at most once, although it stays in the network and the
\* contract is offered it again (Execute).
THEOREM NoReplay == Spec => []ExecutedOnce
<1>1. IInv => ExecutedOnce
  <2> SUFFICES ASSUME IInv, NEW i \in DOMAIN log, NEW j \in DOMAIN log,
                      log[i].run = log[j].run
               PROVE  i = j
    BY DEF ExecutedOnce
  <2>1. i \in 1 .. Len(log) /\ j \in 1 .. Len(log) /\ log[i].seqno = i - 1 /\ log[j].seqno = j - 1
    BY LogFromPool DEF IInv, LogInOrder
  <2>2. log[i].seqno = runs[log[i].run].seqno /\ log[j].seqno = runs[log[j].run].seqno
    BY LogFromPool DEF IInv, MessagesOfRuns, MessageOfRun
  <2> QED
    BY <2>1, <2>2
<1>2. QED
  BY <1>1, Inductive, PTL
=============================================================================
