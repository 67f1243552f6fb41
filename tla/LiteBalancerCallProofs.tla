----------------------- MODULE LiteBalancerCallProofs -----------------------
(***************************************************************************)
(* Proofs about the calls of LiteBalancer: how often and whom they ask,    *)
(* what they return, which peer is chosen and which peers are evicted.     *)
(***************************************************************************)
EXTENDS LiteBalancerProofs, WellFoundedInduction

Asked(tried) == {tried[i].peer : i \in 1 .. Len(tried)}

\* A call that has chosen a peer has an attempt left for it.
HasAttempt == call.pc \in {"limiter", "inflight"} => Len(call.tried) < call.limit

\* send_message has asked as many peers as it made attempts, and the peer it has chosen is
\* not one of them.
AsksAnother ==
  call.kind = "send" =>
    /\ Cardinality(Asked(call.tried)) = Len(call.tried)
    /\ call.pc \in {"limiter", "inflight"} => call.peer \notin Asked(call.tried)

\* The result of the last call is looked at before the next one begins.
ResultIsLast == last.kind # "none" => call = Idle

\* The inductive invariant about calls.
CInv == HasAttempt /\ AsksAnother /\ ResultIsLast /\ RetryDiscipline /\ SendFanout

-----------------------------------------------------------------------------
\* The list t is the list s with one more attempt, a.
Longer(t, s, a) ==
  /\ t \in Seq(Attempt) /\ Len(s) \in Nat /\ Len(t) = Len(s) + 1
  /\ t[Len(s) + 1] = a /\ \A i \in 1 .. Len(s) : t[i] = s[i]
  /\ Asked(t) = Asked(s) \cup {a.peer}
  /\ Outcomes(t) = Outcomes(s) \cup {a.outcome}

\* The record of one more attempt.
LEMMA OneMore ==
  ASSUME NEW s \in Seq(Attempt), NEW a \in Attempt
  PROVE  Longer(Append(s, a), s, a)
<1> DEFINE t == Append(s, a)
<1>1. /\ t \in Seq(Attempt) /\ Len(s) \in Nat /\ Len(t) = Len(s) + 1
      /\ t[Len(s) + 1] = a /\ \A i \in 1 .. Len(s) : t[i] = s[i]
  OBVIOUS
<1>2. 1 .. Len(t) = 1 .. Len(s) \cup {Len(s) + 1}
  BY <1>1
<1>3. Asked(t) = Asked(s) \cup {a.peer}
  BY <1>1, <1>2 DEF Asked
<1>4. Outcomes(t) = Outcomes(s) \cup {a.outcome}
  BY <1>1, <1>2 DEF Outcomes
<1>5. QED
  BY <1>1, <1>3, <1>4 DEF Longer

\* The peers that were asked are finitely many.
LEMMA AskedFinite ==
  ASSUME NEW s \in Seq(Attempt)
  PROVE  IsFiniteSet(Asked(s)) /\ Asked(s) \subseteq Peers
<1>1. \A i \in 1 .. Len(s) : s[i].peer \in Peers
  <2>1. \A i \in 1 .. Len(s) : s[i] \in Attempt
    OBVIOUS
  <2>2. \A a \in Attempt : a.peer \in Peers
    BY DEF Attempt
  <2> QED
    BY <2>1, <2>2
<1>2. Asked(s) \in SUBSET Peers
  BY <1>1 DEF Asked
<1>3. QED
  BY <1>2, BalancerAssumption, FS_Subset

\* Nothing has happened yet.
LEMMA InitCInv == Init => CInv
<1> SUFFICES ASSUME Init PROVE CInv
  OBVIOUS
<1>1. call = Idle /\ call.pc = "idle" /\ call.kind = "none" /\ last.kind = "none"
  BY DEF Init, Idle, NoResult
<1>2. QED
  BY <1>1 DEF CInv, HasAttempt, AsksAnother, ResultIsLast, RetryDiscipline, SendFanout

\* What is known of a call in flight, and of its attempt once it has the outcome o.
LEMMA AttemptEnds ==
  ASSUME IInv, CInv, call.pc = "inflight", NEW o \in LiteError \cup {"ok"}
  PROVE  /\ call.tried \in Seq(Attempt) /\ Tried(o) \in Seq(Attempt)
         /\ call.limit \in Nat /\ Len(call.tried) \in Nat /\ Len(Tried(o)) = Len(call.tried) + 1
         /\ Len(Tried(o)) <= call.limit
         /\ Tried(o)[Len(Tried(o))].outcome = o
         /\ \A i \in 1 .. Len(Tried(o)) - 1 : Tried(o)[i] = call.tried[i]
         /\ Outcomes(Tried(o)) = Outcomes(call.tried) \cup {o}
         /\ call.kind = "send" => Cardinality(Asked(Tried(o))) = Len(Tried(o))
         /\ call # Idle /\ last.kind = "none"
<1>1. PICK s \in Seq(Attempt), p \in Peers, m \in Nat : s = call.tried /\ p = call.peer /\ m = call.limit
  BY DEF IInv, TypeOK, Call
<1>2. PICK a \in Attempt : a = [peer |-> p, outcome |-> o]
  BY DEF Attempt
<1>3. PICK t : t = Tried(o) /\ Longer(t, s, a)
  <2>1. Tried(o) = Append(s, a)
    BY <1>1, <1>2 DEF Tried
  <2> QED
    BY <2>1, OneMore
<1>4. /\ t \in Seq(Attempt) /\ Len(s) \in Nat /\ Len(t) = Len(s) + 1
      /\ t[Len(s) + 1] = a /\ \A i \in 1 .. Len(s) : t[i] = s[i]
      /\ Asked(t) = Asked(s) \cup {a.peer}
      /\ Outcomes(t) = Outcomes(s) \cup {a.outcome}
  BY <1>3 DEF Longer
<1>5. a.peer = p /\ a.outcome = o
  BY <1>2
<1>6. Len(s) < m
  BY <1>1 DEF CInv, HasAttempt
<1>7. call.kind = "send" => Cardinality(Asked(t)) = Len(t)
  <2>1. SUFFICES ASSUME call.kind = "send" PROVE Cardinality(Asked(t)) = Len(t)
    OBVIOUS
  <2>2. Cardinality(Asked(s)) = Len(s) /\ p \notin Asked(s)
    BY <1>1, <2>1 DEF CInv, AsksAnother
  <2>3. IsFiniteSet(Asked(s))
    BY AskedFinite
  <2>4. Cardinality(Asked(s) \cup {p}) = Cardinality(Asked(s)) + 1
    BY <2>2, <2>3, FS_AddElement
  <2> QED
    BY <1>4, <1>5, <2>2, <2>4
<1>8. call # Idle
  BY CallTypes
<1>9. last.kind = "none"
  BY <1>8 DEF CInv, ResultIsLast
<1>10. Len(t) - 1 = Len(s) /\ Len(t) <= m
  BY <1>4, <1>6
<1>11. QED
  BY <1>1, <1>3, <1>4, <1>5, <1>7, <1>8, <1>9, <1>10

\* The loop of a call goes on: after any outcome for send_message, after a retryable
\* failure for the others.
LEMMA GoesOn ==
  ASSUME IInv, CInv, call.pc = "inflight", NEW o \in LiteError \cup {"ok"},
         call.kind # "send" => retryable_failure(o), NextAttempt(Tried(o))
  PROVE  CInv'
<1>1. PICK t : t = Tried(o)
  OBVIOUS
<1>2. /\ Len(t) <= call.limit /\ Outcomes(t) = Outcomes(call.tried) \cup {o}
      /\ call.kind = "send" => Cardinality(Asked(t)) = Len(t)
      /\ last.kind = "none" /\ t \in Seq(Attempt)
  BY <1>1, AttemptEnds
<1>3. /\ call' = [call EXCEPT !.pc = "choosing", !.peer = None, !.tried = t] /\ last' = last
      /\ call \in Call
  BY <1>1 DEF NextAttempt, IInv, TypeOK
<1>4. /\ call'.pc = "choosing" /\ call'.tried = t /\ call'.kind = call.kind
      /\ call'.limit = call.limit
  BY <1>3 DEF Call
<1>5. HasAttempt' /\ AsksAnother' /\ ResultIsLast'
  BY <1>2, <1>3, <1>4 DEF HasAttempt, AsksAnother, ResultIsLast
<1>6. SendFanout'
  BY <1>2, <1>3 DEF SendFanout
<1>7. RetryDiscipline'
  <2>1. call.kind \in {"info", "typed"} =>
          /\ Len(t) <= call.limit
          /\ \A e \in Outcomes(t) : retryable_failure(e)
    BY <1>2 DEF CInv, RetryDiscipline
  <2> QED
    BY <1>2, <1>3, <1>4, <2>1 DEF RetryDiscipline
<1>8. QED
  BY <1>5, <1>6, <1>7 DEF CInv
\* The call is over without a result, or its result is gone.
LEMMA CallIsGone ==
  ASSUME call' = Idle, last'.kind = "none"
  PROVE  CInv'
<1>1. call'.pc = "idle" /\ call'.kind = "none"
  BY DEF Idle
<1>2. QED
  BY <1>1 DEF CInv, HasAttempt, AsksAnother, ResultIsLast, RetryDiscipline, SendFanout

\* A step inside a call that makes no attempt.
LEMMA SameAttempts ==
  ASSUME CInv, last'.kind = "none", call'.kind = call.kind, call'.tried = call.tried,
         call'.limit = call.limit, HasAttempt',
         call.kind = "send" /\ call'.pc \in {"limiter", "inflight"}
           => call'.peer \notin Asked(call.tried)
  PROVE  CInv'
<1>1. HasAttempt' /\ ResultIsLast' /\ SendFanout'
  BY DEF ResultIsLast, SendFanout
<1>2. AsksAnother'
  BY DEF CInv, AsksAnother
<1>3. RetryDiscipline'
  BY DEF CInv, RetryDiscipline
<1>4. QED
  BY <1>1, <1>2, <1>3 DEF CInv

\* What RetryDiscipline and SendFanout say of the result r of a call.
Disciplined(r) ==
  LET n == Len(r.tried)
  IN  /\ \A i \in 1 .. n - 1 : retryable_failure(r.tried[i].outcome)
      /\ r.ret = "Timeout" =>
           /\ n = r.limit
           /\ \A i \in 1 .. n : retryable_failure(r.tried[i].outcome)
      /\ r.ret \notin {"Timeout", "NoAlivePeers"} =>
           n > 0 /\ r.ret = r.tried[n].outcome

FannedOut(r) ==
  /\ Cardinality(Asked(r.tried)) = Len(r.tried)
  /\ (r.ret = "ok") <=> ("ok" \in Outcomes(r.tried))
  /\ Len(r.tried) < r.limit => Eligible(Asked(r.tried)) = {}

\* A call returns.
LEMMA CallReturned ==
  ASSUME call' = Idle,
         last'.kind \in {"info", "typed"} => Disciplined(last'),
         last'.kind = "send" => FannedOut(last)'
  PROVE  CInv'
<1>1. call'.pc = "idle" /\ call'.kind = "none"
  BY DEF Idle
<1>2. HasAttempt' /\ AsksAnother' /\ ResultIsLast'
  BY <1>1 DEF HasAttempt, AsksAnother, ResultIsLast
<1>3. RetryDiscipline'
  BY <1>1 DEF RetryDiscipline, Disciplined
<1>4. SendFanout'
  BY DEF SendFanout, FannedOut, Asked
<1>5. QED
  BY <1>2, <1>3, <1>4 DEF CInv

\* The call returns the outcome of its last attempt: success or a fatal error.
LEMMA ReturnsOutcome ==
  ASSUME IInv, CInv, call.pc = "inflight", call.kind # "send",
         NEW o \in LiteError \cup {"ok"}, ~retryable_failure(o), Return(o, Tried(o))
  PROVE  CInv'
<1>1. PICK t : t = Tried(o)
  OBVIOUS
<1>2. /\ t \in Seq(Attempt) /\ Len(call.tried) \in Nat /\ Len(t) = Len(call.tried) + 1
      /\ t[Len(t)].outcome = o /\ \A i \in 1 .. Len(t) - 1 : t[i] = call.tried[i]
  BY <1>1, AttemptEnds
<1>3. /\ call' = Idle
      /\ last' = [kind |-> call.kind, ret |-> o, tried |-> t, limit |-> call.limit]
  BY <1>1 DEF Return
<1>4. last'.kind = call.kind /\ last'.ret = o /\ last'.tried = t /\ last'.limit = call.limit
  BY <1>3
<1>5. ASSUME call.kind \in {"info", "typed"} PROVE Disciplined(last')
  <2>1. \A e \in Outcomes(call.tried) : retryable_failure(e)
    BY <1>5 DEF CInv, RetryDiscipline
  <2>2. \A i \in 1 .. Len(call.tried) : retryable_failure(call.tried[i].outcome)
    BY <2>1 DEF Outcomes
  <2>3. Len(t) - 1 = Len(call.tried) /\ Len(t) > 0
    BY <1>2
  <2>4. \A i \in 1 .. Len(t) - 1 : retryable_failure(t[i].outcome)
    BY <1>2, <2>2, <2>3
  <2>5. o # "Timeout"
    BY DEF retryable_failure
  <2> QED
    BY <1>2, <1>4, <2>3, <2>4, <2>5 DEF Disciplined
<1>6. QED
  BY <1>3, <1>4, <1>5, CallReturned

\* The loop of the call ends: its attempts are used up or no peer can be asked.
LEMMA LoopEnds ==
  ASSUME IInv, CInv, NoAlivePeers \/ Exhausted
  PROVE  CInv'
<1>1. PICK s \in Seq(Attempt), m \in Nat : s = call.tried /\ m = call.limit
  BY DEF IInv, TypeOK, Call
<1>2. call.pc = "choosing" /\ UNCHANGED <<alive_peers, peer_states>>
  BY DEF NoAlivePeers, Exhausted, peerVars
<1>3. PICK r : /\ Return(r, s)
               /\ call.kind = "send" => r = SendResult(s)
               /\ call.kind # "send" => \/ r = "NoAlivePeers"
                                        \/ (r = "Timeout" /\ Len(s) >= m)
               /\ Len(s) < m => Eligible(Excluded) = {}
  BY <1>1 DEF NoAlivePeers, Exhausted
<1>4. /\ call' = Idle
      /\ last'.kind = call.kind /\ last'.ret = r /\ last'.tried = s /\ last'.limit = m
  BY <1>1, <1>3 DEF Return
<1>5. ASSUME call.kind \in {"info", "typed"} PROVE Disciplined(last')
  <2>1. Len(s) <= m /\ Len(s) \in Nat /\ \A e \in Outcomes(s) : retryable_failure(e)
    BY <1>1, <1>5 DEF CInv, RetryDiscipline
  <2>2. \A i \in 1 .. Len(s) : retryable_failure(s[i].outcome)
    BY <2>1 DEF Outcomes
  <2>3. \A i \in 1 .. Len(s) - 1 : i \in 1 .. Len(s)
    BY <2>1
  <2>4. r = "NoAlivePeers" \/ (r = "Timeout" /\ Len(s) = m)
    BY <1>3, <1>5, <2>1
  <2> QED
    BY <1>4, <2>2, <2>3, <2>4 DEF Disciplined
<1>6. ASSUME call.kind = "send" PROVE FannedOut(last)'
  <2>1. Cardinality(Asked(s)) = Len(s)
    BY <1>1, <1>6 DEF CInv, AsksAnother
  <2>2. (r = "ok") <=> ("ok" \in Outcomes(s))
    BY <1>3, <1>6 DEF SendResult, Outcomes
  <2>3. Excluded = Asked(s)
    BY <1>1, <1>6 DEF Excluded, Asked
  <2>4. Len(s) < m => Eligible(Asked(s))' = {}
    <3>1. Eligible(Asked(s))' = Eligible(Asked(s))
      BY <1>2 DEF Eligible
    <3> QED
      BY <1>3, <2>3, <3>1
  <2> QED
    BY <1>4, <2>1, <2>2, <2>4 DEF FannedOut
<1>7. QED
  BY <1>4, <1>5, <1>6, CallReturned

\* Every step keeps what is known of the calls.
LEMMA NextCInv == IInv /\ CInv /\ [Next]_vars => CInv'
<1> SUFFICES ASSUME IInv, CInv, [Next]_vars PROVE CInv'
  OBVIOUS
<1>0. call \in Call /\ Idle.pc = "idle" /\ (last.kind # "none" => call = Idle)
  BY CallTypes DEF IInv, TypeOK, CInv, ResultIsLast
<1>1. ASSUME NEW kind \in Kinds, StartCall(kind) PROVE CInv'
  <2>1. /\ call' = [Idle EXCEPT !.kind = kind, !.pc = "choosing", !.limit = Attempts(kind)]
        /\ last'.kind = "none" /\ Attempts(kind) \in Nat
    BY <1>1, AttemptsNat DEF StartCall, NoResult, IInv
  <2>2. call'.pc = "choosing" /\ call'.tried = <<>> /\ call'.limit \in Nat
    BY <2>1 DEF Idle
  <2>3. HasAttempt' /\ ResultIsLast' /\ SendFanout'
    BY <2>1, <2>2 DEF HasAttempt, ResultIsLast, SendFanout
  <2>4. Len(<<>>) = 0 /\ Asked(<<>>) = {} /\ Outcomes(<<>>) = {}
    BY DEF Asked, Outcomes
  <2>5. AsksAnother'
    BY <2>2, <2>4, FS_EmptySet DEF AsksAnother
  <2>6. RetryDiscipline'
    BY <2>1, <2>2, <2>4 DEF RetryDiscipline
  <2> QED
    BY <2>3, <2>5, <2>6 DEF CInv
<1>2. CASE ChoosePeer
  <2>1. PICK p \in choose_peer_excluding(Excluded) :
          call' = [call EXCEPT !.pc = "limiter", !.peer = p]
    BY <1>2 DEF ChoosePeer
  <2>2. /\ call'.pc = "limiter" /\ call'.peer = p /\ call'.kind = call.kind
        /\ call'.tried = call.tried /\ call'.limit = call.limit
    BY <1>0, <2>1 DEF Call
  <2>3. Len(call.tried) < call.limit /\ last' = last /\ last.kind = "none"
    BY <1>0, <1>2 DEF ChoosePeer
  <2>4. p \notin Excluded
    BY <2>1, ChosenIsEligible DEF Eligible
  <2>5. call.kind = "send" => p \notin Asked(call.tried)
    BY <2>4 DEF Excluded, Asked
  <2>6. HasAttempt'
    BY <2>2, <2>3 DEF HasAttempt
  <2> QED
    BY <2>2, <2>3, <2>5, <2>6, SameAttempts
<1>3. CASE NoAlivePeers \/ Exhausted
  BY <1>3, LoopEnds
<1>4. CASE Dispatch
  <2>1. /\ call.pc = "limiter" /\ call' = [call EXCEPT !.pc = "inflight"]
        /\ last' = last /\ last.kind = "none"
    BY <1>0, <1>4 DEF Dispatch
  <2>2. /\ call'.pc = "inflight" /\ call'.peer = call.peer /\ call'.kind = call.kind
        /\ call'.tried = call.tried /\ call'.limit = call.limit
    BY <1>0, <2>1 DEF Call
  <2>3. HasAttempt' /\ (call.kind = "send" => call.peer \notin Asked(call.tried))
    BY <2>1, <2>2 DEF CInv, HasAttempt, AsksAnother
  <2> QED
    BY <2>1, <2>2, <2>3, SameAttempts
<1>5. CASE AnswerInfo \/ AnswerOther
  <2>1. "ok" \in LiteError \cup {"ok"} /\ ~retryable_failure("ok")
    BY DEF retryable_failure
  <2>2. /\ call.pc = "inflight"
        /\ \/ call.kind = "send" /\ NextAttempt(Tried("ok"))
           \/ call.kind # "send" /\ Return("ok", Tried("ok"))
    BY <1>5 DEF AnswerInfo, AnswerOther
  <2> QED
    BY <2>1, <2>2, GoesOn, ReturnsOutcome
<1>6. CASE ClientError \/ TransportError
  <2>1. PICK e \in LiteError : FailRetryable(e) \/ FailFatal(e)
    <3>1. "UnknownError" \in LiteError /\ Errors \subseteq LiteError
      BY BalancerAssumption DEF LiteError
    <3> QED
      BY <1>6, <3>1 DEF ClientError, TransportError
  <2>2. /\ call.pc = "inflight"
        /\ \/ (call.kind # "send" => retryable_failure(e)) /\ NextAttempt(Tried(e))
           \/ call.kind # "send" /\ ~retryable_failure(e) /\ Return(e, Tried(e))
    BY <1>6, <2>1 DEF ClientError, TransportError, FailRetryable, FailFatal
  <2> QED
    BY <2>2, GoesOn, ReturnsOutcome
<1>7. CASE Cancel \/ FinishStartUp
  <2>1. call' = Idle /\ last' = last /\ call.pc # "idle"
    BY <1>7 DEF Cancel, FinishStartUp
  <2> QED
    BY <1>0, <2>1, CallIsGone
<1>8. CASE StartUp
  <2>1. /\ call' = [Idle EXCEPT !.kind = "startup", !.pc = "probing", !.probe = Peers]
        /\ last'.kind = "none"
    BY <1>8 DEF StartUp, NoResult
  <2>2. call'.pc = "probing" /\ call'.kind = "startup"
    BY <2>1 DEF Idle
  <2> QED
    BY <2>1, <2>2 DEF CInv, HasAttempt, AsksAnother, ResultIsLast, RetryDiscipline, SendFanout
<1>9. ASSUME NEW p \in Peers, CheckArchive(p) PROVE CInv'
  <2>1. /\ call.pc = "probing" /\ last' = last
        /\ \/ call' = [call EXCEPT !.probe = @ \ {p}, !.found = @ \cup {p}]
           \/ call' = [call EXCEPT !.probe = @ \ {p}]
    BY <1>9 DEF CheckArchive
  <2>2. /\ call'.pc = "probing" /\ call'.kind = call.kind
        /\ call'.tried = call.tried /\ call'.limit = call.limit
    BY <1>0, <2>1 DEF Call
  <2>3. HasAttempt' /\ last'.kind = "none"
    BY <1>0, <2>1, <2>2 DEF HasAttempt
  <2> QED
    BY <2>2, <2>3, SameAttempts
<1>10. CASE CloseAll \/ UNCHANGED vars
  <2>1. call' = call /\ last' = last /\ alive_peers' = alive_peers /\ peer_states' = peer_states
    BY <1>10 DEF CloseAll, vars, peerVars
  <2> QED
    BY <2>1 DEF CInv, HasAttempt, AsksAnother, ResultIsLast, RetryDiscipline, SendFanout, Eligible
<1>11. QED
  BY <1>1, <1>2, <1>3, <1>4, <1>5, <1>6, <1>7, <1>8, <1>9, <1>10 DEF Next

\* The invariant about calls holds in every reachable state.
THEOREM CallInvariance == Spec => []CInv
BY InitCInv, NextCInv, Invariance, PTL DEF Spec

\* However many peers there are and however their attempts end, a call other than
\* send_message goes on only after a retryable failure, within its limit, and returns what
\* its last attempt found (balanced_call!, get_masterchain_info).
THEOREM RetriesDisciplined == Spec => []RetryDiscipline
<1>1. CInv => RetryDiscipline
  BY DEF CInv
<1>2. QED
  BY <1>1, CallInvariance, PTL

\* send_message asks no peer twice, reports success exactly if a peer accepted the message,
\* and stops early only when nobody is left to ask (send_message,
\* execute_request_excluding).
THEOREM SendsFanOut == Spec => []SendFanout
<1>1. CInv => SendFanout
  BY DEF CInv
<1>2. QED
  BY <1>1, CallInvariance, PTL

-----------------------------------------------------------------------------
\* Extremes of finite sets.

\* A nonempty set of natural numbers has a least element.
LEMMA NatMin ==
  ASSUME NEW T \in SUBSET Nat, T # {}
  PROVE  \E x \in T : \A y \in T : x <= y
<1>1. PICK x \in T : \A y \in T : <<y, x>> \notin OpToRel(<, Nat)
  BY NatLessThanWellFounded, WFMin
<1>2. \A y \in T : ~(y < x)
  BY <1>1 DEF OpToRel
<1>3. \A y \in T : x <= y
  BY <1>2
<1>4. QED
  BY <1>3

Higher(K, f, c) == {p \in K : f[p] > c}
AtLeast(K, f, c) == {p \in K : f[p] >= c}

\* One of finitely many peers has the lowest value.
LEMMA Lowest ==
  ASSUME NEW K, K # {}, NEW f, \A p \in K : f[p] \in Nat
  PROVE  \E p \in K : \A q \in K : f[p] <= f[q]
<1>1. PICK T : T = {f[p] : p \in K}
  OBVIOUS
<1>2. T \in SUBSET Nat /\ T # {}
  BY <1>1
<1>3. PICK x \in T : \A y \in T : x <= y
  BY <1>2, NatMin
<1>4. QED
  BY <1>1, <1>3

\* One of finitely many peers has the highest value: the one with the fewest above it.
LEMMA Highest ==
  ASSUME NEW K, IsFiniteSet(K), K # {}, NEW f, \A p \in K : f[p] \in Nat
  PROVE  \E p \in K : \A q \in K : f[p] >= f[q]
<1>1. \A p \in K : IsFiniteSet(Higher(K, f, f[p])) /\ Cardinality(Higher(K, f, f[p])) \in Nat
  <2>1. \A c : Higher(K, f, c) \in SUBSET K
    BY DEF Higher
  <2> QED
    BY <2>1, FS_Subset, FS_CardinalityType
<1>2. PICK g : g = [p \in K |-> Cardinality(Higher(K, f, f[p]))]
  OBVIOUS
<1>3. \A p \in K : g[p] = Cardinality(Higher(K, f, f[p])) /\ g[p] \in Nat
  BY <1>1, <1>2
<1>4. PICK p \in K : \A q \in K : g[p] <= g[q]
  BY <1>3, Lowest
<1>5. ASSUME NEW q \in K, f[q] > f[p] PROVE FALSE
  <2>1. Higher(K, f, f[q]) \in SUBSET Higher(K, f, f[p])
    BY <1>5 DEF Higher
  <2>2. q \in Higher(K, f, f[p]) /\ q \notin Higher(K, f, f[q])
    BY <1>5 DEF Higher
  <2>3. Higher(K, f, f[p]) # Higher(K, f, f[q])
    BY <2>2
  <2>4. g[q] <= g[p] /\ g[q] # g[p]
    BY <1>1, <1>3, <2>1, <2>3, FS_Subset
  <2>5. g[p] <= g[q] /\ g[p] \in Nat /\ g[q] \in Nat
    BY <1>3, <1>4
  <2> QED
    BY <2>4, <2>5
<1>6. QED
  BY <1>5

\* The seqno that find_consensus_block looks for exists.
LEMMA ConsensusExists ==
  ASSUME NEW K, IsFiniteSet(K), K # {}, NEW f, \A p \in K : f[p] \in Nat
  PROVE  \E p \in K : /\ Cardinality(Higher(K, f, f[p])) <= (Cardinality(K) * 2) \div 3
                      /\ (Cardinality(K) * 2) \div 3 < Cardinality(AtLeast(K, f, f[p]))
<1>1. PICK n \in Nat : n = Cardinality(K) /\ n # 0
  BY FS_CardinalityType, FS_EmptySet
<1>2. PICK i \in Nat : i = (n * 2) \div 3 /\ i < n
  BY <1>1
<1>3. \A c : /\ Higher(K, f, c) \in SUBSET K /\ AtLeast(K, f, c) \in SUBSET K
  BY DEF Higher, AtLeast
<1>4. \A c : /\ IsFiniteSet(Higher(K, f, c)) /\ Cardinality(Higher(K, f, c)) \in Nat
             /\ IsFiniteSet(AtLeast(K, f, c)) /\ Cardinality(AtLeast(K, f, c)) \in Nat
  BY <1>3, FS_Subset, FS_CardinalityType
<1>5. PICK L : L = {p \in K : Cardinality(Higher(K, f, f[p])) <= i}
  OBVIOUS
<1>6. L # {}
  <2>1. PICK p \in K : \A q \in K : f[p] >= f[q]
    BY Highest
  <2>2. Higher(K, f, f[p]) = {}
    BY <2>1 DEF Higher
  <2>3. Cardinality(Higher(K, f, f[p])) <= i
    BY <2>2, <1>2, FS_EmptySet
  <2> QED
    BY <1>5, <2>3
<1>7. PICK p \in L : \A q \in L : f[p] <= f[q]
  BY <1>5, <1>6, Lowest
<1>8. p \in K /\ Cardinality(Higher(K, f, f[p])) <= i
  BY <1>5
<1>9. i < Cardinality(AtLeast(K, f, f[p]))
  <2>1. SUFFICES ASSUME Cardinality(AtLeast(K, f, f[p])) <= i PROVE FALSE
    BY <1>2, <1>4
  <2>2. PICK B : B = {q \in K : f[q] < f[p]}
    OBVIOUS
  <2>3. B # {}
    <3>1. SUFFICES ASSUME B = {} PROVE FALSE
      OBVIOUS
    <3>2. AtLeast(K, f, f[p]) = K
      BY <1>8, <2>2, <3>1 DEF AtLeast
    <3> QED
      BY <1>1, <1>2, <2>1, <3>2
  <2>4. B \in SUBSET K
    BY <2>2
  <2>5. IsFiniteSet(B)
    BY <2>4, FS_Subset
  <2>6. PICK q \in B : \A r \in B : f[q] >= f[r]
    BY <2>3, <2>4, <2>5, Highest
  <2>7. q \in K /\ f[q] < f[p]
    BY <2>2
  <2>8. Higher(K, f, f[q]) = AtLeast(K, f, f[p])
    BY <1>8, <2>2, <2>6, <2>7 DEF Higher, AtLeast
  <2>9. q \in L
    BY <1>5, <2>1, <2>7, <2>8
  <2>10. f[p] <= f[q] /\ f[p] \in Nat /\ f[q] \in Nat
    BY <1>7, <1>8, <2>7, <2>9
  <2> QED
    BY <2>7, <2>10
<1>10. QED
  BY <1>1, <1>2, <1>8, <1>9

-----------------------------------------------------------------------------
\* Evictions.

\* At least idx + 1 peers have the consensus block or a later one.
LEMMA ConsensusBlock ==
  ASSUME NEW st \in [Peers -> Stats], NEW K, K = {p \in Peers : st[p].known}, K # {}
  PROVE  /\ find_consensus_block(st) \in Nat
         /\ (Cardinality(K) * 2) \div 3
              < Cardinality({p \in K : st[p].mc_block_seqno >= find_consensus_block(st)})
<1>1. PICK f : f = [p \in K |-> st[p].mc_block_seqno]
  OBVIOUS
<1>2. \A p \in K : f[p] = st[p].mc_block_seqno /\ f[p] \in Nat
  BY <1>1 DEF Stats
<1>3. K \in SUBSET Peers
  OBVIOUS
<1>4. IsFiniteSet(K)
  BY <1>3, BalancerAssumption, FS_Subset
<1>5. \A c : /\ Higher(K, f, c) = {p \in K : st[p].mc_block_seqno > c}
             /\ AtLeast(K, f, c) = {p \in K : st[p].mc_block_seqno >= c}
  BY <1>2 DEF Higher, AtLeast
<1>6. PICK i : i = (Cardinality(K) * 2) \div 3
  OBVIOUS
<1> DEFINE S == {st[p].mc_block_seqno : p \in K}
           Fits(c) == /\ Cardinality({p \in K : st[p].mc_block_seqno > c}) <= i
                      /\ i < Cardinality({p \in K : st[p].mc_block_seqno >= c})
<1>7. \E c \in S : Fits(c)
  <2>1. PICK p \in K : /\ Cardinality(Higher(K, f, f[p])) <= i
                       /\ i < Cardinality(AtLeast(K, f, f[p]))
    BY <1>2, <1>4, <1>6, ConsensusExists
  <2>2. f[p] \in S /\ Fits(f[p])
    BY <1>2, <1>5, <2>1
  <2> QED
    BY <2>2
<1>8. find_consensus_block(st) = CHOOSE c \in S : Fits(c)
  BY <1>6 DEF find_consensus_block
<1>9. PICK c : c = find_consensus_block(st) /\ c \in S /\ Fits(c)
  BY <1>7, <1>8
<1>10. S \subseteq Nat
  BY DEF Stats
<1>11. QED
  BY <1>6, <1>9, <1>10

\* A known peer below the consensus block has the peers at it strictly ahead.
LEMMA LaggardIsBehind ==
  ASSUME NEW st \in [Peers -> Stats], NEW p \in Peers, st[p].known,
         ~(st[p].mc_block_seqno >= find_consensus_block(st)),
         NEW K, K = {q \in Peers : st[q].known}
  PROVE  Cardinality({q \in K : st[q].mc_block_seqno > st[p].mc_block_seqno})
           > (2 * Cardinality(K)) \div 3
<1>1. PICK c \in Nat : c = find_consensus_block(st)
  BY ConsensusBlock
<1>2. (Cardinality(K) * 2) \div 3 < Cardinality({q \in K : st[q].mc_block_seqno >= c})
  BY <1>1, ConsensusBlock
<1>3. st[p].mc_block_seqno \in Nat /\ st[p].mc_block_seqno < c
  BY <1>1 DEF Stats
<1>4. PICK A, B : /\ A = {q \in K : st[q].mc_block_seqno >= c}
                  /\ B = {q \in K : st[q].mc_block_seqno > st[p].mc_block_seqno}
  OBVIOUS
<1>5. A \in SUBSET B /\ B \in SUBSET Peers /\ K \in SUBSET Peers
  BY <1>3, <1>4 DEF Stats
<1>6. /\ IsFiniteSet(B) /\ IsFiniteSet(A) /\ IsFiniteSet(K)
  BY <1>5, BalancerAssumption, FS_Subset
<1>7. /\ Cardinality(A) <= Cardinality(B) /\ Cardinality(A) \in Nat
      /\ Cardinality(B) \in Nat /\ Cardinality(K) \in Nat
  BY <1>5, <1>6, FS_Subset, FS_CardinalityType
<1>8. (Cardinality(K) * 2) \div 3 < Cardinality(A)
  BY <1>2, <1>4
<1>9. (2 * Cardinality(K)) \div 3 < Cardinality(B)
  BY <1>7, <1>8
<1>10. QED
  BY <1>4, <1>7, <1>9

\* Why the peer p may leave the alive set: it is dead, was never asked, or lags.
MayLeave(p) ==
  \/ peer_states[p] = "Dead" /\ peer_stats[p].failure_count >= 2
  \/ ~peer_stats[p].known
  \/ LET K == {q \in Peers : peer_stats[q].known}
         Ahead == {q \in K : peer_stats[q].mc_block_seqno > peer_stats[p].mc_block_seqno}
     IN  Cardinality(Ahead) > (2 * Cardinality(K)) \div 3

\* No step evicts a peer for another reason.
LEMMA EvictionHasReason ==
  ASSUME IInv, IInv', [Next]_vars
  PROVE  \A p \in alive_peers \ alive_peers' : MayLeave(p)'
<1>0. /\ alive_peers \subseteq Peers /\ peer_stats' \in [Peers -> Stats]
      /\ peer_stats \in [Peers -> Stats] /\ peer_states \in [Peers -> {"none", "Healthy", "Suspect", "Dead"}]
  BY DEF IInv, TypeOK
<1>1. CASE AnswerInfo
  <2>1. SUFFICES ASSUME NEW p \in alive_peers, p \notin alive_peers', peer_stats'[p].known
                 PROVE  MayLeave(p)'
    BY DEF MayLeave
  <2>2. alive_peers' = delete_unsync_peers(alive_peers \cup {call.peer}, peer_stats')
    BY <1>1 DEF AnswerInfo
  <2>3. ~(peer_stats'[p].mc_block_seqno >= find_consensus_block(peer_stats'))
    BY <2>1, <2>2 DEF delete_unsync_peers
  <2>4. PICK st \in [Peers -> Stats] : st = peer_stats'
    BY <1>0
  <2>5. PICK K : K = {q \in Peers : st[q].known}
    OBVIOUS
  <2>6. Cardinality({q \in K : st[q].mc_block_seqno > st[p].mc_block_seqno})
          > (2 * Cardinality(K)) \div 3
    BY <1>0, <2>1, <2>3, <2>4, <2>5, LaggardIsBehind
  <2> QED
    BY <2>4, <2>5, <2>6 DEF MayLeave
<1>2. CASE ClientError \/ TransportError
  <2>1. PICK e : FailRetryable(e) \/ FailFatal(e)
    BY <1>2 DEF ClientError, TransportError
  <2>2. CASE FailFatal(e)
    BY <2>2 DEF FailFatal
  <2>3. CASE FailRetryable(e)
    <3>1. call.peer \in Peers
      BY <1>2 DEF ClientError, TransportError, IInv, TypeOK
    <3>2. PICK s : /\ peer_stats' = [peer_stats EXCEPT ![call.peer] = s]
                   /\ alive_peers' = IF IsDead(s) THEN alive_peers \ {call.peer}
                                                  ELSE alive_peers \cup {call.peer}
                   /\ peer_states' = [peer_states EXCEPT ![call.peer] =
                                        IF IsDead(s) THEN "Dead" ELSE "Suspect"]
      BY <2>3 DEF FailRetryable
    <3>3. SUFFICES ASSUME NEW p \in alive_peers, p \notin alive_peers' PROVE MayLeave(p)'
      OBVIOUS
    <3>4. p = call.peer /\ IsDead(s)
      BY <3>2, <3>3
    <3>5. peer_states'[p] = "Dead" /\ peer_stats'[p] = s
      BY <1>0, <3>1, <3>2, <3>4
    <3> QED
      BY <3>4, <3>5 DEF MayLeave, IsDead
  <2> QED
    BY <2>1, <2>2, <2>3
<1>3. CASE \/ AnswerOther \/ StartUp \/ ChoosePeer \/ NoAlivePeers \/ Exhausted \/ Dispatch
           \/ Cancel \/ FinishStartUp \/ CloseAll \/ UNCHANGED vars
           \/ (\E kind \in Kinds : StartCall(kind)) \/ (\E p \in Peers : CheckArchive(p))
  <2>1. alive_peers \subseteq alive_peers'
    BY <1>0, <1>3 DEF AnswerOther, StartUp, ChoosePeer, NoAlivePeers, Exhausted, Dispatch,
                      Cancel, FinishStartUp, CloseAll, StartCall, CheckArchive, vars, peerVars
  <2> QED
    BY <2>1
<1>4. QED
  BY <1>1, <1>2, <1>3 DEF Next

\* A step takes a peer out of the alive set only because it failed twice in a row, was never
\* asked, or is strictly behind at least floor(2n/3) + 1 of the n peers with statistics, for
\* any number of peers (find_consensus_block, delete_unsync_peers, record_retryable_failure).
THEOREM LaggardsEvicted == Spec => OnlyLaggardsEvicted
<1> DEFINE A == \A p \in alive_peers \ alive_peers' :
                  \/ peer_states'[p] = "Dead" /\ peer_stats'[p].failure_count >= 2
                  \/ ~peer_stats'[p].known
                  \/ LET K == {q \in Peers : peer_stats'[q].known}
                         Ahead == {q \in K : peer_stats'[q].mc_block_seqno
                                                > peer_stats'[p].mc_block_seqno}
                     IN  Cardinality(Ahead) > (2 * Cardinality(K)) \div 3
<1>1. IInv /\ IInv' /\ [Next]_vars => A
  BY EvictionHasReason DEF MayLeave
<1>2. OnlyLaggardsEvicted <=> [][A]_vars
  BY DEF OnlyLaggardsEvicted
<1> HIDE DEF A
<1>3. QED
  BY <1>1, <1>2, Invariance, PTL DEF Spec

-----------------------------------------------------------------------------
\* Freshness.

\* The timeout as peer_score weighs it.
Weight == Max({TimeoutMs, 1})

\* While a call waits at the limiter nothing changes that its choice depended on.
ChosenNow == call.pc = "limiter" => call.peer \in choose_peer_excluding(Excluded)

LEMMA WeightNat == Weight \in Nat
<1>1. PICK t \in Nat : t = TimeoutMs
  BY BalancerAssumption
<1>2. \E x \in {t, 1} : \A y \in {t, 1} : x >= y
  <2>1. CASE t >= 1
    BY <2>1
  <2>2. CASE ~(t >= 1)
    BY <2>2
  <2> QED
    BY <2>1, <2>2
<1>3. PICK w : w = Max({t, 1}) /\ w \in {t, 1}
  BY <1>2 DEF Max
<1>4. QED
  BY <1>1, <1>3 DEF Weight

\* The best seqno is a number.
LEMMA BestSeqnoNat ==
  ASSUME TypeOK
  PROVE  best_seqno \in Nat
<1>1. Known \in SUBSET Peers
  BY DEF Known
<1>2. IsFiniteSet(Known)
  BY <1>1, BalancerAssumption, FS_Subset
<1>3. PICK f : f = [p \in Known |-> peer_stats[p].mc_block_seqno]
  OBVIOUS
<1>4. \A p \in Known : f[p] = peer_stats[p].mc_block_seqno /\ f[p] \in Nat
  BY <1>1, <1>3 DEF TypeOK, Stats
<1>5. PICK S : S = {peer_stats[p].mc_block_seqno : p \in Known} \cup {0}
  OBVIOUS
<1>6. S \subseteq Nat
  BY <1>4, <1>5
<1>7. \E x \in S : \A y \in S : x >= y
  <2>1. CASE Known = {}
    BY <1>5, <2>1
  <2>2. CASE Known # {}
    <3>1. PICK p \in Known : \A q \in Known : f[p] >= f[q]
      BY <1>2, <1>4, <2>2, Highest
    <3>2. f[p] \in S /\ \A y \in S : f[p] >= y
      BY <1>4, <1>5, <3>1
    <3> QED
      BY <3>2
  <2> QED
    BY <2>1, <2>2
<1>8. Max(S) \in S
  BY <1>7 DEF Max
<1>9. QED
  BY <1>5, <1>6, <1>8 DEF best_seqno

\* The penalty of the blocks one peer is ahead outweighs a latency below it.
LEMMA BlocksOutweigh ==
  ASSUME NEW w \in Nat, NEW b \in Nat, NEW x \in Nat, NEW y \in Nat,
         NEW lx \in Nat, NEW ly \in Nat, ly < (y - x) * w * 2,
         NEW cx \in Nat, NEW cy \in Nat, cy <= cx, NEW k \in Nat
  PROVE  ly + (b - y) * w * 2 + cy * k < lx + (b - x) * w * 2 + cx * k
<1>1. PICK a \in Int : a = (y - x) * w * 2
  <2>1. (y - x) * w * 2 \in Int
    OBVIOUS
  <2> QED
    BY <2>1
<1>2. cy * k <= cx * k
  <2>1. PICK d \in Nat : cx = cy + d
    <3>1. cx - cy \in Nat /\ cx = cy + (cx - cy)
      OBVIOUS
    <3> QED
      BY <3>1
  <2>2. d * k \in Nat /\ cy * k \in Nat
    OBVIOUS
  <2>3. cx * k = cy * k + d * k
    BY <2>1
  <2> QED
    BY <2>2, <2>3
<1>3. PICK g \in Int, h \in Int : g = (b - y) * w * 2 /\ h = (b - x) * w * 2
  <2>1. (b - y) * w * 2 \in Int /\ (b - x) * w * 2 \in Int
    OBVIOUS
  <2> QED
    BY <2>1
<1>4. PICK u \in Int, v \in Int : u = cy * k /\ v = cx * k
  <2>1. cy * k \in Int /\ cx * k \in Int
    OBVIOUS
  <2> QED
    BY <2>1
<1>5. g + a = h /\ u <= v /\ ly < a
  BY <1>1, <1>2, <1>3, <1>4
<1>6. ly + g + u < lx + h + v
  BY <1>5
<1>7. QED
  BY <1>3, <1>4, <1>6

\* The choice a waiting call has made is a fresh one.
LEMMA ChosenIsFresh == TypeOK /\ ChosenNow => FreshnessFirst
<1> SUFFICES ASSUME TypeOK, ChosenNow, call.pc = "limiter", peer_stats[call.peer].known,
                    NEW q \in Eligible(Excluded), peer_stats[q].known, HasRoom(q),
                    peer_stats[q].mc_block_seqno > peer_stats[call.peer].mc_block_seqno,
                    peer_stats[q].current_requests <= peer_stats[call.peer].current_requests,
                    latency(peer_stats[q]) <
                      (peer_stats[q].mc_block_seqno - peer_stats[call.peer].mc_block_seqno)
                        * Max({TimeoutMs, 1}) * 2
             PROVE  FALSE
  BY DEF FreshnessFirst
<1>1. PICK p \in Peers : p = call.peer
  BY DEF TypeOK
<1>2. q \in Peers /\ peer_stats[p] \in Stats /\ peer_stats[q] \in Stats
  BY <1>1 DEF TypeOK, Eligible
<1>3. peer_score(p) <= peer_score(q)
  <2>1. PICK Light : Light = {r \in Eligible(Excluded) : HasRoom(r)}
    OBVIOUS
  <2>2. q \in Light
    BY <2>1
  <2>3. p \in {r \in Light : \A z \in Light : peer_score(r) <= peer_score(z)}
    BY <1>1, <2>1, <2>2 DEF ChosenNow, choose_peer_excluding
  <2> QED
    BY <2>2, <2>3
<1>4. PICK b \in Nat, w \in Nat, k \in Nat :
        b = best_seqno /\ w = Max({TimeoutMs, 1}) /\ k = Max({TimeoutMs, 1}) \div 4 + 1
  <2>1. best_seqno \in Nat
    BY BestSeqnoNat
  <2>2. PICK w \in Nat : w = Max({TimeoutMs, 1})
    BY WeightNat DEF Weight
  <2>3. w \div 4 + 1 \in Nat
    OBVIOUS
  <2> QED
    BY <2>1, <2>2, <2>3
<1>5. \A r \in Peers : latency(peer_stats[r]) \in Nat
  BY BalancerAssumption DEF TypeOK, Stats, latency
<1>6. PICK lp \in Nat, lq \in Nat : lp = latency(peer_stats[p]) /\ lq = latency(peer_stats[q])
  BY <1>2, <1>5
<1>7. PICK x \in Nat, y \in Nat, cp \in Nat, cq \in Nat :
        /\ x = peer_stats[p].mc_block_seqno /\ y = peer_stats[q].mc_block_seqno
        /\ cp = peer_stats[p].current_requests /\ cq = peer_stats[q].current_requests
  BY <1>2 DEF Stats
<1>8. peer_score(p) = lp + (b - x) * w * 2 + cp * k
  BY <1>1, <1>4, <1>6, <1>7 DEF peer_score
<1>9. peer_score(q) = lq + (b - y) * w * 2 + cq * k
  BY <1>4, <1>6, <1>7 DEF peer_score
<1>10. cq <= cp /\ lq < (y - x) * w * 2
  BY <1>1, <1>4, <1>6, <1>7
<1>11. lq + (b - y) * w * 2 + cq * k < lp + (b - x) * w * 2 + cp * k
  BY <1>10, BlocksOutweigh
<1>12. PICK m \in Int, n \in Int : m = lq + (b - y) * w * 2 + cq * k /\ n = lp + (b - x) * w * 2 + cp * k
  <2>1. lq + (b - y) * w * 2 + cq * k \in Int /\ lp + (b - x) * w * 2 + cp * k \in Int
    OBVIOUS
  <2> QED
    BY <2>1
<1>13. n <= m /\ m < n
  BY <1>3, <1>8, <1>9, <1>11, <1>12
<1>14. QED
  BY <1>13

\* What a choice depends on.
LEMMA SameChoice ==
  ASSUME peer_stats' = peer_stats, peer_states' = peer_states, alive_peers' = alive_peers,
         call'.kind = call.kind, call'.tried = call.tried
  PROVE  choose_peer_excluding(Excluded)' = choose_peer_excluding(Excluded)
<1>1. Excluded' = Excluded
  BY DEF Excluded
<1>2. best_seqno' = best_seqno
  BY DEF best_seqno, Known
<1>3. \A p : peer_score(p)' = peer_score(p) /\ HasRoom(p)' = HasRoom(p)
  BY <1>2 DEF peer_score, HasRoom
<1>4. Eligible(Excluded)' = Eligible(Excluded)
  BY <1>1 DEF Eligible
<1>5. QED
  BY <1>3, <1>4 DEF choose_peer_excluding

\* Every step keeps the choice of a waiting call.
LEMMA NextChosen == IInv /\ ChosenNow /\ [Next]_vars => ChosenNow'
<1> SUFFICES ASSUME IInv, ChosenNow, [Next]_vars PROVE ChosenNow'
  OBVIOUS
<1>0. call \in Call /\ Idle.pc = "idle"
  BY CallTypes DEF IInv, TypeOK
<1>1. CASE ChoosePeer
  <2>1. PICK p \in choose_peer_excluding(Excluded) :
          call' = [call EXCEPT !.pc = "limiter", !.peer = p]
    BY <1>1 DEF ChoosePeer
  <2>2. call'.peer = p /\ call'.kind = call.kind /\ call'.tried = call.tried
    BY <1>0, <2>1 DEF Call
  <2>3. peer_stats' = peer_stats /\ peer_states' = peer_states /\ alive_peers' = alive_peers
    BY <1>1 DEF ChoosePeer, peerVars
  <2>4. choose_peer_excluding(Excluded)' = choose_peer_excluding(Excluded)
    BY <2>2, <2>3, SameChoice
  <2> QED
    BY <2>1, <2>2, <2>4 DEF ChosenNow
<1>2. CASE Dispatch
  <2>1. call'.pc = "inflight"
    BY <1>0, <1>2 DEF Dispatch, Call
  <2> QED
    BY <2>1 DEF ChosenNow
<1>3. CASE AnswerInfo \/ AnswerOther \/ ClientError \/ TransportError
  <2>1. \A t : Return("ok", t) \/ NextAttempt(t) => call' = Idle \/ call'.pc = "choosing"
    BY <1>0 DEF Return, NextAttempt, Call
  <2>2. \A e, t : Return(e, t) \/ NextAttempt(t) => call' = Idle \/ call'.pc = "choosing"
    BY <1>0 DEF Return, NextAttempt, Call
  <2>3. call' = Idle \/ call'.pc = "choosing"
    BY <1>3, <2>1, <2>2 DEF AnswerInfo, AnswerOther, ClientError, TransportError,
                            FailRetryable, FailFatal
  <2> QED
    BY <1>0, <2>3 DEF ChosenNow
<1>4. CASE NoAlivePeers \/ Exhausted \/ Cancel \/ FinishStartUp
  <2>1. call' = Idle
    BY <1>4 DEF NoAlivePeers, Exhausted, Cancel, FinishStartUp, Return
  <2> QED
    BY <1>0, <2>1 DEF ChosenNow
<1>5. CASE StartUp \/ \E kind \in Kinds : StartCall(kind)
  <2>1. call'.pc \in {"probing", "choosing"}
    BY <1>5 DEF StartUp, StartCall, Idle
  <2> QED
    BY <2>1 DEF ChosenNow
<1>6. ASSUME NEW p \in Peers, CheckArchive(p) PROVE ChosenNow'
  <2>1. call'.pc = "probing"
    BY <1>0, <1>6 DEF CheckArchive, Call
  <2> QED
    BY <2>1 DEF ChosenNow
<1>7. CASE CloseAll \/ UNCHANGED vars
  <2>1. /\ call' = call /\ peer_stats' = peer_stats /\ peer_states' = peer_states
        /\ alive_peers' = alive_peers
    BY <1>7 DEF CloseAll, vars, peerVars
  <2>2. choose_peer_excluding(Excluded)' = choose_peer_excluding(Excluded)
    BY <2>1, SameChoice
  <2> QED
    BY <2>1, <2>2 DEF ChosenNow
<1>8. QED
  BY <1>1, <1>2, <1>3, <1>4, <1>5, <1>6, <1>7 DEF Next

\* A peer is not chosen over one that is ahead of it, with room and no more requests in
\* flight, unless that one is slow by two timeouts per block, for any number of peers and
\* whatever the attempts take (peer_score, choose_peer_excluding).
THEOREM FreshnessHolds == Spec => []FreshnessFirst
<1>1. Init => ChosenNow
  BY DEF Init, Idle, ChosenNow
<1>2. IInv /\ ChosenNow => FreshnessFirst
  BY ChosenIsFresh DEF IInv
<1>3. QED
  BY <1>1, <1>2, NextChosen, Invariance, PTL DEF Spec

=============================================================================
