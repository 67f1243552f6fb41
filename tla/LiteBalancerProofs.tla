------------------------- MODULE LiteBalancerProofs -------------------------
(***************************************************************************)
(* Proofs about LiteBalancer, for any set of peers and any configuration.  *)
(***************************************************************************)
EXTENDS LiteBalancer, FiniteSetTheorems, TLAPS

\* A peer without an entry has nothing in flight: an entry is made before
\* the counter is first incremented.
UnknownIsIdle ==
  \A p \in Peers : ~peer_stats[p].known => peer_stats[p].current_requests = 0

\* The inductive invariant.
IInv == TypeOK /\ UnknownIsIdle /\ InFlightAccounting /\ PeerStatesAgree

\* An update of the statistics of one peer keeps their type.
LEMMA StatsTypes ==
  ASSUME NEW s \in Stats, NEW ms \in Nat, NEW n \in Nat
  PROVE  /\ Entry(s) \in Stats
         /\ update_average_request_time(s, ms) \in Stats
         /\ decrement_current_requests(s) \in Stats
         /\ update_peer_seqno(s, n) \in Stats
<1>1. Entry(s) \in Stats
  BY DEF Entry, Stats
<1>2. (s.ewma_latency_ms # None) =>
         (s.ewma_latency_ms * 7 + ms * 3) \div 10 \in Nat
  BY DEF Stats, None
<1>3. update_average_request_time(s, ms) \in Stats
  BY <1>1, <1>2 DEF update_average_request_time, Entry, Stats
<1>4. decrement_current_requests(s) \in Stats
  BY DEF decrement_current_requests, Stats
<1>5. update_peer_seqno(s, n) \in Stats
  BY <1>1 DEF update_peer_seqno, Entry, Stats
<1>6. QED
  BY <1>1, <1>3, <1>4, <1>5

\* What counting an attempt does.
LEMMA IncrementFields ==
  ASSUME NEW s \in Stats
  PROVE  LET t == increment_current_requests(s)
         IN  /\ t \in Stats /\ t.known
             /\ t.current_requests = s.current_requests + 1
             /\ t.failure_count = s.failure_count
<1>1. Entry(s) \in Stats /\ Entry(s).known
      /\ Entry(s).current_requests = s.current_requests
      /\ Entry(s).failure_count = s.failure_count
  BY DEF Entry, Stats
<1>2. Entry(s).current_requests + 1 \in Nat
  BY <1>1 DEF Stats
<1>3. QED
  BY <1>1, <1>2 DEF increment_current_requests, Stats

\* What completing an attempt does to the fields the invariant is about.
LEMMA CompletionFields ==
  ASSUME NEW s \in Stats, NEW ms \in Nat
  PROVE  LET d == decrement_current_requests(s)
             a == record_success(d, ms)
             f == record_retryable_failure(d)
             e == record_non_retryable_error(d, ms)
         IN  /\ a \in Stats /\ f \in Stats /\ e \in Stats
             /\ a.known /\ f.known /\ e.known
             /\ a.current_requests = d.current_requests
             /\ f.current_requests = d.current_requests
             /\ e.current_requests = d.current_requests
             /\ f.failure_count = s.failure_count + 1
             /\ e.failure_count = s.failure_count
             /\ (s.known /\ s.current_requests > 0)
                  => d.current_requests = s.current_requests - 1
<1> DEFINE d == decrement_current_requests(s)
<1>1. d \in Stats /\ d.failure_count = s.failure_count
  BY StatsTypes DEF decrement_current_requests, Stats
<1>2. ASSUME NEW t \in Stats, NEW m \in Nat
      PROVE  LET u == update_average_request_time(t, m)
             IN  /\ u \in Stats /\ u.known
                 /\ u.current_requests = t.current_requests
                 /\ u.failure_count = t.failure_count
  BY StatsTypes DEF update_average_request_time, Entry, Stats
<1>3. TimeoutMs \in Nat
  BY BalancerAssumption
<1>4. /\ record_success(d, ms) \in Stats
      /\ record_success(d, ms).known
      /\ record_success(d, ms).current_requests = d.current_requests
  BY <1>1, <1>2 DEF record_success, Stats
<1>5. /\ record_retryable_failure(d) \in Stats
      /\ record_retryable_failure(d).known
      /\ record_retryable_failure(d).current_requests = d.current_requests
      /\ record_retryable_failure(d).failure_count = s.failure_count + 1
  BY <1>1, <1>2, <1>3 DEF record_retryable_failure, Stats
<1>6. /\ record_non_retryable_error(d, ms) \in Stats
      /\ record_non_retryable_error(d, ms).known
      /\ record_non_retryable_error(d, ms).current_requests = d.current_requests
      /\ record_non_retryable_error(d, ms).failure_count = s.failure_count
  BY <1>1, <1>2 DEF record_non_retryable_error
<1>7. (s.known /\ s.current_requests > 0)
         => d.current_requests = s.current_requests - 1
  BY DEF decrement_current_requests, Stats
<1>8. QED
  BY <1>1, <1>4, <1>5, <1>6, <1>7

\* The records of calls and results, and their updates.
LEMMA CallTypes ==
  /\ Idle \in Call /\ Idle.pc = "idle"
  /\ NoResult \in Result
BY DEF Idle, NoResult, Call, CallKind, Result, None, LiteError

LEMMA AttemptsNat ==
  ASSUME TypeOK, NEW kind
  PROVE  Attempts(kind) \in Nat
<1>1. IsFiniteSet(alive_peers)
  BY BalancerAssumption, FS_Subset DEF TypeOK
<1>2. Cardinality(alive_peers) \in Nat /\ Cardinality(Peers) \in Nat
  BY <1>1, BalancerAssumption, FS_CardinalityType
<1>3. Cardinality(alive_peers) \div 3 \in Nat
  BY <1>2
<1>4. QED
  BY <1>2, <1>3, BalancerAssumption DEF Attempts

\* Only alive peers that are not excluded are chosen.
LEMMA ChosenIsEligible ==
  ASSUME NEW X, NEW p \in choose_peer_excluding(X)
  PROVE  p \in Eligible(X)
BY DEF choose_peer_excluding

\* The list of attempts of the running call stays a list of attempts.
LEMMA TriedType ==
  ASSUME TypeOK, call.pc = "inflight", NEW o \in LiteError \cup {"ok"}
  PROVE  Tried(o) \in Seq(Attempt)
<1>1. call.tried \in Seq(Attempt) /\ call.peer \in Peers
  BY DEF TypeOK, Call
<1>2. [peer |-> call.peer, outcome |-> o] \in Attempt
  BY <1>1 DEF Attempt
<1>3. QED
  BY <1>1, <1>2 DEF Tried

\* Both ways a call goes on from a finished attempt keep the types, and
\* leave nothing in flight.
LEMMA NextAttemptFacts ==
  ASSUME TypeOK, NEW tried \in Seq(Attempt), NextAttempt(tried)
  PROVE  /\ call' \in Call /\ last' \in Result
         /\ call'.pc \notin {"limiter", "inflight"}
BY DEF TypeOK, NextAttempt, Call

LEMMA ReturnFacts ==
  ASSUME TypeOK, NEW tried \in Seq(Attempt),
         NEW ret \in LiteError \cup {"ok", "NoAlivePeers"}, Return(ret, tried)
  PROVE  /\ call' \in Call /\ last' \in Result
         /\ call'.pc \notin {"limiter", "inflight"}
<1>1. call.kind \in CallKind /\ call.limit \in Nat
  BY DEF TypeOK, Call
<1>2. QED
  BY <1>1, CallTypes DEF Return, Result

\* Completing the attempt in flight keeps the accounting.
LEMMA CompletionAccounting ==
  ASSUME IInv, call.pc = "inflight", NEW s \in Stats, s.known,
         s.current_requests = peer_stats[call.peer].current_requests - 1,
         peer_stats' = [peer_stats EXCEPT ![call.peer] = s],
         call'.pc # "inflight", leaked' = leaked
  PROVE  UnknownIsIdle' /\ InFlightAccounting'
<1>1. call.peer \in Peers /\ peer_stats \in [Peers -> Stats]
  BY DEF IInv, TypeOK
<1>2. UnknownIsIdle'
  BY <1>1 DEF IInv, UnknownIsIdle
<1>3. InFlightAccounting'
  <2>1. SUFFICES ASSUME NEW p \in Peers
                 PROVE  peer_stats'[p].current_requests = leaked[p]
    <3>1. leaked \in [Peers -> Nat]
      BY DEF IInv, TypeOK
    <3>2. QED
      BY <3>1 DEF InFlightAccounting
  <2>2. leaked[p] \in Nat
    BY DEF IInv, TypeOK
  <2>3. CASE p = call.peer
    BY <1>1, <2>2, <2>3 DEF IInv, InFlightAccounting
  <2>4. CASE p # call.peer
    BY <1>1, <2>2, <2>4 DEF IInv, InFlightAccounting
  <2>5. QED
    BY <2>3, <2>4
<1>4. QED
  BY <1>2, <1>3

\* The attempt in flight is counted, on a peer that has an entry.
LEMMA InFlightIsCounted ==
  ASSUME IInv, call.pc = "inflight"
  PROVE  LET s == peer_stats[call.peer]
         IN  /\ call.peer \in Peers /\ s \in Stats
             /\ s.known /\ s.current_requests > 0
<1>1. call.peer \in Peers /\ peer_stats[call.peer] \in Stats
  BY DEF IInv, TypeOK
<1>2. leaked[call.peer] \in Nat
  BY <1>1 DEF IInv, TypeOK
<1>3. peer_stats[call.peer].current_requests > 0
  BY <1>1, <1>2 DEF IInv, InFlightAccounting
<1>4. peer_stats[call.peer].known
  BY <1>1, <1>3 DEF IInv, UnknownIsIdle, Stats
<1>5. QED
  BY <1>1, <1>3, <1>4

\* The initial state satisfies the invariant.
LEMMA InitIInv == Init => IInv
<1> SUFFICES ASSUME Init PROVE IInv
  OBVIOUS
<1>1. DefaultStats \in Stats /\ ~DefaultStats.known
      /\ DefaultStats.current_requests = 0
  BY DEF DefaultStats, Stats, None
<1>2. TypeOK
  BY <1>1, CallTypes DEF Init, TypeOK
<1>3. UnknownIsIdle /\ InFlightAccounting
  BY <1>1, CallTypes DEF Init, UnknownIsIdle, InFlightAccounting
<1>4. PeerStatesAgree
  BY DEF Init, PeerStatesAgree
<1>5. QED
  BY <1>2, <1>3, <1>4 DEF IInv

\* A successful attempt.
LEMMA SuccessIInv ==
  ASSUME IInv, AnswerInfo \/ AnswerOther
  PROVE  IInv'
<1> DEFINE p == call.peer
<1>0. TypeOK /\ PeerStatesAgree /\ call.pc = "inflight"
  BY DEF IInv, AnswerInfo, AnswerOther
<1>1. PICK s \in Stats : /\ s.known
                         /\ s.current_requests = peer_stats[p].current_requests - 1
                         /\ peer_stats' = [peer_stats EXCEPT ![p] = s]
  <2>0. /\ p \in Peers /\ peer_stats[p] \in Stats
        /\ peer_stats[p].known /\ peer_stats[p].current_requests > 0
    BY <1>0, InFlightIsCounted
  <2>1. CASE AnswerInfo
    <3>1. PICK seqno \in Seqnos, ms \in Elapsed :
            peer_stats' = [peer_stats EXCEPT ![p] =
              record_success(decrement_current_requests(
                update_peer_seqno(peer_stats[p], seqno)), ms)]
      BY <2>1 DEF AnswerInfo
    <3>2. seqno \in Nat /\ ms \in Nat
      BY BalancerAssumption
    <3> DEFINE u == update_peer_seqno(peer_stats[p], seqno)
    <3>3. u \in Stats /\ u.known
          /\ u.current_requests = peer_stats[p].current_requests
      BY <2>0, <3>2, StatsTypes DEF update_peer_seqno, Entry, Stats
    <3> HIDE DEF u
    <3>4. QED
      BY <2>0, <3>1, <3>2, <3>3, CompletionFields DEF u
  <2>2. CASE AnswerOther
    <3>1. PICK ms \in Elapsed :
            peer_stats' = [peer_stats EXCEPT ![p] =
              record_success(decrement_current_requests(peer_stats[p]), ms)]
      BY <2>2 DEF AnswerOther
    <3>2. ms \in Nat
      BY BalancerAssumption
    <3>3. QED
      BY <2>0, <3>1, <3>2, CompletionFields
  <2>3. QED
    BY <2>1, <2>2
<1>2. /\ call' \in Call /\ last' \in Result
      /\ call'.pc \notin {"limiter", "inflight"}
  <2>1. Tried("ok") \in Seq(Attempt)
    BY <1>0, TriedType
  <2>2. Return("ok", Tried("ok")) \/ NextAttempt(Tried("ok"))
    BY DEF AnswerInfo, AnswerOther
  <2>3. QED
    BY <1>0, <2>1, <2>2, NextAttemptFacts, ReturnFacts
<1>3. /\ alive_peers' \subseteq alive_peers \cup {p}
      /\ peer_states' = [peer_states EXCEPT ![p] = "Healthy"]
      /\ UNCHANGED <<archival_peers, taskVars, envVars>>
  BY DEF AnswerInfo, AnswerOther, delete_unsync_peers
<1>4. p \in Peers
  BY <1>0 DEF TypeOK
<1>5. TypeOK'
  BY <1>0, <1>1, <1>2, <1>3, <1>4 DEF TypeOK, taskVars, envVars
<1>6. UnknownIsIdle' /\ InFlightAccounting'
  BY <1>0, <1>1, <1>2, <1>3, CompletionAccounting DEF envVars
<1>7. PeerStatesAgree'
  BY <1>0, <1>1, <1>3, <1>4 DEF PeerStatesAgree, TypeOK
<1>8. QED
  BY <1>5, <1>6, <1>7 DEF IInv

\* A failed attempt.
LEMMA FailureIInv ==
  ASSUME IInv, call.pc = "inflight",
         NEW e \in LiteError, FailRetryable(e) \/ FailFatal(e),
         link' \in [Peers -> {"up", "broken"}],
         UNCHANGED <<archival_peers, taskVars, leaked, startups, cancels>>
  PROVE  IInv'
<1> DEFINE p == call.peer
<1>0. /\ TypeOK /\ PeerStatesAgree
      /\ p \in Peers /\ peer_stats[p] \in Stats
      /\ peer_stats[p].known /\ peer_stats[p].current_requests > 0
  BY InFlightIsCounted DEF IInv
<1>1. Tried(e) \in Seq(Attempt)
  BY <1>0, TriedType
<1>2. CASE FailRetryable(e)
  <2> DEFINE s == record_retryable_failure(
                    decrement_current_requests(peer_stats[p]))
  <2>1. /\ s \in Stats /\ s.known
        /\ s.current_requests = peer_stats[p].current_requests - 1
        /\ s.failure_count = peer_stats[p].failure_count + 1
    BY <1>0, CompletionFields
  <2>2. /\ peer_stats' = [peer_stats EXCEPT ![p] = s]
        /\ alive_peers' = IF IsDead(s) THEN alive_peers \ {p}
                                       ELSE alive_peers \cup {p}
        /\ peer_states' = [peer_states EXCEPT ![p] =
                             IF IsDead(s) THEN "Dead" ELSE "Suspect"]
        /\ NextAttempt(Tried(e))
    BY <1>2 DEF FailRetryable
  <2> HIDE DEF s
  <2>3. /\ call' \in Call /\ last' \in Result
        /\ call'.pc \notin {"limiter", "inflight"}
    BY <1>0, <1>1, <2>2, NextAttemptFacts
  <2>4. TypeOK'
    BY <1>0, <2>1, <2>2, <2>3 DEF TypeOK, taskVars
  <2>5. UnknownIsIdle' /\ InFlightAccounting'
    BY <2>1, <2>2, <2>3, CompletionAccounting
  <2>6. PeerStatesAgree'
    <3>1. peer_stats[p].failure_count \in Nat
      BY <1>0 DEF Stats
    <3>2. IF IsDead(s) THEN s.failure_count >= 2 ELSE s.failure_count = 1
      BY <2>1, <3>1 DEF IsDead
    <3>3. QED
      BY <1>0, <2>2, <3>2 DEF PeerStatesAgree, TypeOK
  <2>7. QED
    BY <2>4, <2>5, <2>6 DEF IInv
<1>3. CASE FailFatal(e)
  <2>1. PICK ms \in Elapsed :
          peer_stats' = [peer_stats EXCEPT ![p] =
            record_non_retryable_error(
              decrement_current_requests(peer_stats[p]), ms)]
    BY <1>3 DEF FailFatal
  <2> DEFINE s == record_non_retryable_error(
                    decrement_current_requests(peer_stats[p]), ms)
  <2>2. ms \in Nat
    BY BalancerAssumption
  <2>3. /\ s \in Stats /\ s.known
        /\ s.current_requests = peer_stats[p].current_requests - 1
        /\ s.failure_count = peer_stats[p].failure_count
    BY <1>0, <2>2, CompletionFields
  <2>4. peer_stats' = [peer_stats EXCEPT ![p] = s]
    BY <2>1
  <2> HIDE DEF s
  <2>5. /\ call' \in Call /\ last' \in Result
        /\ call'.pc \notin {"limiter", "inflight"}
    BY <1>0, <1>1, <1>3, NextAttemptFacts, ReturnFacts DEF FailFatal
  <2>6. UNCHANGED <<alive_peers, peer_states>>
    BY <1>3 DEF FailFatal
  <2>7. TypeOK'
    BY <1>0, <2>3, <2>4, <2>5, <2>6 DEF TypeOK, taskVars
  <2>8. UnknownIsIdle' /\ InFlightAccounting'
    BY <2>3, <2>4, <2>5, CompletionAccounting
  <2>9. PeerStatesAgree'
    BY <1>0, <2>3, <2>4, <2>6 DEF PeerStatesAgree, TypeOK
  <2>10. QED
    BY <2>7, <2>8, <2>9 DEF IInv
<1>4. QED
  BY <1>2, <1>3

\* Steps that leave the peers' statistics, states and leaks alone and have
\* nothing in flight before or after.
LEMMA QuietStep ==
  ASSUME IInv, call.pc # "inflight", call'.pc # "inflight",
         peer_stats' = peer_stats, peer_states' = peer_states,
         leaked' = leaked, alive_peers' = alive_peers
  PROVE  UnknownIsIdle' /\ InFlightAccounting' /\ PeerStatesAgree'
BY DEF IInv, UnknownIsIdle, InFlightAccounting, PeerStatesAgree

\* Every step keeps the invariant.
LEMMA NextIInv == IInv /\ [Next]_vars => IInv'
<1> SUFFICES ASSUME IInv, [Next]_vars PROVE IInv'
  OBVIOUS
<1>0. TypeOK /\ UnknownIsIdle /\ InFlightAccounting /\ PeerStatesAgree
  BY DEF IInv
<1>1. ASSUME NEW kind \in Kinds, StartCall(kind) PROVE IInv'
  <2>1. call' \in Call /\ call'.pc = "choosing"
    <3>1. Attempts(kind) \in Nat
      BY <1>0, AttemptsNat
    <3>2. kind \in CallKind
      BY BalancerAssumption DEF CallKind
    <3>3. QED
      BY <1>1, <3>1, <3>2, CallTypes DEF StartCall, Call
  <2>2. TypeOK'
    BY <1>0, <1>1, <2>1, CallTypes
       DEF StartCall, TypeOK, peerVars, taskVars, envVars
  <2>3. call.pc = "idle"
    BY <1>1, CallTypes DEF StartCall
  <2>4. UnknownIsIdle' /\ InFlightAccounting' /\ PeerStatesAgree'
    BY <1>1, <2>1, <2>3, QuietStep DEF StartCall, peerVars, envVars
  <2>5. QED
    BY <2>2, <2>4 DEF IInv
<1>2. CASE ChoosePeer
  <2>1. PICK p \in choose_peer_excluding(Excluded) :
          call' = [call EXCEPT !.pc = "limiter", !.peer = p]
    BY <1>2 DEF ChoosePeer
  <2>2. p \in Peers
    BY <1>0, <2>1, ChosenIsEligible DEF Eligible, TypeOK
  <2>3. call' \in Call /\ call'.pc = "limiter" /\ call'.peer \in Peers
    BY <1>0, <2>1, <2>2 DEF TypeOK, Call
  <2>4. TypeOK'
    BY <1>0, <1>2, <2>3 DEF ChoosePeer, TypeOK, peerVars, taskVars, envVars
  <2>5. UnknownIsIdle' /\ InFlightAccounting' /\ PeerStatesAgree'
    BY <1>2, <2>3, QuietStep DEF ChoosePeer, peerVars, envVars
  <2>6. QED
    BY <2>4, <2>5 DEF IInv
<1>3. CASE NoAlivePeers \/ Exhausted
  <2>1. call.tried \in Seq(Attempt)
    BY <1>0 DEF TypeOK, Call
  <2>2. SendResult(call.tried) \in LiteError \cup {"ok", "NoAlivePeers"}
    BY DEF SendResult, LiteError
  <2>3. "Timeout" \in LiteError
    BY DEF LiteError
  <2>4. \E ret \in LiteError \cup {"ok", "NoAlivePeers"} :
          Return(ret, call.tried)
    BY <1>3, <2>2, <2>3 DEF NoAlivePeers, Exhausted
  <2>5. /\ call' \in Call /\ last' \in Result
        /\ call'.pc \notin {"limiter", "inflight"}
    BY <1>0, <2>1, <2>4, ReturnFacts
  <2>6. TypeOK'
    BY <1>0, <1>3, <2>5
       DEF NoAlivePeers, Exhausted, TypeOK, peerVars, taskVars, envVars
  <2>7. UnknownIsIdle' /\ InFlightAccounting' /\ PeerStatesAgree'
    BY <1>3, <2>5, QuietStep DEF NoAlivePeers, Exhausted, peerVars, envVars
  <2>8. QED
    BY <2>6, <2>7 DEF IInv
<1>4. CASE Dispatch
  <2> DEFINE p == call.peer
             s == increment_current_requests(peer_stats[p])
  <2>1. p \in Peers /\ peer_stats[p] \in Stats
    BY <1>0, <1>4 DEF Dispatch, TypeOK
  <2>2. /\ s \in Stats /\ s.known
        /\ s.current_requests = peer_stats[p].current_requests + 1
        /\ s.failure_count = peer_stats[p].failure_count
    BY <2>1, IncrementFields
  <2>3. peer_stats' = [peer_stats EXCEPT ![p] = s]
    BY <1>4 DEF Dispatch
  <2>4. call' = [call EXCEPT !.pc = "inflight"] /\ call.pc = "limiter"
    BY <1>4 DEF Dispatch
  <2>5. call' \in Call /\ call'.pc = "inflight" /\ call'.peer = p
    BY <1>0, <2>4 DEF TypeOK, Call
  <2> HIDE DEF s
  <2>6. TypeOK'
    BY <1>0, <1>4, <2>1, <2>2, <2>3, <2>5
       DEF Dispatch, TypeOK, taskVars, envVars
  <2>7. UnknownIsIdle'
    BY <1>0, <2>1, <2>2, <2>3 DEF UnknownIsIdle, TypeOK
  <2>8. InFlightAccounting'
    <3>1. leaked' = leaked /\ leaked \in [Peers -> Nat]
      BY <1>0, <1>4 DEF Dispatch, envVars, TypeOK
    <3>2. QED
      BY <1>0, <2>1, <2>2, <2>3, <2>4, <2>5, <3>1
         DEF InFlightAccounting, TypeOK
  <2>9. PeerStatesAgree'
    BY <1>0, <1>4, <2>2, <2>3 DEF Dispatch, PeerStatesAgree, TypeOK
  <2>10. QED
    BY <2>6, <2>7, <2>8, <2>9 DEF IInv
<1>5. CASE AnswerInfo \/ AnswerOther
  BY <1>5, SuccessIInv
<1>6. CASE ClientError
  <2>1. PICK e \in Errors : FailRetryable(e) \/ FailFatal(e)
    BY <1>6 DEF ClientError
  <2>2. e \in LiteError
    BY BalancerAssumption
  <2>3. /\ call.pc = "inflight" /\ link' \in [Peers -> {"up", "broken"}]
        /\ UNCHANGED <<archival_peers, taskVars, leaked, startups, cancels>>
    BY <1>0, <1>6 DEF ClientError, envVars, TypeOK
  <2>4. QED
    BY <2>1, <2>2, <2>3, FailureIInv
<1>7. CASE TransportError
  <2>1. "UnknownError" \in LiteError
    BY DEF LiteError
  <2>2. /\ call.pc = "inflight" /\ link' \in [Peers -> {"up", "broken"}]
        /\ UNCHANGED <<archival_peers, taskVars, leaked, startups, cancels>>
    BY <1>0, <1>7 DEF TransportError, TypeOK
  <2>3. QED
    BY <1>7, <2>1, <2>2, FailureIInv DEF TransportError
<1>8. CASE Cancel
  <2>1. call' = Idle /\ call'.pc = "idle" /\ call' \in Call
    BY <1>8, CallTypes DEF Cancel
  <2>2. leaked' \in [Peers -> Nat]
    BY <1>0, <1>8 DEF Cancel, TypeOK
  <2>3. TypeOK'
    BY <1>0, <1>8, <2>1, <2>2 DEF Cancel, TypeOK, peerVars, taskVars
  <2>4. UnknownIsIdle' /\ PeerStatesAgree'
    BY <1>0, <1>8 DEF Cancel, peerVars, UnknownIsIdle, PeerStatesAgree
  <2>5. InFlightAccounting'
    <3>1. peer_stats' = peer_stats /\ leaked \in [Peers -> Nat]
      BY <1>0, <1>8 DEF Cancel, peerVars, TypeOK
    <3>2. CASE call.pc = "inflight"
      <4>1. leaked' = [leaked EXCEPT ![call.peer] = @ + 1]
        BY <1>8, <3>2 DEF Cancel
      <4>2. QED
        BY <1>0, <2>1, <3>1, <3>2, <4>1 DEF InFlightAccounting
    <3>3. CASE call.pc # "inflight"
      BY <1>0, <1>8, <2>1, <3>1, <3>3 DEF Cancel, InFlightAccounting
    <3>4. QED
      BY <3>2, <3>3
  <2>6. QED
    BY <2>3, <2>4, <2>5 DEF IInv
<1>9. CASE StartUp
  <2>1. call' \in Call /\ call'.pc = "probing"
    BY <1>9, CallTypes DEF StartUp, Call, CallKind
  <2>2. call.pc = "idle"
    BY <1>9, CallTypes DEF StartUp
  <2>3. TypeOK'
    BY <1>0, <1>9, <2>1, CallTypes DEF StartUp, TypeOK, taskVars
  <2>4. UnknownIsIdle' /\ InFlightAccounting'
    BY <1>0, <1>9, <2>1, <2>2 DEF StartUp, UnknownIsIdle, InFlightAccounting
  <2>5. PeerStatesAgree'
    BY <1>0, <1>9 DEF StartUp, PeerStatesAgree
  <2>6. QED
    BY <2>3, <2>4, <2>5 DEF IInv
<1>10. ASSUME NEW p \in Peers, CheckArchive(p) PROVE IInv'
  <2>1. call' \in Call /\ call'.pc = "probing" /\ call.pc = "probing"
    <3>1. call \in Call /\ call.pc = "probing"
      BY <1>0, <1>10 DEF CheckArchive, TypeOK
    <3>2. \/ call' = [call EXCEPT !.probe = @ \ {p}, !.found = @ \cup {p}]
          \/ call' = [call EXCEPT !.probe = @ \ {p}]
      BY <1>10 DEF CheckArchive
    <3>3. /\ call.probe \ {p} \in SUBSET Peers
          /\ call.found \cup {p} \in SUBSET Peers
      BY <3>1 DEF Call
    <3>4. CASE call' = [call EXCEPT !.probe = @ \ {p}]
      BY <3>1, <3>3, <3>4 DEF Call
    <3>5. CASE call' = [call EXCEPT !.probe = @ \ {p}, !.found = @ \cup {p}]
      BY <3>1, <3>3, <3>5 DEF Call
    <3>6. QED
      BY <3>1, <3>2, <3>4, <3>5
  <2>2. link' \in [Peers -> {"up", "broken"}]
    BY <1>0, <1>10 DEF CheckArchive, TypeOK
  <2>3. TypeOK'
    BY <1>0, <1>10, <2>1, <2>2 DEF CheckArchive, TypeOK, peerVars, taskVars
  <2>4. UnknownIsIdle' /\ InFlightAccounting' /\ PeerStatesAgree'
    BY <1>10, <2>1, QuietStep DEF CheckArchive, peerVars
  <2>5. QED
    BY <2>3, <2>4 DEF IInv
<1>11. CASE FinishStartUp
  <2>1. call' = Idle /\ call' \in Call /\ call'.pc = "idle"
    BY <1>11, CallTypes DEF FinishStartUp
  <2>2. TypeOK'
    BY <1>0, <1>11, <2>1 DEF FinishStartUp, TypeOK, Call, envVars
  <2>3. UnknownIsIdle' /\ InFlightAccounting' /\ PeerStatesAgree'
    BY <1>11, <2>1, QuietStep DEF FinishStartUp, envVars
  <2>4. QED
    BY <2>2, <2>3 DEF IInv
<1>12. CASE CloseAll
  <2>1. TypeOK'
    <3>1. checkers' \in Nat /\ has_handle' = FALSE /\ inited' = FALSE
      BY <1>0, <1>12 DEF CloseAll, TypeOK
    <3>2. QED
      BY <1>0, <1>12, <3>1 DEF CloseAll, TypeOK, peerVars, envVars
  <2>2. call' = call /\ call.pc = "idle"
    BY <1>12, CallTypes DEF CloseAll
  <2>3. UnknownIsIdle' /\ InFlightAccounting' /\ PeerStatesAgree'
    BY <1>12, <2>2, QuietStep DEF CloseAll, peerVars, envVars
  <2>4. QED
    BY <2>1, <2>3 DEF IInv
<1>13. CASE UNCHANGED vars
  BY <1>0, <1>13
     DEF vars, peerVars, taskVars, envVars, IInv, TypeOK, UnknownIsIdle,
         InFlightAccounting, PeerStatesAgree
<1>14. QED
  BY <1>1, <1>2, <1>3, <1>4, <1>5, <1>6, <1>7, <1>8, <1>9, <1>10, <1>11,
     <1>12, <1>13 DEF Next

\* The invariant holds in every reachable state.
THEOREM Invariance == Spec => []IInv
BY InitIInv, NextIInv, PTL DEF Spec

\* The state of the balancer keeps its shape, for any number of peers.
THEOREM TypeCorrect == Spec => []TypeOK
<1>1. IInv => TypeOK
  BY DEF IInv
<1>2. QED
  BY <1>1, Invariance, PTL

\* The in-flight counters are exact, up to the attempts whose future was
\* dropped, for any number of peers and any interleaving of failures,
\* cancellations and restarts (execute_request, complete_request*).
THEOREM AccountingHolds == Spec => []InFlightAccounting
<1>1. IInv => InFlightAccounting
  BY DEF IInv
<1>2. QED
  BY <1>1, Invariance, PTL

\* The alive set, the peer states and the failure counters always agree
\* (record_success, record_retryable_failure, start_up, delete_unsync_peers).
THEOREM StatesAgree == Spec => []PeerStatesAgree
<1>1. IInv => PeerStatesAgree
  BY DEF IInv
<1>2. QED
  BY <1>1, Invariance, PTL

=============================================================================
