---------------------------- MODULE LiteBalancer ----------------------------
(***************************************************************************)
(* The multi-peer balancer of src/liteclient/balancer: which of its peers  *)
(* are alive, how one is chosen for an attempt, what the outcome of an     *)
(* attempt does to the peer's statistics and state, the retry loops of its *)
(* calls, and start_up / close_all.                                        *)
(*                                                                         *)
(* Every call takes `&mut self`, so one call runs at a time and the locks  *)
(* around the maps are never contended; a call is suspended only at the    *)
(* global rate limiter and in the client's request (during start_up: in an *)
(* archive probe), and its future may be dropped at each of these points.  *)
(* Sets and maps are hash tables: equal scores are ordered arbitrarily.    *)
(*                                                                         *)
(* Left out of PeerStats: last_observed_seqno, always equal to             *)
(* mc_block_seqno; avg_response_time_ms and total_requests, which          *)
(* peer_score reads only while ewma_latency_ms is None, when both are 0;   *)
(* last_failure_kind, which is never read.                                 *)
(***************************************************************************)
EXTENDS Integers, Sequences, FiniteSets, FiniteSetsExt

CONSTANTS Peers,          \* the clients the balancer owns
          MaxRetries,     \* max_retries
          MaxReqPerPeer,  \* max_req_per_peer
          TimeoutMs,      \* timeout, in milliseconds
          SendThreshold,  \* 12 in send_message
          SendFew,        \* 4 in send_message
          Kinds,          \* the calls made: "info", "typed", "send"
          Errors,         \* the errors a live client returns
          Elapsed,        \* the durations of an attempt, in milliseconds
          Seqnos,         \* the masterchain seqnos peers report
          MaxStartUps,    \* bound on the calls of start_up
          MaxCancels      \* bound on the dropped futures

\* The variants of LiteError, one name for the variants that no code of the
\* balancer tells apart being enough in an instance.
LiteError == {"Timeout", "AdnlTimeout", "AdnlError", "ServerError",
              "TlError", "UnexpectedMessage", "UnknownError"}

ASSUME BalancerAssumption ==
  /\ IsFiniteSet(Peers)
  /\ MaxRetries \in Nat /\ MaxReqPerPeer \in Nat /\ TimeoutMs \in Nat
  /\ SendThreshold \in Nat /\ SendFew \in Nat
  /\ Kinds \subseteq {"info", "typed", "send"}
  /\ Errors \subseteq LiteError \ {"UnknownError"}
  /\ Elapsed \subseteq Nat /\ Seqnos \subseteq Nat
  /\ MaxStartUps \in Nat /\ MaxCancels \in Nat

VARIABLES alive_peers,     \* set of peers
          archival_peers,  \* set of peers
          peer_stats,      \* peer_stats[p].known: p has an entry in the map
          peer_states,     \* peer_states[p], "none" for no entry
          has_handle,      \* checker_handle is Some
          inited,
          call,            \* the running call
          last,            \* the call that returned last
          link,            \* link[p]: the connection under the client of p
          checkers,        \* number of health-check tasks that run
          leaked,          \* leaked[p]: attempts on p dropped in flight
          startups, cancels

peerVars == <<alive_peers, archival_peers, peer_stats, peer_states>>
taskVars == <<has_handle, inited, checkers>>
envVars  == <<link, leaked, startups, cancels>>
vars == <<peerVars, taskVars, envVars, call, last>>

None == -1

DefaultStats == [known |-> FALSE, mc_block_seqno |-> 0, current_requests |-> 0,
                 failure_count |-> 0, ewma_latency_ms |-> None]

Idle == [kind |-> "none", pc |-> "idle", peer |-> None, tried |-> <<>>,
         limit |-> 0, probe |-> {}, found |-> {}]

NoResult == [kind |-> "none", ret |-> "none", tried |-> <<>>, limit |-> 0]

Init ==
  /\ alive_peers = {}
  /\ archival_peers = {}
  /\ peer_stats = [p \in Peers |-> DefaultStats]
  /\ peer_states = [p \in Peers |-> "none"]
  /\ has_handle = FALSE
  /\ inited = FALSE
  /\ call = Idle
  /\ last = NoResult
  /\ link = [p \in Peers |-> "up"]
  /\ checkers = 0
  /\ leaked = [p \in Peers |-> 0]
  /\ startups = 0
  /\ cancels = 0

-----------------------------------------------------------------------------
\* Statistics of one peer (state.rs, execute.rs).

\* stats.entry(peer_idx).or_insert_with(PeerStats::default)
Entry(s) == [s EXCEPT !.known = TRUE]

\* The counting of an attempt in execute_request*.
increment_current_requests(s) ==
  [Entry(s) EXCEPT !.current_requests = @ + 1]

\* update_average_request_time, and the same lines of record_*.
update_average_request_time(s, ms) ==
  [Entry(s) EXCEPT !.ewma_latency_ms =
     IF @ = None THEN ms ELSE (@ * 7 + ms * 3) \div 10]

\* Mutant: the in-flight counter is never taken back.
decrement_never(s) == s

decrement_current_requests(s) ==
  IF s.known
    THEN [s EXCEPT !.current_requests = IF @ = 0 THEN 0 ELSE @ - 1]
    ELSE s

record_success(s, ms) ==
  [update_average_request_time(s, ms) EXCEPT !.failure_count = 0]

record_retryable_failure(s) ==
  [update_average_request_time(s, TimeoutMs) EXCEPT !.failure_count = @ + 1]

record_non_retryable_error(s, ms) == update_average_request_time(s, ms)

update_peer_seqno(s, seqno) == [Entry(s) EXCEPT !.mc_block_seqno = seqno]

\* retryable_failure(e).is_some()
retryable_failure(e) == e \in {"Timeout", "AdnlTimeout", "AdnlError"}

-----------------------------------------------------------------------------
\* Peer selection (selection.rs, build_priority_list, choose_peer*).

Known == {p \in Peers : peer_stats[p].known}

best_seqno == Max({peer_stats[p].mc_block_seqno : p \in Known} \cup {0})

\* The latency a peer is scored with: the timeout until one is measured.
latency(s) == IF s.ewma_latency_ms = None THEN TimeoutMs ELSE s.ewma_latency_ms

\* Mutant: the penalty for a lagging peer is one millisecond per block.
peer_score_lag(p) ==
  LET s == peer_stats[p]
  IN  IF ~s.known
        THEN TimeoutMs
        ELSE   latency(s)
             + (best_seqno - s.mc_block_seqno)
             + s.current_requests * (Max({TimeoutMs, 1}) \div 4 + 1)

peer_score(p) ==
  LET s == peer_stats[p]
  IN  IF ~s.known
        THEN TimeoutMs
        ELSE   latency(s)
             + (best_seqno - s.mc_block_seqno) * Max({TimeoutMs, 1}) * 2
             + s.current_requests * (Max({TimeoutMs, 1}) \div 4 + 1)

\* The peers neither pass of choose_peer_excluding skips.
Eligible(excluded) ==
  {p \in alive_peers \ excluded : peer_states[p] # "Dead"}

HasRoom(p) == peer_stats[p].current_requests < MaxReqPerPeer

\* What choose_peer_excluding(false, excluded) may return: the first peer in
\* score order that has room, else the first of the least loaded ones.
choose_peer_excluding(excluded) ==
  LET C == Eligible(excluded)
      Light == {p \in C : HasRoom(p)}
      LeastLoaded == {p \in C : \A q \in C : peer_stats[p].current_requests
                                          <= peer_stats[q].current_requests}
      Pool == IF Light # {} THEN Light ELSE LeastLoaded
  IN  {p \in Pool : \A q \in Pool : peer_score(p) <= peer_score(q)}

-----------------------------------------------------------------------------
\* Synchronisation filter (find_consensus_block, delete_unsync_peers).

\* Mutant: the index of the consensus block is one third of the way down.
find_consensus_block_third(st) ==
  LET K == {p \in Peers : st[p].known}
      idx == Cardinality(K) \div 3
      Above(c) == {p \in K : st[p].mc_block_seqno > c}
      AtLeast(c) == {p \in K : st[p].mc_block_seqno >= c}
  IN  IF K = {}
        THEN 0
        ELSE CHOOSE c \in {st[p].mc_block_seqno : p \in K} :
               Cardinality(Above(c)) <= idx /\ idx < Cardinality(AtLeast(c))

\* The seqno at index (len * 2) / 3 of the seqnos in descending order.
find_consensus_block(st) ==
  LET K == {p \in Peers : st[p].known}
      idx == (Cardinality(K) * 2) \div 3
      Above(c) == {p \in K : st[p].mc_block_seqno > c}
      AtLeast(c) == {p \in K : st[p].mc_block_seqno >= c}
  IN  IF K = {}
        THEN 0
        ELSE CHOOSE c \in {st[p].mc_block_seqno : p \in K} :
               Cardinality(Above(c)) <= idx /\ idx < Cardinality(AtLeast(c))

delete_unsync_peers(alive, st) ==
  {p \in alive : /\ st[p].known
                 /\ st[p].mc_block_seqno >= find_consensus_block(st)}

-----------------------------------------------------------------------------
\* Calls.

\* The number of attempts of a call.
Attempts(kind) ==
  IF kind = "send"
    THEN LET n == Cardinality(alive_peers)
             k == IF n < SendThreshold THEN SendFew ELSE n \div 3
         IN  IF k <= Cardinality(Peers) THEN k ELSE Cardinality(Peers)
    ELSE MaxRetries

\* Mutant: no call excludes a peer.
Excluded_none == {}

\* send_message excludes the peers it has attempted, the other calls none.
Excluded ==
  IF call.kind = "send"
    THEN {call.tried[i].peer : i \in 1 .. Len(call.tried)}
    ELSE {}

Return(ret, tried) ==
  /\ last' = [kind |-> call.kind, ret |-> ret, tried |-> tried,
              limit |-> call.limit]
  /\ call' = Idle

\* send_message succeeds if any of its attempts did.
SendResult(tried) ==
  IF \E i \in 1 .. Len(tried) : tried[i].outcome = "ok" THEN "ok" ELSE "Timeout"

\* Mutant: the loop forgets the attempt it just made.
NextAttempt_forgotten(tried) ==
  /\ call' = [call EXCEPT !.pc = "choosing", !.peer = None]
  /\ UNCHANGED last

\* The attempt is over: its outcome joins the list and the loop goes on.
NextAttempt(tried) ==
  /\ call' = [call EXCEPT !.pc = "choosing", !.peer = None, !.tried = tried]
  /\ UNCHANGED last

Tried(outcome) ==
  Append(call.tried, [peer |-> call.peer, outcome |-> outcome])

StartCall(kind) ==
  /\ call = Idle
  /\ call' = [Idle EXCEPT !.kind = kind, !.pc = "choosing",
                          !.limit = Attempts(kind)]
  /\ last' = NoResult
  /\ UNCHANGED <<peerVars, taskVars, envVars>>

\* execute_request up to the global limiter: a peer is chosen.
ChoosePeer ==
  /\ call.pc = "choosing"
  /\ Len(call.tried) < call.limit
  /\ \E p \in choose_peer_excluding(Excluded) :
       call' = [call EXCEPT !.pc = "limiter", !.peer = p]
  /\ UNCHANGED <<peerVars, taskVars, envVars, last>>

\* execute_request fails with NoAlivePeers: the call returns the error,
\* send_message ends its loop instead.
NoAlivePeers ==
  /\ call.pc = "choosing"
  /\ Len(call.tried) < call.limit
  /\ Eligible(Excluded) = {}
  /\ Return(IF call.kind = "send" THEN SendResult(call.tried)
                                  ELSE "NoAlivePeers", call.tried)
  /\ UNCHANGED <<peerVars, taskVars, envVars>>

\* The attempts are used up.
Exhausted ==
  /\ call.pc = "choosing"
  /\ Len(call.tried) >= call.limit
  /\ Return(IF call.kind = "send" THEN SendResult(call.tried)
                                  ELSE "Timeout", call.tried)
  /\ UNCHANGED <<peerVars, taskVars, envVars>>

\* The limiter grants the attempt (or there is none): it is counted and sent.
Dispatch ==
  /\ call.pc = "limiter"
  /\ peer_stats' = [peer_stats EXCEPT ![call.peer] =
                      increment_current_requests(@)]
  /\ call' = [call EXCEPT !.pc = "inflight"]
  /\ UNCHANGED <<alive_peers, archival_peers, peer_states, taskVars, envVars,
                 last>>

\* get_masterchain_info succeeds: seqno, complete_request, sync filter.
AnswerInfo ==
  /\ call.pc = "inflight" /\ call.kind = "info" /\ link[call.peer] = "up"
  /\ \E seqno \in Seqnos, ms \in Elapsed :
       LET s == update_peer_seqno(peer_stats[call.peer], seqno)
           st == [peer_stats EXCEPT ![call.peer] =
                    record_success(decrement_current_requests(s), ms)]
       IN  /\ peer_stats' = st
           /\ alive_peers' = delete_unsync_peers(alive_peers \cup {call.peer}, st)
  /\ peer_states' = [peer_states EXCEPT ![call.peer] = "Healthy"]
  /\ Return("ok", Tried("ok"))
  /\ UNCHANGED <<archival_peers, taskVars, envVars>>

\* Any other attempt succeeds: complete_request(.., true).
AnswerOther ==
  /\ call.pc = "inflight" /\ call.kind # "info" /\ link[call.peer] = "up"
  /\ \E ms \in Elapsed :
       peer_stats' = [peer_stats EXCEPT ![call.peer] =
                        record_success(decrement_current_requests(@), ms)]
  /\ alive_peers' = alive_peers \cup {call.peer}
  /\ peer_states' = [peer_states EXCEPT ![call.peer] = "Healthy"]
  /\ IF call.kind = "send" THEN NextAttempt(Tried("ok"))
                           ELSE Return("ok", Tried("ok"))
  /\ UNCHANGED <<archival_peers, taskVars, envVars>>

IsDead(s) == s.failure_count >= 2

\* complete_request_error with a retryable error e.
FailRetryable(e) ==
  LET s == record_retryable_failure(
             decrement_current_requests(peer_stats[call.peer]))
  IN  /\ retryable_failure(e)
      /\ peer_stats' = [peer_stats EXCEPT ![call.peer] = s]
      /\ alive_peers' = IF IsDead(s) THEN alive_peers \ {call.peer}
                                     ELSE alive_peers \cup {call.peer}
      /\ peer_states' = [peer_states EXCEPT ![call.peer] =
                           IF IsDead(s) THEN "Dead" ELSE "Suspect"]
      /\ NextAttempt(Tried(e))

\* Mutant: every call goes on after an error that is not retryable.
FailFatal_retried(e) ==
  /\ ~retryable_failure(e)
  /\ \E ms \in Elapsed :
       peer_stats' = [peer_stats EXCEPT ![call.peer] =
         record_non_retryable_error(decrement_current_requests(@), ms)]
  /\ UNCHANGED <<alive_peers, peer_states>>
  /\ NextAttempt(Tried(e))

\* complete_request_error with any other error: only send_message goes on.
FailFatal(e) ==
  /\ ~retryable_failure(e)
  /\ \E ms \in Elapsed :
       peer_stats' = [peer_stats EXCEPT ![call.peer] =
         record_non_retryable_error(decrement_current_requests(@), ms)]
  /\ UNCHANGED <<alive_peers, peer_states>>
  /\ IF call.kind = "send" THEN NextAttempt(Tried(e))
                           ELSE Return(e, Tried(e))

\* The client returns an error of its own or of the liteserver.
ClientError ==
  /\ call.pc = "inflight" /\ link[call.peer] = "up"
  /\ \E e \in Errors : FailRetryable(e) \/ FailFatal(e)
  /\ UNCHANGED <<archival_peers, taskVars, envVars>>

\* The connection is lost, or was lost before: the multiplexer under the
\* client has ended and its boxed error arrives as UnknownError.
TransportError ==
  /\ call.pc = "inflight"
  /\ link' = [link EXCEPT ![call.peer] = "broken"]
  /\ FailRetryable("UnknownError") \/ FailFatal("UnknownError")
  /\ UNCHANGED <<archival_peers, taskVars, leaked, startups, cancels>>

\* The caller drops the future of a call or of start_up.
Cancel ==
  /\ call.pc \in {"limiter", "inflight", "probing"}
  /\ cancels < MaxCancels
  /\ cancels' = cancels + 1
  /\ leaked' = IF call.pc = "inflight"
                 THEN [leaked EXCEPT ![call.peer] = @ + 1]
                 ELSE leaked
  /\ call' = Idle
  /\ UNCHANGED <<peerVars, taskVars, link, startups, last>>

-----------------------------------------------------------------------------
\* start_up and close_all.

\* Mutant: start_up keeps the states that are already in the map.
StartUp_keeps_states ==
  /\ call = Idle
  /\ startups < MaxStartUps
  /\ startups' = startups + 1
  /\ alive_peers' = Peers
  /\ peer_states' = [p \in Peers |->
                       IF peer_states[p] = "none" THEN "Healthy"
                                                  ELSE peer_states[p]]
  /\ call' = [Idle EXCEPT !.kind = "startup", !.pc = "probing", !.probe = Peers]
  /\ last' = NoResult
  /\ UNCHANGED <<archival_peers, peer_stats, taskVars, link, leaked, cancels>>

\* connect_to_peer succeeds for every peer; find_archives begins.
StartUp ==
  /\ call = Idle
  /\ startups < MaxStartUps
  /\ startups' = startups + 1
  /\ alive_peers' = Peers
  /\ peer_states' = [p \in Peers |-> "Healthy"]
  /\ call' = [Idle EXCEPT !.kind = "startup", !.pc = "probing", !.probe = Peers]
  /\ last' = NoResult
  /\ UNCHANGED <<archival_peers, peer_stats, taskVars, link, leaked, cancels>>

\* check_archive on one alive peer: it answers, it does not, or its
\* connection is found to be lost.
CheckArchive(p) ==
  /\ call.pc = "probing" /\ p \in call.probe
  /\ \/ /\ link[p] = "up"
        /\ \/ call' = [call EXCEPT !.probe = @ \ {p}, !.found = @ \cup {p}]
           \/ call' = [call EXCEPT !.probe = @ \ {p}]
        /\ UNCHANGED link
     \/ /\ link' = [link EXCEPT ![p] = "broken"]
        /\ call' = [call EXCEPT !.probe = @ \ {p}]
  /\ UNCHANGED <<peerVars, taskVars, leaked, startups, cancels, last>>

\* The rest of start_up: a new health checker replaces the handle, whose old
\* task goes on if there was one.
FinishStartUp ==
  /\ call.pc = "probing" /\ call.probe = {}
  /\ archival_peers' = call.found
  /\ has_handle' = TRUE
  /\ checkers' = checkers + 1
  /\ inited' = TRUE
  /\ call' = Idle
  /\ UNCHANGED <<alive_peers, peer_stats, peer_states, envVars, last>>

\* Mutant: close_all aborts a task whether it holds a handle or not.
CloseAll_always ==
  /\ call = Idle
  /\ checkers' = checkers - 1
  /\ has_handle' = FALSE
  /\ inited' = FALSE
  /\ UNCHANGED <<peerVars, envVars, call, last>>

CloseAll ==
  /\ call = Idle
  /\ checkers' = IF has_handle THEN checkers - 1 ELSE checkers
  /\ has_handle' = FALSE
  /\ inited' = FALSE
  /\ UNCHANGED <<peerVars, envVars, call, last>>

-----------------------------------------------------------------------------
Answer == AnswerInfo \/ AnswerOther \/ ClientError \/ TransportError

Next ==
  \/ \E kind \in Kinds : StartCall(kind)
  \/ ChoosePeer \/ NoAlivePeers \/ Exhausted \/ Dispatch
  \/ AnswerInfo \/ AnswerOther \/ ClientError \/ TransportError
  \/ Cancel
  \/ StartUp \/ FinishStartUp \/ CloseAll
  \/ \E p \in Peers : CheckArchive(p)

Spec == Init /\ [][Next]_vars

\* The limiter serves only this balancer, every client has a request timeout
\* (set in `new`), so a call that is not dropped is driven to its end.
Fairness ==
  /\ WF_vars(ChoosePeer \/ NoAlivePeers \/ Exhausted)
  /\ WF_vars(Dispatch)
  /\ WF_vars(Answer)
  /\ WF_vars(\E p \in Peers : CheckArchive(p))
  /\ WF_vars(FinishStartUp)

FairSpec == Spec /\ Fairness

-----------------------------------------------------------------------------
Stats == [known : BOOLEAN, mc_block_seqno : Nat, current_requests : Nat,
          failure_count : Nat, ewma_latency_ms : Nat \cup {None}]

Attempt == [peer : Peers, outcome : LiteError \cup {"ok"}]

CallKind == {"none", "startup", "info", "typed", "send"}

Call == [kind : CallKind,
         pc : {"idle", "choosing", "limiter", "inflight", "probing"},
         peer : Peers \cup {None}, tried : Seq(Attempt), limit : Nat,
         probe : SUBSET Peers, found : SUBSET Peers]

Result == [kind : CallKind,
           ret : LiteError \cup {"none", "ok", "NoAlivePeers"},
           tried : Seq(Attempt), limit : Nat]

\* The state of the balancer has its declared shape, and a call that has
\* chosen a peer holds one of its own.
TypeOK ==
  /\ alive_peers \subseteq Peers
  /\ archival_peers \subseteq Peers
  /\ peer_stats \in [Peers -> Stats]
  /\ peer_states \in [Peers -> {"none", "Healthy", "Suspect", "Dead"}]
  /\ has_handle \in BOOLEAN /\ inited \in BOOLEAN
  /\ checkers \in Nat
  /\ has_handle => checkers > 0
  /\ call \in Call
  /\ call.pc \in {"limiter", "inflight"} => call.peer \in Peers
  /\ last \in Result
  /\ link \in [Peers -> {"up", "broken"}]
  /\ leaked \in [Peers -> Nat]
  /\ startups \in Nat /\ cancels \in Nat

\* The in-flight counter of a peer counts the attempt in flight on it and
\* the attempts whose future was dropped in flight, which nothing ever takes
\* off (execute_request increments, complete_request* decrements).
InFlightAccounting ==
  \A p \in Peers :
    peer_stats[p].current_requests =
      leaked[p] + (IF call.pc = "inflight" /\ call.peer = p THEN 1 ELSE 0)

\* The set of alive peers, the state of a peer and its failure counter agree
\* although three locks guard them: a dead peer is out of the set, a peer in
\* the set is healthy or suspect, and the counter explains the state.
PeerStatesAgree ==
  \A p \in Peers :
    /\ p \in alive_peers => peer_states[p] \in {"Healthy", "Suspect"}
    /\ peer_states[p] = "Suspect" => peer_stats[p].failure_count = 1
    /\ peer_states[p] = "Dead" => peer_stats[p].failure_count >= 2

Outcomes(tried) == {tried[i].outcome : i \in 1 .. Len(tried)}

\* A call other than send_message tries again only after a retryable
\* failure, and what it returns is what its last attempt found: the error of
\* a fatal failure, Timeout when all attempts failed, NoAlivePeers when
\* nobody was left to ask (balanced_call!, get_masterchain_info).
RetryDiscipline ==
  /\ call.kind \in {"info", "typed"} =>
       /\ Len(call.tried) <= call.limit
       /\ \A e \in Outcomes(call.tried) : retryable_failure(e)
  /\ last.kind \in {"info", "typed"} =>
       LET n == Len(last.tried)
       IN  /\ \A i \in 1 .. n - 1 : retryable_failure(last.tried[i].outcome)
           /\ last.ret = "Timeout" =>
                /\ n = last.limit
                /\ \A i \in 1 .. n : retryable_failure(last.tried[i].outcome)
           /\ last.ret \notin {"Timeout", "NoAlivePeers"} =>
                n > 0 /\ last.ret = last.tried[n].outcome

\* send_message asks no peer twice, reports success exactly if one of the
\* peers accepted the message, and stops before its limit only when every
\* peer it could still ask has been asked or is dead.
SendFanout ==
  last.kind = "send" =>
    LET n == Len(last.tried)
        asked == {last.tried[i].peer : i \in 1 .. n}
    IN  /\ Cardinality(asked) = n
        /\ (last.ret = "ok") <=> ("ok" \in Outcomes(last.tried))
        /\ n < last.limit => Eligible(asked) = {}

\* A peer is not chosen while one that is known to be ahead of it, has room and
\* no more requests in flight is at hand, unless that one is slow by two timeouts
\* for every block it is ahead: the timeout of a query does not bound its latency,
\* which counts the wait for the client's own limiter and every query of the
\* attempt (peer_score).
FreshnessFirst ==
  call.pc = "limiter" =>
    LET p == call.peer
        Better(q) ==
          /\ peer_stats[q].known /\ HasRoom(q)
          /\ peer_stats[q].mc_block_seqno > peer_stats[p].mc_block_seqno
          /\ peer_stats[q].current_requests <= peer_stats[p].current_requests
          /\ latency(peer_stats[q]) <
               (peer_stats[q].mc_block_seqno - peer_stats[p].mc_block_seqno) * Max({TimeoutMs, 1}) * 2
    IN  peer_stats[p].known => ~ \E q \in Eligible(Excluded) : Better(q)

\* A peer leaves the alive set because it failed twice in a row, because it
\* was never asked, or because at least floor(2n/3) + 1 of the n peers with
\* statistics are strictly ahead of it (find_consensus_block).
OnlyLaggardsEvicted ==
  [][\A p \in alive_peers \ alive_peers' :
       \/ peer_states'[p] = "Dead" /\ peer_stats'[p].failure_count >= 2
       \/ ~peer_stats'[p].known
       \/ LET K == {q \in Peers : peer_stats'[q].known}
              Ahead == {q \in K : peer_stats'[q].mc_block_seqno
                                     > peer_stats'[p].mc_block_seqno}
          IN  Cardinality(Ahead) > (2 * Cardinality(K)) \div 3]_vars

\* Every call that is not dropped returns.
CallReturns == call.pc # "idle" ~> call.pc = "idle"

-----------------------------------------------------------------------------
\* What comments, documents and tests say and the code does not do.

\* "Don't delete peers on startup - they haven't made any requests yet":
\* a peer that was never asked stays alive (start_up).
UnaskedPeersStay ==
  [][\A p \in alive_peers : ~peer_stats'[p].known => p \in alive_peers']_vars

\* "Retry on: connection reset, timeout, ADNL transport error, end of
\* stream": a call does not return a transport error while it has attempts
\* left (retryable_failure).
TransportErrorsAreRetried ==
  last.kind \in {"info", "typed"} /\ last.ret = "UnknownError"
    => Len(last.tried) = last.limit

\* "`close_all` aborts the health-check task": none runs after it.
NoCheckerAfterClose ==
  ~inited /\ ~has_handle => checkers = 0

=============================================================================
