---------------------------- MODULE LiteSession -----------------------------
(***************************************************************************)
(* One LiteClient and its liteserver: query_raw (client/query.rs), the     *)
(* message layers (layers.rs), the tags of LitePeer (peer.rs), the         *)
(* multiplexing worker of tokio-tower between them (external), the ordered *)
(* connection and the multiplexing server (server.rs).                     *)
(*                                                                         *)
(* Calls take `&mut self`: one query runs at a time, but a query that      *)
(* timed out or was dropped stays in the worker and at the server, and its *)
(* answer arrives while a later query waits.  A query is named by its      *)
(* number; the random 256-bit query_id that assign_tag gives it is taken   *)
(* to be unique, so the number stands for it.                              *)
(***************************************************************************)
EXTENDS Integers, Sequences, FiniteSets

CONSTANTS MaxQueries,  \* bound on the queries
          MaxArms,     \* bound on the calls of wait_masterchain_seqno
          Payloads,    \* what servers answer a query with
          HasTimeout   \* request_timeout is Some

ASSUME SessionAssumption ==
  /\ MaxQueries \in Nat /\ MaxArms \in Nat
  /\ HasTimeout \in BOOLEAN

Ids == 1 .. MaxQueries
None == 0

VARIABLES
  \* the client
  wait_seqno,   \* the pending waitMasterchainSeqno prefix, or None
  pc,           \* where query_raw is
  issued,       \* number of queries so far; the last one is the current one
  got,          \* got[id]: how query id ended
  armed,        \* number of calls of wait_masterchain_seqno so far
  carried,      \* carried[id]: the prefix query id was called with
  \* the multiplexing worker
  worker,       \* "up" or "dead"
  slot,         \* the request handed over and not yet taken: <<>> or <<r>>
  pending,      \* the tags that wait for an answer
  \* the connection and the server
  up, down,     \* messages under way to the server and to the client
  working,      \* requests the server works on
  served,       \* the queries its service was called with, oldest first
  server,       \* "up" or "closed"
  stray         \* a message with an unknown tag was sent

client == <<wait_seqno, pc, issued, got, armed, carried>>
mux    == <<worker, slot, pending>>
remote == <<up, down, working, served, server, stray>>
vars   == <<client, mux, remote>>

NoResult == [kind |-> "none", of |-> None, payload |-> "none"]

Init ==
  /\ wait_seqno = None
  /\ pc = "idle"
  /\ issued = 0
  /\ got = [id \in Ids |-> NoResult]
  /\ armed = 0
  /\ carried = [id \in Ids |-> None]
  /\ worker = "up"
  /\ slot = <<>>
  /\ pending = {}
  /\ up = <<>>
  /\ down = <<>>
  /\ working = {}
  /\ served = <<>>
  /\ server = "up"
  /\ stray = FALSE

-----------------------------------------------------------------------------
\* The client.

\* wait_masterchain_seqno: the n-th call stores seqno n.
WaitMasterchainSeqno ==
  /\ pc = "idle"
  /\ armed < MaxArms
  /\ armed' = armed + 1
  /\ wait_seqno' = armed + 1
  /\ UNCHANGED <<pc, issued, got, carried, mux, remote>>

\* Mutant: two queries share a number.
Query_same ==
  /\ pc = "idle"
  /\ issued < MaxQueries
  /\ issued' = issued
  /\ pc' = "limiter"
  /\ UNCHANGED <<wait_seqno, got, armed, carried, mux, remote>>

Query ==
  /\ pc = "idle"
  /\ issued < MaxQueries
  /\ issued' = issued + 1
  /\ pc' = "limiter"
  /\ UNCHANGED <<wait_seqno, got, armed, carried, mux, remote>>

\* rate_limiter.acquire() returns, or there is no limiter.
LimiterGrants ==
  /\ pc = "limiter"
  /\ pc' = "ready"
  /\ UNCHANGED <<wait_seqno, issued, got, armed, carried, mux, remote>>

\* The query in `pc` returns with result r.
Finish(r) ==
  /\ got' = [got EXCEPT ![issued] = r]
  /\ pc' = "idle"

Failure(kind) == [kind |-> kind, of |-> None, payload |-> "none"]

\* Mutant: the prefix is taken whether or not the service becomes ready.
ReadyTimeout_takes ==
  /\ pc = "ready" /\ HasTimeout
  /\ worker = "up" /\ slot # <<>>
  /\ Finish(Failure("Timeout"))
  /\ wait_seqno' = None
  /\ UNCHANGED <<issued, armed, carried, mux, remote>>

\* inner.ready() does not become ready in time: the slot stays taken.
ReadyTimeout ==
  /\ pc = "ready" /\ HasTimeout
  /\ worker = "up" /\ slot # <<>>
  /\ Finish(Failure("Timeout"))
  /\ UNCHANGED <<wait_seqno, issued, armed, carried, mux, remote>>

\* inner.ready() fails: the worker has ended, its boxed error is UnknownError.
ReadyFails ==
  /\ pc = "ready"
  /\ worker = "dead"
  /\ Finish(Failure("UnknownError"))
  /\ UNCHANGED <<wait_seqno, issued, armed, carried, mux, remote>>

\* inner.ready() succeeds, wait_seqno.take(), and service.call hands the
\* wrapped request to the worker before its first await.
CallService ==
  /\ pc = "ready"
  /\ worker = "up" /\ slot = <<>>
  /\ slot' = <<[id |-> issued, seqno |-> wait_seqno]>>
  /\ carried' = [carried EXCEPT ![issued] = wait_seqno]
  /\ wait_seqno' = None
  /\ pc' = "waiting"
  /\ UNCHANGED <<issued, got, armed, worker, pending, remote>>

\* Mutant: a call that times out takes its tag back from the worker.
CallTimeout_forgets ==
  /\ pc = "waiting" /\ HasTimeout
  /\ Finish(Failure("Timeout"))
  /\ pending' = pending \ {issued}
  /\ UNCHANGED <<wait_seqno, issued, armed, carried, worker, slot, remote>>

\* Mutant: the call is awaited without its timeout.
CallTimeout_never == FALSE /\ UNCHANGED vars

\* The call does not return in time.  Its request stays where it is.
CallTimeout ==
  /\ pc = "waiting" /\ HasTimeout
  /\ Finish(Failure("Timeout"))
  /\ UNCHANGED <<wait_seqno, issued, armed, carried, mux, remote>>

\* The worker has ended and dropped the sender of the answer.
CallDropped ==
  /\ pc = "waiting"
  /\ worker = "dead"
  /\ Finish(Failure("UnknownError"))
  /\ UNCHANGED <<wait_seqno, issued, armed, carried, mux, remote>>

\* The caller drops the future at one of its await points.
Cancel ==
  /\ pc \in {"limiter", "ready", "waiting"}
  /\ Finish(Failure("dropped"))
  /\ UNCHANGED <<wait_seqno, issued, armed, carried, mux, remote>>

-----------------------------------------------------------------------------
\* The worker (external: tokio_tower::multiplex::Client).

\* Mutant: the request stays in the slot after it was sent.
WorkerSends_again ==
  /\ worker = "up" /\ slot # <<>>
  /\ Len(up) < 2
  /\ pending' = pending \cup {slot[1].id}
  /\ up' = IF server = "up" THEN Append(up, slot[1]) ELSE up
  /\ UNCHANGED <<client, worker, slot, down, working, served, server, stray>>

\* It takes a request, assigns its tag and sends it; when the connection is
\* gone the write may fail.
WorkerSends ==
  /\ worker = "up" /\ slot # <<>>
  /\ slot' = <<>>
  /\ \/ /\ pending' = pending \cup {slot[1].id}
        /\ up' = IF server = "up" THEN Append(up, slot[1]) ELSE up
        /\ UNCHANGED worker
     \/ /\ server = "closed"
        /\ worker' = "dead"
        /\ pending' = {}
        /\ UNCHANGED up
  /\ UNCHANGED <<client, down, working, served, server, stray>>

\* Mutant: an answer goes to the oldest request that waits.
finish_tag_fifo(m) ==
  IF pending # {} THEN CHOOSE id \in pending : \A x \in pending : id <= x
                  ELSE None

\* finish_tag: the tag of an answer is its query_id.
finish_tag(m) == m.id

\* WrapRawService: a message with the query's tag may be a query itself.
IsAnswer(m) == m.payload # "query"

\* send_request and from_response: what the bytes of an answer become; they may be
\* of another type than the one asked for.
Response(m) ==
  [kind |-> CASE ~IsAnswer(m) \/ m.payload = "other type" -> "UnexpectedMessage"
              [] m.payload = "garbage" -> "TlError"
              [] m.payload = "error" -> "ServerError"
              [] OTHER -> "Ok",
   of |-> m.id, payload |-> m.payload]

\* A message whose tag waits: its sender is completed, if its receiver is
\* still there.
WorkerMatches ==
  /\ worker = "up" /\ pending # {} /\ down # <<>>
  /\ LET tag == finish_tag(Head(down))
     IN  /\ tag \in pending
         /\ pending' = pending \ {tag}
         /\ IF pc = "waiting" /\ tag = issued
              THEN Finish(Response(Head(down)))
              ELSE UNCHANGED <<pc, got>>
  /\ down' = Tail(down)
  /\ UNCHANGED <<wait_seqno, issued, armed, carried, worker, slot,
                 up, working, served, server, stray>>

\* A message whose tag does not wait ends the worker (Desynchronized).
WorkerDesynchronized ==
  /\ worker = "up" /\ pending # {} /\ down # <<>>
  /\ finish_tag(Head(down)) \notin pending
  /\ worker' = "dead" /\ pending' = {} /\ slot' = <<>>
  /\ down' = Tail(down)
  /\ UNCHANGED <<client, up, working, served, server, stray>>

\* The end of the stream, or an error of it, ends the worker.  It is seen
\* only while an answer is awaited.
WorkerEndOfStream ==
  /\ worker = "up" /\ pending # {}
  /\ server = "closed" /\ down = <<>>
  /\ worker' = "dead" /\ pending' = {} /\ slot' = <<>>
  /\ UNCHANGED <<client, remote>>

-----------------------------------------------------------------------------
\* The server (server.rs, UnwrapService, WrapErrorService) and the network.

ServerReceives ==
  /\ server = "up" /\ up # <<>>
  /\ working' = working \cup {Head(up).id}
  /\ served' = Append(served, Head(up).id)
  /\ up' = Tail(up)
  /\ UNCHANGED <<client, mux, down, server, stray>>

\* The service answers its requests in any order; an error of the service
\* is answered too.
ServerAnswers(id, payload) ==
  /\ server = "up" /\ id \in working
  /\ working' = working \ {id}
  /\ down' = Append(down, [id |-> id, payload |-> payload])
  /\ UNCHANGED <<client, mux, up, served, server, stray>>

\* A server message that answers no query, or that LitePeer cannot decode.
ServerStray ==
  /\ server = "up" /\ ~stray
  /\ stray' = TRUE
  /\ down' = Append(down, [id |-> None, payload |-> "ok"])
  /\ UNCHANGED <<client, mux, up, working, served, server>>

\* The connection is lost, or the server ends it (a message it cannot
\* decode makes Server::new return): what was not read is gone.
ConnectionLost ==
  /\ server = "up"
  /\ server' = "closed"
  /\ up' = <<>> /\ working' = {}
  /\ \E n \in 0 .. Len(down) : down' = SubSeq(down, 1, n)
  /\ UNCHANGED <<client, mux, served, stray>>

-----------------------------------------------------------------------------
Next ==
  \/ WaitMasterchainSeqno \/ Query \/ LimiterGrants
  \/ ReadyTimeout \/ ReadyFails \/ CallService
  \/ CallTimeout \/ CallDropped \/ Cancel
  \/ WorkerSends \/ WorkerMatches \/ WorkerDesynchronized \/ WorkerEndOfStream
  \/ ServerReceives \/ ServerStray \/ ConnectionLost
  \/ \E id \in Ids, payload \in Payloads : ServerAnswers(id, payload)

Spec == Init /\ [][Next]_vars

\* The runtime polls the caller's task and the worker, timers expire; the
\* server and the network owe nothing.
Fairness ==
  /\ WF_vars(LimiterGrants)
  /\ WF_vars(CallService \/ ReadyTimeout \/ ReadyFails)
  /\ WF_vars(CallTimeout \/ CallDropped)
  /\ WF_vars(WorkerSends)

FairSpec == Spec /\ Fairness

-----------------------------------------------------------------------------
\* The messages under way and the state of the client have their shape.
TypeOK ==
  /\ wait_seqno \in 0 .. MaxArms /\ armed \in 0 .. MaxArms
  /\ pc \in {"idle", "limiter", "ready", "waiting"}
  /\ issued \in 0 .. MaxQueries
  /\ pc # "idle" => issued > 0
  /\ carried \in [Ids -> 0 .. MaxArms]
  /\ worker \in {"up", "dead"}
  /\ Len(slot) <= 1
  /\ pending \subseteq 1 .. issued
  /\ server \in {"up", "closed"}

\* A query never returns the answer to another one, although the answers of
\* abandoned queries arrive while it waits (assign_tag, finish_tag).
AnswerMatchesQuery ==
  \A id \in Ids : got[id].of # None => got[id].of = id

\* The prefix set by wait_masterchain_seqno goes out with exactly one
\* request: it is still pending, or one query carried it, whatever query
\* was cancelled, timed out or failed in between; only a later call of
\* wait_masterchain_seqno replaces it.
PrefixConserved ==
  \A n \in 1 .. armed :
    LET carriers == {id \in Ids : carried[id] = n}
    IN  /\ Cardinality(carriers) + (IF wait_seqno = n THEN 1 ELSE 0) <= 1
        /\ n = armed => (carriers = {} => wait_seqno = n)

Where(q) == {q[i].id : i \in 1 .. Len(q)}

\* While both ends are up, a tag that waits is in exactly one place: on its
\* way, at the server, or in an answer; and the worker ends only because the
\* connection did or a message answered nothing.  Abandoned queries do not
\* desynchronise it.
TagsAccountedFor ==
  /\ worker = "dead" => server = "closed" \/ stray
  /\ worker = "up" /\ server = "up" =>
    /\ pending = Where(up) \cup working \cup (Where(down) \ {None})
    /\ Cardinality(pending) =
         Len(up) + Cardinality(working)
           + Cardinality({i \in 1 .. Len(down) : down[i].id # None})

\* With a request timeout, every query returns, whatever the server does.
QueryReturns == pc # "idle" ~> pc = "idle"

\* How a query has ended, for its caller.
Outcome(id) ==
  IF got[id].kind = "none" THEN "none"
  ELSE CASE got[id].of = id -> "answer"
         [] got[id].of = None -> "failure"
         [] OTHER -> "answer to another query"

\* The session implements the promise of RemoteCall: at most one execution,
\* at most one result, and an answer is the answer to this query.
RC == INSTANCE RemoteCall WITH
        issued <- issued,
        returned <- [id \in Ids |-> Outcome(id)],
        executed <- served,
        value <- [id \in Ids |-> got[id].payload]

ImplementsRemoteCall == RC!Spec

=============================================================================
