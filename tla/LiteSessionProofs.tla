------------------------- MODULE LiteSessionProofs --------------------------
(***************************************************************************)
(* Proofs about LiteSession, for any number of queries and of calls of     *)
(* wait_masterchain_seqno, any payloads, with and without a timeout.       *)
(***************************************************************************)
EXTENDS LiteSession, FiniteSetTheorems, SequenceTheorems, TLAPS

Kinds == {"none", "Timeout", "UnknownError", "dropped", "UnexpectedMessage",
          "ServerError", "TlError", "Ok"}
Results == [kind : Kinds, of : 0 .. MaxQueries, payload : Payloads \cup {"none", "ok"}]
Requests == [id : Ids, seqno : 0 .. MaxArms]
Messages == [id : 0 .. MaxQueries, payload : Payloads \cup {"ok"}]

Typed ==
  /\ TypeOK
  /\ got \in [Ids -> Results]
  /\ slot \in Seq(Requests) /\ up \in Seq(Requests)
  /\ down \in Seq(Messages)
  /\ working \subseteq Ids
  /\ served \in Seq(Ids)
  /\ stray \in BOOLEAN

\* A query has its result once it is not the current one any more, and an answer
\* in it is its own.
Ended(id) == id < issued \/ (id = issued /\ pc = "idle")
ResultsTell ==
  \A id \in Ids :
    IF Ended(id) THEN got[id].kind # "none" /\ got[id].of \in {None, id}
                 ELSE got[id] = NoResult

\* A prefix is handed on when it is called with, and nowhere else.
Before == pc \in {"limiter", "ready"}      \* the current query has not been called
PrefixMoves ==
  /\ wait_seqno <= armed
  /\ armed > 0 /\ (\A id \in Ids : carried[id] # armed) => wait_seqno = armed
  /\ \A id \in Ids :
       carried[id] # None =>
         /\ id <= issued /\ (Before => id # issued)
         /\ carried[id] <= armed /\ carried[id] # wait_seqno
         /\ \A other \in Ids : carried[other] = carried[id] => other = id

\* Where a tag has been: handed over, sent, at the service, answered.  It is at
\* each place once and moves on only.
Served == {served[i] : i \in 1 .. Len(served)}
DistinctIds(q) ==
  \A i, j \in 1 .. Len(q) : q[i].id = q[j].id /\ q[i].id # None => i = j

Handed == Where(slot) \cup pending \cup Where(up) \cup Served
TagsMoveOn ==
  /\ Handed \subseteq 1 .. issued
  /\ Before => issued \notin Handed
  /\ Where(slot) \cap (pending \cup Where(up) \cup Served) = {}
  /\ Where(up) \cap Served = {}
  /\ working \subseteq Served
  /\ Where(down) \ {None} \subseteq Served
  /\ working \cap Where(down) = {}
  /\ \A i, j \in 1 .. Len(served) : served[i] = served[j] => i = j
  /\ DistinctIds(up) /\ DistinctIds(down)

\* An answer carries what a service answered; anything else came uninvited.
AnswersTell ==
  \A i \in 1 .. Len(down) : IF down[i].id = None THEN stray ELSE down[i].payload \in Payloads

\* The inductive invariant.
IInv ==
  Typed /\ ResultsTell /\ PrefixMoves /\ TagsMoveOn /\ AnswersTell /\ TagsAccountedFor

-----------------------------------------------------------------------------
\* The queues: what their operations do to the tags in them.

\* A message that is put at the end of a queue.
LEMMA AppendQueue ==
  ASSUME NEW S, NEW q \in Seq(S), NEW e \in S
  PROVE  /\ Append(q, e) \in Seq(S)
         /\ Len(q) \in Nat
         /\ Len(Append(q, e)) = Len(q) + 1
         /\ Append(q, e)[Len(q) + 1] = e
         /\ \A i \in 1 .. Len(q) : Append(q, e)[i] = q[i]
         /\ Where(Append(q, e)) = Where(q) \cup {e.id}
<1>1. /\ Append(q, e) \in Seq(S) /\ Len(q) \in Nat
      /\ Len(Append(q, e)) = Len(q) + 1
      /\ Append(q, e)[Len(q) + 1] = e
      /\ \A i \in 1 .. Len(q) : Append(q, e)[i] = q[i]
  OBVIOUS
<1>2. Where(Append(q, e)) = Where(q) \cup {e.id}
  BY <1>1 DEF Where
<1>3. QED
  BY <1>1, <1>2

\* The first message leaves a queue.
LEMMA TailQueue ==
  ASSUME NEW S, NEW q \in Seq(S), q # <<>>
  PROVE  /\ Tail(q) \in Seq(S) /\ Head(q) \in S /\ Head(q) = q[1]
         /\ Len(q) \in Nat /\ Len(q) > 0
         /\ Len(Tail(q)) = Len(q) - 1
         /\ \A i \in 1 .. Len(q) - 1 : Tail(q)[i] = q[i + 1]
         /\ Where(q) = {Head(q).id} \cup Where(Tail(q))
<1>1. /\ Tail(q) \in Seq(S) /\ Head(q) \in S /\ Head(q) = q[1]
      /\ Len(q) \in Nat /\ Len(q) > 0
      /\ Len(Tail(q)) = Len(q) - 1
      /\ \A i \in 1 .. Len(q) - 1 : Tail(q)[i] = q[i + 1]
  BY HeadTailProperties, EmptySeq
<1>2. ASSUME NEW x \in Where(q) PROVE x \in {Head(q).id} \cup Where(Tail(q))
  <2>1. PICK i \in 1 .. Len(q) : x = q[i].id
    BY DEF Where
  <2>2. CASE i = 1
    BY <1>1, <2>1, <2>2
  <2>3. CASE i > 1
    <3>1. i - 1 \in 1 .. Len(q) - 1 /\ Tail(q)[i - 1] = q[i]
      BY <1>1, <2>1, <2>3
    <3> QED
      BY <1>1, <2>1, <3>1 DEF Where
  <2> QED
    BY <2>1, <2>2, <2>3
<1>3. ASSUME NEW x \in Where(Tail(q)) PROVE x \in Where(q)
  <2>1. PICK i \in 1 .. Len(q) - 1 : x = q[i + 1].id
    BY <1>1 DEF Where
  <2>2. i + 1 \in 1 .. Len(q)
    BY <1>1, <2>1
  <2> QED
    BY <2>1, <2>2 DEF Where
<1>4. Head(q).id \in Where(q)
  BY <1>1 DEF Where
<1>5. QED
  BY <1>1, <1>2, <1>3, <1>4

\* A queue whose end is lost.
LEMMA PrefixQueue ==
  ASSUME NEW S, NEW q \in Seq(S), NEW n \in 0 .. Len(q)
  PROVE  /\ SubSeq(q, 1, n) \in Seq(S)
         /\ Len(SubSeq(q, 1, n)) = n
         /\ \A i \in 1 .. n : SubSeq(q, 1, n)[i] = q[i]
         /\ Where(SubSeq(q, 1, n)) \subseteq Where(q)
<1>1. Len(q) \in Nat /\ n \in Int /\ \A i \in 1 .. n : q[i] \in S
  OBVIOUS
<1>2. /\ SubSeq(q, 1, n) \in Seq(S)
      /\ Len(SubSeq(q, 1, n)) = n
      /\ \A i \in 1 .. n : SubSeq(q, 1, n)[i] = q[i]
  BY <1>1, SubSeqProperties
<1>3. QED
  BY <1>1, <1>2 DEF Where

\* Tags stay distinct in a queue.
LEMMA AppendDistinct ==
  ASSUME NEW S, NEW q \in Seq(S), NEW e \in S, DistinctIds(q),
         e.id \notin Where(q) \/ e.id = None
  PROVE  DistinctIds(Append(q, e))
BY AppendQueue DEF DistinctIds, Where

\* The tag that leaves a queue is not in it any more.
LEMMA TailDistinct ==
  ASSUME NEW S, NEW q \in Seq(S), q # <<>>, DistinctIds(q)
  PROVE  /\ DistinctIds(Tail(q))
         /\ Head(q).id # None => Head(q).id \notin Where(Tail(q))
<1>1. DistinctIds(Tail(q))
  BY TailQueue DEF DistinctIds
<1>2. ASSUME Head(q).id # None, Head(q).id \in Where(Tail(q)) PROVE FALSE
  <2>1. PICK i \in 1 .. Len(q) - 1 : Head(q).id = q[i + 1].id
    BY <1>2, TailQueue DEF Where
  <2>2. 1 \in 1 .. Len(q) /\ i + 1 \in 1 .. Len(q) /\ q[1].id = q[i + 1].id /\ q[1].id # None
    BY <1>2, <2>1, TailQueue
  <2> QED
    BY <2>1, <2>2 DEF DistinctIds
<1>3. QED
  BY <1>1, <1>2

-----------------------------------------------------------------------------
\* The steps that end a query with an error differ in their guards only.
Fails == ReadyTimeout \/ ReadyFails \/ CallTimeout \/ CallDropped \/ Cancel

FailsWith(kind) ==
  /\ pc # "idle"
  /\ Finish(Failure(kind))
  /\ UNCHANGED <<wait_seqno, issued, armed, carried, mux, remote>>

\* What the steps that fail a query have in common.
LEMMA FailsShape ==
  ASSUME Fails
  PROVE  \E kind \in {"Timeout", "UnknownError", "dropped"} : FailsWith(kind)
BY DEF Fails, ReadyTimeout, ReadyFails, CallTimeout, CallDropped, Cancel, FailsWith

\* The current query, and how a result is stored.
LEMMA FinishStores ==
  ASSUME Typed, pc # "idle", NEW r \in Results, Finish(r)
  PROVE  /\ issued \in Ids /\ got' \in [Ids -> Results]
         /\ got'[issued] = r
         /\ \A id \in Ids : id # issued => got'[id] = got[id]
         /\ pc' = "idle"
BY SessionAssumption DEF Typed, TypeOK, Finish, Ids

\* What a query fails with, and what an answer becomes, is a result.
LEMMA ResultTypes ==
  /\ \A kind \in {"Timeout", "UnknownError", "dropped"} :
       /\ Failure(kind) \in Results
       /\ Failure(kind).kind # "none"
       /\ Failure(kind).of = None /\ Failure(kind).payload = "none"
  /\ \A m \in Messages :
       /\ Response(m) \in Results /\ Response(m).kind # "none"
       /\ Response(m).of = m.id /\ Response(m).payload = m.payload
  /\ NoResult \in Results
<1>1. 0 \in 0 .. MaxQueries
  BY SessionAssumption
<1>2. ASSUME NEW kind \in {"Timeout", "UnknownError", "dropped"}
      PROVE  /\ Failure(kind) \in Results
             /\ Failure(kind).kind # "none"
             /\ Failure(kind).of = None /\ Failure(kind).payload = "none"
  BY <1>1 DEF Failure, Results, Kinds, None
<1>3. NoResult \in Results
  BY <1>1 DEF NoResult, Results, Kinds, None
<1>4. ASSUME NEW m \in Messages
      PROVE  /\ Response(m) \in Results /\ Response(m).kind # "none"
             /\ Response(m).of = m.id /\ Response(m).payload = m.payload
  <2>1. Response(m).of = m.id /\ Response(m).payload = m.payload
    BY DEF Response
  <2>2. Response(m).kind \in {"UnexpectedMessage", "ServerError", "TlError", "Ok"}
    BY DEF Response
  <2>3. m.id \in 0 .. MaxQueries /\ m.payload \in Payloads \cup {"ok"}
    BY DEF Messages
  <2>4. Response(m) = [kind |-> Response(m).kind, of |-> m.id, payload |-> m.payload]
    BY DEF Response
  <2> HIDE DEF Response
  <2>5. ASSUME NEW k \in {"UnexpectedMessage", "ServerError", "TlError", "Ok"}
        PROVE  [kind |-> k, of |-> m.id, payload |-> m.payload] \in Results
    BY <2>3 DEF Results, Kinds
  <2>6. Response(m) \in Results
    BY <2>2, <2>4, <2>5
  <2>7. Response(m).kind # "none"
    BY <2>2
  <2> QED
    BY <2>1, <2>6, <2>7
<1>5. QED
  BY <1>2, <1>3, <1>4

\* Nothing has happened yet (Init).
LEMMA InitIInv == Init => IInv
<1> SUFFICES ASSUME Init PROVE IInv
  OBVIOUS
<1> USE SessionAssumption DEF Init, None
<1>1. Typed
  <2>1. TypeOK
    BY DEF TypeOK, Ids
  <2>2. got \in [Ids -> Results]
    BY ResultTypes
  <2>3. /\ slot \in Seq(Requests) /\ up \in Seq(Requests) /\ down \in Seq(Messages)
        /\ working \subseteq Ids /\ served \in Seq(Ids)
    BY EmptySeq
  <2>4. stray \in BOOLEAN
    OBVIOUS
  <2> QED
    BY <2>1, <2>2, <2>3, <2>4 DEF Typed
<1>2. ResultsTell
  BY DEF ResultsTell, Ended, Ids
<1>3. PrefixMoves
  BY DEF PrefixMoves
<1>4. Where(slot) = {} /\ Where(up) = {} /\ Where(down) = {} /\ Served = {}
  BY DEF Where, Served
<1>5. TagsMoveOn
  BY <1>4 DEF TagsMoveOn, Handed, Before, DistinctIds
<1>6. AnswersTell
  BY DEF AnswersTell
<1>7. TagsAccountedFor
  <2>1. Cardinality({}) = 0
    BY FS_EmptySet
  <2>2. {i \in 1 .. Len(down) : down[i].id # None} = {}
    OBVIOUS
  <2> QED
    BY <1>4, <2>1, <2>2 DEF TagsAccountedFor
<1>8. QED
  BY <1>1, <1>2, <1>3, <1>5, <1>6, <1>7 DEF IInv

-----------------------------------------------------------------------------
\* Every step preserves the types.
LEMMA NextTyped == IInv /\ [Next]_vars => Typed'
<1> SUFFICES ASSUME IInv, [Next]_vars PROVE Typed'
  OBVIOUS
<1>1. MaxQueries \in Nat /\ MaxArms \in Nat
  BY SessionAssumption
<1>2. Typed
  BY DEF IInv
<1>3. /\ issued \in Nat /\ Len(slot) \in Nat
      /\ \A i \in 1 .. issued : i \in Ids
  BY <1>1, <1>2 DEF Typed, TypeOK, Ids
<1> USE DEF client, mux, remote
<1>4. CASE WaitMasterchainSeqno
  BY <1>1, <1>2, <1>4 DEF WaitMasterchainSeqno, Typed, TypeOK
<1>5. CASE Query
  BY <1>1, <1>2, <1>5 DEF Query, Typed, TypeOK
<1>6. CASE LimiterGrants
  BY <1>2, <1>6 DEF LimiterGrants, Typed, TypeOK
<1>7. CASE Fails
  <2>1. PICK kind \in {"Timeout", "UnknownError", "dropped"} : FailsWith(kind)
    BY <1>7, FailsShape
  <2>2. got' \in [Ids -> Results] /\ pc' = "idle"
    BY <1>2, <2>1, ResultTypes, FinishStores DEF FailsWith
  <2> QED
    BY <1>2, <2>1, <2>2 DEF FailsWith, Typed, TypeOK
<1>8. CASE CallService
  <2>1. issued \in Ids
    BY <1>1, <1>2, <1>8 DEF CallService, Typed, TypeOK, Ids
  <2>2. [id |-> issued, seqno |-> wait_seqno] \in Requests
    BY <1>2, <2>1 DEF Requests, Typed, TypeOK
  <2>3. slot' \in Seq(Requests) /\ Len(slot') = 1
    BY <1>8, <2>2 DEF CallService
  <2>4. carried' \in [Ids -> 0 .. MaxArms] /\ wait_seqno' \in 0 .. MaxArms
    BY <1>1, <1>2, <1>8, <2>1 DEF CallService, Typed, TypeOK, None
  <2> QED
    BY <1>2, <1>8, <2>3, <2>4 DEF CallService, Typed, TypeOK
<1>9. CASE WorkerSends
  <2>1. slot[1] \in Requests /\ slot[1].id \in 1 .. issued
    <3>1. slot[1] \in Requests /\ 1 \in 1 .. Len(slot)
      BY <1>2, <1>9, EmptySeq DEF WorkerSends, Typed
    <3>2. slot[1].id \in Where(slot)
      BY <3>1 DEF Where
    <3> QED
      BY <3>1, <3>2 DEF IInv, TagsMoveOn, Handed
  <2>2. Append(up, slot[1]) \in Seq(Requests)
    BY <1>2, <2>1 DEF Typed
  <2>3. pending' \subseteq 1 .. issued /\ up' \in Seq(Requests) /\ worker' \in {"up", "dead"}
    BY <1>2, <1>9, <2>1, <2>2 DEF WorkerSends, Typed, TypeOK
  <2>4. slot' \in Seq(Requests) /\ Len(slot') <= 1
    BY <1>9, EmptySeq DEF WorkerSends
  <2> QED
    BY <1>2, <1>9, <2>3, <2>4 DEF WorkerSends, Typed, TypeOK
<1>10. CASE WorkerMatches
  <2>1. Tail(down) \in Seq(Messages) /\ Head(down) \in Messages
    BY <1>2, <1>10, TailQueue DEF WorkerMatches, Typed
  <2>2. got' \in [Ids -> Results] /\ pc' \in {"idle", pc}
    <3>1. CASE pc = "waiting" /\ finish_tag(Head(down)) = issued
      <4>1. Finish(Response(Head(down)))
        BY <1>10, <3>1 DEF WorkerMatches
      <4> QED
        BY <1>2, <2>1, <3>1, <4>1, ResultTypes, FinishStores
    <3>2. CASE ~(pc = "waiting" /\ finish_tag(Head(down)) = issued)
      BY <1>2, <1>10, <3>2 DEF WorkerMatches, Typed
    <3> QED
      BY <3>1, <3>2
  <2>3. pending' \subseteq pending /\ down' = Tail(down)
        /\ UNCHANGED <<wait_seqno, issued, armed, carried, worker, slot,
                       up, working, served, server, stray>>
    BY <1>10 DEF WorkerMatches
  <2> QED
    BY <1>2, <2>1, <2>2, <2>3 DEF Typed, TypeOK
<1>11. CASE WorkerDesynchronized
  <2>1. Tail(down) \in Seq(Messages) /\ <<>> \in Seq(Requests) /\ Len(<<>>) = 0
    BY <1>2, <1>11, TailQueue, EmptySeq DEF WorkerDesynchronized, Typed
  <2> QED
    BY <1>2, <1>11, <2>1 DEF WorkerDesynchronized, Typed, TypeOK
<1>12. CASE WorkerEndOfStream
  <2>1. <<>> \in Seq(Requests) /\ Len(<<>>) = 0
    BY EmptySeq
  <2> QED
    BY <1>2, <1>12, <2>1 DEF WorkerEndOfStream, Typed, TypeOK
<1>13. CASE ServerReceives
  <2>1. Tail(up) \in Seq(Requests) /\ Head(up).id \in Ids
    <3>1. Tail(up) \in Seq(Requests) /\ Head(up) \in Requests
      BY <1>2, <1>13, TailQueue DEF ServerReceives, Typed
    <3> QED
      BY <3>1 DEF Requests
  <2>2. Append(served, Head(up).id) \in Seq(Ids)
    BY <1>2, <2>1 DEF Typed
  <2> QED
    BY <1>2, <1>13, <2>1, <2>2 DEF ServerReceives, Typed, TypeOK
<1>14. CASE ServerStray
  <2>1. [id |-> None, payload |-> "ok"] \in Messages
    BY <1>1 DEF Messages, None
  <2>2. Append(down, [id |-> None, payload |-> "ok"]) \in Seq(Messages)
    BY <1>2, <2>1 DEF Typed
  <2>3. stray' \in BOOLEAN
    BY <1>14 DEF ServerStray
  <2> QED
    BY <1>2, <1>14, <2>2, <2>3 DEF ServerStray, Typed, TypeOK
<1>15. CASE ConnectionLost
  <2>1. down' \in Seq(Messages)
    BY <1>2, <1>15, PrefixQueue DEF ConnectionLost, Typed
  <2>2. up' \in Seq(Requests)
    BY <1>15, EmptySeq DEF ConnectionLost
  <2> QED
    BY <1>2, <1>15, <2>1, <2>2 DEF ConnectionLost, Typed, TypeOK
<1>16. ASSUME NEW id \in Ids, NEW payload \in Payloads, ServerAnswers(id, payload)
       PROVE  Typed'
  <2>1. [id |-> id, payload |-> payload] \in Messages
    BY <1>1 DEF Messages, Ids
  <2>2. Append(down, [id |-> id, payload |-> payload]) \in Seq(Messages)
    BY <1>2, <2>1 DEF Typed
  <2> QED
    BY <1>2, <1>16, <2>2 DEF ServerAnswers, Typed, TypeOK
<1>17. CASE UNCHANGED vars
  BY <1>2, <1>17 DEF vars, Typed, TypeOK
<1>18. QED
  BY <1>4, <1>5, <1>6, <1>7, <1>8, <1>9, <1>10, <1>11, <1>12, <1>13, <1>14, <1>15,
     <1>16, <1>17 DEF Next, Fails

-----------------------------------------------------------------------------
\* Every step keeps results with their queries: an answer reaches only the query
\* whose tag it has, and only while it waits (WorkerMatches).
LEMMA NextResults == IInv /\ [Next]_vars => ResultsTell'
<1> SUFFICES ASSUME IInv, [Next]_vars PROVE ResultsTell'
  OBVIOUS
<1>1. Typed /\ ResultsTell /\ issued \in Nat
  BY SessionAssumption DEF IInv, Typed, TypeOK
<1>2. \A id \in Ids : id \in Nat
  BY DEF Ids
<1>3. ASSUME NEW r \in Results, pc # "idle", Finish(r), r.kind # "none",
             r.of \in {None, issued}, issued' = issued
      PROVE  ResultsTell'
  <2>1. /\ issued \in Ids /\ got'[issued] = r /\ pc' = "idle"
        /\ \A id \in Ids : id # issued => got'[id] = got[id]
    BY <1>1, <1>3, FinishStores
  <2> QED
    BY <1>1, <1>2, <1>3, <2>1 DEF ResultsTell, Ended
<1>4. CASE Query
  <2>1. pc = "idle" /\ issued' = issued + 1 /\ pc' = "limiter" /\ got' = got
    BY <1>4 DEF Query
  <2> QED
    BY <1>1, <1>2, <2>1 DEF ResultsTell, Ended
<1>5. CASE Fails
  <2>1. PICK kind \in {"Timeout", "UnknownError", "dropped"} : FailsWith(kind)
    BY <1>5, FailsShape
  <2> QED
    BY <1>3, <2>1, ResultTypes DEF FailsWith
<1>6. CASE WorkerMatches
  <2>1. CASE pc = "waiting" /\ finish_tag(Head(down)) = issued
    <3>1. Finish(Response(Head(down))) /\ issued' = issued /\ Head(down).id = issued
      BY <1>6, <2>1 DEF WorkerMatches, finish_tag
    <3>2. Head(down) \in Messages
      BY <1>1, <1>6, TailQueue DEF WorkerMatches, Typed
    <3> QED
      BY <1>3, <2>1, <3>1, <3>2, ResultTypes
  <2>2. CASE ~(pc = "waiting" /\ finish_tag(Head(down)) = issued)
    <3>1. UNCHANGED <<pc, got, issued>>
      BY <1>6, <2>2 DEF WorkerMatches
    <3> QED
      BY <1>1, <3>1 DEF ResultsTell, Ended
  <2> QED
    BY <2>1, <2>2
<1>7. CASE LimiterGrants \/ CallService
  <2>1. UNCHANGED <<got, issued>> /\ pc # "idle" /\ pc' # "idle"
    BY <1>7 DEF LimiterGrants, CallService
  <2> QED
    BY <1>1, <2>1 DEF ResultsTell, Ended
<1>8. CASE UNCHANGED <<pc, got, issued>>
  BY <1>1, <1>8 DEF ResultsTell, Ended
<1>9. QED
  BY <1>4, <1>5, <1>6, <1>7, <1>8
     DEF Next, Fails, WaitMasterchainSeqno, WorkerSends, WorkerDesynchronized,
         WorkerEndOfStream, ServerReceives, ServerStray, ConnectionLost, ServerAnswers,
         client, vars

\* Every step keeps the prefix with the client or hands it on once (CallService).
LEMMA NextPrefix == IInv /\ [Next]_vars => PrefixMoves'
<1> SUFFICES ASSUME IInv, [Next]_vars PROVE PrefixMoves'
  OBVIOUS
<1>1. Typed /\ PrefixMoves /\ issued \in Nat /\ armed \in Nat /\ wait_seqno \in Nat
  BY SessionAssumption DEF IInv, Typed, TypeOK
<1>2. \A id \in Ids : id \in Nat /\ carried[id] \in Nat
  BY SessionAssumption, <1>1 DEF Ids, Typed, TypeOK
<1>3. CASE WaitMasterchainSeqno
  <2>1. /\ pc = "idle" /\ armed' = armed + 1 /\ wait_seqno' = armed + 1
        /\ UNCHANGED <<pc, issued, carried>>
    BY <1>3 DEF WaitMasterchainSeqno
  <2> QED
    BY <1>1, <1>2, <2>1 DEF PrefixMoves, Before
<1>4. CASE Query
  <2>1. issued' = issued + 1 /\ UNCHANGED <<wait_seqno, armed, carried>>
    BY <1>4 DEF Query
  <2> QED
    BY <1>1, <1>2, <2>1 DEF PrefixMoves, Before
<1>5. CASE CallService
  <2>1. /\ pc = "ready" /\ carried' = [carried EXCEPT ![issued] = wait_seqno]
        /\ wait_seqno' = None /\ pc' = "waiting" /\ UNCHANGED <<issued, armed>>
    BY <1>5 DEF CallService
  <2>2. issued \in Ids /\ carried \in [Ids -> 0 .. MaxArms]
    BY <1>1, <2>1, SessionAssumption DEF Typed, TypeOK, Ids
  <2>3. carried[issued] = None
    BY <2>1, <2>2, <1>1 DEF PrefixMoves, Before
  <2>4. carried'[issued] = wait_seqno /\ \A id \in Ids : id # issued => carried'[id] = carried[id]
    BY <2>1, <2>2
  <2>5. armed > 0 /\ (\A id \in Ids : carried'[id] # armed) => FALSE
    BY <1>1, <2>2, <2>3, <2>4 DEF PrefixMoves, None
  <2>6. ASSUME NEW id \in Ids, carried'[id] # None
        PROVE  /\ id <= issued /\ carried'[id] <= armed
               /\ \A other \in Ids : carried'[other] = carried'[id] => other = id
    BY <1>1, <1>2, <2>2, <2>3, <2>4, <2>6 DEF PrefixMoves
  <2> QED
    BY <1>1, <2>1, <2>5, <2>6 DEF PrefixMoves, Before, None
<1>6. CASE UNCHANGED <<wait_seqno, armed, carried, issued>> /\ (Before' => Before)
  BY <1>1, <1>6 DEF PrefixMoves
<1>7. CASE Fails \/ WorkerMatches
  <2>1. UNCHANGED <<wait_seqno, armed, carried, issued>> /\ pc' \in {"idle", pc}
    BY <1>7, FailsShape DEF FailsWith, Finish, WorkerMatches
  <2> QED
    BY <1>6, <2>1 DEF Before
<1>8. CASE LimiterGrants
  BY <1>6, <1>8 DEF LimiterGrants, Before
<1>9. CASE UNCHANGED client
  BY <1>6, <1>9 DEF client, Before
<1>10. QED
  BY <1>3, <1>4, <1>5, <1>7, <1>8, <1>9
     DEF Next, Fails, WorkerSends, WorkerDesynchronized, WorkerEndOfStream,
         ServerReceives, ServerStray, ConnectionLost, ServerAnswers, vars

\* Only the server and the network put messages on their way to the client
\* (ServerAnswers, ServerStray), or lose them.
LEMMA NextAnswers == IInv /\ [Next]_vars => AnswersTell'
<1> SUFFICES ASSUME IInv, [Next]_vars PROVE AnswersTell'
  OBVIOUS
<1>1. Typed /\ AnswersTell
  BY DEF IInv
<1>2. CASE WorkerMatches \/ WorkerDesynchronized
  <2>1. down # <<>> /\ down' = Tail(down) /\ stray' = stray
    BY <1>2 DEF WorkerMatches, WorkerDesynchronized
  <2>2. /\ Len(down) \in Nat /\ Len(down') = Len(down) - 1
        /\ \A i \in 1 .. Len(down) - 1 : down'[i] = down[i + 1]
    BY <1>1, <2>1, TailQueue DEF Typed
  <2> QED
    BY <1>1, <2>1, <2>2 DEF AnswersTell
<1>3. CASE ServerStray
  <2> DEFINE m == [id |-> None, payload |-> "ok"]
  <2>1. m \in Messages /\ m.id = None
    BY SessionAssumption DEF Messages, None
  <2>2. /\ Len(down) \in Nat /\ Len(down') = Len(down) + 1
        /\ down'[Len(down) + 1] = m /\ \A i \in 1 .. Len(down) : down'[i] = down[i]
    BY <1>1, <1>3, <2>1, AppendQueue DEF ServerStray, Typed
  <2>3. stray'
    BY <1>3 DEF ServerStray
  <2> HIDE DEF m
  <2> QED
    BY <1>1, <2>1, <2>2, <2>3 DEF AnswersTell
<1>4. ASSUME NEW id \in Ids, NEW payload \in Payloads, ServerAnswers(id, payload)
      PROVE  AnswersTell'
  <2> DEFINE m == [id |-> id, payload |-> payload]
  <2>1. m \in Messages /\ m.id # None /\ m.payload \in Payloads
    BY SessionAssumption DEF Messages, None, Ids
  <2>2. /\ Len(down) \in Nat /\ Len(down') = Len(down) + 1
        /\ down'[Len(down) + 1] = m /\ \A i \in 1 .. Len(down) : down'[i] = down[i]
    BY <1>1, <1>4, <2>1, AppendQueue DEF ServerAnswers, Typed
  <2>3. stray' = stray
    BY <1>4 DEF ServerAnswers
  <2> HIDE DEF m
  <2> QED
    BY <1>1, <2>1, <2>2, <2>3 DEF AnswersTell
<1>5. CASE ConnectionLost
  <2>1. PICK n \in 0 .. Len(down) : down' = SubSeq(down, 1, n)
    BY <1>5 DEF ConnectionLost
  <2>2. Len(down') = n /\ (\A i \in 1 .. n : down'[i] = down[i]) /\ stray' = stray
        /\ Len(down) \in Nat
    BY <1>1, <1>5, <2>1, PrefixQueue DEF ConnectionLost, Typed
  <2> QED
    BY <1>1, <2>2 DEF AnswersTell
<1>6. CASE UNCHANGED <<down, stray>>
  BY <1>1, <1>6 DEF AnswersTell
<1>7. QED
  BY <1>2, <1>3, <1>4, <1>5, <1>6
     DEF Next, WaitMasterchainSeqno, Query, LimiterGrants, ReadyTimeout, ReadyFails,
         CallService, CallTimeout, CallDropped, Cancel, WorkerSends, WorkerEndOfStream,
         ServerReceives, remote, vars

-----------------------------------------------------------------------------
\* The slot holds one request or none.
LEMMA SlotTags ==
  /\ Where(<<>>) = {}
  /\ \A r : Where(<<r>>) = {r.id}
  /\ \A q \in Seq(Requests) :
       q # <<>> /\ Len(q) <= 1 => q[1] \in Requests /\ Where(q) = {q[1].id}
<1>1. Where(<<>>) = {}
  BY DEF Where
<1>2. ASSUME NEW r PROVE Where(<<r>>) = {r.id}
  BY DEF Where
<1>3. ASSUME NEW q \in Seq(Requests), q # <<>>, Len(q) <= 1
      PROVE  q[1] \in Requests /\ Where(q) = {q[1].id}
  <2>1. Len(q) \in Nat \ {0}
    BY <1>3, EmptySeq
  <2>2. Len(q) = 1
    BY <1>3, <2>1
  <2> QED
    BY <1>3, <2>2 DEF Where
<1>4. QED
  BY <1>1, <1>2, <1>3

\* Where the tags are after the connection or the worker is gone: nowhere new.
LEMMA FewerTags ==
  ASSUME IInv, Typed',
         UNCHANGED <<issued, served>>, Before' => Before,
         Where(slot)' \subseteq Where(slot), pending' \subseteq pending,
         Where(up)' \subseteq Where(up), working' \subseteq working,
         Where(down)' \subseteq Where(down),
         DistinctIds(up)', DistinctIds(down)'
  PROVE  TagsMoveOn'
<1>1. TagsMoveOn
  BY DEF IInv
<1>2. Served' = Served
  BY DEF Served
<1>3. Handed' \subseteq Handed
  BY <1>2 DEF Handed
<1>4. Handed' \subseteq 1 .. issued' /\ (Before' => issued' \notin Handed')
  BY <1>1, <1>3 DEF TagsMoveOn
<1>5. /\ Where(slot)' \cap (pending' \cup Where(up)' \cup Served') = {}
      /\ Where(up)' \cap Served' = {}
      /\ working' \subseteq Served'
      /\ Where(down)' \ {None} \subseteq Served'
      /\ working' \cap Where(down)' = {}
  BY <1>1, <1>2 DEF TagsMoveOn
<1>6. (\A i, j \in 1 .. Len(served) : served[i] = served[j] => i = j)'
  BY <1>1 DEF TagsMoveOn
<1>7. QED
  BY <1>4, <1>5, <1>6 DEF TagsMoveOn

\* A tag moves on only: from the slot to the worker and the connection
\* (WorkerSends), to the service (ServerReceives), into an answer (ServerAnswers).
LEMMA NextTags == IInv /\ [Next]_vars /\ Typed' => TagsMoveOn'
<1> SUFFICES ASSUME IInv, [Next]_vars, Typed' PROVE TagsMoveOn'
  OBVIOUS
<1>1. Typed /\ TagsMoveOn /\ issued \in Nat
  BY SessionAssumption DEF IInv, Typed, TypeOK
<1>2. Handed \subseteq 1 .. issued /\ DistinctIds(up) /\ DistinctIds(down)
  BY <1>1 DEF TagsMoveOn
<1>3. CASE Query
  <2>1. UNCHANGED <<slot, pending, up, served, down, working>> /\ issued' = issued + 1
    BY <1>3 DEF Query, mux, remote
  <2>2. Handed' = Handed /\ Served' = Served
    BY <2>1 DEF Handed, Served, Where
  <2>3. Handed' \subseteq 1 .. issued' /\ issued' \notin Handed'
    BY <1>1, <1>2, <2>1, <2>2
  <2>4. /\ Where(up)' = Where(up) /\ Where(slot)' = Where(slot) /\ Where(down)' = Where(down)
        /\ DistinctIds(up)' /\ DistinctIds(down)'
    BY <1>2, <2>1 DEF Where, DistinctIds
  <2> QED
    BY <1>1, <2>1, <2>2, <2>3, <2>4 DEF TagsMoveOn
<1>4. CASE CallService
  <2>1. /\ Before /\ ~Before' /\ slot = <<>>
        /\ slot' = <<[id |-> issued, seqno |-> wait_seqno]>>
        /\ UNCHANGED <<pending, up, served, down, working, issued>>
    BY <1>4 DEF CallService, remote, Before
  <2>2. Where(slot) = {} /\ Where(slot)' = {issued}
    BY <2>1, SlotTags DEF Where
  <2>3. Where(up)' = Where(up) /\ Where(down)' = Where(down) /\ Served' = Served
    BY <2>1 DEF Where, Served
  <2>4. issued \notin Handed /\ Handed' = Handed \cup {issued} /\ issued \in 1 .. issued
    <3>1. issued \notin Handed
      BY <1>1, <2>1 DEF TagsMoveOn
    <3>2. Handed' = Handed \cup {issued}
      BY <2>1, <2>2, <2>3 DEF Handed
    <3>3. issued \in 1 .. issued
      BY <1>1, <2>1 DEF Before, Typed, TypeOK
    <3> QED
      BY <3>1, <3>2, <3>3
  <2>5. Where(slot)' \cap (pending' \cup Where(up)' \cup Served') = {}
    BY <2>1, <2>2, <2>3, <2>4 DEF Handed
  <2> QED
    BY <1>1, <2>1, <2>3, <2>4, <2>5 DEF TagsMoveOn, DistinctIds
<1>5. CASE WorkerSends
  <2>1. /\ slot # <<>> /\ slot' = <<>>
        /\ UNCHANGED <<pc, issued, served, down, working>>
    BY <1>5 DEF WorkerSends, client
  <2>2. slot[1] \in Requests /\ Where(slot) = {slot[1].id} /\ Where(slot)' = {}
    BY <1>1, <2>1, SlotTags DEF Typed, TypeOK, Where
  <2>3. Where(down)' = Where(down) /\ Served' = Served /\ (Before' = Before)
    BY <2>1 DEF Where, Served, Before
  <2>4. /\ slot[1].id \in Handed /\ slot[1].id \notin pending
        /\ slot[1].id \notin Where(up) /\ slot[1].id \notin Served
    BY <1>1, <2>2 DEF TagsMoveOn, Handed
  <2>5. /\ pending' \subseteq pending \cup {slot[1].id}
        /\ \/ up' = up
           \/ up' = Append(up, slot[1])
    BY <1>5 DEF WorkerSends
  <2>6. Where(up)' \subseteq Where(up) \cup {slot[1].id} /\ DistinctIds(up)'
    <3>1. CASE up' = up
      BY <1>2, <3>1 DEF DistinctIds, Where
    <3>2. CASE up' = Append(up, slot[1])
      <4>1. Where(Append(up, slot[1])) = Where(up) \cup {slot[1].id}
        BY <1>1, <2>2, AppendQueue DEF Typed
      <4>2. DistinctIds(Append(up, slot[1]))
        BY <1>1, <1>2, <2>2, <2>4, AppendDistinct DEF Typed
      <4> QED
        BY <3>2, <4>1, <4>2 DEF Where, DistinctIds
    <3> QED
      BY <2>5, <3>1, <3>2
  <2>7. Handed' \subseteq Handed
    BY <2>2, <2>3, <2>4, <2>5, <2>6 DEF Handed
  <2>8. Handed' \subseteq 1 .. issued' /\ (Before' => issued' \notin Handed')
    BY <1>1, <2>1, <2>3, <2>7 DEF TagsMoveOn
  <2>9. /\ Where(slot)' \cap (pending' \cup Where(up)' \cup Served') = {}
        /\ Where(up)' \cap Served' = {}
    BY <1>1, <2>2, <2>3, <2>4, <2>6 DEF TagsMoveOn
  <2> QED
    BY <1>1, <2>1, <2>3, <2>6, <2>8, <2>9 DEF TagsMoveOn, DistinctIds
<1>6. CASE WorkerMatches \/ WorkerDesynchronized
  <2>1. /\ down # <<>> /\ down' = Tail(down) /\ pending' \subseteq pending
        /\ slot' \in {slot, <<>>} /\ UNCHANGED <<issued, up, working, served>>
        /\ pc' \in {pc, "idle"}
    BY <1>6 DEF WorkerMatches, WorkerDesynchronized, client, Finish
  <2>2. Where(down)' \subseteq Where(down) /\ DistinctIds(down)'
    <3>1. Where(down) = {Head(down).id} \cup Where(Tail(down)) /\ DistinctIds(Tail(down))
      BY <1>1, <1>2, <2>1, TailQueue, TailDistinct DEF Typed
    <3> QED
      BY <2>1, <3>1 DEF Where, DistinctIds
  <2>3. Where(slot)' \subseteq Where(slot) /\ Where(up)' = Where(up) /\ DistinctIds(up)'
    BY <1>2, <2>1, SlotTags DEF Where, DistinctIds
  <2> QED
    BY <2>1, <2>2, <2>3, FewerTags DEF Before
<1>7. CASE WorkerEndOfStream
  <2>1. slot' = <<>> /\ pending' = {} /\ UNCHANGED <<pc, issued, up, down, working, served>>
    BY <1>7 DEF WorkerEndOfStream, client, remote
  <2>2. /\ Where(slot)' = {} /\ Where(up)' = Where(up) /\ Where(down)' = Where(down)
        /\ DistinctIds(up)' /\ DistinctIds(down)'
    BY <1>2, <2>1, SlotTags DEF Where, DistinctIds
  <2> QED
    BY <2>1, <2>2, FewerTags DEF Before
<1>8. CASE ConnectionLost
  <2>1. /\ up' = <<>> /\ working' = {} /\ UNCHANGED <<pc, issued, slot, pending, served>>
        /\ \E n \in 0 .. Len(down) : down' = SubSeq(down, 1, n)
    BY <1>8 DEF ConnectionLost, client, mux
  <2>2. PICK n \in 0 .. Len(down) : down' = SubSeq(down, 1, n)
    BY <2>1
  <2>3. /\ Len(down) \in Nat /\ Len(down') = n /\ \A i \in 1 .. n : down'[i] = down[i]
        /\ Where(SubSeq(down, 1, n)) \subseteq Where(down)
    BY <1>1, <2>2, PrefixQueue DEF Typed
  <2>4. Where(down)' \subseteq Where(down) /\ DistinctIds(down)'
    BY <1>2, <2>2, <2>3 DEF Where, DistinctIds
  <2>5. Where(slot)' = Where(slot) /\ Where(up)' = {} /\ DistinctIds(up)'
    BY <2>1, SlotTags DEF Where, DistinctIds
  <2> QED
    BY <2>1, <2>4, <2>5, FewerTags DEF Before
<1>9. CASE ServerReceives
  <2> DEFINE x == Head(up).id
  <2>1. /\ up # <<>> /\ up' = Tail(up) /\ working' = working \cup {x}
        /\ served' = Append(served, x)
        /\ UNCHANGED <<pc, issued, slot, pending, down>>
    BY <1>9 DEF ServerReceives, client, mux
  <2>2. /\ Where(up) = {x} \cup Where(Tail(up)) /\ Head(up) \in Requests
        /\ DistinctIds(Tail(up)) /\ (x # None => x \notin Where(Tail(up)))
    BY <1>1, <1>2, <2>1, TailQueue, TailDistinct DEF Typed
  <2>3. x \in Ids /\ x # None
    BY <2>2 DEF Requests, Ids, None
  <2> PICK y \in Ids : y = x
    BY <2>3
  <2>4. /\ Len(served) \in Nat /\ Len(served') = Len(served) + 1
        /\ served'[Len(served) + 1] = y
        /\ \A i \in 1 .. Len(served) : served'[i] = served[i]
    BY <1>1, <2>1 DEF Typed
  <2> HIDE DEF x
  <2>5. Served' = Served \cup {y}
    BY <2>4 DEF Served
  <2>6. y \notin Served /\ y \notin Where(slot) /\ y \in Handed
    BY <1>1, <2>2 DEF TagsMoveOn, Handed
  <2>7. /\ Where(up)' = Where(up) \ {y} /\ DistinctIds(up)'
        /\ Where(slot)' = Where(slot) /\ Where(down)' = Where(down) /\ DistinctIds(down)'
    BY <1>2, <2>1, <2>2, <2>3 DEF Where, DistinctIds
  <2>8. Handed' = Handed
    BY <2>1, <2>5, <2>6, <2>7 DEF Handed
  <2>9. \A i \in 1 .. Len(served) : served[i] # y
    BY <2>6 DEF Served
  <2>10. (\A i, j \in 1 .. Len(served) : served[i] = served[j] => i = j)'
    BY <1>1, <2>4, <2>9 DEF TagsMoveOn
  <2>11. y \notin Where(down)
    BY <1>1, <2>3, <2>6 DEF TagsMoveOn
  <2>12. /\ Where(slot)' \cap (pending' \cup Where(up)' \cup Served') = {}
         /\ Where(up)' \cap Served' = {}
         /\ working' \subseteq Served'
         /\ Where(down)' \ {None} \subseteq Served'
         /\ working' \cap Where(down)' = {}
    BY <1>1, <2>1, <2>5, <2>6, <2>7, <2>11 DEF TagsMoveOn
  <2>13. Handed' \subseteq 1 .. issued' /\ (Before' => issued' \notin Handed')
    BY <1>1, <2>1, <2>8 DEF TagsMoveOn, Before
  <2> QED
    BY <2>7, <2>10, <2>12, <2>13 DEF TagsMoveOn
<1>10. ASSUME NEW m \in Messages, down' = Append(down, m),
              m.id # None => m.id \in working,
              working' = working \ {m.id},
              UNCHANGED <<pc, issued, slot, pending, up, served>>
       PROVE  TagsMoveOn'
  <2>1. m.id \notin Where(down) \/ m.id = None
    BY <1>1, <1>10 DEF TagsMoveOn
  <2>2. Where(down)' = Where(down) \cup {m.id} /\ DistinctIds(down)'
    <3>1. Where(Append(down, m)) = Where(down) \cup {m.id} /\ DistinctIds(Append(down, m))
      BY <1>1, <1>2, <2>1, AppendQueue, AppendDistinct DEF Typed
    <3> QED
      BY <1>10, <3>1 DEF Where, DistinctIds
  <2>3. /\ Where(up)' = Where(up) /\ Where(slot)' = Where(slot) /\ Served' = Served
        /\ DistinctIds(up)' /\ Before' = Before
    BY <1>2, <1>10 DEF Where, Served, DistinctIds, Before
  <2>4. Handed' = Handed
    BY <1>10, <2>3 DEF Handed
  <2>5. /\ working' \subseteq Served' /\ Where(down)' \ {None} \subseteq Served'
        /\ working' \cap Where(down)' = {}
    BY <1>1, <1>10, <2>2, <2>3 DEF TagsMoveOn
  <2> QED
    BY <1>1, <1>10, <2>2, <2>3, <2>4, <2>5 DEF TagsMoveOn
<1>11. CASE ServerStray
  <2>0. [id |-> None, payload |-> "ok"] \in Messages
    BY SessionAssumption DEF Messages, None
  <2>1. PICK m \in Messages : m = [id |-> None, payload |-> "ok"]
    BY <2>0
  <2>2. m.id = None /\ None \notin working
    BY <1>1, <2>1 DEF Typed, Ids, None
  <2> QED
    BY <1>10, <1>11, <2>1, <2>2 DEF ServerStray, client, mux
<1>12. ASSUME NEW id \in Ids, NEW payload \in Payloads, ServerAnswers(id, payload)
       PROVE  TagsMoveOn'
  <2>1. [id |-> id, payload |-> payload] \in Messages
    BY SessionAssumption DEF Messages, Ids
  <2>2. PICK m \in Messages : m = [id |-> id, payload |-> payload]
    BY <2>1
  <2> QED
    BY <1>10, <1>12, <2>2 DEF ServerAnswers, client, mux
<1>13. CASE UNCHANGED <<issued, mux, remote>> /\ (Before' => Before)
  <2>1. UNCHANGED <<slot, pending, up, down, working, served, issued>>
    BY <1>13 DEF mux, remote
  <2>2. /\ Where(up)' = Where(up) /\ Where(slot)' = Where(slot) /\ Where(down)' = Where(down)
        /\ DistinctIds(up)' /\ DistinctIds(down)'
    BY <1>2, <2>1 DEF Where, DistinctIds
  <2> QED
    BY <1>13, <2>1, <2>2, FewerTags
<1>14. CASE Fails
  <2>1. UNCHANGED <<issued, mux, remote>> /\ pc' = "idle"
    BY <1>14, FailsShape DEF FailsWith, Finish
  <2> QED
    BY <1>13, <2>1 DEF Before
<1>15. CASE LimiterGrants \/ WaitMasterchainSeqno \/ UNCHANGED vars
  <2>1. UNCHANGED <<issued, mux, remote>> /\ (Before' => Before)
    BY <1>15 DEF LimiterGrants, WaitMasterchainSeqno, vars, client, Before
  <2> QED
    BY <1>13, <2>1
<1>16. QED
  BY <1>3, <1>4, <1>5, <1>6, <1>7, <1>8, <1>9, <1>11, <1>12, <1>14, <1>15 DEF Next, Fails

-----------------------------------------------------------------------------
\* The messages in a queue that have a tag.
Tagged(q) == {i \in 1 .. Len(q) : q[i].id # None}

\* There are finitely many.
LEMMA TaggedFinite ==
  ASSUME NEW S, NEW q \in Seq(S)
  PROVE  IsFiniteSet(Tagged(q)) /\ Cardinality(Tagged(q)) \in Nat
<1>1. Len(q) \in Nat
  OBVIOUS
<1>2. IsFiniteSet(1 .. Len(q))
  BY <1>1, FS_Interval
<1>3. Tagged(q) \in SUBSET (1 .. Len(q))
  BY DEF Tagged
<1>4. IsFiniteSet(Tagged(q))
  BY <1>2, <1>3, FS_Subset
<1>5. QED
  BY <1>4, FS_CardinalityType

\* A message more.
LEMMA AppendTagged ==
  ASSUME NEW S, NEW q \in Seq(S), NEW e \in S
  PROVE  /\ Cardinality(Tagged(q)) \in Nat
         /\ Cardinality(Tagged(Append(q, e))) =
              Cardinality(Tagged(q)) + (IF e.id = None THEN 0 ELSE 1)
<1>1. Len(q) \in Nat
  OBVIOUS
<1>2. IsFiniteSet(Tagged(q)) /\ Cardinality(Tagged(q)) \in Nat
  BY TaggedFinite
<1>3. Len(q) + 1 \notin Tagged(q)
  BY <1>1 DEF Tagged
<1>4. CASE e.id = None
  <2>1. Tagged(Append(q, e)) = Tagged(q)
    BY <1>4, AppendQueue DEF Tagged
  <2> QED
    BY <1>2, <1>4, <2>1
<1>5. CASE e.id # None
  <2>1. Tagged(Append(q, e)) = Tagged(q) \cup {Len(q) + 1}
    BY <1>5, AppendQueue DEF Tagged
  <2> QED
    BY <1>2, <1>3, <1>5, <2>1, FS_AddElement
<1>6. QED
  BY <1>2, <1>4, <1>5

\* A message less: the others move up by one place.
LEMMA TailTagged ==
  ASSUME NEW S, NEW q \in Seq(S), q # <<>>
  PROVE  /\ Cardinality(Tagged(q)) \in Nat
         /\ Cardinality(Tagged(Tail(q))) =
              Cardinality(Tagged(q)) - (IF Head(q).id = None THEN 0 ELSE 1)
<1>1. /\ Len(q) \in Nat /\ Len(q) > 0 /\ Len(Tail(q)) = Len(q) - 1 /\ Head(q) = q[1]
      /\ \A i \in 1 .. Len(q) - 1 : Tail(q)[i] = q[i + 1]
  BY TailQueue
<1>2. IsFiniteSet(Tagged(q)) /\ Cardinality(Tagged(q)) \in Nat
  BY TaggedFinite
<1>3. IsFiniteSet(Tagged(Tail(q)))
  BY TailQueue, TaggedFinite
<1> DEFINE T == Tagged(Tail(q))
           U == Tagged(q) \ {1}
           f == [i \in T |-> i + 1]
<1>4. /\ \A i \in T : i \in Nat /\ i + 1 \in U
      /\ \A j \in U : j - 1 \in T /\ j \in Nat
  <2>1. ASSUME NEW i \in T PROVE i \in Nat /\ i + 1 \in U
    BY <1>1, <2>1 DEF Tagged
  <2>2. ASSUME NEW j \in U PROVE j - 1 \in T /\ j \in Nat
    <3>1. j \in 2 .. Len(q) /\ q[j].id # None
      BY <1>1, <2>2 DEF Tagged
    <3>2. j - 1 \in 1 .. Len(q) - 1 /\ Tail(q)[j - 1] = q[j]
      BY <1>1, <3>1
    <3> QED
      BY <1>1, <3>1, <3>2 DEF Tagged
  <2> QED
    BY <2>1, <2>2
<1> HIDE DEF T, U
<1>5. f \in Bijection(T, U)
  <2>1. f \in [T -> U]
    BY <1>4
  <2>2. \A a, b \in T : f[a] = f[b] => a = b
    BY <1>4
  <2>3. \A j \in U : \E i \in T : f[i] = j
    <3> TAKE j \in U
    <3>1. j - 1 \in T /\ f[j - 1] = j
      BY <1>4
    <3> QED
      BY <3>1
  <2> QED
    BY <2>1, <2>2, <2>3 DEF Bijection, Injection, Surjection, IsInjective
<1>6. ExistsBijection(T, U)
  BY <1>5 DEF ExistsBijection
<1>7. Cardinality(U) = Cardinality(T)
  BY <1>3, <1>6, FS_Bijection DEF T
<1>8. Cardinality(U) = Cardinality(Tagged(q)) - (IF Head(q).id = None THEN 0 ELSE 1)
  <2>1. 1 \in Tagged(q) <=> Head(q).id # None
    BY <1>1 DEF Tagged
  <2>2. Cardinality(U) = IF 1 \in Tagged(q) THEN Cardinality(Tagged(q)) - 1
                                           ELSE Cardinality(Tagged(q))
    BY <1>2, FS_RemoveElement DEF U
  <2> QED
    BY <1>2, <2>1, <2>2
<1>9. QED
  BY <1>2, <1>7, <1>8 DEF T

\* A set of tags is finite.
LEMMA FiniteTags ==
  ASSUME NEW n \in Nat, NEW T \in SUBSET (1 .. n)
  PROVE  IsFiniteSet(T) /\ Cardinality(T) \in Nat
<1>1. IsFiniteSet(1 .. n)
  BY FS_Interval
<1>2. IsFiniteSet(T)
  BY <1>1, FS_Subset
<1>3. QED
  BY <1>2, FS_CardinalityType

\* The two halves of TagsAccountedFor.
EndsForAReason == worker = "dead" => server = "closed" \/ stray
BothUp == worker = "up" /\ server = "up"
Accounted ==
  /\ pending = Where(up) \cup working \cup (Where(down) \ {None})
  /\ Cardinality(pending) = Len(up) + Cardinality(working) + Cardinality(Tagged(down))

\* Together they are TagsAccountedFor.
LEMMA TagsSplit == TagsAccountedFor <=> EndsForAReason /\ (BothUp => Accounted)
BY DEF TagsAccountedFor, EndsForAReason, BothUp, Accounted, Tagged

\* The worker ends when the connection is gone, or at an answer to nothing: while
\* both ends are up every tag that is answered waits (WorkerDesynchronized).
LEMMA NextEnds == IInv /\ [Next]_vars => EndsForAReason'
<1> SUFFICES ASSUME IInv, [Next]_vars PROVE EndsForAReason'
  OBVIOUS
<1>1. Typed /\ EndsForAReason /\ (BothUp => Accounted) /\ AnswersTell
  BY TagsSplit DEF IInv
<1>2. worker \in {"up", "dead"} /\ server \in {"up", "closed"}
  BY <1>1 DEF Typed, TypeOK
<1>3. CASE WorkerDesynchronized
  <2>1. /\ worker = "up" /\ down # <<>> /\ Head(down).id \notin pending
        /\ UNCHANGED <<server, stray>>
    BY <1>3 DEF WorkerDesynchronized, finish_tag
  <2>2. CASE server = "closed"
    BY <2>1, <2>2 DEF EndsForAReason
  <2>3. CASE server = "up"
    <3>1. /\ Where(down) = {Head(down).id} \cup Where(Tail(down))
          /\ 1 \in 1 .. Len(down) /\ Head(down) = down[1]
      BY <1>1, <2>1, TailQueue DEF Typed
    <3>2. Head(down).id = None
      BY <1>1, <2>1, <2>3, <3>1 DEF BothUp, Accounted
    <3>3. stray
      BY <1>1, <3>1, <3>2 DEF AnswersTell
    <3> QED
      BY <2>1, <3>3 DEF EndsForAReason
  <2> QED
    BY <1>2, <2>2, <2>3
<1>4. CASE WorkerSends \/ WorkerEndOfStream
  <2>1. (worker' = worker \/ server = "closed") /\ UNCHANGED <<server, stray>>
    BY <1>4 DEF WorkerSends, WorkerEndOfStream, remote
  <2> QED
    BY <1>1, <2>1 DEF EndsForAReason
<1>5. CASE ServerStray \/ ConnectionLost
  <2>1. worker' = worker /\ (stray' \/ server' = "closed")
    BY <1>5 DEF ServerStray, ConnectionLost, mux
  <2> QED
    BY <2>1 DEF EndsForAReason
<1>6. CASE UNCHANGED <<worker, server, stray>>
  BY <1>1, <1>6 DEF EndsForAReason
<1>7. QED
  BY <1>3, <1>4, <1>5, <1>6
     DEF Next, WaitMasterchainSeqno, Query, LimiterGrants, ReadyTimeout, ReadyFails,
         CallService, CallTimeout, CallDropped, Cancel, WorkerMatches, ServerReceives,
         ServerAnswers, mux, remote, vars

\* While both ends are up every step moves a tag or leaves it: nothing is counted
\* twice, and nothing that waits is lost.
LEMMA NextAccounted == IInv /\ [Next]_vars => (BothUp => Accounted)'
<1> SUFFICES ASSUME IInv, [Next]_vars, BothUp' PROVE Accounted'
  OBVIOUS
<1>1. Typed /\ TagsMoveOn /\ (BothUp => Accounted) /\ issued \in Nat
  BY TagsSplit, SessionAssumption DEF IInv, Typed, TypeOK
<1>2. BothUp
  BY DEF BothUp, Next, WaitMasterchainSeqno, Query, LimiterGrants, ReadyTimeout, ReadyFails,
         CallService, CallTimeout, CallDropped, Cancel, WorkerSends, WorkerMatches,
         WorkerDesynchronized, WorkerEndOfStream, ServerReceives, ServerStray,
         ServerAnswers, ConnectionLost, mux, remote, vars
<1>3. Accounted
  BY <1>1, <1>2
<1>4. IsFiniteSet(pending) /\ Cardinality(pending) \in Nat
  BY <1>1, FiniteTags DEF Typed, TypeOK
<1>5. IsFiniteSet(working) /\ Cardinality(working) \in Nat
  BY <1>1, FiniteTags, SessionAssumption DEF Typed, Ids
<1>6. Cardinality(Tagged(down)) \in Nat /\ Len(up) \in Nat
  BY <1>1, TaggedFinite DEF Typed
<1>7. CASE WorkerSends
  <2>1. /\ slot # <<>> /\ pending' = pending \cup {slot[1].id} /\ up' = Append(up, slot[1])
        /\ UNCHANGED <<working, down>>
    BY <1>2, <1>7 DEF WorkerSends, BothUp
  <2>2. slot[1] \in Requests /\ Where(slot) = {slot[1].id}
    BY <1>1, <2>1, SlotTags DEF Typed, TypeOK
  <2>3. slot[1].id \notin pending
    BY <1>1, <2>2 DEF TagsMoveOn
  <2>4. Len(up') = Len(up) + 1 /\ Where(Append(up, slot[1])) = Where(up) \cup {slot[1].id}
    BY <1>1, <2>1, <2>2, AppendQueue DEF Typed
  <2>5. Cardinality(pending') = Cardinality(pending) + 1
    BY <1>4, <2>1, <2>3, FS_AddElement
  <2>6. Where(up)' = Where(up) \cup {slot[1].id}
    BY <2>1, <2>4 DEF Where
  <2>7. Where(down)' = Where(down) /\ Tagged(down)' = Tagged(down)
    BY <2>1 DEF Where, Tagged
  <2>8. pending' = Where(up)' \cup working' \cup (Where(down)' \ {None})
    BY <1>3, <2>1, <2>6, <2>7 DEF Accounted
  <2> QED
    BY <1>3, <1>4, <1>5, <1>6, <2>1, <2>4, <2>5, <2>7, <2>8 DEF Accounted
<1>8. CASE WorkerMatches
  <2> DEFINE x == Head(down).id
  <2>1. /\ down # <<>> /\ x \in pending /\ pending' = pending \ {x} /\ down' = Tail(down)
        /\ UNCHANGED <<up, working>>
    BY <1>8 DEF WorkerMatches, finish_tag
  <2>2. x # None
    BY <1>1, <2>1 DEF Typed, TypeOK, None
  <2>3. /\ Where(down) = {x} \cup Where(Tail(down)) /\ x \notin Where(Tail(down))
    BY <1>1, <2>1, <2>2, TailQueue, TailDistinct DEF Typed, TagsMoveOn
  <2>4. x \notin working /\ x \in Served /\ x \notin Where(up)
    BY <1>1, <2>2, <2>3 DEF TagsMoveOn
  <2>5. Where(down)' = Where(Tail(down)) /\ Where(up)' = Where(up)
        /\ Tagged(down)' = Tagged(Tail(down))
    BY <2>1 DEF Where, Tagged
  <2>6. Cardinality(Tagged(Tail(down))) = Cardinality(Tagged(down)) - 1
    BY <1>1, <1>6, <2>1, <2>2, TailTagged DEF Typed
  <2>7. Cardinality(pending') = Cardinality(pending) - 1
    BY <1>4, <2>1, FS_RemoveElement
  <2>8. pending' = Where(up)' \cup working' \cup (Where(down)' \ {None})
    BY <1>3, <2>1, <2>3, <2>4, <2>5 DEF Accounted
  <2> QED
    BY <1>3, <1>4, <1>5, <1>6, <2>1, <2>5, <2>6, <2>7, <2>8 DEF Accounted
<1>9. CASE ServerReceives
  <2> DEFINE x == Head(up).id
  <2>1. /\ up # <<>> /\ up' = Tail(up) /\ working' = working \cup {x}
        /\ UNCHANGED <<pending, down>>
    BY <1>9 DEF ServerReceives, mux
  <2>2. Where(up) = {x} \cup Where(Tail(up)) /\ Len(up') = Len(up) - 1
    BY <1>1, <2>1, TailQueue DEF Typed
  <2>3. x \notin working
    BY <1>1, <2>2 DEF TagsMoveOn
  <2>4. Cardinality(working') = Cardinality(working) + 1
    BY <1>5, <2>1, <2>3, FS_AddElement
  <2>5. Where(up)' = Where(Tail(up)) /\ Where(down)' = Where(down) /\ Tagged(down)' = Tagged(down)
    BY <2>1 DEF Where, Tagged
  <2>6. pending' = Where(up)' \cup working' \cup (Where(down)' \ {None})
    BY <1>3, <2>1, <2>2, <2>5 DEF Accounted
  <2> QED
    BY <1>3, <1>4, <1>5, <1>6, <2>1, <2>2, <2>4, <2>5, <2>6 DEF Accounted
<1>10. ASSUME NEW id \in Ids, NEW payload \in Payloads, ServerAnswers(id, payload)
       PROVE  Accounted'
  <2>1. [id |-> id, payload |-> payload] \in Messages /\ id # None
    BY SessionAssumption DEF Messages, Ids, None
  <2>2. PICK m \in Messages : m = [id |-> id, payload |-> payload] /\ m.id = id
    BY <2>1
  <2>3. /\ id \in working /\ working' = working \ {id} /\ down' = Append(down, m)
        /\ UNCHANGED <<pending, up>>
    BY <1>10, <2>2 DEF ServerAnswers, mux
  <2>4. /\ Where(Append(down, m)) = Where(down) \cup {id}
        /\ Cardinality(Tagged(Append(down, m))) = Cardinality(Tagged(down)) + 1
    BY <1>1, <1>6, <2>1, <2>2, AppendQueue, AppendTagged DEF Typed
  <2>5. Cardinality(working') = Cardinality(working) - 1
    BY <1>5, <2>3, FS_RemoveElement
  <2>6. /\ Where(up)' = Where(up) /\ Where(down)' = Where(Append(down, m))
        /\ Tagged(down)' = Tagged(Append(down, m))
    BY <2>3 DEF Where, Tagged
  <2>7. pending' = Where(up)' \cup working' \cup (Where(down)' \ {None})
    BY <1>3, <2>1, <2>3, <2>4, <2>6 DEF Accounted
  <2> QED
    BY <1>3, <1>4, <1>5, <1>6, <2>3, <2>4, <2>5, <2>6, <2>7 DEF Accounted
<1>11. CASE ServerStray
  <2>1. [id |-> None, payload |-> "ok"] \in Messages
    BY SessionAssumption DEF Messages, None
  <2>2. PICK m \in Messages : m = [id |-> None, payload |-> "ok"] /\ m.id = None
    BY <2>1
  <2>3. down' = Append(down, m) /\ UNCHANGED <<pending, up, working>>
    BY <1>11, <2>2 DEF ServerStray, mux
  <2>4. /\ Where(Append(down, m)) = Where(down) \cup {None}
        /\ Cardinality(Tagged(Append(down, m))) = Cardinality(Tagged(down))
    BY <1>1, <1>6, <2>2, AppendQueue, AppendTagged DEF Typed
  <2>5. /\ Where(up)' = Where(up) /\ Where(down)' = Where(Append(down, m))
        /\ Tagged(down)' = Tagged(Append(down, m))
    BY <2>3 DEF Where, Tagged
  <2>6. pending' = Where(up)' \cup working' \cup (Where(down)' \ {None})
    BY <1>3, <2>3, <2>4, <2>5 DEF Accounted
  <2> QED
    BY <1>3, <2>3, <2>4, <2>5, <2>6 DEF Accounted
<1>12. CASE UNCHANGED <<pending, up, down, working>>
  BY <1>3, <1>12 DEF Accounted, Where, Tagged
<1>13. ~WorkerDesynchronized /\ ~WorkerEndOfStream /\ ~ConnectionLost
  BY DEF BothUp, WorkerDesynchronized, WorkerEndOfStream, ConnectionLost
<1>14. QED
  BY <1>7, <1>8, <1>9, <1>10, <1>11, <1>12, <1>13
     DEF Next, WaitMasterchainSeqno, Query, LimiterGrants, ReadyTimeout, ReadyFails,
         CallService, CallTimeout, CallDropped, Cancel, mux, remote, vars

\* Every step of the client, the worker, the server and the network preserves the
\* invariant.
THEOREM NextIInv == IInv /\ [Next]_vars => IInv'
<1> SUFFICES ASSUME IInv, [Next]_vars PROVE IInv'
  OBVIOUS
<1>1. Typed' /\ ResultsTell' /\ PrefixMoves' /\ AnswersTell'
  BY NextTyped, NextResults, NextPrefix, NextAnswers
<1>2. TagsMoveOn'
  BY <1>1, NextTags
<1>3. TagsAccountedFor'
  <2>1. EndsForAReason' /\ (BothUp => Accounted)'
    BY NextEnds, NextAccounted
  <2> QED
    BY <2>1 DEF TagsAccountedFor, EndsForAReason, BothUp, Accounted, Tagged
<1>4. QED
  BY <1>1, <1>2, <1>3 DEF IInv

\* The invariant holds in every state of a session.
THEOREM Inductive == Spec => []IInv
BY InitIInv, NextIInv, PTL DEF Spec

-----------------------------------------------------------------------------
\* The state of client, worker and messages keeps its type.
THEOREM TypeCorrect == Spec => []TypeOK
<1>1. IInv => TypeOK
  BY DEF IInv, Typed
<1>2. QED
  BY <1>1, Inductive, PTL

\* No query returns the answer to another one, whatever the connection delivers
\* while it waits (assign_tag, finish_tag).
THEOREM OwnAnswer == Spec => []AnswerMatchesQuery
<1>1. IInv => AnswerMatchesQuery
  BY DEF IInv, ResultsTell, AnswerMatchesQuery, NoResult
<1>2. QED
  BY <1>1, Inductive, PTL

\* The prefix of wait_masterchain_seqno goes out with exactly one request, and is
\* lost by no cancelled, failed or timed-out query (query_raw).
THEOREM PrefixOnce == Spec => []PrefixConserved
<1>1. IInv => PrefixConserved
  <2> SUFFICES ASSUME IInv, NEW n \in 1 .. armed
               PROVE  LET carriers == {id \in Ids : carried[id] = n}
                      IN  /\ Cardinality(carriers) + (IF wait_seqno = n THEN 1 ELSE 0) <= 1
                          /\ n = armed => (carriers = {} => wait_seqno = n)
    BY DEF PrefixConserved
  <2> DEFINE carriers == {id \in Ids : carried[id] = n}
  <2>1. n # None /\ PrefixMoves
    BY DEF IInv, None
  <2>2. carriers = {} \/ \E id : carriers = {id} /\ wait_seqno # n
    <3>1. ASSUME NEW id \in carriers PROVE carriers = {id} /\ wait_seqno # n
      BY <2>1, <3>1 DEF PrefixMoves
    <3> QED
      BY <3>1
  <2>3. Cardinality(carriers) + (IF wait_seqno = n THEN 1 ELSE 0) <= 1
    <3>1. CASE carriers = {}
      <4>1. Cardinality(carriers) = 0
        BY <3>1, FS_EmptySet
      <4> HIDE DEF carriers
      <4> QED
        BY <4>1
    <3>2. CASE \E id : carriers = {id} /\ wait_seqno # n
      <4>1. Cardinality(carriers) = 1 /\ wait_seqno # n
        BY <3>2, FS_Singleton
      <4> HIDE DEF carriers
      <4> QED
        BY <4>1
    <3> QED
      BY <2>2, <3>1, <3>2
  <2>4. n = armed => (carriers = {} => wait_seqno = n)
    BY <2>1 DEF PrefixMoves
  <2> QED
    BY <2>3, <2>4
<1>2. QED
  BY <1>1, Inductive, PTL

\* While both ends are up every tag that waits is in exactly one place, and only
\* the connection or a message that answers nothing ends the worker.
THEOREM TagsAccounted == Spec => []TagsAccountedFor
<1>1. IInv => TagsAccountedFor
  BY DEF IInv
<1>2. QED
  BY <1>1, Inductive, PTL

-----------------------------------------------------------------------------
\* The refinement of RemoteCall.

\* What a caller has got, in the terms of RemoteCall.
LEMMA OutcomeTells ==
  ASSUME IInv, NEW id \in Ids
  PROVE  /\ ~Ended(id) => Outcome(id) = "none" /\ got[id].payload = "none"
         /\ Ended(id) => Outcome(id) = IF got[id].of = id THEN "answer" ELSE "failure"
<1>1. CASE ~Ended(id)
  <2>1. got[id] = NoResult
    BY <1>1 DEF IInv, ResultsTell
  <2>2. got[id].kind = "none" /\ got[id].payload = "none"
    BY <2>1 DEF NoResult
  <2> QED
    BY <1>1, <2>2 DEF Outcome
<1>2. CASE Ended(id)
  <2>1. got[id].kind # "none" /\ got[id].of \in {None, id} /\ None # id
    BY <1>2 DEF IInv, ResultsTell, Ids, None
  <2>2. CASE got[id].of = id
    <3>1. Outcome(id) = "answer"
      BY <2>1, <2>2 DEF Outcome
    <3> QED
      BY <1>2, <2>2, <3>1
  <2>3. CASE got[id].of # id
    <3>1. Outcome(id) = "failure"
      BY <2>1, <2>3 DEF Outcome
    <3> QED
      BY <1>2, <2>3, <3>1
  <2> QED
    BY <2>2, <2>3
<1>3. QED
  BY <1>1, <1>2

\* The variables of RemoteCall as functions of those of the session.
Returned == [id \in Ids |-> Outcome(id)]
Value == [id \in Ids |-> got[id].payload]

\* A result changes one query's outcome, from none.
LEMMA OutcomeStep ==
  ASSUME IInv, IInv', pc # "idle", NEW r \in Results, Finish(r), issued' = issued
  PROVE  /\ issued \in Ids /\ Returned[issued] = "none"
         /\ Returned' = [Returned EXCEPT ![issued] = IF r.of = issued THEN "answer"
                                                     ELSE "failure"]
         /\ Value' = [Value EXCEPT ![issued] = r.payload]
         /\ Value[issued] = "none"
<1>1. /\ issued \in Ids /\ got'[issued] = r /\ pc' = "idle"
      /\ \A id \in Ids : id # issued => got'[id] = got[id]
  BY FinishStores DEF IInv
<1>2. ~Ended(issued)
  BY <1>1 DEF Ended, Ids
<1>3. Returned[issued] = "none" /\ Value[issued] = "none"
  BY <1>1, <1>2, OutcomeTells DEF Returned, Value
<1>4. ASSUME NEW id \in Ids, id # issued PROVE Outcome(id)' = Outcome(id)
  <2>1. got'[id] = got[id]
    BY <1>1, <1>4
  <2>2. CASE got[id].kind = "none"
    BY <2>1, <2>2 DEF Outcome
  <2>3. CASE got[id].kind # "none" /\ got[id].of = id
    BY <2>1, <2>3 DEF Outcome, Ids, None
  <2>4. CASE got[id].kind # "none" /\ got[id].of = None
    BY <2>1, <2>4 DEF Outcome, Ids, None
  <2> QED
    BY <2>2, <2>3, <2>4 DEF IInv, ResultsTell, NoResult
<1>5. Outcome(issued)' = IF r.of = issued THEN "answer" ELSE "failure"
  <2>1. r.kind # "none" /\ r.of \in {None, issued} /\ None # issued
    <3>1. Ended(issued)'
      BY <1>1 DEF Ended
    <3>2. issued' \in Ids /\ got'[issued'] = r /\ issued' = issued
      BY <1>1
    <3>3. got'[issued].kind # "none" /\ got'[issued].of \in {None, issued}
      BY <3>1, <3>2 DEF IInv, ResultsTell, Ended
    <3> QED
      BY <1>1, <3>3 DEF Ids, None
  <2>2. Outcome(issued)' =
          IF r.kind = "none" THEN "none"
          ELSE CASE r.of = issued -> "answer"
                 [] r.of = None -> "failure"
                 [] OTHER -> "answer to another query"
    BY <1>1 DEF Outcome
  <2>3. CASE r.of = issued
    BY <2>1, <2>2, <2>3
  <2>4. CASE r.of # issued
    BY <2>1, <2>2, <2>4
  <2> QED
    BY <2>3, <2>4
<1>6. Returned' = [Returned EXCEPT ![issued] = IF r.of = issued THEN "answer" ELSE "failure"]
  <2>1. Returned' = [id \in Ids |-> Outcome(id)']
    BY DEF Returned
  <2> QED
    BY <1>1, <1>4, <1>5, <2>1 DEF Returned
<1>7. Value' = [Value EXCEPT ![issued] = r.payload]
  BY <1>1 DEF Value
<1>8. QED
  BY <1>1, <1>3, <1>6, <1>7

\* RemoteCall's steps, written with these functions.
LEMMA RemoteSteps ==
  /\ (/\ issued + 1 \in Ids /\ (issued > 0 => Returned[issued] # "none")
      /\ issued' = issued + 1 /\ UNCHANGED <<Returned, served, Value>>) => RC!Next
  /\ (/\ issued > 0 /\ Returned[issued] = "none"
      /\ Returned' = [Returned EXCEPT ![issued] = "failure"]
      /\ UNCHANGED <<issued, served, Value>>) => RC!Next
  /\ \A payload \in Payloads :
       (/\ \E i \in 1 .. Len(served) : served[i] = issued
        /\ Returned[issued] = "none"
        /\ Returned' = [Returned EXCEPT ![issued] = "answer"]
        /\ Value' = [Value EXCEPT ![issued] = payload]
        /\ UNCHANGED <<issued, served>>) => RC!Next
  /\ \A id \in Ids :
       (/\ id \in 1 .. issued /\ ~(\E i \in 1 .. Len(served) : served[i] = id)
        /\ served' = Append(served, id)
        /\ UNCHANGED <<issued, Returned, Value>>) => RC!Next
  /\ UNCHANGED <<issued, Returned, served, Value>> => UNCHANGED RC!vars
BY DEF Returned, Value, RC!Next, RC!Issue, RC!ReturnFailure, RC!ReturnAnswer, RC!Execute,
       RC!Executed, RC!vars

\* Every step of a session is a step of RemoteCall, or none.
LEMMA NextRefines == IInv /\ IInv' /\ [Next]_vars => [RC!Next]_RC!vars
<1> SUFFICES ASSUME IInv, IInv', [Next]_vars PROVE RC!Next \/ UNCHANGED RC!vars
  OBVIOUS
<1>1. Typed /\ ResultsTell /\ TagsMoveOn /\ AnswersTell /\ issued \in Nat
  BY SessionAssumption DEF IInv, Typed, TypeOK
<1>2. UNCHANGED got => UNCHANGED <<Returned, Value>>
  BY DEF Returned, Value, Outcome
<1>3. CASE Query
  <2>1. /\ pc = "idle" /\ issued < MaxQueries /\ issued' = issued + 1
        /\ UNCHANGED <<got, served>>
    BY <1>3 DEF Query, remote
  <2>2. issued + 1 \in Ids
    BY <1>1, <2>1, SessionAssumption DEF Ids
  <2>3. ASSUME issued > 0 PROVE Returned[issued] # "none"
    <3>1. issued \in Ids
      BY <1>1, <2>1, <2>3, SessionAssumption DEF Ids
    <3>2. Ended(issued)
      BY <2>1 DEF Ended
    <3>3. Outcome(issued) # "none"
      BY <3>1, <3>2, OutcomeTells
    <3> QED
      BY <3>1, <3>3 DEF Returned
  <2> QED
    BY <1>2, <2>1, <2>2, <2>3, RemoteSteps
<1>4. CASE Fails
  <2>1. PICK kind \in {"Timeout", "UnknownError", "dropped"} : FailsWith(kind)
    BY <1>4, FailsShape
  <2>2. /\ pc # "idle" /\ Finish(Failure(kind)) /\ UNCHANGED <<issued, served>>
        /\ Failure(kind) \in Results /\ Failure(kind).of = None
        /\ Failure(kind).payload = "none"
    BY <2>1, ResultTypes DEF FailsWith, remote
  <2>3. /\ issued \in Ids /\ Returned[issued] = "none"
        /\ Returned' = [Returned EXCEPT ![issued] = IF Failure(kind).of = issued
                                                    THEN "answer" ELSE "failure"]
        /\ Value' = [Value EXCEPT ![issued] = Failure(kind).payload]
        /\ Value[issued] = "none"
    BY <2>2, OutcomeStep
  <2>4. issued > 0 /\ Failure(kind).of # issued
    BY <2>2, <2>3 DEF Ids, None
  <2>5. Value' = Value
    BY <2>2, <2>3 DEF Value
  <2> QED
    BY <2>2, <2>3, <2>4, <2>5, RemoteSteps
<1>5. CASE WorkerMatches
  <2>1. CASE pc = "waiting" /\ finish_tag(Head(down)) = issued
    <3>1. /\ down # <<>> /\ Finish(Response(Head(down))) /\ UNCHANGED <<issued, served>>
          /\ Head(down).id = issued /\ pc # "idle"
      BY <1>5, <2>1 DEF WorkerMatches, finish_tag
    <3>2. /\ Head(down) \in Messages /\ Head(down) = down[1] /\ 1 \in 1 .. Len(down)
          /\ Head(down).id \in Where(down)
      BY <1>1, <3>1, TailQueue DEF Typed
    <3>3. /\ Response(Head(down)) \in Results /\ Response(Head(down)).of = issued
          /\ Response(Head(down)).payload = Head(down).payload
      BY <3>1, <3>2, ResultTypes
    <3>4. /\ issued \in Ids /\ Returned[issued] = "none"
          /\ Returned' = [Returned EXCEPT ![issued] = "answer"]
          /\ Value' = [Value EXCEPT ![issued] = Head(down).payload]
      BY <3>1, <3>3, OutcomeStep
    <3>5. issued # None
      BY <3>4 DEF Ids, None
    <3>6. Head(down).payload \in Payloads
      BY <1>1, <3>1, <3>2, <3>5 DEF AnswersTell
    <3>7. \E i \in 1 .. Len(served) : served[i] = issued
      BY <1>1, <3>1, <3>2, <3>5 DEF TagsMoveOn, Served
    <3> QED
      BY <3>1, <3>4, <3>6, <3>7, RemoteSteps
  <2>2. CASE ~(pc = "waiting" /\ finish_tag(Head(down)) = issued)
    <3>1. UNCHANGED <<got, issued, served>>
      BY <1>5, <2>2 DEF WorkerMatches
    <3> QED
      BY <1>2, <3>1, RemoteSteps
  <2> QED
    BY <2>1, <2>2
<1>6. CASE ServerReceives
  <2> DEFINE x == Head(up).id
  <2>1. up # <<>> /\ served' = Append(served, x) /\ UNCHANGED <<issued, got>>
    BY <1>6 DEF ServerReceives, client
  <2>2. Head(up) \in Requests /\ x \in Where(up)
    BY <1>1, <2>1, TailQueue DEF Typed
  <2>3. x \in Ids /\ x \in 1 .. issued /\ ~(\E i \in 1 .. Len(served) : served[i] = x)
    BY <1>1, <2>2 DEF Requests, TagsMoveOn, Handed, Served
  <2> HIDE DEF x
  <2> QED
    BY <1>2, <2>1, <2>3, RemoteSteps
<1>7. CASE UNCHANGED <<got, issued, served>>
  BY <1>2, <1>7, RemoteSteps
<1>8. QED
  BY <1>3, <1>4, <1>5, <1>6, <1>7
     DEF Next, Fails, WaitMasterchainSeqno, LimiterGrants, CallService, WorkerSends,
         WorkerDesynchronized, WorkerEndOfStream, ServerStray, ConnectionLost,
         ServerAnswers, client, remote, vars

\* A session, whatever its connection and its server do, behaves as RemoteCall
\* promises: one result per query, one execution at most, and an answer only from
\* the server that executed this very query.
THEOREM Refinement == Spec => ImplementsRemoteCall
<1>1. Init => RC!Init
  BY DEF Init, RC!Init, Outcome, NoResult
<1>2. QED
  BY <1>1, Inductive, NextRefines, PTL DEF Spec, ImplementsRemoteCall, RC!Spec
=============================================================================
