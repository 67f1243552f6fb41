----------------------------- MODULE RemoteCall -----------------------------
(***************************************************************************)
(* What a LiteClient promises its caller, whatever happens to the          *)
(* connection: the queries are issued one after the other; each returns    *)
(* at most once; a query that returns an answer returns the answer the     *)
(* server computed for this very query; the server executes a query at     *)
(* most once, possibly after the caller has given up on it.                *)
(***************************************************************************)
EXTENDS Integers, Sequences

CONSTANTS Ids,       \* the queries, 1 .. n in the order they are issued
          Payloads   \* what a server may answer

VARIABLES issued,    \* number of queries issued so far
          returned,  \* returned[id]: "none", "answer" or "failure"
          executed,  \* the queries the server has executed, oldest first
          value      \* value[id]: the payload a query returned, or "none"

vars == <<issued, returned, executed, value>>

Init ==
  /\ issued = 0
  /\ returned = [id \in Ids |-> "none"]
  /\ executed = <<>>
  /\ value = [id \in Ids |-> "none"]

Executed(id) == \E i \in 1 .. Len(executed) : executed[i] = id

\* A query is issued only when the one before it has returned.
Issue ==
  /\ issued + 1 \in Ids
  /\ issued > 0 => returned[issued] # "none"
  /\ issued' = issued + 1
  /\ UNCHANGED <<returned, executed, value>>

Execute(id) ==
  /\ id \in 1 .. issued
  /\ ~Executed(id)
  /\ executed' = Append(executed, id)
  /\ UNCHANGED <<issued, returned, value>>

ReturnAnswer(payload) ==
  /\ Executed(issued)
  /\ returned[issued] = "none"
  /\ returned' = [returned EXCEPT ![issued] = "answer"]
  /\ value' = [value EXCEPT ![issued] = payload]
  /\ UNCHANGED <<issued, executed>>

ReturnFailure ==
  /\ issued > 0
  /\ returned[issued] = "none"
  /\ returned' = [returned EXCEPT ![issued] = "failure"]
  /\ UNCHANGED <<issued, executed, value>>

Next ==
  \/ Issue
  \/ ReturnFailure
  \/ \E id \in Ids : Execute(id)
  \/ \E payload \in Payloads : ReturnAnswer(payload)

Spec == Init /\ [][Next]_vars

=============================================================================
