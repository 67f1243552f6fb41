----------------------------- MODULE FifoChannel -----------------------------
(***************************************************************************)
(* What an ADNL connection promises its two ends, without keys, keystreams *)
(* or byte buffers: each end receives the packets the other end sent, in   *)
(* order, each at most once, and from the moment its reader has reported   *)
(* an error it receives nothing more.                                      *)
(***************************************************************************)
EXTENDS Sequences, Naturals

CONSTANTS Ends,      \* the two ends of the connection
          Packets    \* what may be sent

VARIABLES sent,      \* sent[e]: every packet end e has sent
          delivered, \* delivered[e]: every packet end e has received
          broken     \* broken[e]: the reader of e has reported an error

chanVars == <<sent, delivered, broken>>

OtherEnd(e) == CHOOSE o \in Ends : o # e

ChanInit == /\ sent = [e \in Ends |-> <<>>]
            /\ delivered = [e \in Ends |-> <<>>]
            /\ broken = [e \in Ends |-> FALSE]

ChanSend(e) == /\ \E p \in Packets : sent' = [sent EXCEPT ![e] = Append(@, p)]
               /\ UNCHANGED <<delivered, broken>>

ChanDeliver(e) ==
    LET next == Len(delivered[e]) + 1
    IN  /\ ~broken[e]
        /\ next <= Len(sent[OtherEnd(e)])
        /\ delivered' = [delivered EXCEPT
                            ![e] = Append(@, sent[OtherEnd(e)][next])]
        /\ UNCHANGED <<sent, broken>>

ChanBreak(e) == /\ broken' = [broken EXCEPT ![e] = TRUE]
                /\ UNCHANGED <<sent, delivered>>

ChanNext == \E e \in Ends : ChanSend(e) \/ ChanDeliver(e) \/ ChanBreak(e)

ChanSpec == ChanInit /\ [][ChanNext]_chanVars
=============================================================================
