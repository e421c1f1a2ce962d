------------------------- MODULE AbstractOracleQueue -------------------------
(***************************************************************************)
(* What the anchor's queue and the oracle promise together (spec sections  *)
(* 4.2 and 4.6): requests are queued in order, and one atomic step answers *)
(* the request at the head and moves the head past it.  There are no       *)
(* locks, workers, reads or relays at this level: answering a request is   *)
(* a single step, taken only for the request at the head.                  *)
(***************************************************************************)
EXTENDS Naturals, Sequences

CONSTANT Rid       \* request ids

VARIABLES
  msgs,      \* the queued requests, in queue order
  head,      \* how many of them have been processed
  answers    \* rid -> number of answers (Response or Error) received

vars == <<msgs, head, answers>>

Init ==
  /\ msgs = << >>
  /\ head = 0
  /\ answers = [r \in Rid |-> 0]

\* pushMessage: the request joins the end of the queue.
Enqueue(r) ==
  /\ msgs' = Append(msgs, r)
  /\ UNCHANGED <<head, answers>>

\* One rollup: the request at the head is answered and the head passes it.
AnswerHead ==
  /\ head < Len(msgs)
  /\ answers' = [answers EXCEPT ![msgs[head + 1]] = @ + 1]
  /\ head' = head + 1
  /\ UNCHANGED msgs

Next == (\E r \in Rid : Enqueue(r)) \/ AnswerHead

Spec == Init /\ [][Next]_vars

=============================================================================
