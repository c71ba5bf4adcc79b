--------------------------- MODULE SerialExecutor ---------------------------
(***************************************************************************)
(* What the keeper's modules expect of the transaction queue, whatever its *)
(* implementation: transactions are executed one at a time, in the order   *)
(* in which they were submitted.  An execution may put its transaction on  *)
(* chain several times (it is retried when an attempt fails after the      *)
(* transaction was mined), but never one that is not next in line.  The    *)
(* executor may give up, and then it never runs a task again; when a       *)
(* transaction it broadcast before is mined is the chain's business.       *)
(***************************************************************************)
EXTENDS Naturals, Sequences

CONSTANT Task                  \* the transactions callers may submit

VARIABLES accepted,            \* the submitted tasks, in submission order
          finished,            \* how many of them have been executed
          landed,              \* the transactions its attempts got mined
          halted               \* the executor gave up

vars == <<accepted, finished, landed, halted>>

Elements(s) == {s[i] : i \in DOMAIN s}

Init == /\ accepted = <<>>
        /\ finished = 0
        /\ landed = <<>>
        /\ halted = FALSE

Submit(t) == /\ ~halted
             /\ t \notin Elements(accepted)
             /\ accepted' = Append(accepted, t)
             /\ UNCHANGED <<finished, landed, halted>>

(* The task whose turn it is. *)
Current == accepted[finished + 1]

Busy == ~halted /\ finished < Len(accepted)

Land == /\ Busy
        /\ landed' = Append(landed, Current)
        /\ UNCHANGED <<accepted, finished, halted>>

Finish == /\ Busy
          /\ landed' = Append(landed, Current)
          /\ finished' = finished + 1
          /\ UNCHANGED <<accepted, halted>>

Halt == /\ Busy
        /\ landed' \in {landed, Append(landed, Current)}
        /\ halted' = TRUE
        /\ UNCHANGED <<accepted, finished>>

Next == \/ \E t \in Task : Submit(t)
        \/ Land
        \/ Finish
        \/ Halt

Spec == Init /\ [][Next]_vars
=============================================================================
