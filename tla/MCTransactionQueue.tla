-------------------------- MODULE MCTransactionQueue --------------------------
(* Model checking of TransactionQueue: tasks are interchangeable.          *)
EXTENDS TransactionQueue, TLC

TaskSymmetry == Permutations(Task)
=============================================================================
