---------------------------- MODULE MCSafeHistory ----------------------------
(* Model checking of SafeHistory: scans and addresses are interchangeable. *)
EXTENDS SafeHistory, TLC

ScanSymmetry == Permutations(Scan) \cup Permutations(SafeAddress)
=============================================================================
