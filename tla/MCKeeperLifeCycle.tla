------------------------- MODULE MCKeeperLifeCycle -------------------------
(* Model checking of KeeperLifeCycle: the slots for calls of the handler   *)
(* are interchangeable.                                                    *)
EXTENDS KeeperLifeCycle, TLC

HandlerSymmetry == Permutations(Handler)
=============================================================================
