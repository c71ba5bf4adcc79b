-------------------------- MODULE AtomicSettlement ---------------------------
(***************************************************************************)
(* What a flash proxy promises.  The comments of both contracts, in their  *)
(* own words: "Liquidates an underwater SAFE and settles the auction right *)
(* away".  A call ends its auctions, in one step, and the caller keeps what*)
(* is left over and puts nothing in; or it changes nothing.  Only a call   *)
(* whose caller brought a pool that does not do the swap may liquidate a   *)
(* safe, pay nobody and leave the auction to others.                       *)
(***************************************************************************)
EXTENDS Naturals

CONSTANT Safe

VARIABLES critical,            \* the safes that can be liquidated
          raise,               \* what the auction of each safe still raises
          profit,              \* collateral the callers were paid
          calls,               \* how many calls have ended
          abandoned            \* the pool of the last one did not swap

vars == <<critical, raise, profit, calls, abandoned>>

Init == /\ critical \subseteq Safe
        /\ raise = [s \in Safe |-> 0]
        /\ profit = 0
        /\ calls = 0
        /\ abandoned = FALSE

(* A liquidation whose auction is still to be settled. *)
LiquidateOnly(s) == /\ s \in critical /\ critical' = critical \ {s}
                    /\ \A r \in Safe \ {s} : raise'[r] = raise[r]

(* Prices and owners, other bids, and liquidations by other means.         *)
Environment == /\ \E s \in Safe :
                    \/ /\ critical' \in {critical \ {s}, critical \cup {s}}
                       /\ UNCHANGED raise
                    \/ /\ \A r \in Safe \ {s} : raise'[r] = raise[r]
                       /\ raise'[s] < raise[s]
                       /\ UNCHANGED critical
                    \/ LiquidateOnly(s)
               /\ UNCHANGED <<profit, calls, abandoned>>

Settle(ids) == /\ \A s \in ids : raise[s] > 0
               /\ raise' = [s \in Safe |-> IF s \in ids THEN 0 ELSE raise[s]]
               /\ UNCHANGED critical

LiquidateAndSettle(s) == /\ s \in critical
                         /\ critical' = critical \ {s}
                         /\ UNCHANGED raise

Succeed == /\ \/ \E ids \in (SUBSET Safe) \ {{}} : Settle(ids)
              \/ \E s \in Safe : LiquidateAndSettle(s)
           /\ profit' >= profit

Fail == UNCHANGED <<critical, raise, profit>>

Abandon == /\ \/ \E s \in Safe : LiquidateOnly(s)
              \/ UNCHANGED <<critical, raise>>
           /\ UNCHANGED profit

Call == /\ \/ (Succeed \/ Fail) /\ abandoned' = FALSE
           \/ Abandon /\ abandoned' = TRUE
        /\ calls' = calls + 1

Next == Environment \/ Call

Spec == Init /\ [][Next]_vars
=============================================================================
