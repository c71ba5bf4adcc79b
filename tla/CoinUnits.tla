------------------------------ MODULE CoinUnits ------------------------------
(***************************************************************************)
(* The two units of the system coin: tokens and bids are counted in WAD    *)
(* (18 decimals), the engine's balances and an auction's amountToRaise in  *)
(* RAD (45 decimals).  src/src/lib/Math, and wad() of both flash proxies.  *)
(***************************************************************************)
EXTENDS Naturals

CONSTANT Ray                   \* 10^27: one WAD in RAD

ASSUME RayAssumption == Ray \in Nat \ {0, 1}

WadFromRad(rad) == rad \div Ray
RadFromWad(wad) == wad * Ray

(* The bid the auction house makes of one of wad when left RAD are still to*)
(* be raised: one that offers too much is cut down to what is left, rounded*)
(* up to the next whole WAD.                                               *)
AdjustedBid(wad, left) ==
  IF RadFromWad(wad) > left THEN WadFromRad(left) + 1 ELSE wad

(* The most it takes for that, in RAD. *)
Charged(wad, left) == RadFromWad(AdjustedBid(wad, left))

(* What it takes, and what it then still raises: all of the adjusted bid,  *)
(* or less where the collateral that is left is not worth that much.  The  *)
(* auction is over when all coins are raised or all collateral is sold.    *)
Sales(wad, left) ==
  {[paid |-> Charged(wad, left),
    rest |-> IF Charged(wad, left) < left THEN left - Charged(wad, left) ELSE 0]}
  \cup {[paid |-> RadFromWad(w), rest |-> 0] : w \in 1 .. AdjustedBid(wad, left)}
=============================================================================
