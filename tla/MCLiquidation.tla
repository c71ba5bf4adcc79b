---------------------------- MODULE MCLiquidation ----------------------------
(* Model checking of Liquidation: a position that is critical at the lower *)
(* of two prices, which an owner may take again after a liquidation.  A    *)
(* liquidation takes half of the debt, liquidationQuantity, and as much of *)
(* the collateral, rounded down: what is left of 5 for 6 is covered, what  *)
(* is left of 4 for 6 is as critical as it was.                            *)
EXTENDS Liquidation

Whole == [locked |-> 5, debt |-> 6]
Covered == [locked |-> 3, debt |-> 3]

MCPosition == {Whole}
MCHolding == {Whole, Covered}
MCLeft == [p \in MCHolding |-> Covered]

Even == [locked |-> 4, debt |-> 6]
Half == [locked |-> 2, debt |-> 3]
Empty == [locked |-> 0, debt |-> 0]

EvenPosition == {Even}
EvenHolding == {Even, Half, Empty}
EvenLeft == [p \in EvenHolding |-> IF p = Even THEN Half ELSE Empty]

MCTerms == {[rate |-> 1, price |-> 1], [rate |-> 1, price |-> 2]}
=============================================================================
