----------------------- MODULE MCCollateralAuctionHouse -----------------------
(* Model checking of CollateralAuctionHouse: the slots are interchangeable.*)
EXTENDS CollateralAuctionHouse, TLC

PassSymmetry == Permutations(Pass)
=============================================================================
