----------------------------- MODULE MCFlashSwap -----------------------------
(* Model checking of FlashSwap: the command lines that tell the cases of   *)
(* Configuration apart, each proxy, none, a bid-only keeper and none at all*)
(* with a first block of 0, and a keeper without a proxy with the others.  *)
EXTENDS FlashSwap, TLC

CommandLine(network, collateral, flash, only, from, chunk) ==
  [k \in Key |-> CASE k \in Required -> "given"
                   [] k = "--network" -> network
                   [] k = "--collateral-type" -> collateral
                   [] k = "--flash-swap" -> flash
                   [] k = "--bid-only" -> only
                   [] k = "--chunk-size" -> chunk
                   [] k = "--from-block" -> from
                   [] OTHER -> Absent]

MCArgv ==
  {CommandLine("mainnet", collateral, TRUE, Absent, 0, 0) :
     collateral \in {Absent, "OP"}}
  \cup {CommandLine("mainnet", "OP", Absent, only, 0, 0) : only \in {Absent, TRUE}}
  \cup {CommandLine(Absent, Absent, TRUE, Absent, from, chunk) :
          <<from, chunk>> \in {<<Absent, Absent>>, <<1, NaN>>, <<-2, Absent>>,
                               <<1, -5>>}}
  \cup {[k \in Key |-> Absent]}

MCSymmetry == Permutations(Safe)
=============================================================================
