---------------------------- MODULE Configuration ----------------------------
(***************************************************************************)
(* What the command line makes of a keeper: ArgsParser with ArgsDef        *)
(* (src/src/Keeper/Initializer/ArgsParser), the part of the constructor of *)
(* src/src/Keeper/index.ts that reads the arguments, and the choice of a   *)
(* flash swap strategy (src/src/lib/FlashSwap/strategyFactory.ts with      *)
(* src/src/Keeper/configs/flashSwapProxyConfig.ts).                        *)
(*                                                                         *)
(* given maps every key to the value on the command line, or to Absent.  A *)
(* Number is an integer, negative ones included, or NaN; fractions are left*)
(* out.                                                                    *)
(* The arguments the keeper declares and never reads are left out:         *)
(* --eth-from (but for being required), --rpc-timeout, --type, --system,   *)
(* --settle-auctions-for, --min-auction, --max-auctions, --bid-delay,      *)
(* --min-collateral-lot, --bid-check-interval, --block-check-interval,     *)
(* --shard-id, --graph-endpoints, --graph-block-threshold,                 *)
(* --safe-engine-system-coin-target, --return-collateral-interval,         *)
(* --swap-collateral and --max-swap-slippage.                              *)
(***************************************************************************)
EXTENDS Integers

CONSTANTS Absent,              \* the argument is not given
          NaN                  \* Number(undefined), Number("ten")

Required == {"--rpc-uri", "--eth-from", "--eth-key"}
Flag == {"--bid-only", "--start-auctions-only", "--flash-swap",
         "--keep-system-coin-in-safe-engine-on-exit",
         "--keep-collateral-in-safe-engine-on-exit"}
Number == {"--chunk-size", "--from-block"}
Key == Required \cup Flag \cup Number \cup {"--network", "--collateral-type"}

Default(k) == CASE k = "--network" -> "optimism-sepolia"
                [] k = "--collateral-type" -> "WETH"
                [] k = "--chunk-size" -> 2000
                [] k \in Flag -> FALSE
                [] OTHER -> Absent

(* What JavaScript takes for false. *)
Falsy(k, v) == \/ v = Absent
               \/ k \in Number /\ v \in {0, NaN}
               \/ k \in Flag /\ v = FALSE
               \/ k \notin Number \cup Flag /\ v = ""

(* A required argument is missing: ArgsParser throws, no keeper starts.    *)
Refused(given) == \E k \in Required : Falsy(k, given[k])

(* A falsy value is replaced like a missing one, if there is a default.    *)
Parsed(given) ==
  [k \in Key |-> IF Falsy(k, given[k]) /\ Default(k) # Absent
                 THEN Default(k) ELSE given[k]]
-----------------------------------------------------------------------------
IsLiquidating(given) == ~Parsed(given)["--bid-only"]
ChunkSize(given) == Parsed(given)["--chunk-size"]

(* Mutant: 0 counts as missing here too. *)
FromBlock_Falsy(given) == IF Falsy("--from-block", given["--from-block"])
                          THEN NaN ELSE given["--from-block"]

FromBlock(given) == IF given["--from-block"] = Absent
                    THEN NaN ELSE Parsed(given)["--from-block"]

(* The proxies there are. *)
ProxyConfig == [mainnet |->
  [c \in {"WETH", "WSTETH", "OP", "SNX", "WBTC", "TBTC", "RETH", "LUSD-A",
          "LINK", "VELO"} |-> IF c = "WETH" THEN "MultiCollateral" ELSE "MultiHop"]]

(* Without a proxy for the network and the collateral the flag is ignored. *)
Strategy(given) ==
  LET args == Parsed(given)
      network == args["--network"]
      collateral == args["--collateral-type"]
  IN IF /\ args["--flash-swap"]
        /\ network \in DOMAIN ProxyConfig
        /\ collateral \in DOMAIN ProxyConfig[network]
     THEN ProxyConfig[network][collateral] ELSE Absent
=============================================================================
