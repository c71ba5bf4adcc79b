------------------------------ MODULE FlashSwap ------------------------------
(***************************************************************************)
(* Liquidation by flash swap: the flash branch of Safe.liquidate, the two  *)
(* strategies of src/src/lib/FlashSwap, and the contracts they call,       *)
(* HaiUniswapV3MultiCollateralKeeperFlashProxy and                         *)
(* HaiUniswapV3MultiHopCollateralKeeperFlashProxy (src/contracts), for a   *)
(* keeper that was started with some command line (Configuration) and knows*)
(* the safes its first scans found, and for anyone else who calls them.    *)
(*                                                                         *)
(* A contract call is a sequence of steps that nothing interrupts and a    *)
(* revert undoes.  Each safe has at most one open auction, which stands    *)
(* for its id.  Limit prices are left out: the keeper passes none.  A pool *)
(* has the coins it is asked for and behaves as Uniswap's do, or it returns*)
(* without calling back; what any other pool could do is left out.         *)
(***************************************************************************)
EXTENDS Configuration, CoinUnits, FiniteSetsExt

CONSTANTS Argv,                \* the command lines
          Safe,
          Head,                \* the height of the chain
          Lookback,            \* cacheLookback
          Debt,                \* what an auction may have to raise, in RAD
          Lot,                 \* the collateral a bid wins
          Price,               \* collateral the pools take for a system coin
          MaxMoves,            \* bound: prices and safes that change
          MaxCalls             \* bound: calls of a proxy

ASSUME DebtAssumption ==
  /\ Debt \subseteq Nat \ {0} /\ Price \subseteq Nat
  /\ {Head, Lookback, Lot, MaxMoves, MaxCalls} \subseteq Nat
ASSUME SafeAssumption == IsFiniteSet(Safe)

(* What arg makes of an argument of type Number. *)
ASSUME ArgvAssumption ==
  /\ \A a \in Argv : \A k \in Number : a[k] \in Int \cup {Absent, NaN}
  /\ Absent \notin Int /\ NaN \notin Int

VARIABLES given,               \* the command line
          cacheBlock,          \* the history's
          known,               \* its safes
          lost,                \* history: safes whose init failed
          scanned,             \* history: getSafes has returned
          dead,                \* a failed scan ended the process
          modified,            \* chain: block of a safe's last modification
          saviour,             \* chain: safes with a saviour
          critical,            \* chain: safes that can be liquidated
          raise,               \* chain: what a safe's auction still raises
          price,               \* chain: the pools' price
          moves,               \* history: changes so far
          proxy,               \* each proxy's balances and settings
          profit,              \* what their callers were paid
          tx,                  \* the call under way
          saved,               \* what a revert restores
          calls,               \* history: calls that have ended
          outcome              \* history: how the last one ended

chain == <<modified, saviour, critical, raise, price, moves>>
call == <<proxy, profit, tx, saved, calls, outcome>>
keeper == <<cacheBlock, known, lost, scanned, dead>>
vars == <<given, keeper, chain, call>>

Kind == {"MultiCollateral", "MultiHop"}

(* coins, joined (in RAD) and won are the system coins and the collateral, *)
(* in the wallet (coins) or in the engine; pair and approved say that the  *)
(* proxy remembers a pool and lets the house move its coins: the MultiHop  *)
(* proxy has both from its constructor.  Two histories: spared, the RADs   *)
(* the house did not take because the collateral was sold out; mute, the   *)
(* last pool did not call back.                                            *)
Empty == [coins |-> 0, joined |-> 0, won |-> 0, wallet |-> 0, owes |-> 0,
          pair |-> FALSE, approved |-> FALSE, spared |-> 0, mute |-> FALSE]

(* chosen: the pool is the caller's choice; twice: ids given repeatedly.   *)
NoCall == [pc |-> "none", type |-> Absent, ids |-> {}, twice |-> {},
           chosen |-> FALSE]
Nothing == <<{}, [s \in Safe |-> 0], [k \in Kind |-> Empty]>>

Init == /\ given \in {a \in Argv : ~Refused(a)}
        /\ cacheBlock = FromBlock(given)
        /\ known = {}
        /\ lost = {}
        /\ scanned = FALSE
        /\ dead = FALSE
        /\ modified \in [Safe -> 0 .. Head]
        /\ saviour \in SUBSET Safe
        /\ critical \in SUBSET Safe
        /\ raise = [s \in Safe |-> 0]
        /\ price \in Price
        /\ moves = 0
        /\ proxy = [k \in Kind |-> Empty]
        /\ profit = 0
        /\ tx = NoCall
        /\ saved = Nothing
        /\ calls = 0
        /\ outcome = "none"

Between == tx.pc = "none"
-----------------------------------------------------------------------------
(* The first block of a scan; a scan from NaN asks for block 0 alone,      *)
(* because both ends of its first window are NaN, and NaN <= to is false.  *)
Window == IF cacheBlock = NaN THEN {0}
          ELSE (IF cacheBlock > Lookback THEN cacheBlock - Lookback ELSE 0)
                 .. Head

Found == {s \in Safe : modified[s] \in Window}

(* Windows of a negative chunk go back from the first block: the scan ends *)
(* with an error, below block 0 at the latest, unless that block is already*)
(* the last.                                                               *)
WindowsEnd == ChunkSize(given) > 0 \/ cacheBlock = NaN \/ Window = {}

(* A safe whose init fails is left out, an update of a known one does not  *)
(* matter here.                                                            *)
GetSafes == /\ Between /\ ~dead
            /\ IsLiquidating(given) /\ WindowsEnd
            /\ \E failed \in SUBSET (Found \ known) :
                 /\ known' = known \cup (Found \ failed)
                 /\ lost' = (lost \cup failed) \ known'
            /\ cacheBlock' = Head
            /\ scanned' = TRUE
            /\ UNCHANGED <<given, dead, chain, call>>

(* getSafes rethrows, and nobody handles that. *)
ScanFails == /\ Between /\ ~dead
             /\ IsLiquidating(given)
             /\ dead' = TRUE
             /\ UNCHANGED <<given, cacheBlock, known, lost, scanned,
                            chain, call>>

(* Others: the market moves, an owner or an oracle makes a safe critical   *)
(* or not, somebody bids, or liquidates a safe without a proxy.            *)
PriceMoves == /\ Between /\ moves < MaxMoves /\ moves' = moves + 1
              /\ price' \in Price
              /\ UNCHANGED <<given, keeper, modified, saviour,
                             critical, raise, call>>

SafeMoves(s) == /\ Between /\ moves < MaxMoves /\ moves' = moves + 1
                /\ raise[s] = 0
                /\ critical' = IF s \in critical THEN critical \ {s}
                               ELSE critical \cup {s}
                /\ UNCHANGED <<given, keeper, modified, saviour,
                               raise, price, call>>

OtherBids(s) == /\ Between /\ moves < MaxMoves /\ moves' = moves + 1
                /\ \E n \in 0 .. raise[s] - 1 : raise' = [raise EXCEPT ![s] = n]
                /\ UNCHANGED <<given, keeper, modified, saviour,
                               critical, price, call>>

(* The engine's own liquidateSAFE: a saviour may step in. *)
Liquidated(s) == /\ s \in critical
                 /\ critical' = critical \ {s}
                 /\ \/ \E d \in Debt : raise' = [raise EXCEPT ![s] = d]
                    \/ s \in saviour /\ UNCHANGED raise

OtherLiquidates(s) == /\ Between /\ moves < MaxMoves /\ moves' = moves + 1
                      /\ raise[s] = 0
                      /\ Liquidated(s)
                      /\ UNCHANGED <<given, keeper, modified, saviour,
                                     price, call>>

PlainLiquidation(s) ==
  /\ Between /\ ~dead
  /\ Strategy(given) = Absent /\ IsLiquidating(given) /\ s \in known
  /\ raise[s] = 0
  /\ Liquidated(s)
  /\ UNCHANGED <<given, keeper, modified, saviour, price, moves, call>>
-----------------------------------------------------------------------------
Start(type, pc, ids, twice, chosen) ==
  /\ calls < MaxCalls
  /\ tx' = [pc |-> pc, type |-> type, ids |-> ids, twice |-> twice,
            chosen |-> chosen]
  /\ saved' = <<critical, raise, proxy>>
  /\ UNCHANGED <<given, keeper, chain, proxy, profit, calls, outcome>>

(* The strategy's transaction: liquidateAndSettleSAFE, with the configured *)
(* pool.  The safe was critical in the keeper's eyes (Liquidation).        *)
FlashLiquidation(s) ==
  /\ Between /\ ~dead
  /\ Strategy(given) # Absent /\ IsLiquidating(given) /\ s \in known
  /\ raise[s] = 0
  /\ Start(Strategy(given), "liquidate", {s}, {}, FALSE)

(* Anyone may call it too, and brings a pool of his own to the             *)
(* MultiCollateral proxy.                                                  *)
LiquidateAndSettle(type, s) ==
  /\ Between
  /\ raise[s] = 0
  /\ Start(type, "liquidate", {s}, {}, type = "MultiCollateral")

(* And settleAuction, on the MultiHop proxy with a list of ids.            *)
SettleAuction(type, ids, twice) ==
  /\ Between
  /\ ids # {}
  /\ type = "MultiCollateral" => Cardinality(ids) = 1 /\ twice = {}
  /\ Start(type, "settle", ids, twice, type = "MultiCollateral")

At(pc) == tx.pc = pc

(* The call goes on, or ends. *)
GoOn == UNCHANGED <<saved, profit, calls, outcome>>
Goto(pc) == tx' = [tx EXCEPT !.pc = pc] /\ GoOn
End(how) == /\ tx' = NoCall
            /\ saved' = Nothing
            /\ calls' = calls + 1
            /\ outcome' = how
Frame == UNCHANGED <<given, keeper, modified, saviour, price, moves>>

Mine == proxy[tx.type]
Becomes(mine) == proxy' = [proxy EXCEPT ![tx.type] = mine]

(* Mutant: what fails after the liquidation is caught.                     *)
Revert_Catch(why) == /\ UNCHANGED <<critical, raise, profit>>
                     /\ proxy' = saved[3]
                     /\ End(why)

Revert(why) == /\ critical' = saved[1] /\ raise' = saved[2] /\ proxy' = saved[3]
               /\ UNCHANGED profit
               /\ End(why)

LiquidateSAFE ==
  /\ At("liquidate")
  /\ \E s \in tx.ids :
       \/ s \in saviour /\ Revert("SafeIsProtected")
       \/ s \notin saviour /\ s \notin critical /\ Revert("NotCritical")
       \/ /\ s \notin saviour /\ Liquidated(s)
          /\ Goto("settle")
          /\ UNCHANGED proxy
  /\ Frame

Open == {s \in tx.ids : raise[s] > 0}

(* settleAuction: the auctions still open. *)
Settle ==
  /\ At("settle")
  /\ IF Open = {} THEN Revert("AlreadySettled")
     ELSE /\ tx' = [tx EXCEPT !.pc = "swap", !.ids = Open,
                              !.twice = @ \cap Open]
          /\ Becomes([Mine EXCEPT !.pair = tx.type = "MultiCollateral",
                                  !.approved = tx.type = "MultiCollateral"])
          /\ GoOn
          /\ UNCHANGED <<critical, raise>>
  /\ Frame

(* Mutant: the odd RADs of an auction are not borrowed for. *)
Lent_Down(S) == MapThenSumSet(LAMBDA s : WadFromRad(raise[s]), S)

(* A WAD more than what each auction raises. *)
Lent(S) == MapThenSumSet(LAMBDA s : WadFromRad(raise[s]) + 1, S)

(* What is borrowed, for an id that was given twice twice. *)
Total == Lent(tx.ids) + Lent(tx.twice)

(* The pool sends the coins and calls back; it, or the auxiliary pool in   *)
(* its place, is owed their price in collateral.                           *)
StartSwap ==
  /\ At("swap")
  /\ Becomes([Mine EXCEPT !.coins = @ + Total, !.owes = Total * price])
  /\ Goto("join")
  /\ UNCHANGED <<critical, raise>>
  /\ Frame

(* A pool of the caller's own need not: then swap returns, the approval is *)
(* taken back, and the call ends without a bid and without a revert.       *)
PoolIsSilent ==
  /\ At("swap")
  /\ tx.chosen
  /\ Becomes([Mine EXCEPT !.approved = FALSE, !.mute = TRUE])
  /\ End("silent")
  /\ UNCHANGED <<critical, raise, profit>>
  /\ Frame

JoinCoins ==
  /\ At("join")
  /\ LET n == IF tx.type = "MultiHop" THEN Mine.coins ELSE Total
     IN IF n > Mine.coins THEN Revert("NoCoins")
        ELSE /\ Becomes([Mine EXCEPT !.coins = @ - n,
                                     !.joined = @ + RadFromWad(n)])
             /\ Goto("bid")
             /\ UNCHANGED <<critical, raise>>
  /\ Frame

(* The bid is the number of RAD the auction raises, taken for WAD: always  *)
(* too much, and cut down by the house, which takes still less where the   *)
(* collateral is not worth that.                                           *)
Offer(s) == raise[s]
Asked(s) == Charged(Offer(s), raise[s])
Sold(s) == Sales(Offer(s), raise[s])
Taken == {sale \in [tx.ids -> UNION {Sold(s) : s \in tx.ids}] :
            \A s \in tx.ids : sale[s] \in Sold(s)}

(* The house refuses a bid while it has no valid price or when it would buy*)
(* nothing, and a second one for an auction that the first has ended.      *)
Bid ==
  /\ At("bid")
  /\ \/ Revert("HouseRefuses")
     \/ \E sale \in Taken :
          LET cost == MapThenSumSet(LAMBDA s : sale[s].paid, tx.ids)
              denied == tx.type = "MultiCollateral" /\ ~Mine.approved
          IN IF denied \/ cost > Mine.joined THEN Revert("BidRefused")
             ELSE IF tx.twice # {} THEN Revert("GivenTwice")
             ELSE /\ Becomes([Mine EXCEPT
                       !.joined = @ - cost,
                       !.spared = @ + (MapThenSumSet(Asked, tx.ids) - cost),
                       !.won = @ + Lot * Cardinality(tx.ids)])
                  /\ raise' = [s \in Safe |-> IF s \in tx.ids THEN sale[s].rest
                                              ELSE raise[s]]
                  /\ Goto("exit")
                  /\ UNCHANGED critical
  /\ Frame

ExitCollateral ==
  /\ At("exit")
  /\ Becomes([Mine EXCEPT !.wallet = @ + Mine.won, !.won = 0])
  /\ Goto("repay")
  /\ UNCHANGED <<critical, raise>>
  /\ Frame

Repay ==
  /\ At("repay")
  /\ IF Mine.owes > Mine.wallet THEN Revert("unprofitable")
     ELSE /\ Becomes([Mine EXCEPT !.wallet = @ - Mine.owes, !.owes = 0])
          /\ Goto("pay")
          /\ UNCHANGED <<critical, raise>>
  /\ Frame

(* Mutant: the proxy goes on holding the pool. *)
PayCaller_Pair ==
  /\ At("pay")
  /\ profit' = profit + Mine.wallet
  /\ Becomes([Mine EXCEPT !.wallet = 0, !.approved = FALSE, !.mute = FALSE])
  /\ End("done")
  /\ UNCHANGED <<critical, raise>>
  /\ Frame

(* The caller gets the rest; the pool and the approval are forgotten. *)
PayCaller ==
  /\ At("pay")
  /\ profit' = profit + Mine.wallet
  /\ Becomes([Mine EXCEPT !.wallet = 0, !.pair = FALSE, !.approved = FALSE,
                          !.mute = FALSE])
  /\ End("done")
  /\ UNCHANGED <<critical, raise>>
  /\ Frame
-----------------------------------------------------------------------------
Others == \/ PriceMoves
          \/ \E s \in Safe : SafeMoves(s) \/ OtherBids(s) \/ OtherLiquidates(s)

Call == \/ LiquidateSAFE \/ Settle \/ StartSwap \/ PoolIsSilent \/ JoinCoins
        \/ Bid \/ ExitCollateral \/ Repay \/ PayCaller

Next == \/ GetSafes \/ ScanFails \/ Others \/ Call
        \/ \E s \in Safe : PlainLiquidation(s) \/ FlashLiquidation(s)
        \/ \E type \in Kind, s \in Safe : LiquidateAndSettle(type, s)
        \/ \E type \in Kind, ids \in SUBSET Safe : \E twice \in SUBSET ids :
             SettleAuction(type, ids, twice)

Spec == Init /\ [][Next]_vars
-----------------------------------------------------------------------------
(* A proxy never spends what it has not.  Between two calls it holds no    *)
(* coin and no collateral and owes no pool; in the engine it has exactly   *)
(* what the house spared it because the collateral was sold out, not a RAD *)
(* left over by the rounding; and it remembers a pool only if that pool did*)
(* not call back.                                                          *)
ProxyKeepsNothing ==
  /\ proxy \in [Kind -> [coins : Nat, joined : Nat, won : Nat, wallet : Nat,
                         owes : Nat, pair : BOOLEAN, approved : BOOLEAN,
                         spared : Nat, mute : BOOLEAN]]
  /\ Between => \A k \in Kind :
       /\ proxy[k].coins = 0 /\ proxy[k].won = 0 /\ proxy[k].wallet = 0
       /\ proxy[k].owes = 0 /\ ~proxy[k].approved
       /\ proxy[k].joined = proxy[k].spared
       /\ proxy[k].pair = proxy[k].mute

(* A call reverts because of the safe, the market, the house or the ids it *)
(* was given, never because the rounding left it a coin short of what the  *)
(* house asks.                                                             *)
RevertHasCause ==
  outcome \in {"none", "done", "silent", "SafeIsProtected", "NotCritical",
               "AlreadySettled", "GivenTwice", "HouseRefuses", "unprofitable"}

(* Every call is one step of the promise, or none at all. *)
Promise == INSTANCE AtomicSettlement
             WITH critical <- IF Between THEN critical ELSE saved[1],
                  raise <- IF Between THEN raise ELSE saved[2],
                  abandoned <- outcome = "silent"
ImplementsSettlement == Promise!Spec

(* A keeper that was given --from-block, 0 or a negative number included,  *)
(* knows after its first scan every safe modified since then whose init did*)
(* not fail; and its windows move on (SafeHistory assumes a positive chunk)*)
(* unless the command line says a negative chunk.                          *)
ScansAsTold ==
  /\ ChunkSize(given) > 0 \/ given["--chunk-size"] \in Int \ Nat
  /\ scanned /\ given["--from-block"] \in Int
       => {s \in Safe : modified[s] >= given["--from-block"]}
            \subseteq known \cup lost

(* The help of --from-block: "If not configured, this is set to the block  *)
(* where GEB was deployed".  Then the first scan would find every safe.    *)
ScansFromDeployment ==
  scanned /\ given["--from-block"] = Absent => known \cup lost = Safe
=============================================================================
