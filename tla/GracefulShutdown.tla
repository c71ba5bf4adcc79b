--------------------------- MODULE GracefulShutdown ---------------------------
(***************************************************************************)
(* The keeper's own transactions and the end of the process: the startup,  *)
(* handleBidding and shutdown of src/src/Keeper/index.ts put them on the   *)
(* TransactionQueue, and src/src/index.ts ends the process on SIGTERM or   *)
(* SIGINT once the queue's status is DONE, or after two minutes.           *)
(*                                                                         *)
(* The module extends TransactionQueue: the tasks get the effects they     *)
(* have on the keeper's funds, and an attempt can put its transaction on   *)
(* chain only where the contracts accept it.  The engine's balance and what*)
(* an auction raises are in RAD, tokens, joins, bids and exits in WAD      *)
(* (CoinUnits).  How blocks, startup and shutdown interleave inside the    *)
(* keeper is KeeperLifeCycle; of that, only what decides when a transaction*)
(* is queued is kept here.                                                 *)
(***************************************************************************)
EXTENDS TransactionQueue, CoinUnits

CONSTANTS Buy,                 \* "Buying Collateral" tasks, one per bid
          Auction,             \* auctions with collateral left to sell
          Price,               \* what each auction has to raise, in RAD
          Coins,               \* the keeper's system coins, in WAD
          Joined,              \* what of them may be in the engine, in RAD
          KeepCollateral,      \* --keep-collateral-in-safe-engine-on-exit
          KeepSystemCoin       \* --keep-system-coin-in-safe-engine-on-exit

ASSUME LabelAssumption ==
  /\ Buy \subseteq Task
  /\ {"approve", "house", "join", "exitCollateral", "approveExit", "exitCoin"}
       \subseteq Task \ Buy
ASSUME AmountAssumption == /\ Price \in Nat /\ Coins \in Nat
                           /\ Joined \subseteq 0 .. RadFromWad(Coins)
ASSUME AuctionAssumption == Buy # {} => Auction # {}
ASSUME KeepAssumption == {KeepCollateral, KeepSystemCoin} \subseteq BOOLEAN

VARIABLES tokens,              \* chain: system coins outside the engine, WAD
          joined,              \* chain: coinBalance of the keeper, RAD
          collateral,          \* chain: tokenCollateral of the keeper
          allowance,           \* chain: what joinCoin may take of the tokens
          rights,              \* chain: who may modify the keeper's safe
          left,                \* chain: what each auction still raises, RAD
          amount,              \* the WAD read when a task was queued
          target,              \* the auction a buy is for
          currentAllowance,    \* the allowance as startup read it
          start,               \* where startup stands
          isExiting,
          bid,                 \* the block handler, then its handleBidding
          cursor,              \* the auction handleBidding is at
          main                 \* gracefulShutdown, and the process

funds == <<tokens, joined, collateral, allowance, rights, left>>
startup == <<currentAllowance, start>>
keeper == <<startup, isExiting, bid, cursor, main>>
all == <<vars, funds, amount, target, keeper>>

Alive == main \notin {"done", "timeout", "died"}

(* Nothing else runs while main is in the middle of a turn. *)
EventLoop == Alive /\ main # "exit"

(* MaxUint256: more than the keeper will ever join. *)
Unlimited == Coins + 1

(* A keeper that starts for the first time, or one that ran before: it has *)
(* joined some of its coins, down to the last RAD, and gave approvals, of  *)
(* any size.                                                               *)
GracefulInit ==
  /\ Init
  /\ joined \in Joined
  /\ tokens = WadFromRad(RadFromWad(Coins) - joined)
  /\ collateral = 0
  /\ allowance \in 0 .. Unlimited
  /\ rights \in SUBSET {"house", "joinCoin"}
  /\ left = [a \in Auction |-> Price]
  /\ amount = [t \in Task |-> 0]
  /\ target = [t \in Buy |-> CHOOSE a \in Auction : TRUE]
  /\ currentAllowance = 0
  /\ start = "allowance"
  /\ isExiting = FALSE
  /\ bid = "idle"
  /\ cursor = {}
  /\ main = "running"
-----------------------------------------------------------------------------
(* The contracts: when they accept the transaction of a task, and what it  *)
(* does.                                                                   *)
(* A join needs the allowance and the tokens, an exit the engine's right;  *)
(* a bid is refused where it is nothing or the auction is over, and where  *)
(* the keeper cannot pay what the house takes (BuyCollateral).             *)
Possible(t) ==
  CASE t = "join"     -> allowance >= amount[t] /\ tokens >= amount[t]
    [] t = "exitCoin" -> "joinCoin" \in rights
    [] t \in Buy      -> /\ "house" \in rights
                         /\ amount[t] > 0 /\ left[target[t]] > 0
    [] OTHER          -> TRUE

ApproveToken == /\ allowance' = Unlimited
                /\ UNCHANGED <<tokens, joined, collateral, rights, left>>

Approve(who) == /\ rights' = rights \cup {who}
                /\ UNCHANGED <<tokens, joined, collateral, allowance, left>>

(* Mutant: the amount is the one read when the exit was queued. *)
ExitCoin_Captured ==
  LET n == IF amount["exitCoin"] < WadFromRad(joined) THEN amount["exitCoin"]
           ELSE WadFromRad(joined)
  IN /\ tokens' = tokens + n
     /\ joined' = joined - RadFromWad(n)
     /\ UNCHANGED <<collateral, allowance, rights, left>>

(* The exit tasks read the balance themselves, then exit all of it: of the *)
(* coins, all the whole WADs.                                              *)
ExitCoin == /\ tokens' = tokens + WadFromRad(joined)
            /\ joined' = joined - RadFromWad(WadFromRad(joined))
            /\ UNCHANGED <<collateral, allowance, rights, left>>

ExitCollateral == /\ collateral' = 0
                  /\ UNCHANGED <<tokens, joined, allowance, rights, left>>

(* joinCoin takes the tokens out of the allowance, if that is not Unlimited*)
JoinCoins == /\ tokens' = tokens - amount["join"]
             /\ joined' = joined + RadFromWad(amount["join"])
             /\ allowance' = IF allowance = Unlimited THEN Unlimited
                             ELSE allowance - amount["join"]
             /\ UNCHANGED <<collateral, rights, left>>

(* A sale the keeper can pay; it gets some collateral. *)
BuyCollateral(t) ==
  /\ \E sale \in Sales(amount[t], left[target[t]]) :
       /\ sale.paid <= joined
       /\ joined' = joined - sale.paid
       /\ left' = [left EXCEPT ![target[t]] = sale.rest]
  /\ collateral' = collateral + 1
  /\ UNCHANGED <<tokens, allowance, rights>>

Effect(t) == \/ t = "approve" /\ ApproveToken
             \/ t = "house" /\ Approve("house")
             \/ t = "approveExit" /\ Approve("joinCoin")
             \/ t = "join" /\ JoinCoins
             \/ t = "exitCollateral" /\ ExitCollateral
             \/ t = "exitCoin" /\ ExitCoin
             \/ t \in Buy /\ BuyCollateral(t)

(* A transaction lands where it is possible, and then has its effect. *)
Mined == \/ landed' # landed /\ Possible(active) /\ Effect(active)
         \/ landed' = landed /\ UNCHANGED funds

QueueSettles == /\ EventLoop
                /\ AttemptSettles
                /\ Mined
                /\ UNCHANGED <<amount, target, keeper>>

QueueRetries == /\ EventLoop
                /\ RetryDelayElapses
                /\ UNCHANGED <<funds, amount, target, keeper>>

QueueTimer == /\ EventLoop
              /\ TimerFires
              /\ UNCHANGED <<funds, amount, target, keeper>>
-----------------------------------------------------------------------------
(* Startup: each step is the answer to the read that decides whether a     *)
(* transaction is queued.                                                  *)
Skip == UNCHANGED <<vars, amount>>

Queue(t, n) == AddTransaction(t) /\ amount' = [amount EXCEPT ![t] = n]

(* The tokens are approved for joinCoin only where nothing is approved: an *)
(* allowance that is smaller than the balance is left as it is.            *)
ApproveSystemCoin ==
  /\ EventLoop
  /\ start = "allowance"
  /\ start' = "house"
  /\ currentAllowance' = allowance
  /\ IF allowance = 0 THEN Queue("approve", 0) ELSE Skip
  /\ UNCHANGED <<funds, target, isExiting, bid, cursor, main>>

ApproveHouse ==
  /\ EventLoop
  /\ start = "house"
  /\ start' = "join"
  /\ IF "house" \in rights THEN Skip ELSE Queue("house", 0)
  /\ UNCHANGED <<funds, target, currentAllowance, isExiting, bid, cursor,
                 main>>

(* The balance is captured by the task. *)
JoinSystemCoins ==
  /\ EventLoop
  /\ start = "join"
  /\ start' = "rest"
  /\ IF tokens = 0 THEN Skip ELSE Queue("join", tokens)
  /\ UNCHANGED <<funds, target, currentAllowance, isExiting, bid, cursor,
                 main>>

(* The balances and the safes are read; the block handler is registered,   *)
(* whether the keeper is exiting or not.                                   *)
StartupFinishes ==
  /\ EventLoop
  /\ start = "rest"
  /\ start' = "finished"
  /\ UNCHANGED <<vars, funds, amount, target, currentAllowance, isExiting, bid,
                 cursor, main>>
-----------------------------------------------------------------------------
(* The block handler: past its test of isExiting it does not look again.   *)
BeginPass == /\ EventLoop
             /\ start = "finished"
             /\ ~isExiting
             /\ bid = "idle"
             /\ bid' = "pass"
             /\ UNCHANGED <<vars, funds, amount, target, startup, isExiting,
                            cursor, main>>

(* The pass is over: handleBidding goes through the auctions. *)
HandleBidding == /\ EventLoop
                 /\ bid = "pass"
                 /\ bid' = "bidding"
                 /\ cursor' = Auction
                 /\ UNCHANGED <<vars, funds, amount, target, startup, isExiting,
                                main>>

(* Mutant: the balance is bid in RAD, not in WAD. *)
BuyIn_Rad(a, t) == /\ EventLoop
                   /\ bid = "bidding"
                   /\ a \in cursor
                   /\ joined > 0
                   /\ cursor' = cursor \ {a}
                   /\ Queue(t, joined)
                   /\ target' = [target EXCEPT ![t] = a]
                   /\ UNCHANGED <<funds, startup, isExiting, bid, main>>

(* The coin balance is there: all its WADs are bid, even none, whatever was*)
(* queued before has not taken yet.  The order of the auctions does not    *)
(* matter.                                                                 *)
BuyIn(a, t) == /\ EventLoop
               /\ bid = "bidding"
               /\ a \in cursor
               /\ joined > 0
               /\ cursor' = cursor \ {a}
               /\ Queue(t, WadFromRad(joined))
               /\ target' = [target EXCEPT ![t] = a]
               /\ UNCHANGED <<funds, startup, isExiting, bid, main>>

(* The keeper has no coins, or knows the auction to be sold out. *)
PassOver(a) == /\ EventLoop
               /\ bid = "bidding"
               /\ a \in cursor
               /\ joined = 0 \/ left[a] = 0
               /\ cursor' = cursor \ {a}
               /\ UNCHANGED <<vars, funds, amount, target, startup, isExiting,
                              bid, main>>

BiddingEnds == /\ EventLoop
               /\ bid = "bidding"
               /\ cursor = {}
               /\ bid' = "idle"
               /\ UNCHANGED <<vars, funds, amount, target, startup, isExiting,
                              cursor, main>>
-----------------------------------------------------------------------------
(* A signal: gracefulShutdown calls shutdown, which queues the collateral  *)
(* exit in the same turn.                                                  *)
Signal == /\ main = "running"
          /\ isExiting' = TRUE
          /\ main' = IF KeepSystemCoin THEN "stopped" ELSE "rights"
          /\ IF KeepCollateral THEN Skip ELSE Queue("exitCollateral", 0)
          /\ UNCHANGED <<funds, target, startup, bid, cursor>>

(* Mutant: the rights are not looked at. *)
ApproveExit_Never == /\ main = "rights"
                     /\ main' = "exit"
                     /\ UNCHANGED <<vars, funds, amount, target, startup,
                                    isExiting, bid, cursor>>

(* exitSystemCoin waits for the keeper's rights; what follows the answer is*)
(* one turn.                                                               *)
ApproveExit == /\ main = "rights"
               /\ main' = "exit"
               /\ IF "joinCoin" \in rights THEN Skip
                  ELSE Queue("approveExit", 0)
               /\ UNCHANGED <<funds, target, startup, isExiting, bid, cursor>>

ExitSystemCoin == /\ main = "exit"
                  /\ main' = "stopped"
                  /\ Queue("exitCoin", WadFromRad(joined))
                  /\ UNCHANGED <<funds, target, startup, isExiting, bid,
                                 cursor>>

(* 50 ms later main subscribes to the queue's status. *)
Subscribe == /\ main = "stopped"
             /\ main' = "watching"
             /\ UNCHANGED <<vars, funds, amount, target, startup, isExiting, bid,
                            cursor>>

ExitOnDone == /\ main = "watching"
              /\ status = "DONE"
              /\ main' = "done"
              /\ UNCHANGED <<vars, funds, amount, target, startup, isExiting,
                             bid, cursor>>

(* Mutant: there is no time limit. *)
ExitOnTimeout_Never == main = "timeout" /\ UNCHANGED all

ExitOnTimeout == /\ main = "watching"
                 /\ main' = "timeout"
                 /\ UNCHANGED <<vars, funds, amount, target, startup, isExiting,
                                bid, cursor>>

(* An RPC of startup, of the block handler or of shutdown fails: nobody    *)
(* handles the rejection.                                                  *)
ProcessDies == /\ EventLoop
               /\ main' = "died"
               /\ UNCHANGED <<vars, funds, amount, target, startup, isExiting,
                              bid, cursor>>
-----------------------------------------------------------------------------
Startup == \/ ApproveSystemCoin \/ ApproveHouse \/ JoinSystemCoins
           \/ StartupFinishes

Bidding == \/ BeginPass \/ HandleBidding \/ BiddingEnds
           \/ \E a \in Auction : PassOver(a) \/ \E t \in Buy : BuyIn(a, t)

Main == \/ ApproveExit \/ ExitSystemCoin \/ Subscribe
        \/ ExitOnDone \/ ExitOnTimeout

GracefulNext == \/ QueueSettles \/ QueueRetries \/ QueueTimer
                \/ Startup
                \/ Bidding
                \/ Signal \/ Main
                \/ ProcessDies

GracefulSpec == GracefulInit /\ [][GracefulNext]_all

(* The timers of main fire and its one RPC is answered or fails; nothing   *)
(* is assumed of the queue.                                                *)
GracefulFairSpec == GracefulSpec /\ WF_all(Main)
-----------------------------------------------------------------------------
CoinsAddUp == RadFromWad(tokens) + joined <= RadFromWad(Coins)

(* The domains of the keeper's variables, and the coins: whatever is       *)
(* joined, bid, rounded and exited, the keeper never has, nor captures for *)
(* a transaction, more than the coins it began with.                       *)
GracefulTypeOK ==
  /\ tokens \in Nat /\ joined \in Nat /\ collateral \in Nat
  /\ CoinsAddUp
  /\ {allowance, currentAllowance} \subseteq 0 .. Unlimited
  /\ rights \subseteq {"house", "joinCoin"}
  /\ left \in [Auction -> 0 .. Price]
  /\ amount \in [Task -> 0 .. Coins]
  /\ target \in [Buy -> Auction]
  /\ start \in {"allowance", "house", "join", "rest", "finished"}
  /\ isExiting \in BOOLEAN
  /\ bid \in {"idle", "pass", "bidding"}
  /\ cursor \subseteq Auction
  /\ main \in {"running", "rights", "exit", "stopped", "watching", "done",
               "timeout", "died"}

Done(t) == t \in Elements(completed)
Before(t, u) == \E i, j \in DOMAIN accepted :
                  i < j /\ accepted[i] = t /\ accepted[j] = u

(* A transaction is attempted only when the approval it needs is on chain: *)
(* every approval was queued before what needs it, and the queue is FIFO.  *)
(* There is one exception: an allowance that startup found neither zero nor*)
(* large enough, which the join is attempted with all the same.  (A join   *)
(* that has landed and is retried finds what it has left.)                 *)
ApprovedInTime ==
  /\ active = "join" /\ active \notin Elements(landed)
     /\ currentAllowance \notin 1 .. amount["join"] - 1
       => allowance >= amount["join"]
  /\ active \in Buy => "house" \in rights
  /\ active = "exitCoin" => "joinCoin" \in rights

(* What the exits leave behind was queued after them: once they are done,  *)
(* less than one WAD of coins and no collateral remains, unless a join or a*)
(* buy came later.                                                         *)
ExitsTakeAll ==
  /\ Done("exitCoin") /\ ~Before("exitCoin", "join") => joined < Ray
  /\ Done("exitCollateral") /\ (\A t \in Buy : ~Before("exitCollateral", t))
       => collateral = 0

(* A keeper that got the signal ends, whatever the queue is doing. *)
SignalEndsProcess == isExiting ~> ~Alive

(* README: "Exit system coin on shut down".  A process that ends because   *)
(* its queue is DONE, not FAILED, has exited the system coin.              *)
DoneExitIsComplete ==
  main = "done" /\ subscribed /\ ~KeepSystemCoin => Done("exitCoin")

(* test/Shutdown.ts: after the shutdown, with the queue at rest and no     *)
(* transaction given up, the keeper has no collateral in the safe engine.  *)
NoCollateralLeft ==
  main = "watching" /\ active = None /\ subscribed /\ ~KeepCollateral
    => collateral = 0

(* The log of approveSystemCoinForJoinCoin: "Skipping the approval for     *)
(* system coin to be used by coin join, because it is already approved."   *)
AllowanceSuffices ==
  active = "join" /\ landed = <<>> => allowance >= amount["join"]

(* test/Shutdown.ts: neither has it system coins there. *)
NoSystemCoinLeft ==
  main = "watching" /\ active = None /\ subscribed /\ ~KeepSystemCoin
    => joined = 0
=============================================================================
