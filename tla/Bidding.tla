------------------------------- MODULE Bidding -------------------------------
(***************************************************************************)
(* The keeper's money while it bids: handleBidding and the block handler's *)
(* gate of src/src/Keeper/index.ts, buy and reload of CollateralAuction.   *)
(* It extends TransactionQueue, through which the join and every bid go.   *)
(*                                                                         *)
(* handleBidding is not awaited: calls of consecutive blocks overlap, and  *)
(* each bids, in every auction it believes alive, the whole balance it has *)
(* just read, whatever bids are still queued.  A bid the house refuses is  *)
(* retried until the queue gives up for good.  Balances in the engine are  *)
(* in RAD, bids in WAD.  A read that fails ends the process: nobody handles*)
(* the rejection.                                                          *)
(*                                                                         *)
(* The list of auctions is CollateralAuctionHouse's matter and complete    *)
(* here; approvals, exits and the end of the process are GracefulShutdown's*)
(***************************************************************************)
EXTENDS TransactionQueue, CoinUnits

CONSTANTS Buy,                 \* "Buying Collateral" tasks, one per bid
          Auction,             \* ids of the auctions, in the list's order
          Pass,                \* slots for concurrent handleBidding calls
          Others,              \* those in which other keepers bid too
          MinBalance,          \* parseEther("0.1"), compared with a RAD
          MinimumBid,          \* the house's, in WAD
          Raise,               \* what each auction has to raise, in RAD
          Invalid,             \* amounts no bid may leave to be raised, RAD
          Tokens,              \* system coins outside the engine, in WAD
          Coins,               \* and at most inside it, in RAD
          MaxFaults            \* bound: attempts the network fails

ASSUME BidAssumption == Buy \cup {"join"} = Task /\ "join" \notin Buy
ASSUME UnitAssumption == /\ Auction \subseteq Nat \ {0}
                         /\ Others \subseteq Auction
                         /\ Buy # {} => Auction # {}
                         /\ MinBalance \in 0 .. Ray - 1
                         /\ {Raise, Tokens, Coins, MinimumBid} \subseteq Nat
                         /\ 0 \notin Invalid
ASSUME FaultAssumption == MaxFaults \in 0 .. RetryCount

VARIABLES tokens,              \* chain: system coins of the keeper, WAD
          joined,              \* chain: its balance in the engine, RAD
          left,                \* chain: what each auction still raises, RAD
          started,             \* startup has joined and registered the handler
          coinBalance,         \* this.coinBalance, RAD
          sold,                \* auctions whose cached data says deleted
          amount,              \* the WAD a queued bid or join was made with
          target,              \* the auction a bid is for
          call,                \* the handleBidding calls
          dead,                \* the process has ended
          faults,              \* history: attempts the network failed so far
          contended,           \* history: bids others could spoil
          refused              \* history: bids the house refused for its prices

funds == <<tokens, joined, left>>
keeper == <<started, coinBalance, sold, amount, target, call, dead>>
record == <<faults, contended, refused>>
all == <<vars, funds, keeper, record>>

Idle == [pc |-> "idle", at |-> 0, seen |-> 0]

BiddingInit ==
  /\ Init
  /\ tokens = Tokens
  /\ joined \in 0 .. Coins
  /\ left = [a \in Auction |-> Raise]
  /\ started = FALSE
  /\ coinBalance = 0
  /\ sold = {}
  /\ amount = [t \in Task |-> 0]
  /\ target = [t \in Buy |-> CHOOSE a \in Auction : TRUE]
  /\ call = [p \in Pass |-> Idle]
  /\ dead = FALSE
  /\ faults = 0
  /\ contended = {}
  /\ refused = {}
-----------------------------------------------------------------------------
(* What the house asks of a bid: it is not too small, the auction is open, *)
(* the bidder can pay, and what it leaves to be raised is valid.  What the *)
(* sale comes to depends on the price.                                     *)
Deals(t) == Sales(amount[t], left[target[t]])

Biddable(t) == /\ amount[t] > 0 /\ amount[t] >= MinimumBid
               /\ left[target[t]] > 0

Payable(t) == \A sale \in Deals(t) : sale.paid <= joined

Valid(t) ==
  {sale \in Deals(t) : sale.paid <= joined /\ sale.rest \notin Invalid}

Possible(t) == \/ t = "join" /\ tokens >= amount[t]
               \/ t \in Buy /\ Biddable(t) /\ Valid(t) # {}

(* Whatever the price, the keeper has the coins. *)
Sound(t) == \/ t = "join" /\ tokens >= amount[t]
            \/ t \in Buy /\ Biddable(t) /\ Payable(t)

JoinCoins == /\ tokens' = tokens - amount["join"]
             /\ joined' = joined + RadFromWad(amount["join"])
             /\ UNCHANGED left

(* Mutant: more can be raised than the auction asks for. *)
BuyCollateral_NoFloor(t) ==
  /\ \E sale \in Valid(t) :
       /\ joined' = joined - sale.paid
       /\ left' = [left EXCEPT ![target[t]] = @ - sale.paid]
  /\ UNCHANGED tokens

BuyCollateral(t) ==
  /\ \E sale \in Valid(t) :
       /\ joined' = joined - sale.paid
       /\ left' = [left EXCEPT ![target[t]] = sale.rest]
  /\ UNCHANGED tokens

Effect(t) == \/ t = "join" /\ JoinCoins
             \/ t \in Buy /\ BuyCollateral(t)

(* Another keeper bids. *)
OtherBids(a) ==
  /\ \E n \in (0 .. left[a] - 1) \ Invalid :
       /\ left' = [left EXCEPT ![a] = n]
       /\ contended' = IF n > 0 THEN contended
                       ELSE contended \cup {t \in Buy : target[t] = a}
  /\ UNCHANGED <<vars, tokens, joined, keeper, faults, refused>>
-----------------------------------------------------------------------------
(* The queue.  A task whose transaction the contracts accept may still be  *)
(* failed by the network, before or after its transaction is mined.  The   *)
(* join's task reads the balance last.                                     *)
Rejected == AttemptFails \/ RetriesExhausted

AttemptLands ==
  /\ ~dead
  /\ AttemptSucceeds
  /\ Possible(active)
  /\ Effect(active)
  /\ coinBalance' = IF active = "join" THEN joined' ELSE coinBalance
  /\ UNCHANGED <<started, sold, amount, target, call, dead, record>>

(* The keeper, or the engine for it, cannot pay, the bid is too small or   *)
(* the auction over.                                                       *)
AttemptReverts ==
  /\ ~dead
  /\ Rejected
  /\ ~Sound(active)
  /\ landed' = landed
  /\ UNCHANGED <<funds, keeper, record>>

(* The house has no valid price, the coins buy no collateral, or what they *)
(* would leave to be raised is invalid.                                    *)
HouseRefuses ==
  /\ ~dead
  /\ Rejected
  /\ active \in Buy
  /\ Sound(active)
  /\ landed' = landed
  /\ refused' = refused \cup {active}
  /\ UNCHANGED <<funds, keeper, faults, contended>>

NetworkFails ==
  /\ ~dead
  /\ faults < MaxFaults
  /\ faults' = faults + 1
  /\ Rejected
  /\ Possible(active)
  /\ \/ landed' # landed /\ Effect(active)
     \/ landed' = landed /\ UNCHANGED funds
  /\ UNCHANGED <<keeper, contended, refused>>

QueueRetries ==
  /\ ~dead
  /\ RetryDelayElapses
  /\ UNCHANGED <<funds, keeper, record>>
-----------------------------------------------------------------------------
(* Startup joins what it finds and registers the block handler.            *)
JoinSystemCoins ==
  /\ ~dead
  /\ ~started
  /\ started' = TRUE
  /\ IF tokens = 0
     THEN coinBalance' = joined /\ UNCHANGED <<vars, amount>>
     ELSE /\ AddTransaction("join")
          /\ amount' = [amount EXCEPT !["join"] = tokens]
          /\ UNCHANGED coinBalance
  /\ UNCHANGED <<funds, sold, target, call, dead, record>>

(* Every block the handler reads the balance first. *)
ReadBalance ==
  /\ ~dead
  /\ started
  /\ coinBalance # joined
  /\ coinBalance' = joined
  /\ UNCHANGED <<vars, funds, started, sold, amount, target, call, dead,
                 record>>

(* The gate: the handler's balance, in RAD, against a number of WAD.       *)
HandleBidding(p) ==
  /\ ~dead
  /\ started
  /\ call[p].pc = "idle"
  /\ coinBalance > MinBalance
  /\ call' = [call EXCEPT ![p].pc = "auction"]
  /\ UNCHANGED <<vars, funds, started, coinBalance, sold, amount, target, dead,
                 record>>

(* Mutant: the loop begins at the second auction. *)
Ahead_OffByOne(p) == {a \in Auction : a > call[p].at + 1} \ sold

Ahead(p) == {a \in Auction : a > call[p].at} \ sold

(* The next auction that is not deleted: its turn begins with the balance. *)
NextAuction(p) ==
  /\ ~dead
  /\ call[p].pc = "auction"
  /\ \/ Ahead(p) = {} /\ call' = [call EXCEPT ![p] = Idle]
     \/ \E a \in Ahead(p) :
          /\ \A b \in Ahead(p) : a <= b
          /\ call' = [call EXCEPT ![p] =
                       [pc |-> "buy", at |-> a, seen |-> joined]]
  /\ UNCHANGED <<vars, funds, started, coinBalance, sold, amount, target, dead,
                 record>>

Free(t) == t \in Buy \ (Elements(accepted) \cup ignored)

(* The bid is on its own: nothing is queued, it is what the keeper has.    *)
Alone(p) == /\ Outstanding = <<>>
            /\ call[p].seen = joined
            /\ left[call[p].at] > 0

(* Mutant: the balance is bid in RAD. *)
BuyIn_Rad(p, t) ==
  /\ ~dead
  /\ call[p].pc = "buy"
  /\ call[p].seen > 0
  /\ AddTransaction(t)
  /\ coinBalance' = call[p].seen
  /\ amount' = [amount EXCEPT ![t] = call[p].seen]
  /\ target' = [target EXCEPT ![t] = call[p].at]
  /\ contended' = IF Alone(p) THEN contended \ {t} ELSE contended \cup {t}
  /\ call' = [call EXCEPT ![p].pc = "reload", ![p].seen = 0]
  /\ UNCHANGED <<funds, started, sold, dead, faults, refused>>

(* The balance, cut down to a whole WAD, is bid.                           *)
BuyIn(p, t) ==
  /\ ~dead
  /\ call[p].pc = "buy"
  /\ call[p].seen > 0
  /\ AddTransaction(t)
  /\ coinBalance' = call[p].seen
  /\ amount' = [amount EXCEPT ![t] = WadFromRad(call[p].seen)]
  /\ target' = [target EXCEPT ![t] = call[p].at]
  /\ contended' = IF Alone(p) THEN contended \ {t} ELSE contended \cup {t}
  /\ call' = [call EXCEPT ![p].pc = "reload", ![p].seen = 0]
  /\ UNCHANGED <<funds, started, sold, dead, faults, refused>>

(* There is nothing to bid. *)
PassOver(p) ==
  /\ ~dead
  /\ call[p].pc = "buy"
  /\ call[p].seen = 0
  /\ coinBalance' = 0
  /\ call' = [call EXCEPT ![p].pc = "auction"]
  /\ UNCHANGED <<vars, funds, started, sold, amount, target, dead, record>>

(* reload's answer, which may be from before the auction was sold out.     *)
Reload(p) ==
  /\ ~dead
  /\ call[p].pc = "reload"
  /\ \/ sold' = sold
     \/ left[call[p].at] = 0 /\ sold' = sold \cup {call[p].at}
  /\ call' = [call EXCEPT ![p].pc = "auction"]
  /\ UNCHANGED <<vars, funds, started, coinBalance, amount, target, dead,
                 record>>

(* A read fails: of the balance, by startup, the block handler or a call,  *)
(* or of the auction.  Everyone logs it and throws it on, to nobody.       *)
ReadFails ==
  /\ ~dead
  /\ dead' = TRUE
  /\ UNCHANGED <<vars, funds, started, coinBalance, sold, amount, target, call,
                 record>>
-----------------------------------------------------------------------------
Queue == \/ AttemptLands \/ AttemptReverts \/ HouseRefuses \/ NetworkFails
         \/ QueueRetries

(* A label nobody has used stands for the next bid. *)
Bid(p) == \E t \in Buy : /\ Free(t) /\ t = CHOOSE u \in Buy : Free(u)
                         /\ BuyIn(p, t)

Bids(p) == \/ HandleBidding(p) \/ NextAuction(p) \/ Bid(p) \/ PassOver(p)
           \/ Reload(p)

BiddingNext == \/ Queue
               \/ JoinSystemCoins \/ ReadBalance \/ ReadFails
               \/ \E p \in Pass : Bids(p)
               \/ \E a \in Others : OtherBids(a)

BiddingSpec == BiddingInit /\ [][BiddingNext]_all

(* As long as the process lives: blocks go on coming, RPCs and attempts are*)
(* settled.                                                                *)
BiddingFairness == /\ WF_all(Queue)
                   /\ WF_all(JoinSystemCoins)
                   /\ WF_all(ReadBalance)
                   /\ \A p \in Pass : WF_all(Bids(p))

FairBiddingSpec == BiddingSpec /\ BiddingFairness
-----------------------------------------------------------------------------
(* The domains of the variables.  Whatever is joined, bid and sold, nobody *)
(* pays more coins than there are: no balance is negative, none exceeds the*)
(* coins there were, and no auction raises more than it has to.            *)
BiddingTypeOK ==
  /\ TypeOK
  /\ tokens \in 0 .. Tokens
  /\ joined \in 0 .. RadFromWad(Tokens) + Coins
  /\ left \in [Auction -> 0 .. Raise]
  /\ started \in BOOLEAN
  /\ coinBalance \in 0 .. RadFromWad(Tokens) + Coins
  /\ sold \subseteq Auction
  /\ amount \in [Task -> 0 .. RadFromWad(Tokens) + Coins]
  /\ target \in [Buy -> Auction]
  /\ call \in [Pass -> [pc : {"idle", "auction", "buy", "reload"},
                       at : Auction \cup {0},
                       seen : 0 .. RadFromWad(Tokens) + Coins]]
  /\ dead \in BOOLEAN
  /\ faults \in 0 .. MaxFaults
  /\ contended \subseteq Buy /\ refused \subseteq Buy

(* What ends the queue for good.  As long as the network fails no more     *)
(* often than the queue retries, it is a bid queued behind others or whose *)
(* auction another keeper settled, a bid below one WAD or the house's      *)
(* minimum, one the house refused for its prices or for what it would leave*)
(* to be raised, or the retry of a join or a bid that had landed; any other*)
(* bid on its own succeeds.                                                *)
DeathHasCause ==
  ~subscribed => LET t == accepted[Len(completed) + 1]
                 IN \/ t \in contended
                    \/ t \in Buy /\ (amount[t] = 0 \/ amount[t] < MinimumBid)
                    \/ t \in refused
                    \/ t \in Elements(landed)

(* A keeper with a WAD to spend goes on bidding in an auction that has     *)
(* collateral left, whatever other calls do, until the auction is sold, the*)
(* money is spent, the queue has ended or a failed read has ended the      *)
(* process (or the labels are used up).                                    *)
BidsWhileItCan ==
  \A a \in Auction :
    (left[a] > 0 /\ joined >= Ray)
      ~> (left[a] = 0 \/ joined < Ray \/ ~subscribed \/ dead
           \/ \A t \in Buy : ~Free(t))

(* README: "Being able to liquidate and participate in auction reliably".  *)
(* That neither the network nor the house's prices ever fail a bid does not*)
(* suffice: two bids of one balance (two auctions of a call, or the calls  *)
(* of two blocks) end the queue, and with it every later transaction.      *)
QueueSurvives == faults = 0 /\ refused = {} => subscribed
=============================================================================
