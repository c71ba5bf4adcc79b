---------------------------- MODULE BiddingProofs ----------------------------
(***************************************************************************)
(* Proofs about Bidding, for any number of auctions, bids and overlapping  *)
(* handleBidding calls, any amounts and any value of the Ray, as long as   *)
(* the network fails no more attempts than the queue makes retries.        *)
(***************************************************************************)
EXTENDS Bidding, TransactionQueueProofs

Total == RadFromWad(Tokens) + Coins

(* The states of a call. *)
CallState == [pc : {"idle", "auction", "buy", "reload"},
              at : Auction \cup {0}, seen : 0 .. Total]

(* The bid of a task that nothing can spoil any more but the network and   *)
(* the house's prices.                                                     *)
Good(t) == /\ t \notin contended
           /\ t \notin Elements(landed)
           /\ t \notin refused
           /\ t \in Buy => amount[t] > 0 /\ amount[t] >= MinimumBid

(* The keeper's coins add up to no more than there were. *)
Bounded == RadFromWad(tokens) + joined <= Total

(* Between the balance it read and the reload a call is at an auction.     *)
Turns == \A p \in Pass : call[p].pc \in {"buy", "reload"} => call[p].at \in Auction

(* What the join was queued with is there until it lands.                  *)
JoinPayable ==
  "join" \in Elements(accepted) \ Elements(landed) => tokens >= amount["join"]

(* What a bid on its own was queued with is there while it runs.           *)
BidPayable ==
  active \in Buy /\ Good(active)
    => joined >= RadFromWad(amount[active]) /\ left[target[active]] > 0

(* A bid that waits behind another task can be spoilt. *)
Waiting == Elements(buffer) \cap Buy \subseteq contended

(* Only the network fails the attempts of a good task. *)
Patient == active # None /\ Good(active) => soFar <= faults

(* What ended the queue is the first accepted task that is not completed.  *)
Ended == ~subscribed => Len(completed) + 1 \in DOMAIN accepted

Ready == JoinPayable /\ BidPayable /\ Waiting /\ Patient /\ Ended

BInv == IInv /\ BiddingTypeOK /\ Bounded /\ Turns /\ Ready /\ DeathHasCause
-----------------------------------------------------------------------------
(* Facts about the constants. *)
LEMMA Constants ==
  /\ Tokens \in Nat /\ Coins \in Nat /\ Raise \in Nat /\ MinBalance \in Nat
  /\ MinimumBid \in Nat
  /\ RetryCount \in Nat /\ MaxFaults \in Nat /\ MaxFaults <= RetryCount
  /\ Ray \in Nat /\ Ray >= 1 /\ Auction \subseteq Nat
  /\ Task = Buy \cup {"join"} /\ "join" \notin Buy /\ None \notin Task
  /\ Total \in Nat /\ RadFromWad(Tokens) \in Nat
<1>1. MaxFaults \in Nat /\ MaxFaults <= RetryCount /\ RetryCount \in Nat
  BY FaultAssumption, RetryAssumption
<1>2. /\ Tokens \in Nat /\ Coins \in Nat /\ Raise \in Nat /\ MinimumBid \in Nat
      /\ Auction \subseteq Nat
  BY UnitAssumption
<1>3. Ray \in Nat /\ Ray >= 1
  BY RayAssumption
<1>4. MinBalance \in Nat
  BY <1>3, UnitAssumption
<1>5. RadFromWad(Tokens) \in Nat
  BY <1>2, <1>3 DEF RadFromWad
<1>6. QED
  BY <1>1, <1>2, <1>3, <1>4, <1>5, BidAssumption, NoneAssumption DEF Total

(* A balance cut down to whole WAD is worth no more than it was.           *)
LEMMA WholeWad ==
  ASSUME NEW rad \in Nat
  PROVE  /\ WadFromRad(rad) \in Nat
         /\ RadFromWad(WadFromRad(rad)) <= rad
         /\ WadFromRad(rad) <= rad
<1>1. Ray \in Nat /\ Ray >= 1
  BY RayAssumption
<1> DEFINE w == rad \div Ray
           rest == rad % Ray
<1>2. w \in Nat
  BY <1>1
<1>3. rest \in Nat
  BY <1>1
<1>4. rad = Ray * w + rest
  BY <1>1
<1>5. WadFromRad(rad) = w /\ RadFromWad(w) = w * Ray
  BY DEF WadFromRad, RadFromWad
<1> HIDE DEF w, rest
<1>6. w <= w * Ray /\ Ray * w = w * Ray
  BY <1>1, <1>2
<1>7. QED
  BY <1>1, <1>2, <1>3, <1>4, <1>5, <1>6

(* RAD and WAD keep sums, differences and order. *)
LEMMA Rads ==
  ASSUME NEW v \in Nat, NEW w \in Nat
  PROVE  /\ RadFromWad(v) \in Nat
         /\ v <= w => RadFromWad(v) <= RadFromWad(w)
         /\ v <= w => RadFromWad(w - v) = RadFromWad(w) - RadFromWad(v)
         /\ RadFromWad(v) < RadFromWad(w) => v < w
         /\ v <= RadFromWad(v)
<1>1. Ray \in Nat /\ Ray >= 1
  BY RayAssumption
<1>2. v <= w => v * Ray <= w * Ray
  BY <1>1
<1>3. w <= v => w * Ray <= v * Ray
  BY <1>1
<1>4. v * Ray \in Nat /\ w * Ray \in Nat /\ (w - v) * Ray = w * Ray - v * Ray
  BY <1>1
<1>5. v <= v * Ray
  BY <1>1
<1>6. QED
  BY <1>2, <1>3, <1>4, <1>5 DEF RadFromWad

(* The house never cuts a bid down to more than was bid. *)
LEMMA AdjustedBound ==
  ASSUME NEW wad \in Nat, NEW rest \in Nat
  PROVE  AdjustedBid(wad, rest) \in Nat /\ AdjustedBid(wad, rest) <= wad
<1> DEFINE up == WadFromRad(rest) + 1
<1>1. CASE RadFromWad(wad) > rest
  <2>1. /\ WadFromRad(rest) \in Nat /\ RadFromWad(WadFromRad(rest)) <= rest
        /\ RadFromWad(WadFromRad(rest)) \in Nat /\ RadFromWad(wad) \in Nat
    BY WholeWad, Rads
  <2>2. RadFromWad(WadFromRad(rest)) < RadFromWad(wad)
    BY <1>1, <2>1
  <2>3. WadFromRad(rest) < wad
    BY <2>1, <2>2, Rads
  <2>4. up \in Nat /\ up <= wad
    BY <2>1, <2>3
  <2>5. AdjustedBid(wad, rest) = up
    BY <1>1 DEF AdjustedBid
  <2> HIDE DEF up
  <2>6. QED
    BY <2>4, <2>5
<1>2. CASE ~(RadFromWad(wad) > rest)
  BY <1>2 DEF AdjustedBid
<1>3. QED
  BY <1>1, <1>2

(* However much collateral is left, a sale costs no more than was bid and  *)
(* leaves no more to be raised than there was.                             *)
LEMMA SaleBounds ==
  ASSUME NEW wad \in Nat, NEW rest \in Nat, NEW sale \in Sales(wad, rest)
  PROVE  /\ sale.paid \in Nat /\ sale.paid <= RadFromWad(wad)
         /\ sale.rest \in 0 .. rest
<1>1. AdjustedBid(wad, rest) \in Nat /\ AdjustedBid(wad, rest) <= wad
  BY AdjustedBound
<1>2. Charged(wad, rest) \in Nat /\ Charged(wad, rest) <= RadFromWad(wad)
  BY <1>1, Rads DEF Charged
<1>3. CASE sale = [paid |-> Charged(wad, rest),
                   rest |-> IF Charged(wad, rest) < rest
                            THEN rest - Charged(wad, rest) ELSE 0]
  BY <1>2, <1>3
<1>4. CASE \E w \in 1 .. AdjustedBid(wad, rest) :
             sale = [paid |-> RadFromWad(w), rest |-> 0]
  <2>1. PICK w \in 1 .. AdjustedBid(wad, rest) :
               sale = [paid |-> RadFromWad(w), rest |-> 0]
    BY <1>4
  <2>2. w \in Nat /\ w <= wad
    BY <1>1, <2>1
  <2>3. RadFromWad(w) \in Nat /\ RadFromWad(w) <= RadFromWad(wad)
    BY <2>2, Rads
  <2>4. QED
    BY <2>1, <2>3
<1>5. QED
  BY <1>3, <1>4 DEF Sales
-----------------------------------------------------------------------------
(* What the type invariant says of the money. *)
LEMMA Amounts ==
  ASSUME BInv
  PROVE  /\ tokens \in Nat /\ tokens <= Tokens /\ joined \in Nat /\ joined <= Total
         /\ faults \in Nat /\ faults <= MaxFaults
         /\ soFar \in Nat /\ soFar <= RetryCount
         /\ amount \in [Task -> 0 .. Total] /\ \A t \in Task : amount[t] \in Nat
         /\ left \in [Auction -> 0 .. Raise]
         /\ \A a \in Auction : left[a] \in Nat /\ left[a] <= Raise
         /\ target \in [Buy -> Auction]
         /\ completed \in Seq(Task) /\ accepted \in Seq(Task)
         /\ buffer \in Seq(Task) /\ landed \in Seq(Task)
BY Constants DEF BInv, BiddingTypeOK, TypeOK, Total

(* What waits and what runs was accepted. *)
LEMMA Members ==
  ASSUME BInv
  PROVE  /\ Elements(buffer) \subseteq Elements(accepted)
         /\ active # None => active \in Elements(accepted)
         /\ Outstanding = <<>> <=> active = None
         /\ active = None => buffer = <<>>
<1>1. IInv /\ (active = None => buffer = <<>>)
  BY DEF BInv, IInv, Fifo
<1>2. CASE active = None
  <2>1. Elements(buffer) = {}
    BY <1>1, <1>2 DEF Elements
  <2>2. QED
    BY <1>1, <1>2, <2>1 DEF Outstanding
<1>3. CASE active # None
  <2>1. /\ active \in Task /\ accepted = (completed \o <<active>>) \o buffer
        /\ active \in Elements(accepted)
    BY <1>1, <1>3, ActiveIsNext DEF Elements
  <2> DEFINE done == completed \o <<active>>
  <2>2. done \in Seq(Task) /\ buffer \in Seq(Task)
    BY <2>1, Amounts
  <2>3. accepted = done \o buffer
    BY <2>1
  <2> HIDE DEF done
  <2>4. \A i \in DOMAIN buffer : /\ Len(done) + i \in DOMAIN accepted
                                 /\ accepted[Len(done) + i] = buffer[i]
    BY <2>2, <2>3
  <2>5. Elements(buffer) \subseteq Elements(accepted)
    BY <2>4 DEF Elements
  <2>6. Outstanding # <<>>
    <3>1. Outstanding = <<active>> \o buffer /\ <<active>> \in Seq(Task)
      BY <1>3, <2>1 DEF Outstanding
    <3>2. Len(Outstanding) = 1 + Len(buffer) /\ Len(buffer) \in Nat
      BY <2>2, <3>1
    <3>3. QED
      BY <3>2
  <2>7. QED
    BY <1>1, <1>3, <2>1, <2>5, <2>6
<1>4. QED
  BY <1>2, <1>3

(* What a sale costs is a number, and no more than was bid. *)
LEMMA DealBounds ==
  ASSUME BInv, NEW t \in Buy, NEW sale \in Deals(t)
  PROVE  /\ sale.paid \in Nat /\ sale.paid <= RadFromWad(amount[t])
         /\ sale.rest \in 0 .. Raise
<1>1. amount[t] \in Nat /\ target[t] \in Auction
  BY Amounts, Constants
<1>2. left[target[t]] \in Nat /\ left[target[t]] <= Raise /\ Raise \in Nat
  BY <1>1, Amounts, Constants
<1> DEFINE wad == amount[t]
           rest == left[target[t]]
<1>3. sale \in Sales(wad, rest)
  BY DEF Deals
<1> HIDE DEF wad, rest
<1>4. /\ sale.paid \in Nat /\ sale.paid <= RadFromWad(wad)
      /\ sale.rest \in 0 .. rest
  BY <1>1, <1>2, <1>3, SaleBounds DEF wad, rest
<1>5. QED
  BY <1>2, <1>4 DEF wad, rest

(* Whatever runs and is good can be paid at any price. *)
LEMMA GoodSound ==
  ASSUME BInv, active # None, Good(active)
  PROVE  Sound(active)
<1>1. active \in Task /\ active \in Elements(accepted)
  BY Members, ActiveIsNext DEF BInv
<1>2. CASE active = "join"
  <2>1. "join" \in Elements(accepted) \ Elements(landed)
    BY <1>1, <1>2 DEF Good
  <2>2. tokens >= amount["join"]
    BY <2>1 DEF BInv, Ready, JoinPayable
  <2>3. QED
    BY <1>2, <2>2 DEF Sound
<1>3. CASE active \in Buy
  <2>1. joined >= RadFromWad(amount[active]) /\ left[target[active]] > 0
    BY <1>3 DEF BInv, Ready, BidPayable
  <2>2. Biddable(active)
    BY <1>3, <2>1 DEF Good, Biddable
  <2>3. ASSUME NEW sale \in Deals(active) PROVE sale.paid <= joined
    <3>1. amount[active] \in Nat /\ joined \in Nat
      BY <1>1, Amounts
    <3>2. RadFromWad(amount[active]) \in Nat
      BY <3>1, Rads
    <3>3. sale.paid \in Nat /\ sale.paid <= RadFromWad(amount[active])
      BY <1>3, DealBounds
    <3>4. QED
      BY <2>1, <3>1, <3>2, <3>3
  <2>4. QED
    BY <1>3, <2>2, <2>3 DEF Sound, Payable
<1>4. QED
  BY <1>1, <1>2, <1>3, Constants

(* A transaction the contracts accept leaves balances that add up. *)
LEMMA EffectTypes ==
  ASSUME BInv, active # None, Possible(active), Effect(active)
  PROVE  /\ tokens' \in 0 .. Tokens /\ joined' \in 0 .. Total
         /\ left' \in [Auction -> 0 .. Raise] /\ Bounded'
         /\ active # "join" => tokens' = tokens
<1>1. active \in Task
  BY ActiveIsNext DEF BInv
<1>2. /\ RadFromWad(tokens) \in Nat /\ RadFromWad(tokens) + joined <= Total
      /\ Total \in Nat /\ Total' = Total
  BY Amounts, Rads, Constants DEF BInv, Bounded, Total, RadFromWad
<1>3. CASE active = "join"
  <2>1. /\ tokens >= amount["join"] /\ amount["join"] \in Nat
        /\ tokens' = tokens - amount["join"]
        /\ joined' = joined + RadFromWad(amount["join"]) /\ left' = left
    BY <1>1, <1>3, Amounts, Constants DEF Possible, Effect, JoinCoins
  <2>2. /\ RadFromWad(amount["join"]) \in Nat
        /\ RadFromWad(amount["join"]) <= RadFromWad(tokens)
        /\ RadFromWad(tokens - amount["join"])
             = RadFromWad(tokens) - RadFromWad(amount["join"])
    BY <2>1, Amounts, Rads
  <2>3. tokens' \in 0 .. Tokens
    <3> DEFINE paid == amount["join"]
    <3>1. /\ paid \in Nat /\ tokens >= paid /\ tokens' = tokens - paid
          /\ tokens \in Nat /\ Tokens \in Nat /\ tokens <= Tokens
      BY <2>1, Amounts, Constants
    <3> HIDE DEF paid
    <3>2. QED
      BY <3>1
  <2>4. joined' \in 0 .. Total /\ RadFromWad(tokens') + joined' <= Total
    <3> DEFINE paid == RadFromWad(amount["join"])
               have == RadFromWad(tokens)
    <3>1. /\ paid \in Nat /\ have \in Nat /\ paid <= have /\ joined' = joined + paid
          /\ RadFromWad(tokens') = have - paid /\ have + joined <= Total
      BY <1>2, <2>1, <2>2
    <3>2. joined \in Nat /\ Total \in Nat
      BY Amounts, Constants
    <3> HIDE DEF paid, have
    <3>3. QED
      BY <3>1, <3>2
  <2>5. QED
    BY <1>2, <1>3, <2>1, <2>3, <2>4, Amounts DEF Bounded, RadFromWad
<1>4. CASE active \in Buy
  <2> PICK sale \in Valid(active) :
           /\ joined' = joined - sale.paid
           /\ left' = [left EXCEPT ![target[active]] = sale.rest]
    BY <1>4, Constants DEF Effect, BuyCollateral
  <2>1. /\ joined >= sale.paid /\ sale.paid \in Nat /\ sale.rest \in 0 .. Raise
        /\ joined' = joined - sale.paid /\ tokens' = tokens
        /\ left' = [left EXCEPT ![target[active]] = sale.rest]
    BY <1>4, DealBounds, Constants DEF Valid, Effect, BuyCollateral
  <2>2. joined' \in 0 .. Total /\ RadFromWad(tokens) + joined' <= Total
    <3> DEFINE paid == sale.paid
               have == RadFromWad(tokens)
    <3>1. /\ paid \in Nat /\ have \in Nat /\ joined >= paid /\ joined' = joined - paid
          /\ have + joined <= Total
      BY <1>2, <2>1
    <3>2. joined \in Nat /\ Total \in Nat
      BY Amounts, Constants
    <3> HIDE DEF paid, have
    <3>3. joined' \in Nat /\ joined' <= joined
      BY <3>1, <3>2
    <3>4. have + joined' <= Total
      BY <3>1, <3>2, <3>3
    <3>5. QED
      BY <3>1, <3>2, <3>3, <3>4 DEF have
  <2>3. target[active] \in Auction
    BY <1>4, Amounts
  <2>6. left' \in [Auction -> 0 .. Raise]
    BY <2>1, <2>3, Amounts
  <2>7. tokens' \in 0 .. Tokens
    BY <2>1, Amounts, Constants
  <2>8. QED
    BY <1>2, <1>4, <2>1, <2>2, <2>6, <2>7 DEF Bounded, RadFromWad
<1>5. QED
  BY <1>1, <1>3, <1>4, Constants
-----------------------------------------------------------------------------
(* A step of the keeper or of others that leaves the queue, what was bid   *)
(* and the funds alone.                                                    *)
LEMMA KeeperStep ==
  ASSUME BInv, IInv', UNCHANGED <<vars, funds, amount, target, record>>,
         started' \in BOOLEAN, coinBalance' \in 0 .. Total, sold' \subseteq Auction,
         call' \in [Pass -> CallState], dead' \in BOOLEAN,
         Turns'
  PROVE  BInv'
<1>1. /\ buffer' = buffer /\ active' = active /\ soFar' = soFar
      /\ subscribed' = subscribed /\ accepted' = accepted
      /\ completed' = completed /\ landed' = landed /\ tokens' = tokens
      /\ joined' = joined /\ left' = left /\ amount' = amount /\ target' = target
      /\ faults' = faults /\ contended' = contended /\ refused' = refused
  BY DEF vars, pipeline, history, funds, record
<1>2. BiddingTypeOK'
  BY <1>1 DEF BInv, BiddingTypeOK, IInv, Total, RadFromWad, CallState
<1>3. Bounded' /\ Ready' /\ DeathHasCause'
  BY <1>1
  DEF BInv, Bounded, Total, RadFromWad, Ready, JoinPayable, BidPayable, Waiting,
      Patient, Ended, Good, DeathHasCause, Elements
<1>4. QED
  BY <1>2, <1>3 DEF BInv

(* A task is queued: it can be paid, or it can be spoilt.                  *)
LEMMA AddStep ==
  ASSUME BInv, IInv', NEW t \in Task, AddTransaction(t),
         UNCHANGED <<funds, faults, refused>>,
         amount' \in [Task -> 0 .. Total], target' \in [Buy -> Auction],
         \A u \in Task \ {t} : amount'[u] = amount[u],
         \A u \in Buy \ {t} : /\ target'[u] = target[u]
                              /\ u \in contended' <=> u \in contended,
         t = "join" => tokens >= amount'[t],
         t \in Buy /\ t \notin contended'
           => /\ Outstanding = <<>>
              /\ joined >= RadFromWad(amount'[t]) /\ left[target'[t]] > 0,
         contended' \subseteq Buy
  PROVE  Ready' /\ DeathHasCause' /\ Bounded'
<1>1. /\ t \notin Elements(accepted) /\ completed' = completed /\ landed' = landed
      /\ Elements(landed) \subseteq Elements(accepted)
      /\ accepted \in Seq(Task) /\ landed \in Seq(Task) /\ buffer \in Seq(Task)
      /\ tokens' = tokens /\ joined' = joined /\ left' = left /\ faults' = faults
      /\ refused' = refused /\ faults \in Nat
  BY Amounts DEF AddTransaction, BInv, IInv, OnceEach, funds
<1>2. Bounded'
  BY <1>1 DEF BInv, Bounded, Total, RadFromWad
<1>3. ASSUME NEW u \in Elements(accepted)
      PROVE  /\ u \in Task /\ u # t
             /\ Good(u)' <=> Good(u)
             /\ amount'[u] = amount[u]
             /\ u \in contended' <=> u \in contended
             /\ u \in Buy => target'[u] = target[u]
  <2>1. u \in Task /\ u # t
    BY <1>1 DEF Elements
  <2>2. /\ amount'[u] = amount[u]
        /\ u \in contended' <=> u \in contended
        /\ u \in Buy => target'[u] = target[u]
    <3>1. CASE u \in Buy
      BY <2>1, <3>1
    <3>2. CASE u = "join"
      <4>1. u \notin Buy /\ u \notin contended /\ u \notin contended'
        BY <3>2, Constants DEF BInv, BiddingTypeOK
      <4>2. QED
        BY <2>1, <4>1
    <3>3. QED
      BY <2>1, <3>1, <3>2, Constants
  <2>3. Good(u)' <=> Good(u)
    BY <1>1, <2>2 DEF Good, Elements
  <2>4. QED
    BY <2>1, <2>2, <2>3
<1>4. CASE Ignore(t)
  <2>1. /\ UNCHANGED <<buffer, active, soFar, subscribed, accepted>> /\ ~subscribed
        /\ active = None
    BY <1>4 DEF Ignore, pipeline, BInv, IInv, Coherent
  <2> DEFINE e == accepted[Len(completed) + 1]
  <2>2. e \in Elements(accepted)
    BY <2>1 DEF BInv, Ready, Ended, Elements
  <2>3. DeathHasCause'
    <3>1. \/ e \in contended \/ e \in refused \/ e \in Elements(landed)
          \/ e \in Buy /\ (amount[e] = 0 \/ amount[e] < MinimumBid)
      BY <2>1 DEF BInv, DeathHasCause
    <3>2. e \in contended => e \in contended'
      BY <1>3, <2>2 DEF BInv, BiddingTypeOK
    <3>3. amount'[e] = amount[e] /\ e' = e /\ Elements(landed)' = Elements(landed)
      BY <1>1, <1>3, <2>1, <2>2 DEF Elements
    <3> HIDE DEF e
    <3>4. \/ e \in contended' \/ e \in refused \/ e \in Elements(landed)
          \/ e \in Buy /\ (amount'[e] = 0 \/ amount'[e] < MinimumBid)
      BY <3>1, <3>2, <3>3
    <3>5. QED
      BY <1>1, <2>1, <3>3, <3>4 DEF DeathHasCause, e
  <2>4. JoinPayable'
    BY <1>1, <1>3, <2>1 DEF JoinPayable, BInv, Ready, Elements
  <2>5. BidPayable' /\ Patient'
    BY <2>1, Constants DEF BidPayable, Patient
  <2>6. Waiting' /\ Ended'
    <3>1. Elements(buffer) \cap Buy = {} /\ Elements(buffer)' = Elements(buffer)
      BY <2>1, Members DEF Elements
    <3>2. QED
      BY <1>1, <2>1, <3>1 DEF Waiting, Ended, BInv, Ready
  <2>7. QED
    BY <1>2, <2>3, <2>4, <2>5, <2>6 DEF Ready
<1>5. CASE Accept(t)
  <2>1. /\ subscribed /\ subscribed' /\ accepted' = Append(accepted, t)
        /\ active = None => active' = t /\ soFar' = 0 /\ buffer' = buffer
        /\ active # None => /\ buffer' = Append(buffer, t)
                            /\ active' = active /\ soFar' = soFar
    BY <1>5 DEF Accept, Start
  <2>2. Elements(accepted') = Elements(accepted) \cup {t}
    BY <1>1, <2>1, AppendElements
  <2>3. JoinPayable'
    <3> SUFFICES ASSUME "join" \in Elements(accepted') \ Elements(landed')
                 PROVE  tokens >= amount'["join"]
      BY <1>1 DEF JoinPayable, Elements
    <3>1. CASE t = "join"
      BY <3>1
    <3>2. CASE t # "join"
      <4>1. "join" \in Elements(accepted) \ Elements(landed)
        BY <1>1, <2>2, <3>2 DEF Elements
      <4>2. QED
        BY <1>3, <4>1 DEF BInv, Ready, JoinPayable
    <3>3. QED
      BY <3>1, <3>2
  <2>4. CASE active = None
    <3>1. active' = t /\ soFar' = 0 /\ buffer' = <<>>
      BY <2>1, <2>4, Members
    <3>2. BidPayable'
      BY <1>1, <3>1 DEF BidPayable, Good, RadFromWad
    <3>3. Waiting' /\ Patient'
      BY <1>1, <3>1 DEF Waiting, Patient, Elements
    <3>4. QED
      BY <1>2, <2>1, <2>3, <3>2, <3>3 DEF Ready, Ended, DeathHasCause
  <2>5. CASE active # None
    <3>1. buffer' = Append(buffer, t) /\ active' = active /\ soFar' = soFar
      BY <2>1, <2>5
    <3>2. active \in Elements(accepted) /\ Outstanding # <<>>
          /\ Elements(buffer) \subseteq Elements(accepted)
      BY <2>5, Members
    <3>3. Good(active)' <=> Good(active)
      <4> SUFFICES ASSUME NEW a \in Elements(accepted), a = active, active' = a
                   PROVE  Good(active)' <=> Good(active)
        BY <3>1, <3>2
      <4>1. Good(a)' <=> Good(a)
        BY <1>3
      <4>2. QED
        BY <1>1, <4>1 DEF Good, Elements
    <3>4. /\ active \in Buy => /\ amount'[active] = amount[active]
                              /\ target'[active] = target[active]
      BY <1>3, <3>2
    <3>5. BidPayable'
      BY <1>1, <3>1, <3>3, <3>4 DEF BInv, Ready, BidPayable, RadFromWad, Good, Elements
    <3>6. Patient'
      BY <1>1, <3>1, <3>3 DEF BInv, Ready, Patient, Good, Elements
    <3>7. Waiting'
      <4>1. Elements(buffer') = Elements(buffer) \cup {t}
        BY <1>1, <3>1, AppendElements
      <4>2. t \in Buy => t \in contended'
        BY <3>2
      <4>3. \A u \in Elements(buffer) \cap Buy : u \in contended'
        BY <1>3, <3>2 DEF BInv, Ready, Waiting
      <4>4. QED
        BY <4>1, <4>2, <4>3 DEF Waiting, Elements
    <3>8. QED
      BY <1>2, <2>1, <2>3, <3>5, <3>6, <3>7 DEF Ready, Ended, DeathHasCause
  <2>6. QED
    BY <2>4, <2>5
<1>6. QED
  BY <1>4, <1>5 DEF AddTransaction
-----------------------------------------------------------------------------
(* An attempt fails: unseen on chain or not, and never for a good task but *)
(* by the network's fault.                                                 *)
LEMMA RejectedStep ==
  ASSUME BInv, IInv', Rejected, UNCHANGED <<keeper, contended>>,
         refused \subseteq refused', refused' \subseteq Buy,
         faults' \in 0 .. MaxFaults, faults' >= faults,
         \/ /\ landed' = landed /\ UNCHANGED funds
            /\ \/ ~Good(active) \/ active \in refused'
               \/ faults < MaxFaults /\ faults' = faults + 1
         \/ landed' = Append(landed, active) /\ Possible(active) /\ Effect(active)
  PROVE  BInv'
<1>1. /\ phase = "attempt" /\ active # None /\ active \in Task /\ subscribed
      /\ accepted' = accepted /\ completed' = completed
      /\ amount' = amount /\ target' = target /\ contended' = contended
      /\ Len(completed) + 1 \in DOMAIN accepted
      /\ accepted[Len(completed) + 1] = active
      /\ active \in Elements(accepted)
  BY ActiveIsNext, Members
  DEF BInv, IInv, Coherent, Rejected, AttemptFails, RetriesExhausted, keeper
<1>2. /\ tokens' \in 0 .. Tokens /\ joined' \in 0 .. Total
      /\ left' \in [Auction -> 0 .. Raise] /\ Bounded'
      /\ \/ tokens' = tokens
         \/ landed' = Append(landed, active) /\ active = "join"
  <2>1. CASE UNCHANGED funds
    BY <2>1 DEF funds, BInv, BiddingTypeOK, Bounded, Total, RadFromWad
  <2>2. CASE landed' = Append(landed, active) /\ Possible(active) /\ Effect(active)
    BY <1>1, <2>2, EffectTypes
  <2>3. QED
    BY <2>1, <2>2
<1>3. BiddingTypeOK'
  BY <1>1, <1>2 DEF BInv, BiddingTypeOK, IInv, Total, RadFromWad, keeper, record
<1>4. /\ Elements(landed) \subseteq Elements(landed')
      /\ landed' = Append(landed, active) => active \in Elements(landed')
  <2>1. landed \in Seq(Task)
    BY Amounts
  <2>2. CASE landed' = landed
    <3>1. landed # Append(landed, active)
      <4>1. Len(Append(landed, active)) = Len(landed) + 1 /\ Len(landed) \in Nat
        BY <1>1, <2>1, AppendElements
      <4>2. QED
        BY <4>1
    <3>2. QED
      BY <2>2, <3>1
  <2>3. CASE landed' = Append(landed, active)
    BY <1>1, <2>1, <2>3, AppendElements
  <2>4. QED
    BY <2>2, <2>3
<1>5. Turns'
  BY <1>1 DEF BInv, Turns, keeper
<1>6. JoinPayable'
  <2> SUFFICES ASSUME "join" \in Elements(accepted'), "join" \notin Elements(landed')
               PROVE  tokens' >= amount'["join"]
    BY DEF JoinPayable, Elements
  <2>1. "join" \notin Elements(landed) /\ tokens' = tokens
    BY <1>2, <1>4
  <2>2. QED
    BY <1>1, <2>1 DEF BInv, Ready, JoinPayable
<1>7. CASE AttemptFails
  <2>1. active' = active /\ buffer' = buffer /\ soFar' = soFar + 1 /\ subscribed'
    BY <1>1, <1>7 DEF AttemptFails
  <2>2. ASSUME Good(active)'
        PROVE  /\ Good(active) /\ landed' = landed /\ UNCHANGED funds
               /\ faults' = faults + 1
    <3>1. /\ active \notin contended /\ active \notin Elements(landed')
          /\ active \notin refused'
          /\ active \in Buy => amount[active] > 0 /\ amount[active] >= MinimumBid
      BY <1>1, <2>1, <2>2 DEF Good, Elements
    <3>2. Good(active)
      BY <1>4, <3>1 DEF Good
    <3>3. QED
      BY <1>4, <3>1, <3>2
  <2>3. BidPayable'
    BY <1>1, <2>1, <2>2 DEF BInv, Ready, BidPayable, funds, RadFromWad
  <2>4. Patient'
    <3> SUFFICES ASSUME Good(active)' PROVE soFar' <= faults'
      BY DEF Patient
    <3>1. soFar <= faults /\ soFar \in Nat /\ faults \in Nat
      BY <1>1, <2>2, Amounts DEF BInv, Ready, Patient
    <3>2. QED
      BY <2>1, <2>2, <3>1
  <2>5. Waiting' /\ Ended' /\ DeathHasCause'
    BY <1>1, <2>1 DEF BInv, Ready, Waiting, Ended, DeathHasCause, Elements
  <2>6. QED
    BY <1>2, <1>3, <1>6, <1>5, <2>3, <2>4, <2>5 DEF BInv, Ready
<1>8. CASE RetriesExhausted
  <2>1. active' = None /\ buffer' = <<>> /\ soFar = RetryCount /\ ~subscribed'
    BY <1>8 DEF RetriesExhausted, Rest
  <2>2. BidPayable' /\ Patient'
    BY <2>1, Constants DEF BidPayable, Patient
  <2>3. Waiting' /\ Ended'
    BY <1>1, <2>1 DEF Waiting, Ended, Elements
  <2>4. ~Good(active) \/ active \in refused' \/ active \in Elements(landed')
    <3>1. CASE faults < MaxFaults /\ Good(active)
      <4>1. soFar <= faults
        BY <1>1, <3>1 DEF BInv, Ready, Patient
      <4>2. QED
        BY <2>1, <3>1, <4>1, Amounts, Constants
    <3>2. CASE landed' = Append(landed, active)
      BY <1>4, <3>2
    <3>3. QED
      BY <3>1, <3>2
  <2>5. \/ active \in contended
        \/ active \in refused'
        \/ active \in Elements(landed')
        \/ active \in Buy /\ (amount[active] = 0 \/ amount[active] < MinimumBid)
    <3>1. amount[active] \in Nat /\ MinimumBid \in Nat
      BY <1>1, Amounts, Constants
    <3>2. QED
      BY <1>4, <2>4, <3>1 DEF Good
  <2>6. DeathHasCause'
    BY <1>1, <2>5 DEF DeathHasCause, Elements
  <2>7. QED
    BY <1>2, <1>3, <1>6, <1>5, <2>2, <2>3, <2>6 DEF BInv, Ready
<1>9. QED
  BY <1>7, <1>8 DEF Rejected

(* A transaction is seen to succeed, and the next task starts. *)
LEMMA LandsStep ==
  ASSUME BInv, IInv', AttemptLands
  PROVE  BInv'
<1>1. /\ AttemptSucceeds /\ Possible(active) /\ Effect(active)
      /\ UNCHANGED <<started, sold, amount, target, call, dead, record>>
      /\ faults' = faults /\ contended' = contended /\ refused' = refused
      /\ coinBalance' = IF active = "join" THEN joined' ELSE coinBalance
      /\ active # None /\ active \in Task /\ subscribed /\ subscribed'
      /\ accepted' = accepted /\ landed' = Append(landed, active)
      /\ landed \in Seq(Task) /\ buffer \in Seq(Task)
  BY ActiveIsNext, Amounts
  DEF AttemptLands, AttemptSucceeds, BInv, IInv, Coherent, record
<1>2. /\ tokens' \in 0 .. Tokens /\ joined' \in 0 .. Total
      /\ left' \in [Auction -> 0 .. Raise] /\ Bounded'
      /\ active # "join" => tokens' = tokens
  BY <1>1, EffectTypes
<1>3. coinBalance' \in 0 .. Total
  BY <1>1, <1>2 DEF BInv, BiddingTypeOK, Total
<1>4. BiddingTypeOK'
  BY <1>1, <1>2, <1>3 DEF BInv, BiddingTypeOK, IInv, Total, RadFromWad
<1>5. Elements(landed') = Elements(landed) \cup {active}
  BY <1>1, AppendElements
<1>6. JoinPayable'
  BY <1>1, <1>2, <1>5 DEF JoinPayable, BInv, Ready, Elements
<1>7. /\ soFar' = 0 /\ faults \in Nat
      /\ active' # None => active' \in Elements(buffer)
      /\ Elements(buffer') \subseteq Elements(buffer)
  <2>1. CASE buffer = <<>>
    BY <1>1, <2>1, Amounts DEF AttemptSucceeds, Rest
  <2>2. CASE buffer # <<>>
    <3>1. soFar' = 0 /\ active' = Head(buffer) /\ buffer' = Tail(buffer)
      BY <1>1, <2>2 DEF AttemptSucceeds, Start
    <3>2. /\ 1 \in DOMAIN buffer /\ Head(buffer) = buffer[1]
          /\ \A i \in DOMAIN Tail(buffer) : /\ i + 1 \in DOMAIN buffer
                                           /\ Tail(buffer)[i] = buffer[i + 1]
      BY <1>1, <2>2
    <3>3. QED
      BY <3>1, <3>2, Amounts DEF Elements
  <2>3. QED
    BY <2>1, <2>2
<1>8. Waiting'
  BY <1>1, <1>7 DEF BInv, Ready, Waiting, Elements
<1>9. BidPayable'
  <2> SUFFICES ASSUME active' \in Buy PROVE ~Good(active)'
    BY DEF BidPayable
  <2>1. active' \in contended'
    BY <1>1, <1>7, Constants DEF BInv, Ready, Waiting
  <2>2. QED
    BY <2>1 DEF Good
<1>10. Patient' /\ Ended' /\ DeathHasCause'
  BY <1>1, <1>7 DEF Patient, Ended, DeathHasCause
<1>11. Turns'
  BY <1>1 DEF BInv, Turns
<1>12. QED
  BY <1>2, <1>4, <1>6, <1>8, <1>9, <1>10, <1>11 DEF BInv, Ready
-----------------------------------------------------------------------------
(* The other steps that queue or spoil something. *)
LEMMA JoinStep ==
  ASSUME BInv, IInv', JoinSystemCoins
  PROVE  BInv'
<1>1. /\ UNCHANGED <<funds, sold, target, call, dead, record>> /\ started'
      /\ tokens \in Nat /\ tokens <= Tokens /\ joined \in 0 .. Total
      /\ "join" \in Task /\ "join" \notin Buy
  BY Amounts, Constants DEF JoinSystemCoins, BInv, BiddingTypeOK, Total, record
<1>2. CASE tokens = 0
  <2>1. UNCHANGED <<vars, funds, amount, target, record, dead, sold, call>>
        /\ coinBalance' = joined
    BY <1>1, <1>2 DEF JoinSystemCoins
  <2>2. /\ started' \in BOOLEAN /\ coinBalance' \in 0 .. Total /\ Turns'
        /\ sold' \subseteq Auction /\ dead' \in BOOLEAN
        /\ call' \in [Pass -> CallState]
    BY <1>1, <2>1 DEF JoinSystemCoins, BInv, BiddingTypeOK, Turns, Total, CallState
  <2>3. QED
    BY <2>1, <2>2, KeeperStep
<1>3. CASE tokens # 0
  <2>1. /\ AddTransaction("join") /\ amount' = [amount EXCEPT !["join"] = tokens]
        /\ coinBalance' = coinBalance /\ started' = TRUE
    BY <1>3 DEF JoinSystemCoins
  <2>2. tokens \in 0 .. Total
    <3>1. Tokens <= RadFromWad(Tokens) /\ RadFromWad(Tokens) \in Nat
      BY Rads, Constants
    <3>2. RadFromWad(Tokens) <= Total
      BY <3>1, Constants DEF Total
    <3>3. QED
      BY <1>1, <3>1, <3>2, Constants
  <2>3. /\ amount' \in [Task -> 0 .. Total] /\ amount'["join"] = tokens
        /\ \A u \in Task \ {"join"} : amount'[u] = amount[u]
    BY <1>1, <2>1, <2>2, Amounts
  <2>4. target' = target /\ contended' = contended /\ call' = call /\ sold' = sold
        /\ faults' = faults /\ refused' = refused /\ dead' = dead
    BY <1>1 DEF record
  <2>5. target \in [Buy -> Auction] /\ contended \subseteq Buy
    BY DEF BInv, BiddingTypeOK
  <2>6. Ready' /\ DeathHasCause' /\ Bounded'
    BY <1>1, <2>1, <2>3, <2>4, <2>5, AddStep
  <2>7. BiddingTypeOK' /\ Turns'
    BY <1>1, <2>1, <2>3, <2>4
    DEF BInv, BiddingTypeOK, IInv, Turns, funds, Total, RadFromWad
  <2>8. QED
    BY <2>6, <2>7 DEF BInv
<1>4. QED
  BY <1>2, <1>3

LEMMA BidStep ==
  ASSUME BInv, IInv', NEW p \in Pass, NEW t \in Buy, BuyIn(p, t)
  PROVE  BInv'
<1> DEFINE seen == call[p].seen
           at == call[p].at
           wad == WadFromRad(seen)
<1>1. /\ seen \in 0 .. Total /\ at \in Auction /\ AddTransaction(t)
      /\ coinBalance' = seen /\ amount' = [amount EXCEPT ![t] = wad]
      /\ target' = [target EXCEPT ![t] = at]
      /\ contended' = IF Alone(p) THEN contended \ {t} ELSE contended \cup {t}
      /\ UNCHANGED <<funds, started, sold, dead, faults, refused>>
      /\ t \in Task /\ t # "join"
  BY Constants DEF BuyIn, BInv, BiddingTypeOK, Turns, Total
<1>2. seen \in Nat /\ seen <= Total
  BY <1>1, Constants
<1>3. wad \in 0 .. Total /\ RadFromWad(wad) <= seen
  <2>1. wad \in Nat /\ RadFromWad(wad) <= seen /\ wad <= seen
    BY <1>2, WholeWad
  <2> HIDE DEF wad, seen
  <2>2. QED
    BY <1>2, <2>1, Constants
<1>4. Alone(p) <=> Outstanding = <<>> /\ seen = joined /\ left[at] > 0
  BY DEF Alone
<1>5. call' \in [Pass -> CallState] /\ Turns'
  <2>1. call \in [Pass -> CallState] /\ 0 \in 0 .. Total /\ Turns
    BY Constants DEF BInv, BiddingTypeOK, Total, CallState
  <2>2. call' = [call EXCEPT ![p] = [call[p] EXCEPT !.pc = "reload", !.seen = 0]]
    BY DEF BuyIn
  <2> DEFINE c == [call[p] EXCEPT !.pc = "reload", !.seen = 0]
  <2>3. c \in CallState /\ c.at = at
    BY <2>1 DEF CallState
  <2>4. call' = [call EXCEPT ![p] = c]
    BY <2>2
  <2> HIDE DEF c
  <2>5. QED
    BY <1>1, <2>1, <2>3, <2>4 DEF Turns
<1> HIDE DEF wad, seen, at
<1>6. /\ amount' \in [Task -> 0 .. Total] /\ amount'[t] = wad
      /\ \A u \in Task \ {t} : amount'[u] = amount[u]
      /\ target' \in [Buy -> Auction] /\ target'[t] = at
      /\ \A u \in Buy \ {t} : target'[u] = target[u]
  BY <1>1, <1>3, Amounts
<1>7. /\ contended' \subseteq Buy
      /\ \A u \in Buy \ {t} : u \in contended' <=> u \in contended
      /\ t \notin contended' => Alone(p)
  BY <1>1 DEF BInv, BiddingTypeOK
<1>8. Ready' /\ DeathHasCause' /\ Bounded'
  <2>1. t \notin contended' => /\ Outstanding = <<>>
                              /\ joined >= RadFromWad(amount'[t])
                              /\ left[target'[t]] > 0
    BY <1>3, <1>4, <1>6, <1>7
  <2>2. \A u \in Buy \ {t} : /\ target'[u] = target[u]
                            /\ u \in contended' <=> u \in contended
    BY <1>6, <1>7
  <2>3. QED
    BY <1>1, <1>6, <1>7, <2>1, <2>2, AddStep
<1>9. BiddingTypeOK'
  BY <1>1, <1>5, <1>6, <1>7
  DEF BInv, BiddingTypeOK, IInv, funds, Total, RadFromWad, CallState
<1>10. QED
  BY <1>5, <1>8, <1>9 DEF BInv

LEMMA OtherBidsStep ==
  ASSUME BInv, IInv', NEW a \in Others, OtherBids(a)
  PROVE  BInv'
<1>1. a \in Auction
  BY UnitAssumption
<1>2. PICK n \in (0 .. left[a] - 1) \ Invalid :
        /\ left' = [left EXCEPT ![a] = n]
        /\ contended' = IF n > 0 THEN contended
                        ELSE contended \cup {t \in Buy : target[t] = a}
  BY DEF OtherBids
<1>3. n \in Nat /\ n \in 0 .. Raise
  BY <1>1, <1>2, Amounts, Constants
<1>4. /\ buffer' = buffer /\ active' = active /\ soFar' = soFar
      /\ subscribed' = subscribed /\ accepted' = accepted
      /\ completed' = completed /\ landed' = landed /\ tokens' = tokens
      /\ joined' = joined /\ amount' = amount /\ target' = target
      /\ faults' = faults /\ refused' = refused
      /\ UNCHANGED <<started, coinBalance, sold, call, dead>>
  BY DEF OtherBids, vars, pipeline, history, keeper
<1>5. left' \in [Auction -> 0 .. Raise]
  BY <1>2, <1>3, Amounts
<1>6. /\ contended \subseteq contended' /\ contended' \subseteq Buy
      /\ \A t \in Buy : target[t] = a /\ t \notin contended' => n > 0
  BY <1>2 DEF BInv, BiddingTypeOK
<1>7. BiddingTypeOK' /\ Bounded' /\ Turns'
  BY <1>4, <1>5, <1>6
  DEF BInv, BiddingTypeOK, IInv, Bounded, Turns, Total, RadFromWad
<1>8. BidPayable'
  <2> SUFFICES ASSUME active \in Buy, Good(active)'
               PROVE  /\ joined >= RadFromWad(amount[active])
                      /\ left'[target[active]] > 0
    BY <1>4 DEF BidPayable, RadFromWad
  <2>1. active \notin contended' /\ Good(active)
    BY <1>4, <1>6 DEF Good, Elements
  <2>2. joined >= RadFromWad(amount[active]) /\ left[target[active]] > 0
    BY <2>1 DEF BInv, Ready, BidPayable
  <2>3. CASE target[active] = a
    BY <1>1, <1>2, <1>6, <2>1, <2>2, <2>3, Amounts
  <2>4. CASE target[active] # a
    <3>1. left'[target[active]] = left[target[active]]
      BY <1>2, <2>4, Amounts
    <3>2. QED
      BY <2>2, <3>1
  <2>5. QED
    BY <2>3, <2>4
<1>9. JoinPayable' /\ Waiting' /\ Ended'
  BY <1>4, <1>6 DEF BInv, Ready, JoinPayable, Waiting, Ended, Elements
<1>10. Patient' /\ DeathHasCause'
  <2>1. Good(active)' => Good(active)
    BY <1>4, <1>6 DEF Good, Elements
  <2>2. QED
    BY <1>4, <1>6, <2>1 DEF BInv, Ready, Patient, DeathHasCause, Elements
<1>11. QED
  BY <1>7, <1>8, <1>9, <1>10 DEF BInv, Ready
-----------------------------------------------------------------------------
(* A call goes on: it is at an auction when it is about to bid or to reload. *)
LEMMA CallStep ==
  ASSUME BInv, NEW p \in Pass, NEW c \in CallState, call' = [call EXCEPT ![p] = c],
         c.pc \in {"buy", "reload"} => c.at \in Auction
  PROVE  call' \in [Pass -> CallState] /\ Turns'
<1>1. call \in [Pass -> CallState] /\ Turns
  BY DEF BInv, BiddingTypeOK, CallState, Total
<1>2. QED
  BY <1>1 DEF Turns

(* The steps of a call other than the bid. *)
LEMMA PassesStep ==
  ASSUME BInv, IInv', NEW p \in Pass,
         HandleBidding(p) \/ NextAuction(p) \/ PassOver(p) \/ Reload(p)
  PROVE  BInv'
<1>1. /\ call \in [Pass -> CallState] /\ started \in BOOLEAN /\ dead \in BOOLEAN
      /\ coinBalance \in 0 .. Total /\ sold \subseteq Auction /\ Turns
      /\ joined \in 0 .. Total /\ 0 \in 0 .. Total
  BY Constants DEF BInv, BiddingTypeOK, CallState, Total
<1>2. UNCHANGED <<vars, funds, started, amount, target, dead, record>>
  BY DEF HandleBidding, NextAuction, PassOver, Reload
<1>3. /\ coinBalance' \in 0 .. Total /\ sold' \subseteq Auction
      /\ call' \in [Pass -> CallState] /\ Turns'
  <2>1. CASE HandleBidding(p)
    <3> DEFINE c == [call[p] EXCEPT !.pc = "auction"]
    <3>1. c \in CallState /\ c.pc = "auction"
      BY <1>1 DEF CallState
    <3>2. call' = [call EXCEPT ![p] = c] /\ UNCHANGED <<coinBalance, sold>>
      BY <2>1 DEF HandleBidding
    <3> HIDE DEF c
    <3>3. QED
      BY <1>1, <3>1, <3>2, CallStep
  <2>2. CASE NextAuction(p)
    <3>1. CASE call' = [call EXCEPT ![p] = Idle]
      <4>1. Idle \in CallState /\ Idle.pc = "idle"
        BY <1>1 DEF Idle, CallState
      <4>2. QED
        BY <1>1, <2>2, <3>1, <4>1, CallStep DEF NextAuction
    <3>2. ASSUME NEW a \in Ahead(p),
                 call' = [call EXCEPT ![p] = [pc |-> "buy", at |-> a, seen |-> joined]]
          PROVE  call' \in [Pass -> CallState] /\ Turns'
      <4> DEFINE c == [pc |-> "buy", at |-> a, seen |-> joined]
      <4>1. c \in CallState /\ c.at \in Auction
        BY <1>1 DEF CallState, Ahead
      <4>2. call' = [call EXCEPT ![p] = c]
        BY <3>2
      <4> HIDE DEF c
      <4>3. QED
        BY <4>1, <4>2, CallStep
    <3>3. QED
      BY <1>1, <2>2, <3>1, <3>2 DEF NextAuction
  <2>3. CASE PassOver(p)
    <3> DEFINE c == [call[p] EXCEPT !.pc = "auction"]
    <3>1. c \in CallState /\ c.pc = "auction"
      BY <1>1 DEF CallState
    <3>2. call' = [call EXCEPT ![p] = c] /\ coinBalance' = 0 /\ sold' = sold
      BY <2>3 DEF PassOver
    <3> HIDE DEF c
    <3>3. QED
      BY <1>1, <3>1, <3>2, CallStep
  <2>4. CASE Reload(p)
    <3> DEFINE c == [call[p] EXCEPT !.pc = "auction"]
    <3>1. c \in CallState /\ c.pc = "auction"
      BY <1>1 DEF CallState
    <3>2. /\ call' = [call EXCEPT ![p] = c] /\ coinBalance' = coinBalance
          /\ sold' \subseteq sold \cup {call[p].at} /\ call[p].at \in Auction
      BY <1>1, <2>4 DEF Reload, Turns
    <3> HIDE DEF c
    <3>3. QED
      BY <1>1, <3>1, <3>2, CallStep
  <2>5. QED
    BY <2>1, <2>2, <2>3, <2>4
<1>4. started' \in BOOLEAN /\ dead' \in BOOLEAN
  BY <1>1, <1>2
<1>5. QED
  BY <1>2, <1>3, <1>4, KeeperStep

(* The steps of the queue. *)
LEMMA QueueStep ==
  ASSUME BInv, IInv', Queue
  PROVE  BInv'
<1>1. CASE AttemptLands
  BY <1>1, LandsStep
<1>2. faults \in Nat /\ faults <= MaxFaults /\ MaxFaults \in Nat
  BY Amounts, Constants
<1>3. Rejected => active # None
  BY DEF Rejected, AttemptFails, RetriesExhausted, BInv, IInv, Coherent
<1>4. CASE AttemptReverts
  <2>1. ~Good(active)
    BY <1>3, <1>4, GoodSound DEF AttemptReverts
  <2>2. /\ faults' = faults /\ faults' \in 0 .. MaxFaults /\ faults' >= faults
        /\ refused' = refused /\ contended' = contended
    BY <1>2, <1>4 DEF AttemptReverts, record
  <2>3. refused \subseteq refused' /\ refused' \subseteq Buy
    BY <2>2 DEF BInv, BiddingTypeOK
  <2>4. QED
    BY <1>4, <2>1, <2>2, <2>3, RejectedStep DEF AttemptReverts
<1>4a. CASE HouseRefuses
  <2>1. /\ faults' = faults /\ faults' \in 0 .. MaxFaults /\ faults' >= faults
        /\ active \in refused'
    BY <1>2, <1>4a DEF HouseRefuses
  <2>2. refused \subseteq refused' /\ refused' \subseteq Buy
    BY <1>4a DEF HouseRefuses, BInv, BiddingTypeOK
  <2>3. QED
    BY <1>4a, <2>1, <2>2, RejectedStep DEF HouseRefuses
<1>5. CASE NetworkFails
  <2>1. /\ faults < MaxFaults /\ faults' = faults + 1
        /\ faults' \in 0 .. MaxFaults /\ faults' >= faults
    BY <1>2, <1>5 DEF NetworkFails
  <2>2. landed' = landed \/ landed' = Append(landed, active)
    BY <1>5 DEF NetworkFails, Rejected, AttemptFails, RetriesExhausted, MayLand
  <2>3. refused \subseteq refused' /\ refused' \subseteq Buy
    BY <1>5 DEF NetworkFails, BInv, BiddingTypeOK
  <2>4. QED
    BY <1>5, <2>1, <2>2, <2>3, RejectedStep DEF NetworkFails
<1>6. CASE QueueRetries
  <2>1. /\ buffer' = buffer /\ active' = active /\ soFar' = soFar
        /\ subscribed' = subscribed /\ accepted' = accepted
        /\ completed' = completed /\ landed' = landed /\ tokens' = tokens
        /\ joined' = joined /\ left' = left /\ amount' = amount /\ target' = target
        /\ faults' = faults /\ contended' = contended /\ refused' = refused
        /\ UNCHANGED <<started, coinBalance, sold, call, dead>>
    BY <1>6 DEF QueueRetries, RetryDelayElapses, history, funds, keeper, record
  <2>2. BiddingTypeOK' /\ Turns' /\ Bounded'
    BY <2>1 DEF BInv, BiddingTypeOK, IInv, Turns, Bounded, Total, RadFromWad
  <2>3. Ready' /\ DeathHasCause'
    BY <2>1
    DEF BInv, RadFromWad, Ready, JoinPayable, BidPayable, Waiting, Patient, Ended,
        Good, DeathHasCause, Elements
  <2>4. QED
    BY <2>2, <2>3 DEF BInv
<1>7. QED
  BY <1>1, <1>4, <1>5, <1>6, <1>4a DEF Queue
-----------------------------------------------------------------------------
THEOREM InitBInv == BiddingInit => BInv
<1> SUFFICES ASSUME BiddingInit PROVE BInv
  OBVIOUS
<1>1. IInv
  BY InitIInv DEF BiddingInit
<1>2. /\ 0 \in 0 .. Total /\ 0 \in 0 .. MaxFaults
      /\ Tokens \in 0 .. Tokens /\ Raise \in 0 .. Raise
      /\ joined \in 0 .. Total /\ RadFromWad(Tokens) + joined <= Total
  BY Constants DEF BiddingInit, Total
<1>3. Idle \in CallState /\ Idle.pc = "idle"
  BY <1>2 DEF Idle, CallState
<1>4. target \in [Buy -> Auction]
  <2>1. ASSUME Buy # {} PROVE (CHOOSE a \in Auction : TRUE) \in Auction
    BY <2>1, UnitAssumption
  <2>2. QED
    BY <2>1 DEF BiddingInit
<1>5. call \in [Pass -> CallState] /\ Turns
  BY <1>3 DEF BiddingInit, Turns
<1>6. BiddingTypeOK
  BY <1>1, <1>2, <1>4, <1>5 DEF BiddingInit, BiddingTypeOK, IInv, CallState, Total
<1>7. Bounded
  BY <1>2 DEF BiddingInit, Bounded
<1>8. Ready /\ DeathHasCause
  <2>1. Elements(accepted) = {} /\ Elements(buffer) = {} /\ active = None /\ subscribed
    BY DEF BiddingInit, Init, Elements
  <2>2. QED
    BY <2>1, Constants
    DEF Ready, JoinPayable, BidPayable, Waiting, Patient, Ended, DeathHasCause
<1>9. QED
  BY <1>1, <1>5, <1>6, <1>7, <1>8 DEF BInv

(* BInv is inductive, whatever calls overlap and others bid. *)
THEOREM NextBInv == BInv /\ [BiddingNext]_all => BInv'
<1> SUFFICES ASSUME BInv, [BiddingNext]_all PROVE BInv'
  OBVIOUS
<1>1. [Next]_vars
  BY Constants
  DEF all, BiddingNext, Queue, AttemptLands, AttemptReverts, HouseRefuses,
      NetworkFails, Rejected, QueueRetries, JoinSystemCoins, ReadBalance, ReadFails,
      Bids, HandleBidding, NextAuction,
      Bid, BuyIn, PassOver, Reload, OtherBids, Next, Step, AttemptSettles
<1>2. IInv'
  BY <1>1, NextIInv DEF BInv
<1>3. CASE Queue
  BY <1>2, <1>3, QueueStep
<1>4. CASE JoinSystemCoins
  BY <1>2, <1>4, JoinStep
<1>5. ASSUME NEW p \in Pass, Bids(p) PROVE BInv'
  BY <1>2, <1>5, PassesStep, BidStep DEF Bids, Bid
<1>6. CASE ReadBalance
  <2>1. UNCHANGED <<vars, funds, started, sold, amount, target, call, dead, record>>
        /\ coinBalance' = joined
    BY <1>6 DEF ReadBalance
  <2>2. /\ started' \in BOOLEAN /\ coinBalance' \in 0 .. Total /\ Turns'
        /\ sold' \subseteq Auction /\ dead' \in BOOLEAN
        /\ call' \in [Pass -> CallState]
    BY <2>1 DEF BInv, BiddingTypeOK, Turns, Total, CallState
  <2>3. QED
    BY <1>2, <2>1, <2>2, KeeperStep
<1>6a. CASE ReadFails
  <2>1. /\ UNCHANGED <<vars, funds, started, coinBalance, sold, amount, target, call,
                      record>>
        /\ dead' = TRUE
    BY <1>6a DEF ReadFails
  <2>2. /\ started' \in BOOLEAN /\ coinBalance' \in 0 .. Total /\ Turns'
        /\ sold' \subseteq Auction /\ dead' \in BOOLEAN
        /\ call' \in [Pass -> CallState]
    BY <2>1 DEF BInv, BiddingTypeOK, Turns, Total, CallState
  <2>3. QED
    BY <1>2, <2>1, <2>2, KeeperStep
<1>7. ASSUME NEW a \in Others, OtherBids(a) PROVE BInv'
  BY <1>2, <1>7, OtherBidsStep
<1>8. CASE UNCHANGED all
  <2>1. /\ UNCHANGED <<vars, funds, amount, target, record>>
        /\ UNCHANGED <<started, coinBalance, sold, call, dead>>
    BY <1>8 DEF all, keeper
  <2>2. /\ started' \in BOOLEAN /\ coinBalance' \in 0 .. Total /\ Turns'
        /\ sold' \subseteq Auction /\ dead' \in BOOLEAN
        /\ call' \in [Pass -> CallState]
    BY <2>1 DEF BInv, BiddingTypeOK, Turns, Total, CallState
  <2>3. QED
    BY <1>2, <2>1, <2>2, KeeperStep
<1>9. QED
  BY <1>3, <1>4, <1>5, <1>6, <1>7, <1>8, <1>6a DEF BiddingNext

THEOREM AlwaysBInv == BiddingSpec => []BInv
  BY InitBInv, NextBInv, PTL DEF BiddingSpec

(* Whatever is bid, joined, refused and raised, no balance is negative, none*)
(* exceeds the coins there were, and no auction raises more than it has to.*)
THEOREM BiddingTypeCorrect == BiddingSpec => []BiddingTypeOK
<1>1. BInv => BiddingTypeOK
  BY DEF BInv
<1>2. QED
  BY <1>1, AlwaysBInv, PTL

(* As long as the network fails no more often than the queue retries, what *)
(* ends the queue is a bid others could spoil, a bid below one WAD or the  *)
(* house's minimum, one the house refused for its prices or for what it    *)
(* would leave to be raised, or the retry of what had landed.              *)
THEOREM DeathHasCauseCorrect == BiddingSpec => []DeathHasCause
<1>1. BInv => DeathHasCause
  BY DEF BInv
<1>2. QED
  BY <1>1, AlwaysBInv, PTL
=============================================================================
