------------------------ MODULE GracefulShutdownProofs ------------------------
(***************************************************************************)
(* Proofs about GracefulShutdown, for any number of bids, auctions and     *)
(* coins, any value of the Ray and any retry count.  They rest on what TransactionQueueProofs    *)
(* shows of the queue: it is FIFO.                                         *)
(***************************************************************************)
EXTENDS GracefulShutdown, TransactionQueueProofs

(* An approval that was executed is on chain. *)
Granted == /\ Done("approve") => allowance = Unlimited
           /\ Done("house") => "house" \in rights
           /\ Done("approveExit") => "joinCoin" \in rights

(* The approval is there; of the tokens' it is enough that startup found   *)
(* some.                                                                   *)
Has(who) == IF who = "allowance"
            THEN allowance = Unlimited \/ currentAllowance # 0
            ELSE who \in rights

(* The approval is there or will be before anything queued from now on.    *)
Queued(task, who) ==
  Has(who) \/ task \in Elements(accepted) \/ ~subscribed

Phases ==
  /\ start = "allowance" => currentAllowance = 0
  /\ start # "allowance" => Queued("approve", "allowance")
  /\ start \notin {"allowance", "house"} => Queued("house", "house")
  /\ bid # "idle" => start = "finished"
  /\ main = "exit" => Queued("approveExit", "joinCoin")

(* Whatever needs an approval has it, or was queued behind it.             *)
Behind(task, who, t) ==
  \A j \in DOMAIN accepted : accepted[j] = t =>
    Has(who) \/ \E i \in DOMAIN accepted : i < j /\ accepted[i] = task

Ordered == /\ Behind("approve", "allowance", "join")
           /\ \A t \in Buy : Behind("house", "house", t)
           /\ Behind("approveExit", "joinCoin", "exitCoin")

(* What startup found approved is there until the join takes it. *)
Untouched ==
  "join" \notin Elements(landed) /\ currentAllowance # 0
    => allowance \in {currentAllowance, Unlimited}

(* No approval is lost by a step. *)
Stays == \A who : Has(who) => Has(who)'

QueuePart == IInv /\ Granted /\ Ordered /\ ExitsTakeAll
GInv == QueuePart /\ GracefulTypeOK /\ Untouched /\ Phases

-----------------------------------------------------------------------------
(* The labels are tasks, and none of them is a bid. *)
LEMMA Labels ==
  /\ {"approve", "house", "join", "exitCollateral", "approveExit", "exitCoin"}
       \subseteq Task
  /\ Buy \subseteq Task
  /\ \A t \in {"approve", "house", "join", "exitCollateral", "approveExit",
               "exitCoin"} : t \notin Buy
BY LabelAssumption

(* What an exit leaves: less than one WAD. *)
LEMMA WholeWad ==
  ASSUME NEW rad \in Nat
  PROVE  /\ WadFromRad(rad) \in Nat /\ RadFromWad(WadFromRad(rad)) \in Nat
         /\ RadFromWad(WadFromRad(rad)) <= rad
         /\ rad - RadFromWad(WadFromRad(rad)) < Ray
<1>1. Ray \in Nat /\ Ray >= 1
  BY RayAssumption
<1> DEFINE w == rad \div Ray
           rest == rad % Ray
<1>2. w \in Nat
  BY <1>1
<1>3. rest \in Nat /\ rest < Ray
  BY <1>1
<1>4. rad = Ray * w + rest
  BY <1>1
<1>5. WadFromRad(rad) = w /\ RadFromWad(w) = w * Ray
  BY DEF WadFromRad, RadFromWad
<1> HIDE DEF w, rest
<1>6. Ray * w = w * Ray /\ w * Ray \in Nat
  BY <1>1, <1>2
<1>7. QED
  BY <1>1, <1>2, <1>3, <1>4, <1>5, <1>6

(* RAD and WAD keep sums, differences and order. *)
LEMMA Rads ==
  ASSUME NEW v \in Nat, NEW w \in Nat
  PROVE  /\ RadFromWad(v) \in Nat
         /\ RadFromWad(v + w) = RadFromWad(v) + RadFromWad(w)
         /\ v <= w => RadFromWad(w - v) = RadFromWad(w) - RadFromWad(v)
         /\ RadFromWad(v) <= RadFromWad(w) => v <= w
<1>1. Ray \in Nat /\ Ray >= 1
  BY RayAssumption
<1>2. v * Ray \in Nat /\ w * Ray \in Nat /\ (v + w) * Ray = v * Ray + w * Ray
      /\ (w - v) * Ray = w * Ray - v * Ray
  BY <1>1
<1>3. w < v => w * Ray < v * Ray
  <2> SUFFICES ASSUME w < v PROVE w * Ray < v * Ray
    OBVIOUS
  <2>1. w + 1 <= v /\ (w + 1) * Ray = w * Ray + Ray
    BY <1>1
  <2>2. (w + 1) * Ray <= v * Ray
    BY <1>1, <2>1
  <2>3. QED
    BY <1>1, <1>2, <2>1, <2>2
<1>4. QED
  BY <1>2, <1>3 DEF RadFromWad

(* A sale takes a number of RAD and leaves no more to raise than there was.*)
LEMMA SaleBounds ==
  ASSUME NEW wad \in Nat, NEW rest \in Nat, NEW sale \in Sales(wad, rest)
  PROVE  sale.paid \in Nat /\ sale.rest \in 0 .. rest
<1>1. AdjustedBid(wad, rest) \in Nat
  BY WholeWad DEF AdjustedBid
<1>2. Charged(wad, rest) \in Nat
  BY <1>1, Rads DEF Charged
<1>3. CASE sale = [paid |-> Charged(wad, rest),
                   rest |-> IF Charged(wad, rest) < rest
                            THEN rest - Charged(wad, rest) ELSE 0]
  BY <1>2, <1>3
<1>4. CASE \E w \in 1 .. AdjustedBid(wad, rest) :
             sale = [paid |-> RadFromWad(w), rest |-> 0]
  <2>1. PICK w \in 1 .. AdjustedBid(wad, rest) :
               sale = [paid |-> RadFromWad(w), rest |-> 0]
    BY <1>4
  <2>2. RadFromWad(w) \in Nat
    BY <1>1, <2>1, Rads
  <2>3. QED
    BY <2>1, <2>2
<1>5. QED
  BY <1>3, <1>4 DEF Sales

(* The queue is FIFO: what is done was accepted before what runs.          *)
LEMMA DoneBeforeActive ==
  ASSUME IInv, active # None, NEW i \in DOMAIN accepted, i <= Len(completed)
  PROVE  accepted[i] \in Elements(completed)
<1>1. accepted = (completed \o <<active>>) \o buffer
  BY ActiveIsNext
<1>2. completed \in Seq(Task) /\ buffer \in Seq(Task) /\ active \in Task
  BY ActiveIsNext DEF IInv, TypeOK
<1>3. i \in DOMAIN completed /\ accepted[i] = completed[i]
  BY <1>1, <1>2
<1>4. QED
  BY <1>3 DEF Elements

LEMMA DoneIsBefore ==
  ASSUME IInv, active # None, NEW t, t \in Elements(completed)
  PROVE  Before(t, active)
<1>1. accepted = (completed \o <<active>>) \o buffer
      /\ Len(completed) + 1 \in DOMAIN accepted
      /\ accepted[Len(completed) + 1] = active
  BY ActiveIsNext
<1>2. completed \in Seq(Task) /\ buffer \in Seq(Task) /\ active \in Task
  BY ActiveIsNext DEF IInv, TypeOK
<1>3. PICK i \in DOMAIN completed : completed[i] = t
  BY DEF Elements
<1>4. i \in DOMAIN accepted /\ accepted[i] = t /\ i < Len(completed) + 1
  BY <1>1, <1>2, <1>3
<1>5. QED
  BY <1>1, <1>4 DEF Before

(* What runs has its approval. *)
LEMMA ActiveApproved ==
  ASSUME QueuePart, GracefulTypeOK, Untouched
  PROVE  ApprovedInTime
<1>1. ASSUME NEW task, NEW who, NEW t, Behind(task, who, t), active = t,
             active # None, Done(task) => Has(who)
      PROVE  Has(who)
  <2>1. Len(completed) + 1 \in DOMAIN accepted
        /\ accepted[Len(completed) + 1] = t
    BY <1>1, ActiveIsNext DEF QueuePart
  <2>2. CASE \E i \in DOMAIN accepted : i < Len(completed) + 1 /\ accepted[i] = task
    <3>1. PICK i \in DOMAIN accepted : i < Len(completed) + 1 /\ accepted[i] = task
      BY <2>2
    <3>2. i <= Len(completed)
      BY <3>1 DEF QueuePart, IInv, TypeOK
    <3>3. Done(task)
      BY <1>1, <3>1, <3>2, DoneBeforeActive DEF QueuePart, Done
    <3>4. QED
      BY <1>1, <3>3
  <2>3. QED
    BY <1>1, <2>1, <2>2 DEF Behind
<1>2. "join" # None /\ "exitCoin" # None /\ \A t \in Buy : t # None
  BY Labels, NoneAssumption
<1>3. ASSUME active = "join", active \notin Elements(landed),
             currentAllowance \notin 1 .. amount["join"] - 1
      PROVE  allowance >= amount["join"]
  <2>1. Has("allowance")
    BY <1>1, <1>2, <1>3 DEF QueuePart, Ordered, Granted, Has
  <2>2. /\ amount["join"] \in Nat /\ amount["join"] <= Coins /\ Coins \in Nat
        /\ currentAllowance \in Nat /\ allowance \in Nat
    BY Labels, AmountAssumption DEF GracefulTypeOK, Unlimited
  <2>3. \/ allowance = Unlimited
        \/ allowance \in {currentAllowance, Unlimited} /\ currentAllowance # 0
    BY <1>3, <2>1 DEF Has, Untouched
  <2>4. QED
    BY <1>3, <2>2, <2>3 DEF Unlimited
<1>4. active \in Buy => "house" \in rights
  BY <1>1, <1>2 DEF QueuePart, Ordered, Granted, Has
<1>5. active = "exitCoin" => "joinCoin" \in rights
  BY <1>1, <1>2 DEF QueuePart, Ordered, Granted, Has
<1>6. QED
  BY <1>3, <1>4, <1>5 DEF ApprovedInTime
-----------------------------------------------------------------------------
(* A step that leaves the accepted tasks, what is done and the funds alone.*)
LEMMA StillStep ==
  ASSUME QueuePart, [Next]_vars, UNCHANGED <<accepted, completed, funds>>, Stays
  PROVE  QueuePart'
<1>1. IInv'
  BY NextIInv DEF QueuePart
<1>2. Granted'
  BY DEF QueuePart, Granted, Done, funds
<1>3. Ordered'
  BY DEF QueuePart, Ordered, Behind, Stays
<1>4. ExitsTakeAll'
  BY DEF QueuePart, ExitsTakeAll, Done, Before, funds
<1>5. QED
  BY <1>1, <1>2, <1>3, <1>4 DEF QueuePart

(* A task is added whose approval, if it needs one, is there or queued.    *)
LEMMA AddStep ==
  ASSUME QueuePart, NEW t \in Task, AddTransaction(t), UNCHANGED funds, Stays,
         t = "join" => Queued("approve", "allowance"),
         t \in Buy => Queued("house", "house"),
         t = "exitCoin" => Queued("approveExit", "joinCoin")
  PROVE  /\ QueuePart' /\ (t \in Elements(accepted)' \/ ~subscribed')
         /\ Elements(accepted) \subseteq Elements(accepted)'
         /\ subscribed' => subscribed
<1>1. CASE Ignore(t)
  <2>1. UNCHANGED <<accepted, completed, funds>> /\ ~subscribed'
    BY <1>1 DEF Ignore, AddTransaction, pipeline
  <2>2. Next
    BY DEF Next
  <2>3. Elements(accepted)' = Elements(accepted)
    BY <2>1 DEF Elements
  <2>4. QED
    BY <2>1, <2>2, <2>3, StillStep
<1>2. CASE Accept(t)
  <2>1. /\ accepted' = Append(accepted, t) /\ completed' = completed
        /\ subscribed /\ accepted \in Seq(Task)
    BY <1>2 DEF Accept, AddTransaction, QueuePart, IInv, TypeOK
  <2>2. /\ Len(accepted') = Len(accepted) + 1 /\ Len(accepted) \in Nat
        /\ \A i \in DOMAIN accepted : i \in DOMAIN accepted'
                                      /\ accepted'[i] = accepted[i]
        /\ accepted'[Len(accepted) + 1] = t
        /\ \A i \in DOMAIN accepted' : i \in DOMAIN accepted \/ i = Len(accepted) + 1
        /\ \A i \in DOMAIN accepted : i < Len(accepted) + 1
        /\ Elements(accepted') = Elements(accepted) \cup {t}
    BY <2>1, AppendElements
  <2>3. IInv'
    BY NextIInv DEF QueuePart, Next
  <2>4. Granted'
    BY <2>1 DEF QueuePart, Granted, Done, funds
  <2>5. ASSUME NEW task, NEW who, NEW u, Behind(task, who, u),
               t = u => Queued(task, who)
        PROVE  Behind(task, who, u)'
    <3> SUFFICES ASSUME NEW j \in DOMAIN accepted', accepted'[j] = u, ~Has(who)
                 PROVE  \E i \in DOMAIN accepted' : i < j /\ accepted'[i] = task
      BY DEF Behind, Stays
    <3>1. CASE j \in DOMAIN accepted
      <4>1. PICK i \in DOMAIN accepted : i < j /\ accepted[i] = task
        BY <2>2, <2>5, <3>1 DEF Behind
      <4>2. QED
        BY <2>2, <4>1
    <3>2. CASE j = Len(accepted) + 1
      <4>1. task \in Elements(accepted)
        BY <2>1, <2>2, <2>5, <3>2 DEF Queued
      <4>2. PICK i \in DOMAIN accepted : accepted[i] = task
        BY <4>1 DEF Elements
      <4>3. QED
        BY <2>2, <3>2, <4>2
    <3>3. QED
      BY <2>2, <3>1, <3>2
  <2>6. Ordered'
    <3>1. Behind("approve", "allowance", "join")'
      BY <2>5 DEF QueuePart, Ordered
    <3>2. ASSUME NEW u \in Buy PROVE Behind("house", "house", u)'
      BY <2>5 DEF QueuePart, Ordered
    <3>3. Behind("approveExit", "joinCoin", "exitCoin")'
      BY <2>5 DEF QueuePart, Ordered
    <3>4. QED
      BY <3>1, <3>2, <3>3 DEF Ordered
  <2>7. \A u, v : Before(u, v) => Before(u, v)'
    BY <2>2 DEF Before
  <2>8. ExitsTakeAll'
    BY <2>1, <2>7 DEF QueuePart, ExitsTakeAll, Done, funds
  <2>9. Elements(accepted)' = Elements(accepted) \cup {t}
    BY <2>2 DEF Elements
  <2>10. QED
    BY <2>1, <2>3, <2>4, <2>6, <2>8, <2>9 DEF QueuePart
<1>3. QED
  BY <1>1, <1>2 DEF AddTransaction

(* What a bid that lands takes. *)
LEMMA BuyProperty ==
  ASSUME GracefulTypeOK, NEW t \in Buy, BuyCollateral(t)
  PROVE  /\ joined' \in Nat /\ joined' <= joined /\ collateral' \in Nat
         /\ left' \in [Auction -> 0 .. Price]
         /\ UNCHANGED <<tokens, allowance, rights>>
<1>1. /\ amount[t] \in Nat /\ target[t] \in Auction /\ left[target[t]] \in 0 .. Price
      /\ left[target[t]] \in Nat /\ joined \in Nat /\ Price \in Nat
  BY Labels, AmountAssumption DEF GracefulTypeOK
<1>2. PICK sale \in Sales(amount[t], left[target[t]]) :
             /\ sale.paid <= joined /\ joined' = joined - sale.paid
             /\ left' = [left EXCEPT ![target[t]] = sale.rest]
  BY DEF BuyCollateral
<1>3. sale.paid \in Nat /\ sale.rest \in 0 .. left[target[t]]
  BY <1>1, SaleBounds
<1>4. sale.rest \in 0 .. Price
  BY <1>1, <1>3
<1>5. left' \in [Auction -> 0 .. Price]
  BY <1>1, <1>2, <1>4 DEF GracefulTypeOK
<1>6. QED
  BY <1>1, <1>2, <1>3, <1>5 DEF BuyCollateral, GracefulTypeOK

(* What a transaction that lands does to the exits' promise. *)
LEMMA EffectExits ==
  ASSUME QueuePart, GracefulTypeOK, active # None,
         Possible(active), Effect(active), accepted' = accepted,
         completed' = completed \/ completed' = Append(completed, active)
  PROVE  ExitsTakeAll' /\ Granted'
<1>1. completed \in Seq(Task) /\ active \in Task
  BY ActiveIsNext DEF QueuePart, IInv, TypeOK
<1>2. Elements(completed') \subseteq Elements(completed) \cup {active}
  BY <1>1, AppendElements
<1>3. \A t : Done(t) => Before(t, active)
  BY DoneIsBefore DEF QueuePart, Done
<1>4. \A t, u : Before(t, u)' <=> Before(t, u)
  BY DEF Before
<1>5. Granted'
  BY <1>2, Labels DEF QueuePart, Granted, Done, Effect, ApproveToken, Approve,
     JoinCoins, ExitCollateral, ExitCoin, BuyCollateral
<1>6. Done("exitCoin")' /\ ~Before("exitCoin", "join")' => joined' < Ray
  <2> SUFFICES ASSUME Done("exitCoin")', ~Before("exitCoin", "join")
               PROVE  joined' < Ray
    BY <1>4
  <2>1. CASE active = "exitCoin"
    BY <2>1, Labels, WholeWad DEF Effect, ExitCoin, GracefulTypeOK
  <2>2. CASE active # "exitCoin"
    <3>1. Done("exitCoin")
      BY <1>2, <2>2 DEF Done
    <3>2. joined < Ray /\ active # "join"
      BY <1>3, <3>1 DEF QueuePart, ExitsTakeAll
    <3>3. CASE active \in Buy
      <4>1. BuyCollateral(active)
        BY <3>3, Labels DEF Effect
      <4>2. QED
        BY <3>2, <3>3, <4>1, BuyProperty, RayAssumption DEF GracefulTypeOK
    <3>4. CASE active \notin Buy
      BY <2>2, <3>2, <3>4 DEF Effect, ApproveToken, Approve, ExitCollateral
    <3>5. QED
      BY <3>3, <3>4
  <2>3. QED
    BY <2>1, <2>2
<1>7. ASSUME Done("exitCollateral")', \A t \in Buy : ~Before("exitCollateral", t)'
      PROVE  collateral' = 0
  <2>1. CASE active = "exitCollateral"
    BY <2>1, Labels DEF Effect, ExitCollateral
  <2>2. CASE active # "exitCollateral"
    <3>1. Done("exitCollateral")
      BY <1>2, <1>7, <2>2 DEF Done
    <3>2. collateral = 0 /\ active \notin Buy
      BY <1>3, <1>4, <1>7, <3>1 DEF QueuePart, ExitsTakeAll
    <3>3. QED
      BY <3>2 DEF Effect, ApproveToken, Approve, JoinCoins, ExitCollateral, ExitCoin
  <2>3. QED
    BY <2>1, <2>2
<1>8. ExitsTakeAll'
  BY <1>6, <1>7 DEF ExitsTakeAll, Before
<1>9. QED
  BY <1>5, <1>8

LEMMA EffectFunds ==
  ASSUME GracefulTypeOK, active # None, active \in Task,
         Possible(active), Effect(active), UNCHANGED currentAllowance
  PROVE  /\ tokens' \in Nat /\ joined' \in Nat /\ collateral' \in Nat
         /\ allowance' \in 0 .. Unlimited
         /\ rights' \subseteq {"house", "joinCoin"}
         /\ left' \in [Auction -> 0 .. Price] /\ CoinsAddUp'
         /\ Stays
         /\ active # "join" => allowance' \in {allowance, Unlimited}
<1>1. /\ tokens \in Nat /\ joined \in Nat /\ collateral \in Nat
      /\ rights \subseteq {"house", "joinCoin"} /\ allowance \in 0 .. Unlimited
      /\ left \in [Auction -> 0 .. Price]
      /\ Coins \in Nat /\ Price \in Nat /\ amount[active] \in Nat
      /\ Unlimited \in Nat
  BY AmountAssumption DEF GracefulTypeOK, Unlimited
<1>2. /\ RadFromWad(tokens) + joined <= RadFromWad(Coins)
      /\ RadFromWad(tokens) \in Nat /\ RadFromWad(Coins) \in Nat
  BY <1>1, Rads DEF GracefulTypeOK, CoinsAddUp
<1>3. CASE active \in {"approve", "house", "approveExit"}
  <2>1. /\ UNCHANGED <<tokens, joined, collateral, left>>
        /\ allowance' \in {allowance, Unlimited}
        /\ rights \subseteq rights' /\ rights' \subseteq {"house", "joinCoin"}
    BY <1>1, <1>3, Labels DEF Effect, ApproveToken, Approve
  <2>2. allowance' \in 0 .. Unlimited
    BY <1>1, <2>1
  <2>3. Stays
    BY <2>1 DEF Stays, Has
  <2>4. QED
    BY <1>1, <1>2, <2>1, <2>2, <2>3 DEF CoinsAddUp
<1>4. CASE active = "join"
  <2>1. tokens >= amount["join"] /\ allowance >= amount["join"] /\ JoinCoins
    BY <1>4, Labels DEF Effect, Possible
  <2>2. /\ tokens' \in Nat /\ RadFromWad(amount["join"]) \in Nat
        /\ RadFromWad(tokens') = RadFromWad(tokens) - RadFromWad(amount["join"])
    <3>1. /\ amount["join"] \in Nat /\ amount["join"] <= tokens
          /\ tokens' = tokens - amount["join"]
      BY <1>1, <1>4, <2>1 DEF JoinCoins
    <3>2. /\ RadFromWad(amount["join"]) \in Nat
          /\ RadFromWad(tokens - amount["join"])
               = RadFromWad(tokens) - RadFromWad(amount["join"])
      BY <1>1, <3>1, Rads
    <3>3. QED
      BY <1>1, <3>1, <3>2
  <2>3. joined' \in Nat /\ RadFromWad(tokens') + joined' <= RadFromWad(Coins)
    BY <1>1, <1>2, <2>1, <2>2 DEF JoinCoins
  <2>4. allowance' \in 0 .. Unlimited
    BY <1>1, <1>4, <2>1 DEF JoinCoins
  <2>5. Stays
    BY <2>1 DEF JoinCoins, Stays, Has
  <2>6. QED
    BY <1>1, <1>4, <2>1, <2>2, <2>3, <2>4, <2>5 DEF JoinCoins, CoinsAddUp
<1>5. CASE active = "exitCoin"
  <2>1. ExitCoin
    BY <1>5, Labels DEF Effect
  <2> DEFINE out == WadFromRad(joined)
  <2>2. out \in Nat /\ RadFromWad(out) \in Nat /\ RadFromWad(out) <= joined
    BY <1>1, WholeWad
  <2>3. tokens' = tokens + out /\ joined' = joined - RadFromWad(out)
    BY <2>1 DEF ExitCoin
  <2> HIDE DEF out
  <2>4. RadFromWad(tokens') = RadFromWad(tokens) + RadFromWad(out)
    BY <1>1, <2>2, <2>3, Rads
  <2>5. /\ tokens' \in Nat /\ joined' \in Nat
        /\ RadFromWad(tokens') + joined' <= RadFromWad(Coins)
    BY <1>1, <1>2, <2>2, <2>3, <2>4
  <2>6. UNCHANGED <<collateral, allowance, rights, left>>
    BY <2>1 DEF ExitCoin
  <2>7. QED
    BY <1>1, <2>5, <2>6 DEF CoinsAddUp, Stays, Has
<1>6. CASE active = "exitCollateral"
  <2>1. ExitCollateral
    BY <1>6, Labels DEF Effect
  <2>2. QED
    BY <1>1, <1>2, <2>1 DEF ExitCollateral, CoinsAddUp, Stays, Has
<1>7. CASE active \in Buy
  <2>1. BuyCollateral(active)
    BY <1>7, Labels DEF Effect
  <2>2. /\ joined' \in Nat /\ joined' <= joined /\ collateral' \in Nat
        /\ left' \in [Auction -> 0 .. Price]
        /\ UNCHANGED <<tokens, allowance, rights>>
    BY <1>7, <2>1, BuyProperty
  <2>3. RadFromWad(tokens') + joined' <= RadFromWad(Coins)
    BY <1>1, <1>2, <2>2
  <2>4. QED
    BY <1>1, <2>2, <2>3 DEF CoinsAddUp, Stays, Has
<1>8. QED
  BY <1>3, <1>4, <1>5, <1>6, <1>7 DEF Effect
-----------------------------------------------------------------------------
(* An approval that was asked for stays asked for. *)
LEMMA QueuedStays ==
  ASSUME Stays,
         Elements(accepted) \subseteq Elements(accepted)', subscribed' => subscribed
  PROVE  \A task, who : Queued(task, who) => Queued(task, who)'
BY DEF Queued, Stays

LEMMA PhasesStay ==
  ASSUME GInv, Stays, accepted' = accepted, subscribed' => subscribed,
         UNCHANGED <<currentAllowance, start, bid, main>>
  PROVE  Phases'
BY DEF GInv, Phases, Queued, Stays

(* The queue's own steps. *)
LEMMA QueueStep ==
  ASSUME GInv, QueueSettles \/ QueueRetries \/ QueueTimer
  PROVE  GInv'
<1>1. QueuePart /\ GracefulTypeOK /\ Untouched /\ IInv
  BY DEF GInv, QueuePart
<1>2. /\ Next /\ accepted' = accepted /\ (subscribed' => subscribed)
      /\ UNCHANGED <<amount, target, currentAllowance, start, isExiting, bid, cursor,
                     main>>
  BY DEF QueueSettles, QueueRetries, QueueTimer, Next, Step, AttemptSettles,
         AttemptSucceeds, AttemptFails, RetriesExhausted, RetryDelayElapses,
         TimerFires, IdleTimerFires, OrphanTimerFires, pipeline, history, keeper,
         startup
<1>3. \/ UNCHANGED <<completed, landed, funds>>
      \/ /\ active # None /\ Possible(active) /\ Effect(active)
         /\ completed' = completed \/ completed' = Append(completed, active)
         /\ landed' = Append(landed, active)
  <2>1. CASE QueueSettles
    <3>1. active # None
      BY <1>1, <2>1 DEF QueueSettles, AttemptSettles, AttemptSucceeds, AttemptFails,
                        RetriesExhausted, IInv, Coherent
    <3>2. CASE landed' # landed
      BY <2>1, <3>1, <3>2 DEF QueueSettles, Mined, AttemptSettles, AttemptSucceeds,
                              AttemptFails, RetriesExhausted, MayLand
    <3>3. CASE landed' = landed
      <4>1. Append(landed, active) # landed
        <5>1. landed \in Seq(Task) /\ active \in Task
          BY <1>1, <3>1, ActiveIsNext DEF IInv, TypeOK
        <5>2. Len(Append(landed, active)) = Len(landed) + 1 /\ Len(landed) \in Nat
          BY <5>1
        <5>3. QED
          BY <5>2
      <4>2. QED
        BY <2>1, <3>3, <4>1 DEF QueueSettles, Mined, AttemptSettles,
           AttemptSucceeds, AttemptFails, RetriesExhausted
    <3>4. QED
      BY <3>2, <3>3
  <2>2. CASE QueueRetries \/ QueueTimer
    BY <2>2 DEF QueueRetries, QueueTimer, RetryDelayElapses, TimerFires,
                IdleTimerFires, OrphanTimerFires, history
  <2>3. QED
    BY <2>1, <2>2
<1>4. CASE UNCHANGED <<completed, landed, funds>>
  <2>1. Stays
    BY <1>2, <1>4 DEF Stays, Has, funds
  <2>2. QueuePart'
    BY <1>1, <1>2, <1>4, <2>1, StillStep
  <2>3. GracefulTypeOK'
    BY <1>1, <1>2, <1>4 DEF GracefulTypeOK, CoinsAddUp, funds
  <2>4. Untouched'
    BY <1>1, <1>2, <1>4 DEF Untouched, Elements, funds
  <2>5. Phases'
    BY <1>2, <2>1, PhasesStay
  <2>6. QED
    BY <2>2, <2>3, <2>4, <2>5 DEF GInv
<1>5. CASE /\ active # None /\ Possible(active) /\ Effect(active)
           /\ completed' = completed \/ completed' = Append(completed, active)
           /\ landed' = Append(landed, active)
  <2>1. active \in Task
    BY <1>1, <1>5, ActiveIsNext
  <2>2. /\ tokens' \in Nat /\ joined' \in Nat /\ collateral' \in Nat
        /\ allowance' \in 0 .. Unlimited
        /\ rights' \subseteq {"house", "joinCoin"}
        /\ left' \in [Auction -> 0 .. Price] /\ CoinsAddUp'
        /\ Stays
        /\ active # "join" => allowance' \in {allowance, Unlimited}
    BY <1>1, <1>2, <1>5, <2>1, EffectFunds
  <2>3. GracefulTypeOK'
    BY <1>1, <1>2, <2>2 DEF GracefulTypeOK
  <2>4. ExitsTakeAll' /\ Granted'
    BY <1>1, <1>2, <1>5, EffectExits
  <2>5. Ordered'
    BY <1>1, <1>2, <2>2 DEF QueuePart, Ordered, Behind, Stays
  <2>6. IInv'
    BY <1>1, <1>2, NextIInv
  <2>7. Phases'
    BY <1>2, <2>2, PhasesStay
  <2>8. Untouched'
    <3>1. Elements(landed)' = Elements(landed) \cup {active}
      <4>1. landed \in Seq(Task)
        BY <1>1 DEF IInv, TypeOK
      <4>2. Elements(Append(landed, active)) = Elements(landed) \cup {active}
        BY <2>1, <4>1, AppendElements
      <4>3. QED
        BY <1>5, <4>2 DEF Elements
    <3>2. QED
      BY <1>1, <1>2, <2>2, <3>1 DEF Untouched
  <2>9. QED
    BY <2>3, <2>4, <2>5, <2>6, <2>7, <2>8 DEF GInv, QueuePart
<1>6. QED
  BY <1>3, <1>4, <1>5
-----------------------------------------------------------------------------
(* A step of the keeper itself leaves the chain alone; startup's first one *)
(* reads the allowance.                                                    *)
Held == UNCHANGED funds /\ Stays /\ currentAllowance' \in {currentAllowance, allowance}

LEMMA HeldStill ==
  UNCHANGED <<funds, currentAllowance>> => Held
BY DEF Held, Stays, Has, funds

(* What every step of the keeper itself keeps, whether it queues a         *)
(* transaction or not.                                                     *)
Kept == /\ QueuePart' /\ Untouched' /\ CoinsAddUp'
        /\ UNCHANGED funds
        /\ currentAllowance' \in 0 .. Unlimited
        /\ amount' \in [Task -> 0 .. Coins]
        /\ \A task, who : Queued(task, who) => Queued(task, who)'

LEMMA HeldKeeps ==
  ASSUME GInv, Held, UNCHANGED landed
  PROVE  /\ Untouched' /\ CoinsAddUp' /\ UNCHANGED funds
         /\ currentAllowance' \in 0 .. Unlimited
BY DEF GInv, GracefulTypeOK, Untouched, CoinsAddUp, Held, Elements, funds

LEMMA SkipKeeps ==
  ASSUME GInv, Skip, Held
  PROVE  Kept
<1>1. UNCHANGED <<accepted, completed, landed, subscribed, amount>> /\ [Next]_vars
  BY DEF Skip, vars, pipeline, history
<1>2. QueuePart'
  BY <1>1, StillStep DEF GInv, Held
<1>3. Elements(accepted) \subseteq Elements(accepted)'
  BY <1>1 DEF Elements
<1>4. \A task, who : Queued(task, who) => Queued(task, who)'
  BY <1>1, <1>3, QueuedStays DEF Held
<1>5. QED
  BY <1>1, <1>2, <1>4, HeldKeeps DEF Kept, GInv, GracefulTypeOK

LEMMA QueueKeeps ==
  ASSUME GInv, NEW t \in Task, NEW n \in 0 .. Coins, Queue(t, n), Held,
         t = "join" => Queued("approve", "allowance"),
         t \in Buy => Queued("house", "house"),
         t = "exitCoin" => Queued("approveExit", "joinCoin")
  PROVE  Kept /\ \A who : Queued(t, who)'
<1>1. AddTransaction(t) /\ amount' = [amount EXCEPT ![t] = n] /\ QueuePart
      /\ UNCHANGED landed
  BY DEF Queue, GInv, AddTransaction
<1>2. /\ QueuePart' /\ (t \in Elements(accepted)' \/ ~subscribed')
      /\ Elements(accepted) \subseteq Elements(accepted)'
      /\ subscribed' => subscribed
  BY <1>1, AddStep DEF Held
<1>3. \A task, who : Queued(task, who) => Queued(task, who)'
  BY <1>2, QueuedStays DEF Held
<1>4. amount' \in [Task -> 0 .. Coins]
  BY <1>1 DEF GInv, GracefulTypeOK
<1>5. QED
  BY <1>1, <1>2, <1>3, <1>4, HeldKeeps DEF Kept, Queued

(* The coins outside and inside the safe engine can be captured, in WAD.   *)
LEMMA Captured ==
  ASSUME GInv
  PROVE  tokens \in 0 .. Coins /\ WadFromRad(joined) \in 0 .. Coins /\ 0 \in 0 .. Coins
<1>1. tokens \in Nat /\ joined \in Nat /\ Coins \in Nat
      /\ RadFromWad(tokens) + joined <= RadFromWad(Coins)
  BY AmountAssumption DEF GInv, GracefulTypeOK, CoinsAddUp
<1> DEFINE w == WadFromRad(joined)
<1>2. w \in Nat /\ RadFromWad(w) \in Nat /\ RadFromWad(w) <= joined
  BY <1>1, WholeWad
<1> HIDE DEF w
<1>3. RadFromWad(tokens) \in Nat /\ RadFromWad(Coins) \in Nat
  BY <1>1, Rads
<1>4. RadFromWad(tokens) <= RadFromWad(Coins) /\ RadFromWad(w) <= RadFromWad(Coins)
  BY <1>1, <1>2, <1>3
<1>5. tokens <= Coins /\ w <= Coins
  BY <1>1, <1>2, <1>4, Rads
<1>6. QED
  BY <1>1, <1>2, <1>5 DEF w

(* Startup queues the approvals before anything that needs them. *)
LEMMA StartupStep ==
  ASSUME GInv, Startup
  PROVE  GInv'
<1>1. CASE ApproveSystemCoin
  <2>1. Held
    <3>1. currentAllowance = 0
      BY <1>1 DEF GInv, Phases, ApproveSystemCoin
    <3>2. UNCHANGED funds /\ currentAllowance' = allowance
      BY <1>1 DEF ApproveSystemCoin
    <3>3. QED
      BY <3>1, <3>2 DEF Held, Stays, Has, funds
  <2>2. Kept /\ Queued("approve", "allowance")'
    <3>1. CASE allowance # 0
      <4>1. Kept
        BY <1>1, <2>1, <3>1, SkipKeeps DEF ApproveSystemCoin
      <4>2. QED
        BY <1>1, <3>1, <4>1 DEF ApproveSystemCoin, Queued, Has
    <3>2. CASE allowance = 0
      BY <1>1, <2>1, <3>2, QueueKeeps, Labels, Captured DEF ApproveSystemCoin
    <3>3. QED
      BY <3>1, <3>2
  <2>3. QED
    BY <1>1, <2>2 DEF GInv, Kept, GracefulTypeOK, Phases, ApproveSystemCoin, funds
<1>2. CASE ApproveHouse
  <2>1. Kept /\ Queued("house", "house")'
    <3>1. CASE "house" \in rights
      BY <1>2, <3>1, SkipKeeps, HeldStill DEF ApproveHouse, Queued, Has, funds
    <3>2. CASE "house" \notin rights
      BY <1>2, <3>2, QueueKeeps, HeldStill, Labels, Captured DEF ApproveHouse
    <3>3. QED
      BY <1>2, <3>1, <3>2 DEF ApproveHouse
  <2>2. QED
    BY <1>2, <2>1 DEF GInv, Kept, GracefulTypeOK, Phases, ApproveHouse, funds
<1>3. CASE JoinSystemCoins
  <2>1. Kept
    <3>1. CASE tokens = 0
      BY <1>3, <3>1, SkipKeeps, HeldStill DEF JoinSystemCoins
    <3>2. CASE tokens # 0
      <4>1. Queued("approve", "allowance")
        BY <1>3 DEF GInv, Phases, JoinSystemCoins
      <4>2. QED
        BY <1>3, <3>2, <4>1, QueueKeeps, HeldStill, Labels, Captured DEF JoinSystemCoins
    <3>3. QED
      BY <1>3, <3>1, <3>2 DEF JoinSystemCoins
  <2>2. QED
    BY <1>3, <2>1 DEF GInv, Kept, GracefulTypeOK, Phases, JoinSystemCoins, funds
<1>4. CASE StartupFinishes
  <2>1. Kept
    BY <1>4, SkipKeeps, HeldStill DEF StartupFinishes, Skip
  <2>2. QED
    BY <1>4, <2>1 DEF GInv, Kept, GracefulTypeOK, Phases, StartupFinishes, funds
<1>5. QED
  BY <1>1, <1>2, <1>3, <1>4 DEF Startup

(* The block handler bids only after startup. *)
LEMMA BiddingStep ==
  ASSUME GInv, Bidding
  PROVE  GInv'
<1>1. ASSUME NEW a \in Auction, NEW t \in Buy, BuyIn(a, t)
      PROVE  GInv'
  <2>1. Queued("house", "house")
    BY <1>1 DEF startup, BuyIn, GInv, Phases
  <2>2. Kept
    BY <1>1, <2>1, QueueKeeps, HeldStill, Labels, Captured DEF startup, BuyIn
  <2>3. target' \in [Buy -> Auction] /\ cursor' \subseteq Auction
    BY <1>1 DEF startup, BuyIn, GInv, GracefulTypeOK
  <2>4. QED
    BY <1>1, <2>2, <2>3 DEF GInv, Kept, GracefulTypeOK, Phases, BuyIn, startup, funds
<1>2. CASE \/ BeginPass \/ HandleBidding \/ BiddingEnds
           \/ \E a \in Auction : PassOver(a)
  <2>1. Kept
    BY <1>2, SkipKeeps, HeldStill DEF startup, BeginPass, HandleBidding, BiddingEnds, PassOver, Skip
  <2>2. bid' \in {"idle", "pass", "bidding"} /\ cursor' \subseteq Auction
    BY <1>2 DEF startup, BeginPass, HandleBidding, BiddingEnds, PassOver, GInv, GracefulTypeOK
  <2>3. UNCHANGED <<currentAllowance, start, main, isExiting, target>> /\ (bid' # "idle" => start = "finished")
    BY <1>2 DEF startup, BeginPass, HandleBidding, BiddingEnds, PassOver, GInv, Phases
  <2>4. QED
    BY <2>1, <2>2, <2>3 DEF GInv, Kept, GracefulTypeOK, Phases, funds
<1>3. QED
  BY <1>1, <1>2 DEF Bidding

(* The exits, and the end of the process. *)
LEMMA EndStep ==
  ASSUME GInv, Signal \/ Main \/ ProcessDies
  PROVE  GInv'
<1>1. CASE Signal
  <2>1. Kept
    <3>1. CASE KeepCollateral
      BY <1>1, <3>1, SkipKeeps, HeldStill DEF startup, Signal
    <3>2. CASE ~KeepCollateral
      BY <1>1, <3>2, QueueKeeps, HeldStill, Labels, Captured DEF startup, Signal
    <3>3. QED
      BY <1>1, <3>1, <3>2 DEF startup, Signal
  <2>2. QED
    BY <1>1, <2>1 DEF GInv, Kept, GracefulTypeOK, Phases, Signal, startup, funds
<1>2. CASE ApproveExit
  <2>1. Kept /\ Queued("approveExit", "joinCoin")'
    <3>1. CASE "joinCoin" \in rights
      BY <1>2, <3>1, SkipKeeps, HeldStill DEF startup, ApproveExit, Queued, Has, funds
    <3>2. CASE "joinCoin" \notin rights
      BY <1>2, <3>2, QueueKeeps, HeldStill, Labels, Captured DEF startup, ApproveExit
    <3>3. QED
      BY <1>2, <3>1, <3>2 DEF startup, ApproveExit
  <2>2. QED
    BY <1>2, <2>1 DEF GInv, Kept, GracefulTypeOK, Phases, ApproveExit, startup, funds
<1>3. CASE ExitSystemCoin
  <2>1. Queued("approveExit", "joinCoin")
    BY <1>3 DEF startup, ExitSystemCoin, GInv, Phases
  <2>2. Kept
    BY <1>3, <2>1, QueueKeeps, HeldStill, Labels, Captured DEF startup, ExitSystemCoin
  <2>3. QED
    BY <1>3, <2>2 DEF GInv, Kept, GracefulTypeOK, Phases, ExitSystemCoin, startup, funds
<1>4. CASE Subscribe \/ ExitOnDone \/ ExitOnTimeout \/ ProcessDies
  <2>1. Kept
    BY <1>4, SkipKeeps, HeldStill DEF startup, Subscribe, ExitOnDone, ExitOnTimeout, ProcessDies, Skip
  <2>2. /\ UNCHANGED <<target, currentAllowance, start, isExiting, bid, cursor>>
        /\ main' \in {"watching", "done", "timeout", "died"}
    BY <1>4 DEF startup, Subscribe, ExitOnDone, ExitOnTimeout, ProcessDies
  <2>3. QED
    BY <2>1, <2>2 DEF GInv, Kept, GracefulTypeOK, Phases, funds
<1>5. QED
  BY <1>1, <1>2, <1>3, <1>4 DEF Main
-----------------------------------------------------------------------------
(* The invariant holds initially and every step keeps it. *)
THEOREM InitGInv == GracefulInit => GInv
<1> SUFFICES ASSUME GracefulInit PROVE GInv
  OBVIOUS
<1>1. IInv /\ accepted = <<>> /\ completed = <<>>
  BY InitIInv DEF GracefulInit, Init
<1>2. Elements(completed) = {} /\ DOMAIN accepted = {}
  BY <1>1 DEF Elements
<1>3. QueuePart
  BY <1>1, <1>2 DEF QueuePart, Granted, Ordered, Behind, ExitsTakeAll, Done
<1>4. tokens \in Nat /\ joined \in Nat /\ CoinsAddUp
  <2>1. /\ Coins \in Nat /\ RadFromWad(Coins) \in Nat
        /\ joined \in Nat /\ joined <= RadFromWad(Coins)
    BY AmountAssumption, Rads DEF GracefulInit
  <2> DEFINE rest == RadFromWad(Coins) - joined
  <2>2. rest \in Nat /\ joined + rest = RadFromWad(Coins)
    BY <2>1
  <2>3. tokens = WadFromRad(rest)
    BY DEF GracefulInit
  <2> HIDE DEF rest
  <2>4. tokens \in Nat /\ RadFromWad(tokens) \in Nat /\ RadFromWad(tokens) <= rest
    BY <2>2, <2>3, WholeWad
  <2>5. QED
    BY <2>1, <2>2, <2>4 DEF CoinsAddUp
<1>5. 0 \in 0 .. Coins /\ 0 \in 0 .. Unlimited /\ Price \in 0 .. Price
  BY AmountAssumption DEF Unlimited
<1>6. target \in [Buy -> Auction]
  <2>1. CASE Buy = {}
    BY <2>1 DEF GracefulInit
  <2>2. CASE Buy # {}
    <3>1. (CHOOSE a \in Auction : TRUE) \in Auction
      BY <2>2, AuctionAssumption
    <3>2. QED
      BY <3>1 DEF GracefulInit
  <2>3. QED
    BY <2>1, <2>2
<1>7. GracefulTypeOK /\ Untouched
  BY <1>4, <1>5, <1>6 DEF GracefulInit, GracefulTypeOK, Untouched
<1>8. Phases
  BY DEF GracefulInit, Phases
<1>9. QED
  BY <1>3, <1>7, <1>8 DEF GInv

THEOREM NextGInv == GInv /\ [GracefulNext]_all => GInv'
<1> SUFFICES ASSUME GInv, [GracefulNext]_all PROVE GInv'
  OBVIOUS
<1>1. CASE QueueSettles \/ QueueRetries \/ QueueTimer
  BY <1>1, QueueStep
<1>2. CASE Startup
  BY <1>2, StartupStep
<1>3. CASE Bidding
  BY <1>3, BiddingStep
<1>4. CASE Signal \/ Main \/ ProcessDies
  BY <1>4, EndStep
<1>5. CASE UNCHANGED all
  <2>1. UNCHANGED <<vars, funds, amount, target, currentAllowance, start, isExiting, bid,
                 cursor, main>>
    BY <1>5 DEF all, keeper, startup
  <2>2. Kept
    BY <2>1, SkipKeeps, HeldStill DEF Skip
  <2>3. QED
    BY <2>1, <2>2 DEF GInv, Kept, GracefulTypeOK, Phases, funds
<1>6. QED
  BY <1>1, <1>2, <1>3, <1>4, <1>5 DEF GracefulNext

THEOREM AlwaysGInv == GracefulSpec => []GInv
  BY InitGInv, NextGInv, PTL DEF GracefulSpec

(* The funds and the keeper's variables keep their domains: no sequence of *)
(* joins, bids and exits, with their roundings between WAD and RAD, gives  *)
(* the keeper more coins than it began with, or captures more for a bid.   *)
THEOREM GracefulTypeCorrect == GracefulSpec => []GracefulTypeOK
<1>1. GInv => GracefulTypeOK
  BY DEF GInv
<1>2. QED
  BY <1>1, AlwaysGInv, PTL

(* Startup and shutdown queue every approval before what needs it, so it   *)
(* is on chain when that is attempted (index.ts of Keeper), but for a      *)
(* join when startup found an allowance that is too small.                 *)
THEOREM ApprovedInTimeCorrect == GracefulSpec => []ApprovedInTime
<1>1. GInv => ApprovedInTime
  BY ActiveApproved DEF GInv
<1>2. QED
  BY <1>1, AlwaysGInv, PTL

(* The exits take all there is, to the last whole WAD: what is left came   *)
(* later (shutdown).                                                       *)
THEOREM ExitsTakeAllCorrect == GracefulSpec => []ExitsTakeAll
<1>1. GInv => ExitsTakeAll
  BY DEF GInv, QueuePart
<1>2. QED
  BY <1>1, AlwaysGInv, PTL
=============================================================================
