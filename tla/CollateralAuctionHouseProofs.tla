-------------------- MODULE CollateralAuctionHouseProofs --------------------
(***************************************************************************)
(* Proofs about the list of followed auctions, for every number of         *)
(* concurrent passes and every number of auctions.                         *)
(***************************************************************************)
EXTENDS CollateralAuctionHouse, WellFoundedInduction, TLAPS

(* What the chain ever knew, and what is open and always was: the first    *)
(* only grows and the second only shrinks as to what was known, even when  *)
(* the chain is reorganised.                                               *)
Ever == (1 .. started) \cup undone
Live == open \ undone

(* What a suspended pass knows is still true of the chain and the list.    *)
Flight(s, n, o, list) ==
  /\ s.pc = "counted" => (1 .. s.answer) \subseteq n
  /\ s.pc \in {"init", "inited"} =>
       s.next \in 1 .. s.last /\ (1 .. s.last) \subseteq n
                             /\ s.next <= Len(list) + 1
  /\ s.pc = "inited" /\ s.answer = 1 => s.next \notin o
  /\ s.pc \in {"reload", "reloaded"} => s.cursor \in DOMAIN list
  /\ s.pc = "reloaded" /\ s.answer = 1 => list[s.cursor].id \notin o

Entry(e, i, n, o) == e.id <= i /\ e.id \in n /\ (e.deleted => e.id \notin o)

InFlight == \A p \in Pass : Flight(pass[p], Ever, Live, auctions)
Entries == \A i \in DOMAIN auctions : Entry(auctions[i], i, Ever, Live)
KeeperOK == /\ stage \in [Start -> {"new", "loading", "loaded"}]
            /\ alive \in BOOLEAN
            /\ approvals \in Nat
            /\ overlapped \in BOOLEAN

HInv == TypeOK /\ InFlight /\ Entries

-----------------------------------------------------------------------------
(* A nonempty set of numbers has a least element. *)
LEMMA LeastNat ==
  ASSUME NEW T \in SUBSET Nat, T # {}
  PROVE  \E x \in T : \A y \in T : x <= y
<1> DEFINE R == OpToRel(<, Nat)
<1>1. IsWellFoundedOn(R, Nat)
  BY NatLessThanWellFounded
<1>2. \E x \in T : \A y \in T : ~ (<<y, x>> \in R)
  <2> HIDE DEF R
  <2>1. QED
    BY <1>1, WFMin
<1>3. \A x, y \in Nat : y < x => <<y, x>> \in R
  BY DEF OpToRel
<1>4. PICK x \in T : \A y \in T : ~ (<<y, x>> \in R)
  BY <1>2
<1>5. ASSUME NEW y \in T PROVE x <= y
  <2> HIDE DEF R
  <2>1. x \in Nat /\ y \in Nat
    OBVIOUS
  <2>2. ~(y < x)
    BY <1>3, <1>4, <2>1
  <2>3. QED
    BY <2>1, <2>2
<1>6. QED
  BY <1>5

(* NextLive is 0 or the index of a live auction at or behind i. *)
LEMMA NextLiveProperty ==
  ASSUME NEW list \in Seq(Followed), NEW i \in Nat \ {0}, NextLive(list, i) # 0
  PROVE  /\ NextLive(list, i) \in DOMAIN list
         /\ NextLive(list, i) >= i
         /\ ~list[NextLive(list, i)].deleted
<1> DEFINE live == {j \in i .. Len(list) : ~list[j].deleted}
<1>1. live # {}
  BY DEF NextLive
<1>2. live \in SUBSET Nat
  OBVIOUS
<1>3. \E j \in live : \A k \in live : j <= k
  <2> HIDE DEF live
  <2>1. QED
    BY <1>1, <1>2, LeastNat
<1>4. NextLive(list, i) \in live
  BY <1>1, <1>3 DEF NextLive
<1>5. QED
  BY <1>4

(* The ids in the list are numbers. *)
LEMMA EntryId ==
  ASSUME NEW list \in Seq(Followed), NEW i \in DOMAIN list
  PROVE  list[i] \in Followed /\ list[i].id \in Nat
<1>1. list[i] \in Followed
  OBVIOUS
<1>2. AuctionId \subseteq Nat
  BY MaxAuctionsAssumption DEF AuctionId
<1>3. QED
  BY <1>1, <1>2 DEF Followed

(* What was known stays known, what was settled stays settled and the list *)
(* only grows: what a suspended pass knows stays true.                     *)
LEMMA FlightStable ==
  ASSUME NEW s \in PassState, NEW n, NEW n2, n \subseteq n2,
         NEW list \in Seq(Followed), NEW list2 \in Seq(Followed),
         Len(list) <= Len(list2),
         \A i \in DOMAIN list : list2[i].id = list[i].id /\ list[i].id \in n,
         NEW o, NEW o2, \A id \in n : id \in o2 => id \in o,
         Flight(s, n, o, list)
  PROVE  Flight(s, n2, o2, list2)
<1>1. s.pc = "counted" => (1 .. s.answer) \subseteq n2
  BY DEF Flight, PassState
<1>2. s.pc \in {"init", "inited"} =>
        s.next \in 1 .. s.last /\ (1 .. s.last) \subseteq n2
                              /\ s.next <= Len(list2) + 1
  BY DEF Flight, PassState
<1>3. s.pc = "inited" /\ s.answer = 1 => s.next \notin o2
  BY DEF Flight, PassState
<1>4. s.pc \in {"reload", "reloaded"} => s.cursor \in DOMAIN list2
  BY DEF Flight, PassState
<1>5. s.pc = "reloaded" /\ s.answer = 1 => list2[s.cursor].id \notin o2
  <2> SUFFICES ASSUME s.pc = "reloaded", s.answer = 1
               PROVE  list2[s.cursor].id \notin o2
    OBVIOUS
  <2>1. s.cursor \in DOMAIN list /\ list[s.cursor].id \notin o
    BY DEF Flight
  <2>2. QED
    BY <2>1
<1>6. QED
  BY <1>1, <1>2, <1>3, <1>4, <1>5 DEF Flight

LEMMA IdleState == Idle \in PassState
  BY StartAssumption DEF Idle, PassState, PC, Waiting, Answered

LEMMA CallState ==
  ASSUME TypeOK, NEW kind \in {"load", "reload", "bid"}, NEW s \in Start, NEW others
  PROVE  /\ Call(kind, s, others) \in PassState
         /\ Call(kind, s, others).kind = kind
         /\ Call(kind, s, others).start = s
         /\ Call(kind, s, others).pc = "count"
<1> DEFINE g == IF others = {} THEN (1 .. started) \ open ELSE {}
<1>1. g \in SUBSET AuctionId
  BY MaxAuctionsAssumption DEF TypeOK, AuctionId
<1> HIDE DEF g
<1>2. Call(kind, s, others) = [Idle EXCEPT !.kind = kind, !.start = s,
                                           !.pc = "count", !.gone = g]
  BY DEF Call, g
<1>3. QED
  BY <1>1, <1>2, IdleState DEF Idle, PassState, PC, Waiting, Answered

LEMMA EndedState ==
  ASSUME NEW s \in PassState, NEW how \in {"ok", "failed"}
  PROVE  /\ Ended(s, how) \in PassState /\ Ended(s, how).pc = how
         /\ Ended(s, how).kind = s.kind /\ Ended(s, how).start = s.start
         /\ Ended(s, how).gone = s.gone /\ Ended(s, how).last = s.last
BY DEF Ended, PassState, PC

(* A call that begins leaves the others where they are.                    *)
LEMMA BeginState ==
  ASSUME TypeOK, NEW q \in Pass, NEW kind \in {"load", "reload", "bid"},
         NEW s \in Start, NEW others \in SUBSET Pass, Begin(q, kind, s, others),
         NEW n, NEW o, NEW list
  PROVE  /\ pass' \in [Pass -> PassState]
         /\ overlapped' \in BOOLEAN
         /\ \A r \in Pass : Flight(pass[r], n, o, list) => Flight(pass'[r], n, o, list)
<1>1. pass \in [Pass -> PassState] /\ overlapped \in BOOLEAN
  BY DEF TypeOK
<1>2. overlapped' \in BOOLEAN
  BY <1>1 DEF Begin
<1>3. ASSUME NEW r \in Pass
      PROVE  /\ pass'[r] \in PassState
             /\ Flight(pass[r], n, o, list) => Flight(pass'[r], n, o, list)
  <2>1. CASE r = q
    <3>1. pass'[r] = Call(kind, s, others)
      BY <2>1 DEF Begin
    <3>2. pass'[r] \in PassState /\ pass'[r].pc = "count"
      BY <3>1, CallState
    <3>3. QED
      BY <3>2 DEF Flight
  <2>2. CASE r # q /\ r \in others
    <3>1. pass'[r] = [pass[r] EXCEPT !.gone = {}]
      BY <2>2 DEF Begin
    <3>2. pass[r] \in PassState
      BY <1>1
    <3>3. QED
      BY <3>1, <3>2 DEF PassState, Flight
  <2>3. CASE r # q /\ r \notin others
    <3>1. pass'[r] = Idle
      BY <2>3 DEF Begin
    <3>2. QED
      BY <3>1, IdleState DEF Flight, Idle
  <2>4. QED
    BY <2>1, <2>2, <2>3
<1>4. pass' \in [Pass -> PassState]
  BY <1>3 DEF Begin
<1>5. QED
  BY <1>2, <1>3, <1>4

(* Entering the reload loop keeps the pass well formed. *)
LEMMA ReloadFromProperty ==
  ASSUME NEW s \in PassState, NEW list \in Seq(Followed), NEW i \in Nat \ {0},
         NEW n, NEW o
  PROVE  /\ ReloadFrom(s, list, i) \in PassState
         /\ Flight(ReloadFrom(s, list, i), n, o, list)
         /\ ReloadFrom(s, list, i).kind = s.kind
         /\ ReloadFrom(s, list, i).start = s.start
         /\ ReloadFrom(s, list, i).gone = s.gone
         /\ ReloadFrom(s, list, i).pc \in {"ok", "reload"}
<1>1. CASE NextLive(list, i) = 0
  <2>1. ReloadFrom(s, list, i) = Ended(s, "ok")
    BY <1>1 DEF ReloadFrom
  <2>2. QED
    BY <2>1, EndedState DEF Flight
<1>2. CASE NextLive(list, i) # 0
  <2>1. NextLive(list, i) \in DOMAIN list /\ NextLive(list, i) \in Nat
    BY <1>2, NextLiveProperty
  <2>2. QED
    BY <1>2, <2>1 DEF ReloadFrom, PassState, PC, Waiting, Answered, Flight
<1>3. QED
  BY <1>1, <1>2

-----------------------------------------------------------------------------
(* A step that leaves the chain and the list alone, and after which every  *)
(* pass is as before or well formed.                                       *)
LEMMA PassStep ==
  ASSUME HInv, UNCHANGED <<chain, auctions>>, pass' \in [Pass -> PassState],
         \A r \in Pass : pass'[r] = pass[r]
                           \/ Flight(pass'[r], Ever, Live, auctions),
         KeeperOK'
  PROVE  HInv'
<1>1. TypeOK'
  BY DEF HInv, TypeOK, chain, KeeperOK
<1>2. Ever' = Ever /\ Live' = Live /\ auctions' = auctions
  BY DEF chain, Ever, Live
<1>3. InFlight'
  BY <1>2 DEF HInv, InFlight
<1>4. Entries'
  BY <1>2 DEF HInv, Entries
<1>5. QED
  BY <1>1, <1>3, <1>4 DEF HInv

(* The same for a step of one pass. *)
LEMMA OwnStep ==
  ASSUME HInv, NEW p \in Pass, NEW s \in PassState, Set(p, s),
         Flight(s, Ever, Live, auctions),
         UNCHANGED <<chain, auctions>>, KeeperOK'
  PROVE  HInv'
<1>1. pass' \in [Pass -> PassState]
  BY DEF HInv, TypeOK, Set
<1>2. \A r \in Pass : pass'[r] = pass[r] \/ pass'[r] = s
  BY DEF HInv, TypeOK, Set
<1>3. QED
  BY <1>1, <1>2, PassStep

LEMMA KeeperStep == ASSUME HInv PROVE KeeperOK /\ (UNCHANGED keeper => KeeperOK')
BY DEF HInv, TypeOK, KeeperOK, keeper

LEMMA DeathStep == ASSUME HInv, ProcessDies PROVE HInv'
<1>1. pass' \in [Pass -> PassState] /\ \A r \in Pass : pass'[r] = Idle
  BY IdleState DEF ProcessDies, AllIdle
<1>2. Flight(Idle, Ever, Live, auctions)
  BY DEF Flight, Idle
<1>3. KeeperOK'
  BY DEF ProcessDies, HInv, TypeOK, KeeperOK
<1>4. QED
  BY <1>1, <1>2, <1>3, PassStep DEF ProcessDies

(* What the chain's steps keep: even a reorganisation only adds to Ever,   *)
(* and what it opens again leaves Live.                                    *)
LEMMA ChainMoves ==
  ASSUME TypeOK, Chain
  PROVE  /\ started' \in 0 .. MaxAuctions /\ open' \in SUBSET (1 .. started')
         /\ rights' \in BOOLEAN /\ reorgs' \in 0 .. MaxReorgs
         /\ undone' \in SUBSET AuctionId /\ undone \subseteq undone'
         /\ Ever \subseteq Ever' /\ \A id \in Ever : id \in Live' => id \in Live
         /\ UNCHANGED <<auctions, keeper, pass>>
<1>1. /\ started \in 0 .. MaxAuctions /\ MaxAuctions \in Nat
      /\ open \in SUBSET (1 .. started) /\ undone \in SUBSET AuctionId
      /\ reorgs \in 0 .. MaxReorgs /\ MaxReorgs \in Nat /\ rights \in BOOLEAN
  BY MaxAuctionsAssumption, MaxReorgsAssumption DEF TypeOK
<1>2. CASE StartAuction
  BY <1>1, <1>2 DEF StartAuction, Ever, Live
<1>3. ASSUME NEW id \in AuctionId, SettleAuction(id)
      PROVE  /\ started' = started /\ open' = open \ {id}
             /\ UNCHANGED <<rights, reorgs, undone, auctions, keeper, pass>>
  BY <1>3 DEF SettleAuction
<1>4. CASE \E id \in AuctionId : SettleAuction(id)
  BY <1>1, <1>3, <1>4 DEF Ever, Live
<1>5. ASSUME NEW n \in 0 .. MaxAuctions, NEW back \in SUBSET AuctionId,
             Reorganise(n, back)
      PROVE  /\ started' \in 0 .. MaxAuctions /\ open' \in SUBSET (1 .. started')
             /\ rights' \in BOOLEAN /\ reorgs' \in 0 .. MaxReorgs
             /\ undone' \in SUBSET AuctionId /\ undone \subseteq undone'
             /\ Ever \subseteq Ever' /\ \A id \in Ever : id \in Live' => id \in Live
             /\ UNCHANGED <<auctions, keeper, pass>>
  <2>1. /\ started' = n /\ n <= started /\ reorgs < MaxReorgs /\ reorgs' = reorgs + 1
        /\ back \subseteq (1 .. n) \ open
        /\ open' = (open \cap (1 .. n)) \cup back
        /\ undone' = undone \cup ((n + 1) .. started) \cup back
        /\ UNCHANGED <<rights, auctions, keeper, pass>>
    BY <1>5 DEF Reorganise
  <2>2. open' \in SUBSET (1 .. started')
    BY <2>1
  <2>3. undone' \in SUBSET AuctionId /\ undone \subseteq undone'
    BY <1>1, <2>1 DEF AuctionId
  <2>4. Ever \subseteq Ever'
    BY <1>1, <2>1 DEF Ever
  <2>5. \A id \in Ever : id \in Live' => id \in Live
    BY <2>1 DEF Live
  <2>6. reorgs' \in 0 .. MaxReorgs
    BY <1>1, <2>1
  <2>7. QED
    BY <1>1, <2>1, <2>2, <2>3, <2>4, <2>5, <2>6
<1>6. QED
  BY <1>2, <1>4, <1>5 DEF Chain

(* The entries survive when the chain moves on. *)
LEMMA ChainStep == ASSUME HInv, Chain PROVE HInv'
<1>1. /\ auctions \in Seq(Followed) /\ pass \in [Pass -> PassState]
      /\ auctions' = auctions /\ pass' = pass /\ UNCHANGED keeper
      /\ Ever \subseteq Ever' /\ \A id \in Ever : id \in Live' => id \in Live
  BY ChainMoves DEF HInv, TypeOK
<1>2. TypeOK'
  <2>1. KeeperOK'
    BY <1>1, KeeperStep
  <2>2. QED
    BY <1>1, <2>1, ChainMoves DEF HInv, TypeOK, KeeperOK
<1>3. \A i \in DOMAIN auctions : auctions[i].id \in Ever
  BY DEF HInv, Entries, Entry
<1>4. InFlight'
  <2> SUFFICES ASSUME NEW p \in Pass
               PROVE  Flight(pass[p], Ever', Live', auctions)
    BY <1>1 DEF InFlight
  <2>1. pass[p] \in PassState /\ Flight(pass[p], Ever, Live, auctions)
    BY <1>1 DEF HInv, InFlight
  <2>2. Len(auctions) <= Len(auctions)
    BY <1>1
  <2>3. \A i \in DOMAIN auctions : /\ auctions[i].id = auctions[i].id
                                  /\ auctions[i].id \in Ever
    BY <1>3
  <2>4. QED
    BY <2>1, <2>2, <2>3, <1>1, FlightStable
<1>5. Entries'
  <2> SUFFICES ASSUME NEW i \in DOMAIN auctions
               PROVE  Entry(auctions[i], i, Ever', Live')
    BY <1>1 DEF Entries
  <2>1. Entry(auctions[i], i, Ever, Live)
    BY DEF HInv, Entries
  <2>2. QED
    BY <2>1, <1>1 DEF Entry
<1>6. QED
  BY <1>2, <1>4, <1>5 DEF HInv

LEMMA BeginStep ==
  ASSUME HInv, NEW q \in Pass, NEW kind \in {"load", "reload", "bid"},
         NEW s \in Start, NEW others \in SUBSET Pass, Begin(q, kind, s, others),
         UNCHANGED <<chain, auctions, alive, approvals>>,
         stage' \in [Start -> {"new", "loading", "loaded"}]
  PROVE  HInv'
<1>1. TypeOK /\ \A r \in Pass : Flight(pass[r], Ever, Live, auctions)
  BY DEF HInv, InFlight
<1>2. /\ pass' \in [Pass -> PassState] /\ overlapped' \in BOOLEAN
      /\ \A r \in Pass : Flight(pass'[r], Ever, Live, auctions)
  BY <1>1, BeginState
<1>3. KeeperOK'
  BY <1>2, KeeperStep DEF KeeperOK
<1>4. QED
  BY <1>2, <1>3, PassStep

LEMMA CallerStep ==
  ASSUME HInv, NEW p \in Pass, Caller(p)
  PROVE  HInv'
<1>1. TypeOK /\ stage \in [Start -> {"new", "loading", "loaded"}]
      /\ pass \in [Pass -> PassState] /\ Others(p) \in SUBSET Pass
  BY DEF HInv, TypeOK, Others
<1>2. Flight(Idle, Ever, Live, auctions)
  BY DEF Flight, Idle
<1>3. ASSUME NEW s \in Start, LoadState(p, s) PROVE HInv'
  <2>1. stage' \in [Start -> {"new", "loading", "loaded"}]
    BY <1>1, <1>3 DEF LoadState
  <2>2. QED
    BY <1>1, <1>3, <2>1, BeginStep DEF LoadState
<1>4. ASSUME NEW s \in Start, ReloadState(p, s) PROVE HInv'
  BY <1>1, <1>4, BeginStep DEF ReloadState
<1>5. CASE ReloadReturns(p)
  <2>1. CASE Set(p, Idle) /\ UNCHANGED overlapped
    <3>1. UNCHANGED keeper
      BY <1>5, <2>1 DEF ReloadReturns, keeper
    <3>2. QED
      BY <2>1, <3>1, <1>2, <1>5, IdleState, KeeperStep, OwnStep DEF ReloadReturns
  <2>2. ASSUME NEW q \in Pass \ {p}, Begin(q, "bid", pass[p].start, Others(p))
        PROVE  HInv'
    <3>1. pass[p].start \in Start
      BY <1>1 DEF PassState
    <3>2. QED
      BY <1>1, <1>5, <2>2, <3>1, BeginStep DEF ReloadReturns
  <2>3. QED
    BY <1>5, <2>1, <2>2 DEF ReloadReturns
<1>6. CASE BiddingReturns(p)
  BY <1>2, <1>6, IdleState, KeeperStep, OwnStep DEF BiddingReturns
<1>7. CASE BiddingFails(p)
  BY <1>7, DeathStep DEF BiddingFails
<1>8. QED
  BY <1>3, <1>4, <1>5, <1>6, <1>7 DEF Caller

LEMMA AnswerStep ==
  ASSUME HInv, NEW p \in Pass, Answer(p) \/ RpcFails(p)
  PROVE  HInv'
<1>1. /\ UNCHANGED keeper => KeeperOK'
      /\ pass[p] \in PassState /\ Flight(pass[p], Ever, Live, auctions)
      /\ started \in Nat
  BY MaxAuctionsAssumption, KeeperStep DEF HInv, TypeOK, InFlight
<1>2. \A id : Sold(id) \in Nat /\ (Sold(id) = 1 => id \notin Live)
  BY DEF Sold, Live
<1>3. CASE CountAnswered(p)
  <2> DEFINE s == [pass[p] EXCEPT !.pc = "counted", !.answer = started]
  <2>1. s \in PassState /\ Flight(s, Ever, Live, auctions)
    <3>1. s \in PassState /\ s.pc = "counted" /\ s.answer = started
      BY <1>1 DEF PassState, PC, Waiting, Answered
    <3>2. (1 .. started) \subseteq Ever
      BY DEF Ever
    <3>3. QED
      BY <3>1, <3>2 DEF Flight
  <2>2. Set(p, s) /\ UNCHANGED <<chain, auctions, keeper>>
    BY <1>3 DEF CountAnswered
  <2>3. QED
    BY <1>1, <2>1, <2>2, OwnStep
<1>4. CASE InitAnswered(p)
  <2> DEFINE s == [pass[p] EXCEPT !.pc = "inited",
                                  !.answer = Sold(pass[p].next)]
  <2>1. s \in PassState /\ Flight(s, Ever, Live, auctions)
    BY <1>1, <1>2, <1>4
    DEF InitAnswered, At, PassState, PC, Waiting, Answered, Flight
  <2>2. Set(p, s) /\ UNCHANGED <<chain, auctions, keeper>>
    BY <1>4 DEF InitAnswered
  <2>3. QED
    BY <1>1, <2>1, <2>2, OwnStep
<1>5. CASE ReloadAnswered(p)
  <2> DEFINE s == [pass[p] EXCEPT !.pc = "reloaded",
                                  !.answer = Sold(auctions[pass[p].cursor].id)]
  <2>1. s \in PassState /\ Flight(s, Ever, Live, auctions)
    BY <1>1, <1>2, <1>5
    DEF ReloadAnswered, At, PassState, PC, Waiting, Answered, Flight
  <2>2. Set(p, s) /\ UNCHANGED <<chain, auctions, keeper>>
    BY <1>5 DEF ReloadAnswered
  <2>3. QED
    BY <1>1, <2>1, <2>2, OwnStep
<1>6. CASE RightsAnswered(p)
  <2> DEFINE s == [pass[p] EXCEPT !.pc = "righted",
                                  !.answer = IF rights THEN 1 ELSE 0]
  <2>1. s \in PassState /\ Flight(s, Ever, Live, auctions)
    BY <1>1 DEF PassState, PC, Waiting, Answered, Flight
  <2>2. Set(p, s) /\ UNCHANGED <<chain, auctions, keeper>>
    BY <1>6 DEF RightsAnswered
  <2>3. QED
    BY <1>1, <2>1, <2>2, OwnStep
<1>7. CASE RpcFails(p)
  <2> DEFINE s == Ended(pass[p], "failed")
  <2>1. s \in PassState /\ Flight(s, Ever, Live, auctions)
    BY <1>1, EndedState DEF Flight
  <2>2. Set(p, s) /\ UNCHANGED <<chain, auctions, keeper>>
    BY <1>7 DEF RpcFails
  <2>3. QED
    BY <1>1, <2>1, <2>2, OwnStep
<1>8. QED
  BY <1>3, <1>4, <1>5, <1>6, <1>7 DEF Answer

(* A step that changes the list: it keeps the ids it has, and the entries  *)
(* and the pass are well formed afterwards.                                *)
LEMMA ListStep ==
  ASSUME HInv, NEW p \in Pass, NEW s \in PassState, Set(p, s),
         NEW list \in Seq(Followed), auctions' = list,
         Len(auctions) <= Len(list),
         \A i \in DOMAIN auctions : list[i].id = auctions[i].id,
         \A i \in DOMAIN list : Entry(list[i], i, Ever, Live),
         Flight(s, Ever, Live, list),
         UNCHANGED <<chain, keeper>>
  PROVE  HInv'
<1>1. pass \in [Pass -> PassState] /\ auctions \in Seq(Followed)
      /\ Ever' = Ever /\ Live' = Live
  BY DEF HInv, TypeOK, chain, Ever, Live
<1>2. pass' \in [Pass -> PassState]
      /\ \A r \in Pass : pass'[r] = IF r = p THEN s ELSE pass[r]
  BY <1>1 DEF Set
<1>3. TypeOK'
  BY <1>2 DEF HInv, TypeOK, chain, keeper
<1>4. \A i \in DOMAIN auctions : /\ list[i].id = auctions[i].id
                                /\ auctions[i].id \in Ever
  BY DEF HInv, Entries, Entry
<1>5. ASSUME NEW r \in Pass PROVE Flight(pass[r], Ever, Live, list)
  <2>1. pass[r] \in PassState /\ Flight(pass[r], Ever, Live, auctions)
    BY <1>1 DEF HInv, InFlight
  <2>2. Ever \subseteq Ever
    OBVIOUS
  <2>3. QED
    BY <1>1, <1>4, <2>1, <2>2, FlightStable
<1>6. InFlight'
  BY <1>1, <1>2, <1>5 DEF InFlight
<1>7. Entries'
  BY <1>1 DEF Entries
<1>8. QED
  BY <1>3, <1>6, <1>7 DEF HInv

LEMMA AppendEntry ==
  ASSUME NEW list \in Seq(Followed), NEW e \in Followed,
         NEW list2, list2 = Append(list, e)
  PROVE  /\ list2 \in Seq(Followed)
         /\ Len(list2) = Len(list) + 1
         /\ \A i \in DOMAIN list : list2[i] = list[i]
         /\ \A i \in DOMAIN list2 : i \in DOMAIN list \/ i = Len(list) + 1
         /\ list2[Len(list) + 1] = e
OBVIOUS

LEMMA StoreEntry ==
  ASSUME NEW list \in Seq(Followed), NEW e \in Followed, NEW c \in DOMAIN list,
         NEW list2, list2 = [list EXCEPT ![c] = e]
  PROVE  /\ list2 \in Seq(Followed) /\ Len(list2) = Len(list)
         /\ DOMAIN list2 = DOMAIN list
         /\ \A i \in DOMAIN list : i # c => list2[i] = list[i]
         /\ list2[c] = e
OBVIOUS

(* The list a pass leaves when it appends the auction it initialised, and  *)
(* the one it leaves when it stores the answer of a reload.                *)
PushedEntry(s) == [id |-> s.next, deleted |-> s.answer = 1]
Pushed(s) == Append(auctions, PushedEntry(s))
Refreshed(s) == [auctions EXCEPT ![s.cursor].deleted = (s.answer = 1)]

LEMMA PushedList ==
  ASSUME HInv, NEW p \in Pass, At(p, "inited")
  PROVE  /\ PushedEntry(pass[p]).id = pass[p].next
         /\ PushedEntry(pass[p]).deleted <=> pass[p].answer = 1
         /\ Pushed(pass[p]) \in Seq(Followed)
         /\ Len(Pushed(pass[p])) = Len(auctions) + 1
         /\ \A i \in DOMAIN auctions : Pushed(pass[p])[i] = auctions[i]
         /\ \A i \in DOMAIN Pushed(pass[p]) :
              i \in DOMAIN auctions \/ i = Len(auctions) + 1
         /\ Pushed(pass[p])[Len(auctions) + 1] = PushedEntry(pass[p])
<1>1. /\ TypeOK /\ Flight(pass[p], Ever, Live, auctions)
      /\ started \in 0 .. MaxAuctions /\ undone \subseteq AuctionId
      /\ pass[p] \in PassState /\ auctions \in Seq(Followed)
  BY DEF HInv, InFlight, TypeOK
<1>2. Ever \subseteq AuctionId
  BY <1>1, MaxAuctionsAssumption DEF Ever, AuctionId
<1>3. pass[p].next \in Ever
  BY <1>1 DEF Flight, At, PassState
<1>4. PushedEntry(pass[p]) \in Followed
  BY <1>2, <1>3 DEF Followed, PushedEntry
<1>5. /\ PushedEntry(pass[p]).id = pass[p].next
      /\ PushedEntry(pass[p]).deleted <=> pass[p].answer = 1
  BY DEF PushedEntry
<1>6. QED
  BY <1>1, <1>4, <1>5, AppendEntry DEF Pushed

LEMMA RefreshedList ==
  ASSUME HInv, NEW p \in Pass, At(p, "reloaded")
  PROVE  /\ pass[p].cursor \in DOMAIN auctions /\ pass[p].cursor \in Nat
         /\ Refreshed(pass[p]) \in Seq(Followed)
         /\ Len(Refreshed(pass[p])) = Len(auctions)
         /\ DOMAIN Refreshed(pass[p]) = DOMAIN auctions
         /\ \A i \in DOMAIN auctions :
              /\ Refreshed(pass[p])[i].id = auctions[i].id
              /\ i # pass[p].cursor => Refreshed(pass[p])[i] = auctions[i]
         /\ Refreshed(pass[p])[pass[p].cursor].deleted <=> pass[p].answer = 1
<1> DEFINE s == pass[p]
           list == Refreshed(s)
           x == [auctions[s.cursor] EXCEPT !.deleted = (s.answer = 1)]
<1>1. /\ s \in PassState /\ Flight(s, Ever, Live, auctions)
      /\ auctions \in Seq(Followed)
  BY DEF HInv, TypeOK, InFlight
<1>2. s.cursor \in DOMAIN auctions /\ s.cursor \in Nat
  BY <1>1 DEF Flight, PassState, At
<1>3. auctions[s.cursor] \in Followed /\ (s.answer = 1) \in BOOLEAN
  BY <1>1, <1>2
<1>4. /\ x \in Followed /\ x.id = auctions[s.cursor].id
      /\ x.deleted <=> s.answer = 1
  BY <1>3 DEF Followed
<1>5. list = [auctions EXCEPT ![s.cursor] = x]
  BY DEF Refreshed
<1> HIDE DEF s, x, list
<1>6. /\ list \in Seq(Followed) /\ Len(list) = Len(auctions)
      /\ DOMAIN list = DOMAIN auctions
      /\ \A i \in DOMAIN auctions : i # s.cursor => list[i] = auctions[i]
      /\ list[s.cursor] = x
  BY <1>1, <1>2, <1>4, <1>5, StoreEntry
<1>7. \A i \in DOMAIN auctions : list[i].id = auctions[i].id
  BY <1>4, <1>6
<1>8. list[s.cursor].deleted <=> s.answer = 1
  BY <1>4, <1>6
<1>9. QED
  BY <1>2, <1>6, <1>7, <1>8 DEF s, list

LEMMA PushStep ==
  ASSUME HInv, NEW p \in Pass, Push(p)
  PROVE  HInv'
<1> DEFINE s == pass[p]
           e == PushedEntry(s)
           list == Pushed(s)
           more == [s EXCEPT !.pc = "init", !.answer = 0, !.next = s.next + 1]
           t == IF s.next < s.last THEN more ELSE ReloadFrom(s, list, 1)
<1>1. /\ s \in PassState /\ Flight(s, Ever, Live, auctions) /\ s.pc = "inited"
      /\ auctions \in Seq(Followed) /\ At(p, "inited")
  BY DEF HInv, TypeOK, InFlight, Push, At
<1>2. /\ s.next \in Nat /\ s.last \in Nat /\ 1 <= s.next /\ s.next <= s.last
      /\ (1 .. s.last) \subseteq Ever /\ s.next \in Ever
      /\ s.next <= Len(auctions) + 1
      /\ s.answer = 1 => s.next \notin Live
  BY <1>1 DEF Flight, PassState
<1>3. /\ auctions' = list /\ Set(p, t) /\ UNCHANGED <<chain, keeper>>
  BY DEF Push, Pushed, PushedEntry
<1>4. /\ e.id = s.next /\ (e.deleted <=> s.answer = 1)
      /\ list \in Seq(Followed) /\ Len(list) = Len(auctions) + 1
      /\ \A i \in DOMAIN auctions : list[i] = auctions[i]
      /\ \A i \in DOMAIN list : i \in DOMAIN auctions \/ i = Len(auctions) + 1
      /\ list[Len(auctions) + 1] = e
  BY <1>1, PushedList
<1>5. more \in PassState /\ more.pc = "init" /\ more.next = s.next + 1
      /\ more.last = s.last
  <2>1. s.next + 1 \in Nat /\ "init" \in PC
    BY <1>2 DEF PC, Waiting
  <2> HIDE DEF s
  <2>2. QED
    BY <2>1, <1>1 DEF PassState
<1> HIDE DEF e, list, more
<1>6. Entry(e, Len(auctions) + 1, Ever, Live)
  BY <1>2, <1>4 DEF Entry
<1>7. \A i \in DOMAIN list : Entry(list[i], i, Ever, Live)
  BY <1>4, <1>6 DEF HInv, Entries
<1>8. t \in PassState /\ Flight(t, Ever, Live, list)
  <2>1. CASE s.next < s.last
    <3>1. Flight(more, Ever, Live, list)
      BY <1>1, <1>2, <1>4, <2>1, <1>5 DEF Flight
    <3>2. QED
      BY <2>1, <1>5, <3>1
  <2>2. CASE ~(s.next < s.last)
    <3> HIDE DEF s
    <3>1. QED
      BY <2>2, <1>1, <1>4, ReloadFromProperty
  <2>3. QED
    BY <2>1, <2>2
<1>9. Len(auctions) <= Len(list) /\ \A i \in DOMAIN auctions : list[i].id = auctions[i].id
  BY <1>1, <1>4
<1>10. QED
  <2> HIDE DEF t
  <2>1. QED
    BY <1>3, <1>4, <1>7, <1>8, <1>9, ListStep

LEMMA RefreshStep ==
  ASSUME HInv, NEW p \in Pass, Refresh(p)
  PROVE  HInv'
<1> DEFINE s == pass[p]
           list == Refreshed(s)
           t == ReloadFrom(s, list, s.cursor + 1)
<1>1. /\ s \in PassState /\ Flight(s, Ever, Live, auctions) /\ s.pc = "reloaded"
      /\ auctions \in Seq(Followed) /\ At(p, "reloaded")
  BY DEF HInv, TypeOK, InFlight, Refresh, At
<1>2. s.cursor \in DOMAIN auctions /\ (s.answer = 1 => auctions[s.cursor].id \notin Live)
  BY <1>1 DEF Flight, PassState
<1>3. /\ s.cursor \in Nat /\ list \in Seq(Followed) /\ Len(list) = Len(auctions)
      /\ DOMAIN list = DOMAIN auctions
      /\ \A i \in DOMAIN auctions : /\ list[i].id = auctions[i].id
                                    /\ i # s.cursor => list[i] = auctions[i]
      /\ list[s.cursor].deleted <=> s.answer = 1
  BY <1>1, RefreshedList
<1>4. /\ auctions' = list /\ Set(p, t) /\ UNCHANGED <<chain, keeper>>
  BY DEF Refresh, Refreshed
<1> HIDE DEF list
<1>5. \A i \in DOMAIN list : Entry(list[i], i, Ever, Live)
  <2> SUFFICES ASSUME NEW i \in DOMAIN auctions
               PROVE  Entry(list[i], i, Ever, Live)
    BY <1>3
  <2>1. Entry(auctions[i], i, Ever, Live)
    BY DEF HInv, Entries
  <2>2. CASE i # s.cursor
    BY <2>1, <2>2, <1>3
  <2>3. CASE i = s.cursor
    BY <2>1, <2>3, <1>2, <1>3 DEF Entry
  <2>4. QED
    BY <2>2, <2>3
<1>6. t \in PassState /\ Flight(t, Ever, Live, list)
  <2>1. s.cursor + 1 \in Nat \ {0}
    BY <1>3
  <2> HIDE DEF s
  <2>2. QED
    BY <1>1, <1>3, <2>1, ReloadFromProperty
<1>7. Len(auctions) <= Len(list)
  BY <1>1, <1>3
<1>8. QED
  <2> HIDE DEF t
  <2>1. QED
    BY <1>3, <1>4, <1>5, <1>6, <1>7, ListStep

LEMMA ResumeStep ==
  ASSUME HInv, NEW p \in Pass, Resume(p)
  PROVE  HInv'
<1>1. /\ KeeperOK /\ (UNCHANGED keeper => KeeperOK')
      /\ pass[p] \in PassState /\ Flight(pass[p], Ever, Live, auctions)
      /\ auctions \in Seq(Followed)
  BY KeeperStep DEF HInv, TypeOK, InFlight
<1>2. CASE Compare(p)
  <2> DEFINE s == pass[p]
             n == Len(auctions)
  <2>1. /\ (1 .. s.answer) \subseteq Ever /\ s.answer \in Nat /\ n \in Nat
        /\ s.pc = "counted"
    BY <1>1, <1>2 DEF Compare, At, Flight, PassState
  <2>2. CASE s.answer = n /\ Set(p, Ended(s, "ok"))
    <3>1. Ended(s, "ok") \in PassState
      BY <1>1, EndedState
    <3>2. Flight(Ended(s, "ok"), Ever, Live, auctions)
      BY <1>1, EndedState DEF Flight
    <3>3. QED
      BY <1>1, <1>2, <2>2, <3>1, <3>2, OwnStep DEF Compare
  <2>3. CASE s.answer < n /\ Set(p, Ended(s, "failed"))
    <3>1. Ended(s, "failed") \in PassState
      BY <1>1, EndedState
    <3>2. Flight(Ended(s, "failed"), Ever, Live, auctions)
      BY <1>1, EndedState DEF Flight
    <3>3. QED
      BY <1>1, <1>2, <2>3, <3>1, <3>2, OwnStep DEF Compare
  <2> DEFINE t == [s EXCEPT !.pc = "init", !.answer = 0, !.next = n + 1,
                            !.last = s.answer]
  <2>4. CASE s.answer > n /\ Set(p, t)
    <3>1. n + 1 \in Nat /\ "init" \in PC
      BY <2>1 DEF PC, Waiting
    <3>2. t \in PassState /\ t.pc = "init" /\ t.next = n + 1 /\ t.last = s.answer
      <4> HIDE DEF n
      <4>1. QED
        BY <1>1, <2>1, <3>1 DEF PassState
    <3> HIDE DEF t
    <3>3. Flight(t, Ever, Live, auctions)
      BY <2>1, <2>4, <3>2 DEF Flight
    <3>4. QED
      BY <1>1, <1>2, <2>4, <3>2, <3>3, OwnStep DEF Compare
  <2>5. QED
    BY <1>2, <2>2, <2>3, <2>4 DEF Compare
<1>3. CASE Push(p)
  BY <1>3, PushStep
<1>4. CASE Refresh(p)
  BY <1>4, RefreshStep
<1>5. CASE AskRights(p)
  <2> DEFINE s == [pass[p] EXCEPT !.pc = "rights", !.last = 0, !.gone = {}]
  <2>1. s \in PassState /\ Flight(s, Ever, Live, auctions)
    BY <1>1 DEF PassState, PC, Waiting, Answered, Flight
  <2>2. Set(p, s) /\ UNCHANGED <<chain, auctions, keeper>>
    BY <1>5 DEF AskRights
  <2>3. QED
    BY <1>1, <2>1, <2>2, OwnStep
<1>6. CASE FinishLoad(p)
  <2>1. KeeperOK'
    <3>1. approvals' \in Nat /\ alive' = alive /\ overlapped' = overlapped
      BY <1>1, <1>6 DEF FinishLoad, KeeperOK
    <3>2. stage' \in [Start -> {"new", "loading", "loaded"}]
      BY <1>1, <1>6 DEF FinishLoad, KeeperOK
    <3>3. QED
      BY <1>1, <3>1, <3>2 DEF KeeperOK
  <2>2. Flight(Idle, Ever, Live, auctions)
    BY DEF Flight, Idle
  <2>3. QED
    BY <1>6, <2>1, <2>2, IdleState, OwnStep DEF FinishLoad
<1>7. CASE LoadFails(p)
  BY <1>7, DeathStep DEF LoadFails
<1>8. QED
  BY <1>2, <1>3, <1>4, <1>5, <1>6, <1>7 DEF Resume

LEMMA ApprovalStep == ASSUME HInv, ApprovalMined PROVE HInv'
<1>1. approvals' \in Nat
  BY DEF HInv, TypeOK, ApprovalMined
<1>2. TypeOK'
  BY <1>1 DEF ApprovalMined, HInv, TypeOK
<1>3. Ever' = Ever /\ Live' = Live /\ UNCHANGED <<auctions, pass>>
  BY DEF ApprovalMined, Ever, Live
<1>4. InFlight' /\ Entries'
  BY <1>3 DEF HInv, InFlight, Entries
<1>5. QED
  BY <1>2, <1>4 DEF HInv

THEOREM InitHInv == Init => HInv
<1> SUFFICES ASSUME Init PROVE HInv
  OBVIOUS
<1>1. TypeOK
  <2>1. <<>> \in Seq(Followed) /\ AllIdle \in [Pass -> PassState]
    BY IdleState DEF AllIdle
  <2>2. QED
    <3>1. reorgs \in 0 .. MaxReorgs /\ undone \in SUBSET AuctionId
      BY MaxReorgsAssumption DEF Init
    <3>2. stage \in [Start -> {"new", "loading", "loaded"}]
      BY DEF Init
    <3>3. QED
      BY <2>1, <3>1, <3>2 DEF Init, TypeOK
<1>2. InFlight
  BY DEF Init, AllIdle, Idle, InFlight, Flight
<1>3. Entries
  BY DEF Init, Entries
<1>4. QED
  BY <1>1, <1>2, <1>3 DEF HInv

(* HInv is inductive, whatever passes interleave. *)
THEOREM NextHInv == HInv /\ [Next]_vars => HInv'
<1> SUFFICES ASSUME HInv, [Next]_vars PROVE HInv'
  OBVIOUS
<1>1. CASE Chain
  BY <1>1, ChainStep
<1>2. CASE ApprovalMined
  BY <1>2, ApprovalStep
<1>3. ASSUME NEW p \in Pass, Caller(p) PROVE HInv'
  BY <1>3, CallerStep
<1>4. ASSUME NEW p \in Pass, Answer(p) \/ RpcFails(p) PROVE HInv'
  BY <1>4, AnswerStep
<1>5. ASSUME NEW p \in Pass, Resume(p) PROVE HInv'
  BY <1>5, ResumeStep
<1>6. CASE OtherRpcFails
  BY <1>6, DeathStep DEF OtherRpcFails
<1>7. CASE UNCHANGED vars
  BY <1>7 DEF vars, chain, keeper, HInv, TypeOK, InFlight, Entries, Ever, Live
<1>8. QED
  BY <1>1, <1>2, <1>3, <1>4, <1>5, <1>6, <1>7 DEF Next

THEOREM AlwaysHInv == Spec => []HInv
  BY InitHInv, NextHInv, PTL DEF Spec

(* The variables keep their domains, for every number of passes.           *)
THEOREM HouseTypeCorrect == Spec => []TypeOK
<1>1. HInv => TypeOK
  BY DEF HInv
<1>2. QED
  BY <1>1, AlwaysHInv, PTL

(* However many handleAuctionsState calls overlap, entry i of the list is  *)
(* auction i or an earlier one, and it exists or did before a reorg.       *)
THEOREM NeverAheadCorrect == Spec => []NeverAhead
<1>1. HInv => NeverAhead
  BY DEF HInv, Entries, Entry, Ever, NeverAhead
<1>2. QED
  BY <1>1, AlwaysHInv, PTL

(* However late an answer is applied and however the chain is reorganised, *)
(* an auction cached as deleted is settled, but if it was reorganised.     *)
THEOREM DeletedIsSettledCorrect == Spec => []DeletedIsSettled
<1>1. HInv => DeletedIsSettled
  BY DEF HInv, Entries, Entry, Live, DeletedIsSettled
<1>2. QED
  BY <1>1, AlwaysHInv, PTL
-----------------------------------------------------------------------------
(***************************************************************************)
(* Who calls whom.  A call belongs to a start that stands where its kind   *)
(* says, so a call that begins while another is under way is of a keeper   *)
(* that bids or of another start; and what a call remembers as settled it  *)
(* remembers only while it is alone.                                       *)
(***************************************************************************)
CallerOf(s) == \/ s.kind = "bid" /\ IsBidding
               \/ s.kind = "load" /\ stage[s.start] = "loading"
               \/ s.kind = "reload" /\ stage[s.start] = "loaded"

Callers == \A p \in Pass : Active(p) => CallerOf(pass[p])

RightsOfLoads == \A p \in Pass : pass[p].pc \in {"rights", "righted"}
                                   => pass[p].kind = "load"

LoadsOnce == \A p, q \in Pass :
               /\ Active(p) /\ pass[p].kind = "load"
               /\ Active(q) /\ pass[q].kind = "load"
               /\ pass[p].start = pass[q].start
               => p = q

OverlapCaused == overlapped => IsBidding \/ StartedTwice

Alone == ~overlapped => \A p, q \in Pass : Active(p) /\ Active(q) => p = q

GoneAlone == \A p, q \in Pass : pass[p].gone # {} /\ Active(q) => p = q

CInv == /\ Callers /\ RightsOfLoads /\ LoadsOnce
        /\ OverlapCaused /\ Alone /\ GoneAlone

(* A step that a call takes by itself, before it returns. *)
Own(p) == Answer(p) \/ RpcFails(p) \/ Compare(p) \/ Push(p) \/ Refresh(p)
            \/ AskRights(p)

Inherits(s, t) == /\ t.kind = s.kind /\ t.start = s.start
                  /\ t.gone \in {s.gone, {}}
                  /\ t.pc = "rights" => s.kind = "load"
                  /\ t.pc = "righted" => s.pc = "rights"

LEMMA OwnMoves ==
  ASSUME HInv, NEW p \in Pass, Own(p)
  PROVE  /\ Active(p) /\ UNCHANGED <<chain, keeper>>
         /\ \E t : Set(p, t) /\ Inherits(pass[p], t)
<1> DEFINE s == pass[p]
<1>1. s \in PassState /\ auctions \in Seq(Followed)
  BY DEF HInv, TypeOK
<1>2. Active(p) /\ UNCHANGED <<chain, keeper>>
  BY DEF Own, Answer, CountAnswered, InitAnswered, ReloadAnswered, RightsAnswered,
         RpcFails, Compare, Push, Refresh, AskRights, Active, At, Waiting
<1>3. CASE CountAnswered(p)
  <2> DEFINE t == [s EXCEPT !.pc = "counted", !.answer = started]
  <2>1. Inherits(s, t)
    BY <1>1 DEF PassState, Inherits
  <2>2. Set(p, t)
    BY <1>3 DEF CountAnswered
  <2>3. QED
    BY <1>2, <2>1, <2>2
<1>4. CASE InitAnswered(p)
  <2> DEFINE t == [s EXCEPT !.pc = "inited", !.answer = Sold(s.next)]
  <2>1. Inherits(s, t)
    BY <1>1 DEF PassState, Inherits
  <2>2. Set(p, t)
    BY <1>4 DEF InitAnswered
  <2>3. QED
    BY <1>2, <2>1, <2>2
<1>5. CASE ReloadAnswered(p)
  <2> DEFINE t == [s EXCEPT !.pc = "reloaded",
                            !.answer = Sold(auctions[s.cursor].id)]
  <2>1. Inherits(s, t)
    BY <1>1 DEF PassState, Inherits
  <2>2. Set(p, t)
    BY <1>5 DEF ReloadAnswered
  <2>3. QED
    BY <1>2, <2>1, <2>2
<1>6. CASE RightsAnswered(p)
  <2> DEFINE t == [s EXCEPT !.pc = "righted", !.answer = IF rights THEN 1 ELSE 0]
  <2>1. Inherits(s, t)
    BY <1>1, <1>6 DEF RightsAnswered, At, PassState, Inherits
  <2>2. Set(p, t)
    BY <1>6 DEF RightsAnswered
  <2>3. QED
    BY <1>2, <2>1, <2>2
<1>7. CASE RpcFails(p)
  <2>1. Set(p, Ended(s, "failed")) /\ Inherits(s, Ended(s, "failed"))
    BY <1>1, <1>7, EndedState DEF RpcFails, Inherits
  <2>2. QED
    BY <1>2, <2>1
<1>8. CASE Compare(p)
  <2> DEFINE t == [s EXCEPT !.pc = "init", !.answer = 0,
                            !.next = Len(auctions) + 1, !.last = s.answer]
  <2>1. Inherits(s, t)
    BY <1>1 DEF PassState, Inherits
  <2>2. Inherits(s, Ended(s, "ok")) /\ Inherits(s, Ended(s, "failed"))
    BY <1>1, EndedState DEF Inherits
  <2>3. Set(p, Ended(s, "ok")) \/ Set(p, Ended(s, "failed")) \/ Set(p, t)
    BY <1>8 DEF Compare
  <2> HIDE DEF t
  <2>4. QED
    BY <1>2, <2>1, <2>2, <2>3
<1>9. CASE Push(p)
  <2> DEFINE t == [s EXCEPT !.pc = "init", !.answer = 0, !.next = s.next + 1]
             list == Pushed(s)
  <2>1. Inherits(s, t)
    BY <1>1 DEF PassState, Inherits
  <2>2. list \in Seq(Followed)
    BY <1>9, PushedList DEF Push
  <2>3. Inherits(s, ReloadFrom(s, list, 1))
    <3> HIDE DEF s, list
    <3>1. QED
      BY <1>1, <2>2, ReloadFromProperty DEF Inherits
  <2>4. Set(p, t) \/ Set(p, ReloadFrom(s, list, 1))
    BY <1>9 DEF Push, Pushed, PushedEntry
  <2> HIDE DEF t, list
  <2>5. QED
    BY <1>2, <2>1, <2>3, <2>4
<1>10. CASE Refresh(p)
  <2> DEFINE list == Refreshed(s)
  <2>1. list \in Seq(Followed) /\ s.cursor + 1 \in Nat \ {0}
    BY <1>10, RefreshedList DEF Refresh
  <2>2. Inherits(s, ReloadFrom(s, list, s.cursor + 1))
    <3> HIDE DEF s, list
    <3>1. QED
      BY <1>1, <2>1, ReloadFromProperty DEF Inherits
  <2>3. Set(p, ReloadFrom(s, list, s.cursor + 1))
    BY <1>10 DEF Refresh, Refreshed
  <2> HIDE DEF list
  <2>4. QED
    BY <1>2, <2>2, <2>3
<1>11. CASE AskRights(p)
  <2> DEFINE t == [s EXCEPT !.pc = "rights", !.last = 0, !.gone = {}]
  <2>1. Inherits(s, t)
    BY <1>1, <1>11 DEF AskRights, PassState, Inherits
  <2>2. Set(p, t)
    BY <1>11 DEF AskRights
  <2>3. QED
    BY <1>2, <2>1, <2>2
<1>12. QED
  BY <1>3, <1>4, <1>5, <1>6, <1>7, <1>8, <1>9, <1>10, <1>11 DEF Own, Answer

(* A call that goes on by itself changes nothing of this.                  *)
LEMMA OwnCallers ==
  ASSUME HInv, CInv, NEW p \in Pass, Own(p)
  PROVE  CInv'
<1>1. PICK t : Set(p, t) /\ Inherits(pass[p], t)
  BY OwnMoves
<1>2. pass \in [Pass -> PassState] /\ Active(p)
      /\ stage' = stage /\ overlapped' = overlapped
  BY OwnMoves DEF HInv, TypeOK, keeper
<1>3. pass'[p] = t /\ \A r \in Pass : r # p => pass'[r] = pass[r]
  BY <1>1, <1>2 DEF Set
<1>4. \A r \in Pass : Active(r)' => Active(r)
  BY <1>2, <1>3 DEF Active
<1>5. \A r \in Pass : /\ pass'[r].kind = pass[r].kind
                      /\ pass'[r].start = pass[r].start
                      /\ pass'[r].gone # {} => pass[r].gone # {}
  BY <1>1, <1>3 DEF Inherits
<1>6. Callers'
  BY <1>2, <1>4, <1>5 DEF CInv, Callers, CallerOf
<1>7. RightsOfLoads'
  BY <1>1, <1>3 DEF CInv, RightsOfLoads, Inherits
<1>8. LoadsOnce'
  BY <1>4, <1>5 DEF CInv, LoadsOnce
<1>9. OverlapCaused'
  BY <1>2 DEF CInv, OverlapCaused, StartedTwice
<1>10. Alone'
  BY <1>2, <1>4 DEF CInv, Alone
<1>11. GoneAlone'
  BY <1>4, <1>5 DEF CInv, GoneAlone
<1>12. QED
  BY <1>6, <1>7, <1>8, <1>9, <1>10, <1>11 DEF CInv

LEMMA DeathCallers == ASSUME HInv, CInv, ProcessDies PROVE CInv'
<1>1. \A r \in Pass : pass'[r].pc = "idle" /\ pass'[r].gone = {}
  BY DEF ProcessDies, AllIdle, Idle
<1>2. overlapped' = overlapped /\ stage' = stage
  BY DEF ProcessDies
<1>3. QED
  BY <1>1, <1>2 DEF CInv, Callers, RightsOfLoads, LoadsOnce, OverlapCaused,
                    StartedTwice, Alone, GoneAlone, Active

(* A call that begins is of the kind its start allows.                     *)
LEMMA BeginCallers ==
  ASSUME HInv, CInv, NEW q \in Pass, NEW kind \in {"load", "reload", "bid"},
         NEW s \in Start, NEW others \in SUBSET Pass, Begin(q, kind, s, others),
         q \notin others, \A r \in others : Active(r),
         stage' = stage \/ /\ stage[s] = "new" /\ kind = "load"
                           /\ stage' = [stage EXCEPT ![s] = "loading"],
         \/ kind = "bid" /\ IsBidding
         \/ kind = "load" /\ stage'[s] = "loading" /\ stage[s] = "new"
         \/ /\ kind = "reload" /\ stage'[s] = "loaded"
            /\ \A r \in others : ~(pass[r].kind = "reload" /\ pass[r].start = s)
  PROVE  CInv'
<1>1. TypeOK /\ pass \in [Pass -> PassState]
      /\ stage \in [Start -> {"new", "loading", "loaded"}]
  BY DEF HInv, TypeOK
<1>2. /\ pass'[q] = Call(kind, s, others)
      /\ \A r \in others : pass'[r] = [pass[r] EXCEPT !.gone = {}]
      /\ \A r \in Pass : r # q /\ r \notin others => pass'[r] = Idle
      /\ overlapped' = (overlapped \/ others # {})
  BY DEF Begin
<1>3. /\ pass'[q].kind = kind /\ pass'[q].start = s /\ pass'[q].pc = "count"
      /\ others # {} => pass'[q].gone = {}
  <2>1. /\ Call(kind, s, others).kind = kind /\ Call(kind, s, others).start = s
        /\ Call(kind, s, others).pc = "count"
    BY <1>1, CallState
  <2>2. others # {} => Call(kind, s, others).gone = {}
    BY DEF Call, Idle
  <2>3. QED
    BY <1>2, <2>1, <2>2
<1>4. \A r \in others : /\ pass'[r].kind = pass[r].kind
                        /\ pass'[r].start = pass[r].start
                        /\ pass'[r].pc = pass[r].pc /\ pass'[r].gone = {}
  <2>1. ASSUME NEW x \in PassState
        PROVE  LET y == [x EXCEPT !.gone = {}]
               IN  y.kind = x.kind /\ y.start = x.start /\ y.pc = x.pc /\ y.gone = {}
    BY DEF PassState
  <2>2. \A r \in others : pass[r] \in PassState
    BY <1>1
  <2>3. QED
    BY <1>2, <2>1, <2>2
<1>5. \A r \in Pass : r # q /\ r \notin others => pass'[r].pc = "idle"
                                                  /\ pass'[r].gone = {}
  BY <1>2 DEF Idle
<1>6. \A r \in Pass : Active(r)' => r = q \/ r \in others
  BY <1>5 DEF Active
<1>7. \A r \in others : CallerOf(pass[r]) /\ pass[r].start \in Start
  BY <1>1 DEF CInv, Callers, PassState
<1>8. \A r \in others : stage'[pass[r].start] = stage[pass[r].start]
                         \/ pass[r].kind = "bid"
  BY <1>1, <1>7 DEF CallerOf
<1>9. Callers'
  <2>1. CallerOf(pass[q])'
    BY <1>3 DEF CallerOf
  <2>2. ASSUME NEW r \in others PROVE CallerOf(pass[r])'
    BY <1>4, <1>7, <1>8 DEF CallerOf
  <2>3. QED
    BY <1>6, <2>1, <2>2 DEF Callers
<1>10. RightsOfLoads'
  <2>1. \A r \in others : pass'[r].pc \in {"rights", "righted"} => pass'[r].kind = "load"
    BY <1>4 DEF CInv, RightsOfLoads
  <2>2. QED
    BY <1>3, <1>5, <2>1 DEF RightsOfLoads
<1>11. LoadsOnce'
  <2>1. ASSUME NEW r \in others, pass[r].kind = "load", kind = "load" PROVE pass[r].start # s
    BY <2>1, <1>7 DEF CallerOf
  <2>2. QED
    BY <1>3, <1>4, <1>6, <2>1 DEF CInv, LoadsOnce
<1>12. OverlapCaused'
  <2>1. CASE IsBidding
    BY <2>1 DEF OverlapCaused
  <2>2. CASE ~IsBidding /\ others = {}
    <3>1. \A u \in Start : stage[u] # "new" => stage'[u] # "new"
      BY <1>1
    <3>2. QED
      BY <1>2, <2>2, <3>1 DEF CInv, OverlapCaused, StartedTwice
  <2>3. CASE ~IsBidding /\ others # {}
    <3>1. PICK r \in others : TRUE
      BY <2>3
    <3>2. pass[r].start # s
      BY <2>3, <1>7 DEF CallerOf
    <3>3. stage'[pass[r].start] # "new" /\ stage'[s] # "new"
      BY <2>3, <1>7, <1>8 DEF CallerOf
    <3>4. QED
      BY <3>2, <3>3, <1>7 DEF OverlapCaused, StartedTwice
  <2>4. QED
    BY <2>1, <2>2, <2>3
<1>13. Alone'
  BY <1>2, <1>6 DEF Alone
<1>14. GoneAlone'
  <2>1. ASSUME NEW a \in Pass, NEW b \in Pass, pass'[a].gone # {}, Active(b)'
        PROVE  a = b
    <3>1. a = q
      BY <2>1, <1>4, <1>5
    <3>2. others = {}
      BY <2>1, <3>1, <1>3
    <3>3. QED
      BY <2>1, <3>1, <3>2, <1>6
  <2>2. QED
    BY <2>1 DEF GoneAlone
<1>15. QED
  BY <1>9, <1>10, <1>11, <1>12, <1>13, <1>14 DEF CInv

LEMMA IdleCallers ==
  ASSUME HInv, CInv, NEW p \in Pass, Set(p, Idle), UNCHANGED <<stage, overlapped>>
  PROVE  CInv'
<1>1. pass \in [Pass -> PassState]
  BY DEF HInv, TypeOK
<1>2. /\ pass'[p].pc = "idle" /\ pass'[p].gone = {}
      /\ \A r \in Pass : r # p => pass'[r] = pass[r]
  BY <1>1 DEF Set, Idle
<1>3. QED
  BY <1>2 DEF CInv, Callers, CallerOf, RightsOfLoads, LoadsOnce, OverlapCaused,
              StartedTwice, Alone, GoneAlone, Active

LEMMA CallerCallers ==
  ASSUME HInv, CInv, NEW p \in Pass, Caller(p)
  PROVE  CInv'
<1>1. /\ stage \in [Start -> {"new", "loading", "loaded"}]
      /\ pass \in [Pass -> PassState] /\ Others(p) \in SUBSET Pass
      /\ p \notin Others(p) /\ \A r \in Others(p) : Active(r)
  BY DEF HInv, TypeOK, Others
<1>2. ASSUME NEW s \in Start, LoadState(p, s) PROVE CInv'
  <2>1. /\ stage[s] = "new" /\ stage' = [stage EXCEPT ![s] = "loading"]
        /\ Begin(p, "load", s, Others(p))
    BY <1>2 DEF LoadState
  <2>2. stage'[s] = "loading"
    BY <1>1, <2>1
  <2>3. QED
    BY <1>1, <2>1, <2>2, BeginCallers
<1>3. ASSUME NEW s \in Start, ReloadState(p, s) PROVE CInv'
  <2>1. /\ stage' = stage /\ stage'[s] = "loaded"
        /\ Begin(p, "reload", s, Others(p))
        /\ \A r \in Others(p) : ~(pass[r].kind = "reload" /\ pass[r].start = s)
    BY <1>3 DEF ReloadState
  <2>2. QED
    BY <1>1, <2>1, BeginCallers
<1>4. CASE ReloadReturns(p)
  <2>1. CASE Set(p, Idle) /\ UNCHANGED overlapped
    BY <1>4, <2>1, IdleCallers DEF ReloadReturns
  <2>2. ASSUME IsBidding, NEW q \in Pass \ {p}, ~Active(q),
               Begin(q, "bid", pass[p].start, Others(p))
        PROVE  CInv'
    <3>1. pass[p].start \in Start /\ q \notin Others(p) /\ stage' = stage
      BY <1>1, <1>4, <2>2 DEF PassState, ReloadReturns, Others
    <3>2. QED
      BY <1>1, <2>2, <3>1, BeginCallers
  <2>3. QED
    BY <1>4, <2>1, <2>2 DEF ReloadReturns
<1>5. CASE BiddingReturns(p)
  BY <1>5, IdleCallers DEF BiddingReturns, keeper
<1>6. CASE BiddingFails(p)
  BY <1>6, DeathCallers DEF BiddingFails
<1>7. QED
  BY <1>2, <1>3, <1>4, <1>5, <1>6 DEF Caller

LEMMA FinishCallers ==
  ASSUME HInv, CInv, NEW p \in Pass, FinishLoad(p)
  PROVE  CInv'
<1>1. /\ pass \in [Pass -> PassState] /\ pass[p].start \in Start
      /\ stage \in [Start -> {"new", "loading", "loaded"}]
      /\ stage' = [stage EXCEPT ![pass[p].start] = "loaded"]
      /\ Set(p, Idle) /\ overlapped' = overlapped
  BY DEF HInv, TypeOK, PassState, FinishLoad
<1>2. Active(p) /\ pass[p].kind = "load"
  BY DEF CInv, RightsOfLoads, FinishLoad, Active, At
<1>3. /\ pass'[p].pc = "idle" /\ pass'[p].gone = {}
      /\ \A r \in Pass : r # p => pass'[r] = pass[r]
  BY <1>1 DEF Set, Idle
<1>4. ASSUME NEW r \in Pass, r # p, Active(r) PROVE CallerOf(pass[r])'
  <2>1. CallerOf(pass[r]) /\ pass'[r] = pass[r] /\ pass[r].start \in Start
    BY <1>1, <1>3, <1>4 DEF CInv, Callers, PassState
  <2>2. CASE pass[r].kind = "load"
    <3>1. pass[r].start # pass[p].start
      BY <1>2, <1>4, <2>2 DEF CInv, LoadsOnce
    <3>2. QED
      BY <1>1, <2>1, <3>1 DEF CallerOf
  <2>3. CASE pass[r].kind # "load"
    BY <1>1, <2>1, <2>3 DEF CallerOf
  <2>4. QED
    BY <2>2, <2>3
<1>5. Callers'
  BY <1>3, <1>4 DEF Callers, Active
<1>6. RightsOfLoads' /\ LoadsOnce' /\ Alone' /\ GoneAlone'
  BY <1>1, <1>3 DEF CInv, RightsOfLoads, LoadsOnce, Alone, GoneAlone, Active
<1>7. OverlapCaused'
  <2>1. \A u \in Start : stage[u] # "new" => stage'[u] # "new"
    BY <1>1
  <2>2. QED
    BY <1>1, <2>1 DEF CInv, OverlapCaused, StartedTwice
<1>8. QED
  BY <1>5, <1>6, <1>7 DEF CInv

LEMMA NextCInv == HInv /\ CInv /\ [Next]_vars => CInv'
<1> SUFFICES ASSUME HInv, CInv, [Next]_vars PROVE CInv'
  OBVIOUS
<1>1. ASSUME UNCHANGED <<stage, overlapped, pass>> PROVE CInv'
  BY <1>1 DEF CInv, Callers, CallerOf, RightsOfLoads, LoadsOnce, OverlapCaused,
              StartedTwice, Alone, GoneAlone, Active
<1>2. CASE Chain
  BY <1>1, <1>2, ChainMoves DEF HInv, keeper
<1>3. CASE ApprovalMined \/ UNCHANGED vars
  BY <1>1, <1>3 DEF ApprovalMined, vars, keeper
<1>4. CASE OtherRpcFails
  BY <1>4, DeathCallers DEF OtherRpcFails
<1>5. ASSUME NEW p \in Pass, Caller(p) PROVE CInv'
  BY <1>5, CallerCallers
<1>6. ASSUME NEW p \in Pass, Own(p) PROVE CInv'
  BY <1>6, OwnCallers
<1>7. ASSUME NEW p \in Pass, FinishLoad(p) \/ LoadFails(p) PROVE CInv'
  BY <1>7, FinishCallers, DeathCallers DEF LoadFails
<1>8. QED
  BY <1>2, <1>3, <1>4, <1>5, <1>6, <1>7 DEF Next, Resume, Own

LEMMA InitCInv == Init => CInv
BY DEF Init, AllIdle, Idle, CInv, Callers, RightsOfLoads, LoadsOnce, OverlapCaused,
       Alone, GoneAlone, Active
-----------------------------------------------------------------------------
(***************************************************************************)
(* Until two calls overlap, the list is exact: a pass appends the auction  *)
(* whose turn it is, and is answered a count at least as long as the list. *)
(***************************************************************************)
NextInLine == \A p \in Pass : pass[p].pc \in {"init", "inited"}
                                => pass[p].next = Len(auctions) + 1

IdsExact == \A i \in DOMAIN auctions : auctions[i].id = i

Behind(s, list) == s.pc = "counted" => (s.answer + 1) .. Len(list) \subseteq undone

EInv == ~overlapped => /\ NextInLine /\ IdsExact
                       /\ \A p \in Pass : Behind(pass[p], auctions)

(* What a pass must satisfy in a list it is alone with. *)
Fits(s, list) == /\ s.pc \in {"init", "inited"} => s.next = Len(list) + 1
                 /\ Behind(s, list)

(* A step of the only pass there is. *)
LEMMA ExactStep ==
  ASSUME HInv, CInv, EInv, NEW p \in Pass, Active(p), UNCHANGED <<chain, keeper>>,
         NEW t, Set(p, t),
         ~overlapped => /\ \A i \in DOMAIN auctions' : auctions'[i].id = i
                        /\ Fits(t, auctions')
  PROVE  EInv'
<1> SUFFICES ASSUME ~overlapped' PROVE NextInLine' /\ IdsExact'
                                       /\ \A r \in Pass : Behind(pass[r], auctions)'
  BY DEF EInv
<1>1. ~overlapped /\ undone' = undone /\ pass \in [Pass -> PassState]
  BY DEF keeper, chain, HInv, TypeOK
<1>2. pass'[p] = t /\ \A r \in Pass : r # p => pass'[r].pc = "idle"
  BY <1>1 DEF Set, CInv, Alone, Active
<1>3. QED
  BY <1>1, <1>2 DEF NextInLine, IdsExact, Behind, Fits

(* The auctions of the list beyond the contract's count were undone. *)
LEMMA ListBehindChain ==
  ASSUME HInv, EInv, ~overlapped
  PROVE  (started + 1) .. Len(auctions) \subseteq undone
<1>1. auctions \in Seq(Followed) /\ started \in Nat
  BY MaxAuctionsAssumption DEF HInv, TypeOK
<1>2. \A i \in DOMAIN auctions : i \in (1 .. started) \cup undone
  BY DEF HInv, Entries, Entry, EInv, IdsExact, Ever
<1>3. QED
  BY <1>1, <1>2

LEMMA ExactAnswer ==
  ASSUME HInv, CInv, EInv, NEW p \in Pass, Answer(p) \/ RpcFails(p)
  PROVE  EInv'
<1> DEFINE s == pass[p]
<1>1. /\ s \in PassState /\ auctions' = auctions /\ UNCHANGED <<chain, keeper>>
      /\ Active(p)
  BY DEF HInv, TypeOK, Answer, CountAnswered, InitAnswered, ReloadAnswered,
         RightsAnswered, RpcFails, At, Active, Waiting
<1>2. /\ ~overlapped => \A i \in DOMAIN auctions' : auctions'[i].id = i
      /\ ~overlapped /\ s.pc = "init" => s.next = Len(auctions) + 1
      /\ undone' = undone
  BY <1>1 DEF EInv, IdsExact, NextInLine, chain
<1>3. CASE CountAnswered(p)
  <2> DEFINE t == [s EXCEPT !.pc = "counted", !.answer = started]
  <2>1. t.pc = "counted" /\ t.answer = started /\ Set(p, t)
    BY <1>1, <1>3 DEF PassState, CountAnswered
  <2> HIDE DEF t
  <2>2. ~overlapped => Fits(t, auctions')
    BY <1>1, <2>1, ListBehindChain DEF Fits, Behind
  <2>3. QED
    BY <1>1, <1>2, <2>1, <2>2, ExactStep
<1>4. CASE InitAnswered(p)
  <2> DEFINE t == [s EXCEPT !.pc = "inited", !.answer = Sold(s.next)]
  <2>1. t.pc = "inited" /\ t.next = s.next /\ Set(p, t) /\ s.pc = "init"
    BY <1>1, <1>4 DEF PassState, InitAnswered, At
  <2> HIDE DEF t
  <2>2. ~overlapped => Fits(t, auctions')
    BY <1>1, <1>2, <2>1 DEF Fits, Behind
  <2>3. QED
    BY <1>1, <1>2, <2>1, <2>2, ExactStep
<1>5. CASE ReloadAnswered(p)
  <2> DEFINE t == [s EXCEPT !.pc = "reloaded",
                            !.answer = Sold(auctions[s.cursor].id)]
  <2>1. t.pc = "reloaded" /\ Set(p, t)
    BY <1>1, <1>5 DEF PassState, ReloadAnswered
  <2> HIDE DEF t
  <2>2. Fits(t, auctions')
    BY <2>1 DEF Fits, Behind
  <2>3. QED
    BY <1>1, <1>2, <2>1, <2>2, ExactStep
<1>6. CASE RightsAnswered(p)
  <2> DEFINE t == [s EXCEPT !.pc = "righted", !.answer = IF rights THEN 1 ELSE 0]
  <2>1. t.pc = "righted" /\ Set(p, t)
    BY <1>1, <1>6 DEF PassState, RightsAnswered
  <2> HIDE DEF t
  <2>2. Fits(t, auctions')
    BY <2>1 DEF Fits, Behind
  <2>3. QED
    BY <1>1, <1>2, <2>1, <2>2, ExactStep
<1>7. CASE RpcFails(p)
  <2>1. Set(p, Ended(s, "failed")) /\ Fits(Ended(s, "failed"), auctions')
    BY <1>1, <1>7, EndedState DEF RpcFails, Fits, Behind
  <2>2. QED
    BY <1>1, <1>2, <2>1, ExactStep
<1>8. QED
  BY <1>3, <1>4, <1>5, <1>6, <1>7 DEF Answer

LEMMA ExactResume ==
  ASSUME HInv, CInv, EInv, NEW p \in Pass,
         Compare(p) \/ Push(p) \/ Refresh(p) \/ AskRights(p)
  PROVE  EInv'
<1> DEFINE s == pass[p]
<1>1. /\ s \in PassState /\ auctions \in Seq(Followed)
      /\ UNCHANGED <<chain, keeper>> /\ Active(p)
  BY DEF HInv, TypeOK, Compare, Push, Refresh, AskRights, At, Active
<1>2. ~overlapped => \A i \in DOMAIN auctions : auctions[i].id = i
  BY DEF EInv, IdsExact
<1>3. CASE Compare(p)
  <2> DEFINE t == [s EXCEPT !.pc = "init", !.answer = 0,
                            !.next = Len(auctions) + 1, !.last = s.answer]
  <2>1. /\ auctions' = auctions
        /\ Set(p, Ended(s, "ok")) \/ Set(p, Ended(s, "failed")) \/ Set(p, t)
    BY <1>3 DEF Compare
  <2>2. Fits(Ended(s, "ok"), auctions) /\ Fits(Ended(s, "failed"), auctions)
    BY <1>1, EndedState DEF Fits, Behind
  <2>3. t.pc = "init" /\ t.next = Len(auctions) + 1
    BY <1>1 DEF PassState
  <2> HIDE DEF t
  <2>4. Fits(t, auctions)
    BY <2>3 DEF Fits, Behind
  <2>5. QED
    BY <1>1, <1>2, <2>1, <2>2, <2>4, ExactStep
<1>4. CASE Push(p)
  <2> DEFINE list == Pushed(s)
             more == [s EXCEPT !.pc = "init", !.answer = 0, !.next = s.next + 1]
             t == IF s.next < s.last THEN more ELSE ReloadFrom(s, list, 1)
  <2>1. /\ auctions' = list /\ Set(p, t) /\ s.pc = "inited" /\ At(p, "inited")
    BY <1>4 DEF Push, Pushed, PushedEntry, At
  <2>2. /\ PushedEntry(s).id = s.next /\ list \in Seq(Followed)
        /\ Len(list) = Len(auctions) + 1
        /\ \A i \in DOMAIN auctions : list[i] = auctions[i]
        /\ \A i \in DOMAIN list : i \in DOMAIN auctions \/ i = Len(auctions) + 1
        /\ list[Len(auctions) + 1] = PushedEntry(s)
    BY <2>1, PushedList
  <2>3. more.pc = "init" /\ more.next = s.next + 1
    BY <1>1 DEF PassState
  <2> HIDE DEF list, more
  <2>4. ReloadFrom(s, list, 1).pc \in {"ok", "reload"}
    <3> HIDE DEF s
    <3>1. QED
      BY <1>1, <2>2, ReloadFromProperty
  <2>5. ~overlapped => s.next = Len(auctions) + 1
    BY <2>1 DEF EInv, NextInLine
  <2>6. ~overlapped => \A i \in DOMAIN list : list[i].id = i
    BY <1>2, <2>2, <2>5
  <2>7. ~overlapped => Fits(t, list)
    BY <2>2, <2>3, <2>4, <2>5 DEF Fits, Behind
  <2> HIDE DEF t
  <2>8. QED
    BY <1>1, <2>1, <2>6, <2>7, ExactStep
<1>5. CASE Refresh(p)
  <2> DEFINE list == Refreshed(s)
             t == ReloadFrom(s, list, s.cursor + 1)
  <2>1. auctions' = list /\ Set(p, t) /\ At(p, "reloaded")
    BY <1>5 DEF Refresh, Refreshed
  <2>2. /\ s.cursor + 1 \in Nat \ {0} /\ list \in Seq(Followed)
        /\ DOMAIN list = DOMAIN auctions
        /\ \A i \in DOMAIN auctions : list[i].id = auctions[i].id
    BY <2>1, RefreshedList
  <2> HIDE DEF list
  <2>3. t.pc \in {"ok", "reload"}
    <3> HIDE DEF s
    <3>1. QED
      BY <1>1, <2>2, ReloadFromProperty
  <2>4. Fits(t, list)
    BY <2>3 DEF Fits, Behind
  <2> HIDE DEF t
  <2>5. QED
    BY <1>1, <1>2, <2>1, <2>2, <2>4, ExactStep
<1>6. CASE AskRights(p)
  <2> DEFINE t == [s EXCEPT !.pc = "rights", !.last = 0, !.gone = {}]
  <2>1. t.pc = "rights" /\ Set(p, t) /\ auctions' = auctions
    BY <1>1, <1>6 DEF PassState, AskRights
  <2> HIDE DEF t
  <2>2. Fits(t, auctions)
    BY <2>1 DEF Fits, Behind
  <2>3. QED
    BY <1>1, <1>2, <2>1, <2>2, ExactStep
<1>7. QED
  BY <1>3, <1>4, <1>5, <1>6

(* A step after which no call waits for an auction or knows a count, but   *)
(* those that did before.                                                  *)
LEMMA ExactKept ==
  ASSUME HInv, EInv, auctions' = auctions, undone \subseteq undone',
         overlapped => overlapped',
         ~overlapped' => \A r \in Pass : \/ pass'[r] = pass[r]
                                         \/ pass'[r].pc \in {"idle", "count"}
  PROVE  EInv'
<1> SUFFICES ASSUME ~overlapped' PROVE NextInLine' /\ IdsExact'
                                       /\ \A r \in Pass : Behind(pass[r], auctions)'
  BY DEF EInv
<1>1. NextInLine'
  BY DEF EInv, NextInLine
<1>2. IdsExact'
  BY DEF EInv, IdsExact
<1>3. \A r \in Pass : Behind(pass[r], auctions)'
  BY DEF EInv, Behind
<1>4. QED
  BY <1>1, <1>2, <1>3

LEMMA ExactDeath == ASSUME HInv, EInv, ProcessDies PROVE EInv'
<1>1. \A r \in Pass : pass'[r].pc = "idle"
  BY DEF ProcessDies, AllIdle, Idle
<1>2. undone' = undone /\ auctions' = auctions /\ overlapped' = overlapped
  BY DEF ProcessDies, chain
<1>3. QED
  BY <1>1, <1>2, ExactKept

LEMMA ExactBegin ==
  ASSUME HInv, EInv, NEW q \in Pass, NEW kind \in {"load", "reload", "bid"},
         NEW s \in Start, NEW others \in SUBSET Pass, Begin(q, kind, s, others),
         UNCHANGED <<chain, auctions>>
  PROVE  EInv'
<1>1. TypeOK /\ undone' = undone /\ (overlapped => overlapped')
  BY DEF HInv, chain, Begin
<1>2. ~overlapped' => \A r \in Pass : pass'[r].pc \in {"idle", "count"}
  <2>1. Call(kind, s, others).pc = "count"
    BY <1>1, CallState
  <2>2. ~overlapped' => others = {}
    BY DEF Begin
  <2>3. pass' = [r \in Pass |-> IF r = q THEN Call(kind, s, others)
                              ELSE IF r \in others THEN [pass[r] EXCEPT !.gone = {}]
                              ELSE Idle]
    BY DEF Begin
  <2>4. ASSUME ~overlapped', NEW r \in Pass PROVE pass'[r].pc \in {"idle", "count"}
    <3>1. pass'[r] = Call(kind, s, others) \/ pass'[r] = Idle
      BY <2>2, <2>3, <2>4
    <3>2. QED
      BY <2>1, <3>1 DEF Idle
  <2>5. QED
    BY <2>4
<1>3. QED
  BY <1>1, <1>2, ExactKept

LEMMA ExactCaller ==
  ASSUME HInv, EInv, NEW p \in Pass, Caller(p) \/ FinishLoad(p)
  PROVE  EInv'
<1>1. /\ Others(p) \in SUBSET Pass /\ pass[p].start \in Start
      /\ pass \in [Pass -> PassState]
  BY DEF HInv, TypeOK, PassState, Others
<1>2. ASSUME Set(p, Idle), overlapped' = overlapped, UNCHANGED <<chain, auctions>>
      PROVE  EInv'
  <2>1. \A r \in Pass : pass'[r] = pass[r] \/ pass'[r].pc = "idle"
    BY <1>1, <1>2 DEF Set, Idle
  <2>2. undone' = undone
    BY <1>2 DEF chain
  <2>3. QED
    BY <1>2, <2>1, <2>2, ExactKept
<1>3. ASSUME NEW s \in Start, LoadState(p, s) \/ ReloadState(p, s) PROVE EInv'
  BY <1>1, <1>3, ExactBegin DEF LoadState, ReloadState
<1>4. CASE ReloadReturns(p)
  BY <1>1, <1>2, <1>4, ExactBegin DEF ReloadReturns
<1>5. CASE BiddingReturns(p)
  BY <1>2, <1>5 DEF BiddingReturns, keeper
<1>6. CASE BiddingFails(p)
  BY <1>6, ExactDeath DEF BiddingFails
<1>7. CASE FinishLoad(p)
  BY <1>2, <1>7 DEF FinishLoad
<1>8. QED
  BY <1>3, <1>4, <1>5, <1>6, <1>7 DEF Caller

LEMMA NextEInv == HInv /\ CInv /\ EInv /\ [Next]_vars => EInv'
<1> SUFFICES ASSUME HInv, CInv, EInv, [Next]_vars PROVE EInv'
  OBVIOUS
<1>1. ASSUME UNCHANGED <<auctions, overlapped, pass>>, undone \subseteq undone'
      PROVE  EInv'
  BY <1>1, ExactKept
<1>2. CASE Chain
  BY <1>1, <1>2, ChainMoves DEF HInv, keeper
<1>3. CASE ApprovalMined \/ UNCHANGED vars
  BY <1>1, <1>3 DEF ApprovalMined, vars, keeper, chain
<1>4. CASE OtherRpcFails
  BY <1>4, ExactDeath DEF OtherRpcFails
<1>5. ASSUME NEW p \in Pass, Caller(p) \/ FinishLoad(p) PROVE EInv'
  BY <1>5, ExactCaller
<1>6. ASSUME NEW p \in Pass, Own(p) PROVE EInv'
  BY <1>6, ExactAnswer, ExactResume DEF Own
<1>7. ASSUME NEW p \in Pass, LoadFails(p) PROVE EInv'
  BY <1>7, ExactDeath DEF LoadFails
<1>8. QED
  BY <1>2, <1>3, <1>4, <1>5, <1>6, <1>7 DEF Next, Resume, Own

LEMMA InitEInv == Init => EInv
BY DEF Init, AllIdle, Idle, EInv, NextInLine, IdsExact, Behind

THEOREM AlwaysExact == Spec => [](HInv /\ CInv /\ EInv)
<1>1. Init => HInv /\ CInv /\ EInv
  BY InitHInv, InitCInv, InitEInv
<1>2. (HInv /\ CInv /\ EInv) /\ [Next]_vars => (HInv /\ CInv /\ EInv)'
  BY NextHInv, NextCInv, NextEInv
<1>3. QED
  BY <1>1, <1>2, PTL DEF Spec

(* For every number of passes and of starts, and whatever the chain does:  *)
(* only bidding or a second start makes two calls overlap, and until they  *)
(* do entry i of the list is auction i, and the number of missing auctions *)
(* computed by handleAuctionsState is negative only after a reorganisation.*)
THEOREM ListExactCorrect == Spec => []ListExact
<1>1. HInv /\ CInv /\ EInv => ListExact
  BY DEF CInv, OverlapCaused, EInv, IdsExact, Behind, ListExact, At
<1>2. QED
  BY <1>1, AlwaysExact, PTL

(* Until two calls overlap, a list as long as the contract's count follows *)
(* every auction: what AuctionHouseMissed refutes is the work of overlaps. *)
THEOREM UpToDateCorrect == Spec => [](~overlapped => UpToDateMeansComplete)
<1>1. HInv /\ EInv => (~overlapped => UpToDateMeansComplete)
  <2> SUFFICES ASSUME HInv, EInv, ~overlapped, Len(auctions) = started,
                      NEW id \in 1 .. started
               PROVE  IsFollowed(id)
    BY DEF UpToDateMeansComplete
  <2>1. auctions \in Seq(Followed)
    BY DEF HInv, TypeOK
  <2>2. id \in DOMAIN auctions
    BY <2>1
  <2>3. QED
    BY <2>2 DEF EInv, IdsExact, IsFollowed
<1>2. QED
  BY <1>1, AlwaysExact, PTL
-----------------------------------------------------------------------------
(***************************************************************************)
(* What a pass that is alone has refreshed: behind its cursor no auction   *)
(* is cached as live that was settled before the pass began.               *)
(***************************************************************************)
Noted(s, list, i) == list[i].id \in s.gone \ undone => list[i].deleted

Covers(s, list) ==
  /\ s.gone \subseteq Ever \ Live
  /\ s.pc \in {"idle", "count", "counted"} => s.last = 0
  /\ s.pc = "reloaded" /\ list[s.cursor].id \in s.gone \ undone => s.answer = 1
  /\ s.pc \in {"reload", "reloaded"} =>
       \A i \in DOMAIN list : i < s.cursor => Noted(s, list, i)
  /\ s.pc = "ok" /\ s.last > 0 => \A i \in DOMAIN list : Noted(s, list, i)

Covered == \A p \in Pass : Covers(pass[p], auctions)

(* The entries NextLive skips are cached as deleted. *)
LEMMA NextLiveSkips ==
  ASSUME NEW list \in Seq(Followed), NEW i \in Nat \ {0},
         NEW j \in DOMAIN list, i <= j,
         NextLive(list, i) = 0 \/ j < NextLive(list, i)
  PROVE  list[j].deleted
<1> DEFINE live == {k \in i .. Len(list) : ~list[k].deleted}
<1>1. live \in SUBSET Nat /\ j \in Nat /\ Len(list) \in Nat
  OBVIOUS
<1>2. SUFFICES ASSUME j \in live PROVE FALSE
  BY <1>1
<1>3. NextLive(list, i) = CHOOSE k \in live : \A l \in live : k <= l
  BY <1>2 DEF NextLive
<1>4. \E k \in live : \A l \in live : k <= l
  <2> HIDE DEF live
  <2>1. QED
    BY <1>1, <1>2, LeastNat
<1>5. NextLive(list, i) \in live /\ NextLive(list, i) <= j
  <2> HIDE DEF live
  <2>1. QED
    BY <1>2, <1>3, <1>4
<1>6. NextLive(list, i) \in Nat /\ NextLive(list, i) # 0
  BY <1>5
<1>7. QED
  BY <1>1, <1>5, <1>6

(* Going on from index i, a pass has covered what is before the cursor.    *)
LEMMA ReloadFromCovers ==
  ASSUME NEW s \in PassState, NEW list \in Seq(Followed), NEW i \in Nat \ {0},
         s.gone \subseteq Ever \ Live,
         \A j \in DOMAIN list : j < i => Noted(s, list, j)
  PROVE  Covers(ReloadFrom(s, list, i), list)
<1> DEFINE t == ReloadFrom(s, list, i)
<1>1. ASSUME NEW j \in DOMAIN list,
             NextLive(list, i) = 0 \/ j < NextLive(list, i)
      PROVE  Noted(s, list, j)
  <2>1. CASE j < i
    BY <2>1
  <2>2. CASE i <= j
    BY <1>1, <2>2, NextLiveSkips DEF Noted
  <2>3. QED
    BY <2>1, <2>2
<1>2. CASE NextLive(list, i) = 0
  <2>1. t.pc = "ok" /\ t.gone = s.gone
    BY <1>2, EndedState DEF ReloadFrom
  <2>2. QED
    BY <1>1, <1>2, <2>1 DEF Covers, Noted
<1>3. CASE NextLive(list, i) # 0
  <2>1. t.pc = "reload" /\ t.gone = s.gone /\ t.cursor = NextLive(list, i)
    BY <1>3 DEF ReloadFrom, PassState
  <2>2. QED
    BY <1>1, <2>1 DEF Covers, Noted
<1>4. QED
  BY <1>2, <1>3

(* A step of one pass: the others remember nothing, since it is under way, *)
(* and the list is not what they covered.                                  *)
LEMMA CoverStep ==
  ASSUME HInv, CInv, Covered, NEW p \in Pass, Active(p), NEW t, Set(p, t),
         UNCHANGED chain, Covers(t, auctions')
  PROVE  Covered'
<1>1. /\ pass'[p] = t /\ \A r \in Pass : r # p => pass'[r] = pass[r]
      /\ Ever' = Ever /\ Live' = Live /\ undone' = undone
  BY DEF HInv, TypeOK, Set, chain, Ever, Live
<1>2. ASSUME NEW r \in Pass, r # p
      PROVE  Covers(pass[r], auctions')
  <2>1. Covers(pass[r], auctions) /\ pass[r].gone = {}
    BY <1>2 DEF Covered, CInv, GoneAlone
  <2>2. QED
    BY <2>1 DEF Covers, Noted
<1>3. QED
  BY <1>1, <1>2 DEF Covered, Covers, Noted

LEMMA IdleCovers ==
  ASSUME NEW list PROVE Covers(Idle, list)
BY DEF Covers, Idle

(* A step that leaves the list and the chain, after which every pass is as *)
(* before, but for what it remembers, or begins.                           *)
LEMMA CoverKept ==
  ASSUME HInv, Covered, UNCHANGED auctions,
         Ever \subseteq Ever', \A id \in Ever : id \in Live' => id \in Live,
         undone \subseteq undone',
         \A r \in Pass : \/ pass'[r] = pass[r]
                         \/ Covers(pass[r], auctions)'
  PROVE  Covered'
<1>1. ASSUME NEW r \in Pass, pass'[r] = pass[r] PROVE Covers(pass[r], auctions)'
  <2>1. Covers(pass[r], auctions)
    BY DEF Covered
  <2>2. QED
    BY <1>1, <2>1 DEF Covers, Noted
<1>2. QED
  BY <1>1 DEF Covered

LEMMA CoverDeath == ASSUME HInv, Covered, ProcessDies PROVE Covered'
<1>1. \A r \in Pass : pass'[r] = Idle
  BY DEF ProcessDies, AllIdle
<1>2. QED
  BY <1>1, CoverKept DEF ProcessDies, chain, Ever, Live, Covers, Idle

LEMMA CoverBegin ==
  ASSUME HInv, Covered, NEW q \in Pass, NEW kind \in {"load", "reload", "bid"},
         NEW s \in Start, NEW others \in SUBSET Pass, Begin(q, kind, s, others),
         UNCHANGED <<chain, auctions>>
  PROVE  Covered'
<1>1. pass \in [Pass -> PassState] /\ started \in Nat /\ open \in SUBSET (1 .. started)
  BY MaxAuctionsAssumption DEF HInv, TypeOK
<1>2. /\ Ever' = Ever /\ Live' = Live /\ undone' = undone /\ auctions' = auctions
  BY DEF chain, Ever, Live
<1>3. Covers(Call(kind, s, others), auctions)
  <2>1. /\ Call(kind, s, others).pc = "count" /\ Call(kind, s, others).last = 0
        /\ Call(kind, s, others).gone \subseteq (1 .. started) \ open
    BY DEF Call, Idle
  <2>2. QED
    BY <2>1 DEF Covers, Ever, Live
<1>4. ASSUME NEW r \in Pass PROVE Covers([pass[r] EXCEPT !.gone = {}], auctions)
  <2>1. Covers(pass[r], auctions) /\ pass[r] \in PassState
    BY <1>1 DEF Covered
  <2> DEFINE t == [pass[r] EXCEPT !.gone = {}]
  <2>2. t.gone = {} /\ t.pc = pass[r].pc /\ t.last = pass[r].last
    BY <2>1 DEF PassState
  <2> HIDE DEF t
  <2>3. Covers(t, auctions)
    BY <2>1, <2>2 DEF Covers, Noted
  <2>4. QED
    BY <2>3 DEF t
<1>5. \A r \in Pass : Covers(pass'[r], auctions)
  BY <1>3, <1>4, IdleCovers DEF Begin
<1>6. QED
  BY <1>2, <1>5 DEF Covered, Covers, Noted

LEMMA CoverCaller ==
  ASSUME HInv, CInv, Covered, NEW p \in Pass, Caller(p) \/ FinishLoad(p)
  PROVE  Covered'
<1>1. Others(p) \in SUBSET Pass /\ pass[p].start \in Start
  BY DEF HInv, TypeOK, PassState, Others
<1>2. ASSUME Active(p), Set(p, Idle), UNCHANGED chain PROVE Covered'
  BY <1>2, IdleCovers, CoverStep
<1>3. ASSUME NEW s \in Start, LoadState(p, s) \/ ReloadState(p, s) PROVE Covered'
  BY <1>1, <1>3, CoverBegin DEF LoadState, ReloadState
<1>4. CASE ReloadReturns(p)
  <2>1. Active(p)
    BY <1>4 DEF ReloadReturns, Active
  <2>2. QED
    BY <1>1, <1>2, <1>4, <2>1, CoverBegin DEF ReloadReturns
<1>5. CASE BiddingReturns(p)
  BY <1>2, <1>5 DEF BiddingReturns, Active, At
<1>6. CASE BiddingFails(p)
  BY <1>6, CoverDeath DEF BiddingFails
<1>7. CASE FinishLoad(p)
  BY <1>2, <1>7 DEF FinishLoad, Active, At
<1>8. QED
  BY <1>3, <1>4, <1>5, <1>6, <1>7 DEF Caller

(* The node answers from the state it has, and what was settled before the *)
(* pass began is settled, if no reorganisation touched it.                 *)
LEMMA CoverAnswer ==
  ASSUME HInv, CInv, Covered, NEW p \in Pass, Answer(p) \/ RpcFails(p)
  PROVE  Covered'
<1> DEFINE s == pass[p]
<1>1. /\ s \in PassState /\ Covers(s, auctions) /\ Active(p)
      /\ UNCHANGED <<chain, auctions>>
  BY DEF HInv, TypeOK, Covered, Answer, CountAnswered, InitAnswered,
         ReloadAnswered, RightsAnswered, RpcFails, At, Active, Waiting
<1>2. CASE CountAnswered(p)
  <2> DEFINE t == [s EXCEPT !.pc = "counted", !.answer = started]
  <2>1. /\ Set(p, t) /\ s.pc = "count"
        /\ t.pc = "counted" /\ t.last = s.last /\ t.gone = s.gone
    BY <1>1, <1>2 DEF PassState, CountAnswered, At
  <2> HIDE DEF t
  <2>2. Covers(t, auctions)
    BY <1>1, <2>1 DEF Covers
  <2>3. QED
    BY <1>1, <2>1, <2>2, CoverStep
<1>3. CASE InitAnswered(p)
  <2> DEFINE t == [s EXCEPT !.pc = "inited", !.answer = Sold(s.next)]
  <2>1. Set(p, t) /\ t.pc = "inited" /\ t.gone = s.gone
    BY <1>1, <1>3 DEF PassState, InitAnswered
  <2> HIDE DEF t
  <2>2. Covers(t, auctions)
    BY <1>1, <2>1 DEF Covers
  <2>3. QED
    BY <1>1, <2>1, <2>2, CoverStep
<1>4. CASE ReloadAnswered(p)
  <2> DEFINE id == auctions[s.cursor].id
             t == [s EXCEPT !.pc = "reloaded", !.answer = Sold(id)]
  <2>1. /\ Set(p, t) /\ s.pc = "reload" /\ t.pc = "reloaded"
        /\ t.gone = s.gone /\ t.cursor = s.cursor /\ t.answer = Sold(id)
    BY <1>1, <1>4 DEF PassState, ReloadAnswered, At
  <2>2. id \in s.gone \ undone => Sold(id) = 1
    BY <1>1 DEF Covers, Sold, Live
  <2> HIDE DEF t
  <2>3. Covers(t, auctions)
    BY <1>1, <2>1, <2>2 DEF Covers, Noted
  <2>4. QED
    BY <1>1, <2>1, <2>3, CoverStep
<1>5. CASE RightsAnswered(p)
  <2> DEFINE t == [s EXCEPT !.pc = "righted", !.answer = IF rights THEN 1 ELSE 0]
  <2>1. Set(p, t) /\ t.pc = "righted" /\ t.gone = s.gone
    BY <1>1, <1>5 DEF PassState, RightsAnswered
  <2> HIDE DEF t
  <2>2. Covers(t, auctions)
    BY <1>1, <2>1 DEF Covers
  <2>3. QED
    BY <1>1, <2>1, <2>2, CoverStep
<1>6. CASE RpcFails(p)
  <2>1. Set(p, Ended(s, "failed")) /\ Covers(Ended(s, "failed"), auctions)
    BY <1>1, <1>6, EndedState DEF RpcFails, Covers
  <2>2. QED
    BY <1>1, <2>1, CoverStep
<1>7. QED
  BY <1>2, <1>3, <1>4, <1>5, <1>6 DEF Answer

LEMMA CoverResume ==
  ASSUME HInv, CInv, Covered, NEW p \in Pass,
         Compare(p) \/ Push(p) \/ Refresh(p) \/ AskRights(p)
  PROVE  Covered'
<1> DEFINE s == pass[p]
<1>1. /\ s \in PassState /\ Covers(s, auctions) /\ auctions \in Seq(Followed)
      /\ s.gone \subseteq Ever \ Live /\ Active(p) /\ UNCHANGED chain
  BY DEF HInv, TypeOK, Covered, Covers, Compare, Push, Refresh, AskRights, At, Active
<1>2. CASE Compare(p)
  <2> DEFINE t == [s EXCEPT !.pc = "init", !.answer = 0,
                            !.next = Len(auctions) + 1, !.last = s.answer]
  <2>1. /\ s.pc = "counted" /\ auctions' = auctions
        /\ Set(p, Ended(s, "ok")) \/ Set(p, Ended(s, "failed")) \/ Set(p, t)
    BY <1>2 DEF Compare, At
  <2>2. t.pc = "init" /\ t.gone = s.gone
    BY <1>1 DEF PassState
  <2>3. s.last = 0
    BY <1>1, <2>1 DEF Covers
  <2> HIDE DEF t
  <2>4. /\ Covers(Ended(s, "ok"), auctions) /\ Covers(Ended(s, "failed"), auctions)
        /\ Covers(t, auctions)
    BY <1>1, <2>2, <2>3, EndedState DEF Covers
  <2>5. QED
    BY <1>1, <2>1, <2>4, CoverStep
<1>3. CASE Push(p)
  <2> DEFINE list == Pushed(s)
             more == [s EXCEPT !.pc = "init", !.answer = 0, !.next = s.next + 1]
             t == IF s.next < s.last THEN more ELSE ReloadFrom(s, list, 1)
  <2>1. auctions' = list /\ Set(p, t) /\ list \in Seq(Followed)
    BY <1>3, PushedList DEF Push, Pushed, PushedEntry
  <2>2. more.pc = "init" /\ more.gone = s.gone
    BY <1>1 DEF PassState
  <2> HIDE DEF more, list
  <2>3. Covers(more, list)
    BY <1>1, <2>2 DEF Covers
  <2>4. Covers(ReloadFrom(s, list, 1), list)
    <3>1. \A j \in DOMAIN list : ~(j < 1)
      BY <2>1
    <3> HIDE DEF s
    <3>2. QED
      BY <1>1, <2>1, <3>1, ReloadFromCovers
  <2>5. Covers(t, list)
    BY <2>3, <2>4
  <2> HIDE DEF t
  <2>6. QED
    BY <1>1, <2>1, <2>5, CoverStep
<1>4. CASE Refresh(p)
  <2> DEFINE c == s.cursor
             list == Refreshed(s)
             t == ReloadFrom(s, list, c + 1)
  <2>1. s.pc = "reloaded" /\ At(p, "reloaded") /\ auctions' = list /\ Set(p, t)
    BY <1>4 DEF Refresh, Refreshed, At
  <2>2. /\ c \in DOMAIN auctions /\ c \in Nat /\ c + 1 \in Nat \ {0}
        /\ list \in Seq(Followed) /\ DOMAIN list = DOMAIN auctions
        /\ \A j \in DOMAIN auctions : /\ list[j].id = auctions[j].id
                                      /\ j # c => list[j] = auctions[j]
        /\ list[c].deleted <=> s.answer = 1
    BY <2>1, RefreshedList
  <2> HIDE DEF list
  <2>3. \A j \in DOMAIN list : j < c + 1 => Noted(s, list, j)
    <3>1. Noted(s, list, c)
      BY <1>1, <2>1, <2>2 DEF Covers, Noted
    <3>2. \A j \in DOMAIN auctions : j < c => Noted(s, auctions, j)
      BY <1>1, <2>1 DEF Covers
    <3>3. ASSUME NEW j \in DOMAIN list, j < c + 1 PROVE Noted(s, list, j)
      <4>1. j \in Nat /\ j \in DOMAIN auctions
        BY <1>1, <2>2
      <4>2. CASE j = c
        BY <3>1, <4>2
      <4>3. CASE j # c
        <5>1. j < c
          BY <2>2, <3>3, <4>1, <4>3
        <5>2. list[j] = auctions[j]
          BY <2>2, <4>1, <4>3
        <5>3. QED
          BY <3>2, <4>1, <5>1, <5>2 DEF Noted
      <4>4. QED
        BY <4>2, <4>3
    <3>4. QED
      BY <3>3
  <2>4. Covers(t, list)
    <3> HIDE DEF s, c
    <3>1. QED
      BY <1>1, <2>2, <2>3, ReloadFromCovers
  <2> HIDE DEF t
  <2>5. QED
    BY <1>1, <2>1, <2>4, CoverStep
<1>5. CASE AskRights(p)
  <2> DEFINE t == [s EXCEPT !.pc = "rights", !.last = 0, !.gone = {}]
  <2>1. t.pc = "rights" /\ t.gone = {} /\ Set(p, t)
    BY <1>1, <1>5 DEF PassState, AskRights
  <2> HIDE DEF t
  <2>2. Covers(t, auctions')
    BY <2>1 DEF Covers
  <2>3. QED
    BY <1>1, <2>1, <2>2, CoverStep
<1>6. QED
  BY <1>2, <1>3, <1>4, <1>5

LEMMA CoverNext == HInv /\ CInv /\ Covered /\ [Next]_vars => Covered'
<1> SUFFICES ASSUME HInv, CInv, Covered, [Next]_vars PROVE Covered'
  OBVIOUS
<1>1. CASE Chain
  <2>1. /\ UNCHANGED <<auctions, pass>> /\ Ever \subseteq Ever' /\ undone \subseteq undone'
        /\ \A id \in Ever : id \in Live' => id \in Live
    BY <1>1, ChainMoves DEF HInv
  <2>2. QED
    BY <2>1, CoverKept
<1>2. CASE ApprovalMined \/ UNCHANGED vars
  BY <1>2 DEF ApprovalMined, vars, chain, Covered, Covers, Noted, Ever, Live
<1>3. CASE OtherRpcFails
  BY <1>3, CoverDeath DEF OtherRpcFails
<1>4. ASSUME NEW p \in Pass, Caller(p) \/ FinishLoad(p) PROVE Covered'
  BY <1>4, CoverCaller
<1>5. ASSUME NEW p \in Pass, Own(p) PROVE Covered'
  BY <1>5, CoverAnswer, CoverResume DEF Own
<1>6. ASSUME NEW p \in Pass, LoadFails(p) PROVE Covered'
  BY <1>6, CoverDeath DEF LoadFails
<1>7. QED
  BY <1>1, <1>2, <1>3, <1>4, <1>5, <1>6 DEF Next, Resume, Own

(* Whatever overlapped before it and whatever the chain does, a pass that  *)
(* found new auctions and ran alone returns with every auction cached as   *)
(* deleted that was settled before the pass began and not reorganised.     *)
THEOREM GrowingPassRefreshesCorrect == Spec => []GrowingPassRefreshes
<1>1. Init => HInv /\ CInv /\ Covered
  BY InitHInv, InitCInv, IdleCovers DEF Init, AllIdle, Covered
<1>2. Covered => GrowingPassRefreshes
  BY DEF Covered, Covers, Noted, GrowingPassRefreshes, At
<1>3. (HInv /\ CInv /\ Covered) /\ [Next]_vars => (HInv /\ CInv /\ Covered)'
  BY NextHInv, NextCInv, CoverNext
<1>4. QED
  BY <1>1, <1>2, <1>3, PTL DEF Spec
=============================================================================
