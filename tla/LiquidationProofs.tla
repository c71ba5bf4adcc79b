-------------------------- MODULE LiquidationProofs --------------------------
(***************************************************************************)
(* Proofs about Liquidation, for any number of overlapping checkSafes      *)
(* calls, of safes, positions and terms, and any height of the chain.      *)
(***************************************************************************)
EXTENDS Liquidation, TLAPS

(* What a suspended call holds is well formed.  *)
InTime(r) ==
  /\ r.seen # None => r.at <= now
  /\ r.pc \in {"storeInit", "store"} => r.seen \in Terms
  /\ r.pc = "storeSafe" => r.seen \in Holding
  /\ r.pc \in {"storeSafe", "estimate", "send", "wait"} => r.safe \in Safe
  /\ r.pc = "logs" => r.from = 0 \/ r.from + Lookback <= now
  /\ r.pc \in {"reads", "storeSafe"} => r.to <= now

(* A position that an owner has changed since it was read was modified     *)
(* since.                                                                  *)
NewerIsModified(r) ==
  r.pc = "storeSafe" =>
    (r.seen \notin since[r.safe] => modified[r.safe] > r.at)

(* A scan under way will come to every stale safe that is not lost, or the *)
(* next one will.                                                          *)
Wanted(s) == Stale(s) /\ s \notin lost
Covers(r) ==
  \A s \in Safe : Wanted(s) =>
    /\ r.pc = "logs" => modified[s] >= r.from
    /\ r.pc \in {"reads", "storeSafe"}
         => s \in r.todo \/ modified[s] >= r.to - Lookback

Fine(r) == InTime(r) /\ NewerIsModified(r) /\ Covers(r)
AllFine == \A p \in Pass : Fine(pass[p])
Heights == /\ cacheBlock <= now
           /\ \A s \in Safe : modified[s] <= now /\ position[s] \in since[s]

LInv == TypeOK /\ Heights /\ AllFine /\ StaleIsReread /\ CountedAreTaken

Rest == <<sent, faults, dead>>
-----------------------------------------------------------------------------
(* Facts about the constants. *)
LEMMA Constants ==
  /\ MaxBlock \in Nat /\ Lookback \in Nat /\ MaxFaults \in Nat
  /\ None \notin Holding /\ None \notin Terms /\ None \notin Safe
  /\ Position \subseteq Holding /\ Left \in [Holding -> Holding]
  /\ Block \subseteq Nat
BY PositionAssumption, BlockAssumption, NoneAssumption DEF Block

(* The states a pass is set to that start from Idle. *)
LEMMA IdleState ==
  /\ Idle \in PassState
  /\ Idle.pc = "idle" /\ Idle.seen = None /\ Idle.safe = None /\ Idle.todo = {}
<1>1. 0 \in Block
  BY BlockAssumption DEF Block
<1>2. QED
  BY <1>1 DEF Idle, PassState, Label

(* A pass that waits for none of the reads needs only its safe. *)
LEMMA PlainFine ==
  ASSUME NEW r \in PassState, r.seen = None,
         r.pc \in {"idle", "init", "check", "estimate", "send", "wait"},
         r.pc \in {"estimate", "send", "wait"} => r.safe \in Safe
  PROVE  Fine(r)
BY DEF Fine, InTime, NewerIsModified, Covers

(* A step that leaves the chain, the positions cached and cacheBlock alone,*)
(* and after which every pass is as before or fine.                        *)
LEMMA PassStep ==
  ASSUME LInv, UNCHANGED <<chain, safes, cacheBlock, lost>>,
         collateral' \in Terms \cup {None},
         pass' \in [Pass -> PassState],
         \A q \in Pass : pass'[q] = pass[q] \/ Fine(pass'[q]),
         (liquidatedSafes \cup taken \cup unseen)' \subseteq Safe,
         faults' \in 0 .. MaxFaults, dead' \in BOOLEAN, CountedAreTaken'
  PROVE  LInv'
<1>1. TypeOK'
  BY DEF LInv, TypeOK, chain
<1>2. Heights'
  BY DEF LInv, Heights, chain
<1>3. \A q \in Pass : Fine(pass'[q])
  BY DEF LInv, AllFine
<1>4. AllFine'
  BY <1>3
  DEF AllFine, Fine, InTime, NewerIsModified, Covers, Wanted, Stale, Known, chain
<1>5. StaleIsReread'
  BY DEF LInv, StaleIsReread, Stale, Known, chain
<1>6. QED
  BY <1>1, <1>2, <1>4, <1>5 DEF LInv

(* The same for a step of one pass that changes nothing else. *)
LEMMA OwnStep ==
  ASSUME LInv, NEW p \in Pass, NEW r \in PassState, Set(p, r), Fine(r),
         UNCHANGED <<chain, safes, cacheBlock, lost, Rest>>,
         collateral' \in Terms \cup {None}
  PROVE  LInv'
<1>1. pass' \in [Pass -> PassState] /\ \A q \in Pass : pass'[q] \in {pass[q], r}
  BY DEF LInv, TypeOK, Set
<1>2. CountedAreTaken'
  BY DEF LInv, CountedAreTaken, Rest, sent
<1>3. QED
  BY <1>1, <1>2, PassStep DEF LInv, TypeOK, Rest, sent

(* What the loop sets its pass to when it turns to the next safe, or ends. *)
Checking(todo) == IF todo = {} THEN Idle
                  ELSE [Idle EXCEPT !.pc = "check", !.todo = todo]

LEMMA CheckFine ==
  ASSUME NEW todo \in SUBSET Safe
  PROVE  /\ Checking(todo) \in PassState /\ Fine(Checking(todo))
         /\ \A p \in Pass : Check(p, todo) <=> Set(p, Checking(todo))
<1> DEFINE r == Checking(todo)
<1>1. r \in PassState /\ r.pc \in {"idle", "check"} /\ r.seen = None
  BY IdleState DEF PassState, Label, Checking
<1>2. Fine(r)
  <2> HIDE DEF r
  <2>1. QED
    BY <1>1, PlainFine
<1>3. QED
  BY <1>1, <1>2 DEF Check, Checking

LEMMA NextSafeFine ==
  ASSUME LInv, NEW p \in Pass
  PROVE  LET r == Checking(pass[p].todo)
         IN  r \in PassState /\ Fine(r) /\ (NextSafe(p) <=> Set(p, r))
<1>1. pass[p].todo \in SUBSET Safe
  BY DEF LInv, TypeOK, PassState
<1>2. QED
  BY <1>1, CheckFine DEF NextSafe

LEMMA AllIdleFine ==
  AllIdle \in [Pass -> PassState] /\ \A q \in Pass : Fine(AllIdle[q])
BY IdleState, PlainFine DEF AllIdle
-----------------------------------------------------------------------------
(* The steps before the loop. *)
LEMMA ReadStep ==
  ASSUME LInv, NEW p \in Pass,
         CheckSafes(p) \/ StoreInitial(p) \/ StoreCollateral(p)
  PROVE  LInv'
<1>1. /\ pass[p] \in PassState /\ Fine(pass[p])
      /\ now \in Block /\ terms \in Terms /\ cacheBlock \in Block
      /\ cacheBlock <= now /\ collateral \in Terms \cup {None}
      /\ modified \in [Safe -> Block]
  BY DEF LInv, TypeOK, AllFine, Heights
<1>2. now \in Nat /\ cacheBlock \in Nat /\ 0 \in Block
  BY <1>1, Constants DEF Block
<1>4. CASE CheckSafes(p)
  <2> DEFINE r == [Idle EXCEPT !.pc = IF At(p, "init") THEN "storeInit"
                                      ELSE "store",
                               !.seen = terms]
  <2>1. /\ r \in PassState /\ r.pc \in {"storeInit", "store"}
        /\ r.seen = terms /\ r.at = 0
    BY <1>1, IdleState DEF PassState, Label, Idle
  <2>2. /\ Set(p, r)
        /\ UNCHANGED <<chain, safes, cacheBlock, lost, collateral, Rest>>
    BY <1>4 DEF CheckSafes, cache, Rest
  <2> HIDE DEF r
  <2>3. Fine(r)
    BY <1>1, <1>2, <2>1, Constants DEF Fine, InTime, NewerIsModified, Covers
  <2>4. QED
    BY <1>1, <2>1, <2>2, <2>3, OwnStep
<1>5. CASE StoreInitial(p)
  <2>1. pass[p].seen \in Terms
    BY <1>1, <1>5 DEF StoreInitial, At, Fine, InTime
  <2>2. /\ Set(p, Idle) /\ UNCHANGED <<chain, safes, cacheBlock, lost, Rest>>
        /\ collateral' \in Terms
    BY <1>5, <2>1 DEF StoreInitial, Rest
  <2>3. QED
    BY <2>2, IdleState, PlainFine, OwnStep
<1>6. CASE StoreCollateral(p)
  <2> DEFINE from == IF cacheBlock > Lookback THEN cacheBlock - Lookback ELSE 0
             r == [Idle EXCEPT !.pc = "logs", !.from = from]
  <2>1. pass[p].seen \in Terms
    BY <1>1, <1>6 DEF StoreCollateral, At, Fine, InTime
  <2>2. from \in Block /\ from \in Nat /\ (from = 0 \/ from + Lookback = cacheBlock)
    BY <1>1, <1>2, Constants DEF Block
  <2>3. r \in PassState /\ r.pc = "logs" /\ r.seen = None /\ r.from = from
    <3> HIDE DEF from
    <3>1. QED
      BY <2>2, IdleState DEF PassState, Label
  <2>4. /\ Set(p, r) /\ UNCHANGED <<chain, safes, cacheBlock, lost, Rest>>
        /\ collateral' \in Terms
    BY <1>6, <2>1 DEF StoreCollateral, Rest
  <2> HIDE DEF r, from
  <2>5. from = 0 \/ from + Lookback <= now
    BY <1>1, <1>2, <2>2, Constants
  <2>6. \A s \in Safe : Wanted(s) => modified[s] >= from
    <3> SUFFICES ASSUME NEW s \in Safe, Wanted(s) PROVE modified[s] >= from
      OBVIOUS
    <3>1. modified[s] \in Nat /\ modified[s] >= cacheBlock - Lookback
      BY <1>1, Constants DEF LInv, StaleIsReread, Wanted
    <3>2. QED
      BY <1>2, <2>2, <3>1, Constants
  <2>7. Fine(r)
    BY <2>3, <2>5, <2>6 DEF Fine, InTime, NewerIsModified, Covers
  <2>8. QED
    BY <2>3, <2>4, <2>7, OwnStep
<1>8. QED
  BY <1>4, <1>5, <1>6

LEMMA SafeAnsweredStep ==
  ASSUME LInv, NEW p \in Pass, NEW s \in Safe, SafeAnswered(p, s)
  PROVE  LInv'
<1> DEFINE r == [pass[p] EXCEPT !.pc = "storeSafe", !.safe = s,
                                !.seen = position[s], !.at = now]
<1>1. /\ pass[p] \in PassState /\ Fine(pass[p]) /\ pass[p].pc = "reads"
      /\ now \in Block /\ position[s] \in Holding /\ position[s] \in since[s]
      /\ collateral \in Terms \cup {None}
  BY DEF LInv, TypeOK, AllFine, Heights, SafeAnswered, At
<1>2. /\ r \in PassState /\ r.pc = "storeSafe" /\ r.safe = s
      /\ r.seen = position[s] /\ r.at = now
      /\ r.to = pass[p].to /\ r.todo = pass[p].todo
  BY <1>1 DEF PassState, Label
<1>3. Set(p, r) /\ UNCHANGED <<chain, safes, cacheBlock, lost, collateral, Rest>>
  BY DEF SafeAnswered, cache, Rest
<1> HIDE DEF r
<1>4. InTime(r)
  BY <1>1, <1>2, Constants DEF Fine, InTime
<1>5. NewerIsModified(r)
  BY <1>1, <1>2 DEF NewerIsModified
<1>6. Covers(r)
  BY <1>1, <1>2 DEF Fine, Covers
<1>7. QED
  BY <1>1, <1>2, <1>3, <1>4, <1>5, <1>6, OwnStep DEF Fine

(* A scan turns to its next safe, or ends: what it leaves out is within    *)
(* reach of the next scan.                                                 *)
LEMMA ScanStepStep ==
  ASSUME LInv, NEW p \in Pass, NEW to \in Block, to <= now,
         NEW todo \in SUBSET Safe, NEW known \in SUBSET Safe,
         ScanStep(p, to, todo, known),
         UNCHANGED <<chain, collateral, Rest>>,
         safes' \in [Safe -> Holding \cup {None}], lost' \subseteq Safe,
         \A s \in Safe : Wanted(s)' =>
           /\ Wanted(s) \/ modified[s] >= now - Lookback
           /\ s \in todo \/ modified[s] >= to - Lookback
  PROVE  LInv'
<1> DEFINE next == [Idle EXCEPT !.pc = "reads", !.to = to, !.todo = todo]
           r == IF todo = {} THEN Checking(known) ELSE next
<1>1. /\ pass \in [Pass -> PassState] /\ \A q \in Pass : Fine(pass[q])
      /\ now \in Nat /\ to \in Nat /\ cacheBlock \in Block
      /\ cacheBlock \in Nat /\ cacheBlock <= now
      /\ \A s \in Safe : modified[s] \in Nat
  BY Constants DEF LInv, TypeOK, AllFine, Heights
<1>2. /\ next \in PassState /\ next.pc = "reads" /\ next.seen = None
      /\ next.to = to /\ next.todo = todo
  BY IdleState DEF PassState, Label
<1>3. /\ r \in PassState /\ Set(p, r)
      /\ cacheBlock' = IF todo = {} THEN to ELSE cacheBlock
  BY <1>2, CheckFine DEF ScanStep
<1>4. \A q \in Pass : pass'[q] = IF q = p THEN r ELSE pass[q]
  BY <1>1, <1>3 DEF Set
<1>5. TypeOK'
  <2> HIDE DEF r
  <2>1. pass' \in [Pass -> PassState]
    BY <1>1, <1>3 DEF Set
  <2>2. QED
    BY <1>1, <1>3, <2>1 DEF LInv, TypeOK, chain, Rest, sent
<1>6. Heights' /\ CountedAreTaken'
  BY <1>1, <1>3 DEF LInv, Heights, CountedAreTaken, chain, Rest, sent
<1>7. StaleIsReread'
  <2> SUFFICES ASSUME NEW s \in Safe, Wanted(s)'
               PROVE  modified[s] >= cacheBlock' - Lookback
    BY DEF StaleIsReread, Wanted, chain
  <2>1. CASE todo = {}
    BY <1>3, <2>1
  <2>2. CASE Wanted(s)
    <3>1. todo # {} => modified[s] >= cacheBlock - Lookback
      BY <2>2 DEF LInv, StaleIsReread, Wanted
    <3>2. QED
      BY <1>3, <2>1, <3>1
  <2>3. CASE modified[s] >= now - Lookback
    BY <1>1, <1>3, <2>1, <2>3, Constants
  <2>4. QED
    BY <2>2, <2>3
<1>8. ASSUME NEW q \in Pass, NEW s \in Safe, Wanted(s)'
      PROVE  /\ pass'[q].pc = "logs" => modified[s] >= pass'[q].from
             /\ pass'[q].pc \in {"reads", "storeSafe"}
                  => s \in pass'[q].todo \/ modified[s] >= pass'[q].to - Lookback
  <2>1. CASE q = p /\ todo = {}
    <3>1. Checking(known).pc \in {"idle", "check"}
      BY IdleState DEF Checking, PassState
    <3>2. pass'[q] = Checking(known)
      BY <1>4, <2>1
    <3>3. pass'[q].pc \notin {"logs", "reads", "storeSafe"}
      BY <3>1, <3>2
    <3>4. QED
      BY <3>3
  <2>2. CASE q = p /\ todo # {}
    BY <1>2, <1>4, <1>8, <2>2
  <2>3. CASE q # p
    <3>1. /\ pass'[q] = pass[q] /\ pass[q] \in PassState /\ Fine(pass[q])
      BY <1>1, <1>4, <2>3
    <3>2. CASE Wanted(s)
      BY <3>1, <3>2 DEF Fine, Covers
    <3>3. CASE modified[s] >= now - Lookback
      <4>1. /\ pass[q].from \in Nat /\ pass[q].to \in Nat
            /\ pass[q].pc = "logs" => pass[q].from = 0
                                      \/ pass[q].from + Lookback <= now
            /\ pass[q].pc \in {"reads", "storeSafe"} => pass[q].to <= now
        BY <3>1, Constants DEF Fine, InTime, PassState
      <4>2. /\ pass[q].pc = "logs" => modified[s] >= pass[q].from
            /\ pass[q].pc \in {"reads", "storeSafe"}
                 => modified[s] >= pass[q].to - Lookback
        BY <1>1, <3>3, <4>1, Constants
      <4>3. QED
        BY <3>1, <4>2
    <3>4. QED
      BY <1>8, <3>2, <3>3
  <2>4. QED
    BY <2>1, <2>2, <2>3
<1>9. ASSUME NEW q \in Pass
      PROVE  InTime(pass[q])' /\ NewerIsModified(pass[q])'
  <2>1. CASE q = p
    <3>1. InTime(r) /\ NewerIsModified(r)
      <4>1. CASE todo = {}
        BY <4>1, CheckFine DEF Fine
      <4>2. InTime(next) /\ NewerIsModified(next)
        <5> HIDE DEF next
        <5>1. QED
          BY <1>2 DEF InTime, NewerIsModified
      <4>3. QED
        BY <4>1, <4>2
    <3> HIDE DEF r
    <3>2. pass'[q] = r
      BY <1>4, <2>1
    <3>3. QED
      BY <3>1, <3>2 DEF InTime, NewerIsModified, chain
  <2>2. CASE q # p
    <3>1. pass'[q] = pass[q] /\ Fine(pass[q])
      BY <1>1, <1>4, <2>2
    <3>2. QED
      BY <3>1 DEF Fine, InTime, NewerIsModified, chain
  <2>3. QED
    BY <2>1, <2>2
<1>10. AllFine'
  BY <1>8, <1>9 DEF AllFine, Fine, InTime, NewerIsModified, Covers, chain
<1>11. QED
  BY <1>5, <1>6, <1>7, <1>10 DEF LInv

LEMMA LogsAnsweredStep ==
  ASSUME LInv, NEW p \in Pass, LogsAnswered(p)
  PROVE  LInv'
<1> DEFINE all == {s \in Safe : modified[s] >= pass[p].from}
<1>1. /\ ScanStep(p, now, all, Known)
      /\ UNCHANGED <<chain, collateral, safes, lost, Rest>>
  BY DEF LogsAnswered, Rest
<1>2. now \in Block /\ now <= now /\ Known \in SUBSET Safe
  BY Constants DEF LInv, TypeOK, Known
<1>3. safes' \in [Safe -> Holding \cup {None}] /\ lost' \subseteq Safe
  BY <1>1 DEF LInv, TypeOK
<1>4. \A s \in Safe : Wanted(s)' => Wanted(s) /\ s \in all
  <2>1. \A s \in Safe : Wanted(s)' => Wanted(s)
    BY <1>1 DEF Wanted, Stale, Known, chain
  <2>2. Fine(pass[p]) /\ pass[p].pc = "logs"
    BY DEF LInv, AllFine, LogsAnswered, At
  <2>3. QED
    BY <2>1, <2>2 DEF Fine, Covers
<1>5. all \in SUBSET Safe
  OBVIOUS
<1> HIDE DEF all
<1>6. UNCHANGED <<chain, collateral, Rest>>
  BY <1>1
<1>7. QED
  BY <1>1, <1>2, <1>3, <1>4, <1>5, <1>6, ScanStepStep

(* The safe just stored is stale only if it was modified after the answer, *)
(* which is less than a lookback ago unless it is lost; every other safe is*)
(* as it was.                                                              *)
LEMMA StoreSafeStep ==
  ASSUME LInv, NEW p \in Pass, StoreSafe(p)
  PROVE  LInv'
<1> DEFINE s == pass[p].safe
           todo == pass[p].todo \ {s}
           to == pass[p].to
<1>1. /\ pass[p].pc = "storeSafe" /\ now \in Nat /\ Fine(pass[p])
      /\ s \in Safe /\ pass[p].seen \in Holding
      /\ pass[p].at \in Nat /\ to \in Block /\ to \in Nat /\ to <= now
      /\ pass[p].seen \notin since[s] => modified[s] > pass[p].at
      /\ todo \in SUBSET Safe
  BY Constants
  DEF LInv, TypeOK, AllFine, Fine, InTime, NewerIsModified, StoreSafe, At, PassState
<1>2. /\ ScanStep(p, to, todo, Known \cup {s})
      /\ safes' = [safes EXCEPT ![s] = pass[p].seen]
      /\ lost' = IF now - pass[p].at > Lookback THEN lost \cup {s}
                                               ELSE lost \ {s}
      /\ UNCHANGED <<chain, collateral, Rest>>
  BY DEF StoreSafe, Rest
<1>3. /\ safes \in [Safe -> Holding \cup {None}] /\ lost \subseteq Safe
      /\ \A t \in Safe : modified[t] \in Nat
      /\ Known \cup {s} \in SUBSET Safe
  BY <1>1, Constants DEF LInv, TypeOK, Known
<1>4. safes' \in [Safe -> Holding \cup {None}] /\ lost' \subseteq Safe
  BY <1>1, <1>2, <1>3
<1>5. ASSUME NEW t \in Safe, Wanted(t)'
      PROVE  /\ Wanted(t) \/ modified[t] >= now - Lookback
             /\ t \in todo \/ modified[t] >= to - Lookback
  <2>1. CASE t = s
    <3>1. modified[s] > pass[p].at
      BY <1>1, <1>2, <1>3, <1>5, <2>1 DEF Wanted, Stale, Known, chain
    <3>2. ~(now - pass[p].at > Lookback)
      BY <1>2, <1>5, <2>1 DEF Wanted
    <3>3. modified[s] \in Nat
      BY <1>1, <1>3
    <3>4. modified[s] >= now - Lookback /\ modified[s] >= to - Lookback
      BY <1>1, <3>1, <3>2, <3>3, Constants
    <3>5. QED
      BY <2>1, <3>4
  <2>2. CASE t # s
    <3>1. Wanted(t)
      BY <1>2, <1>3, <1>5, <2>2 DEF Wanted, Stale, Known, chain
    <3>2. QED
      BY <1>1, <2>2, <3>1 DEF Fine, Covers
  <2>3. QED
    BY <2>1, <2>2
<1> HIDE DEF s, todo, to
<1>6. QED
  BY <1>1, <1>2, <1>3, <1>4, <1>5, ScanStepStep

LEMMA InitFailsStep ==
  ASSUME LInv, NEW p \in Pass, NEW s \in Safe, InitFails(p, s)
  PROVE  LInv'
<1> DEFINE todo == pass[p].todo \ {s}
           to == pass[p].to
<1>1. /\ pass[p].pc = "reads" /\ Fine(pass[p])
      /\ to \in Block /\ to <= now /\ todo \in SUBSET Safe
      /\ Known \in SUBSET Safe
  BY DEF LInv, TypeOK, AllFine, Fine, InTime, InitFails, At, PassState, Known
<1>2. /\ ScanStep(p, to, todo, Known)
      /\ UNCHANGED <<chain, collateral, Rest>>
      /\ safes' = safes /\ lost' = lost \cup {s}
  BY DEF InitFails, Rest
<1>3. safes' \in [Safe -> Holding \cup {None}] /\ lost' \subseteq Safe
  BY <1>2 DEF LInv, TypeOK
<1>4. ASSUME NEW t \in Safe, Wanted(t)'
      PROVE  Wanted(t) /\ (t \in todo \/ modified[t] >= to - Lookback)
  <2>1. Wanted(t) /\ t # s
    BY <1>2, <1>4 DEF Wanted, Stale, Known, chain
  <2>2. QED
    BY <1>1, <2>1 DEF Fine, Covers
<1> HIDE DEF todo, to
<1>5. QED
  BY <1>1, <1>2, <1>3, <1>4, ScanStepStep

LEMMA ReadFailsStep ==
  ASSUME LInv, NEW p \in Pass, ReadFails(p)
  PROVE  LInv'
<1>1. /\ UNCHANGED <<chain, safes, cacheBlock, lost, collateral>>
      /\ pass' = AllIdle /\ dead' = TRUE
      /\ UNCHANGED <<sent, faults>>
  BY DEF ReadFails, cache
<1>2. CountedAreTaken'
  BY <1>1 DEF LInv, CountedAreTaken, sent
<1>3. QED
  BY <1>1, <1>2, AllIdleFine, PassStep DEF LInv, TypeOK, sent
-----------------------------------------------------------------------------
(* The loop over the safes. *)
LEMMA LocalLoopStep ==
  ASSUME LInv, NEW p \in Pass,
         ChecksEnd(p) \/ Estimate(p) \/ LiquidationFails(p)
           \/ \E s \in Safe : Liquidate(p, s)
  PROVE  LInv'
<1> DEFINE n == Checking(pass[p].todo)
<1>1. /\ pass[p] \in PassState /\ Fine(pass[p])
      /\ collateral \in Terms \cup {None}
  BY DEF LInv, TypeOK, AllFine
<1>2. n \in PassState /\ Fine(n) /\ (NextSafe(p) <=> Set(p, n))
  BY NextSafeFine
<1> HIDE DEF n
<1>3. CASE ChecksEnd(p)
  <2>1. Set(p, Idle) /\ UNCHANGED <<chain, safes, cacheBlock, lost, collateral, Rest>>
    BY <1>3 DEF ChecksEnd, cache, Rest
  <2>2. QED
    BY <1>1, <2>1, IdleState, PlainFine, OwnStep
<1>4. CASE Estimate(p)
  <2> DEFINE r == [pass[p] EXCEPT !.pc = "send", !.current = TRUE]
  <2>1. /\ r \in PassState /\ r.pc = "send" /\ r.safe = pass[p].safe
        /\ r.seen = pass[p].seen /\ r.at = pass[p].at
    BY <1>1 DEF PassState, Label
  <2>2. (Set(p, r) \/ Set(p, n))
        /\ UNCHANGED <<chain, safes, cacheBlock, lost, collateral, Rest>>
    BY <1>2, <1>4 DEF Estimate, cache, Rest
  <2>3. pass[p].pc = "estimate"
    BY <1>4 DEF Estimate, At
  <2> HIDE DEF r
  <2>4. Fine(r)
    BY <1>1, <2>1, <2>3 DEF Fine, InTime, NewerIsModified, Covers
  <2>5. QED
    BY <1>1, <1>2, <2>1, <2>2, <2>4, OwnStep
<1>5. CASE LiquidationFails(p)
  <2>1. /\ Set(p, n) /\ UNCHANGED <<chain, safes, cacheBlock, lost, collateral>>
        /\ UNCHANGED <<sent, dead>>
        /\ faults' = faults + 1 /\ faults < MaxFaults
    BY <1>2, <1>5 DEF LiquidationFails, cache
  <2>2. faults' \in 0 .. MaxFaults /\ CountedAreTaken'
    BY <2>1, BlockAssumption DEF LInv, TypeOK, CountedAreTaken, sent
  <2>3. pass' \in [Pass -> PassState] /\ \A q \in Pass : pass'[q] \in {pass[q], n}
    BY <1>2, <2>1 DEF LInv, TypeOK, Set
  <2>4. QED
    BY <1>1, <1>2, <2>1, <2>2, <2>3, PassStep DEF LInv, TypeOK, sent
<1>6. ASSUME NEW s \in Safe, Liquidate(p, s) PROVE LInv'
  <2>1. PICK over \in SUBSET {t \in pass[p].todo : ~CanLiquidate(t)} :
          Set(p, [pass[p] EXCEPT !.pc = "estimate", !.safe = s,
                                 !.todo = pass[p].todo \ (over \cup {s})])
    BY <1>6 DEF Liquidate
  <2> DEFINE left == pass[p].todo \ (over \cup {s})
             r == [pass[p] EXCEPT !.pc = "estimate", !.safe = s, !.todo = left]
  <2>2. left \in SUBSET Safe
    BY <1>1 DEF PassState, Label
  <2> HIDE DEF left
  <2>3. /\ r \in PassState /\ r.pc = "estimate" /\ r.safe = s
        /\ r.seen = pass[p].seen /\ r.at = pass[p].at
    BY <1>1, <2>2 DEF PassState, Label
  <2>4. Set(p, r) /\ UNCHANGED <<chain, safes, cacheBlock, lost, collateral, Rest>>
    BY <1>6, <2>1 DEF Liquidate, cache, Rest, left
  <2> HIDE DEF r
  <2>5. Fine(r)
    BY <1>1, <2>3 DEF Fine, InTime, NewerIsModified, Covers
  <2>6. QED
    BY <1>1, <2>3, <2>4, <2>5, OwnStep
<1>7. QED
  BY <1>3, <1>4, <1>5, <1>6
-----------------------------------------------------------------------------
(* The chain moves on: a safe was just modified, or its history goes on.   *)
Moved(s) == \/ since[s] \subseteq since'[s] /\ modified'[s] = modified[s]
            \/ modified'[s] = now' /\ now < now'

LEMMA ChainStep ==
  ASSUME LInv, now' \in Block, now <= now', terms' \in Terms,
         position' \in [Safe -> Holding], since' \in [Safe -> SUBSET Holding],
         modified' \in [Safe -> Block],
         \A s \in Safe : Moved(s) /\ position'[s] \in since'[s],
         UNCHANGED cache,
         pass' \in [Pass -> PassState], \A q \in Pass : Fine(pass'[q]),
         (liquidatedSafes \cup taken \cup unseen)' \subseteq Safe,
         faults' \in 0 .. MaxFaults, dead' \in BOOLEAN, CountedAreTaken'
  PROVE  LInv'
<1>1. /\ now \in Nat /\ now' \in Nat /\ cacheBlock \in Nat /\ cacheBlock <= now
      /\ \A s \in Safe : modified[s] \in Nat /\ modified[s] <= now
      /\ \A s \in Safe : modified'[s] \in Nat
      /\ \A s \in Safe : modified'[s] = modified[s] \/ modified'[s] = now'
  BY Constants DEF LInv, TypeOK, Heights, Moved
<1>2. TypeOK'
  BY DEF LInv, TypeOK, cache
<1>3. Heights'
  BY <1>1 DEF Heights, cache
<1>4. \A s \in Safe : Wanted(s)' => \/ Wanted(s) /\ modified'[s] = modified[s]
                                    \/ modified'[s] = now'
  BY DEF Moved, Wanted, Stale, Known, cache
<1>5. StaleIsReread'
  <2> SUFFICES ASSUME NEW s \in Safe, Wanted(s)'
               PROVE  modified'[s] >= cacheBlock - Lookback
    BY DEF StaleIsReread, Wanted, cache
  <2>1. CASE modified'[s] = now'
    BY <1>1, <2>1, Constants
  <2>2. CASE Wanted(s) /\ modified'[s] = modified[s]
    BY <2>2 DEF LInv, StaleIsReread, Wanted
  <2>3. QED
    BY <1>4, <2>1, <2>2
<1>6. ASSUME NEW q \in Pass PROVE Fine(pass[q])'
  <2>1. /\ pass'[q] \in PassState /\ Fine(pass'[q])
        /\ pass'[q].at \in Nat /\ pass'[q].from \in Nat /\ pass'[q].to \in Nat
    BY Constants DEF PassState
  <2>2. InTime(pass[q])'
    BY <1>1, <2>1, Constants DEF Fine, InTime
  <2>3. NewerIsModified(pass[q])'
    <3> SUFFICES ASSUME pass'[q].pc = "storeSafe",
                        pass'[q].seen \notin since'[pass'[q].safe]
                 PROVE  modified'[pass'[q].safe] > pass'[q].at
      BY DEF NewerIsModified
    <3>1. /\ pass'[q].safe \in Safe
          /\ pass'[q].seen # None
          /\ pass'[q].at <= now
      BY <2>1, Constants DEF Fine, InTime
    <3>2. Moved(pass'[q].safe)
      BY <3>1
    <3>3. CASE modified'[pass'[q].safe] = now' /\ now < now'
      BY <1>1, <2>1, <3>1, <3>3
    <3>4. CASE /\ since[pass'[q].safe] \subseteq since'[pass'[q].safe]
               /\ modified'[pass'[q].safe] = modified[pass'[q].safe]
      BY <2>1, <3>4 DEF Fine, NewerIsModified
    <3>5. QED
      BY <3>2, <3>3, <3>4 DEF Moved
  <2>4. Covers(pass[q])'
    <3> SUFFICES ASSUME NEW s \in Safe, Wanted(s)'
                 PROVE  /\ pass'[q].pc = "logs" => modified'[s] >= pass'[q].from
                        /\ pass'[q].pc \in {"reads", "storeSafe"}
                             => \/ s \in pass'[q].todo
                                \/ modified'[s] >= pass'[q].to - Lookback
      BY DEF Covers
    <3>1. CASE modified'[s] = now'
      BY <1>1, <2>1, <3>1, Constants DEF Fine, InTime
    <3>2. CASE Wanted(s) /\ modified'[s] = modified[s]
      BY <2>1, <3>2 DEF Fine, Covers
    <3>3. QED
      BY <1>4, <3>1, <3>2
  <2>5. QED
    BY <2>2, <2>3, <2>4 DEF Fine
<1>7. QED
  BY <1>2, <1>3, <1>5, <1>6 DEF LInv, AllFine

LEMMA NewBlockStep ==
  ASSUME LInv, NEW S \in SUBSET Safe, NewBlock(S)
  PROVE  LInv'
<1>1. /\ now \in Nat /\ now < MaxBlock /\ now' = now + 1 /\ terms' \in Terms
      /\ position \in [Safe -> Holding] /\ since \in [Safe -> SUBSET Holding]
      /\ \A s \in Safe : position[s] \in since[s]
      /\ modified \in [Safe -> Block]
      /\ modified' = [s \in Safe |-> IF s \in S THEN now + 1 ELSE modified[s]]
      /\ UNCHANGED <<cache, sent, faults, dead, pass>>
  BY Constants DEF NewBlock, LInv, TypeOK, Heights
<1>2. PICK m \in [S -> Position] :
        /\ position' = [s \in Safe |-> IF s \in S THEN m[s] ELSE position[s]]
        /\ since' = [s \in Safe |-> IF s \in S THEN {m[s]} ELSE since[s]]
  BY DEF NewBlock
<1>3. now' \in Block /\ now <= now' /\ now < now'
  BY <1>1, Constants DEF Block
<1>4. /\ position' \in [Safe -> Holding] /\ since' \in [Safe -> SUBSET Holding]
      /\ modified' \in [Safe -> Block]
  BY <1>1, <1>2, <1>3, Constants
<1>5. \A s \in Safe : Moved(s) /\ position'[s] \in since'[s]
  BY <1>1, <1>2, <1>3 DEF Moved
<1>6. CountedAreTaken'
  BY <1>1 DEF LInv, CountedAreTaken, sent
<1>7. pass' \in [Pass -> PassState] /\ \A q \in Pass : Fine(pass'[q])
  BY <1>1 DEF LInv, TypeOK, AllFine
<1>8. /\ (liquidatedSafes \cup taken \cup unseen)' \subseteq Safe
      /\ faults' \in 0 .. MaxFaults /\ dead' \in BOOLEAN
  BY <1>1 DEF LInv, TypeOK, sent
<1>9. QED
  BY <1>1, <1>3, <1>4, <1>5, <1>6, <1>7, <1>8, ChainStep

(* A safe is confiscated and no pass changes but to one that is fine. *)
LEMMA ConfiscationStep ==
  ASSUME LInv, NEW s \in Safe, Confiscate(s) \/ UNCHANGED chain, UNCHANGED cache,
         UNCHANGED pass \/ \E p \in Pass : NextSafe(p),
         (liquidatedSafes \cup taken \cup unseen)' \subseteq Safe,
         faults' \in 0 .. MaxFaults, dead' \in BOOLEAN, CountedAreTaken'
  PROVE  LInv'
<1>1. /\ now \in Block /\ now \in Nat /\ terms \in Terms
      /\ position \in [Safe -> Holding] /\ since \in [Safe -> SUBSET Holding]
      /\ \A t \in Safe : position[t] \in since[t]
      /\ modified \in [Safe -> Block]
      /\ pass \in [Pass -> PassState] /\ \A q \in Pass : Fine(pass[q])
  BY Constants DEF LInv, TypeOK, AllFine, Heights
<1>2. /\ now' = now /\ terms' = terms /\ modified' = modified
      /\ position' \in [Safe -> Holding] /\ since' \in [Safe -> SUBSET Holding]
      /\ \A t \in Safe : since[t] \subseteq since'[t] /\ position'[t] \in since'[t]
  <2>1. CASE UNCHANGED chain
    BY <1>1, <2>1 DEF chain
  <2>2. CASE Confiscate(s)
    <3>1. Left[position[s]] \in Holding
      BY <1>1, Constants
    <3>2. QED
      BY <1>1, <2>2, <3>1 DEF Confiscate
  <2>3. QED
    BY <2>1, <2>2
<1>3. \A t \in Safe : Moved(t)
  BY <1>2 DEF Moved
<1>4. /\ pass' \in [Pass -> PassState]
      /\ \A q \in Pass : pass'[q] = pass[q] \/ Fine(pass'[q])
  <2>1. CASE UNCHANGED pass
    BY <1>1, <2>1
  <2>2. ASSUME NEW p \in Pass, NextSafe(p)
        PROVE  /\ pass' \in [Pass -> PassState]
               /\ \A q \in Pass : pass'[q] = pass[q] \/ Fine(pass'[q])
    <3> DEFINE n == Checking(pass[p].todo)
    <3>1. n \in PassState /\ Fine(n) /\ Set(p, n)
      BY <2>2, NextSafeFine
    <3> HIDE DEF n
    <3>2. QED
      BY <1>1, <3>1 DEF Set
  <2>3. QED
    BY <2>1, <2>2
<1>5. \A q \in Pass : Fine(pass'[q])
  BY <1>1, <1>4
<1>6. now' \in Block /\ now <= now' /\ terms' \in Terms /\ modified' \in [Safe -> Block]
  BY <1>1, <1>2
<1>8. QED
  BY <1>2, <1>3, <1>4, <1>5, <1>6, ChainStep

LEMMA OtherLiquidatesStep ==
  ASSUME LInv, NEW s \in Safe, OtherLiquidates(s)
  PROVE  LInv'
<1>1. CountedAreTaken'
  BY DEF OtherLiquidates, LInv, CountedAreTaken, sent
<1>2. QED
  BY <1>1, ConfiscationStep DEF OtherLiquidates, LInv, TypeOK, sent

LEMMA MinedLateStep ==
  ASSUME LInv, NEW s \in Safe, MinedLate(s)
  PROVE  LInv'
<1>1. CountedAreTaken'
  BY DEF MinedLate, LInv, CountedAreTaken
<1>2. (liquidatedSafes \cup taken \cup unseen)' \subseteq Safe
  BY DEF MinedLate, LInv, TypeOK
<1>3. QED
  BY <1>1, <1>2, ConfiscationStep DEF MinedLate, LInv, TypeOK

(* The transaction is mined, or nobody sees its receipt. *)
LEMMA MinedStep ==
  ASSUME LInv, NEW p \in Pass, Mined(p) \/ ReceiptLost(p)
  PROVE  LInv'
<1> DEFINE s == pass[p].safe
<1>1. s \in Safe
  BY DEF LInv, AllFine, Fine, InTime, Mined, ReceiptLost, At
<1>2. /\ liquidatedSafes \cup taken \cup unseen \subseteq Safe
      /\ faults \in 0 .. MaxFaults /\ dead \in BOOLEAN /\ CountedAreTaken
  BY DEF LInv, TypeOK
<1>3. CASE Mined(p)
  <2>1. /\ UNCHANGED cache /\ NextSafe(p) /\ faults' = faults /\ dead' = dead
        /\ Confiscate(s) \/ UNCHANGED chain
        /\ \/ taken' = taken \cup {s} /\ liquidatedSafes' = liquidatedSafes \cup {s}
           \/ UNCHANGED <<taken, liquidatedSafes>>
        /\ unseen' = unseen
    BY <1>3 DEF Mined
  <2>2. CountedAreTaken'
    BY <1>2, <2>1 DEF CountedAreTaken
  <2>3. (liquidatedSafes \cup taken \cup unseen)' \subseteq Safe
    BY <1>1, <1>2, <2>1
  <2> HIDE DEF s
  <2>4. QED
    BY <1>1, <1>2, <2>1, <2>2, <2>3, ConfiscationStep
<1>4. CASE ReceiptLost(p)
  <2>1. /\ UNCHANGED cache /\ NextSafe(p) /\ UNCHANGED chain
        /\ faults' = faults + 1 /\ faults < MaxFaults /\ dead' = dead
        /\ unseen' = unseen \cup {s} /\ UNCHANGED <<taken, liquidatedSafes>>
    BY <1>4 DEF ReceiptLost
  <2>2. faults' \in 0 .. MaxFaults
    BY <1>2, <2>1, BlockAssumption
  <2>3. CountedAreTaken' /\ (liquidatedSafes \cup taken \cup unseen)' \subseteq Safe
    BY <1>1, <1>2, <2>1 DEF CountedAreTaken
  <2> HIDE DEF s
  <2>4. QED
    BY <1>1, <1>2, <2>1, <2>2, <2>3, ConfiscationStep
<1>5. QED
  BY <1>3, <1>4

(* A nonce is used: other passes lose theirs, and nothing else.            *)
LEMMA OvertakenFine ==
  ASSUME LInv, NEW p, NEW q \in Pass
  PROVE  Overtaken(p)[q] \in PassState /\ Fine(Overtaken(p)[q])
         /\ Overtaken(p)[q].pc = pass[q].pc /\ Overtaken(p)[q].todo = pass[q].todo
<1> DEFINE r == [pass[q] EXCEPT !.current = FALSE]
<1>1. pass[q] \in PassState /\ Fine(pass[q])
  BY DEF LInv, TypeOK, AllFine
<1>2. /\ r \in PassState /\ r.pc = pass[q].pc /\ r.seen = pass[q].seen
      /\ r.at = pass[q].at /\ r.from = pass[q].from /\ r.to = pass[q].to
      /\ r.todo = pass[q].todo /\ r.safe = pass[q].safe
  BY <1>1 DEF PassState
<1>3. Overtaken(p)[q] \in {r, pass[q]}
  BY DEF Overtaken
<1> HIDE DEF r
<1>4. Fine(r)
  BY <1>1, <1>2 DEF Fine, InTime, NewerIsModified, Covers
<1>5. QED
  BY <1>1, <1>2, <1>3, <1>4

LEMMA OvertakenFunction ==
  ASSUME LInv, NEW p
  PROVE  Overtaken(p) \in [Pass -> PassState]
<1>1. Overtaken(p) = [q \in Pass |-> Overtaken(p)[q]]
  BY DEF Overtaken
<1>2. \A q \in Pass : Overtaken(p)[q] \in PassState
  BY OvertakenFine
<1>3. QED
  BY <1>1, <1>2

LEMMA QueueSendsStep == ASSUME LInv, QueueSends PROVE LInv'
<1>1. /\ UNCHANGED <<chain, safes, cacheBlock, lost, collateral, sent, dead>>
      /\ pass' = Overtaken(None) /\ faults' = faults + 1 /\ faults < MaxFaults
  BY DEF QueueSends, cache
<1>2. faults' \in 0 .. MaxFaults
  BY <1>1, BlockAssumption DEF LInv, TypeOK
<1>3. CountedAreTaken'
  BY <1>1 DEF LInv, CountedAreTaken, sent
<1>4. pass' \in [Pass -> PassState] /\ \A q \in Pass : Fine(pass'[q])
  BY <1>1, OvertakenFine, OvertakenFunction
<1>5. QED
  BY <1>1, <1>2, <1>3, <1>4, PassStep DEF LInv, TypeOK, sent

LEMMA SendStep ==
  ASSUME LInv, NEW p \in Pass, Send(p)
  PROVE  LInv'
<1>1. pass[p] \in PassState /\ Fine(pass[p]) /\ pass[p].pc = "send"
      /\ collateral \in Terms \cup {None}
      /\ UNCHANGED <<chain, safes, cacheBlock, lost, collateral, Rest>>
  BY DEF LInv, TypeOK, AllFine, Send, At, cache, Rest
<1>2. CASE NextSafe(p)
  BY <1>1, <1>2, NextSafeFine, OwnStep
<1>3. CASE pass' = [Overtaken(p) EXCEPT ![p].pc = "wait", ![p].current = FALSE]
  <2> DEFINE r == [pass[p] EXCEPT !.pc = "wait", !.current = FALSE]
  <2>1. /\ r \in PassState /\ r.pc = "wait" /\ r.safe = pass[p].safe
        /\ r.seen = pass[p].seen /\ r.at = pass[p].at
    BY <1>1 DEF PassState, Label
  <2>2. Overtaken(p)[p] = pass[p]
    BY DEF Overtaken
  <2>3. pass' = [Overtaken(p) EXCEPT ![p] = r]
    BY <1>3, <2>2
  <2> HIDE DEF r
  <2>4. Fine(r)
    BY <1>1, <2>1 DEF Fine, InTime, NewerIsModified, Covers
  <2>5. Overtaken(p) \in [Pass -> PassState]
        /\ \A q \in Pass : Fine(Overtaken(p)[q])
    BY OvertakenFine, OvertakenFunction
  <2>6. pass' \in [Pass -> PassState] /\ \A q \in Pass : Fine(pass'[q])
    BY <2>1, <2>3, <2>4, <2>5
  <2>7. CountedAreTaken'
    BY <1>1 DEF LInv, CountedAreTaken, Rest, sent
  <2>8. QED
    BY <1>1, <2>6, <2>7, PassStep DEF LInv, TypeOK, Rest, sent
<1>4. QED
  BY <1>2, <1>3 DEF Send
-----------------------------------------------------------------------------
THEOREM InitLInv == Init => LInv
<1> SUFFICES ASSUME Init PROVE LInv
  OBVIOUS
<1>1. PICK p \in Pass : pass = [AllIdle EXCEPT ![p].pc = "init"]
  BY DEF Init
<1> DEFINE r == [Idle EXCEPT !.pc = "init"]
<1>2. r \in PassState /\ r.pc = "init" /\ r.seen = None
  BY IdleState DEF PassState, Label
<1>3. pass = [AllIdle EXCEPT ![p] = r]
  BY <1>1 DEF AllIdle
<1> HIDE DEF r
<1>4. pass \in [Pass -> PassState] /\ \A q \in Pass : Fine(pass[q])
  BY <1>2, <1>3, PlainFine, AllIdleFine
<1>5. 0 \in Block /\ 0 \in 0 .. MaxFaults
  BY BlockAssumption DEF Block
<1>6. TypeOK
  BY <1>4, <1>5, Constants DEF Init, TypeOK
<1>7. Heights /\ StaleIsReread /\ CountedAreTaken
  BY DEF Init, Heights, StaleIsReread, Stale, Known, CountedAreTaken
<1>8. QED
  BY <1>4, <1>6, <1>7 DEF LInv, AllFine

(* LInv is inductive, whatever calls overlap. *)
THEOREM NextLInv == LInv /\ [Next]_vars => LInv'
<1> SUFFICES ASSUME LInv, [Next]_vars PROVE LInv'
  OBVIOUS
<1>1. CASE Environment
  BY <1>1, NewBlockStep, OtherLiquidatesStep, MinedLateStep, QueueSendsStep
  DEF Environment
<1>2. ASSUME NEW p \in Pass, Read(p) \/ ReadFails(p) PROVE LInv'
  BY <1>2, ReadStep, LogsAnsweredStep, SafeAnsweredStep, StoreSafeStep,
     InitFailsStep, ReadFailsStep
  DEF Read
<1>3. ASSUME NEW p \in Pass, Loop(p) PROVE LInv'
  BY <1>3, LocalLoopStep, SendStep, MinedStep DEF Loop
<1>4. CASE UNCHANGED vars
  <2>1. \A q \in Pass : pass'[q] = pass[q]
    BY <1>4 DEF vars
  <2>2. CountedAreTaken'
    BY <1>4 DEF vars, LInv, CountedAreTaken, sent
  <2>3. QED
    BY <1>4, <2>1, <2>2, PassStep DEF LInv, TypeOK, vars, cache, sent
<1>5. QED
  BY <1>1, <1>2, <1>3, <1>4 DEF Next

THEOREM AlwaysLInv == Spec => []LInv
  BY InitLInv, NextLInv, PTL DEF Spec

(* The variables keep their domains.                                       *)
THEOREM LiquidationTypeCorrect == Spec => []TypeOK
<1>1. LInv => TypeOK
  BY DEF LInv
<1>2. QED
  BY <1>1, AlwaysLInv, PTL

(* A cached position from before its owner's last modification is within   *)
(* the reach of every later scan, however many calls overlap, unless the   *)
(* last answer stored was older than the lookback.                         *)
THEOREM StaleIsRereadCorrect == Spec => []StaleIsReread
<1>1. LInv => StaleIsReread
  BY DEF LInv
<1>2. QED
  BY <1>1, AlwaysLInv, PTL

(* What is counted as liquidated was taken by the keeper, and all it took  *)
(* is counted but for lost receipts, whatever races and failures there are.*)
THEOREM CountedAreTakenCorrect == Spec => []CountedAreTaken
<1>1. LInv => CountedAreTaken
  BY DEF LInv
<1>2. QED
  BY <1>1, AlwaysLInv, PTL
=============================================================================
