----------------------------- MODULE Liquidation -----------------------------
(***************************************************************************)
(* How the keeper liquidates: checkSafes of src/src/Keeper/index.ts with   *)
(* what it awaits, Collateral.updateInfo (src/src/lib/Collateral),         *)
(* Safe.updateInfo and Safe.liquidate (src/src/lib/Safe).                  *)
(*                                                                         *)
(* The decision multiplies a position and terms (rate and price) that were *)
(* read at different blocks, perhaps by different passes: the block        *)
(* handler awaits none of its checkSafes calls.  An answer that comes late,*)
(* however late, overwrites a newer one.  A confiscation, of all or a part *)
(* of a safe, changes a position without the event getSafes looks for.  The*)
(* transaction of a liquidation is sent outside the transaction queue, so  *)
(* its nonce races the others'.                                            *)
(*                                                                         *)
(* SafeHistory has the windows and the reorganisations; here a scan is one *)
(* request, and a read that fails has taken no time.  With --flash-swap the*)
(* transaction is the proxy's (FlashSwap) and its safe is never counted.   *)
(***************************************************************************)
EXTENDS Integers

CONSTANTS Pass,                \* slots for concurrent checkSafes calls
          Safe,
          Position,            \* the positions an owner may take
          Holding,             \* all a safe may hold and owe
          Left,                \* what a liquidation leaves of it: what is
                               \* above liquidationQuantity, or nothing
          Terms,               \* the values of accumulated rate and price
          Lookback,            \* cacheLookback, 12 in the code
          MaxBlock,            \* bound: blocks with a change of the chain
          MaxFaults,           \* bound: RPCs that fail in the loop, and
                               \* transactions the queue sends meanwhile
          None

ASSUME PositionAssumption == /\ Position \subseteq Holding
                             /\ Holding \subseteq [locked : Nat, debt : Nat]
                             /\ Left \in [Holding -> Holding]
ASSUME TermsAssumption == Terms \subseteq [rate : Nat, price : Nat]
ASSUME BlockAssumption == /\ Lookback \in Nat
                          /\ MaxBlock \in Nat /\ MaxFaults \in Nat
ASSUME NoneAssumption == None \notin Holding \cup Terms \cup Safe

VARIABLES now,                 \* chain: the height
          terms,               \* chain: the collateral's rate and price
          position,            \* chain: what each safe holds and owes
          modified,            \* chain: block of a safe's last modification
          since,               \* history: the positions it has had since
          collateral,          \* rate and price as the keeper knows them
          safes,               \* this.safes: the position cached per safe
          cacheBlock,          \* the history's cacheBlock
          lost,                \* history: safes the scans have lost hold of
          liquidatedSafes,
          taken,               \* history: the keeper confiscated these
          unseen,              \* history: those whose receipt it never saw
          faults,              \* history: faults so far
          dead,                \* a rejection nobody handles ended the process
          pass                 \* the concurrent calls

chain == <<now, terms, position, modified, since>>
cache == <<collateral, safes, cacheBlock, lost>>
sent == <<liquidatedSafes, taken, unseen>>
vars == <<chain, cache, sent, faults, dead, pass>>

Block == 0 .. MaxBlock

(* isCritical on what is cached; the contract asks the same of the chain.  *)
CanLiquidate(s) ==
  safes[s].locked * collateral.price < safes[s].debt * collateral.rate

CriticalPosition ==
  {p \in Holding : p.locked * terms.price < p.debt * terms.rate}
OnChain(s) == position[s] \in CriticalPosition

Label == {"idle", "init", "storeInit", "store", "logs", "reads", "storeSafe",
          "check", "estimate", "send", "wait"}
PassState == [pc : Label,
              seen : Terms \cup Holding \cup {None}, \* the RPC's answer
              at : Block,               \* when it was given
              from : Nat,               \* the scan's first block
              to : Block,               \* and last one
              todo : SUBSET Safe,       \* safes to read, then to check
              safe : Safe \cup {None},  \* the safe at hand
              current : BOOLEAN]        \* its nonce is still the next one
Idle == [pc |-> "idle", seen |-> None, at |-> 0, from |-> 0, to |-> 0,
         todo |-> {}, safe |-> None, current |-> FALSE]

AllIdle == [p \in Pass |-> Idle]

(* The constructor starts collateral.init() and does not wait for it.      *)
Init == /\ now = 0
        /\ terms \in Terms
        /\ position \in [Safe -> Position]
        /\ modified = [s \in Safe |-> 0]
        /\ since = [s \in Safe |-> {position[s]}]
        /\ collateral = None
        /\ safes = [s \in Safe |-> None]
        /\ cacheBlock = 0
        /\ lost = {}
        /\ liquidatedSafes = {} /\ taken = {} /\ unseen = {}
        /\ faults = 0
        /\ dead = FALSE
        /\ \E p \in Pass : pass = [AllIdle EXCEPT ![p].pc = "init"]

At(p, label) == ~dead /\ pass[p].pc = label
Set(p, r) == pass' = [pass EXCEPT ![p] = r]
Known == {s \in Safe : safes[s] # None}

(* The loop over the safes goes on, or ends. *)
Check(p, todo) ==
  Set(p, IF todo = {} THEN Idle
         ELSE [Idle EXCEPT !.pc = "check", !.todo = todo])
NextSafe(p) == Check(p, pass[p].todo)
-----------------------------------------------------------------------------
(* The chain.  A block changes the terms and the positions of some safes,  *)
(* each with its event.                                                    *)
NewBlock(S) ==
  /\ now < MaxBlock
  /\ now' = now + 1
  /\ terms' \in Terms
  /\ \E m \in [S -> Position] :
       /\ position' = [s \in Safe |-> IF s \in S THEN m[s] ELSE position[s]]
       /\ since' = [s \in Safe |-> IF s \in S THEN {m[s]} ELSE since[s]]
  /\ modified' = [s \in Safe |-> IF s \in S THEN now + 1 ELSE modified[s]]
  /\ UNCHANGED <<cache, sent, faults, dead, pass>>

(* Without an event of the kind getSafes looks for. *)
Confiscate(s) ==
  /\ OnChain(s)
  /\ position' = [position EXCEPT ![s] = Left[@]]
  /\ since' = [since EXCEPT ![s] = @ \cup {Left[position[s]]}]
  /\ UNCHANGED <<now, terms, modified>>

(* Another keeper is faster. *)
OtherLiquidates(s) ==
  /\ Confiscate(s)
  /\ UNCHANGED <<cache, sent, faults, dead, pass>>

(* A transaction nobody waits for any more is mined. *)
MinedLate(s) ==
  /\ s \in unseen
  /\ Confiscate(s)
  /\ taken' = taken \cup {s}
  /\ UNCHANGED <<cache, liquidatedSafes, unseen, faults, dead, pass>>

Overtaken(p) ==
  [q \in Pass |-> IF q # p THEN [pass[q] EXCEPT !.current = FALSE] ELSE pass[q]]

(* The queue sends a transaction of the same signer, while a nonce is held.*)
QueueSends ==
  /\ faults < MaxFaults
  /\ \E p \in Pass : pass[p].current
  /\ faults' = faults + 1
  /\ pass' = Overtaken(None)
  /\ UNCHANGED <<chain, cache, sent, dead>>
-----------------------------------------------------------------------------
(* checkSafes is called, by the startup, which awaits it, or by the block  *)
(* handler, which does not; or the constructor's init is under way.  The   *)
(* node answers its first question, cData.                                 *)
CheckSafes(p) ==
  /\ At(p, "init") \/ At(p, "idle")
  /\ Set(p, [Idle EXCEPT !.pc = IF At(p, "init") THEN "storeInit" ELSE "store",
                         !.seen = terms])
  /\ UNCHANGED <<chain, cache, sent, faults, dead>>

StoreInitial(p) ==
  /\ At(p, "storeInit")
  /\ collateral' = pass[p].seen
  /\ Set(p, Idle)
  /\ UNCHANGED <<chain, safes, cacheBlock, lost, sent, faults, dead>>


StoreCollateral_NoFloor(p) ==
  /\ At(p, "store")
  /\ collateral' = pass[p].seen
  /\ Set(p, [Idle EXCEPT !.pc = "logs", !.from = cacheBlock - Lookback])
  /\ UNCHANGED <<chain, safes, cacheBlock, lost, sent, faults, dead>>

StoreCollateral_OnlyNew(p) ==
  /\ At(p, "store")
  /\ collateral' = pass[p].seen
  /\ Set(p, [Idle EXCEPT !.pc = "logs",
                         !.from = IF cacheBlock > 0 THEN cacheBlock + 1 ELSE 0])
  /\ UNCHANGED <<chain, safes, cacheBlock, lost, sent, faults, dead>>

(* The answer is stored, however old; getSafes then asks for the logs.     *)
StoreCollateral(p) ==
  /\ At(p, "store")
  /\ collateral' = pass[p].seen
  /\ Set(p, [Idle EXCEPT !.pc = "logs",
                         !.from = IF cacheBlock > Lookback
                                  THEN cacheBlock - Lookback ELSE 0])
  /\ UNCHANGED <<chain, safes, cacheBlock, lost, sent, faults, dead>>

(* The scan goes on with the next safe to read; after the last, the cache  *)
(* is up to date as of the scan's beginning and the loop starts.           *)
ScanStep(p, to, todo, known) ==
  IF todo = {}
  THEN cacheBlock' = to /\ Check(p, known)
  ELSE /\ UNCHANGED cacheBlock
       /\ Set(p, [Idle EXCEPT !.pc = "reads", !.to = to, !.todo = todo])

LogsAnswered(p) ==
  /\ At(p, "logs")
  /\ ScanStep(p, now, {s \in Safe : modified[s] >= pass[p].from}, Known)
  /\ UNCHANGED <<chain, collateral, safes, lost, sent, faults, dead>>

(* The node answers safes(), one safe after the other. *)
SafeAnswered(p, s) ==
  /\ At(p, "reads")
  /\ s \in pass[p].todo
  /\ Set(p, [pass[p] EXCEPT !.pc = "storeSafe", !.safe = s,
                            !.seen = position[s], !.at = now])
  /\ UNCHANGED <<chain, cache, sent, faults, dead>>

(* The answer is stored, however old.  One that is older than the lookback *)
(* may replace data no later scan will find again.                         *)
StoreSafe(p) ==
  /\ At(p, "storeSafe")
  /\ LET s == pass[p].safe
     IN /\ safes' = [safes EXCEPT ![s] = pass[p].seen]
        /\ lost' = IF now - pass[p].at > Lookback THEN lost \cup {s}
                                                 ELSE lost \ {s}
        /\ ScanStep(p, pass[p].to, pass[p].todo \ {s}, Known \cup {s})
  /\ UNCHANGED <<chain, collateral, sent, faults, dead>>

(* The first read of a safe fails: the scan goes on without the safe.      *)
InitFails(p, s) ==
  /\ At(p, "reads")
  /\ s \in pass[p].todo \ Known
  /\ lost' = lost \cup {s}
  /\ ScanStep(p, pass[p].to, pass[p].todo \ {s}, Known)
  /\ UNCHANGED <<chain, collateral, safes, sent, faults, dead>>

(* Any other read before the loop fails: the call rejects, nobody handles  *)
(* it.                                                                     *)
ReadFails(p) ==
  /\ \/ At(p, "init") \/ At(p, "idle") \/ At(p, "logs")
     \/ At(p, "reads") /\ pass[p].todo \cap Known # {}
  /\ dead' = TRUE
  /\ pass' = AllIdle
  /\ UNCHANGED <<chain, cache, sent, faults>>
-----------------------------------------------------------------------------
(* The loop over the safes. Those passed over in one turn are any that     *)
(* cannot be liquidated now.                                               *)
Liquidate(p, s) ==
  /\ At(p, "check")
  /\ s \in pass[p].todo
  /\ CanLiquidate(s)
  /\ \E over \in SUBSET {r \in pass[p].todo : ~CanLiquidate(r)} :
       Set(p, [pass[p] EXCEPT !.pc = "estimate", !.safe = s,
                              !.todo = @ \ (over \cup {s})])
  /\ UNCHANGED <<chain, cache, sent, faults, dead>>

ChecksEnd(p) ==
  /\ At(p, "check")
  /\ \A s \in pass[p].todo : ~CanLiquidate(s)
  /\ Set(p, Idle)
  /\ UNCHANGED <<chain, cache, sent, faults, dead>>

(* _params is answered, then the estimate: the contract refuses a safe     *)
(* that is not critical, or the nonce of the transaction is read.          *)
Estimate(p) ==
  /\ At(p, "estimate")
  /\ IF OnChain(pass[p].safe)
     THEN Set(p, [pass[p] EXCEPT !.pc = "send", !.current = TRUE])
     ELSE NextSafe(p)
  /\ UNCHANGED <<chain, cache, sent, faults, dead>>

(* The node takes the transaction if its nonce is still the next one.      *)
Send(p) ==
  /\ At(p, "send")
  /\ IF pass[p].current
     THEN pass' = [Overtaken(p) EXCEPT ![p].pc = "wait", ![p].current = FALSE]
     ELSE NextSafe(p)
  /\ UNCHANGED <<chain, cache, sent, faults, dead>>

(* Mutant: the safe is counted before the receipt is there. *)
Mined_Unseen(p) ==
  /\ At(p, "wait")
  /\ liquidatedSafes' = liquidatedSafes \cup {pass[p].safe}
  /\ \/ Confiscate(pass[p].safe) /\ taken' = taken \cup {pass[p].safe}
     \/ ~OnChain(pass[p].safe) /\ UNCHANGED <<chain, taken>>
  /\ NextSafe(p)
  /\ UNCHANGED <<cache, unseen, faults, dead>>

(* It is mined: the receipt has the Liquidate event, or it reverted.       *)
Mined(p) ==
  /\ At(p, "wait")
  /\ \/ /\ Confiscate(pass[p].safe)
        /\ taken' = taken \cup {pass[p].safe}
        /\ liquidatedSafes' = liquidatedSafes \cup {pass[p].safe}
     \/ ~OnChain(pass[p].safe) /\ UNCHANGED <<chain, taken, liquidatedSafes>>
  /\ NextSafe(p)
  /\ UNCHANGED <<cache, unseen, faults, dead>>

(* An RPC fails before the transaction is out, or the engine refuses the   *)
(* transaction or reverts it for its limits: the loop goes on.             *)
LiquidationFails(p) ==
  /\ At(p, "estimate") \/ At(p, "send") \/ At(p, "wait")
  /\ faults < MaxFaults
  /\ faults' = faults + 1
  /\ NextSafe(p)
  /\ UNCHANGED <<chain, cache, sent, dead>>

(* An RPC fails while the transaction is waited for: it is mined all the   *)
(* same, now or later, and nobody looks at its receipt.                    *)
ReceiptLost(p) ==
  /\ At(p, "wait")
  /\ faults < MaxFaults
  /\ faults' = faults + 1
  /\ unseen' = unseen \cup {pass[p].safe}
  /\ NextSafe(p)
  /\ UNCHANGED <<chain, cache, liquidatedSafes, taken, dead>>
-----------------------------------------------------------------------------
Environment == \/ \E S \in SUBSET Safe : NewBlock(S)
               \/ \E s \in Safe : OtherLiquidates(s) \/ MinedLate(s)
               \/ QueueSends

Read(p) == \/ CheckSafes(p) \/ StoreInitial(p) \/ StoreCollateral(p)
           \/ LogsAnswered(p) \/ StoreSafe(p)
           \/ \E s \in Safe : SafeAnswered(p, s) \/ InitFails(p, s)

Loop(p) == \/ ChecksEnd(p) \/ Estimate(p) \/ Send(p) \/ Mined(p)
           \/ LiquidationFails(p) \/ ReceiptLost(p)
           \/ \E s \in Safe : Liquidate(p, s)

Next == \/ Environment
        \/ \E p \in Pass : Read(p) \/ Loop(p) \/ ReadFails(p)

Spec == Init /\ [][Next]_vars

(* Blocks go on coming and start passes, and what was sent is answered: no *)
(* call stays where it is for ever.  (Each label has a step that is enabled*)
(* while the process lives.)                                               *)
Fairness == \A p \in Pass, l \in Label : []<>(dead \/ pass[p].pc # l)

FairSpec == Spec /\ Fairness
-----------------------------------------------------------------------------
(* The domains of the variables. *)
TypeOK == /\ now \in Block
          /\ terms \in Terms
          /\ position \in [Safe -> Holding]
          /\ modified \in [Safe -> Block]
          /\ since \in [Safe -> SUBSET Holding]
          /\ collateral \in Terms \cup {None}
          /\ safes \in [Safe -> Holding \cup {None}]
          /\ cacheBlock \in Block
          /\ lost \subseteq Safe
          /\ liquidatedSafes \cup taken \cup unseen \subseteq Safe
          /\ faults \in 0 .. MaxFaults
          /\ dead \in BOOLEAN
          /\ pass \in [Pass -> PassState]

(* A known safe whose data is from before its owner's last modification,   *)
(* because it was not read since or a late answer replaced what was, is    *)
(* within reach of every later scan; unless that answer was older than the *)
(* lookback, which nothing in the code excludes.                           *)
Stale(s) == s \in Known /\ safes[s] \notin since[s]
StaleIsReread ==
  \A s \in Safe : Stale(s) => modified[s] >= cacheBlock - Lookback \/ s \in lost

(* A safe is counted as liquidated only if the keeper took collateral of   *)
(* it, and counted whenever it did unless the receipt was lost: not for a  *)
(* race with the queue's nonce or another pass, nor for a failure elsewhere*)
(* (test/KeeperLiquidation.ts).                                            *)
CountedAreTaken == /\ liquidatedSafes \subseteq taken
                   /\ taken \subseteq liquidatedSafes \cup unseen

=============================================================================
