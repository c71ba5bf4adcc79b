----------------------------- MODULE SafeHistory -----------------------------
(***************************************************************************)
(* src/src/lib/SafeHistory/index.ts and the log scan it awaits,            *)
(* src/src/Keeper/EventHandlers/PastSafeModifications.ts: how the keeper   *)
(* learns of the safes.  getSafes scans the modification logs from         *)
(* cacheLookback blocks before cacheBlock to the present height, in        *)
(* windows of chunk blocks, reads every safe that occurs, and remembers    *)
(* the height.                                                             *)
(*                                                                         *)
(* A call of getSafes is a process: the startup awaits its own, but the    *)
(* block handler starts one per pass and awaits none, so a slow one is     *)
(* overtaken by later ones.  Meanwhile the chain grows and reorganises.    *)
(***************************************************************************)
EXTENDS Integers, FiniteSets

CONSTANTS Scan,                \* slots for concurrent getSafes calls
          SafeAddress,         \* addresses of safes of the collateral
          From,                \* --from-block
          CacheLookback,       \* 12 in the code
          Chunk,               \* --chunk-size
          MaxBlock,            \* bound: the height at which the chain stops
          MaxReorgs,           \* bound: reorganisations
          ReorgDepth,          \* how many blocks one of them replaces at most
          None

ASSUME ScanAssumption == /\ From \in Nat
                         /\ CacheLookback \in Nat \ {0}
                         /\ Chunk \in Nat \ {0}
                         /\ MaxBlock \in Nat /\ From <= MaxBlock
                         /\ MaxReorgs \in Nat
                         /\ ReorgDepth \in 0 .. CacheLookback
ASSUME NoneAssumption == None \notin SafeAddress

VARIABLES head,                \* chain: the height
          mods,                \* chain: the safes modified in each block
          reorgs,              \* chain: reorganisations so far
          cacheBlock,          \* this.cacheBlock
          safes,               \* the keys of this.safes
          refused,             \* history: safes whose init failed
          phase,               \* the keeper: startup, running or dead
          scan                 \* the concurrent calls

chain == <<head, mods, reorgs>>
vars == <<chain, cacheBlock, safes, refused, phase, scan>>

Height == 0 .. MaxBlock

ScanState == [pc : {"idle", "height", "logs", "mods", "info"},
              from : Height,
              asked : Height,          \* the height when it was asked for
              to : Height,
              start : 0 .. (MaxBlock + Chunk),
              covered : SUBSET Height, \* history: blocks whose logs it read
              todo : SUBSET SafeAddress,  \* safes in its logs, still to read
              cur : SafeAddress \cup {None}]  \* the safe being read

Idle == [pc |-> "idle", from |-> 0, asked |-> 0, to |-> 0, start |-> 0,
         covered |-> {}, todo |-> {}, cur |-> None]
AllIdle == [p \in Scan |-> Idle]

Init == /\ head = From
        /\ mods \in [Height -> SUBSET SafeAddress]
        /\ \A b \in Height : b > head => mods[b] = {}
        /\ reorgs = 0
        /\ cacheBlock = From
        /\ safes = {}
        /\ refused = {}
        /\ phase = "startup"
        /\ scan = AllIdle

At(p, label) == scan[p].pc = label
Set(p, r) == scan' = [scan EXCEPT ![p] = r]
Upto(a, b) == IF a < b THEN a ELSE b
-----------------------------------------------------------------------------
(* The chain. *)
NewBlock == /\ head < MaxBlock
            /\ head' = head + 1
            /\ \E m \in SUBSET SafeAddress :
                 mods' = [mods EXCEPT ![head + 1] = m]
            /\ UNCHANGED <<reorgs, cacheBlock, safes, refused, phase, scan>>

(* Other blocks take the place of the last ones. *)
Reorg == /\ reorgs < MaxReorgs
         /\ reorgs' = reorgs + 1
         /\ mods' \in [Height -> SUBSET SafeAddress]
         /\ \A b \in Height : b > head \/ b <= head - ReorgDepth
                                => mods'[b] = mods[b]
         /\ UNCHANGED <<head, cacheBlock, safes, refused, phase, scan>>
-----------------------------------------------------------------------------
(* Mutants: no floor at 0; no lookback. *)
GetSafes_NoFloor(p) ==
  /\ phase # "dead"
  /\ At(p, "idle")
  /\ phase = "startup" => \A q \in Scan : At(q, "idle")
  /\ Set(p, [Idle EXCEPT !.pc = "height", !.asked = head,
                         !.from = cacheBlock - CacheLookback])
  /\ UNCHANGED <<chain, cacheBlock, safes, refused, phase>>

GetSafes_NoLookback(p) ==
  /\ phase # "dead"
  /\ At(p, "idle")
  /\ phase = "startup" => \A q \in Scan : At(q, "idle")
  /\ Set(p, [Idle EXCEPT !.pc = "height", !.asked = head, !.from = cacheBlock])
  /\ UNCHANGED <<chain, cacheBlock, safes, refused, phase>>

(* checkSafes calls getSafes: the startup once, awaiting it, then every    *)
(* pass of the block handler.                                              *)
GetSafes(p) ==
  /\ phase # "dead"
  /\ At(p, "idle")
  /\ phase = "startup" => \A q \in Scan : At(q, "idle")
  /\ Set(p, [Idle EXCEPT !.pc = "height", !.asked = head,
                         !.from = IF cacheBlock > CacheLookback
                                  THEN cacheBlock - CacheLookback ELSE 0])
  /\ UNCHANGED <<chain, cacheBlock, safes, refused, phase>>

(* The scan's first window starts at fromBlock. *)
HeightAnswered(p) ==
  /\ At(p, "height")
  /\ \E n \in scan[p].asked .. head :
       Set(p, [scan[p] EXCEPT !.pc = "logs", !.to = n,
                              !.start = scan[p].from])
  /\ UNCHANGED <<chain, cacheBlock, safes, refused, phase>>

ModifiedIn(window) == UNION {mods[b] : b \in window}

(* Mutant: the last block of the window is not part of it. *)
LogsAnswered_HalfOpen(p) ==
  /\ At(p, "logs")
  /\ LET s == scan[p]
         window == s.start .. (Upto(s.to, s.start + Chunk) - 1)
              more == s.start + Chunk <= s.to
     IN Set(p, [s EXCEPT !.pc = IF more THEN "logs" ELSE "mods",
                         !.start = @ + Chunk,
                         !.covered = @ \cup window,
                         !.todo = @ \cup ModifiedIn(window)])
  /\ UNCHANGED <<chain, cacheBlock, safes, refused, phase>>

(* getLogs of one window, both ends included; start moves by chunk, so the *)
(* windows share a block, whose logs hashStore keeps from counting twice.  *)
LogsAnswered(p) ==
  /\ At(p, "logs")
  /\ LET s == scan[p]
         window == s.start .. Upto(s.to, s.start + Chunk)
              more == s.start + Chunk <= s.to
     IN Set(p, [s EXCEPT !.pc = IF more THEN "logs" ELSE "mods",
                         !.start = @ + Chunk,
                         !.covered = @ \cup window,
                         !.todo = @ \cup ModifiedIn(window)])
  /\ UNCHANGED <<chain, cacheBlock, safes, refused, phase>>

(* updateInfo of a known safe or init of a new one is sent. *)
ReadSafe(p, a) == /\ At(p, "mods")
                  /\ a \in scan[p].todo
                  /\ Set(p, [scan[p] EXCEPT !.pc = "info", !.cur = a,
                                            !.todo = @ \ {a}])
                  /\ UNCHANGED <<chain, cacheBlock, safes, refused, phase>>

(* The safe was read: it is in the map, whether it was or was not before.  *)
SafeRead(p) == /\ At(p, "info")
               /\ safes' = safes \cup {scan[p].cur}
               /\ Set(p, [scan[p] EXCEPT !.pc = "mods", !.cur = None])
               /\ UNCHANGED <<chain, cacheBlock, refused, phase>>

(* The first read of a new safe fails: the error is printed and the scan   *)
(* goes on without the safe.                                               *)
InitFails(p) == /\ At(p, "info")
                /\ scan[p].cur \notin safes
                /\ refused' = refused \cup {scan[p].cur}
                /\ Set(p, [scan[p] EXCEPT !.pc = "mods", !.cur = None])
                /\ UNCHANGED <<chain, cacheBlock, safes, phase>>

(* Mutant: the height is read again when the scan is over. *)
ScanReturns_Reread(p) == /\ At(p, "mods")
                         /\ scan[p].todo = {}
                         /\ cacheBlock' = head
                         /\ phase' = "running"
                         /\ Set(p, Idle)
                         /\ UNCHANGED <<chain, safes, refused>>

(* The scan is over. *)
ScanReturns(p) == /\ At(p, "mods")
                  /\ scan[p].todo = {}
                  /\ cacheBlock' = scan[p].to
                  /\ phase' = "running"
                  /\ Set(p, Idle)
                  /\ UNCHANGED <<chain, safes, refused>>

(* getBlockNumber, getLogs or updateInfo fails: getSafes and checkSafes    *)
(* rethrow, and neither the startup nor the block handler catches it.      *)
ProcessDies == /\ \E p \in Scan : ~At(p, "idle")
               /\ phase' = "dead"
               /\ scan' = AllIdle
               /\ UNCHANGED <<chain, cacheBlock, safes, refused>>
-----------------------------------------------------------------------------
Step(p) == \/ HeightAnswered(p) \/ LogsAnswered(p)
           \/ \E a \in SafeAddress : ReadSafe(p, a)
           \/ SafeRead(p) \/ InitFails(p) \/ ScanReturns(p)

Next == \/ NewBlock \/ Reorg
        \/ \E p \in Scan : GetSafes(p) \/ Step(p)
        \/ ProcessDies

Spec == Init /\ [][Next]_vars

(* RPCs are answered or fail, and the block handler starts a scan again    *)
(* and again.                                                              *)
FairSpec == Spec /\ \A p \in Scan : WF_vars(GetSafes(p)) /\ WF_vars(Step(p))
-----------------------------------------------------------------------------
(* The domains of the variables. *)
TypeOK == /\ head \in Height
          /\ mods \in [Height -> SUBSET SafeAddress]
          /\ reorgs \in 0 .. MaxReorgs
          /\ cacheBlock \in Height
          /\ safes \in SUBSET SafeAddress
          /\ refused \in SUBSET SafeAddress
          /\ phase \in {"startup", "running", "dead"}
          /\ scan \in [Scan -> ScanState]

(* getPastSafeModifications reads the logs of every block it was asked     *)
(* for, and of no other, whatever the chunk size.                          *)
RangeScanned ==
  \A p \in Scan : At(p, "mods") \/ At(p, "info")
                    => scan[p].covered = scan[p].from .. scan[p].to

(* A safe modified in a block that scans no longer go back to is in the    *)
(* map, however scans overlap and blocks within the lookback are replaced; *)
(* only a safe whose init failed can be missing.                           *)
Settled(b) == b >= From /\ b <= cacheBlock - CacheLookback
MissedOnlyIfRefused ==
  \A b \in Height : Settled(b) => mods[b] \subseteq safes \cup refused

(* If RPCs are answered a modified safe is followed in the end, unless its *)
(* block is reorganised away, its init failed or the keeper ends.          *)
Modified(a) == \E b \in From .. head : a \in mods[b]
EverySafeFollowed ==
  \A a \in SafeAddress :
    Modified(a) ~> (a \in safes \cup refused \/ ~Modified(a)
                                            \/ phase = "dead")

(* README: "Monitoring all safes".  No safe is missing at all. *)
NoSafeMissed == \A b \in Height : Settled(b) => mods[b] \subseteq safes
=============================================================================
