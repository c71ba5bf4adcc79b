-------------------------- MODULE SafeHistoryProofs --------------------------
(***************************************************************************)
(* Proofs about the scans, for every number of concurrent scans, every     *)
(* chunk size and every lookback that is not shorter than the              *)
(* reorganisations.                                                        *)
(***************************************************************************)
EXTENDS SafeHistory, TLAPS

Reading == {"logs", "mods", "info"}
Known == safes \cup refused

(* What scan s has read of the logs: from .. start, then from .. to. *)
Window(s) ==
  /\ s.pc = "height" => s.covered = {}
  /\ s.pc = "logs" => \/ s.start = s.from /\ s.covered = {}
                      \/ /\ s.from < s.start /\ s.start <= s.to
                         /\ s.covered = s.from .. s.start
  /\ s.pc \in {"mods", "info"} => s.covered = s.from .. s.to

(* The heights of scan s lie in the chain (of height n), and where it does *)
(* not look is out of the reach of a reorganisation.                       *)
Bounds(s, n) ==
  /\ s.pc # "idle" => /\ s.from <= s.asked /\ s.asked <= n
                      /\ s.from = 0 \/ s.from + CacheLookback <= n
  /\ s.pc \in Reading => s.asked <= s.to /\ s.to <= n

(* Nothing is missing before the scan's range, nor, outside the lookback,  *)
(* in what it has read, apart from what it is still to look at.            *)
Complete(s, m, known) ==
  /\ s.pc # "idle" => \A b \in From .. (s.from - 1) : m[b] \subseteq known
  /\ s.pc \in Reading =>
       \A b \in s.covered : b + CacheLookback <= s.to
                              => m[b] \subseteq known \cup s.todo \cup {s.cur}
  /\ IF s.pc = "info" THEN s.cur \in SafeAddress ELSE s.cur = None

Good(s, n, m, known) == Window(s) /\ Bounds(s, n) /\ Complete(s, m, known)

Scans == \A p \in Scan : Good(scan[p], head, mods, Known)

SInv == TypeOK /\ cacheBlock <= head /\ Scans /\ MissedOnlyIfRefused

-----------------------------------------------------------------------------
LEMMA Numbers ==
  /\ Height \subseteq Nat /\ 0 \in Height /\ MaxBlock \in Height /\ From \in Height
  /\ CacheLookback \in Nat /\ CacheLookback > 0 /\ Chunk \in Nat /\ Chunk > 0 /\ ReorgDepth \in Nat
  /\ ReorgDepth <= CacheLookback
  BY ScanAssumption DEF Height

LEMMA IdleGood ==
  /\ Idle \in ScanState /\ Idle.pc = "idle"
  /\ \A n, m, known : Good(Idle, n, m, known)
<1>1. 0 \in 0 .. (MaxBlock + Chunk) /\ 0 \in Height
  BY ScanAssumption DEF Height
<1>2. QED
  BY <1>1 DEF Idle, ScanState, Good, Window, Bounds, Complete, Reading

LEMMA ScanFields ==
  ASSUME TypeOK, NEW p \in Scan
  PROVE  /\ scan[p] \in ScanState
         /\ scan[p].from \in Nat /\ scan[p].asked \in Nat /\ scan[p].to \in Nat
         /\ scan[p].start \in Nat /\ scan[p].covered \subseteq Nat
         /\ scan[p].to <= MaxBlock
         /\ head \in Nat /\ cacheBlock \in Nat /\ head <= MaxBlock
         /\ MaxBlock \in Nat
  BY ScanAssumption DEF TypeOK, ScanState, Height

LEMMA SetProperty ==
  ASSUME TypeOK, NEW p \in Scan, NEW r \in ScanState, Set(p, r)
  PROVE  /\ scan' \in [Scan -> ScanState]
         /\ scan'[p] = r
         /\ \A q \in Scan : q # p => scan'[q] = scan[q]
  BY DEF TypeOK, Set

(* The chain moves on, the map grows: what a scan has still stands, since  *)
(* what is replaced is within the lookback.                                *)
LEMMA GoodStable ==
  ASSUME TypeOK, NEW p \in Scan,
         NEW n \in Nat, head <= n,
         NEW m, \A b \in Nat : b <= head - ReorgDepth => m[b] = mods[b],
         NEW known, Known \subseteq known,
         Good(scan[p], head, mods, Known)
  PROVE  Good(scan[p], n, m, known)
<1> DEFINE s == scan[p]
<1>1. /\ s.from \in Nat /\ s.asked \in Nat /\ s.to \in Nat /\ s.covered \subseteq Nat
      /\ head \in Nat /\ From \in Nat
  BY ScanFields, Numbers
<1>2. Window(s) /\ Bounds(s, head) /\ Complete(s, mods, Known)
  BY DEF Good
<1> HIDE DEF s
<1>3. Bounds(s, n)
  BY <1>1, <1>2, Numbers DEF Bounds
<1>4. s.pc # "idle" => \A b \in From .. (s.from - 1) : m[b] \subseteq known
  BY <1>1, <1>2, Numbers DEF Bounds, Complete
<1>5. s.pc \in Reading =>
        \A b \in s.covered : b + CacheLookback <= s.to
                               => m[b] \subseteq known \cup s.todo \cup {s.cur}
  <2> SUFFICES ASSUME s.pc \in Reading, NEW b \in s.covered,
                      b + CacheLookback <= s.to
               PROVE  m[b] \subseteq known \cup s.todo \cup {s.cur}
    OBVIOUS
  <2>1. b \in Nat /\ b <= head - ReorgDepth
    BY <1>1, <1>2, Numbers DEF Bounds
  <2>2. m[b] = mods[b]
    BY <2>1
  <2>3. mods[b] \subseteq Known \cup s.todo \cup {s.cur}
    BY <1>2 DEF Complete
  <2>4. QED
    BY <2>2, <2>3
<1>6. QED
  BY <1>2, <1>3, <1>4, <1>5 DEF Good, Complete, s

-----------------------------------------------------------------------------
LEMMA ScanInit == Init => SInv
<1> SUFFICES ASSUME Init PROVE SInv
  OBVIOUS
<1>1. TypeOK
  <2>1. 0 \in 0 .. MaxReorgs
    BY ScanAssumption
  <2>2. scan \in [Scan -> ScanState]
    BY IdleGood DEF Init, AllIdle
  <2>3. QED
    BY <2>1, <2>2, Numbers DEF Init, TypeOK
<1>2. Scans
  BY IdleGood DEF Init, AllIdle, Scans
<1>3. MissedOnlyIfRefused
  <2> SUFFICES ASSUME NEW b \in Height, Settled(b)
               PROVE  mods[b] \subseteq safes \cup refused
    BY DEF MissedOnlyIfRefused
  <2>1. b \in Nat /\ From \in Nat
    BY Numbers
  <2>2. QED
    BY <2>1, Numbers DEF Init, Settled
<1>4. QED
  BY <1>1, <1>2, <1>3, Numbers DEF Init, SInv
-----------------------------------------------------------------------------
(* The settled blocks are out of reach of a reorganisation. *)
LEMMA ChainKeeps ==
  ASSUME SInv, NewBlock \/ Reorg PROVE SInv'
<1> USE DEF SInv
<1>0. /\ head \in Nat /\ head' \in Nat /\ head <= head' /\ cacheBlock \in Nat
      /\ cacheBlock <= head
  BY Numbers DEF TypeOK, NewBlock, Reorg
<1>1. TypeOK'
  <2>1. CASE NewBlock
    <3>1. head + 1 \in Height
      BY <2>1, ScanAssumption DEF TypeOK, Height, NewBlock
    <3>2. mods' \in [Height -> SUBSET SafeAddress]
      BY <2>1 DEF TypeOK, NewBlock
    <3>3. QED
      BY <2>1, <3>1, <3>2 DEF TypeOK, NewBlock
  <2>2. CASE Reorg
    <3>1. reorgs + 1 \in 0 .. MaxReorgs
      BY <2>2, ScanAssumption DEF TypeOK, Reorg
    <3>2. QED
      BY <2>2, <3>1 DEF TypeOK, Reorg
  <2>3. QED
    BY <2>1, <2>2
<1>2. \A b \in Nat : b <= head - ReorgDepth => mods'[b] = mods[b]
  <2> SUFFICES ASSUME NEW b \in Nat, b <= head - ReorgDepth
               PROVE  mods'[b] = mods[b]
    OBVIOUS
  <2>1. b <= head /\ b \in Height /\ b # head + 1
    BY <1>0, Numbers, ScanAssumption DEF TypeOK, Height
  <2>2. CASE NewBlock
    BY <2>1, <2>2 DEF TypeOK, NewBlock
  <2>3. CASE Reorg
    BY <2>1, <2>3 DEF Reorg
  <2>4. QED
    BY <2>2, <2>3
<1>3. UNCHANGED <<scan, safes, refused, cacheBlock>>
  BY DEF NewBlock, Reorg
<1>4. Scans'
  <2> SUFFICES ASSUME NEW p \in Scan PROVE Good(scan[p], head', mods', Known)
    BY <1>3 DEF Scans, Known
  <2>1. QED
    BY <1>0, <1>2, GoodStable DEF Scans
<1>5. MissedOnlyIfRefused'
  <2> SUFFICES ASSUME NEW b \in Height, Settled(b)
               PROVE  mods'[b] \subseteq safes \cup refused
    BY <1>3 DEF MissedOnlyIfRefused, Settled
  <2>1. b \in Nat /\ b <= head - ReorgDepth
    BY <1>0, Numbers DEF Settled
  <2>2. QED
    BY <1>2, <2>1 DEF MissedOnlyIfRefused
<1>6. QED
  BY <1>0, <1>1, <1>3, <1>4, <1>5

(* A step of one scan that leaves the chain and cacheBlock alone. *)
LEMMA ScanStep ==
  ASSUME SInv, NEW p \in Scan, NEW r \in ScanState, Set(p, r),
         UNCHANGED <<chain, cacheBlock, phase>>,
         safes \subseteq safes', refused \subseteq refused',
         safes' \in SUBSET SafeAddress, refused' \in SUBSET SafeAddress,
         Good(r, head, mods, Known')
  PROVE  SInv'
<1> USE DEF SInv
<1>1. /\ scan' \in [Scan -> ScanState]
      /\ scan'[p] = r
      /\ \A q \in Scan : q # p => scan'[q] = scan[q]
  BY SetProperty
<1>2. TypeOK'
  BY <1>1 DEF TypeOK, chain
<1>3. Known \subseteq Known'
  BY DEF Known
<1>4. ASSUME NEW q \in Scan PROVE Good(scan'[q], head, mods, Known')
  <2>1. head \in Nat /\ head <= head
    BY Numbers DEF TypeOK
  <2>2. Good(scan[q], head, mods, Known')
    BY <1>3, <2>1, GoodStable DEF Scans
  <2>3. QED
    BY <1>1, <2>2
<1>5. Scans'
  BY <1>4 DEF Scans, chain
<1>6. MissedOnlyIfRefused'
  BY DEF MissedOnlyIfRefused, Settled, chain
<1>7. QED
  BY <1>2, <1>5, <1>6 DEF chain

-----------------------------------------------------------------------------
LEMMA GetSafesKeeps ==
  ASSUME SInv, NEW p \in Scan, GetSafes(p) PROVE SInv'
<1> USE DEF SInv
<1> DEFINE from == IF cacheBlock > CacheLookback
                   THEN cacheBlock - CacheLookback ELSE 0
           r == [Idle EXCEPT !.pc = "height", !.asked = head, !.from = from]
<1>1. /\ head \in Nat /\ cacheBlock \in Nat /\ cacheBlock <= head
      /\ head <= MaxBlock /\ MaxBlock \in Nat
  BY ScanFields
<1>2. /\ from \in Nat /\ from <= head /\ from \in Height
      /\ from = 0 \/ from + CacheLookback <= head
      /\ from = 0 \/ from = cacheBlock - CacheLookback
  BY <1>1, Numbers DEF Height
<1>3. Set(p, r)
  BY DEF GetSafes
<1> HIDE DEF from
<1>4. /\ r \in ScanState /\ r.pc = "height" /\ r.asked = head /\ r.from = from
      /\ r.cur = None /\ r.covered = {}
  BY <1>1, <1>2, IdleGood DEF Idle, ScanState, TypeOK
<1> HIDE DEF r
<1>5. Good(r, head, mods, Known')
  <2>1. Window(r) /\ Bounds(r, head)
    BY <1>1, <1>2, <1>4 DEF Window, Bounds, Reading
  <2>2. ASSUME NEW b \in From .. (from - 1) PROVE mods[b] \subseteq Known
    <3>1. b \in Height /\ Settled(b)
      BY <1>1, <1>2, <2>2, Numbers DEF Settled, Height
    <3>2. QED
      BY <3>1 DEF MissedOnlyIfRefused, Known
  <2>3. Known' = Known
    BY DEF Known, GetSafes
  <2>4. QED
    BY <1>4, <2>1, <2>2, <2>3 DEF Good, Complete, Reading
<1>6. QED
  BY <1>3, <1>4, <1>5, ScanStep DEF GetSafes, TypeOK

LEMMA HeightKeeps ==
  ASSUME SInv, NEW p \in Scan, HeightAnswered(p) PROVE SInv'
<1> USE DEF SInv
<1>1. PICK n \in scan[p].asked .. head :
        Set(p, [scan[p] EXCEPT !.pc = "logs", !.to = n, !.start = scan[p].from])
  BY DEF HeightAnswered
<1> DEFINE s == scan[p]
           r == [s EXCEPT !.pc = "logs", !.to = n, !.start = s.from]
<1>2. /\ s \in ScanState /\ s.from \in Height /\ s.asked \in Nat /\ head \in Nat
      /\ head <= MaxBlock /\ MaxBlock \in Nat /\ Chunk \in Nat
  BY ScanFields, Numbers DEF ScanState
<1>3. s.pc = "height" /\ Good(s, head, mods, Known)
  BY DEF HeightAnswered, At, Scans
<1>4. Set(p, r) /\ n \in s.asked .. head
  BY <1>1
<1> HIDE DEF s
<1>5. /\ n \in Height /\ n \in Nat /\ s.asked <= n /\ n <= head
      /\ s.from \in 0 .. (MaxBlock + Chunk)
  BY <1>2, <1>4 DEF Height
<1>6. /\ r \in ScanState /\ r.pc = "logs" /\ r.to = n /\ r.start = s.from
      /\ r.from = s.from /\ r.asked = s.asked /\ r.covered = s.covered
      /\ r.cur = s.cur
  BY <1>2, <1>5 DEF ScanState
<1> HIDE DEF r
<1>7. Good(r, head, mods, Known)
  <2>1. Window(r) /\ Bounds(r, head)
    BY <1>3, <1>5, <1>6 DEF Good, Window, Bounds, Reading
  <2>2. Complete(r, mods, Known)
    BY <1>3, <1>6 DEF Good, Window, Complete
  <2>3. QED
    BY <2>1, <2>2 DEF Good
<1>8. Known' = Known
  BY DEF Known, HeightAnswered
<1>9. QED
  BY <1>4, <1>6, <1>7, <1>8, ScanStep DEF HeightAnswered, TypeOK

(* One window more: what was read stays an interval from the scan's first  *)
(* block, for every chunk size, and ends at its last.                      *)
LEMMA LogsKeeps ==
  ASSUME SInv, NEW p \in Scan, LogsAnswered(p) PROVE SInv'
<1> USE DEF SInv
<1> DEFINE s == scan[p]
           window == s.start .. Upto(s.to, s.start + Chunk)
           more == s.start + Chunk <= s.to
           r == [s EXCEPT !.pc = IF more THEN "logs" ELSE "mods",
                          !.start = @ + Chunk,
                          !.covered = @ \cup window,
                          !.todo = @ \cup ModifiedIn(window)]
<1>1. /\ s \in ScanState /\ s.from \in Nat /\ s.asked \in Nat /\ s.to \in Nat
      /\ s.start \in Nat /\ s.covered \subseteq Height /\ s.to <= MaxBlock
      /\ s.todo \subseteq SafeAddress
      /\ head \in Nat /\ MaxBlock \in Nat /\ Chunk \in Nat /\ Chunk > 0
  BY ScanFields, Numbers DEF ScanState
<1>2. s.pc = "logs" /\ Good(s, head, mods, Known)
  BY DEF LogsAnswered, At, Scans
<1>3. Set(p, r)
  BY DEF LogsAnswered
<1> HIDE DEF s
<1>4. /\ s.from <= s.start /\ s.start <= s.to
      /\ (s.covered = {} /\ s.start = s.from) \/ s.covered = s.from .. s.start
  BY <1>1, <1>2 DEF Good, Window, Bounds, Reading
<1>5. s.covered \cup window = s.from .. Upto(s.to, s.start + Chunk)
  BY <1>1, <1>4 DEF Upto
<1>6. window \subseteq Height
  BY <1>1, <1>4 DEF Upto, Height
<1>7. ModifiedIn(window) \subseteq SafeAddress
  BY <1>6 DEF ModifiedIn, TypeOK
<1>8. s.start + Chunk \in 0 .. (MaxBlock + Chunk)
  BY <1>1, <1>4
<1> HIDE DEF window, more
<1>9. /\ r.pc = (IF more THEN "logs" ELSE "mods")
      /\ r.start = s.start + Chunk /\ r.covered = s.covered \cup window
      /\ r.todo = s.todo \cup ModifiedIn(window)
      /\ r.from = s.from /\ r.asked = s.asked /\ r.to = s.to /\ r.cur = s.cur
  BY <1>1 DEF ScanState
<1>10. r \in ScanState
  <2>1. /\ s.covered \cup window \subseteq Height
        /\ s.todo \cup ModifiedIn(window) \subseteq SafeAddress
    BY <1>1, <1>6, <1>7
  <2>2. QED
    BY <1>1, <1>8, <2>1 DEF ScanState
<1> HIDE DEF r
<1>11. Window(r)
  <2>1. CASE more
    BY <1>1, <1>4, <1>5, <1>9, <2>1 DEF more, Window, Upto
  <2>2. CASE ~more
    BY <1>1, <1>4, <1>5, <1>9, <2>2 DEF more, Window, Upto
  <2>3. QED
    BY <2>1, <2>2
<1>12. Bounds(r, head)
  BY <1>2, <1>9 DEF Good, Bounds, Reading
<1>13. Complete(r, mods, Known)
  <2>1. \A b \in From .. (r.from - 1) : mods[b] \subseteq Known
    BY <1>2, <1>9 DEF Good, Complete
  <2>2. ASSUME NEW b \in r.covered, b + CacheLookback <= r.to
        PROVE  mods[b] \subseteq Known \cup r.todo \cup {r.cur}
    <3>1. CASE b \in window
      <4>1. mods[b] \subseteq ModifiedIn(window)
        BY <3>1 DEF ModifiedIn
      <4>2. QED
        BY <1>9, <4>1
    <3>2. CASE b \in s.covered
      <4>1. mods[b] \subseteq Known \cup s.todo \cup {s.cur}
        BY <1>2, <1>9, <2>2, <3>2 DEF Good, Complete, Reading
      <4>2. QED
        BY <1>9, <4>1
    <3>3. QED
      BY <1>9, <2>2, <3>1, <3>2
  <2>3. r.pc # "info" /\ r.cur = None
    BY <1>2, <1>9 DEF Good, Complete
  <2>4. QED
    BY <2>1, <2>2, <2>3 DEF Complete
<1>14. Known' = Known
  BY DEF Known, LogsAnswered
<1>15. QED
  BY <1>3, <1>10, <1>11, <1>12, <1>13, <1>14, ScanStep
     DEF Good, LogsAnswered, TypeOK

-----------------------------------------------------------------------------
LEMMA ReadKeeps ==
  ASSUME SInv, NEW p \in Scan, NEW a \in SafeAddress, ReadSafe(p, a) PROVE SInv'
<1> USE DEF SInv
<1> DEFINE s == scan[p]
           r == [s EXCEPT !.pc = "info", !.cur = a, !.todo = @ \ {a}]
<1>1. s \in ScanState
  BY ScanFields
<1>2. s.pc = "mods" /\ Good(s, head, mods, Known)
  BY DEF ReadSafe, At, Scans
<1>3. Set(p, r)
  BY DEF ReadSafe
<1> HIDE DEF s
<1>4. /\ r \in ScanState /\ r.pc = "info" /\ r.cur = a /\ r.todo = s.todo \ {a}
      /\ r.from = s.from /\ r.asked = s.asked /\ r.to = s.to
      /\ r.start = s.start /\ r.covered = s.covered
  BY <1>1 DEF ScanState
<1> HIDE DEF r
<1>5. Window(r) /\ Bounds(r, head)
  BY <1>2, <1>4 DEF Good, Window, Bounds, Reading
<1>6. Complete(r, mods, Known)
  <2>1. s.cur = None
    BY <1>2 DEF Good, Complete
  <2>2. ASSUME NEW b \in r.covered, b + CacheLookback <= r.to
        PROVE  mods[b] \subseteq Known \cup r.todo \cup {r.cur}
    <3>1. mods[b] \subseteq Known \cup s.todo \cup {None}
      BY <1>2, <1>4, <2>1, <2>2 DEF Good, Complete, Reading
    <3>2. b \in Height
      BY <1>4, <2>2 DEF ScanState
    <3>3. mods[b] \subseteq SafeAddress
      BY <3>2 DEF TypeOK
    <3>4. QED
      BY <1>4, <3>1, <3>3, NoneAssumption
  <2>3. QED
    BY <1>2, <1>4, <2>2 DEF Good, Complete
<1>7. Known' = Known
  BY DEF Known, ReadSafe
<1>8. QED
  BY <1>3, <1>4, <1>5, <1>6, <1>7, ScanStep DEF Good, ReadSafe, TypeOK

(* The safe was read, or is remembered as refused. *)
LEMMA SafeKeeps ==
  ASSUME SInv, NEW p \in Scan, SafeRead(p) \/ InitFails(p) PROVE SInv'
<1> USE DEF SInv
<1> DEFINE s == scan[p]
           r == [s EXCEPT !.pc = "mods", !.cur = None]
<1>1. s \in ScanState
  BY ScanFields
<1>2. s.pc = "info" /\ Good(s, head, mods, Known)
  BY DEF SafeRead, InitFails, At, Scans
<1>3. Set(p, r)
  BY DEF SafeRead, InitFails
<1>4. s.cur \in SafeAddress
  BY <1>2 DEF Good, Complete
<1>5. /\ safes \subseteq safes' /\ refused \subseteq refused'
      /\ safes' \in SUBSET SafeAddress /\ refused' \in SUBSET SafeAddress
      /\ Known' = Known \cup {s.cur}
      /\ UNCHANGED <<chain, cacheBlock, phase>>
  BY <1>4 DEF TypeOK, SafeRead, InitFails, Known
<1> HIDE DEF s
<1>6. /\ r \in ScanState /\ r.pc = "mods" /\ r.cur = None /\ r.todo = s.todo
      /\ r.from = s.from /\ r.asked = s.asked /\ r.to = s.to
      /\ r.start = s.start /\ r.covered = s.covered
  BY <1>1 DEF ScanState
<1> HIDE DEF r
<1>7. Window(r) /\ Bounds(r, head)
  BY <1>2, <1>6 DEF Good, Window, Bounds, Reading
<1>8. Complete(r, mods, Known \cup {s.cur})
  BY <1>2, <1>6 DEF Good, Complete, Reading
<1>9. QED
  BY <1>3, <1>5, <1>6, <1>7, <1>8, ScanStep DEF Good

(* The scan is over: what it leaves behind the lookback is complete.       *)
LEMMA ScanReturnsKeeps ==
  ASSUME SInv, NEW p \in Scan, ScanReturns(p) PROVE SInv'
<1> USE DEF SInv
<1> DEFINE s == scan[p]
<1>1. /\ s \in ScanState /\ s.from \in Nat /\ s.to \in Nat /\ s.to \in Height
      /\ s.asked \in Nat /\ head \in Nat
  BY ScanFields DEF ScanState
<1>2. /\ s.pc = "mods" /\ s.todo = {} /\ Good(s, head, mods, Known)
      /\ cacheBlock' = s.to
  BY DEF ScanReturns, At, Scans
<1>3. UNCHANGED <<head, mods, reorgs, safes, refused>> /\ phase' = "running"
  BY DEF ScanReturns, chain
<1>4. /\ scan' \in [Scan -> ScanState]
      /\ scan'[p] = Idle
      /\ \A q \in Scan : q # p => scan'[q] = scan[q]
  BY IdleGood, SetProperty DEF ScanReturns
<1> HIDE DEF s
<1>5. TypeOK'
  BY <1>1, <1>2, <1>3, <1>4 DEF TypeOK
<1>6. cacheBlock' <= head'
  BY <1>1, <1>2, <1>3 DEF Good, Bounds, Reading
<1>7. Scans'
  <2>1. Known' = Known
    BY <1>3 DEF Known
  <2>2. QED
    BY <1>3, <1>4, <2>1, IdleGood DEF Scans
<1>8. MissedOnlyIfRefused'
  <2> SUFFICES ASSUME NEW b \in Height, b >= From, b <= s.to - CacheLookback
               PROVE  mods[b] \subseteq safes \cup refused
    BY <1>2, <1>3 DEF MissedOnlyIfRefused, Settled
  <2>1. b \in Nat /\ From \in Nat /\ CacheLookback \in Nat
    BY Numbers
  <2>2. CASE b < s.from
    <3>1. b \in From .. (s.from - 1)
      BY <1>1, <2>1, <2>2
    <3>2. QED
      BY <1>2, <3>1 DEF Good, Complete, Known
  <2>3. CASE b >= s.from
    <3>1. b \in s.covered /\ b + CacheLookback <= s.to
      BY <1>1, <1>2, <2>1, <2>3 DEF Good, Window
    <3>2. s.cur = None
      BY <1>2 DEF Good, Complete
    <3>3. mods[b] \subseteq Known \cup {None}
      BY <1>2, <3>1, <3>2 DEF Good, Complete, Reading
    <3>4. mods[b] \subseteq SafeAddress
      BY DEF TypeOK
    <3>5. QED
      BY <3>3, <3>4, NoneAssumption DEF Known
  <2>4. QED
    BY <1>1, <2>1, <2>2, <2>3
<1>9. QED
  BY <1>5, <1>6, <1>7, <1>8

LEMMA DiesKeeps ==
  ASSUME SInv, ProcessDies PROVE SInv'
<1> USE DEF SInv
<1>1. scan' = AllIdle /\ UNCHANGED <<chain, cacheBlock, safes, refused>>
  BY DEF ProcessDies
<1>2. TypeOK'
  <2>1. scan' \in [Scan -> ScanState]
    BY <1>1, IdleGood DEF AllIdle
  <2>2. QED
    BY <1>1, <2>1 DEF TypeOK, ProcessDies, chain
<1>3. Scans'
  BY <1>1, IdleGood DEF AllIdle, Scans
<1>4. MissedOnlyIfRefused'
  BY <1>1 DEF MissedOnlyIfRefused, Settled, chain
<1>5. QED
  BY <1>1, <1>2, <1>3, <1>4 DEF chain

-----------------------------------------------------------------------------
LEMMA InvariantStep == SInv /\ [Next]_vars => SInv'
<1> SUFFICES ASSUME SInv, [Next]_vars PROVE SInv'
  OBVIOUS
<1>1. CASE UNCHANGED vars
  BY <1>1 DEF SInv, TypeOK, Scans, Known, MissedOnlyIfRefused, Settled, vars, chain
<1>2. CASE NewBlock \/ Reorg
  BY <1>2, ChainKeeps
<1>3. ASSUME NEW p \in Scan, GetSafes(p) \/ Step(p) PROVE SInv'
  BY <1>3, GetSafesKeeps, HeightKeeps, LogsKeeps, ReadKeeps, SafeKeeps,
     ScanReturnsKeeps DEF Step
<1>4. CASE ProcessDies
  BY <1>4, DiesKeeps
<1>5. QED
  BY <1>1, <1>2, <1>3, <1>4 DEF Next

LEMMA Inductive == Spec => []SInv
<1>1. Init => SInv
  BY ScanInit
<1>2. SInv /\ [Next]_vars => SInv'
  BY InvariantStep
<1>3. QED
  BY <1>1, <1>2, PTL DEF Spec

(* The variables of the safe history keep their domains. *)
THEOREM HistoryTypeCorrect == Spec => []TypeOK
<1>1. SInv => TypeOK
  BY DEF SInv
<1>2. QED
  BY <1>1, Inductive, PTL

(* A scan reads the logs of exactly the blocks it was asked for, for every *)
(* chunk size.                                                             *)
THEOREM RangeCorrect == Spec => []RangeScanned
<1>1. SInv => RangeScanned
  BY DEF SInv, Scans, Good, Window, RangeScanned, At
<1>2. QED
  BY <1>1, Inductive, PTL

(* With a lookback as long as any reorganisation, no safe modified in a    *)
(* block behind it is missing, but for those whose init failed: for every  *)
(* number of overlapping scans.                                            *)
THEOREM MissedCorrect == Spec => []MissedOnlyIfRefused
<1>1. SInv => MissedOnlyIfRefused
  BY DEF SInv
<1>2. QED
  BY <1>1, Inductive, PTL
=============================================================================
