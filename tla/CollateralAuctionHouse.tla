----------------------- MODULE CollateralAuctionHouse -----------------------
(***************************************************************************)
(* src/src/lib/Auctions: how the keeper follows the collateral auctions.   *)
(*                                                                         *)
(* The list `auctions` only grows: handleAuctionsState asks the contract   *)
(* how many auctions were started and follows the ones it believes are     *)
(* missing, those numbered from the length of the list on.  It is an async *)
(* function that awaits an RPC before every step, and the keeper has       *)
(* several calls of it under way at once: reloadState is awaited by the    *)
(* block handler, which lets one pass at a time through per start of the   *)
(* keeper, but the API may start it again, and handleBidding, which the    *)
(* handler starts when it is done, is not awaited by anyone.               *)
(*                                                                         *)
(* A call is a process ("pass").  An RPC is three things: it is sent when  *)
(* the pass suspends, the node answers from its state at that moment, and  *)
(* the pass resumes later; or it fails and the pass throws.                *)
(***************************************************************************)
EXTENDS Naturals, Sequences

CONSTANTS Pass,                \* slots for concurrent handleAuctionsState calls
          Start,               \* calls of Keeper.start
          First,               \* the one of the constructor
          IsBidding,           \* the keeper runs without --start-auctions-only
          MaxAuctions,         \* bound: auctions the chain has at a time
          MaxReorgs            \* bound: reorganisations of the chain

ASSUME StartAssumption == First \in Start
ASSUME IsBiddingAssumption == IsBidding \in BOOLEAN
ASSUME MaxAuctionsAssumption == MaxAuctions \in Nat
ASSUME MaxReorgsAssumption == MaxReorgs \in Nat

VARIABLES started,             \* chain: auctionsStarted()
          open,                \* chain: auctions with collateral left to sell
          rights,              \* chain: the house may modify the keeper's safe
          reorgs,              \* chain: how often it was reorganised
          undone,              \* history: auctions of which a reorganisation
                               \* took the start or the sale back
          auctions,            \* this.auctions: the id and the cached `deleted`
          stage,               \* of each start: where its loadState stands
          alive,               \* the process runs
          approvals,           \* approval transactions queued by loadState
          pass,                \* the concurrent calls
          overlapped           \* history: two calls were under way at once

chain == <<started, open, rights, reorgs, undone>>
keeper == <<stage, alive, approvals, overlapped>>
vars == <<chain, auctions, keeper, pass>>

AuctionId == 1 .. MaxAuctions
Followed == [id : AuctionId, deleted : BOOLEAN]

(* idle, then the RPC the pass is waiting for and, with a prime of its own,*)
(* the turn in which the answer is there.                                  *)
Waiting == {"count", "init", "reload", "rights"}
Answered == {"counted", "inited", "reloaded", "righted"}
PC == {"idle", "ok", "failed"} \cup Waiting \cup Answered

PassState == [kind : {"load", "reload", "bid"},
              start : Start,     \* whose startup or handler called
              pc : PC,
              answer : Nat,      \* the node's answer (0 and 1 for a flag)
              next : Nat,        \* the auction being initialised
              last : Nat,        \* the last one to initialise, 0: no new one
              cursor : Nat,      \* the index of the auction being reloaded
              gone : SUBSET AuctionId]  \* history: settled when the call
                                 \* began, if no other was under way since

Idle == [kind |-> "reload", start |-> First, pc |-> "idle", answer |-> 0,
         next |-> 0, last |-> 0, cursor |-> 0, gone |-> {}]
AllIdle == [p \in Pass |-> Idle]

Init == /\ started \in 0 .. MaxAuctions
        /\ open \in SUBSET (1 .. started)
        /\ rights \in BOOLEAN
        /\ reorgs = 0
        /\ undone = {}
        /\ auctions = <<>>
        /\ stage = [s \in Start |-> "new"]
        /\ alive = TRUE
        /\ approvals = 0
        /\ pass = AllIdle
        /\ overlapped = FALSE

Active(p) == pass[p].pc # "idle"
Set(p, s) == pass' = [pass EXCEPT ![p] = s]
At(p, label) == pass[p].pc = label

(* An unhandled rejection ends the process, and every call with it. *)
ProcessDies == /\ alive' = FALSE
               /\ pass' = AllIdle
               /\ approvals' = 0
               /\ UNCHANGED <<chain, auctions, stage, overlapped>>
-----------------------------------------------------------------------------
(* The chain: LiquidationEngine starts auctions, anyone may buy one out.   *)
StartAuction == /\ started < MaxAuctions
                /\ started' = started + 1
                /\ open' = open \cup {started + 1}
                /\ UNCHANGED <<rights, reorgs, undone, auctions, keeper, pass>>

SettleAuction(id) == /\ id \in open
                     /\ open' = open \ {id}
                     /\ UNCHANGED <<started, rights, reorgs, undone, auctions,
                                    keeper, pass>>

(* A reorganisation takes back the starts of the auctions after the n-th   *)
(* and the sales of those in back.                                         *)
Reorganise(n, back) ==
  /\ reorgs < MaxReorgs
  /\ n <= started
  /\ back \subseteq (1 .. n) \ open
  /\ started' = n
  /\ open' = (open \cap (1 .. n)) \cup back
  /\ undone' = undone \cup ((n + 1) .. started) \cup back
  /\ reorgs' = reorgs + 1
  /\ UNCHANGED <<rights, auctions, keeper, pass>>
-----------------------------------------------------------------------------
(* The callers. *)
Others(p) == {q \in Pass \ {p} : Active(q)}

Call(kind, s, others) ==
  [Idle EXCEPT !.kind = kind, !.start = s, !.pc = "count",
               !.gone = IF others = {} THEN (1 .. started) \ open ELSE {}]

(* A call begins in slot q while those of the slots in others are under    *)
(* way.                                                                    *)
Begin(q, kind, s, others) ==
  /\ pass' = [r \in Pass |-> IF r = q THEN Call(kind, s, others)
                             ELSE IF r \in others THEN [pass[r] EXCEPT !.gone = {}]
                             ELSE Idle]
  /\ overlapped' = (overlapped \/ others # {})

(* Mutant: the isProcessing flag is not looked at. *)
ReloadState_Unguarded(p, s) == /\ alive
                               /\ stage[s] = "loaded"
                               /\ ~Active(p)
                               /\ Begin(p, "reload", s, Others(p))
                               /\ UNCHANGED <<chain, auctions, stage, alive, approvals>>

(* Mutant: an error of reloadState is not caught and the flag stays set. *)
ReloadReturns_Uncaught(p) == /\ pass[p].kind = "reload"
                             /\ At(p, "ok")
                             /\ Set(p, Idle)
                             /\ UNCHANGED <<chain, auctions, keeper>>

(* Keeper.startup awaits loadState. *)
LoadState(p, s) == /\ alive
                   /\ stage[s] = "new"
                   /\ ~Active(p)
                   /\ stage' = [stage EXCEPT ![s] = "loading"]
                   /\ Begin(p, "load", s, Others(p))
                   /\ UNCHANGED <<chain, auctions, alive, approvals>>

(* The block handler awaits reloadState; the isProcessing flag, of which   *)
(* each start has its own, keeps a second reload out.                      *)
ReloadState(p, s) == /\ alive
                     /\ stage[s] = "loaded"
                     /\ ~Active(p)
                     /\ \A q \in Others(p) :
                          ~(pass[q].kind = "reload" /\ pass[q].start = s)
                     /\ Begin(p, "reload", s, Others(p))
                     /\ UNCHANGED <<chain, auctions, stage, alive, approvals>>

(* Any other RPC of startup or of the block handler fails: nobody handles  *)
(* the rejection.                                                          *)
OtherRpcFails == /\ alive
                 /\ ProcessDies

(* The handler goes on after its reload, whether that threw or not, and    *)
(* starts handleBidding without awaiting it if the keeper bids and has     *)
(* coins.                                                                  *)
ReloadReturns(p) ==
  /\ pass[p].kind = "reload"
  /\ pass[p].pc \in {"ok", "failed"}
  /\ \/ Set(p, Idle) /\ UNCHANGED overlapped
     \/ /\ IsBidding
        /\ \E q \in Pass \ {p} :
             /\ ~Active(q)
             /\ Begin(q, "bid", pass[p].start, Others(p))
  /\ UNCHANGED <<chain, auctions, stage, alive, approvals>>

(* handleBidding has its list of auctions; if the call threw, nobody       *)
(* handles the rejection and the process ends.                             *)
BiddingReturns(p) == /\ pass[p].kind = "bid"
                     /\ At(p, "ok")
                     /\ Set(p, Idle)
                     /\ UNCHANGED <<chain, auctions, keeper>>

BiddingFails(p) == /\ pass[p].kind = "bid"
                   /\ At(p, "failed")
                   /\ ProcessDies
-----------------------------------------------------------------------------
(* handleAuctionsState *)
(* What is left of a call when it returns or throws. *)
Ended(s, how) == [s EXCEPT !.pc = how, !.answer = 0, !.next = 0, !.cursor = 0]

(* The first auction from index i on that is not known to be deleted, 0 if *)
(* there is none: the for-of loop reads the list as it is by then.         *)
NextLive(list, i) ==
  LET live == {j \in i .. Len(list) : ~list[j].deleted}
  IN  IF live = {} THEN 0 ELSE CHOOSE j \in live : \A k \in live : j <= k

(* The reload loop, from index i on: suspend on the next live auction or   *)
(* return to the caller.                                                   *)
ReloadFrom(s, list, i) ==
  IF NextLive(list, i) = 0
  THEN Ended(s, "ok")
  ELSE [s EXCEPT !.pc = "reload", !.answer = 0, !.next = 0,
                 !.cursor = NextLive(list, i)]

CountAnswered(p) == /\ At(p, "count")
                    /\ Set(p, [pass[p] EXCEPT !.pc = "counted",
                                              !.answer = started])
                    /\ UNCHANGED <<chain, auctions, keeper>>

(* Mutant: the ids are counted from the length plus two. *)
Compare_OffByOne(p) ==
  /\ At(p, "counted")
  /\ LET s == pass[p]
         n == Len(auctions)
     IN  Set(p, IF s.answer > n
                THEN [s EXCEPT !.pc = "init", !.next = n + 2, !.last = s.answer]
                ELSE Ended(s, "ok"))
  /\ UNCHANGED <<chain, auctions, keeper>>

(* Resumes after `await auctionsStarted()`.  Array(n) with a negative n    *)
(* throws a RangeError.                                                    *)
Compare(p) ==
  /\ At(p, "counted")
  /\ LET s == pass[p]
         n == Len(auctions)
     IN  \/ /\ s.answer = n
            /\ Set(p, Ended(s, "ok"))
         \/ /\ s.answer < n
            /\ Set(p, Ended(s, "failed"))
         \/ /\ s.answer > n
            /\ Set(p, [s EXCEPT !.pc = "init", !.answer = 0, !.next = n + 1,
                                !.last = s.answer])
  /\ UNCHANGED <<chain, auctions, keeper>>

Sold(id) == IF id \in open THEN 0 ELSE 1

InitAnswered(p) == /\ At(p, "init")
                   /\ Set(p, [pass[p] EXCEPT !.pc = "inited",
                                             !.answer = Sold(pass[p].next)])
                   /\ UNCHANGED <<chain, auctions, keeper>>

(* Mutant: the pass ends with its last new auction. *)
Push_NoReload(p) ==
  /\ At(p, "inited")
  /\ LET s == pass[p]
     IN  /\ auctions' = Append(auctions, [id |-> s.next, deleted |-> s.answer = 1])
         /\ Set(p, IF s.next < s.last
                   THEN [s EXCEPT !.pc = "init", !.next = s.next + 1]
                   ELSE Ended(s, "ok"))
  /\ UNCHANGED <<chain, keeper>>

(* Resumes after `await auction.init()`. *)
Push(p) ==
  /\ At(p, "inited")
  /\ LET s == pass[p]
         list == Append(auctions, [id |-> s.next, deleted |-> s.answer = 1])
     IN  /\ auctions' = list
         /\ Set(p, IF s.next < s.last
                   THEN [s EXCEPT !.pc = "init", !.answer = 0, !.next = s.next + 1]
                   ELSE ReloadFrom(s, list, 1))
  /\ UNCHANGED <<chain, keeper>>

ReloadAnswered(p) ==
  /\ At(p, "reload")
  /\ Set(p, [pass[p] EXCEPT !.pc = "reloaded",
                            !.answer = Sold(auctions[pass[p].cursor].id)])
  /\ UNCHANGED <<chain, auctions, keeper>>

(* Mutant: the answer is stored in the newest auction. *)
Refresh_Newest(p) ==
  /\ At(p, "reloaded")
  /\ LET s == pass[p]
         list == [auctions EXCEPT ![Len(auctions)].deleted = (s.answer = 1)]
     IN  /\ auctions' = list
         /\ Set(p, ReloadFrom(s, list, s.cursor + 1))
  /\ UNCHANGED <<chain, keeper>>

(* Resumes after `await auction.reload()`. *)
Refresh(p) ==
  /\ At(p, "reloaded")
  /\ LET s == pass[p]
         list == [auctions EXCEPT ![s.cursor].deleted = (s.answer = 1)]
     IN  /\ auctions' = list
         /\ Set(p, ReloadFrom(s, list, s.cursor + 1))
  /\ UNCHANGED <<chain, keeper>>

RpcFails(p) == /\ pass[p].pc \in Waiting
               /\ Set(p, Ended(pass[p], "failed"))
               /\ UNCHANGED <<chain, auctions, keeper>>
-----------------------------------------------------------------------------
(* The rest of loadState: handleSafeApprovalModification. *)
AskRights(p) == /\ pass[p].kind = "load"
                /\ At(p, "ok")
                /\ Set(p, [pass[p] EXCEPT !.pc = "rights", !.last = 0,
                                          !.gone = {}])
                /\ UNCHANGED <<chain, auctions, keeper>>

RightsAnswered(p) == /\ At(p, "rights")
                     /\ Set(p, [pass[p] EXCEPT !.pc = "righted",
                                               !.answer = IF rights THEN 1 ELSE 0])
                     /\ UNCHANGED <<chain, auctions, keeper>>

FinishLoad(p) == /\ At(p, "righted")
                 /\ approvals' = IF pass[p].answer = 1 THEN approvals
                                                       ELSE approvals + 1
                 /\ stage' = [stage EXCEPT ![pass[p].start] = "loaded"]
                 /\ Set(p, Idle)
                 /\ UNCHANGED <<chain, auctions, alive, overlapped>>

(* loadState throws: startup rejects and the process ends. *)
LoadFails(p) == /\ pass[p].kind = "load"
                /\ At(p, "failed")
                /\ ProcessDies

(* The queue executes the approval. *)
ApprovalMined == /\ approvals > 0
                 /\ approvals' = approvals - 1
                 /\ rights' = TRUE
                 /\ UNCHANGED <<started, open, reorgs, undone, auctions, stage,
                                alive, overlapped, pass>>
-----------------------------------------------------------------------------
Answer(p) == CountAnswered(p) \/ InitAnswered(p) \/ ReloadAnswered(p)
               \/ RightsAnswered(p)

Resume(p) == Compare(p) \/ Push(p) \/ Refresh(p) \/ AskRights(p)
               \/ FinishLoad(p) \/ LoadFails(p)

Caller(p) == \/ \E s \in Start : LoadState(p, s) \/ ReloadState(p, s)
             \/ ReloadReturns(p) \/ BiddingReturns(p) \/ BiddingFails(p)

Chain == \/ StartAuction
         \/ \E id \in AuctionId : SettleAuction(id)
         \/ \E n \in 0 .. MaxAuctions, back \in SUBSET AuctionId :
              Reorganise(n, back)

Next == \/ Chain
        \/ ApprovalMined
        \/ OtherRpcFails
        \/ \E p \in Pass : Caller(p) \/ Answer(p) \/ Resume(p) \/ RpcFails(p)

Spec == Init /\ [][Next]_vars

(* What the event loop can go on with in a slot: the first start, a block  *)
(* for a handler, an RPC that is answered or fails, a call to resume.      *)
Turn(p) == \/ LoadState(p, First)
           \/ \E s \in Start : ReloadState(p, s)
           \/ ReloadReturns(p) \/ BiddingReturns(p) \/ BiddingFails(p)
           \/ Answer(p) \/ RpcFails(p) \/ Resume(p)

(* It does go on, and the two requests that new auctions take, made again  *)
(* and again, are answered at some point.  (The keeper is not stopped and  *)
(* has gas.)                                                               *)
Fairness == \A p \in Pass : /\ WF_vars(Turn(p))
                            /\ SF_vars(CountAnswered(p))
                            /\ SF_vars(InitAnswered(p))

FairSpec == Spec /\ Fairness
-----------------------------------------------------------------------------
(* The domains of the variables. *)
TypeOK == /\ started \in 0 .. MaxAuctions
          /\ open \in SUBSET (1 .. started)
          /\ rights \in BOOLEAN
          /\ reorgs \in 0 .. MaxReorgs
          /\ undone \in SUBSET AuctionId
          /\ auctions \in Seq(Followed)
          /\ stage \in [Start -> {"new", "loading", "loaded"}]
          /\ alive \in BOOLEAN
          /\ approvals \in Nat
          /\ pass \in [Pass -> PassState]
          /\ overlapped \in BOOLEAN

IsFollowed(id) == \E i \in DOMAIN auctions : auctions[i].id = id

(* However many passes interleave, the list never runs ahead of itself:    *)
(* the i-th entry is auction i or an earlier one, and the contract knows   *)
(* it, or did before a reorganisation.  (A gap can open behind the end of  *)
(* the list, never in front of it.)                                        *)
NeverAhead == \A i \in DOMAIN auctions :
                /\ auctions[i].id <= i
                /\ auctions[i].id \in (1 .. started) \cup undone

(* An auction cached as deleted has nothing left to sell, however late the *)
(* answer that said so was applied: no auction is given up while it is     *)
(* still open, but one that a reorganisation touched.                      *)
DeletedIsSettled == \A i \in DOMAIN auctions :
                      auctions[i].deleted => auctions[i].id \notin open \ undone

(* A reorganised sale is beyond the cache: what is deleted is never looked *)
(* at again (the comment at the getter says that reorgs need handling).    *)
DeletedStaysSettled == \A i \in DOMAIN auctions :
                         auctions[i].deleted => auctions[i].id \notin open

StartedTwice == \E s, t \in Start : s # t /\ stage[s] # "new" /\ stage[t] # "new"

(* Only bidding or a second start lets two passes overlap, and nothing but *)
(* an overlap harms the list: before the first one, whatever RPC failed,   *)
(* entry i is auction i, and the list is longer than the count a pass was  *)
(* answered (so that the array length in handleAuctionsState is negative)  *)
(* only by auctions a reorganisation took back.                            *)
ListExact ==
  /\ overlapped => IsBidding \/ StartedTwice
  /\ ~overlapped =>
       /\ \A i \in DOMAIN auctions : auctions[i].id = i
       /\ \A p \in Pass :
            At(p, "counted") =>
              (pass[p].answer + 1) .. Len(auctions) \subseteq undone

(* If the length of the list equals auctionsStarted and no call is under   *)
(* way, handleAuctionsState has nothing to do; so every auction must be in *)
(* the list by then (README: "Monitoring all active auctions").            *)
UpToDateMeansComplete ==
  Len(auctions) = started /\ (\A p \in Pass : ~Active(p))
    => \A id \in 1 .. started : IsFollowed(id)

(* A pass that found new auctions and ran alone leaves none cached as live *)
(* that was settled before the pass began, whatever overlaps there were    *)
(* before it: such a pass repairs what late answers overwrote.             *)
GrowingPassRefreshes ==
  \A p \in Pass :
    At(p, "ok") /\ pass[p].last > 0
      => \A i \in DOMAIN auctions :
           auctions[i].id \in pass[p].gone \ undone => auctions[i].deleted

(* As long as no two passes overlap, RPC failures caught by the handler    *)
(* only delay: every auction that was started is followed in the end,      *)
(* unless a reorganisation took it back or the process ended.              *)
EveryAuctionFollowed ==
  \A id \in AuctionId :
    id <= started ~> (IsFollowed(id) \/ id > started \/ overlapped \/ ~alive)
=============================================================================
