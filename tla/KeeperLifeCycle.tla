--------------------------- MODULE KeeperLifeCycle ---------------------------
(***************************************************************************)
(* src/src/Keeper/index.ts: start, handleLifeCycle, the block handler and  *)
(* shutdown.  Every call of start() runs handleLifeCycle: it awaits the    *)
(* startup and then registers a block handler, a closure with its own      *)
(* processedBlock and isProcessing.  The provider calls the handlers on    *)
(* every block without waiting for the former call; each is an async       *)
(* function that reads, awaits and only then tests and sets its flag.      *)
(* The API may call start() and shutdown() at any time.                    *)
(*                                                                         *)
(* What the handler starts without awaiting it (checkSafes and             *)
(* handleBidding) and what shutdown puts on the transaction queue is in    *)
(* GracefulShutdown and CollateralAuctionHouse; here only the control.     *)
(***************************************************************************)
EXTENDS Naturals

CONSTANTS Start,               \* calls of start(), one closure each
          First,               \* the call in the constructor
          Handler,             \* slots for concurrent calls of block handlers
          Stop,                \* slots for concurrent calls of shutdown
          KeepSystemCoin,      \* --keep-system-coin-in-safe-engine-on-exit
          MaxBlock,            \* bound: the height at which the chain stops
          None                 \* lifeCycleHandler is undefined

ASSUME FirstAssumption == First \in Start /\ None \notin Start
ASSUME KeepAssumption == KeepSystemCoin \in BOOLEAN
ASSUME MaxBlockAssumption == MaxBlock \in Nat \ {0}

VARIABLES block,               \* chain: the height
          life,                \* per start: where handleLifeCycle stands
          startupFinished, isExiting, status, lifeCycleHandler,
          listeners,           \* provider: handlers registered for "block"
          notified,            \* provider: the last block each was called for
          processedBlock,      \* per closure, 0 for undefined
          isProcessing,        \* per closure
          handler,             \* the calls of block handlers
          stop                 \* the calls of shutdown

keeper == <<startupFinished, isExiting, status, lifeCycleHandler>>
provider == <<listeners, notified>>
closure == <<processedBlock, isProcessing>>
vars == <<block, life, keeper, provider, closure, handler, stop>>

KeeperStatus == {"Initializing", "Started", "Stopping", "Stopped"}

(* startup awaits, one after the other: the allowance, loadState, the join,*)
(* two balances and checkSafes.                                            *)
StartupAwaits == 6
Listening == StartupAwaits + 1
Life == 0 .. Listening

Call == [pc : {"idle", "coins", "number", "reload", "record"},
         of : Start,           \* the closure it belongs to
         asked : 0 .. MaxBlock,  \* the height when getBlockNumber was sent
         number : 0 .. MaxBlock, \* currentBlockNumber
         late : BOOLEAN]       \* history: called after shutdown began

NoCall == [pc |-> "idle", of |-> First, asked |-> 0, number |-> 0,
           late |-> FALSE]

Init == /\ block = 1
        /\ life = [s \in Start |-> IF s = First THEN 1 ELSE 0]
        /\ startupFinished = FALSE
        /\ isExiting = FALSE
        /\ status = "Initializing"
        /\ lifeCycleHandler = None
        /\ listeners = {}
        /\ notified = [s \in Start |-> 0]
        /\ processedBlock = [s \in Start |-> 0]
        /\ isProcessing = [s \in Start |-> FALSE]
        /\ handler = [h \in Handler |-> NoCall]
        /\ stop = [x \in Stop |-> "idle"]

At(h, label) == handler[h].pc = label
Of(h) == handler[h].of
Put(h, c) == handler' = [handler EXCEPT ![h] = c]
Goto(h, label) == Put(h, [handler[h] EXCEPT !.pc = label, !.asked = block])
Return(h) == Put(h, NoCall)

(* What getBlockNumber may answer: a height of the chain between the       *)
(* request and the response.                                               *)
Answers(h) == handler[h].asked .. block
-----------------------------------------------------------------------------
NewBlock == /\ block < MaxBlock
            /\ block' = block + 1
            /\ UNCHANGED <<life, keeper, provider, closure, handler, stop>>

(* The API's start mutation. *)
StartCalled(s) == /\ life[s] = 0
                  /\ life' = [life EXCEPT ![s] = 1]
                  /\ UNCHANGED <<block, keeper, provider, closure, handler, stop>>

StartupAdvances(s) == /\ life[s] \in 1 .. (StartupAwaits - 1)
                      /\ life' = [life EXCEPT ![s] = @ + 1]
                      /\ UNCHANGED <<block, keeper, provider, closure, handler,
                                     stop>>

(* The last await of startup is over: Started, and the handler of this     *)
(* closure is registered in place of none; the provider calls it for the   *)
(* next block, or for the present one if it was not polling.               *)
StartupFinishes(s) == /\ life[s] = StartupAwaits
                      /\ life' = [life EXCEPT ![s] = Listening]
                      /\ startupFinished' = TRUE
                      /\ status' = "Started"
                      /\ lifeCycleHandler' = s
                      /\ listeners' = listeners \cup {s}
                      /\ \E n \in {block - 1, block} :
                           notified' = [notified EXCEPT ![s] = n]
                      /\ UNCHANGED <<block, isExiting, closure, handler, stop>>
-----------------------------------------------------------------------------
(* The block handler. *)
BlockEvent(s, h) ==
  /\ s \in listeners
  /\ notified[s] < block
  /\ At(h, "idle")
  /\ notified' = [notified EXCEPT ![s] = @ + 1]
  /\ Put(h, [NoCall EXCEPT !.pc = "coins", !.of = s, !.late = isExiting])
  /\ UNCHANGED <<block, life, keeper, listeners, closure, stop>>

(* The coin balance is there and the native balance read before suffices. *)
CoinsAnswered(h) ==
  /\ At(h, "coins")
  /\ startupFinished
  /\ ~isExiting
  /\ Goto(h, "number")
  /\ UNCHANGED <<block, life, keeper, provider, closure, stop>>

(* The handler returns early: the keeper exits or its native balance is    *)
(* too low for transactions.                                               *)
TurnAway(h) == /\ At(h, "coins")
               /\ Return(h)
               /\ UNCHANGED <<block, life, keeper, provider, closure, stop>>

(* Mutant: isProcessing is not looked at. *)
BeginPass_Unguarded(h) ==
  /\ At(h, "number")
  /\ \E n \in Answers(h) :
       /\ n # processedBlock[Of(h)]
       /\ \E label \in {"reload", "record"} :
            Put(h, [handler[h] EXCEPT !.pc = label, !.asked = block,
                                      !.number = n])
  /\ isProcessing' = [isProcessing EXCEPT ![Of(h)] = TRUE]
  /\ UNCHANGED <<block, life, keeper, provider, processedBlock, stop>>

(* A block not processed and no pass under way: the pass checks the safes  *)
(* without awaiting it, then reloads the auctions if they were loaded.     *)
BeginPass(h) ==
  /\ At(h, "number")
  /\ ~isProcessing[Of(h)]
  /\ \E n \in Answers(h) :
       /\ n # processedBlock[Of(h)]
       /\ \E label \in {"reload", "record"} :
            Put(h, [handler[h] EXCEPT !.pc = label, !.asked = block,
                                      !.number = n])
  /\ isProcessing' = [isProcessing EXCEPT ![Of(h)] = TRUE]
  /\ UNCHANGED <<block, life, keeper, provider, processedBlock, stop>>

(* The block was processed, or a pass is under way: this one is dropped. *)
DropBlock(h) ==
  /\ At(h, "number")
  /\ isProcessing[Of(h)] \/ processedBlock[Of(h)] \in Answers(h)
  /\ Return(h)
  /\ UNCHANGED <<block, life, keeper, provider, closure, stop>>

(* reloadState is over; the handler catches what it throws. *)
ReloadReturns(h) ==
  /\ At(h, "reload")
  /\ Goto(h, "record")
  /\ UNCHANGED <<block, life, keeper, provider, closure, stop>>

(* Mutants: the next number or the one read before the pass is recorded;   *)
(* the flag is not cleared.                                                *)
EndPass_Next(h) ==
  /\ At(h, "record")
  /\ \E n \in Answers(h) :
       processedBlock' = [processedBlock EXCEPT ![Of(h)] = n + 1]
  /\ isProcessing' = [isProcessing EXCEPT ![Of(h)] = FALSE]
  /\ Return(h)
  /\ UNCHANGED <<block, life, keeper, provider, stop>>

EndPass_OldNumber(h) ==
  /\ At(h, "record")
  /\ processedBlock' = [processedBlock EXCEPT ![Of(h)] = handler[h].number]
  /\ isProcessing' = [isProcessing EXCEPT ![Of(h)] = FALSE]
  /\ Return(h)
  /\ UNCHANGED <<block, life, keeper, provider, stop>>

EndPass_Busy(h) ==
  /\ At(h, "record")
  /\ \E n \in Answers(h) :
       processedBlock' = [processedBlock EXCEPT ![Of(h)] = n]
  /\ Return(h)
  /\ UNCHANGED <<block, life, keeper, provider, isProcessing, stop>>

(* The pass asks for the height again, records the answer and clears the   *)
(* flag.                                                                   *)
EndPass(h) ==
  /\ At(h, "record")
  /\ \E n \in Answers(h) :
       processedBlock' = [processedBlock EXCEPT ![Of(h)] = n]
  /\ isProcessing' = [isProcessing EXCEPT ![Of(h)] = FALSE]
  /\ Return(h)
  /\ UNCHANGED <<block, life, keeper, provider, stop>>
-----------------------------------------------------------------------------
(* shutdown, called by the API or by a signal. *)
ShutdownCalled(x) ==
  /\ stop[x] = "idle"
  /\ status' = "Stopping"
  /\ isExiting' = TRUE
  /\ stop' = [stop EXCEPT ![x] = IF KeepSystemCoin THEN "off" ELSE "rights"]
  /\ UNCHANGED <<block, life, startupFinished, lifeCycleHandler, provider,
                 closure, handler>>

(* exitSystemCoin reads the keeper's rights. *)
RightsAnswered(x) ==
  /\ stop[x] = "rights"
  /\ stop' = [stop EXCEPT ![x] = "off"]
  /\ UNCHANGED <<block, life, keeper, provider, closure, handler>>

(* The API's caller gets the error; the keeper stays Stopping. *)
ShutdownFails(x) ==
  /\ stop[x] = "rights"
  /\ stop' = [stop EXCEPT ![x] = "idle"]
  /\ UNCHANGED <<block, life, keeper, provider, closure, handler>>

(* Mutant: the handler stays registered. *)
ShutdownReturns_NoOff(x) ==
  /\ stop[x] = "off"
  /\ status' = "Stopped"
  /\ stop' = [stop EXCEPT ![x] = "idle"]
  /\ UNCHANGED <<block, life, startupFinished, isExiting, lifeCycleHandler,
                 provider, closure, handler>>

(* The last handler registered, if any, is taken off. *)
ShutdownReturns(x) ==
  /\ stop[x] = "off"
  /\ listeners' = listeners \ {lifeCycleHandler}
  /\ status' = "Stopped"
  /\ stop' = [stop EXCEPT ![x] = "idle"]
  /\ UNCHANGED <<block, life, startupFinished, isExiting, lifeCycleHandler,
                 notified, closure, handler>>

(* A rejection nobody handles (startup, an RPC of the block handler, or an *)
(* un-awaited checkSafes or handleBidding) ends the process.               *)
ProcessDies == /\ life' = [s \in Start |-> Listening]
               /\ listeners' = {}
               /\ isProcessing' = [s \in Start |-> FALSE]
               /\ handler' = [h \in Handler |-> NoCall]
               /\ stop' = [x \in Stop |-> "dead"]
               /\ UNCHANGED <<block, keeper, notified, processedBlock>>
-----------------------------------------------------------------------------
HandlerStep(h) == \/ CoinsAnswered(h) \/ TurnAway(h)
                  \/ BeginPass(h) \/ DropBlock(h)
                  \/ ReloadReturns(h) \/ EndPass(h)

Startup(s) == StartupAdvances(s) \/ StartupFinishes(s)

Shutdown(x) == RightsAnswered(x) \/ ShutdownFails(x) \/ ShutdownReturns(x)

Next == \/ NewBlock
        \/ \E s \in Start : StartCalled(s) \/ Startup(s)
        \/ \E s \in Start, h \in Handler : BlockEvent(s, h)
        \/ \E h \in Handler : HandlerStep(h)
        \/ \E x \in Stop : ShutdownCalled(x) \/ Shutdown(x)
        \/ ProcessDies

Spec == Init /\ [][Next]_vars

(* Every RPC is answered or fails (ethers' request timeout), so a call     *)
(* that was started goes on.                                               *)
FairSpec == Spec /\ \A h \in Handler : WF_vars(HandlerStep(h))
-----------------------------------------------------------------------------
(* The domains of the keeper's variables. *)
TypeOK == /\ block \in 1 .. MaxBlock
          /\ life \in [Start -> Life]
          /\ startupFinished \in BOOLEAN
          /\ isExiting \in BOOLEAN
          /\ status \in KeeperStatus
          /\ lifeCycleHandler \in Start \cup {None}
          /\ listeners \in SUBSET Start
          /\ notified \in [Start -> 0 .. MaxBlock]
          /\ processedBlock \in [Start -> 0 .. MaxBlock]
          /\ isProcessing \in [Start -> BOOLEAN]
          /\ handler \in [Handler -> Call]
          /\ stop \in [Stop -> {"idle", "rights", "off", "dead"}]

InPass(h) == handler[h].pc \in {"reload", "record"}

(* The flag is set exactly while one call of the closure is in its pass,   *)
(* however many calls were waiting for the height when it was free.        *)
OnePassPerClosure ==
  /\ \A h, g \in Handler :
       InPass(h) /\ InPass(g) /\ Of(h) = Of(g) => h = g
  /\ \A s \in Start :
       isProcessing[s] <=> \E h \in Handler : InPass(h) /\ Of(h) = s

(* A block handler called after shutdown began does no work. *)
ExitingStopsNewBlocks ==
  \A h \in Handler : handler[h].late => handler[h].pc \in {"idle", "coins"}

(* As long as start was not called again, a stopped keeper listens to no   *)
(* block, wherever its startup and its handlers stand.                     *)
StoppedMeansDetached ==
  (\A s \in Start \ {First} : life[s] = 0) /\ status = "Stopped"
    => listeners = {}

(* So shutdown keeps a keeper from new work, whenever it is called.        *)
ShutdownEndsWork == ExitingStopsNewBlocks /\ StoppedMeansDetached

(* processedBlock never goes back, though handlers enter the pass with a   *)
(* height they read long ago.                                              *)
ProcessedNeverDecreases ==
  [][\A s \in Start : processedBlock[s] <= processedBlock'[s]]_vars

(* A pass ends: the flag that keeps all later blocks out is cleared. *)
BusyEnds == \A s \in Start : isProcessing[s] ~> ~isProcessing[s]

(* A keeper that reports Started looks for opportunities, as startup logs  *)
(* ("This keeper bids in auctions if it finds an opportunity").            *)
StartedMeansOperating == status = "Started" => ~isExiting
=============================================================================
