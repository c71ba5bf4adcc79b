------------------------ MODULE KeeperLifeCycleProofs ------------------------
(***************************************************************************)
(* Proofs about the block handler: in KeeperLifeCycle, for every number of *)
(* starts, of concurrent handler calls and of shutdowns; and the gas money *)
(* it looks at, in NativeBalance, for any number of calls under way, of    *)
(* block handlers and of changes of the balance.                           *)
(***************************************************************************)
EXTENDS KeeperLifeCycle, NativeBalance, TLAPS

(* No height is known before it is reached, and a call that is about to    *)
(* record a height asked for it after the last one was recorded.           *)
Recorded ==
  /\ \A s \in Start : processedBlock[s] <= block
  /\ \A h \in Handler : handler[h].asked <= block
  /\ \A h \in Handler : At(h, "record") => processedBlock[Of(h)] <= handler[h].asked

(* A call made after shutdown began knows of it when it looks. *)
Turned == \A h \in Handler :
            handler[h].late => isExiting /\ handler[h].pc \in {"idle", "coins"}

StartedOnce == \A s \in Start \ {First} : life[s] = 0

(* Only a closure whose start is done is registered; if there is but one   *)
(* start, what is registered is what shutdown takes off.                   *)
Detached ==
  /\ \A s \in listeners : life[s] # 0
  /\ StartedOnce => listeners \subseteq {lifeCycleHandler}
  /\ StartedOnce /\ status = "Stopped" => listeners = {}

LInv == TypeOK /\ OnePassPerClosure /\ Recorded /\ Turned /\ Detached

-----------------------------------------------------------------------------
LEMMA NoCallType == /\ NoCall \in Call
                    /\ NoCall.pc = "idle" /\ NoCall.asked = 0 /\ NoCall.late = FALSE
  BY FirstAssumption, MaxBlockAssumption DEF NoCall, Call

(* What Put does to the calls. *)
LEMMA PutProperty ==
  ASSUME TypeOK, NEW h \in Handler, NEW c \in Call, Put(h, c)
  PROVE  /\ handler' \in [Handler -> Call]
         /\ handler'[h] = c
         /\ \A g \in Handler : g # h => handler'[g] = handler[g]
  BY DEF TypeOK, Put

(* The fields of a call. *)
LEMMA CallFields ==
  ASSUME TypeOK, NEW h \in Handler
  PROVE  /\ handler[h] \in Call
         /\ Of(h) \in Start
         /\ handler[h].asked \in Nat
         /\ block \in Nat
         /\ \A s \in Start : processedBlock[s] \in Nat
  BY MaxBlockAssumption DEF TypeOK, Of, Call

(* A height between two heights of the chain is one. *)
LEMMA AnswerType ==
  ASSUME TypeOK, NEW h \in Handler, NEW n \in Answers(h)
  PROVE  n \in 0 .. MaxBlock /\ n \in Nat /\ handler[h].asked <= n /\ n <= block
<1>1. handler[h].asked \in 0 .. MaxBlock /\ block \in 1 .. MaxBlock
  BY DEF TypeOK, Call
<1>2. QED
  BY <1>1, MaxBlockAssumption DEF Answers

-----------------------------------------------------------------------------
(* Steps that leave the calls and the closures alone: the chain, startup   *)
(* and shutdown.                                                           *)
LEMMA CallsUntouched ==
  ASSUME LInv, UNCHANGED <<handler, closure>>, TypeOK', block <= block'
  PROVE  OnePassPerClosure' /\ Recorded'
<1>1. OnePassPerClosure'
  BY DEF LInv, OnePassPerClosure, InPass, Of, closure
<1>2. block \in Nat /\ block' \in Nat
  BY MaxBlockAssumption DEF LInv, TypeOK
<1>3. ASSUME NEW s \in Start PROVE (processedBlock[s] <= block)'
  BY <1>2, MaxBlockAssumption DEF LInv, TypeOK, Recorded, closure
<1>4. ASSUME NEW h \in Handler PROVE (handler[h].asked <= block)'
  BY <1>2, CallFields DEF LInv, Recorded
<1>5. \A h \in Handler : (At(h, "record") => processedBlock[Of(h)] <= handler[h].asked)'
  BY DEF LInv, Recorded, At, Of, closure
<1>6. QED
  BY <1>1, <1>3, <1>4, <1>5 DEF Recorded

(* A call moves outside its pass. *)
LEMMA MoveOutside ==
  ASSUME LInv, NEW h \in Handler, NEW c \in Call, Put(h, c), ~InPass(h),
         c.pc \notin {"reload", "record"}, c.asked <= block,
         UNCHANGED <<block, closure>>
  PROVE  OnePassPerClosure' /\ Recorded'
<1> USE DEF LInv
<1>1. /\ handler'[h] = c
      /\ \A g \in Handler : g # h => handler'[g] = handler[g]
  BY PutProperty
<1>2. ~InPass(h)' /\ ~At(h, "record")'
  BY <1>1 DEF InPass, At
<1>3. \A g \in Handler : InPass(g)' => g # h /\ InPass(g) /\ Of(g)' = Of(g)
  BY <1>1, <1>2 DEF InPass, Of
<1>4. \A g \in Handler : InPass(g) => InPass(g)' /\ Of(g)' = Of(g)
  BY <1>1 DEF InPass, Of
<1>5. OnePassPerClosure'
  BY <1>3, <1>4 DEF OnePassPerClosure, closure
<1>6. Recorded'
  BY <1>1, <1>2 DEF Recorded, At, Of, closure
<1>7. QED
  BY <1>5, <1>6

-----------------------------------------------------------------------------
LEMMA TypeInit == Init => TypeOK
<1> SUFFICES ASSUME Init PROVE TypeOK
  OBVIOUS
<1>1. life \in [Start -> Life]
  BY DEF Init, Life, Listening, StartupAwaits
<1>2. handler \in [Handler -> Call]
  BY NoCallType DEF Init
<1>3. 0 \in 0 .. MaxBlock /\ 1 \in 1 .. MaxBlock
  BY MaxBlockAssumption
<1>4. QED
  BY <1>1, <1>2, <1>3, FirstAssumption DEF Init, TypeOK, KeeperStatus

LEMMA InvariantInit == Init => LInv
<1> SUFFICES ASSUME Init PROVE LInv
  OBVIOUS
<1>1. TypeOK
  BY TypeInit
<1>2. \A h \in Handler : handler[h] = NoCall /\ ~InPass(h) /\ ~At(h, "record")
  BY NoCallType DEF Init, InPass, At
<1>3. OnePassPerClosure
  BY <1>2 DEF Init, OnePassPerClosure
<1>4. Recorded
  BY <1>2, NoCallType DEF Init, Recorded
<1>5. Turned /\ Detached
  BY <1>2, NoCallType DEF Init, Turned, Detached
<1>6. QED
  BY <1>1, <1>3, <1>4, <1>5 DEF LInv

-----------------------------------------------------------------------------
LEMMA NewBlockKeeps ==
  ASSUME LInv, NewBlock PROVE LInv'
<1>1. TypeOK'
  BY MaxBlockAssumption DEF LInv, TypeOK, NewBlock, keeper, provider, closure
<1>2. block <= block'
  BY MaxBlockAssumption DEF LInv, TypeOK, NewBlock
<1>3. OnePassPerClosure' /\ Recorded'
  BY <1>1, <1>2, CallsUntouched DEF NewBlock
<1>4. Turned' /\ Detached'
  BY DEF LInv, NewBlock, Turned, Detached, StartedOnce, keeper, provider
<1>5. QED
  BY <1>1, <1>3, <1>4 DEF LInv

LEMMA StartKeeps ==
  ASSUME LInv, NEW s \in Start, StartCalled(s) \/ Startup(s) PROVE LInv'
<1> USE DEF LInv
<1>0. block <= block' /\ UNCHANGED <<handler, closure, block>>
  BY MaxBlockAssumption
     DEF TypeOK, StartCalled, Startup, StartupAdvances, StartupFinishes
<1>1. CASE StartCalled(s)
  <2>1. TypeOK'
    <3>1. life' \in [Start -> Life]
      BY <1>1 DEF TypeOK, StartCalled, Life, Listening, StartupAwaits
    <3>2. QED
      BY <1>1, <3>1 DEF TypeOK, StartCalled, keeper, provider, closure
  <2>2. Turned'
    BY <1>1 DEF Turned, StartCalled, keeper
  <2>3. Detached'
    BY <1>1 DEF TypeOK, Detached, StartedOnce, StartCalled, keeper, provider
  <2>4. QED
    BY <1>0, <2>1, <2>2, <2>3, CallsUntouched
<1>2. CASE StartupAdvances(s)
  <2>1. TypeOK'
    <3>1. life' \in [Start -> Life]
      BY <1>2 DEF TypeOK, StartupAdvances, Life, Listening, StartupAwaits
    <3>2. QED
      BY <1>2, <3>1 DEF TypeOK, StartupAdvances, keeper, provider, closure
  <2>2. Turned'
    BY <1>2 DEF Turned, StartupAdvances, keeper
  <2>3. \A r \in Start : life[r] # 0 <=> life'[r] # 0
    BY <1>2 DEF TypeOK, StartupAdvances, Life, Listening, StartupAwaits
  <2>4. Detached'
    BY <1>2, <2>3 DEF TypeOK, Detached, StartedOnce, StartupAdvances, keeper,
                      provider
  <2>5. QED
    BY <1>0, <2>1, <2>2, <2>4, CallsUntouched
<1>3. CASE StartupFinishes(s)
  <2>1. TypeOK'
    <3>1. life' \in [Start -> Life]
      BY <1>3 DEF TypeOK, StartupFinishes, Life, Listening, StartupAwaits
    <3>2. notified' \in [Start -> 0 .. MaxBlock]
      <4>1. block \in 0 .. MaxBlock /\ block - 1 \in 0 .. MaxBlock
        BY MaxBlockAssumption DEF TypeOK
      <4>2. QED
        BY <1>3, <4>1 DEF TypeOK, StartupFinishes
    <3>3. QED
      BY <1>3, <3>1, <3>2 DEF TypeOK, StartupFinishes, closure, KeeperStatus
  <2>2. Turned'
    BY <1>3 DEF Turned, StartupFinishes
  <2>3. \A r \in Start : life[r] # 0 <=> life'[r] # 0
    BY <1>3 DEF TypeOK, StartupFinishes, Life, Listening, StartupAwaits
  <2>4. life[s] # 0
    BY <1>3 DEF StartupFinishes, StartupAwaits
  <2>5. \A r \in listeners' : life'[r] # 0
    BY <1>3, <2>3, <2>4 DEF TypeOK, Detached, StartupFinishes
  <2>6. StartedOnce' => listeners' \subseteq {lifeCycleHandler'}
    <3> SUFFICES ASSUME StartedOnce' PROVE listeners' \subseteq {s}
      BY <1>3 DEF StartupFinishes
    <3>1. \A r \in Start : life'[r] # 0 => r = First
      BY DEF StartedOnce
    <3>2. s = First
      BY <2>3, <2>4, <3>1
    <3>3. listeners' \subseteq Start
      BY <2>1 DEF TypeOK
    <3>4. QED
      BY <2>5, <3>1, <3>2, <3>3
  <2>7. Detached'
    BY <1>3, <2>5, <2>6 DEF Detached, StartupFinishes
  <2>8. QED
    BY <1>0, <2>1, <2>2, <2>7, CallsUntouched
<1>4. QED
  BY <1>1, <1>2, <1>3 DEF Startup

LEMMA ShutdownKeeps ==
  ASSUME LInv, NEW x \in Stop, ShutdownCalled(x) \/ Shutdown(x) PROVE LInv'
<1> USE DEF LInv
<1>0. block <= block' /\ UNCHANGED <<handler, closure, block, life>>
  BY MaxBlockAssumption
     DEF TypeOK, ShutdownCalled, Shutdown, RightsAnswered, ShutdownFails,
         ShutdownReturns
<1>1. CASE ShutdownCalled(x)
  <2>1. TypeOK'
    BY <1>1 DEF TypeOK, ShutdownCalled, provider, closure, KeeperStatus
  <2>2. Turned'
    BY <1>1 DEF Turned, ShutdownCalled
  <2>3. Detached'
    BY <1>1 DEF Detached, StartedOnce, ShutdownCalled, provider
  <2>4. QED
    BY <1>0, <2>1, <2>2, <2>3, CallsUntouched
<1>2. CASE RightsAnswered(x) \/ ShutdownFails(x)
  <2>1. TypeOK'
    BY <1>2 DEF TypeOK, RightsAnswered, ShutdownFails, keeper, provider, closure
  <2>2. Turned' /\ Detached'
    BY <1>2 DEF Turned, Detached, StartedOnce, RightsAnswered, ShutdownFails,
                keeper, provider
  <2>3. QED
    BY <1>0, <2>1, <2>2, CallsUntouched
<1>3. CASE ShutdownReturns(x)
  <2>1. TypeOK'
    BY <1>3 DEF TypeOK, ShutdownReturns, closure, KeeperStatus
  <2>2. Turned' /\ Detached'
    BY <1>3 DEF Turned, Detached, StartedOnce, ShutdownReturns
  <2>3. QED
    BY <1>0, <2>1, <2>2, CallsUntouched
<1>4. QED
  BY <1>1, <1>2, <1>3 DEF Shutdown

LEMMA DiesKeeps ==
  ASSUME LInv, ProcessDies PROVE LInv'
<1> USE DEF LInv
<1>1. TypeOK'
  <2>1. life' \in [Start -> Life]
    BY DEF ProcessDies, Life, Listening, StartupAwaits
  <2>2. handler' \in [Handler -> Call]
    BY NoCallType DEF ProcessDies
  <2>3. QED
    BY <2>1, <2>2 DEF TypeOK, ProcessDies, keeper
<1>2. \A h \in Handler : /\ handler'[h] = NoCall
                         /\ ~InPass(h)' /\ ~At(h, "record")'
  BY NoCallType DEF ProcessDies, InPass, At
<1>3. OnePassPerClosure'
  BY <1>2 DEF OnePassPerClosure, ProcessDies
<1>4. Recorded'
  <2>1. 0 <= block
    BY MaxBlockAssumption DEF TypeOK
  <2>2. QED
    BY <1>2, <2>1, NoCallType DEF Recorded, ProcessDies
<1>5. Turned' /\ Detached'
  BY <1>2, NoCallType DEF Turned, Detached, ProcessDies
<1>6. QED
  BY <1>1, <1>3, <1>4, <1>5

-----------------------------------------------------------------------------
(* A step of a call leaves Turned and Detached alone, if the keeper and the*)
(* registered handlers stay as they are and the call stays well formed.    *)
LEMMA CallStep ==
  ASSUME LInv, NEW h \in Handler, NEW c \in Call, Put(h, c),
         c.late => isExiting /\ c.pc \in {"idle", "coins"},
         UNCHANGED <<life, keeper, listeners>>
  PROVE  Turned' /\ Detached'
<1>1. /\ handler'[h] = c
      /\ \A g \in Handler : g # h => handler'[g] = handler[g]
  BY PutProperty DEF LInv
<1>2. Turned'
  BY <1>1 DEF LInv, Turned, keeper
<1>3. Detached'
  BY DEF LInv, Detached, StartedOnce, keeper
<1>4. QED
  BY <1>2, <1>3

LEMMA BlockEventKeeps ==
  ASSUME LInv, NEW s \in Start, NEW h \in Handler, BlockEvent(s, h) PROVE LInv'
<1> USE DEF LInv
<1> DEFINE c == [NoCall EXCEPT !.pc = "coins", !.of = s, !.late = isExiting]
<1>1. c \in Call /\ c.pc = "coins" /\ c.asked = 0 /\ (c.late => isExiting)
  <2>1. isExiting \in BOOLEAN /\ 0 \in 0 .. MaxBlock
    BY MaxBlockAssumption DEF TypeOK
  <2>2. QED
    BY <2>1 DEF NoCall, Call
<1>2. Put(h, c)
  BY DEF BlockEvent
<1> HIDE DEF c
<1>3. TypeOK'
  <2>1. notified' \in [Start -> 0 .. MaxBlock]
    <3>1. /\ notified[s] \in 0 .. MaxBlock
          /\ block \in 1 .. MaxBlock
          /\ notified[s] < block
      BY DEF TypeOK, BlockEvent
    <3>2. notified[s] + 1 \in 0 .. MaxBlock
      BY <3>1, MaxBlockAssumption
    <3>3. QED
      BY <3>2 DEF TypeOK, BlockEvent
  <2>2. handler' \in [Handler -> Call]
    BY <1>1, <1>2, PutProperty
  <2>3. QED
    BY <2>1, <2>2 DEF TypeOK, BlockEvent, keeper, closure
<1>4. OnePassPerClosure' /\ Recorded'
  <2>1. c.asked <= block /\ ~InPass(h)
    BY <1>1, MaxBlockAssumption DEF TypeOK, BlockEvent, At, InPass
  <2>2. QED
    BY <1>1, <1>2, <2>1, MoveOutside DEF BlockEvent
<1>5. Turned' /\ Detached'
  BY <1>1, <1>2, CallStep DEF BlockEvent
<1>6. QED
  BY <1>3, <1>4, <1>5

(* The early returns. *)
LEMMA ReturnKeeps ==
  ASSUME LInv, NEW h \in Handler, TurnAway(h) \/ DropBlock(h) PROVE LInv'
<1> USE DEF LInv
<1>1. Put(h, NoCall) /\ ~InPass(h)
  BY DEF TurnAway, DropBlock, Return, InPass, At
<1>2. TypeOK'
  <2>1. handler' \in [Handler -> Call]
    BY <1>1, NoCallType, PutProperty
  <2>2. QED
    BY <2>1 DEF TypeOK, TurnAway, DropBlock, keeper, provider, closure
<1>3. OnePassPerClosure' /\ Recorded'
  <2>1. NoCall.asked <= block
    BY NoCallType, MaxBlockAssumption DEF TypeOK
  <2>2. QED
    BY <1>1, <2>1, NoCallType, MoveOutside DEF TurnAway, DropBlock
<1>4. Turned' /\ Detached'
  BY <1>1, NoCallType, CallStep DEF TurnAway, DropBlock, provider
<1>5. QED
  BY <1>2, <1>3, <1>4

(* A call with another label that asked for the height just now.           *)
LEMMA AskedNow ==
  ASSUME TypeOK, NEW h \in Handler,
         NEW label \in {"idle", "coins", "number", "reload", "record"}
  PROVE  LET c == [handler[h] EXCEPT !.pc = label, !.asked = block]
         IN  /\ c \in Call /\ c.pc = label /\ c.asked = block
             /\ c.of = Of(h) /\ c.late = handler[h].late
<1>1. handler[h] \in Call /\ block \in 0 .. MaxBlock
  BY MaxBlockAssumption DEF TypeOK
<1>2. QED
  BY <1>1 DEF Call, Of

LEMMA CoinsAnsweredKeeps ==
  ASSUME LInv, NEW h \in Handler, CoinsAnswered(h) PROVE LInv'
<1> USE DEF LInv
<1> DEFINE c == [handler[h] EXCEPT !.pc = "number", !.asked = block]
<1>1. /\ c \in Call /\ c.pc = "number" /\ c.asked = block
      /\ c.late = handler[h].late
  BY AskedNow
<1>2. Put(h, c) /\ ~InPass(h) /\ ~handler[h].late
  BY DEF CoinsAnswered, Goto, InPass, At, Turned
<1> HIDE DEF c
<1>3. TypeOK'
  <2>1. handler' \in [Handler -> Call]
    BY <1>1, <1>2, PutProperty
  <2>2. QED
    BY <2>1 DEF TypeOK, CoinsAnswered, keeper, provider, closure
<1>4. OnePassPerClosure' /\ Recorded'
  <2>1. c.asked <= block
    BY <1>1, CallFields
  <2>2. QED
    BY <1>1, <1>2, <2>1, MoveOutside DEF CoinsAnswered
<1>5. Turned' /\ Detached'
  BY <1>1, <1>2, CallStep DEF CoinsAnswered, provider
<1>6. QED
  BY <1>3, <1>4, <1>5

-----------------------------------------------------------------------------
(* The pass: here the flag decides. *)
LEMMA BeginPassKeeps ==
  ASSUME LInv, NEW h \in Handler, BeginPass(h) PROVE LInv'
<1> USE DEF LInv
<1>1. PICK n \in Answers(h), label \in {"reload", "record"} :
        Put(h, [handler[h] EXCEPT !.pc = label, !.asked = block, !.number = n])
  BY DEF BeginPass
<1> DEFINE c == [handler[h] EXCEPT !.pc = label, !.asked = block, !.number = n]
<1>2. /\ c \in Call /\ c.pc = label /\ c.asked = block
      /\ c.of = Of(h) /\ c.late = handler[h].late
  <2>1. /\ n \in 0 .. MaxBlock
        /\ label \in {"idle", "coins", "number", "reload", "record"}
    BY AnswerType
  <2>2. handler[h] \in Call /\ block \in 0 .. MaxBlock
    BY MaxBlockAssumption DEF TypeOK
  <2>3. QED
    BY <2>1, <2>2 DEF Call, Of
<1>3. Put(h, c)
  BY <1>1
<1> HIDE DEF c
<1>4. /\ handler' \in [Handler -> Call]
      /\ handler'[h] = c
      /\ \A g \in Handler : g # h => handler'[g] = handler[g]
  BY <1>2, <1>3, PutProperty
<1>5. TypeOK'
  BY <1>4 DEF TypeOK, BeginPass, keeper, provider
<1>6. /\ InPass(h)' /\ Of(h)' = Of(h)
      /\ \A g \in Handler : g # h => (InPass(g)' <=> InPass(g)) /\ Of(g)' = Of(g)
  BY <1>2, <1>4 DEF InPass, Of
<1>7. \A g \in Handler : InPass(g) => Of(g) # Of(h)
  <2>1. ~isProcessing[Of(h)] /\ Of(h) \in Start
    BY CallFields DEF BeginPass
  <2>2. QED
    BY <2>1 DEF OnePassPerClosure
<1>8. OnePassPerClosure'
  <2>1. \A s \in Start : isProcessing'[s] = IF s = Of(h) THEN TRUE ELSE isProcessing[s]
    BY DEF BeginPass, TypeOK
  <2>2. (\A i, j \in Handler : InPass(i) /\ InPass(j) /\ Of(i) = Of(j) => i = j)'
    BY <1>6, <1>7 DEF OnePassPerClosure
  <2>3. (\A s \in Start : isProcessing[s] <=> \E i \in Handler : InPass(i) /\ Of(i) = s)'
    BY <1>6, <1>7, <2>1 DEF OnePassPerClosure
  <2>4. QED
    BY <2>2, <2>3 DEF OnePassPerClosure
<1>9. Recorded'
  <2>1. block \in Nat
    BY CallFields
  <2>2. (\A g \in Handler : handler[g].asked <= block)'
    BY <1>2, <1>4, <2>1 DEF Recorded, BeginPass
  <2>3. (\A g \in Handler : At(g, "record") => processedBlock[Of(g)] <= handler[g].asked)'
    BY <1>2, <1>4, <1>6, CallFields DEF Recorded, BeginPass, At
  <2>4. QED
    BY <2>2, <2>3 DEF Recorded, BeginPass
<1>10. Turned' /\ Detached'
  <2>1. ~handler[h].late
    BY DEF BeginPass, At, Turned
  <2>2. QED
    BY <1>2, <1>3, <2>1, CallStep DEF BeginPass, provider
<1>11. QED
  BY <1>5, <1>8, <1>9, <1>10

LEMMA ReloadReturnsKeeps ==
  ASSUME LInv, NEW h \in Handler, ReloadReturns(h) PROVE LInv'
<1> USE DEF LInv
<1> DEFINE c == [handler[h] EXCEPT !.pc = "record", !.asked = block]
<1>1. /\ c \in Call /\ c.pc = "record" /\ c.asked = block
      /\ c.of = Of(h) /\ c.late = handler[h].late
  BY AskedNow
<1>2. Put(h, c)
  BY DEF ReloadReturns, Goto
<1> HIDE DEF c
<1>3. /\ handler' \in [Handler -> Call]
      /\ handler'[h] = c
      /\ \A g \in Handler : g # h => handler'[g] = handler[g]
  BY <1>1, <1>2, PutProperty
<1>4. TypeOK'
  BY <1>3 DEF TypeOK, ReloadReturns, keeper, provider, closure
<1>5. \A g \in Handler : (InPass(g)' <=> InPass(g)) /\ Of(g)' = Of(g)
  BY <1>1, <1>3 DEF InPass, Of, ReloadReturns, At
<1>6. OnePassPerClosure'
  BY <1>5 DEF OnePassPerClosure, ReloadReturns, closure
<1>7. Recorded'
  <2>1. block \in Nat
    BY CallFields
  <2>2. (\A g \in Handler : handler[g].asked <= block)'
    BY <1>1, <1>3, <2>1 DEF Recorded, ReloadReturns
  <2>3. (\A g \in Handler : At(g, "record") => processedBlock[Of(g)] <= handler[g].asked)'
    BY <1>1, <1>3, <1>5, CallFields DEF Recorded, ReloadReturns, At, closure
  <2>4. QED
    BY <2>2, <2>3 DEF Recorded, ReloadReturns, closure
<1>8. Turned' /\ Detached'
  <2>1. ~handler[h].late
    BY DEF ReloadReturns, At, Turned
  <2>2. QED
    BY <1>1, <1>2, <2>1, CallStep DEF ReloadReturns, provider
<1>9. QED
  BY <1>4, <1>6, <1>7, <1>8

LEMMA EndPassKeeps ==
  ASSUME LInv, NEW h \in Handler, EndPass(h)
  PROVE  LInv' /\ \A s \in Start : processedBlock[s] <= processedBlock'[s]
<1> USE DEF LInv
<1>1. PICK n \in Answers(h) :
        processedBlock' = [processedBlock EXCEPT ![Of(h)] = n]
  BY DEF EndPass
<1>2. n \in 0 .. MaxBlock /\ n \in Nat /\ handler[h].asked <= n /\ n <= block
  BY AnswerType
<1>3. Put(h, NoCall)
  BY DEF EndPass, Return
<1>4. /\ handler' \in [Handler -> Call]
      /\ handler'[h] = NoCall
      /\ \A g \in Handler : g # h => handler'[g] = handler[g]
  BY <1>3, NoCallType, PutProperty
<1>5. TypeOK'
  BY <1>1, <1>2, <1>4 DEF TypeOK, EndPass, keeper, provider
<1>6. /\ InPass(h) /\ ~InPass(h)'
      /\ \A g \in Handler : g # h => (InPass(g)' <=> InPass(g)) /\ Of(g)' = Of(g)
  BY <1>4, NoCallType DEF InPass, Of, EndPass, At
<1>7. \A g \in Handler : g # h /\ InPass(g) => Of(g) # Of(h)
  BY <1>6 DEF OnePassPerClosure
<1>8. OnePassPerClosure'
  <2>1. \A s \in Start : isProcessing'[s] = IF s = Of(h) THEN FALSE ELSE isProcessing[s]
    BY DEF EndPass, TypeOK
  <2>2. (\A i, j \in Handler : InPass(i) /\ InPass(j) /\ Of(i) = Of(j) => i = j)'
    BY <1>6 DEF OnePassPerClosure
  <2>3. (\A s \in Start : isProcessing[s] <=> \E i \in Handler : InPass(i) /\ Of(i) = s)'
    BY <1>6, <1>7, <2>1 DEF OnePassPerClosure
  <2>4. QED
    BY <2>2, <2>3 DEF OnePassPerClosure
<1>9. \A s \in Start : processedBlock'[s] = IF s = Of(h) THEN n ELSE processedBlock[s]
  BY <1>1 DEF TypeOK
<1>10. Recorded'
  <2>1. (\A s \in Start : processedBlock[s] <= block)'
    BY <1>2, <1>9 DEF Recorded, EndPass
  <2>2. (\A g \in Handler : handler[g].asked <= block)'
    <3>1. 0 <= block
      BY MaxBlockAssumption DEF TypeOK
    <3>2. QED
      BY <1>4, <3>1, NoCallType DEF Recorded, EndPass
  <2>3. (\A g \in Handler : At(g, "record") => processedBlock[Of(g)] <= handler[g].asked)'
    <3> SUFFICES ASSUME NEW g \in Handler, At(g, "record")'
                 PROVE  (processedBlock[Of(g)] <= handler[g].asked)'
      OBVIOUS
    <3>1. g # h
      BY <1>4, NoCallType DEF At
    <3>2. InPass(g) /\ At(g, "record") /\ Of(g)' = Of(g)
      BY <1>4, <1>6, <3>1 DEF At, InPass
    <3>3. processedBlock'[Of(g)] = processedBlock[Of(g)]
      BY <1>7, <1>9, <3>1, <3>2, CallFields
    <3>4. QED
      BY <1>4, <3>1, <3>2, <3>3 DEF Recorded
  <2>4. QED
    BY <2>1, <2>2, <2>3 DEF Recorded
<1>11. Turned' /\ Detached'
  BY <1>3, NoCallType, CallStep DEF EndPass, provider
<1>12. \A s \in Start : processedBlock[s] <= processedBlock'[s]
  <2>1. processedBlock[Of(h)] <= handler[h].asked
    BY DEF Recorded, EndPass
  <2>2. processedBlock[Of(h)] <= n
    BY <1>2, <2>1, CallFields
  <2>3. QED
    BY <1>9, <2>2, CallFields
<1>13. QED
  BY <1>5, <1>8, <1>10, <1>11, <1>12

-----------------------------------------------------------------------------
LEMMA InvariantStep == LInv /\ [Next]_vars => LInv'
<1> SUFFICES ASSUME LInv, [Next]_vars PROVE LInv'
  OBVIOUS
<1>1. CASE UNCHANGED vars
  <2>1. TypeOK'
    BY <1>1 DEF LInv, TypeOK, vars, keeper, provider, closure
  <2>2. OnePassPerClosure' /\ Recorded'
    BY <1>1 DEF LInv, OnePassPerClosure, InPass, Of, Recorded, At, vars, closure
  <2>3. Turned' /\ Detached'
    BY <1>1 DEF LInv, Turned, Detached, StartedOnce, vars, keeper, provider
  <2>4. QED
    BY <2>1, <2>2, <2>3 DEF LInv
<1>2. CASE NewBlock
  BY <1>2, NewBlockKeeps
<1>3. ASSUME NEW s \in Start, StartCalled(s) \/ Startup(s) PROVE LInv'
  BY <1>3, StartKeeps
<1>4. ASSUME NEW s \in Start, NEW h \in Handler, BlockEvent(s, h) PROVE LInv'
  BY <1>4, BlockEventKeeps
<1>5. ASSUME NEW h \in Handler, HandlerStep(h) PROVE LInv'
  BY <1>5, CoinsAnsweredKeeps, ReturnKeeps, BeginPassKeeps, ReloadReturnsKeeps,
     EndPassKeeps DEF HandlerStep
<1>6. ASSUME NEW x \in Stop, ShutdownCalled(x) \/ Shutdown(x) PROVE LInv'
  BY <1>6, ShutdownKeeps
<1>7. CASE ProcessDies
  BY <1>7, DiesKeeps
<1>8. QED
  BY <1>1, <1>2, <1>3, <1>4, <1>5, <1>6, <1>7 DEF Next

LEMMA Inductive == Spec => []LInv
<1>1. Init => LInv
  BY InvariantInit
<1>2. LInv /\ [Next]_vars => LInv'
  BY InvariantStep
<1>3. QED
  BY <1>1, <1>2, PTL DEF Spec

(* The variables of the life cycle keep their domains. *)
THEOREM LifeTypeCorrect == Spec => []TypeOK
<1>1. LInv => TypeOK
  BY DEF LInv
<1>2. QED
  BY <1>1, Inductive, PTL

(* isProcessing, tested long after the block event, keeps the passes of a  *)
(* closure apart, for every number of handler calls under way.             *)
THEOREM OnePassCorrect == Spec => []OnePassPerClosure
<1>1. LInv => OnePassPerClosure
  BY DEF LInv
<1>2. QED
  BY <1>1, Inductive, PTL

(* A block event after shutdown began starts no work, and a stopped keeper *)
(* that was started once listens to no block.                              *)
THEOREM ShutdownCorrect == Spec => []ShutdownEndsWork
<1>1. LInv => ExitingStopsNewBlocks
  BY DEF LInv, Turned, ExitingStopsNewBlocks
<1>2. LInv => StoppedMeansDetached
  BY DEF LInv, Detached, StartedOnce, StoppedMeansDetached
<1>3. LInv => ShutdownEndsWork
  BY <1>1, <1>2 DEF ShutdownEndsWork
<1>4. QED
  BY <1>3, Inductive, PTL

(* The recorded height of a closure never goes back.                       *)
THEOREM ProcessedCorrect == Spec => ProcessedNeverDecreases
<1>1. LInv /\ [Next]_vars
        => [\A s \in Start : processedBlock[s] <= processedBlock'[s]]_vars
  <2> SUFFICES ASSUME LInv, Next
               PROVE  \A s \in Start : processedBlock[s] <= processedBlock'[s]
    OBVIOUS
  <2>1. \A s \in Start : processedBlock[s] <= processedBlock[s]
    BY MaxBlockAssumption DEF LInv, TypeOK
  <2>2. CASE \E h \in Handler : EndPass(h)
    BY <2>2, EndPassKeeps
  <2>3. CASE UNCHANGED processedBlock
    BY <2>1, <2>3
  <2>4. QED
    BY <2>2, <2>3
       DEF Next, NewBlock, StartCalled, Startup, StartupAdvances, StartupFinishes,
           BlockEvent, HandlerStep, CoinsAnswered, TurnAway, BeginPass, DropBlock,
           ReloadReturns, ShutdownCalled, Shutdown, RightsAnswered, ShutdownFails,
           ShutdownReturns, ProcessDies, closure
<1>2. QED
  BY <1>1, Inductive, PTL DEF Spec, ProcessedNeverDecreases

-----------------------------------------------------------------------------
(***************************************************************************)
(* The keeper's gas money.                                                 *)
(***************************************************************************)
(* Nothing known is from the future; what switchMap is about to show is    *)
(* not older than what is shown.                                           *)
Known ==
  /\ \A r \in Request : request[r].pc = "answered" =>
       request[r].answer \in Answer /\ request[r].answer.changes <= changes
  /\ value # Null => value.changes <= changes
  /\ inner # Null /\ value # Null /\ request[inner].pc = "answered"
       => value.changes <= request[inner].answer.changes

NInv == BalanceTypeOK /\ Known

RequestState == [pc : {"idle", "asked", "answered"}, answer : Answer \cup {Null}]
GateState == [pc : {"idle", "coins", "pass"}, seen : Answer \cup {Null}]

LEMMA Slots == Null \notin Request /\ MaxChanges \in Nat
BY SlotAssumption

LEMMA Idles == NoRequest \in RequestState /\ NoRequest.pc = "idle"
               /\ NoBlock \in GateState
BY DEF NoRequest, NoBlock, RequestState, GateState

(* A step that only concerns the handlers. *)
LEMMA GateStep ==
  ASSUME NInv, NEW b \in Block, NEW h \in GateState,
         gate' = [gate EXCEPT ![b] = h], dead' \in BOOLEAN,
         UNCHANGED <<low, changes, request, inner, value>>
  PROVE  NInv'
<1>1. BalanceTypeOK'
  BY DEF NInv, BalanceTypeOK, GateState
<1>2. Known'
  BY DEF NInv, Known
<1>3. QED
  BY <1>1, <1>2 DEF NInv

LEMMA BlockStep ==
  ASSUME NInv, NEW b \in Block, Gate(b) \/ CoinsFail(b)
  PROVE  NInv'
<1>1. gate[b] \in GateState /\ value \in Answer \cup {Null} /\ dead \in BOOLEAN
  BY DEF NInv, BalanceTypeOK, GateState
<1>2. CASE GateReads(b)
  <2>1. [pc |-> "coins", seen |-> value] \in GateState
    BY <1>1 DEF GateState
  <2>2. QED
    BY <1>1, <1>2, <2>1, GateStep DEF GateReads
<1>3. CASE CoinsRead(b)
  <2> DEFINE h == [pc |-> IF TooLow(gate[b].seen) THEN "idle" ELSE "pass",
                   seen |-> Null]
  <2>1. h \in GateState
    BY DEF GateState
  <2>2. gate' = [gate EXCEPT ![b] = h]
    BY <1>3 DEF CoinsRead
  <2> HIDE DEF h
  <2>3. QED
    BY <1>1, <1>3, <2>1, <2>2, GateStep DEF CoinsRead
<1>4. CASE PassEnds(b)
  BY <1>1, <1>4, Idles, GateStep DEF PassEnds
<1>5. CASE CoinsFail(b)
  BY <1>1, <1>5, Idles, GateStep DEF CoinsFail
<1>6. QED
  BY <1>2, <1>3, <1>4, <1>5 DEF Gate

LEMMA ChangeStep == ASSUME NInv, BalanceChanges PROVE NInv'
<1>1. /\ changes \in Nat /\ changes' = changes + 1 /\ changes' \in 0 .. MaxChanges
      /\ UNCHANGED <<request, inner, value, gate, dead>>
  BY Slots DEF NInv, BalanceTypeOK, BalanceChanges
<1>2. \A x \in Answer : x.changes \in Nat
  BY Slots DEF Answer
<1>3. BalanceTypeOK'
  BY <1>1 DEF NInv, BalanceTypeOK, BalanceChanges
<1>4. Known'
  BY <1>1, <1>2 DEF NInv, BalanceTypeOK, Known
<1>5. QED
  BY <1>3, <1>4 DEF NInv

LEMMA RequestStep ==
  ASSUME NInv, NEW r \in Request,
         Trigger(r) \/ NodeAnswers(r) \/ Balance(r) \/ BalanceFails(r)
  PROVE  NInv'
<1>1. /\ request \in [Request -> RequestState] /\ Chain \in Answer
      /\ Chain.changes = changes /\ changes \in Nat
      /\ inner \in Request \cup {Null} /\ value \in Answer \cup {Null}
      /\ inner # Null => request[inner].pc # "idle"
  BY Slots DEF NInv, BalanceTypeOK, RequestState, Chain, Answer
<1>2. CASE Trigger(r)
  <2> DEFINE a == [request[r] EXCEPT !.pc = "asked"]
  <2>1. a \in RequestState /\ a.pc = "asked"
    BY <1>1 DEF RequestState
  <2>2. request' = [request EXCEPT ![r] = a] /\ inner' = r
        /\ UNCHANGED <<low, changes, value, gate, dead>>
    BY <1>2 DEF Trigger
  <2> HIDE DEF a
  <2>3. BalanceTypeOK'
    BY <1>1, <2>1, <2>2 DEF NInv, BalanceTypeOK, RequestState
  <2>4. Known'
    BY <1>1, <2>1, <2>2 DEF NInv, Known
  <2>5. QED
    BY <2>3, <2>4 DEF NInv
<1>3. CASE NodeAnswers(r)
  <2> DEFINE a == [pc |-> "answered", answer |-> Chain]
  <2>1. a \in RequestState /\ a.pc = "answered" /\ a.answer = Chain
    BY <1>1 DEF RequestState
  <2>2. request' = [request EXCEPT ![r] = a]
        /\ UNCHANGED <<low, changes, inner, value, gate, dead>>
    BY <1>3 DEF NodeAnswers
  <2> HIDE DEF a
  <2>3. BalanceTypeOK'
    BY <1>1, <2>1, <2>2, Slots DEF NInv, BalanceTypeOK, RequestState
  <2>4. Known'
    BY <1>1, <2>1, <2>2 DEF NInv, Known
  <2>5. QED
    BY <2>3, <2>4 DEF NInv
<1>4. CASE Balance(r) \/ BalanceFails(r)
  <2>1. /\ request' = [request EXCEPT ![r] = NoRequest]
        /\ inner' = IF inner = r THEN Null ELSE inner
        /\ value' = value \/ (value' = request[r].answer /\ inner' = Null
                               /\ request[r].pc = "answered")
        /\ dead' \in BOOLEAN /\ UNCHANGED <<low, changes, gate>>
    BY <1>1, <1>4 DEF Balance, BalanceFails, NInv, BalanceTypeOK
  <2>2. request' \in [Request -> RequestState]
    BY <1>1, <2>1, Idles
  <2>3. value' \in Answer \cup {Null} /\ (value' # Null => value'.changes <= changes)
    BY <1>1, <2>1 DEF NInv, Known
  <2>4. inner' # Null => /\ inner' = inner /\ inner # r /\ value' = value
                         /\ request'[inner] = request[inner]
    BY <1>1, <2>1, Slots
  <2>5. BalanceTypeOK'
    BY <1>1, <2>1, <2>2, <2>3, <2>4 DEF NInv, BalanceTypeOK, RequestState
  <2>6. \A q \in Request : request'[q].pc = "answered" => request'[q] = request[q]
    BY <1>1, <2>1, Idles
  <2>7. Known'
    BY <1>1, <2>1, <2>3, <2>4, <2>6 DEF NInv, Known
  <2>8. QED
    BY <2>5, <2>7 DEF NInv
<1>5. QED
  BY <1>2, <1>3, <1>4
-----------------------------------------------------------------------------
THEOREM BalanceInitNInv == BalanceInit => NInv
<1> SUFFICES ASSUME BalanceInit PROVE NInv
  OBVIOUS
<1> DEFINE asked == [NoRequest EXCEPT !.pc = "asked"]
<1>1. PICK r \in Request :
        /\ inner = r
        /\ request = [q \in Request |-> IF q = r THEN asked ELSE NoRequest]
  BY DEF BalanceInit
<1>2. asked \in RequestState /\ asked.pc = "asked"
  BY DEF NoRequest, RequestState
<1> HIDE DEF asked
<1>3. /\ request \in [Request -> RequestState]
      /\ \A q \in Request : request[q].pc # "answered"
      /\ request[inner].pc # "idle"
  BY <1>1, <1>2, Idles
<1>4. gate \in [Block -> GateState]
  BY Idles DEF BalanceInit
<1>5. 0 \in 0 .. MaxChanges
  BY Slots
<1>6. BalanceTypeOK
  BY <1>1, <1>3, <1>4, <1>5 DEF BalanceInit, BalanceTypeOK, RequestState, GateState
<1>7. Known
  BY <1>3 DEF BalanceInit, Known
<1>8. QED
  BY <1>6, <1>7 DEF NInv

THEOREM BalanceNextNInv == NInv /\ [BalanceNext]_gas => NInv'
<1> SUFFICES ASSUME NInv, [BalanceNext]_gas PROVE NInv'
  OBVIOUS
<1>1. CASE BalanceChanges
  BY <1>1, ChangeStep
<1>2. ASSUME NEW r \in Request,
             Trigger(r) \/ NodeAnswers(r) \/ Balance(r) \/ BalanceFails(r)
      PROVE  NInv'
  BY <1>2, RequestStep
<1>3. ASSUME NEW b \in Block, Gate(b) \/ CoinsFail(b) PROVE NInv'
  BY <1>3, BlockStep
<1>4. CASE UNCHANGED gas
  BY <1>4 DEF gas, NInv, BalanceTypeOK, Known
<1>5. QED
  BY <1>1, <1>2, <1>3, <1>4 DEF BalanceNext

THEOREM AlwaysNInv == BalanceSpec => []NInv
  BY BalanceInitNInv, BalanceNextNInv, PTL DEF BalanceSpec

(* The variables keep their domains, and the call switchMap listens to is  *)
(* under way.                                                              *)
THEOREM BalanceTypeCorrect == BalanceSpec => []BalanceTypeOK
<1>1. NInv => BalanceTypeOK
  BY DEF NInv
<1>2. QED
  BY <1>1, AlwaysNInv, PTL

(* However many calls are under way and however late their answers, the    *)
(* balance shown never goes back in the chain's time.                      *)
THEOREM NeverOlderCorrect == BalanceSpec => NeverOlder
<1>1. NInv /\ [BalanceNext]_gas
        => [value' # value /\ value # Null => value.changes <= value'.changes]_gas
  <2> SUFFICES ASSUME NInv, [BalanceNext]_gas, value' # value, value # Null
               PROVE  value.changes <= value'.changes
    OBVIOUS
  <2>1. PICK r \in Request : Balance(r)
    BY DEF BalanceNext, BalanceChanges, Trigger, NodeAnswers, BalanceFails, Gate,
           GateReads, CoinsRead, PassEnds, CoinsFail, gas
  <2>2. inner = r /\ value' = request[r].answer /\ request[r].pc = "answered"
    BY <2>1 DEF Balance
  <2>3. QED
    BY <2>2, Slots DEF NInv, Known
<1>2. QED
  BY <1>1, AlwaysNInv, PTL DEF BalanceSpec, NeverOlder
=============================================================================
