------------------------ MODULE TransactionQueueProofs ------------------------
(***************************************************************************)
(* Proofs about the transaction queue, for every set of tasks and every    *)
(* retry count.                                                            *)
(***************************************************************************)
EXTENDS TransactionQueue, SequenceTheorems, TLAPS

(* What the pipeline's own variables say of each other. *)
Coherent == /\ phase = "none" <=> active = None
            /\ ~subscribed => active = None

(* Each task is accepted once, and only accepted tasks are on chain. *)
OnceEach == /\ \A i, j \in DOMAIN accepted : accepted[i] = accepted[j] => i = j
            /\ Elements(landed) \subseteq Elements(accepted)

IInv == TypeOK /\ Coherent /\ Fifo /\ OnceEach /\ LandsInOrder

-----------------------------------------------------------------------------
(* Where an element is in a sequence that grew by one. *)
LEMMA AppendElements ==
  ASSUME NEW S, NEW s \in Seq(S), NEW e \in S
  PROVE  /\ Append(s, e) \in Seq(S)
         /\ Len(Append(s, e)) = Len(s) + 1
         /\ \A i \in DOMAIN s : i \in DOMAIN Append(s, e) /\ Append(s, e)[i] = s[i]
         /\ Append(s, e)[Len(s) + 1] = e
         /\ \A i \in DOMAIN Append(s, e) : i \in DOMAIN s \/ i = Len(s) + 1
         /\ Elements(Append(s, e)) = Elements(s) \cup {e}
<1>1. /\ Append(s, e) \in Seq(S)
      /\ Len(Append(s, e)) = Len(s) + 1
      /\ \A i \in DOMAIN s : i \in DOMAIN Append(s, e) /\ Append(s, e)[i] = s[i]
      /\ Append(s, e)[Len(s) + 1] = e
      /\ \A i \in DOMAIN Append(s, e) : i \in DOMAIN s \/ i = Len(s) + 1
      /\ Len(s) + 1 \in DOMAIN Append(s, e)
  OBVIOUS
<1>2. Elements(Append(s, e)) \subseteq Elements(s) \cup {e}
  BY <1>1 DEF Elements
<1>3. Elements(s) \cup {e} \subseteq Elements(Append(s, e))
  BY <1>1 DEF Elements
<1>4. QED
  BY <1>1, <1>2, <1>3

(* The running task is the first accepted one that is not completed. *)
LEMMA ActiveIsNext ==
  ASSUME IInv, active # None
  PROVE  /\ subscribed
         /\ active \in Task
         /\ Len(completed) + 1 \in DOMAIN accepted
         /\ accepted[Len(completed) + 1] = active
         /\ accepted = (completed \o <<active>>) \o buffer
<1>1. subscribed /\ active \in Task
  BY DEF IInv, Coherent, TypeOK
<1>2. accepted = completed \o (<<active>> \o buffer)
  BY <1>1 DEF IInv, Fifo, Outstanding
<1>3. completed \in Seq(Task) /\ buffer \in Seq(Task) /\ <<active>> \in Seq(Task)
  BY <1>1 DEF IInv, TypeOK
<1>4. accepted = (completed \o <<active>>) \o buffer
  BY <1>2, <1>3
<1>5. /\ Len(completed) + 1 \in DOMAIN accepted
      /\ accepted[Len(completed) + 1] = active
  BY <1>3, <1>4
<1>6. QED
  BY <1>1, <1>4, <1>5

-----------------------------------------------------------------------------
THEOREM InitIInv == Init => IInv
<1> SUFFICES ASSUME Init PROVE IInv
  OBVIOUS
<1>1. TypeOK
  <2>1. <<>> \in Seq(Task) /\ 0 \in 0 .. RetryCount
    BY RetryAssumption
  <2>2. QED
    BY <2>1 DEF Init, TypeOK, Status
<1>2. Coherent
  BY DEF Init, Coherent
<1>3. Fifo
  BY DEF Init, Fifo, Outstanding
<1>4. OnceEach /\ LandsInOrder
  BY DEF Init, OnceEach, LandsInOrder, Elements
<1>5. QED
  BY <1>1, <1>2, <1>3, <1>4 DEF IInv

(* Landing the running task keeps the order: it is the next in line. *)
LEMMA LandingActive ==
  ASSUME IInv, active # None, accepted' = accepted,
         landed' = Append(landed, active),
         completed' = completed \/ completed' = Append(completed, active)
  PROVE  OnceEach' /\ LandsInOrder'
<1>1. landed \in Seq(Task) /\ completed \in Seq(Task) /\ accepted \in Seq(Task)
  BY DEF IInv, TypeOK
<1>2. Elements(landed') = Elements(landed) \cup {active}
  BY <1>1, ActiveIsNext, AppendElements
<1>3. active \in Elements(accepted)
  BY ActiveIsNext DEF Elements
<1>4. OnceEach'
  <2>1. Elements(landed') \subseteq Elements(accepted')
    BY <1>2, <1>3 DEF IInv, OnceEach
  <2>2. \A i, j \in DOMAIN accepted' : accepted'[i] = accepted'[j] => i = j
    BY DEF IInv, OnceEach
  <2>3. Elements(landed)' = Elements(landed') /\ Elements(accepted)' = Elements(accepted')
    BY DEF Elements
  <2>4. QED
    BY <2>1, <2>2, <2>3 DEF OnceEach
<1>5. Len(completed) <= Len(completed') /\ Len(completed) \in Nat /\ Len(completed') \in Nat
  BY <1>1, ActiveIsNext, AppendElements
<1>6. LandsInOrder'
  <2> SUFFICES ASSUME NEW i \in DOMAIN accepted, NEW j \in DOMAIN accepted,
                      i < j, accepted[j] \in Elements(landed')
               PROVE  i <= Len(completed')
    BY DEF LandsInOrder, Elements
  <2>1. i \in Nat /\ j \in Nat
    BY <1>1
  <2>2. CASE accepted[j] \in Elements(landed)
    BY <2>1, <2>2, <1>5 DEF IInv, LandsInOrder
  <2>3. CASE accepted[j] = active
    <3>1. j = Len(completed) + 1
      BY <2>3, ActiveIsNext DEF IInv, OnceEach
    <3>2. QED
      BY <3>1, <2>1, <1>5
  <2>4. QED
    BY <1>2, <2>2, <2>3
<1>7. QED
  BY <1>4, <1>6

LEMMA Unlanded ==
  ASSUME IInv, UNCHANGED <<accepted, landed, completed>>
  PROVE  OnceEach' /\ LandsInOrder'
  BY DEF IInv, OnceEach, LandsInOrder, Elements

-----------------------------------------------------------------------------
LEMMA AddTransactionIInv ==
  ASSUME IInv, NEW t \in Task, AddTransaction(t)
  PROVE  IInv'
<1>1. CASE Ignore(t)
  <2>1. UNCHANGED <<pipeline, status, timers, accepted, completed, landed>>
    BY <1>1 DEF Ignore, AddTransaction
  <2>2. TypeOK' /\ Coherent' /\ Fifo'
    BY <2>1, <1>1 DEF IInv, TypeOK, Coherent, Fifo, Outstanding, Ignore,
                     pipeline, timers
  <2>3. QED
    BY <2>1, <2>2, Unlanded DEF IInv
<1>2. CASE Accept(t)
  <2>1. /\ subscribed /\ subscribed'
        /\ accepted' = Append(accepted, t)
        /\ UNCHANGED <<timers, completed, landed, ignored>>
        /\ t \notin Elements(accepted)
    BY <1>2 DEF AddTransaction, Accept
  <2>2. /\ accepted \in Seq(Task) /\ completed \in Seq(Task)
        /\ buffer \in Seq(Task) /\ landed \in Seq(Task)
    BY DEF IInv, TypeOK
  <2>3. TypeOK' /\ Coherent'
    <3>1. accepted' \in Seq(Task) /\ Append(buffer, t) \in Seq(Task)
      BY <2>1, <2>2
    <3>2. CASE active = None
      <4>1. /\ active' = t /\ phase' = "attempt" /\ soFar' = 0
            /\ status' = "WORKING" /\ buffer' = buffer
        BY <3>2, <1>2 DEF Accept, Start
      <4>2. QED
        BY <4>1, <3>1, <2>1, <2>2, NoneAssumption, RetryAssumption
        DEF IInv, TypeOK, Coherent, timers, Status
    <3>3. CASE active # None
      <4>1. /\ buffer' = Append(buffer, t)
            /\ UNCHANGED <<active, phase, soFar, status>>
        BY <3>3, <1>2 DEF Accept
      <4>2. QED
        BY <4>1, <3>1, <2>1, <2>2 DEF IInv, TypeOK, Coherent, timers
    <3>4. QED
      BY <3>2, <3>3
  <2>4. Fifo'
    <3>1. CASE active = None
      <4>1. active' = t /\ buffer' = <<>> /\ t # None
        BY <3>1, <1>2, NoneAssumption DEF Accept, Start, IInv, Fifo
      <4>2. accepted = completed
        BY <3>1, <2>1, <2>2 DEF IInv, Fifo, Outstanding
      <4>3. Append(completed, t) = completed \o (<<t>> \o <<>>)
        BY <2>2
      <4>4. QED
        BY <4>1, <4>2, <4>3, <2>1 DEF Fifo, Outstanding
    <3>2. CASE active # None
      <4>1. active' = active /\ buffer' = Append(buffer, t)
        BY <3>2, <1>2 DEF Accept
      <4>2. accepted = completed \o (<<active>> \o buffer) /\ active \in Task
        BY <3>2, <2>1 DEF IInv, Fifo, Outstanding, TypeOK
      <4>3. Append(completed \o (<<active>> \o buffer), t)
              = completed \o (<<active>> \o Append(buffer, t))
        <5>1. <<active>> \in Seq(Task) /\ <<t>> \in Seq(Task)
          BY <4>2
        <5>2. <<active>> \o buffer \in Seq(Task)
          BY <5>1, <2>2, ConcatProperties
        <5>3. Append(completed \o (<<active>> \o buffer), t)
                = (completed \o (<<active>> \o buffer)) \o <<t>>
          BY <5>1, <5>2, <2>2, ConcatProperties, AppendIsConcat
        <5>4. @ = completed \o ((<<active>> \o buffer) \o <<t>>)
          BY <5>1, <5>2, <2>2, ConcatAssociative
        <5>5. @ = completed \o (<<active>> \o (buffer \o <<t>>))
          BY <5>1, <2>2, ConcatAssociative
        <5>6. QED
          BY <5>3, <5>4, <5>5, <2>2, AppendIsConcat
      <4>4. QED
        BY <4>1, <4>2, <4>3, <2>1, <3>2 DEF Fifo, Outstanding
    <3>3. QED
      BY <3>1, <3>2
  <2>5. /\ Len(accepted') = Len(accepted) + 1
        /\ \A i \in DOMAIN accepted : i \in DOMAIN accepted' /\ accepted'[i] = accepted[i]
        /\ accepted'[Len(accepted) + 1] = t
        /\ \A i \in DOMAIN accepted' : i \in DOMAIN accepted \/ i = Len(accepted) + 1
        /\ Elements(accepted') = Elements(accepted) \cup {t}
    BY <2>1, <2>2, AppendElements
  <2>6. \A i \in DOMAIN accepted : accepted[i] # t
    BY <2>1 DEF Elements
  <2>7. OnceEach'
    <3>1. \A i, j \in DOMAIN accepted' : accepted'[i] = accepted'[j] => i = j
      BY <2>5, <2>6 DEF IInv, OnceEach
    <3>2. Elements(landed') \subseteq Elements(accepted')
      BY <2>5, <2>1 DEF IInv, OnceEach
    <3>3. Elements(landed)' = Elements(landed') /\ Elements(accepted)' = Elements(accepted')
      BY DEF Elements
    <3>4. QED
      BY <3>1, <3>2, <3>3 DEF OnceEach
  <2>8. LandsInOrder'
    <3> SUFFICES ASSUME NEW i \in DOMAIN accepted', NEW j \in DOMAIN accepted',
                        i < j, accepted'[j] \in Elements(landed)
                 PROVE  i <= Len(completed)
      BY <2>1 DEF LandsInOrder, Elements
    <3>1. t \notin Elements(landed)
      BY <2>1 DEF IInv, OnceEach
    <3>2. j \in DOMAIN accepted
      BY <3>1, <2>5
    <3>3. i \in DOMAIN accepted
      BY <3>2, <2>2, <2>5
    <3>4. QED
      BY <3>2, <3>3, <2>5 DEF IInv, LandsInOrder
  <2>9. QED
    BY <2>3, <2>4, <2>7, <2>8 DEF IInv
<1>3. QED
  BY <1>1, <1>2 DEF AddTransaction

LEMMA AttemptSucceedsIInv ==
  ASSUME IInv, AttemptSucceeds
  PROVE  IInv'
<1>1. active # None
  BY DEF IInv, Coherent, AttemptSucceeds
<1>2. /\ accepted' = accepted /\ subscribed' = subscribed
      /\ completed' = Append(completed, active)
      /\ landed' = Append(landed, active)
  BY DEF AttemptSucceeds
<1>3. OnceEach' /\ LandsInOrder'
  BY <1>1, <1>2, LandingActive
<1>4. /\ completed \in Seq(Task) /\ landed \in Seq(Task) /\ buffer \in Seq(Task)
      /\ active \in Task /\ subscribed
  BY <1>1, ActiveIsNext DEF IInv, TypeOK
<1>5. completed' \in Seq(Task) /\ landed' \in Seq(Task)
  BY <1>2, <1>4, AppendElements
<1>6. accepted = Append(completed, active) \o buffer
  <2>1. Append(completed, active) = completed \o <<active>>
    BY <1>4
  <2>2. QED
    BY <2>1, <1>1, ActiveIsNext
<1>7. CASE buffer = <<>>
  <2>1. active' = None /\ buffer' = <<>> /\ phase' = "none" /\ soFar' = 0 /\ status' = "IDLE"
    BY <1>7 DEF AttemptSucceeds, Rest
  <2>2. TypeOK' /\ Coherent'
    BY <2>1, <1>2, <1>5, RetryAssumption
    DEF IInv, TypeOK, Coherent, AttemptSucceeds, Status
  <2>3. Fifo'
    BY <2>1, <1>2, <1>6, <1>7 DEF Fifo, Outstanding
  <2>4. QED
    BY <2>2, <2>3, <1>3 DEF IInv
<1>8. CASE buffer # <<>>
  <2>1. /\ active' = Head(buffer) /\ buffer' = Tail(buffer) /\ phase' = "attempt"
        /\ soFar' = 0 /\ status' = "WORKING"
    BY <1>8 DEF AttemptSucceeds, Start
  <2>2. Head(buffer) \in Task /\ Tail(buffer) \in Seq(Task)
        /\ buffer = <<Head(buffer)>> \o Tail(buffer)
    BY <1>4, <1>8
  <2>3. active' # None
    BY <2>1, <2>2, NoneAssumption
  <2>4. TypeOK' /\ Coherent'
    BY <2>1, <2>2, <2>3, <1>2, <1>4, <1>5, RetryAssumption
    DEF IInv, TypeOK, Coherent, AttemptSucceeds, Status
  <2>5. Fifo'
    BY <2>1, <2>2, <2>3, <1>2, <1>6 DEF Fifo, Outstanding
  <2>6. QED
    BY <2>4, <2>5, <1>3 DEF IInv
<1>9. QED
  BY <1>7, <1>8

LEMMA AttemptFailsIInv ==
  ASSUME IInv, AttemptFails
  PROVE  IInv'
<1>1. active # None
  BY DEF IInv, Coherent, AttemptFails
<1>2. /\ UNCHANGED <<accepted, completed, buffer, active, subscribed, status,
                    timers, ignored>>
      /\ phase' = "delay" /\ soFar' = soFar + 1
  BY DEF AttemptFails
<1>3. OnceEach' /\ LandsInOrder'
  <2>1. CASE landed' = landed
    BY <2>1, <1>2, Unlanded
  <2>2. CASE landed' = Append(landed, active)
    BY <2>2, <1>1, <1>2, LandingActive
  <2>3. QED
    BY <2>1, <2>2 DEF AttemptFails, MayLand
<1>4. landed' \in Seq(Task)
  <2>1. landed \in Seq(Task) /\ active \in Task
    BY <1>1, ActiveIsNext DEF IInv, TypeOK
  <2>2. Append(landed, active) \in Seq(Task)
    BY <2>1, AppendElements
  <2>3. QED
    BY <2>1, <2>2 DEF AttemptFails, MayLand
<1>5. soFar' \in 0 .. RetryCount
  BY RetryAssumption, <1>2 DEF AttemptFails, IInv, TypeOK
<1>6. TypeOK' /\ Coherent' /\ Fifo'
  BY <1>1, <1>2, <1>4, <1>5
  DEF IInv, TypeOK, Coherent, Fifo, Outstanding, timers
<1>7. QED
  BY <1>3, <1>6 DEF IInv

LEMMA RetriesExhaustedIInv ==
  ASSUME IInv, RetriesExhausted
  PROVE  IInv'
<1>1. active # None
  BY DEF IInv, Coherent, RetriesExhausted
<1>2. /\ UNCHANGED <<accepted, completed, ignored>>
      /\ active' = None /\ phase' = "none" /\ soFar' = 0 /\ status' = "FAILED"
      /\ subscribed' = FALSE /\ buffer' = <<>>
      /\ orphanTimer' = idleTimer /\ idleTimer' = TRUE
  BY DEF RetriesExhausted, Rest
<1>3. OnceEach' /\ LandsInOrder'
  <2>1. CASE landed' = landed
    BY <2>1, <1>2, Unlanded
  <2>2. CASE landed' = Append(landed, active)
    BY <2>2, <1>1, <1>2, LandingActive
  <2>3. QED
    BY <2>1, <2>2 DEF RetriesExhausted, MayLand
<1>4. landed' \in Seq(Task)
  <2>1. landed \in Seq(Task) /\ active \in Task
    BY <1>1, ActiveIsNext DEF IInv, TypeOK
  <2>2. Append(landed, active) \in Seq(Task)
    BY <2>1, AppendElements
  <2>3. QED
    BY <2>1, <2>2 DEF RetriesExhausted, MayLand
<1>5. TypeOK' /\ Coherent' /\ Fifo'
  <2>1. <<>> \in Seq(Task) /\ 0 \in 0 .. RetryCount
    BY RetryAssumption
  <2>2. TypeOK'
    BY <1>2, <1>4, <2>1 DEF IInv, TypeOK, Status
  <2>3. Coherent' /\ Fifo'
    BY <1>2 DEF Coherent, Fifo
  <2>4. QED
    BY <2>2, <2>3
<1>6. QED
  BY <1>3, <1>5 DEF IInv

LEMMA WaitingIInv ==
  ASSUME IInv, RetryDelayElapses \/ TimerFires \/ UNCHANGED vars
  PROVE  IInv'
<1>1. CASE RetryDelayElapses
  <2>1. UNCHANGED <<buffer, active, soFar, subscribed, status, timers, history>>
        /\ phase = "delay" /\ phase' = "attempt"
    BY <1>1 DEF RetryDelayElapses
  <2>2. TypeOK' /\ Coherent' /\ Fifo'
    BY <2>1 DEF IInv, TypeOK, Coherent, Fifo, Outstanding, timers, history
  <2>3. QED
    BY <2>1, <2>2, Unlanded DEF IInv, history
<1>2. CASE TimerFires
  <2>1. /\ UNCHANGED <<pipeline, history>> /\ status' = "DONE"
        /\ idleTimer' \in BOOLEAN /\ orphanTimer' \in BOOLEAN
    BY <1>2 DEF TimerFires, IdleTimerFires, OrphanTimerFires, IInv, TypeOK
  <2>2. TypeOK' /\ Coherent' /\ Fifo'
    BY <2>1 DEF IInv, TypeOK, Coherent, Fifo, Outstanding, pipeline, history, Status
  <2>3. QED
    BY <2>1, <2>2, Unlanded DEF IInv, history
<1>3. CASE UNCHANGED vars
  <2>1. TypeOK' /\ Coherent' /\ Fifo'
    BY <1>3 DEF IInv, TypeOK, Coherent, Fifo, Outstanding, vars, pipeline,
                timers, history
  <2>2. QED
    BY <1>3, <2>1, Unlanded DEF IInv, vars, history
<1>4. QED
  BY <1>1, <1>2, <1>3

(* IInv is inductive: no turn of the event loop breaks it. *)
THEOREM NextIInv == IInv /\ [Next]_vars => IInv'
<1> SUFFICES ASSUME IInv, [Next]_vars PROVE IInv'
  OBVIOUS
<1>1. ASSUME NEW t \in Task, AddTransaction(t) PROVE IInv'
  BY <1>1, AddTransactionIInv
<1>2. CASE AttemptSucceeds
  BY <1>2, AttemptSucceedsIInv
<1>3. CASE AttemptFails
  BY <1>3, AttemptFailsIInv
<1>4. CASE RetriesExhausted
  BY <1>4, RetriesExhaustedIInv
<1>5. CASE RetryDelayElapses \/ TimerFires \/ UNCHANGED vars
  BY <1>5, WaitingIInv
<1>6. QED
  BY <1>1, <1>2, <1>3, <1>4, <1>5 DEF Next, Step, AttemptSettles

THEOREM AlwaysIInv == Spec => []IInv
  BY InitIInv, NextIInv, PTL DEF Spec

(* The queue's variables keep their domains (TransactionQueue, whole class).*)
THEOREM TypeCorrect == Spec => []TypeOK
<1>1. IInv => TypeOK
  BY DEF IInv
<1>2. QED
  BY <1>1, AlwaysIInv, PTL

(* concatMap neither loses, duplicates nor reorders transactions while the *)
(* pipeline lives.                                                         *)
THEOREM FifoCorrect == Spec => []Fifo
<1>1. IInv => Fifo
  BY DEF IInv
<1>2. QED
  BY <1>1, AlwaysIInv, PTL

(* A transaction is mined only after all transactions added before it have *)
(* been executed, however often attempts are retried.                      *)
THEOREM LandsInOrderCorrect == Spec => []LandsInOrder
<1>1. IInv => LandsInOrder
  BY DEF IInv
<1>2. QED
  BY <1>1, AlwaysIInv, PTL

(* Once the retries of a transaction are exhausted nothing is accepted and *)
(* no task runs any more (the error handler of the subscription).          *)
THEOREM ClosedForGoodCorrect == Spec => ClosedForGood
<1> DEFINE Closed == /\ ~subscribed'
                     /\ active' = None
                     /\ UNCHANGED <<accepted, completed>>
<1>1. IInv /\ [Next]_vars => [~subscribed => Closed]_vars
  <2> SUFFICES ASSUME IInv, [Next]_vars, ~subscribed
               PROVE  Closed
    OBVIOUS
  <2>1. active = None /\ phase = "none"
    BY DEF IInv, Coherent
  <2>2. ~AttemptSettles /\ ~RetryDelayElapses
    BY <2>1 DEF AttemptSettles, AttemptSucceeds, AttemptFails,
                RetriesExhausted, RetryDelayElapses
  <2>3. ASSUME NEW t \in Task, AddTransaction(t)
        PROVE  Closed
    BY <2>1, <2>3 DEF AddTransaction, Accept, Ignore, pipeline
  <2>4. CASE TimerFires
    BY <2>1, <2>4 DEF TimerFires, IdleTimerFires, OrphanTimerFires, pipeline,
                      history
  <2>5. CASE UNCHANGED vars
    BY <2>1, <2>5 DEF vars, pipeline, history
  <2>6. QED
    BY <2>2, <2>3, <2>4, <2>5 DEF Next, Step
<1>2. QED
  BY <1>1, AlwaysIInv, PTL DEF Spec, ClosedForGood

-----------------------------------------------------------------------------
(* Every step of the queue is a step of the abstract executor, or leaves   *)
(* what the executor shows unchanged.                                      *)
THEOREM StepRefines == IInv /\ [Next]_vars => [Executor!Next]_(Executor!vars)
<1> SUFFICES ASSUME IInv, [Next]_vars PROVE [Executor!Next]_(Executor!vars)
  OBVIOUS
<1>1. ASSUME NEW t \in Task, AddTransaction(t)
      PROVE  [Executor!Next]_(Executor!vars)
  <2>1. CASE Accept(t)
    <3>1. Executor!Submit(t)
      BY <1>1, <2>1 DEF AddTransaction, Accept, Executor!Submit,
                        Executor!Elements, Elements
    <3>2. QED
      BY <3>1 DEF Executor!Next
  <2>2. CASE Ignore(t)
    BY <1>1, <2>2 DEF AddTransaction, Ignore, Executor!vars, pipeline
  <2>3. QED
    BY <1>1, <2>1, <2>2 DEF AddTransaction
<1>2. ASSUME active # None
      PROVE  Executor!Busy /\ Executor!Current = active
  <2>1. /\ subscribed /\ Len(completed) + 1 \in DOMAIN accepted
        /\ accepted[Len(completed) + 1] = active
    BY <1>2, ActiveIsNext
  <2>2. Len(completed) \in Nat /\ accepted \in Seq(Task)
    BY DEF IInv, TypeOK
  <2>3. QED
    BY <2>1, <2>2 DEF Executor!Busy, Executor!Current
<1>3. CASE AttemptSucceeds
  <2>1. active # None
    BY <1>3 DEF AttemptSucceeds, IInv, Coherent
  <2>2. Len(completed') = Len(completed) + 1
    BY <1>3, <2>1, ActiveIsNext, AppendElements
    DEF AttemptSucceeds, IInv, TypeOK
  <2>3. Executor!Finish
    BY <1>2, <1>3, <2>1, <2>2 DEF AttemptSucceeds, Executor!Finish
  <2>4. QED
    BY <2>3 DEF Executor!Next
<1>4. CASE AttemptFails
  <2>1. active # None
    BY <1>4 DEF AttemptFails, IInv, Coherent
  <2>2. CASE landed' = landed
    BY <1>4, <2>2 DEF AttemptFails, Executor!vars
  <2>3. CASE landed' = Append(landed, active)
    <3>1. Executor!Land
      BY <1>2, <1>4, <2>1, <2>3 DEF AttemptFails, Executor!Land
    <3>2. QED
      BY <3>1 DEF Executor!Next
  <2>4. QED
    BY <1>4, <2>2, <2>3 DEF AttemptFails, MayLand
<1>5. CASE RetriesExhausted
  <2>1. active # None
    BY <1>5 DEF RetriesExhausted, IInv, Coherent
  <2>2. Executor!Halt
    BY <1>2, <1>5, <2>1 DEF RetriesExhausted, MayLand, Executor!Halt
  <2>3. QED
    BY <2>2 DEF Executor!Next
<1>6. CASE RetryDelayElapses \/ TimerFires \/ UNCHANGED vars
  BY <1>6 DEF RetryDelayElapses, TimerFires, IdleTimerFires, OrphanTimerFires,
              vars, pipeline, history, Executor!vars
<1>7. QED
  BY <1>1, <1>3, <1>4, <1>5, <1>6 DEF Next, Step, AttemptSettles

(* The rxjs pipeline implements the serial executor its callers rely on.   *)
THEOREM Refinement == Spec => ImplementsSerialExecutor
<1>1. Init => Executor!Init
  BY DEF Init, Executor!Init
<1>2. QED
  BY <1>1, StepRefines, AlwaysIInv, PTL
  DEF Spec, ImplementsSerialExecutor, Executor!Spec
=============================================================================
