-------------------------- MODULE TransactionQueue --------------------------
(***************************************************************************)
(* src/src/lib/TransactionQueue/index.ts: the queue through which every    *)
(* module of the keeper sends its transactions.  It is an rxjs pipeline    *)
(* Subject -> concatMap(defer(task) | retry) with a status and a timer.    *)
(*                                                                         *)
(* One action is one turn of the JavaScript event loop: a synchronous call *)
(* of addTransaction, the settling of the running task's promise, or the   *)
(* expiry of a timer.  rxjs delivers the value of an inner observable and  *)
(* its completion in the same turn, so the end of a task and the start of  *)
(* the next buffered one are one step.                                     *)
(***************************************************************************)
EXTENDS Naturals, Sequences

CONSTANTS Task,                \* the transactions callers add, each once
          RetryCount,          \* constructor argument (the keeper passes 10)
          None                 \* no task is running

ASSUME RetryAssumption == RetryCount \in Nat
ASSUME NoneAssumption == None \notin Task

VARIABLES buffer,              \* concatMap's buffer
          active,              \* the task concatMap is subscribed to, or None
          phase,               \* where the retry of the active task stands
          soFar,               \* failed attempts of the active task
          subscribed,          \* the pipeline's subscription is alive
          status,              \* status$
          idleTimer,           \* this.idleTimer is pending
          orphanTimer,         \* a timer the error handler overwrote is pending
          accepted,            \* history: tasks the pipeline took, in order
          ignored,             \* history: tasks added to the dead pipeline
          completed,           \* history: tasks whose promise resolved, in order
          landed               \* history: the attempts that left a transaction
                               \*   mined, in their order (mined, at the
                               \*   latest, some time after they settled)

pipeline == <<buffer, active, phase, soFar, subscribed>>
timers == <<idleTimer, orphanTimer>>
history == <<accepted, ignored, completed, landed>>
vars == <<pipeline, status, timers, history>>

Status == {"IDLE", "WORKING", "FAILED", "DONE"}

Elements(s) == {s[i] : i \in DOMAIN s}

(* Everything the pipeline still has to finish, the running task first. *)
Outstanding == IF active = None THEN buffer ELSE <<active>> \o buffer

Init == /\ buffer = <<>>
        /\ active = None
        /\ phase = "none"
        /\ soFar = 0
        /\ subscribed = TRUE
        /\ status = "IDLE"
        /\ idleTimer = FALSE
        /\ orphanTimer = FALSE
        /\ accepted = <<>>
        /\ ignored = {}
        /\ completed = <<>>
        /\ landed = <<>>

(* concatMap's projection: WORKING, then the first attempt of the task. *)
Start(t) == /\ active' = t
            /\ phase' = "attempt"
            /\ soFar' = 0
            /\ status' = "WORKING"

(* No task is left to run; st is the status the handler emitted. *)
Rest(st) == /\ active' = None
            /\ phase' = "none"
            /\ soFar' = 0
            /\ status' = st

(* Mutants of Accept: switchMap in place of concatMap, and a stack in      *)
(* place of the buffer.                                                    *)
Accept_SwitchMap(t) == /\ subscribed
                       /\ accepted' = Append(accepted, t)
                       /\ Start(t)
                       /\ UNCHANGED <<buffer, subscribed, ignored>>

Accept_Lifo(t) == /\ subscribed
                  /\ accepted' = Append(accepted, t)
                  /\ IF active = None
                     THEN Start(t) /\ UNCHANGED buffer
                     ELSE /\ buffer' = <<t>> \o buffer
                          /\ UNCHANGED <<active, phase, soFar, status>>
                  /\ UNCHANGED <<subscribed, ignored>>

(* tasksSubject$.next with a live subscription: run at once or buffer. *)
Accept(t) == /\ subscribed
             /\ accepted' = Append(accepted, t)
             /\ IF active = None
                THEN Start(t) /\ UNCHANGED buffer
                ELSE /\ buffer' = Append(buffer, t)
                     /\ UNCHANGED <<active, phase, soFar, status>>
             /\ UNCHANGED <<subscribed, ignored>>

(* After an error the subject has no observer: next() drops the task and   *)
(* the caller is not told.                                                 *)
Ignore(t) == /\ ~subscribed
             /\ ignored' = ignored \cup {t}
             /\ UNCHANGED <<pipeline, status, accepted>>

AddTransaction(t) == /\ t \notin Elements(accepted) \cup ignored
                     /\ Accept(t) \/ Ignore(t)
                     /\ UNCHANGED <<timers, completed, landed>>

(* Mutant: the next buffered task is not started. *)
AttemptSucceeds_NoDrain ==
  /\ phase = "attempt"
  /\ completed' = Append(completed, active)
  /\ landed' = Append(landed, active)
  /\ idleTimer' = TRUE
  /\ Rest("IDLE")
  /\ UNCHANGED <<buffer, subscribed, orphanTimer, accepted, ignored>>

(* The task's promise resolves: the `next` handler emits IDLE and restarts *)
(* the idle timer, then concatMap starts the next buffered task.           *)
AttemptSucceeds == /\ phase = "attempt"
                   /\ completed' = Append(completed, active)
                   /\ landed' = Append(landed, active)
                   /\ idleTimer' = TRUE
                   /\ IF buffer = <<>>
                      THEN Rest("IDLE") /\ UNCHANGED buffer
                      ELSE Start(Head(buffer)) /\ buffer' = Tail(buffer)
                   /\ UNCHANGED <<subscribed, orphanTimer, accepted, ignored>>

(* A rejected attempt may have put its transaction on chain (tx.wait() or  *)
(* a read after it rejected) or not.                                       *)
MayLand == landed' \in {landed, Append(landed, active)}

(* Mutant: one attempt more than the retry count allows. *)
AttemptFails_OneMore ==
  /\ phase = "attempt"
  /\ soFar <= RetryCount
  /\ MayLand
  /\ soFar' = soFar + 1
  /\ phase' = "delay"
  /\ UNCHANGED <<buffer, active, subscribed, status, timers, accepted, ignored,
                 completed>>

AttemptFails == /\ phase = "attempt"
                /\ soFar < RetryCount
                /\ MayLand
                /\ soFar' = soFar + 1
                /\ phase' = "delay"
                /\ UNCHANGED <<buffer, active, subscribed, status, timers,
                               accepted, ignored, completed>>

(* The 500 ms of retry's delay are over: defer calls the task again. *)
RetryDelayElapses == /\ phase = "delay"
                     /\ phase' = "attempt"
                     /\ UNCHANGED <<buffer, active, soFar, subscribed, status,
                                    timers, history>>

(* Mutants: the error handler starts no timer; the pipeline survives the   *)
(* error and goes on with the next task.                                   *)
RetriesExhausted_NoTimer ==
  /\ phase = "attempt"
  /\ soFar = RetryCount
  /\ MayLand
  /\ subscribed' = FALSE
  /\ buffer' = <<>>
  /\ Rest("FAILED")
  /\ UNCHANGED <<timers, accepted, ignored, completed>>

RetriesExhausted_Skip ==
  /\ phase = "attempt"
  /\ soFar = RetryCount
  /\ MayLand
  /\ IF buffer = <<>>
     THEN Rest("FAILED") /\ UNCHANGED buffer
     ELSE Start(Head(buffer)) /\ buffer' = Tail(buffer)
  /\ idleTimer' = TRUE
  /\ UNCHANGED <<subscribed, orphanTimer, accepted, ignored, completed>>

(* The last attempt fails: the error ends the subscription, the buffer is  *)
(* gone, and the idle timer is overwritten without being cleared.          *)
RetriesExhausted == /\ phase = "attempt"
                    /\ soFar = RetryCount
                    /\ MayLand
                    /\ subscribed' = FALSE
                    /\ buffer' = <<>>
                    /\ Rest("FAILED")
                    /\ orphanTimer' = idleTimer
                    /\ idleTimer' = TRUE
                    /\ UNCHANGED <<accepted, ignored, completed>>

IdleTimerFires == /\ idleTimer
                  /\ idleTimer' = FALSE
                  /\ status' = "DONE"
                  /\ UNCHANGED <<pipeline, orphanTimer, history>>

OrphanTimerFires == /\ orphanTimer
                    /\ orphanTimer' = FALSE
                    /\ status' = "DONE"
                    /\ UNCHANGED <<pipeline, idleTimer, history>>

TimerFires == IdleTimerFires \/ OrphanTimerFires

AttemptSettles == AttemptSucceeds \/ AttemptFails \/ RetriesExhausted

Step == AttemptSettles \/ RetryDelayElapses \/ TimerFires

Next == Step \/ \E t \in Task : AddTransaction(t)

Spec == Init /\ [][Next]_vars

(* The event loop runs every expired timer.  That a started attempt is     *)
(* ever settled is the network's promise, not the queue's.                 *)
TimerFairness == /\ WF_vars(RetryDelayElapses)
                 /\ WF_vars(IdleTimerFires)
                 /\ WF_vars(OrphanTimerFires)
NetworkFairness == WF_vars(AttemptSettles)

FairSpec == Spec /\ TimerFairness /\ NetworkFairness
-----------------------------------------------------------------------------
(* The domains of the queue's variables. *)
TypeOK == /\ buffer \in Seq(Task)
          /\ active \in Task \cup {None}
          /\ phase \in {"none", "attempt", "delay"}
          /\ soFar \in 0 .. RetryCount
          /\ subscribed \in BOOLEAN
          /\ status \in Status
          /\ idleTimer \in BOOLEAN
          /\ orphanTimer \in BOOLEAN
          /\ accepted \in Seq(Task)
          /\ ignored \subseteq Task
          /\ completed \in Seq(Task)
          /\ landed \in Seq(Task)

(* While the pipeline lives, the accepted tasks are exactly the completed  *)
(* ones followed by the running and the buffered ones: concatMap neither   *)
(* loses, duplicates nor reorders a task, and is never idle with a backlog.*)
Fifo == /\ subscribed => accepted = completed \o Outstanding
        /\ active = None => buffer = <<>>

(* A transaction reaches the chain only after every transaction accepted   *)
(* before it has been executed, retries included.                          *)
LandsInOrder == \A i, j \in DOMAIN accepted :
                  i < j /\ accepted[j] \in Elements(landed)
                    => i <= Len(completed)

(* A queue that gave up stays closed (the error ends the subscription): no *)
(* task accepted before or added after the failure is ever executed.  It   *)
(* says nothing of the chain: a transaction broadcast before the failure   *)
(* may be mined after it.                                                  *)
ClosedForGood ==
  [][~subscribed => /\ ~subscribed'
                    /\ active' = None
                    /\ UNCHANGED <<accepted, completed>>]_vars

(* If attempts settle, an accepted task is executed or the queue gives up. *)
AcceptedSettles ==
  \A t \in Task : t \in Elements(accepted)
                    ~> (t \in Elements(completed) \/ ~subscribed)

(* The status a graceful shutdown waits for is emitted once the queue has  *)
(* come to rest, after a success as well as after a failure.               *)
RestBecomesDone ==
  (active = None /\ status # "DONE" /\ accepted # <<>>)
    ~> (status = "DONE" \/ active # None)

(* The queue is a serial executor. *)
Executor == INSTANCE SerialExecutor
              WITH finished <- Len(completed), halted <- ~subscribed
ImplementsSerialExecutor == Executor!Spec
=============================================================================
