---------------------------- MODULE NativeBalance ----------------------------
(***************************************************************************)
(* The keeper's gas money: src/src/lib/Balances/NativeBalance.ts, an rxjs  *)
(* stream merge(interval, updateTrigger$) | startWith | switchMap(RPC)     *)
(* without an error handler, and the low-balance gate of the block handler *)
(* in src/src/Keeper/index.ts, which reads the stream's last value before  *)
(* it awaits the coin balance and tests it after.                          *)
(***************************************************************************)
EXTENDS Naturals

CONSTANTS Request,             \* slots for getBalance calls under way
          Block,               \* slots for block handlers under way
          MaxChanges,          \* bound: how often the balance crosses the gate
          Null                 \* value$ before the first answer

ASSUME SlotAssumption == Null \notin Request /\ MaxChanges \in Nat

VARIABLES low,                 \* chain: the balance is below 0.005
          changes,             \* history: how often low has changed
          request,             \* the calls of provider.getBalance
          inner,               \* the one switchMap is subscribed to, or Null
          value,               \* value$: what was answered, or null
          gate,                \* the block handlers
          dead                 \* an error nobody handles ended the process

gas == <<low, changes, request, inner, value, gate, dead>>

Answer == [low : BOOLEAN, changes : 0 .. MaxChanges]
Chain == [low |-> low, changes |-> changes]
NoRequest == [pc |-> "idle", answer |-> Null]
NoBlock == [pc |-> "idle", seen |-> Null]

(* startWith asks at once. *)
BalanceInit == /\ low \in BOOLEAN
               /\ changes = 0
               /\ \E r \in Request :
                    /\ inner = r
                    /\ request =
                         [q \in Request |->
                            IF q = r THEN [NoRequest EXCEPT !.pc = "asked"]
                            ELSE NoRequest]
               /\ value = Null
               /\ gate = [b \in Block |-> NoBlock]
               /\ dead = FALSE

BalanceChanges ==
  /\ changes < MaxChanges
  /\ changes' = changes + 1
  /\ low' = ~low
  /\ UNCHANGED <<request, inner, value, gate, dead>>
-----------------------------------------------------------------------------
(* Mutant: only startWith asks. *)
Trigger_Never(r) == FALSE /\ UNCHANGED gas

(* The interval or updateBalance: switchMap turns to a new call, whatever  *)
(* has become of the one before.                                           *)
Trigger(r) ==
  /\ ~dead
  /\ request[r].pc = "idle"
  /\ request' = [request EXCEPT ![r].pc = "asked"]
  /\ inner' = r
  /\ UNCHANGED <<low, changes, value, gate, dead>>

NodeAnswers(r) ==
  /\ ~dead
  /\ request[r].pc = "asked"
  /\ request' = [request EXCEPT ![r] = [pc |-> "answered", answer |-> Chain]]
  /\ UNCHANGED <<low, changes, inner, value, gate, dead>>

(* Mutant: mergeMap, every answer counts. *)
Balance_Merge(r) ==
  /\ ~dead
  /\ request[r].pc = "answered"
  /\ request' = [request EXCEPT ![r] = NoRequest]
  /\ value' = request[r].answer
  /\ inner' = IF inner = r THEN Null ELSE inner
  /\ UNCHANGED <<low, changes, gate, dead>>

(* Mutant: switchMap goes on listening to a call that is over. *)
Balance_Open(r) ==
  /\ ~dead
  /\ request[r].pc = "answered"
  /\ request' = [request EXCEPT ![r] = NoRequest]
  /\ value' = IF inner = r THEN request[r].answer ELSE value
  /\ UNCHANGED <<low, changes, inner, gate, dead>>

(* The call resolves: the answer of a call switchMap has left is dropped.  *)
Balance(r) ==
  /\ ~dead
  /\ request[r].pc = "answered"
  /\ request' = [request EXCEPT ![r] = NoRequest]
  /\ IF inner = r THEN inner' = Null /\ value' = request[r].answer
     ELSE UNCHANGED <<inner, value>>
  /\ UNCHANGED <<low, changes, gate, dead>>

(* The call rejects: the stream ends with an error, which subscribe() has  *)
(* no handler for, unless switchMap has left the call.                     *)
BalanceFails(r) ==
  /\ ~dead
  /\ request[r].pc # "idle"
  /\ request' = [request EXCEPT ![r] = NoRequest]
  /\ inner' = IF inner = r THEN Null ELSE inner
  /\ dead' = (inner = r)
  /\ UNCHANGED <<low, changes, value, gate>>
-----------------------------------------------------------------------------
GateReads(b) ==
  /\ ~dead
  /\ gate[b].pc = "idle"
  /\ gate' = [gate EXCEPT ![b] = [pc |-> "coins", seen |-> value]]
  /\ UNCHANGED <<low, changes, request, inner, value, dead>>

TooLow(seen) == seen # Null /\ seen.low

(* Mutant: a pass goes on until the next balance is known to be enough. *)
CoinsRead_Ignore(b) ==
  /\ ~dead
  /\ gate[b].pc = "coins"
  /\ gate' = [gate EXCEPT ![b] = [pc |-> "pass", seen |-> Null]]
  /\ UNCHANGED <<low, changes, request, inner, value, dead>>

(* The coin balance is there: the gate tests what was read before.         *)
CoinsRead(b) ==
  /\ ~dead
  /\ gate[b].pc = "coins"
  /\ gate' = [gate EXCEPT ![b] = [pc |-> IF TooLow(@.seen) THEN "idle"
                                         ELSE "pass",
                                  seen |-> Null]]
  /\ UNCHANGED <<low, changes, request, inner, value, dead>>

PassEnds(b) ==
  /\ ~dead
  /\ gate[b].pc = "pass"
  /\ gate' = [gate EXCEPT ![b] = NoBlock]
  /\ UNCHANGED <<low, changes, request, inner, value, dead>>

(* The handler's promise rejects, and nobody handles that.                 *)
CoinsFail(b) ==
  /\ ~dead
  /\ gate[b].pc = "coins"
  /\ gate' = [gate EXCEPT ![b] = NoBlock]
  /\ dead' = TRUE
  /\ UNCHANGED <<low, changes, request, inner, value>>

Gate(b) == GateReads(b) \/ CoinsRead(b) \/ PassEnds(b)

BalanceNext == \/ BalanceChanges
               \/ \E r \in Request : \/ Trigger(r) \/ NodeAnswers(r)
                                     \/ Balance(r) \/ BalanceFails(r)
               \/ \E b \in Block : Gate(b) \/ CoinsFail(b)

BalanceSpec == BalanceInit /\ [][BalanceNext]_gas

(* Blocks keep coming; the interval keeps asking; a node that is often     *)
(* enough quicker than the interval.  One that always takes longer than    *)
(* the 5 s is never heard, because the next call cancels the last.         *)
BalanceFairness ==
  /\ \A b \in Block : WF_gas(Gate(b))
  /\ \A r \in Request : WF_gas(NodeAnswers(r)) /\ WF_gas(Balance(r))
  /\ WF_gas(\E r \in Request : Trigger(r))
  /\ SF_gas(\E r \in Request : r = inner /\ NodeAnswers(r))
  /\ SF_gas(\E r \in Request : r = inner /\ Balance(r))

BalanceFairSpec == BalanceSpec /\ BalanceFairness
-----------------------------------------------------------------------------
(* The domains of the variables, and that the call switchMap listens to is *)
(* under way.                                                              *)
BalanceTypeOK == /\ low \in BOOLEAN
                 /\ changes \in 0 .. MaxChanges
                 /\ request \in [Request -> [pc : {"idle", "asked", "answered"},
                                             answer : Answer \cup {Null}]]
                 /\ inner \in Request \cup {Null}
                 /\ value \in Answer \cup {Null}
                 /\ gate \in [Block -> [pc : {"idle", "coins", "pass"},
                                        seen : Answer \cup {Null}]]
                 /\ dead \in BOOLEAN
                 /\ inner # Null => request[inner].pc # "idle"

(* A late answer never replaces a newer one: the value shown only moves    *)
(* forward in the chain's time.                                            *)
NeverOlder ==
  [][value' # value /\ value # Null => value.changes <= value'.changes]_gas

(* Log line "Keeper will stop its operation": when the balance stays low,  *)
(* passes that began on older answers end and no more begin.               *)
LowStopsPasses ==
  <>[]low => <>[](dead \/ \A b \in Block : gate[b].pc # "pass")

(* A keeper that is funded again resumes its passes, unless a failed call  *)
(* has ended it.                                                           *)
FundedResumes ==
  <>[]~low => []<>(dead \/ \E b \in Block : gate[b].pc = "pass")
=============================================================================
