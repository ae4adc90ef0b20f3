---------------------------- MODULE ScriptStart ----------------------------
(***************************************************************************)
(* The start of the background script: retryEvery around the call for the  *)
(* agent and createSettings, of which any call may fail.  The store is     *)
(* started by the last step of an attempt.                                 *)
(***************************************************************************)
EXTENDS Integers, Sequences

CONSTANTS initialRetryTimer, increaseFactor, maxRetries

ASSUME StartAssumption == initialRetryTimer \in Nat /\ increaseFactor \in Nat /\ maxRetries \in Nat

VARIABLES
  step,        \* the call an attempt waits for, or Sleeping, Started, GaveUp
  retryNum,
  waits        \* the times slept so far; the last one is the current retryTimer

startVars == <<step, retryNum, waits>>

\* app.call("agent"), then createSettings, with fetchTokenList at its end.
Calls == <<"agent", "cfa", "host", "governance", "network", "tokenList">>
Sleeping == 0
Started == Len(Calls) + 1
GaveUp == -1

CallAnswers ==
  /\ step \in DOMAIN Calls
  /\ step' = step + 1       \* after the last one, app.store
  /\ UNCHANGED <<retryNum, waits>>

nextRetryTime(timer) == timer * increaseFactor

\* Mutation: attempts are not counted.
FailsUncounted ==
  /\ step \in DOMAIN Calls
  /\ step' = Sleeping
  /\ UNCHANGED <<retryNum, waits>>

CallFails ==
  /\ step \in DOMAIN Calls
  /\ \/ /\ retryNum = maxRetries
        /\ step' = GaveUp
        /\ UNCHANGED <<retryNum, waits>>
     \/ /\ retryNum # maxRetries
        /\ step' = Sleeping
        /\ retryNum' = retryNum + 1
        /\ waits' = Append(waits, nextRetryTime(IF waits = <<>> THEN initialRetryTimer ELSE waits[Len(waits)]))

WakeUp ==
  /\ step = Sleeping
  /\ step' = 1
  /\ UNCHANGED <<retryNum, waits>>

StartInit == step = 1 /\ retryNum = 0 /\ waits = <<>>
StartNext == CallAnswers \/ CallFails \/ WakeUp
=============================================================================
