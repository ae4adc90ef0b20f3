----------------------------- MODULE SidePanel -----------------------------
(***************************************************************************)
(* The state of a side panel (hooks/usePanelState.js) as the panels of     *)
(* App.js share it: open, close, the transition's end, the timer that      *)
(* wipes the presets a second after a closing, and the wait for a          *)
(* transaction.  `timers` counts the closings whose second is not over:    *)
(* nothing ever cancels one.  The panel's content is mounted when it opens *)
(* and unmounted when the closing transition has ended (external, SidePanel *)
(* of @aragon/ui).                                                         *)
(***************************************************************************)
EXTENDS Integers, Sequences, FiniteSets

CONSTANT None     \* undefined, null, or nothing there

\* {} , or the click event that App.js's buttons pass on: no preset in it.
NoPresets == [token |-> None, recipient |-> None, flowType |-> None]

ClosedPanel ==
  [visible |-> FALSE, presets |-> NoPresets, waitTx |-> FALSE, didOpen |-> FALSE, timers |-> 0]

PanelStates(presets) ==
  [visible : BOOLEAN, presets : presets, waitTx : BOOLEAN, didOpen : BOOLEAN, timers : Nat]

\* Every caller passes something truthy, so the presets are always replaced.
requestOpen(p, params) == [p EXCEPT !.visible = TRUE, !.didOpen = FALSE, !.presets = params]

requestClose(p) ==
  [p EXCEPT !.visible = FALSE, !.waitTx = FALSE, !.timers = @ + 1]

timerFires(p) == [p EXCEPT !.timers = @ - 1, !.presets = NoPresets]

onTransitionEnd(p) == [p EXCEPT !.didOpen = p.visible]

\* Mutation: the button is not disabled while a transaction is pending.
RequestWithoutWait(p) == p

requestTransaction(p) == [p EXCEPT !.waitTx = TRUE]

\* Mutation: only a transaction that succeeds ends the wait (no catch).
SettledIfDone(p, done) == [p EXCEPT !.waitTx = @ /\ ~done]

\* The promise resolves (done) or is rejected.
settled(p, done) == [p EXCEPT !.waitTx = FALSE]
=============================================================================
