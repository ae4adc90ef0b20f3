------------------------------- MODULE Views -------------------------------
(***************************************************************************)
(* The parts of the front end that only read the published state, and the  *)
(* start of the script that publishes it.  They share no state of their    *)
(* own, so each behaviour follows one of them (`view`) and leaves the      *)
(* others as they are.                                                     *)
(***************************************************************************)
EXTENDS FlowList, TokenCards, Figures, ScriptStart, Identities

VARIABLE view

vars == <<view, listVars, cardVars, figureVars, startVars, identityVars>>

Init ==
  /\ view \in {"start", "flows", "cards", "figures", "field", "badge"}
  /\ StartInit /\ ListInit /\ CardInit /\ IdentityInit
  /\ FigureInit
  /\ view # "figures" => figure = CHOOSE f \in [balance : Balances, netFlow : NetFlows, price : Prices] : TRUE

\* A step of one view.
InStart(A) == view = "start" /\ A /\ UNCHANGED <<view, listVars, cardVars, figureVars, identityVars>>
InFlows(A) == view = "flows" /\ A /\ UNCHANGED <<view, startVars, cardVars, figureVars, identityVars>>
InCards(A) == view = "cards" /\ A /\ UNCHANGED <<view, startVars, listVars, figureVars, identityVars>>
InFigures(A) == view = "figures" /\ A /\ UNCHANGED <<view, startVars, listVars, cardVars, identityVars>>
InField(A) == view = "field" /\ A /\ UNCHANGED <<view, startVars, listVars, cardVars, figureVars>>
InBadge(A) == view = "badge" /\ A /\ UNCHANGED <<view, startVars, listVars, cardVars, figureVars>>

Next ==
  \/ InStart(StartNext) \/ InFlows(ListNext) \/ InCards(CardNext)
  \/ InFigures(FigureNext) \/ InField(FieldNext) \/ InBadge(BadgeNext)

\* Calls are answered or fail, timers fire and requests end; and a request that is repeated for ever is
\* not for ever refused.
Fairness ==
  /\ WF_vars(InStart(StartNext))
  /\ WF_vars(InCards(Retry))
  /\ WF_vars(InCards(\E r \in sent : Loads(r) \/ AnswersError(r) \/ Fails(r)))
  /\ SF_vars(InCards(\E r \in sent : ~r.cancelled /\ Loads(r)))

Spec == Init /\ [][Next]_vars /\ Fairness

\* Every view keeps the shapes the code gives its state.
TypeOK ==
  /\ ListTypeOK /\ CardTypeOK /\ retryNum \in 0..maxRetries
  /\ clock \in Nat /\ publishedAt \in 0..renderedAt /\ renderedAt \in 0..clock

\* The script that is starting starts or gives up: it does not try for ever.
StartEnds == view = "start" => <>(step \in {Started, GaveUp})
=============================================================================
