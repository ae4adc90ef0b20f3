----------------------------- MODULE UpdateFlow -----------------------------
(***************************************************************************)
(* The side panel that creates and updates flows (SidePanels/UpdateFlow),  *)
(* opened from the header or from a flow's menu with presets, and the      *)
(* published state that changes under it.  An outgoing flow offers the     *)
(* Super Tokens of which the agent has a balance, an incoming one all of   *)
(* them; the form keeps the position of the token in the list it was       *)
(* selected from.  An exception in a render or in an effect takes the app  *)
(* down (`crashed`, GlobalErrorHandler).  Rates and balances are in the    *)
(* token's smallest unit.                                                  *)
(***************************************************************************)
EXTENDS TokenSelector, Functions

CONSTANTS
  FirstStores,    \* published states at the start
  Agent, Account, \* the agent and the connected account
  Recipients,     \* what may be typed as a recipient
  Typed,          \* what may be typed as a token's address
  Values, Units,  \* what may be typed as a rate: value per so many seconds
  OldRate,        \* the rate of a flow that is open
  Period,         \* Period[t]: liquidationPeriodSeconds
  Flows,          \* flows that may be open: [token, entity, incoming]
  Funds,          \* balances the agent may have
  MaxOpens, MaxLookups, MaxTxs, MaxNews   \* bounds

VARIABLES
  store,     \* [listed, funds, flows]: tokens, the agent's balances, the open flows
  panel, form, lookups, pending, crashed,
  opens, news,
  origin     \* history: the flow whose menu opened the panel, None if a timer or a lookup ran then

vars == <<store, panel, form, lookups, pending, crashed, opens, news, origin>>

Stores == [listed : SUBSET CatalogueTokens, funds : [CatalogueTokens -> Nat], flows : SUBSET Flows]

Forms ==
  [type : 0..1, recipient : Recipients \cup Addresses \cup {NONE},
   sel : Selections(Addresses \cup Typed \cup {NONE}, -2..Len(Catalogue) - 1), custom : Typed \cup {NONE},
   rate : Nat, description : {"", "typed", "flow's"},
   error : {None, "no address", "to the agent", "deposit"},
   outrun : BOOLEAN, moved : BOOLEAN, retyped : BOOLEAN]

\* Flows are between addresses, and amounts, rates and periods are numbers; a form is something.
ASSUME FlowAssumption ==
  /\ FirstStores \subseteq Stores /\ Agent \in Addresses
  /\ Flows \subseteq [token : Addresses, entity : Addresses, incoming : BOOLEAN]
  /\ Funds \subseteq Nat /\ Values \subseteq Nat /\ Units \subseteq Nat \ {0}
  /\ Period \in [CatalogueTokens -> Nat]
  /\ None \notin Forms /\ None \notin Addresses /\ None \notin Flows
  /\ None \notin {"no address", "to the agent", "deposit"}

allSuperTokens(s) == Listing(s.listed)
getAvailableSuperTokens(s) == Listing({t \in s.listed : s.funds[t] > 0})
superTokens(s, type) == IF type = 1 THEN getAvailableSuperTokens(s) ELSE allSuperTokens(s)

\* Mutation: the type is 2 for an outgoing flow, a position counted from 1.
FreshFromOne(s) ==
  [type |-> IF getAvailableSuperTokens(s) # <<>> THEN 2 ELSE 1, recipient |-> NONE,
   sel |-> INITIAL_SELECTED_TOKEN, custom |-> NONE, rate |-> 0, description |-> "",
   error |-> None, outrun |-> FALSE, moved |-> FALSE, retyped |-> FALSE]

\* `outrun`, `moved` and `retyped` are history: a lookup for another selection was in flight when the
\* token was selected, the list has changed since, and the recipient was typed after the presets.
FreshForm(s) ==
  [type |-> IF getAvailableSuperTokens(s) # <<>> THEN 1 ELSE 0, recipient |-> NONE,
   sel |-> INITIAL_SELECTED_TOKEN, custom |-> NONE, rate |-> 0, description |-> "",
   error |-> None, outrun |-> FALSE, moved |-> FALSE, retyped |-> FALSE]

isFlowUpdateOperation(p) == p.presets.token # None /\ p.presets.recipient # None

Pick(f, sel, running) ==
  [f EXCEPT !.sel = sel, !.moved = FALSE, !.outrun = \E req \in running : req.sel # sel]

\* The open flow the form would change: None if that cannot be told, {} if there is none.
existingFlow(s, f, p) ==
  IF isFlowUpdateOperation(p) \/ f.recipient \notin Addresses \/ f.sel.address \notin Addresses
  THEN None
  ELSE {x \in s.flows : /\ x.incoming = (f.type = 0)
                        /\ x.entity = IF f.type = 1 THEN f.recipient ELSE Account
                        /\ x.token = f.sel.address}

\* The lookup of requiredDeposit in a render: the selected position is not in the list.
RenderFails(s, f) == f.sel.index >= Len(superTokens(s, f.type))

\* The preset effect looks the token up in the list of the type shown, renders that position with
\* the preset type, and looks it up again in the list of that type.
PresetFails(s, f, p) ==
  LET shown == superTokens(s, f.type)
      preset == superTokens(s, p.presets.flowType)
  IN  /\ isFlowUpdateOperation(p)
      /\ \/ p.presets.token \notin Range(shown) \cap Range(preset)
         \/ Find(shown, p.presets.token, FALSE).index >= Len(preset)

\* The lookup of the selection that the second run of the effect replaces.
FirstLookups(s, f, p) ==
  IF ~isFlowUpdateOperation(p) THEN {}
  ELSE Lookups(Find(superTokens(s, f.type), p.presets.token, p.presets.flowType = 0), f.custom)

PresetEffect(s, f, p) ==
  IF ~isFlowUpdateOperation(p) THEN f
  ELSE Pick([f EXCEPT !.type = p.presets.flowType, !.recipient = p.presets.recipient,
                      !.description = "flow's", !.retyped = FALSE],
            Find(superTokens(s, p.presets.flowType), p.presets.token, p.presets.flowType = 0),
            lookups \cup FirstLookups(s, f, p))

\* Mutation: the description is filled in for an existing flow and never emptied again.
DescriptionStays(s, f, p, before, published) ==
  IF ~isFlowUpdateOperation(p) /\ existingFlow(s, f, p) \notin {None, {}}
  THEN [f EXCEPT !.description = "flow's"] ELSE f

\* The effect on existingFlow, which is a new object whenever the state is published.
DescriptionEffect(s, f, p, before, published) ==
  LET existing == existingFlow(s, f, p)
      none == existing \in {None, {}}
  IN  IF \/ isFlowUpdateOperation(p)
         \/ before = <<isFlowUpdateOperation(p), existing>> /\ (none \/ ~published)
      THEN f
      ELSE [f EXCEPT !.description = IF none THEN "" ELSE "flow's"]

\* Form f is rendered with the state s and the panel p, and the effects run (`presets` if
\* those of the preset effect have changed); or one of the two fails.
Shows(s, f, p, presets, published) ==
  LET before == <<isFlowUpdateOperation(panel),
                  IF form = None THEN None ELSE existingFlow(store, form, panel)>>
      g == DescriptionEffect(s, IF presets THEN PresetEffect(s, f, p) ELSE f, p, before, published)
  IN  IF RenderFails(s, f) \/ (presets /\ PresetFails(s, f, p))
      THEN crashed' = TRUE /\ form' = None /\ lookups' = {}
      ELSE /\ crashed' = FALSE
           /\ form' = g
           /\ lookups' = IF form # None /\ g.sel = form.sel /\ ~presets THEN lookups
                         ELSE UNION {lookups, IF presets THEN FirstLookups(s, f, p) ELSE {},
                                     Lookups(g.sel, g.custom)}
           /\ Cardinality(lookups') <= MaxLookups

-----------------------------------------------------------------------------
(* The panel.                                                               *)

Opening(presets, flow) ==
  /\ ~crashed /\ ~panel.visible /\ opens < MaxOpens
  /\ opens' = opens + 1
  /\ panel' = requestOpen(panel, presets)
  /\ origin' = IF panel.timers > 0 \/ lookups # {} THEN None ELSE flow
  /\ Shows(store, IF form = None THEN FreshForm(store) ELSE form, panel', TRUE, FALSE)
  /\ UNCHANGED <<store, pending, news>>

OpenCreate == Opening(NoPresets, None)

\* Flows: the menu of an open flow, if it is the agent's or the connected account's.
OpenUpdate(x) ==
  /\ x \in store.flows /\ (x.incoming => x.entity = Account)
  /\ Opening([token |-> x.token, recipient |-> IF x.incoming THEN Agent ELSE x.entity,
              flowType |-> IF x.incoming THEN 0 ELSE 1], x)

Close ==
  /\ ~crashed /\ panel.visible
  /\ panel' = requestClose(panel)
  /\ UNCHANGED <<store, form, lookups, pending, crashed, opens, news, origin>>

TransitionEnd ==
  /\ ~crashed
  /\ panel.visible # panel.didOpen \/ (~panel.visible /\ form # None)
  /\ panel' = onTransitionEnd(panel)
  /\ IF panel.visible THEN UNCHANGED <<form, lookups>> ELSE form' = None /\ lookups' = {}
  /\ UNCHANGED <<store, pending, crashed, opens, news, origin>>

Timer ==
  /\ ~crashed /\ panel.timers > 0
  /\ panel' = timerFires(panel)
  /\ IF form = None THEN UNCHANGED <<form, lookups, crashed>> ELSE Shows(store, form, panel', TRUE, FALSE)
  /\ UNCHANGED <<store, pending, opens, news, origin>>

-----------------------------------------------------------------------------
(* The form.                                                                *)

Usable == panel.visible /\ ~crashed

Edit(f) ==
  /\ Shows(store, f, panel, FALSE, FALSE)
  /\ UNCHANGED <<store, panel, pending, opens, news, origin>>

\* Mutation: the selection survives a change of the flow's type.
TypeChangeKeeps(f, type) ==
  [f EXCEPT !.type = type, !.recipient = IF type = 0 THEN Agent ELSE NONE, !.error = None]

handleFlowTypeChange(f, type) ==
  Pick([f EXCEPT !.type = type, !.recipient = IF type = 0 THEN Agent ELSE NONE, !.error = None],
       INITIAL_SELECTED_TOKEN, lookups)

SelectType(type) ==
  /\ Usable /\ ~isFlowUpdateOperation(panel) /\ getAvailableSuperTokens(store) # <<>>
  /\ type # form.type
  /\ Edit(handleFlowTypeChange(form, type))

\* In an update the mouse does not reach the field, but the keyboard does.
handleRecipientChange(r) ==
  /\ Usable /\ form.type = 1
  /\ Edit([form EXCEPT !.recipient = r, !.error = None, !.retyped = isFlowUpdateOperation(panel)])

\* Mutation: the selector is not disabled in an update.
SelectorAlways(p) == TRUE

SelectorEnabled(p) == ~isFlowUpdateOperation(p)

SelectToken(i) ==
  /\ Usable /\ SelectorEnabled(panel) /\ (i = -1 => form.type = 0)
  /\ i < Len(superTokens(store, form.type))
  /\ Edit(Pick([form EXCEPT !.custom = NONE, !.error = None],
               handleDropDownChange(superTokens(store, form.type), i, form.type = 0), lookups))

TypeAddress(a) ==
  /\ Usable /\ form.type = 0 /\ form.sel.index = -1 /\ a # form.custom
  /\ Edit(Pick([form EXCEPT !.custom = a, !.error = None], handleCustomTokenAddressChange(a), lookups))

\* FlowRateField: the value or its unit has changed.
FlowRates == {v \div u : v \in Values, u \in Units}

handleFlowRateChange(r) ==
  /\ Usable
  /\ Edit([form EXCEPT !.rate = r, !.error = None])

handleDescriptionChange ==
  /\ Usable
  /\ Edit([form EXCEPT !.description = "typed", !.error = None])

Answer(req) ==
  /\ ~crashed
  /\ \E sel \in fetchTokenData(req, req.address) :
       LET g == [form EXCEPT !.sel = sel, !.error = None]
           before == <<isFlowUpdateOperation(panel), existingFlow(store, form, panel)>>
       IN  /\ crashed' = RenderFails(store, g)
           /\ form' = IF crashed' THEN None ELSE DescriptionEffect(store, g, panel, before, FALSE)
           /\ lookups' = IF crashed' THEN {} ELSE lookups \ {req}
  /\ UNCHANGED <<store, panel, pending, opens, news, origin>>

calculateRequiredDeposit(f) == f.rate * Period[superTokens(store, f.type)[f.sel.index + 1]]

\* Mutation: the deposit of an outgoing flow is not compared with the agent's balance.
ValidateIncoming(f) ==
  CASE f.recipient \notin Addresses -> "no address"
    [] f.type = 1 /\ f.recipient = Agent -> "to the agent"
    [] f.type = 0 /\ f.sel.index >= 0 /\ f.sel.balance < calculateRequiredDeposit(f) -> "deposit"
    [] OTHER -> None

\* The rate is not zero (disableSubmit).  Of a custom token no deposit is computed.
validateFields(f) ==
  CASE f.recipient \notin Addresses -> "no address"
    [] f.type = 1 /\ f.recipient = Agent -> "to the agent"
    [] /\ f.sel.index >= 0
       /\ (IF f.type = 1 THEN store.funds[superTokens(store, 1)[f.sel.index + 1]] ELSE f.sel.balance)
            < calculateRequiredDeposit(f) -> "deposit"
    [] OTHER -> None

disableSubmit ==
  \/ form.error # None \/ form.rate = 0 \/ panel.waitTx
  \/ form.recipient = NONE /\ panel.presets.recipient = None
  \/ form.sel.address = NONE /\ panel.presets.token = None

\* Without a selected token, or without the balance it needs, handleSubmit throws and nothing happens.
SubmitThrows(f) ==
  f.recipient \in Addresses /\ (f.sel.index = -2 \/ (f.sel.balance = None /\ (f.type = 0 \/ f.sel.index = -1)))

Creates(f) == ~isFlowUpdateOperation(panel) /\ existingFlow(store, f, panel) \in {None, {}}

calculateNewFlowRate(f) ==
  f.rate + IF existingFlow(store, f, panel) \in {None, {}} THEN 0 ELSE OldRate

\* A transaction creates or updates the flow of the token at f.sel.address with f.recipient,
\* to calculateNewFlowRate(f).
handleSubmit ==
  /\ Usable /\ ~disableSubmit /\ ~SubmitThrows(form) /\ pending < MaxTxs
  /\ LET error == validateFields(form)
     IN  \/ /\ error # None
            /\ form' = [form EXCEPT !.error = error]
            /\ UNCHANGED <<panel, pending>>
         \/ /\ error = None
            /\ panel' = requestTransaction(panel)
            /\ pending' = pending + 1
            /\ UNCHANGED form
  /\ UNCHANGED <<store, lookups, crashed, opens, news, origin>>

\* useUpdateFlow closes the panel whether the transaction is done or fails.
Settle ==
  /\ ~crashed /\ pending > 0
  /\ pending' = pending - 1
  /\ panel' = settled(requestClose(panel), TRUE)
  /\ UNCHANGED <<store, form, lookups, crashed, opens, news, origin>>

-----------------------------------------------------------------------------
(* The script publishes a state.                                            *)

Published(s) ==
  /\ ~crashed /\ news < MaxNews
  /\ news' = news + 1 /\ store' = s
  /\ IF form = None THEN UNCHANGED <<form, lookups, crashed>>
     ELSE LET moved == superTokens(s, form.type) # superTokens(store, form.type)
          IN  Shows(s, [form EXCEPT !.moved = @ \/ moved], panel, TRUE, TRUE)
  /\ UNCHANGED <<panel, pending, opens, origin>>

NewToken(t) == t \notin store.listed /\ Published([store EXCEPT !.listed = @ \cup {t}])

FundsChange(t, b) ==
  t \in store.listed /\ b # store.funds[t] /\ Published([store EXCEPT !.funds[t] = b])

FlowChange(x) ==
  /\ x.token \in store.listed
  /\ Published([store EXCEPT !.flows = (@ \ {x}) \cup ({x} \ @)])

-----------------------------------------------------------------------------
Init ==
  /\ store \in FirstStores
  /\ panel = ClosedPanel /\ form = None /\ lookups = {} /\ pending = 0 /\ crashed = FALSE
  /\ opens = 0 /\ news = 0 /\ origin = None

Next ==
  \/ OpenCreate \/ Close \/ TransitionEnd \/ Timer \/ handleDescriptionChange \/ handleSubmit \/ Settle
  \/ \E x \in Flows : OpenUpdate(x) \/ FlowChange(x)
  \/ \E type \in 0..1 : SelectType(type)
  \/ \E r \in Recipients : handleRecipientChange(r)
  \/ \E i \in -1..Len(Catalogue) - 1 : SelectToken(i)
  \/ \E a \in Typed : TypeAddress(a)
  \/ \E r \in FlowRates : handleFlowRateChange(r)
  \/ \E req \in lookups : Answer(req)
  \/ \E t \in CatalogueTokens : NewToken(t) \/ \E b \in Funds : FundsChange(t, b)

Spec == Init /\ [][Next]_vars

-----------------------------------------------------------------------------
(* Properties.                                                              *)

\* The form and the panel have the shapes the code gives them; a visible panel has its form
\* mounted, and the selected position is one of the list that is shown.
TypeOK ==
  /\ panel.visible /\ ~crashed => form # None
  /\ form # None =>
       form \in Forms /\ form.sel.index < Len(superTokens(store, form.type))

\* No edit of the form takes the app down: only an opening, a published state or the late answer of a
\* lookup can leave the selection at a position that the list does not have.
EditsNeverCrash ==
  [][crashed' /\ ~crashed => opens' # opens \/ news' # news \/ (form.outrun /\ lookups # {})]_vars

\* The form may be sent.
Sendable == Usable /\ ~disableSubmit /\ ~SubmitThrows(form) /\ validateFields(form) = None

\* The agent's balance of the token of an outgoing flow covers the deposit that was shown, although
\* the balance is looked up by position and the token is sent by address: provided the list has not
\* changed since the token was selected, or the panel is an update, which selects it again.
FundsCover ==
  /\ Sendable /\ form.type = 1 /\ form.sel.index >= 0
  /\ ~form.outrun /\ (isFlowUpdateOperation(panel) \/ ~form.moved)
  => form.rate * Period[form.sel.address] <= store.funds[form.sel.address]

\* A panel opened from a flow's menu sends an update of that flow to the rate that was typed, whatever is
\* published meanwhile, unless it was opened within a second of a closing (the timer of that closing then
\* turns it into a creation, and the rate is added to the flow's) or over a lookup of the closed form.
\* The recipient is the flow's as long as it was not typed anew since the presets were set last.
UpdateStaysUpdate ==
  Sendable /\ origin # None =>
    /\ ~Creates(form) /\ calculateNewFlowRate(form) = form.rate
    /\ form.sel.address = origin.token /\ form.type = IF origin.incoming THEN 0 ELSE 1
    /\ form.retyped \/ form.recipient = IF origin.incoming THEN Agent ELSE origin.entity

\* A description that was not typed is the one of the flow that is updated, and empty for a new flow,
\* in whatever order recipient, token and type were chosen and flows opened and closed.
DescriptionFits ==
  Sendable /\ form.description # "typed" => (form.description = "flow's" <=> ~Creates(form))
=============================================================================
