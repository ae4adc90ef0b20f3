----------------------------- MODULE TokenForms -----------------------------
(***************************************************************************)
(* The Transfer and Convert side panels: the forms Deposit, Withdrawal,    *)
(* Upgrade and Downgrade, their token selector, their transactions         *)
(* (app-logic.js), and the list of Super Tokens that changes under them.   *)
(* The two panels share no state: `which` is the one this behaviour is     *)
(* about.  An address is a name; NONE is no text.                          *)
(***************************************************************************)
EXTENDS TokenSelector, Decimals

CONSTANTS
  FirstListed,   \* those it lists at the start
  Underlying,    \* Underlying[t]: the underlying token of Super Token t
  Typed,         \* what may be typed as an address
  Amounts,       \* the numerals that may be typed as an amount
  DefaultDecimals,  \* 18: what a missing number of decimals stands for
  MaxOpens,      \* bound: how often the panel is opened
  MaxLookups,    \* bound: lookups in flight
  MaxTxs,        \* bound: transactions in flight
  MaxNews        \* bound: how often the list or the balances change

VARIABLES
  which,         \* "transfer" or "convert"
  tab,           \* the selected tab, 0 or 1
  panel,
  form,          \* the mounted form, or None
  lookups,       \* the selector's lookups in flight
  pending,       \* how many transactions are in flight
  listed,        \* the Super Tokens in the state
  funded,        \* those of which the agent has a balance
  opens,         \* how often the panel was opened
  news,          \* how often the list or the balances changed
  strayed        \* history: was the panel closed with a transaction in flight?

vars == <<which, tab, panel, form, lookups, pending, listed, funded, opens, news, strayed>>
world == <<which, listed, funded, news>>

Tabs(i) == IF which = "transfer" THEN <<"Deposit", "Withdrawal">>[i + 1]
           ELSE <<"Upgrade", "Downgrade">>[i + 1]
Kind == Tabs(tab)

superTokens == Listing(listed)
availableSuperTokens == Listing(listed \cap funded)

\* What each form offers: the tokens its selector lists and the Super Tokens behind them; whether it
\* loads the user's balance, accepts a custom token and has a Max button; whether the selector is disabled.
Deposit ==
  [tokens |-> superTokens, behind |-> superTokens, loads |-> TRUE, disabled |-> panel.presets.token # None]
Withdrawal ==
  [tokens |-> availableSuperTokens, behind |-> availableSuperTokens, loads |-> FALSE, disabled |-> FALSE]
Upgrade ==
  [tokens |-> [i \in DOMAIN superTokens |-> Underlying[superTokens[i]]], behind |-> superTokens,
   loads |-> TRUE, disabled |-> FALSE]
Downgrade ==
  [tokens |-> superTokens, behind |-> superTokens, loads |-> TRUE, disabled |-> FALSE]

Offer ==
  CASE Kind = "Deposit" -> Deposit [] Kind = "Withdrawal" -> Withdrawal
    [] Kind = "Upgrade" -> Upgrade [] Kind = "Downgrade" -> Downgrade

processCustomSuperToken(address) == IF Kind = "Upgrade" THEN Underlying[address] ELSE address

\* `pick`, `outrun`, `moved` and `max` are history: the token last picked, whether
\* a lookup for another selection was in flight then, whether the list has changed since,
\* and the balance that Max has put into the amount when no lookup was in flight.
FreshForm ==
  [sel |-> INITIAL_SELECTED_TOKEN, custom |-> NONE, amount |-> None, recipient |-> NONE,
   error |-> None, pick |-> None, outrun |-> FALSE, moved |-> FALSE, max |-> None]

\* The amounts that may be in the field: what was typed, and what Max has put there.
MaxAmounts == {fromDecimals(DigitsUpTo(BalanceOf[a])[BalanceOf[a]], DecimalsOf[b]) : a, b \in Addresses}

Forms ==
  [sel : Selections(Addresses \cup Typed \cup {NONE}, -2..Len(Catalogue) - 1), custom : Typed \cup {NONE},
   amount : Amounts \cup MaxAmounts \cup {None}, recipient : Typed \cup {NONE},
   error : {None, "no address", "not positive", "invalid token", "no balance"},
   pick : Addresses \cup Typed \cup {None}, outrun : BOOLEAN, moved : BOOLEAN, max : Nat \cup {None}]

\* Every listed Super Token has an underlying one, and a form is something.
ASSUME FormAssumption ==
  /\ FirstListed \subseteq CatalogueTokens /\ Underlying \in [SuperTokens -> Addresses]
  /\ Amounts \subseteq Numerals
  /\ None \notin Forms /\ None \notin Nat /\ None \notin Numerals

Pick(f, sel, token) ==
  [f EXCEPT !.sel = sel, !.pick = token, !.moved = FALSE, !.max = None,
            !.outrun = \E req \in lookups : req.sel # sel]

\* Deposit's effect on its preset and on the list; its token is in the list.
WithPreset(f, kind, token, tokens) ==
  IF kind = "Deposit" /\ token # None THEN Pick(f, Find(tokens, token, TRUE), token) ELSE f

-----------------------------------------------------------------------------
(* The panel.                                                               *)

Opening(presets) ==
  /\ ~panel.visible /\ opens < MaxOpens
  /\ opens' = opens + 1
  /\ panel' = requestOpen(panel, presets)
  /\ LET f == WithPreset(IF form = None THEN FreshForm ELSE form, Kind, presets.token, superTokens)
     IN  form' = f /\ lookups' = lookups \cup Lookups(f.sel, f.custom)
  /\ UNCHANGED <<world, tab, pending, strayed>>

\* The header's buttons, and a card's "Deposit" for a token of which there is a balance.
Open == Opening(NoPresets)
OpenDeposit(t) ==
  /\ which = "transfer" /\ t \in listed \cap funded
  /\ Opening([NoPresets EXCEPT !.token = t])

Close ==
  /\ panel.visible
  /\ panel' = requestClose(panel)
  /\ strayed' = (strayed \/ pending > 0)
  /\ UNCHANGED <<world, tab, form, lookups, pending, opens>>

\* The content of a closed panel is unmounted; answers to its lookups go nowhere.
TransitionEnd ==
  /\ panel.visible # panel.didOpen \/ (~panel.visible /\ form # None)
  /\ panel' = onTransitionEnd(panel)
  /\ IF panel.visible THEN UNCHANGED <<form, lookups>> ELSE form' = None /\ lookups' = {}
  /\ UNCHANGED <<world, tab, pending, opens, strayed>>

Timer ==
  /\ panel.timers > 0
  /\ panel' = timerFires(panel)
  /\ UNCHANGED <<world, tab, form, lookups, pending, opens, strayed>>

\* Another tab mounts another form; Withdrawal is offered if there is something to withdraw.
SelectTab(i) ==
  /\ panel.visible /\ i # tab
  /\ which = "transfer" /\ i = 1 => availableSuperTokens # <<>>
  /\ tab' = i
  /\ LET f == WithPreset(FreshForm, Tabs(i), panel.presets.token, superTokens)
     IN  form' = f /\ lookups' = Lookups(f.sel, f.custom)
  /\ UNCHANGED <<world, panel, pending, opens, strayed>>

-----------------------------------------------------------------------------
(* The form.                                                                *)

Edit(f) ==
  /\ form' = f
  /\ UNCHANGED <<world, tab, panel, pending, opens, strayed>>

Selected(f) ==
  /\ Edit(f)
  /\ lookups' = lookups \cup Lookups(f.sel, f.custom)
  /\ Cardinality(lookups') <= MaxLookups

SelectToken(i) ==
  /\ panel.visible /\ ~Offer.disabled /\ (i = -1 => Offer.loads)
  /\ i < Len(Offer.tokens)
  /\ Selected(Pick([form EXCEPT !.custom = NONE, !.error = None],
                   handleDropDownChange(Offer.tokens, i, Offer.loads),
                   IF i = -1 THEN None ELSE Offer.behind[i + 1]))

TypeAddress(a) ==
  /\ panel.visible /\ Offer.loads /\ form.sel.index = -1 /\ a # form.custom
  /\ Selected(Pick([form EXCEPT !.custom = a, !.error = None], handleCustomTokenAddressChange(a), a))

handleAmountChange(x) ==
  /\ panel.visible
  /\ Edit([form EXCEPT !.amount = x, !.error = None, !.max = None])
  /\ UNCHANGED lookups

handleRecipientChange(r) ==
  /\ panel.visible /\ Kind = "Withdrawal"
  /\ Edit([form EXCEPT !.recipient = r, !.error = None])
  /\ UNCHANGED lookups

handleMaxAmount ==
  /\ panel.visible /\ Offer.loads
  /\ LET sel == form.sel IN
      /\ sel.decimals \notin {None, 0} /\ sel.balance \notin {None, 0}
      /\ Edit([form EXCEPT !.amount = fromDecimals(DigitsUpTo(sel.balance)[sel.balance], sel.decimals),
                           !.max = IF lookups = {} THEN sel.balance ELSE None])
      /\ UNCHANGED lookups

\* A lookup ends; or its processCustomToken fails, and nothing is heard of it.
Answer(req) ==
  /\ lookups' = lookups \ {req}
  /\ \/ \E sel \in fetchTokenData(req, IF req.isCustomToken /\ req.address \in SuperTokens
                                        THEN processCustomSuperToken(req.address) ELSE req.address) :
          form' = [form EXCEPT !.sel = sel, !.error = None]
     \/ /\ req.isCustomToken /\ req.address \in SuperTokens /\ Kind = "Upgrade"
        /\ form' = form
  /\ UNCHANGED <<world, tab, panel, pending, opens, strayed>>

IsZero(amount) == Value(amount.whole \o amount.dec) = 0

validateWithdrawal(f) ==
  CASE f.recipient \notin Addresses -> "no address"
    [] IsZero(f.amount) -> "not positive"
    [] OTHER -> None

validateFields(f) ==
  CASE f.sel.error = "INVALID_TOKEN" -> "invalid token"
    [] f.sel.error = "NO_TOKEN_BALANCE" -> "no balance"
    [] f.sel.address \notin Addresses -> "no address"
    [] IsZero(f.amount) -> "not positive"
    [] OTHER -> None

ErrorOf(f) == IF Kind = "Withdrawal" THEN validateWithdrawal(f) ELSE validateFields(f)

disableSubmit ==
  \/ form.error # None \/ form.sel.address = NONE \/ form.amount = None
  \/ Kind = "Withdrawal" /\ form.recipient = NONE
  \/ panel.waitTx

\* Mutation: an upgrade is sent to the address that was selected, the underlying token's.
SendsSelected(f) == f.sel.address

\* The Super Token a form's transaction is for: an upgrade finds it at the selected position.
TokenSent(f) ==
  IF Kind = "Upgrade" /\ f.sel.index # -1 THEN superTokens[f.sel.index + 1] ELSE f.sel.address

DecimalsUsed(f) == IF f.sel.decimals = None THEN DefaultDecimals ELSE f.sel.decimals

AmountSent(f) == toDecimals(f.amount, DecimalsUsed(f))

handleSubmit(error) ==
  /\ panel.visible /\ ~disableSubmit /\ pending < MaxTxs
  /\ \/ /\ error # None
        /\ form' = [form EXCEPT !.error = error]
        /\ UNCHANGED <<panel, pending>>
     \/ /\ error = None
        /\ panel' = requestTransaction(panel)
        /\ pending' = pending + 1   \* of AmountSent(form), TokenSent(form)
        /\ UNCHANGED form
  /\ UNCHANGED <<world, tab, lookups, opens, strayed>>

submitDeposit == Kind = "Deposit" /\ handleSubmit(validateFields(form))
submitWithdrawal == Kind = "Withdrawal" /\ handleSubmit(validateWithdrawal(form))
submitUpgrade == Kind = "Upgrade" /\ handleSubmit(validateFields(form))
submitDowngrade == Kind = "Downgrade" /\ handleSubmit(validateFields(form))

\* The wallet's answer: useDeposit, useWithdraw and useConvertTokens close the panel
\* (whichever opening of it that is) when the transaction is done, not when it fails.
Settle(done) ==
  /\ pending > 0
  /\ pending' = pending - 1
  /\ panel' = settled(IF done THEN requestClose(panel) ELSE panel, done)
  /\ strayed' = (strayed \/ (done /\ pending' > 0))
  /\ UNCHANGED <<world, tab, form, lookups, opens>>

-----------------------------------------------------------------------------
(* The state the script publishes: a new list, on which Deposit's effect runs. *)

Published(moved) ==
  /\ news < MaxNews /\ news' = news + 1
  /\ IF form = None THEN UNCHANGED <<form, lookups>>
     ELSE LET f == WithPreset([form EXCEPT !.moved = @ \/ moved], Kind, panel.presets.token, superTokens')
          IN  /\ form' = f
              /\ lookups' = IF f.sel = form.sel THEN lookups ELSE lookups \cup Lookups(f.sel, f.custom)
  /\ UNCHANGED <<which, tab, panel, pending, opens, strayed>>

NewToken(t) ==
  /\ t \in CatalogueTokens \ listed
  /\ listed' = listed \cup {t}
  /\ UNCHANGED funded
  /\ Published(TRUE)

\* (The forms of Convert do not look at the agent's balances.)
FundsChange(t) ==
  /\ which = "transfer" /\ t \in listed
  /\ funded' = (funded \ {t}) \cup ({t} \ funded)
  /\ UNCHANGED listed
  /\ Published(FALSE)

-----------------------------------------------------------------------------
Init ==
  /\ which \in {"transfer", "convert"}
  /\ tab = 0 /\ panel = ClosedPanel /\ form = None /\ lookups = {} /\ pending = 0
  /\ listed = FirstListed /\ funded = FirstListed
  /\ opens = 0 /\ news = 0 /\ strayed = FALSE

Next ==
  \/ Open \/ Close \/ TransitionEnd \/ Timer \/ handleMaxAmount
  \/ submitDeposit \/ submitWithdrawal \/ submitUpgrade \/ submitDowngrade
  \/ \E t \in CatalogueTokens : OpenDeposit(t) \/ NewToken(t) \/ FundsChange(t)
  \/ \E i \in 0..1 : SelectTab(i)
  \/ \E i \in -1..Len(Catalogue) - 1 : SelectToken(i)
  \/ \E a \in Typed : TypeAddress(a) \/ handleRecipientChange(a)
  \/ \E x \in Amounts : handleAmountChange(x)
  \/ \E req \in lookups : Answer(req)
  \/ \E done \in BOOLEAN : Settle(done)

\* The wallet or the node answers: a transaction is done or it fails.
Spec == Init /\ [][Next]_vars /\ WF_vars(\E done \in BOOLEAN : Settle(done))

-----------------------------------------------------------------------------
(* Properties.                                                              *)

\* The panel, its form and its transactions have the shapes the code gives them, and a panel
\* that is visible has its content mounted.
TypeOK ==
  /\ panel \in PanelStates([token : CatalogueTokens \cup {None}, recipient : {None}, flowType : {None}])
  /\ panel.visible => form # None
  /\ form # None => form \in Forms /\ form.sel.index < Len(superTokens)
  /\ tab \in 0..1 /\ listed \subseteq CatalogueTokens

\* The data of a selection belong to its address, whatever the order in which lookups started for
\* earlier selections are answered: a balance or a number of decimals is never another token's.
SelectionConsistent ==
  form # None =>
    LET s == form.sel
        asked == IF s.index = -1 /\ s.address \in SuperTokens THEN processCustomSuperToken(s.address)
                 ELSE s.address
    IN  /\ s.decimals # None => s.decimals = DecimalsOf[asked]
        /\ s.balance # None => s.balance = BalanceOf[asked]

\* The form may be sent, and would send AmountSent(form) of TokenSent(form).
Sendable == panel.visible /\ ~disableSubmit /\ ErrorOf(form) = None

\* The user waited for earlier lookups and, in Upgrade, the list did not change under the selection.
Sure == ~form.outrun /\ (Kind = "Upgrade" => ~form.moved)

\* What is sent is of the token the user picked, or of the card the panel was opened from, provided
\* no lookup for another selection was in flight when it was picked (a late answer replaces the
\* selection) and, for an upgrade, the list has not changed since (a position is sent, not a token).
SentIsPicked == Sendable /\ Sure => TokenSent(form) = form.pick

\* An upgrade is of the Super Token of the underlying token that was selected, as the comment in Upgrade's
\* handleSubmit has it.  (Violated: the position was taken in a list that has changed since.)
UpgradeOfPicked == Sendable /\ Kind = "Upgrade" /\ ~form.outrun => TokenSent(form) = form.pick

\* Once the token's decimals are loaded the integer that is sent is the typed amount in the token's
\* smallest unit, the digits beyond its decimals cut off.  (An amount that was typed in plain digits;
\* the other numbers the field accepts are left out of Numerals.)
AmountExact ==
  Sendable /\ form.sel.decimals # None =>
    LET unit == PowerOfTen(Len(form.amount.dec))
        exact == Value(form.amount.whole \o form.amount.dec) * PowerOfTen(form.sel.decimals)
        sent == Value(AmountSent(form)) * unit
    IN  sent <= exact /\ exact < sent + unit

\* After Max, if the lookups were answered by then, the whole balance is sent, to the last unit:
\* fromDecimals and toDecimals undo each other and no answer changes the decimals in between.
MaxSendsAll == Sendable /\ form.max # None => Value(AmountSent(form)) = form.max

\* Unless a panel was closed over a pending transaction, the wait shown is the transaction in
\* flight: the form cannot be submitted twice, and is not blocked by a transaction that has ended.
WaitIsPending == ~strayed => pending = IF panel.waitTx THEN 1 ELSE 0

\* The wait ends, by success or by failure of whichever transaction.
WaitEnds == panel.waitTx ~> ~panel.waitTx
=============================================================================
