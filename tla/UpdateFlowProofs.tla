-------------------------- MODULE UpdateFlowProofs --------------------------
(***************************************************************************)
(* For any tokens, flows and published states, and any order of edits,     *)
(* lookups, timers and transactions: the balance that is compared is the   *)
(* one of the token that is sent, a panel opened from a flow's menu stays  *)
(* an update of it, the description is the flow's, and no edit takes the   *)
(* app down.                                                               *)
(***************************************************************************)
EXTENDS UpdateFlow, DataProofs

PresetsOf(x) ==
  [token |-> x.token, recipient |-> IF x.incoming THEN Agent ELSE x.entity,
   flowType |-> IF x.incoming THEN 0 ELSE 1]
Presets == {NoPresets} \cup {PresetsOf(x) : x \in Flows}

Sels == Selections(Addresses \cup Typed \cup {NONE}, -2..Len(Catalogue) - 1)
Requests == [sel : Sels, address : Addresses, isCustomToken : BOOLEAN]

\* A lookup in flight was started for the selection it carries.
ReqOK(r) == r \in Requests /\ r.address = r.sel.address /\ (r.isCustomToken <=> r.sel.index = -1)

\* A selection that is still loading is the one in the field of the form.
FormOK(f) ==
  /\ f \in Forms
  /\ f.sel.loading /\ f.sel.index = -1 => f.custom = f.sel.address

\* Unless it was outrun, a selection is followed only by lookups for itself; and its position is its
\* token's while the list stays.
PlaceOK(f, requests, s) ==
  ~f.outrun =>
    /\ \A r \in requests : r.sel.index = f.sel.index /\ r.sel.address = f.sel.address
    /\ f.sel.index >= 0 /\ ~f.moved => superTokens(s, f.type)[f.sel.index + 1] = f.sel.address

\* An update selects its token again whenever the list has changed.
StillOK(f, p) == isFlowUpdateOperation(p) => ~f.moved

\* A description that was not typed says whether a flow is updated.
Updates(s, f, p) == isFlowUpdateOperation(p) \/ existingFlow(s, f, p) \notin {None, {}}
DescriptionOK(f, s, p) == f.description # "typed" => (f.description = "flow's" <=> Updates(s, f, p))

\* A panel opened from the menu of flow x, with nothing left over from before.
UpdateOf(x, f, requests, p) ==
  /\ p.timers = 0 /\ p.presets = PresetsOf(x)
  /\ f.type = (IF x.incoming THEN 0 ELSE 1)
  /\ f.retyped \/ f.recipient = (IF x.incoming THEN Agent ELSE x.entity)
  /\ f.sel.address = x.token /\ f.sel.index >= 0
  /\ \A r \in requests : r.sel.address = x.token /\ r.sel.index >= 0

World ==
  /\ store \in Stores /\ panel \in PanelStates(Presets) /\ crashed \in BOOLEAN
  /\ opens \in Nat /\ news \in Nat
  /\ origin \in Flows \cup {None}

\* What holds of a form f that is rendered with state s and panel p, over these lookups.
FormFits(f, requests, s, p) ==
  /\ FormOK(f) /\ f.sel.index < Len(superTokens(s, f.type))
  /\ PlaceOK(f, requests, s) /\ StillOK(f, p)
  /\ DescriptionOK(f, s, p)

Mounted ==
  /\ panel.visible /\ ~crashed => form # None
  /\ form = None => lookups = {}
  /\ \A r \in lookups : ReqOK(r)
  /\ form # None =>
       /\ FormFits(form, lookups, store, panel)
       /\ panel.visible /\ origin # None => UpdateOf(origin, form, lookups, panel)

\* The inductive invariant.
Inv == World /\ Mounted
-----------------------------------------------------------------------------
(* The lists.                                                               *)

LEMMA ListingIs ==
  ASSUME NEW S \in SUBSET CatalogueTokens
  PROVE  /\ Len(Listing(S)) \in Nat /\ Len(Listing(S)) <= Len(Catalogue) /\ Len(Catalogue) \in Nat
         /\ DOMAIN Listing(S) = 1..Len(Listing(S))
         /\ \A k \in 1..Len(Listing(S)) : Listing(S)[k] \in CatalogueTokens /\ Listing(S)[k] \in Addresses
<1>1. Catalogue \in Seq(SuperTokens)
  BY TokenAssumption
<1>2. /\ Len(Listing(S)) \in Nat /\ Len(Listing(S)) <= Len(Catalogue)
      /\ DOMAIN Listing(S) = 1..Len(Listing(S))
      /\ \A k \in 1..Len(Listing(S)) : Listing(S)[k] \in S
  BY <1>1, KeptOf DEF Listing
<1>3. CatalogueTokens \subseteq Addresses /\ Len(Catalogue) \in Nat
  BY TokenAssumption DEF CatalogueTokens
<1> QED BY <1>2, <1>3

\* The list of either type of flow.
LEMMA ListsAre ==
  ASSUME NEW s \in Stores, NEW type
  PROVE  /\ Len(superTokens(s, type)) \in Nat /\ Len(superTokens(s, type)) <= Len(Catalogue) /\ Len(Catalogue) \in Nat
         /\ DOMAIN superTokens(s, type) = 1..Len(superTokens(s, type))
         /\ \A k \in 1..Len(superTokens(s, type)) :
              superTokens(s, type)[k] \in CatalogueTokens /\ superTokens(s, type)[k] \in Addresses
<1> DEFINE S == IF type = 1 THEN {t \in s.listed : s.funds[t] > 0} ELSE s.listed
<1>1. S \in SUBSET CatalogueTokens
  BY DEF Stores
<1>2. superTokens(s, type) = Listing(S)
  BY DEF superTokens, getAvailableSuperTokens, allSuperTokens
<1> HIDE DEF S
<1> QED BY <1>1, <1>2, ListingIs

-----------------------------------------------------------------------------
(* Selections.                                                              *)

LEMMA InitialIs ==
  LET s == INITIAL_SELECTED_TOKEN
  IN  s \in Sels /\ s.index = -2 /\ s.address = NONE /\ ~s.loading
<1>1. -2 \in -2..Len(Catalogue) - 1
  BY TokenAssumption
<1> QED BY <1>1 DEF INITIAL_SELECTED_TOKEN, Sels, Selections

\* A token picked from the list.
LEMMA ListedIs ==
  ASSUME NEW s \in Stores, NEW type, NEW i \in Nat, i < Len(superTokens(s, type)), NEW load \in BOOLEAN
  PROVE  LET sel == Listed(superTokens(s, type), i, load)
         IN  sel \in Sels /\ sel.index = i /\ sel.address = superTokens(s, type)[i + 1]
<1> DEFINE list == superTokens(s, type)
           n == Len(list)
           c == Len(Catalogue)
<1>1. n \in Nat /\ c \in Nat /\ n <= c /\ i < n /\ \A k \in 1..n : list[k] \in Addresses
  BY ListsAre
<1> HIDE DEF n, c
<1>2. i \in -2..c - 1 /\ i + 1 \in 1..n
  BY <1>1
<1>3. list[i + 1] \in Addresses /\ i \in -2..Len(Catalogue) - 1
  BY <1>1, <1>2 DEF c
<1> HIDE DEF list
<1>4. /\ Listed(list, i, load) \in Sels /\ Listed(list, i, load).index = i
      /\ Listed(list, i, load).address = list[i + 1]
  BY <1>3 DEF Listed, INITIAL_SELECTED_TOKEN, Sels, Selections
<1> QED BY <1>4 DEF list

\* "Other..." is picked.
LEMMA OtherIs ==
  ASSUME NEW tokens, NEW load \in BOOLEAN
  PROVE  LET s == handleDropDownChange(tokens, -1, load)
         IN  s \in Sels /\ s.index = -1 /\ s.address = NONE
<1>1. -1 \in -2..Len(Catalogue) - 1
  BY TokenAssumption
<1>2. handleDropDownChange(tokens, -1, load) = [INITIAL_SELECTED_TOKEN EXCEPT !.index = -1, !.loading = load]
  BY DEF handleDropDownChange
<1> QED BY <1>1, <1>2 DEF INITIAL_SELECTED_TOKEN, Sels, Selections

LEMMA TypedIs ==
  ASSUME NEW a \in Typed
  PROVE  LET s == handleCustomTokenAddressChange(a)
         IN  s \in Sels /\ s.index = -1 /\ s.address = a
<1>1. -1 \in -2..Len(Catalogue) - 1
  BY TokenAssumption
<1> QED BY <1>1 DEF INITIAL_SELECTED_TOKEN, Sels, Selections, handleCustomTokenAddressChange

\* A preset token is found at its place in the list.
LEMMA FindIs ==
  ASSUME NEW s \in Stores, NEW type, NEW token \in Range(superTokens(s, type)), NEW load \in BOOLEAN
  PROVE  LET sel == Find(superTokens(s, type), token, load)
         IN  /\ sel \in Sels /\ sel.index \in Nat /\ sel.index < Len(superTokens(s, type))
             /\ sel.address = token /\ superTokens(s, type)[sel.index + 1] = token
<1> DEFINE list == superTokens(s, type)
           k == CHOOSE i \in DOMAIN list : list[i] = token
           n == Len(list)
<1>1. k \in 1..n /\ list[k] = token /\ n \in Nat
  BY ListsAre DEF Range
<1>2. Find(list, token, load) = Listed(list, k - 1, load)
  BY DEF Find
<1> HIDE DEF k, n
<1>3. k - 1 \in Nat /\ k - 1 < n /\ (k - 1) + 1 = k
  BY <1>1
<1> DEFINE j == k - 1
<1>4. j \in Nat /\ j < Len(superTokens(s, type)) /\ superTokens(s, type)[j + 1] = token
  BY <1>1, <1>3 DEF n
<1>5. Find(superTokens(s, type), token, load) = Listed(superTokens(s, type), j, load)
  BY <1>2
<1> HIDE DEF j, list
<1>6. LET sel == Listed(superTokens(s, type), j, load)
      IN  sel \in Sels /\ sel.index = j /\ sel.address = superTokens(s, type)[j + 1]
  BY <1>4, ListedIs
<1> QED BY <1>4, <1>5, <1>6

\* The effect starts a lookup for the selection that is shown.
LEMMA LookupsOK ==
  ASSUME NEW f, FormOK(f), NEW r \in Lookups(f.sel, f.custom)
  PROVE  ReqOK(r) /\ r.sel = f.sel
<1> DEFINE isCustom == f.custom # NONE /\ f.sel.index = -1
           address == IF isCustom THEN f.custom ELSE f.sel.address
<1>1. /\ f.sel.loading /\ address \in Addresses
      /\ r = [sel |-> f.sel, address |-> address, isCustomToken |-> isCustom]
  BY DEF Lookups
<1>2. f.sel \in Sels /\ (f.sel.index = -1 => f.custom = f.sel.address)
  BY <1>1 DEF FormOK, Forms, Sels
<1>3. address = f.sel.address
  BY <1>2
<1>4. isCustom <=> f.sel.index = -1
  BY <1>1, <1>2, <1>3, TokenAssumption
<1> HIDE DEF isCustom, address
<1>5. isCustom \in BOOLEAN
  BY DEF isCustom
<1> QED BY <1>1, <1>2, <1>3, <1>4, <1>5 DEF ReqOK, Requests

\* An answer hands back the selection the lookup was started for.
LEMMA AnswerIs ==
  ASSUME NEW req, ReqOK(req), NEW sel \in fetchTokenData(req, req.address)
  PROVE  sel \in Sels /\ ~sel.loading /\ sel.index = req.sel.index /\ sel.address = req.sel.address
<1> DEFINE asked == req.address
           done == [req.sel EXCEPT !.address = req.address, !.loading = FALSE]
           loaded == [done EXCEPT !.decimals = DecimalsOf[asked]]
           invalid == [req.sel EXCEPT !.loading = FALSE, !.error = "INVALID_TOKEN"]
           half == [done EXCEPT !.error = "FETCH_TOKEN"]
           most == [loaded EXCEPT !.error = "FETCH_TOKEN"]
           success == [loaded EXCEPT !.balance = BalanceOf[asked],
                                     !.error = IF BalanceOf[asked] = 0 THEN "NO_TOKEN_BALANCE" ELSE None]
<1>1. req.sel \in Sels /\ req.address = req.sel.address /\ asked \in Addresses
  BY DEF ReqOK, Requests
<1>2. sel \in {invalid, half, most, success}
  <2> HIDE DEF asked
  <2> QED BY DEF fetchTokenData, asked
<1> HIDE DEF asked
<1>3. invalid \in Sels /\ ~invalid.loading /\ invalid.index = req.sel.index /\ invalid.address = req.sel.address
  BY <1>1 DEF Sels, Selections
<1>4. half \in Sels /\ ~half.loading /\ half.index = req.sel.index /\ half.address = req.sel.address
  BY <1>1 DEF Sels, Selections
<1>5. most \in Sels /\ ~most.loading /\ most.index = req.sel.index /\ most.address = req.sel.address
  BY <1>1 DEF Sels, Selections
<1>6. success \in Sels /\ ~success.loading /\ success.index = req.sel.index /\ success.address = req.sel.address
  BY <1>1 DEF Sels, Selections
<1> HIDE DEF invalid, half, most, success
<1> QED BY <1>2, <1>3, <1>4, <1>5, <1>6

-----------------------------------------------------------------------------
(* Forms.                                                                   *)

LEMMA FreshIs ==
  ASSUME NEW s \in Stores
  PROVE  LET f == FreshForm(s)
         IN  /\ FormOK(f) /\ f.sel.index = -2 /\ f.sel = INITIAL_SELECTED_TOKEN
             /\ f.description = "" /\ PlaceOK(f, {}, s)
<1> DEFINE f == FreshForm(s)
           type == IF getAvailableSuperTokens(s) # <<>> THEN 1 ELSE 0
<1>1. type \in 0..1
  OBVIOUS
<1>2. f = [type |-> type, recipient |-> NONE, sel |-> INITIAL_SELECTED_TOKEN, custom |-> NONE, rate |-> 0,
           description |-> "", error |-> None, outrun |-> FALSE, moved |-> FALSE, retyped |-> FALSE]
  BY DEF FreshForm
<1> HIDE DEF f, type
<1>3. f \in Forms
  BY <1>1, <1>2, InitialIs DEF Forms, Sels
<1>4. f.sel = INITIAL_SELECTED_TOKEN /\ f.description = ""
  BY <1>2
<1>5. f.sel.index = -2 /\ ~f.sel.loading
  BY <1>4, InitialIs
<1>6. FormOK(f)
  BY <1>3, <1>5 DEF FormOK
<1>7. PlaceOK(f, {}, s)
  BY <1>5 DEF PlaceOK
<1> QED BY <1>4, <1>5, <1>6, <1>7 DEF f

\* A pick: the form has the selection, and no lookup for another one unless it is outrun.
LEMMA PickIs ==
  ASSUME NEW f \in Forms, NEW sel \in Sels, NEW running
  PROVE  LET g == Pick(f, sel, running)
         IN  /\ g \in Forms /\ g.sel = sel /\ g.type = f.type /\ g.recipient = f.recipient
             /\ g.custom = f.custom /\ g.description = f.description /\ ~g.moved
             /\ ~g.outrun => \A r \in running : r.sel = sel
<1> DEFINE g == Pick(f, sel, running)
           outrun == \E r \in running : r.sel # sel
<1>1. g = [f EXCEPT !.sel = sel, !.moved = FALSE, !.outrun = outrun]
  BY DEF Pick
<1>2. outrun \in BOOLEAN
  OBVIOUS
<1>3. /\ g \in Forms /\ g.sel = sel /\ g.type = f.type /\ g.recipient = f.recipient
      /\ g.custom = f.custom /\ g.description = f.description /\ ~g.moved
  <2> HIDE DEF outrun
  <2> QED BY <1>1, <1>2 DEF Forms, Sels
<1>4. g.outrun = outrun
  <2> HIDE DEF outrun
  <2> QED BY <1>1, <1>2 DEF Forms
<1> HIDE DEF g
<1> QED BY <1>3, <1>4 DEF g

\* The effect on existingFlow changes the description only.
LEMMA EffectIs ==
  ASSUME NEW s, NEW f \in Forms, NEW p, NEW before, NEW published
  PROVE  LET g == DescriptionEffect(s, f, p, before, published)
         IN  /\ g \in Forms /\ g.sel = f.sel /\ g.type = f.type /\ g.recipient = f.recipient
             /\ g.custom = f.custom /\ g.moved = f.moved /\ g.outrun = f.outrun /\ g.retyped = f.retyped
             /\ existingFlow(s, g, p) = existingFlow(s, f, p)
<1> DEFINE g == DescriptionEffect(s, f, p, before, published)
<1>1. g = f \/ g = [f EXCEPT !.description = ""] \/ g = [f EXCEPT !.description = "flow's"]
  BY DEF DescriptionEffect
<1> HIDE DEF g
<1>2. /\ g \in Forms /\ g.sel = f.sel /\ g.type = f.type /\ g.recipient = f.recipient
      /\ g.custom = f.custom /\ g.moved = f.moved /\ g.outrun = f.outrun /\ g.retyped = f.retyped
  BY <1>1 DEF Forms
<1>3. existingFlow(s, g, p) = existingFlow(s, f, p)
  BY <1>2 DEF existingFlow
<1> QED BY <1>2, <1>3 DEF g

\* What existingFlow was at the last render.
Before ==
  <<isFlowUpdateOperation(panel), IF form = None THEN None ELSE existingFlow(store, form, panel)>>

\* The effect runs, or the description was right and still is.
LEMMA EffectOK ==
  ASSUME NEW s, NEW f \in Forms, NEW p, NEW published,
         form # None => DescriptionOK(form, store, panel),
         isFlowUpdateOperation(p) => f.description \in {"flow's", "typed"},
         ~isFlowUpdateOperation(p) =>
           f.description = "typed" \/ f.description = (IF form = None THEN "" ELSE form.description)
  PROVE  DescriptionOK(DescriptionEffect(s, f, p, Before, published), s, p)
<1> DEFINE g == DescriptionEffect(s, f, p, Before, published)
           existing == existingFlow(s, f, p)
           none == existing \in {None, {}}
           same == Before = <<isFlowUpdateOperation(p), existing>> /\ (none \/ ~published)
<1>1. existingFlow(s, g, p) = existing
  BY EffectIs
<1>2. g = IF isFlowUpdateOperation(p) \/ same THEN f
          ELSE [f EXCEPT !.description = IF none THEN "" ELSE "flow's"]
  BY DEF DescriptionEffect
<1>3. Updates(s, g, p) <=> isFlowUpdateOperation(p) \/ ~none
  BY <1>1 DEF Updates
<1>4. ASSUME isFlowUpdateOperation(p) PROVE DescriptionOK(g, s, p)
  <2>1. g = f
    BY <1>2, <1>4
  <2>2. f.description # "typed" => f.description = "flow's"
    BY <1>4
  <2>3. Updates(s, g, p)
    BY <1>3, <1>4
  <2> QED BY <2>1, <2>2, <2>3 DEF DescriptionOK
<1>5. ASSUME ~isFlowUpdateOperation(p), same PROVE DescriptionOK(g, s, p)
  <2>1. g = f
    BY <1>2, <1>5
  <2>2. /\ isFlowUpdateOperation(panel) = isFlowUpdateOperation(p)
        /\ (IF form = None THEN None ELSE existingFlow(store, form, panel)) = existing
    BY <1>5 DEF Before
  <2>3. ~isFlowUpdateOperation(panel)
    BY <1>5, <2>2
  <2>4. CASE form = None
    <3>1. none
      BY <2>2, <2>4
    <3>2. f.description = "typed" \/ f.description = ""
      BY <1>5, <2>4
    <3>3. ~Updates(s, g, p)
      BY <1>3, <1>5, <3>1
    <3> QED BY <2>1, <3>2, <3>3 DEF DescriptionOK
  <2>5. CASE form # None
    <3>1. Updates(store, form, panel) <=> ~none
      BY <2>2, <2>3, <2>5 DEF Updates
    <3>2. Updates(s, g, p) <=> Updates(store, form, panel)
      BY <1>3, <1>5, <3>1
    <3>3. f.description = "typed" \/ f.description = form.description
      BY <1>5, <2>5
    <3> QED BY <2>1, <2>5, <3>2, <3>3 DEF DescriptionOK
  <2> QED BY <2>4, <2>5
<1>6. ASSUME ~isFlowUpdateOperation(p), ~same PROVE DescriptionOK(g, s, p)
  <2>1. g = [f EXCEPT !.description = IF none THEN "" ELSE "flow's"]
    BY <1>2, <1>6
  <2>2. g.description = IF none THEN "" ELSE "flow's"
    BY <2>1 DEF Forms
  <2>3. g.description = "flow's" <=> ~none
    BY <2>2
  <2>4. Updates(s, g, p) <=> ~none
    BY <1>3, <1>6
  <2> QED BY <2>3, <2>4 DEF DescriptionOK
<1> QED BY <1>4, <1>5, <1>6

\* What the description may be before the effect runs: typed, an update's, or what it was.
KeptOK(f, p) ==
  /\ isFlowUpdateOperation(p) => f.description \in {"flow's", "typed"}
  /\ ~isFlowUpdateOperation(p) =>
       f.description = "typed" \/ f.description = (IF form = None THEN "" ELSE form.description)

\* A form h that is rendered with state s and panel p over these lookups, before the effect on existingFlow.
Rendered(h, running, s, p) ==
  /\ FormOK(h) /\ h.sel.index < Len(superTokens(s, h.type))
  /\ PlaceOK(h, running, s) /\ StillOK(h, p) /\ KeptOK(h, p)

\* The form once that effect has run.
LEMMA EffectsFit ==
  ASSUME NEW s \in Stores, NEW p, NEW published, NEW h, NEW running, Rendered(h, running, s, p),
         form # None => DescriptionOK(form, store, panel),
         NEW requests, requests \subseteq running \cup Lookups(h.sel, h.custom)
  PROVE  LET g == DescriptionEffect(s, h, p, Before, published)
         IN  FormFits(g, requests, s, p) /\ g # None
<1> DEFINE g == DescriptionEffect(s, h, p, Before, published)
<1>1. h \in Forms
  BY DEF Rendered, FormOK
<1>2. /\ g \in Forms /\ g.sel = h.sel /\ g.type = h.type /\ g.recipient = h.recipient
      /\ g.custom = h.custom /\ g.moved = h.moved /\ g.outrun = h.outrun /\ g.retyped = h.retyped
  BY <1>1, EffectIs
<1>3. DescriptionOK(g, s, p)
  BY <1>1, EffectOK DEF Rendered, KeptOK
<1> HIDE DEF g
<1>4. FormOK(g) /\ g # None
  BY <1>2, FlowAssumption DEF Rendered, FormOK
<1>5. PlaceOK(g, requests, s)
  <2>1. \A r \in Lookups(h.sel, h.custom) : r.sel = h.sel
    BY LookupsOK DEF Rendered
  <2>2. PlaceOK(h, running, s)
    BY DEF Rendered
  <2> QED BY <1>2, <2>1, <2>2 DEF PlaceOK
<1>6. StillOK(g, p)
  BY <1>2 DEF Rendered, StillOK
<1>7. g.sel.index < Len(superTokens(s, g.type))
  BY <1>2 DEF Rendered
<1> QED BY <1>3, <1>4, <1>5, <1>6, <1>7 DEF FormFits, g

-----------------------------------------------------------------------------
(* Steps.                                                                   *)

\* A panel opened from a flow's menu, with nothing left over from before.
Certain == panel.visible /\ origin # None

\* An edit that leaves the flow alone.
SameFlow(f) ==
  /\ f.type = form.type
  /\ f.retyped \/ (~form.retyped /\ f.recipient = form.recipient)
  /\ f.sel.address = form.sel.address /\ f.sel.index = form.sel.index

LEMMA IndexIs ==
  ASSUME NEW f \in Forms
  PROVE  f.sel \in Sels /\ f.sel.index \in Int
<1>1. f.sel \in Sels
  BY DEF Forms, Sels
<1>2. Len(Catalogue) \in Nat
  BY TokenAssumption
<1> QED BY <1>1, <1>2 DEF Sels, Selections

LEMMA MountedIs ==
  ASSUME Inv, form # None
  PROVE  /\ store \in Stores /\ panel \in PanelStates(Presets) /\ form \in Forms
         /\ FormFits(form, lookups, store, panel) /\ DescriptionOK(form, store, panel)
         /\ \A r \in lookups : ReqOK(r)
         /\ Certain => UpdateOf(origin, form, lookups, panel)
  BY DEF Inv, World, Mounted, FormFits, FormOK, Certain

\* The form is edited: it is rendered again, and nothing fails.
LEMMA EditStep ==
  ASSUME Inv, form # None, NEW f, Rendered(f, lookups, store, panel), Edit(f),
         Certain => SameFlow(f)
  PROVE  Inv' /\ ~crashed'
<1> DEFINE published == FALSE
           g == DescriptionEffect(store, f, panel, Before, published)
<1>1. /\ UNCHANGED <<store, panel, pending, opens, news, origin>> /\ Shows(store, f, panel, FALSE, FALSE)
  BY DEF Edit
<1>2. f.sel.index < Len(superTokens(store, f.type)) /\ FormOK(f) /\ f \in Forms
  BY DEF Rendered, FormOK
<1>3. ~RenderFails(store, f)
  <2>1. f.sel.index \in Int /\ Len(superTokens(store, f.type)) \in Int
    BY <1>2, MountedIs, ListsAre, IndexIs
  <2> QED BY <1>2, <2>1 DEF RenderFails
<1>4. /\ crashed' = FALSE /\ form' = g
      /\ lookups' = IF form # None /\ g.sel = form.sel THEN lookups ELSE UNION {lookups, {}, Lookups(g.sel, g.custom)}
  BY <1>1, <1>3 DEF Shows, Before
<1> HIDE DEF published
<1>5. /\ g.sel = f.sel /\ g.type = f.type /\ g.recipient = f.recipient /\ g.custom = f.custom
      /\ g.retyped = f.retyped
  <2>1. f \in Forms
    BY <1>2
  <2> QED BY <2>1, EffectIs
<1>6. lookups' \subseteq lookups \cup Lookups(f.sel, f.custom)
  BY <1>4, <1>5
<1>7. FormFits(g, lookups', store, panel) /\ g # None
  BY <1>6, MountedIs, EffectsFit
<1> HIDE DEF g
<1>8. \A r \in lookups' : ReqOK(r) /\ (r \in lookups \/ r.sel = f.sel)
  BY <1>2, <1>6, MountedIs, LookupsOK
<1>9. Certain => UpdateOf(origin, g, lookups', panel)
  BY <1>5, <1>8, MountedIs DEF UpdateOf, SameFlow
<1>10. World'
  BY <1>1, <1>4 DEF Inv, World
<1>11. Mounted'
  BY <1>1, <1>4, <1>7, <1>8, <1>9 DEF Mounted, Certain
<1> QED BY <1>4, <1>10, <1>11 DEF Inv

\* What the preset effect makes of a form.
Preset(f, p) ==
  isFlowUpdateOperation(p) =>
    /\ f.type = p.presets.flowType /\ f.recipient = p.presets.recipient
    /\ f.sel.address = p.presets.token /\ f.sel.index >= 0

LEMMA PresetsAre ==
  ASSUME NEW p \in PanelStates(Presets), isFlowUpdateOperation(p)
  PROVE  p.presets.flowType \in 0..1 /\ p.presets.recipient \in Addresses /\ p.presets.token \in Addresses
<1>1. PICK x \in Flows : p.presets = PresetsOf(x)
  BY DEF PanelStates, Presets, isFlowUpdateOperation, NoPresets
<1>2. x.token \in Addresses /\ x.entity \in Addresses /\ Agent \in Addresses
  BY FlowAssumption
<1>3. /\ p.presets.flowType = (IF x.incoming THEN 0 ELSE 1) /\ p.presets.token = x.token
      /\ p.presets.recipient = (IF x.incoming THEN Agent ELSE x.entity)
  BY <1>1 DEF PresetsOf
<1> QED BY <1>2, <1>3

\* A lookup that the first run of the preset effect starts is for the token of the presets.
LEMMA FirstLookupsOK ==
  ASSUME NEW s \in Stores, NEW p \in PanelStates(Presets), NEW f, ~PresetFails(s, f, p),
         NEW r \in FirstLookups(s, f, p)
  PROVE  /\ isFlowUpdateOperation(p) /\ ReqOK(r)
         /\ r.sel.address = p.presets.token /\ r.sel.index >= 0
<1> DEFINE load == p.presets.flowType = 0
           token == p.presets.token
           sel == Find(superTokens(s, f.type), token, load)
<1>1. isFlowUpdateOperation(p) /\ r \in Lookups(sel, f.custom)
  BY DEF FirstLookups
<1>2. token \in Range(superTokens(s, f.type)) /\ load \in BOOLEAN
  BY <1>1 DEF PresetFails
<1> HIDE DEF load
<1>3. sel \in Sels /\ sel.index \in Nat /\ sel.address = token
  BY <1>2, FindIs
<1> HIDE DEF sel
<1>4. sel.index >= 0 /\ sel.index # -1
  BY <1>3
<1>5. r = [sel |-> sel, address |-> sel.address, isCustomToken |-> FALSE] /\ sel.address \in Addresses
  BY <1>1, <1>4 DEF Lookups
<1> QED BY <1>1, <1>3, <1>4, <1>5 DEF ReqOK, Requests

\* The preset effect, when it does not fail.
LEMMA PresetIs ==
  ASSUME NEW s \in Stores, NEW p \in PanelStates(Presets), NEW f, FormOK(f),
         ~RenderFails(s, f), ~PresetFails(s, f, p),
         ~isFlowUpdateOperation(p) => PlaceOK(f, lookups, s) /\ KeptOK(f, p)
  PROVE  /\ Rendered(PresetEffect(s, f, p), lookups \cup FirstLookups(s, f, p), s, p)
         /\ Preset(PresetEffect(s, f, p), p)
<1> DEFINE running == lookups \cup FirstLookups(s, f, p)
<1>1. f \in Forms /\ f.sel.index \in Int
  BY IndexIs DEF FormOK
<1>2. CASE ~isFlowUpdateOperation(p)
  <2>1. PresetEffect(s, f, p) = f
    BY <1>2 DEF PresetEffect
  <2>2. f.sel.index < Len(superTokens(s, f.type))
    <3>1. Len(superTokens(s, f.type)) \in Int
      BY ListsAre
    <3> QED BY <1>1, <3>1 DEF RenderFails
  <2>3. StillOK(f, p) /\ Preset(f, p) /\ running = lookups
    BY <1>2 DEF StillOK, Preset, FirstLookups
  <2> HIDE DEF running
  <2>4. Rendered(f, running, s, p)
    BY <1>2, <2>2, <2>3 DEF Rendered
  <2> QED BY <2>1, <2>3, <2>4 DEF running
<1>3. CASE isFlowUpdateOperation(p)
  <2> DEFINE type == p.presets.flowType
             token == p.presets.token
             load == type = 0
             sel == Find(superTokens(s, type), token, load)
             h == [f EXCEPT !.type = type, !.recipient = p.presets.recipient, !.description = "flow's",
                            !.retyped = FALSE]
             g == Pick(h, sel, running)
  <2>1. type \in 0..1 /\ p.presets.recipient \in Addresses /\ token \in Range(superTokens(s, type)) /\ load \in BOOLEAN
    BY <1>3, PresetsAre DEF PresetFails
  <2>2. PresetEffect(s, f, p) = g
    BY <1>3 DEF PresetEffect
  <2> HIDE DEF load
  <2>3. /\ sel \in Sels /\ sel.index \in Nat /\ sel.index < Len(superTokens(s, type))
        /\ sel.address = token /\ superTokens(s, type)[sel.index + 1] = token
    BY <2>1, FindIs
  <2>4. /\ h \in Forms /\ h.type = type /\ h.recipient = p.presets.recipient /\ h.description = "flow's"
        /\ h.custom = f.custom
    BY <1>1, <2>1 DEF Forms
  <2> HIDE DEF sel, h, running
  <2>5. /\ g \in Forms /\ g.sel = sel /\ g.type = h.type /\ g.recipient = h.recipient
        /\ g.custom = h.custom /\ g.description = h.description /\ ~g.moved
        /\ ~g.outrun => \A r \in running : r.sel = sel
    BY <2>3, <2>4, PickIs
  <2> HIDE DEF g
  <2>6. g.sel.index >= 0 /\ g.sel.index # -1
    BY <2>3, <2>5
  <2>7. FormOK(g)
    BY <2>5, <2>6 DEF FormOK
  <2>8. PlaceOK(g, running, s)
    BY <2>3, <2>4, <2>5 DEF PlaceOK
  <2>9. StillOK(g, p)
    BY <2>5 DEF StillOK
  <2>10. KeptOK(g, p)
    BY <1>3, <2>4, <2>5 DEF KeptOK
  <2>11. Preset(g, p)
    BY <2>3, <2>4, <2>5, <2>6 DEF Preset
  <2>12. g.sel.index < Len(superTokens(s, g.type))
    BY <2>3, <2>4, <2>5
  <2>13. Rendered(g, running, s, p)
    BY <2>7, <2>8, <2>9, <2>10, <2>12 DEF Rendered
  <2> QED BY <2>2, <2>11, <2>13 DEF running
<1> QED BY <1>2, <1>3


\* A lookup for the token of the presets.
ForPreset(r, p) == isFlowUpdateOperation(p) /\ r.sel.address = p.presets.token /\ r.sel.index >= 0

\* The form is rendered, the preset effect runs with it, and either of them may fail.
LEMMA PresetShows ==
  ASSUME Inv, NEW s \in Stores, NEW p \in PanelStates(Presets), NEW f, FormOK(f), NEW published,
         ~isFlowUpdateOperation(p) => PlaceOK(f, lookups, s) /\ KeptOK(f, p),
         Shows(s, f, p, TRUE, published)
  PROVE  \/ crashed' = TRUE /\ form' = None /\ lookups' = {} /\ (RenderFails(s, f) \/ PresetFails(s, f, p))
         \/ /\ crashed' = FALSE /\ form' # None /\ FormFits(form', lookups', s, p) /\ Preset(form', p)
            /\ \A r \in lookups' : ReqOK(r) /\ (r \in lookups \/ r.sel = form'.sel \/ ForPreset(r, p))
<1>1. CASE RenderFails(s, f) \/ PresetFails(s, f, p)
  BY <1>1 DEF Shows
<1>2. CASE ~RenderFails(s, f) /\ ~PresetFails(s, f, p)
  <2> DEFINE h == PresetEffect(s, f, p)
             g == DescriptionEffect(s, h, p, Before, published)
             first == FirstLookups(s, f, p)
  <2>1. Rendered(h, lookups \cup first, s, p) /\ Preset(h, p)
    BY <1>2, PresetIs
  <2>2. crashed' = FALSE /\ form' = g /\ lookups' = UNION {lookups, first, Lookups(g.sel, g.custom)}
    BY <1>2 DEF Shows, Before
  <2>0. \A r \in first : ReqOK(r) /\ ForPreset(r, p)
    BY <1>2, FirstLookupsOK DEF ForPreset
  <2> HIDE DEF h, first
  <2>3. h \in Forms /\ FormOK(h)
    BY <2>1 DEF Rendered, FormOK
  <2>4. g.sel = h.sel /\ g.type = h.type /\ g.recipient = h.recipient /\ g.custom = h.custom
    BY <2>3, EffectIs
  <2>5. lookups' = (lookups \cup first) \cup Lookups(h.sel, h.custom)
    BY <2>2, <2>4
  <2>6. /\ form # None => DescriptionOK(form, store, panel)
        /\ \A r \in lookups : ReqOK(r)
    BY DEF Inv, Mounted, FormFits
  <2>7. FormFits(g, lookups', s, p) /\ g # None
    BY <2>1, <2>5, <2>6, EffectsFit
  <2> HIDE DEF g
  <2>8. \A r \in lookups' : ReqOK(r) /\ (r \in lookups \/ r.sel = g.sel \/ ForPreset(r, p))
    BY <2>0, <2>3, <2>4, <2>5, <2>6, LookupsOK
  <2>9. Preset(g, p)
    BY <2>1, <2>4 DEF Preset
  <2> QED BY <2>2, <2>7, <2>8, <2>9
<1> QED BY <1>1, <1>2

LEMMA PresetsOfIs ==
  ASSUME NEW x \in Flows, NEW p, p.presets = PresetsOf(x)
  PROVE  /\ isFlowUpdateOperation(p) /\ p.presets.token = x.token
         /\ p.presets.flowType = (IF x.incoming THEN 0 ELSE 1)
         /\ p.presets.recipient = (IF x.incoming THEN Agent ELSE x.entity)
<1>1. x.token \in Addresses /\ x.entity \in Addresses /\ Agent \in Addresses /\ None \notin Addresses
  BY FlowAssumption
<1>2. /\ p.presets.flowType = (IF x.incoming THEN 0 ELSE 1) /\ p.presets.token = x.token
      /\ p.presets.recipient = (IF x.incoming THEN Agent ELSE x.entity)
  BY DEF PresetsOf
<1>3. p.presets.token # None /\ p.presets.recipient # None
  BY <1>1, <1>2
<1> QED BY <1>2, <1>3 DEF isFlowUpdateOperation

\* The form of an update over lookups for its own token only.
LEMMA UpdateIs ==
  ASSUME NEW x \in Flows, NEW p, p.timers = 0, p.presets = PresetsOf(x), NEW f, Preset(f, p),
         NEW requests, \A r \in requests : (r.sel.address = x.token /\ r.sel.index >= 0) \/ r.sel = f.sel
  PROVE  UpdateOf(x, f, requests, p)
<1>1. /\ f.type = (IF x.incoming THEN 0 ELSE 1) /\ f.recipient = (IF x.incoming THEN Agent ELSE x.entity)
      /\ f.sel.address = x.token /\ f.sel.index >= 0
  BY PresetsOfIs DEF Preset
<1> QED BY <1>1 DEF UpdateOf

LEMMA OpeningStep ==
  ASSUME Inv, NEW presets \in Presets, NEW flow, Opening(presets, flow),
         flow = None \/ (flow \in Flows /\ presets = PresetsOf(flow))
  PROVE  Inv' /\ opens' # opens
<1> DEFINE f == IF form = None THEN FreshForm(store) ELSE form
           hasty == panel.timers > 0 \/ lookups # {}
           published == FALSE
<1>1. /\ World /\ Mounted /\ panel' = requestOpen(panel, presets) /\ opens' = opens + 1
      /\ UNCHANGED <<store, pending, news>> /\ Shows(store, f, panel', TRUE, published)
      /\ origin' = IF hasty THEN None ELSE flow
  BY DEF Inv, Opening
<1> HIDE DEF published
<1>2. /\ panel' \in PanelStates(Presets) /\ panel'.visible /\ panel'.presets = presets
      /\ panel'.timers = panel.timers /\ store \in Stores
  BY <1>1 DEF World, PanelStates, requestOpen
<1>3. FormOK(f) /\ PlaceOK(f, lookups, store) /\ (~isFlowUpdateOperation(panel') => KeptOK(f, panel'))
  <2>1. CASE form = None
    BY <1>1, <1>2, <2>1, FreshIs DEF Mounted, KeptOK
  <2>2. CASE form # None
    BY <1>1, <2>2 DEF Mounted, FormFits, KeptOK
  <2> QED BY <2>1, <2>2
<1> HIDE DEF f
<1>4. \/ crashed' = TRUE /\ form' = None /\ lookups' = {}
      \/ /\ crashed' = FALSE /\ form' # None /\ FormFits(form', lookups', store, panel') /\ Preset(form', panel')
         /\ \A r \in lookups' : ReqOK(r) /\ (r \in lookups \/ r.sel = form'.sel \/ ForPreset(r, panel'))
  BY <1>1, <1>2, <1>3, PresetShows
<1>5. opens' \in Nat /\ opens' # opens
  <2>1. opens \in Nat /\ opens' = opens + 1
    BY <1>1 DEF World
  <2> QED BY <2>1
<1>6. ~hasty => panel.timers = 0 /\ lookups = {}
  <2>1. panel.timers \in Nat
    BY <1>1 DEF World, PanelStates
  <2> QED BY <2>1
<1> HIDE DEF hasty
<1>7. origin' \in Flows \cup {None} /\ (origin' # None => origin' = flow /\ ~hasty)
  BY <1>1
<1>8. World'
  <2>1. crashed' \in BOOLEAN
    BY <1>4
  <2> QED BY <1>1, <1>2, <1>5, <1>7, <2>1 DEF World
<1>9. ASSUME form' # None, flow # None, ~hasty PROVE UpdateOf(flow, form', lookups', panel')
  <2>1. /\ flow \in Flows /\ panel'.presets = PresetsOf(flow) /\ panel'.timers = 0 /\ lookups = {}
    BY <1>2, <1>6, <1>9
  <2>2. Preset(form', panel') /\ \A r \in lookups' : r.sel = form'.sel \/ ForPreset(r, panel')
    BY <1>4, <1>9, <2>1
  <2>3. panel'.presets.token = flow.token
    BY <2>1, PresetsOfIs
  <2>4. \A r \in lookups' : (r.sel.address = flow.token /\ r.sel.index >= 0) \/ r.sel = form'.sel
    BY <2>2, <2>3 DEF ForPreset
  <2> QED BY <2>1, <2>2, <2>4, UpdateIs
<1>10. Mounted'
  <2>1. store' = store
    BY <1>1
  <2>2. CASE form' = None
    BY <1>4, <2>2 DEF Mounted
  <2>3. CASE form' # None
    BY <1>4, <1>7, <1>9, <2>1, <2>3 DEF Mounted
  <2> QED BY <2>2, <2>3
<1> QED BY <1>5, <1>8, <1>10 DEF Inv


\* A state is published: an update selects its token again, and a creation whose list has changed
\* is marked.
LEMMA PublishedStep ==
  ASSUME Inv, NEW s \in Stores, Published(s)
  PROVE  Inv' /\ news' # news
<1>1. /\ World /\ Mounted /\ store' = s /\ news' = news + 1 /\ UNCHANGED <<panel, pending, opens, origin>>
  BY DEF Inv, Published
<1>2. news' \in Nat /\ news' # news
  <2>1. news \in Nat /\ news' = news + 1
    BY <1>1 DEF World
  <2> QED BY <2>1
<1>3. CASE form = None
  <2>1. UNCHANGED <<form, lookups, crashed>>
    BY <1>3 DEF Published
  <2>2. World'
    BY <1>1, <1>2, <2>1 DEF World
  <2>3. Mounted'
    BY <1>1, <1>3, <2>1 DEF Mounted
  <2> QED BY <1>2, <2>2, <2>3 DEF Inv
<1>4. CASE form # None
  <2> DEFINE moved == superTokens(s, form.type) # superTokens(store, form.type)
             f == [form EXCEPT !.moved = @ \/ moved]
             published == TRUE
  <2>1. Shows(s, f, panel, TRUE, published)
    BY <1>4 DEF Published
  <2> HIDE DEF published
  <2>2. moved \in BOOLEAN /\ (~moved => superTokens(s, form.type) = superTokens(store, form.type))
    OBVIOUS
  <2> HIDE DEF moved
  <2>3. /\ form \in Forms /\ FormOK(form) /\ PlaceOK(form, lookups, store) /\ panel \in PanelStates(Presets)
    BY <1>4, MountedIs DEF FormFits
  <2>4. /\ f \in Forms /\ f.sel = form.sel /\ f.type = form.type /\ f.custom = form.custom
        /\ f.description = form.description /\ f.outrun = form.outrun /\ (~f.moved => ~form.moved /\ ~moved)
    BY <2>2, <2>3 DEF Forms
  <2> HIDE DEF f
  <2>5. FormOK(f)
    BY <2>3, <2>4 DEF FormOK
  <2>6. PlaceOK(f, lookups, s)
    BY <2>2, <2>3, <2>4 DEF PlaceOK
  <2>7. ~isFlowUpdateOperation(panel) => KeptOK(f, panel)
    BY <1>4, <2>4 DEF KeptOK
  <2>8. \/ crashed' = TRUE /\ form' = None /\ lookups' = {}
        \/ /\ crashed' = FALSE /\ form' # None /\ FormFits(form', lookups', s, panel) /\ Preset(form', panel)
           /\ \A r \in lookups' : ReqOK(r) /\ (r \in lookups \/ r.sel = form'.sel \/ ForPreset(r, panel))
    BY <2>1, <2>3, <2>5, <2>6, <2>7, PresetShows
  <2>9. World'
    <3>1. crashed' \in BOOLEAN
      BY <2>8
    <3> QED BY <1>1, <1>2, <3>1 DEF World
  <2>10. ASSUME form' # None, Certain PROVE UpdateOf(origin, form', lookups', panel)
    <3>1. /\ origin \in Flows /\ panel.presets = PresetsOf(origin) /\ panel.timers = 0
          /\ \A r \in lookups : r.sel.address = origin.token /\ r.sel.index >= 0
      BY <1>1, <1>4, <2>10, MountedIs DEF Certain, World, UpdateOf
    <3>2. /\ Preset(form', panel)
          /\ \A r \in lookups' : r \in lookups \/ r.sel = form'.sel \/ ForPreset(r, panel)
      BY <2>8, <2>10
    <3>3. panel.presets.token = origin.token
      BY <3>1, PresetsOfIs
    <3>4. \A r \in lookups' : (r.sel.address = origin.token /\ r.sel.index >= 0) \/ r.sel = form'.sel
      BY <3>1, <3>2, <3>3 DEF ForPreset
    <3> QED BY <3>1, <3>2, <3>4, UpdateIs
  <2>11. Mounted'
    <3>1. CASE form' = None
      BY <2>8, <3>1 DEF Mounted
    <3>2. CASE form' # None
      BY <1>1, <2>8, <2>10, <3>2 DEF Mounted, Certain
    <3> QED BY <3>1, <3>2
  <2> QED BY <1>2, <2>9, <2>11 DEF Inv
<1> QED BY <1>3, <1>4

\* The timer of a closing wipes the presets: an update becomes a creation, but nothing fails.
LEMMA TimerStep ==
  ASSUME Inv, Timer
  PROVE  Inv' /\ ~crashed'
<1>1. /\ World /\ Mounted /\ panel' = timerFires(panel) /\ panel.timers > 0 /\ ~crashed
      /\ UNCHANGED <<store, pending, opens, news, origin>>
  BY DEF Inv, Timer
<1>2. /\ panel' \in PanelStates(Presets) /\ panel'.visible = panel.visible /\ ~isFlowUpdateOperation(panel')
  <2>1. panel \in PanelStates(Presets) /\ panel.timers \in Nat /\ NoPresets \in Presets
    BY <1>1 DEF World, PanelStates, Presets
  <2>2. panel.timers - 1 \in Nat
    BY <1>1, <2>1
  <2>3. panel'.presets = NoPresets
    BY <1>1, <2>1 DEF timerFires, PanelStates
  <2>4. ~isFlowUpdateOperation(panel')
    BY <2>3 DEF isFlowUpdateOperation, NoPresets
  <2> QED BY <1>1, <2>1, <2>2, <2>4 DEF timerFires, PanelStates
<1>3. CASE form = None
  <2>1. UNCHANGED <<form, lookups, crashed>>
    BY <1>3 DEF Timer
  <2>2. World'
    BY <1>1, <1>2, <2>1 DEF World
  <2>3. Mounted'
    BY <1>1, <1>2, <1>3, <2>1 DEF Mounted
  <2> QED BY <1>1, <2>1, <2>2, <2>3 DEF Inv
<1>4. CASE form # None
  <2> DEFINE published == FALSE
  <2>1. Shows(store, form, panel', TRUE, published)
    BY <1>4 DEF Timer
  <2> HIDE DEF published
  <2>2. /\ form \in Forms /\ FormOK(form) /\ PlaceOK(form, lookups, store) /\ store \in Stores
        /\ form.sel.index < Len(superTokens(store, form.type))
    BY <1>4, MountedIs DEF FormFits
  <2>3. KeptOK(form, panel')
    BY <1>2, <1>4 DEF KeptOK
  <2>4. ~RenderFails(store, form) /\ ~PresetFails(store, form, panel')
    <3>1. form.sel.index \in Int /\ Len(superTokens(store, form.type)) \in Int
      BY <2>2, IndexIs, ListsAre
    <3>2. ~RenderFails(store, form)
      BY <2>2, <3>1 DEF RenderFails
    <3>3. ~PresetFails(store, form, panel')
      BY <1>2 DEF PresetFails
    <3> QED BY <3>2, <3>3
  <2>5. /\ crashed' = FALSE /\ form' # None /\ FormFits(form', lookups', store, panel')
        /\ \A r \in lookups' : ReqOK(r)
    BY <1>2, <2>1, <2>2, <2>3, <2>4, PresetShows
  <2>6. ~Certain
    <3>1. Certain => panel.timers = 0
      BY <1>4, MountedIs DEF UpdateOf
    <3> QED BY <1>1, <3>1
  <2>7. World'
    BY <1>1, <1>2, <2>5 DEF World
  <2>8. Mounted'
    BY <1>1, <1>2, <2>5, <2>6 DEF Mounted, Certain
  <2> QED BY <2>5, <2>7, <2>8 DEF Inv
<1> QED BY <1>3, <1>4

\* A form fits a panel by its presets.
LEMMA FitsPanel ==
  ASSUME NEW f, NEW requests, NEW s, NEW p, NEW q, q.presets = p.presets, FormFits(f, requests, s, p)
  PROVE  FormFits(f, requests, s, q)
<1>1. isFlowUpdateOperation(q) <=> isFlowUpdateOperation(p)
  BY DEF isFlowUpdateOperation
<1>2. existingFlow(s, f, q) = existingFlow(s, f, p)
  BY <1>1 DEF existingFlow
<1> QED BY <1>1, <1>2 DEF FormFits, StillOK, DescriptionOK, Updates

\* The panel moves, the form stays or is gone.
LEMMA PanelStep ==
  ASSUME Inv, Close \/ TransitionEnd \/ Settle
  PROVE  Inv' /\ crashed' = crashed
<1>1. /\ World /\ Mounted /\ UNCHANGED <<store, crashed, opens, news, origin>>
      /\ panel \in PanelStates(Presets) /\ panel.timers \in Nat
  BY DEF Inv, World, PanelStates, Close, TransitionEnd, Settle
<1>2. panel.timers + 1 \in Nat
  BY <1>1
<1>3. /\ panel' \in PanelStates(Presets) /\ panel'.presets = panel.presets
      /\ ~panel'.visible \/ (panel'.visible = panel.visible /\ panel'.timers = panel.timers)
      /\ UNCHANGED <<form, lookups>> \/ (form' = None /\ lookups' = {} /\ ~panel'.visible)
  <2>1. CASE Close
    BY <1>1, <1>2, <2>1 DEF Close, requestClose, PanelStates
  <2>2. CASE TransitionEnd
    BY <1>1, <2>2 DEF TransitionEnd, onTransitionEnd, PanelStates
  <2>3. CASE Settle
    BY <1>1, <1>2, <2>3 DEF Settle, settled, requestClose, PanelStates
  <2> QED BY <2>1, <2>2, <2>3
<1>4. World'
  BY <1>1, <1>3 DEF World
<1>5. Mounted'
  <2>1. CASE form' = None
    BY <1>1, <1>3, <2>1 DEF Mounted
  <2>2. CASE form' # None
    <3>1. form' = form /\ lookups' = lookups /\ form # None
      BY <1>3, <2>2
    <3>2. FormFits(form', lookups', store', panel')
      BY <1>1, <1>3, <3>1, MountedIs, FitsPanel
    <3>3. (Certain => UpdateOf(origin, form, lookups, panel)) /\ \A r \in lookups : ReqOK(r)
      BY <3>1, MountedIs
    <3>4. ASSUME Certain' PROVE UpdateOf(origin, form', lookups', panel')
      BY <1>1, <1>3, <3>1, <3>3, <3>4 DEF Certain, UpdateOf
    <3> QED BY <1>1, <2>2, <3>1, <3>2, <3>3, <3>4 DEF Mounted, Certain
  <2> QED BY <2>1, <2>2
<1> QED BY <1>1, <1>4, <1>5 DEF Inv


\* An answer fails only if its lookup was overtaken by another selection.
LEMMA AnswerStep ==
  ASSUME Inv, NEW req \in lookups, Answer(req)
  PROVE  Inv' /\ (crashed' => form.outrun)
<1>1. /\ form # None /\ World /\ ReqOK(req) /\ UNCHANGED <<store, panel, pending, opens, news, origin>>
  BY DEF Inv, Mounted, Answer
<1>2. /\ store \in Stores /\ form \in Forms /\ FormOK(form) /\ PlaceOK(form, lookups, store) /\ StillOK(form, panel)
      /\ form.sel.index < Len(superTokens(store, form.type))
  BY <1>1, MountedIs DEF FormFits
<1> DEFINE published == FALSE
<1>3. PICK sel \in fetchTokenData(req, req.address) :
        LET g == [form EXCEPT !.sel = sel, !.error = None]
        IN  /\ crashed' = RenderFails(store, g)
            /\ form' = IF crashed' THEN None ELSE DescriptionEffect(store, g, panel, Before, published)
            /\ lookups' = IF crashed' THEN {} ELSE lookups \ {req}
  BY <1>1 DEF Answer, Before
<1> HIDE DEF published
<1>4. sel \in Sels /\ ~sel.loading /\ sel.index = req.sel.index /\ sel.address = req.sel.address
  BY <1>1, AnswerIs
<1> DEFINE g == [form EXCEPT !.sel = sel, !.error = None]
<1>5. /\ g \in Forms /\ g.sel = sel /\ g.type = form.type /\ g.recipient = form.recipient /\ g.custom = form.custom
      /\ g.description = form.description /\ g.moved = form.moved /\ g.outrun = form.outrun /\ g.retyped = form.retyped
  BY <1>2, <1>4 DEF Forms, Sels
<1>6. /\ crashed' = RenderFails(store, g)
      /\ form' = IF crashed' THEN None ELSE DescriptionEffect(store, g, panel, Before, published)
      /\ lookups' = IF crashed' THEN {} ELSE lookups \ {req}
  BY <1>3
<1> HIDE DEF g
<1>7. crashed' \in BOOLEAN
  BY <1>6 DEF RenderFails
<1>8. g.sel.index \in Int /\ Len(superTokens(store, form.type)) \in Int
  BY <1>2, <1>5, IndexIs, ListsAre
<1>9. crashed' => form.outrun
  <2> SUFFICES ASSUME crashed', ~form.outrun PROVE FALSE
    OBVIOUS
  <2>1. req.sel.index = form.sel.index
    BY <1>2 DEF PlaceOK
  <2>2. g.sel.index = form.sel.index /\ g.type = form.type
    BY <1>4, <1>5, <2>1
  <2>3. RenderFails(store, g)
    BY <1>6
  <2> QED BY <1>2, <1>8, <2>2, <2>3 DEF RenderFails
<1>10. World'
  BY <1>1, <1>7 DEF World
<1>11. CASE crashed'
  <2>1. form' = None /\ lookups' = {}
    BY <1>6, <1>11
  <2>2. Mounted'
    BY <1>11, <2>1 DEF Mounted
  <2> QED BY <1>9, <1>10, <2>2 DEF Inv
<1>12. CASE ~crashed'
  <2> DEFINE h == DescriptionEffect(store, g, panel, Before, published)
  <2>1. form' = h /\ lookups' = lookups \ {req} /\ ~RenderFails(store, g)
    BY <1>6, <1>12
  <2>2. h.sel = g.sel /\ h.type = g.type /\ h.recipient = g.recipient /\ h.retyped = g.retyped
    BY <1>5, EffectIs
  <2>3. FormOK(g)
    BY <1>4, <1>5 DEF FormOK
  <2>4. g.sel.index < Len(superTokens(store, g.type))
    BY <1>5, <1>8, <2>1 DEF RenderFails
  <2>5. PlaceOK(g, lookups, store)
    BY <1>2, <1>4, <1>5 DEF PlaceOK
  <2>6. StillOK(g, panel)
    BY <1>2, <1>5 DEF StillOK
  <2>7. KeptOK(g, panel)
    <3>1. DescriptionOK(form, store, panel) /\ form.description \in {"", "typed", "flow's"}
      BY <1>1, <1>2, MountedIs DEF Forms
    <3> QED BY <1>1, <1>5, <3>1 DEF KeptOK, DescriptionOK, Updates
  <2>8. Rendered(g, lookups, store, panel)
    BY <2>3, <2>4, <2>5, <2>6, <2>7 DEF Rendered
  <2>9. FormFits(h, lookups', store, panel) /\ h # None
    <3>1. lookups' \subseteq lookups \cup Lookups(g.sel, g.custom)
      BY <2>1
    <3> QED BY <1>1, <2>8, <3>1, MountedIs, EffectsFit
  <2> HIDE DEF h
  <2>10. Certain => UpdateOf(origin, h, lookups', panel)
    BY <1>1, <1>4, <1>5, <2>1, <2>2, MountedIs DEF UpdateOf
  <2>11. Mounted'
    BY <1>1, <1>12, <2>1, <2>9, <2>10, MountedIs DEF Mounted, Certain
  <2> QED BY <1>9, <1>10, <2>11 DEF Inv
<1> QED BY <1>11, <1>12

\* A form f with the fields of the form, apart from the rate, the error and perhaps the recipient
\* and the description.
LEMMA FieldRendered ==
  ASSUME Inv, form # None, NEW f \in Forms, f.sel = form.sel, f.type = form.type, f.custom = form.custom,
         f.moved = form.moved, f.outrun = form.outrun, f.description \in {"typed", form.description}
  PROVE  Rendered(f, lookups, store, panel)
<1>1. /\ FormOK(form) /\ PlaceOK(form, lookups, store) /\ StillOK(form, panel) /\ form \in Forms
      /\ form.sel.index < Len(superTokens(store, form.type)) /\ DescriptionOK(form, store, panel)
  BY MountedIs DEF FormFits
<1>2. FormOK(f)
  BY <1>1 DEF FormOK
<1>3. PlaceOK(f, lookups, store)
  BY <1>1 DEF PlaceOK
<1>4. StillOK(f, panel)
  BY <1>1 DEF StillOK
<1>5. KeptOK(f, panel)
  <2>1. form.description \in {"", "typed", "flow's"}
    BY <1>1 DEF Forms
  <2> QED BY <1>1, <2>1 DEF KeptOK, DescriptionOK, Updates
<1> QED BY <1>1, <1>2, <1>3, <1>4, <1>5 DEF Rendered

\* A pick in form f, which has the description of the form.
LEMMA PickRendered ==
  ASSUME Inv, form # None, NEW f \in Forms, NEW sel \in Sels, f.description = form.description,
         sel.loading /\ sel.index = -1 => f.custom = sel.address,
         sel.index < Len(superTokens(store, f.type)),
         sel.index >= 0 => superTokens(store, f.type)[sel.index + 1] = sel.address
  PROVE  Rendered(Pick(f, sel, lookups), lookups, store, panel)
<1> DEFINE g == Pick(f, sel, lookups)
<1>1. /\ g \in Forms /\ g.sel = sel /\ g.type = f.type /\ g.recipient = f.recipient
      /\ g.custom = f.custom /\ g.description = f.description /\ ~g.moved
      /\ ~g.outrun => \A r \in lookups : r.sel = sel
  BY PickIs
<1> HIDE DEF g
<1>2. FormOK(g)
  BY <1>1 DEF FormOK
<1>3. PlaceOK(g, lookups, store)
  BY <1>1 DEF PlaceOK
<1>4. StillOK(g, panel)
  BY <1>1 DEF StillOK
<1>5. KeptOK(g, panel)
  <2>1. form \in Forms /\ DescriptionOK(form, store, panel)
    BY MountedIs
  <2>2. form.description \in {"", "typed", "flow's"}
    BY <2>1 DEF Forms
  <2> QED BY <1>1, <2>1, <2>2 DEF KeptOK, DescriptionOK, Updates
<1>6. g.sel.index < Len(superTokens(store, g.type))
  BY <1>1
<1> QED BY <1>2, <1>3, <1>4, <1>5, <1>6 DEF Rendered, g


LEMMA UsableIs ==
  ASSUME Inv, Usable
  PROVE  form # None /\ form \in Forms /\ (Certain => isFlowUpdateOperation(panel) /\ form.sel.index >= 0)
<1>1. form # None
  BY DEF Inv, Mounted, Usable
<1>2. Certain => origin \in Flows /\ panel.presets = PresetsOf(origin) /\ form.sel.index >= 0
  BY <1>1, MountedIs DEF Inv, World, Certain, UpdateOf
<1> QED BY <1>1, <1>2, MountedIs, PresetsOfIs

\* The recipient, the rate and the description.
LEMMA FieldStep ==
  ASSUME Inv,
         \/ handleDescriptionChange \/ (\E r \in Recipients : handleRecipientChange(r))
         \/ (\E r \in FlowRates : handleFlowRateChange(r))
  PROVE  Inv' /\ ~crashed'
<1>1. Usable /\ form # None /\ form \in Forms
  BY UsableIs DEF handleDescriptionChange, handleRecipientChange, handleFlowRateChange
<1>2. ASSUME handleDescriptionChange PROVE Inv' /\ ~crashed'
  <2> DEFINE f == [form EXCEPT !.description = "typed", !.error = None]
  <2>1. Edit(f)
    BY <1>2 DEF handleDescriptionChange
  <2>2. /\ f \in Forms /\ f.sel = form.sel /\ f.type = form.type /\ f.custom = form.custom /\ f.moved = form.moved
        /\ f.outrun = form.outrun /\ f.description = "typed" /\ f.recipient = form.recipient
        /\ f.retyped = form.retyped
    BY <1>1 DEF Forms
  <2> HIDE DEF f
  <2>3. Rendered(f, lookups, store, panel) /\ SameFlow(f)
    BY <1>1, <2>2, FieldRendered DEF SameFlow
  <2> QED BY <1>1, <2>1, <2>3, EditStep
<1>3. ASSUME NEW r \in Recipients, handleRecipientChange(r) PROVE Inv' /\ ~crashed'
  <2> DEFINE again == isFlowUpdateOperation(panel)
             f == [form EXCEPT !.recipient = r, !.error = None, !.retyped = again]
  <2>1. Edit(f) /\ again \in BOOLEAN
    BY <1>3 DEF handleRecipientChange, isFlowUpdateOperation
  <2>0. Certain => again
    BY <1>1, UsableIs
  <2> HIDE DEF again
  <2>2. /\ f \in Forms /\ f.sel = form.sel /\ f.type = form.type /\ f.custom = form.custom /\ f.moved = form.moved
        /\ f.outrun = form.outrun /\ f.description = form.description /\ f.retyped = again
    BY <1>1, <2>1 DEF Forms
  <2> HIDE DEF f
  <2>3. Rendered(f, lookups, store, panel)
    BY <1>1, <2>2, FieldRendered
  <2>4. Certain => SameFlow(f)
    BY <2>0, <2>2 DEF SameFlow
  <2> QED BY <1>1, <2>1, <2>3, <2>4, EditStep
<1>4. ASSUME NEW r \in FlowRates, handleFlowRateChange(r) PROVE Inv' /\ ~crashed'
  <2> DEFINE f == [form EXCEPT !.rate = r, !.error = None]
  <2>1. Edit(f)
    BY <1>4 DEF handleFlowRateChange
  <2>2. r \in Nat
    <3>1. PICK v \in Values, u \in Units : r = v \div u
      BY DEF FlowRates
    <3>2. Values \subseteq Nat /\ Units \subseteq Nat \ {0}
      BY FlowAssumption
    <3>3. v \in Nat /\ u \in Nat /\ u > 0
      BY <3>2
    <3> QED BY <3>1, <3>3
  <2>3. /\ f \in Forms /\ f.sel = form.sel /\ f.type = form.type /\ f.custom = form.custom /\ f.moved = form.moved
        /\ f.outrun = form.outrun /\ f.description = form.description /\ f.recipient = form.recipient
        /\ f.retyped = form.retyped
    BY <1>1, <2>2 DEF Forms
  <2> HIDE DEF f
  <2>4. Rendered(f, lookups, store, panel) /\ SameFlow(f)
    BY <1>1, <2>3, FieldRendered DEF SameFlow
  <2> QED BY <1>1, <2>1, <2>4, EditStep
<1> QED BY <1>2, <1>3, <1>4

LEMMA TypeStep ==
  ASSUME Inv, NEW type \in 0..1, SelectType(type)
  PROVE  Inv' /\ ~crashed'
<1> DEFINE f == [form EXCEPT !.type = type, !.recipient = IF type = 0 THEN Agent ELSE NONE, !.error = None]
           sel == INITIAL_SELECTED_TOKEN
<1>1. Usable /\ form # None /\ form \in Forms /\ store \in Stores /\ ~isFlowUpdateOperation(panel)
  BY UsableIs, MountedIs DEF SelectType
<1>2. f \in Forms /\ f.description = form.description
  <2> DEFINE who == IF type = 0 THEN Agent ELSE NONE
  <2>1. who \in Recipients \cup Addresses \cup {NONE}
    BY FlowAssumption
  <2>2. f = [form EXCEPT !.type = type, !.recipient = who, !.error = None]
    OBVIOUS
  <2> HIDE DEF who
  <2> QED BY <1>1, <2>1, <2>2 DEF Forms
<1>3. Edit(Pick(f, sel, lookups))
  BY DEF SelectType, handleFlowTypeChange
<1>4. sel \in Sels /\ sel.index = -2
  BY InitialIs
<1> HIDE DEF f, sel
<1>5. sel.index < Len(superTokens(store, f.type)) /\ ~(sel.index >= 0) /\ sel.index # -1
  <2>1. Len(superTokens(store, f.type)) \in Nat
    BY <1>1, ListsAre
  <2> QED BY <1>4, <2>1
<1>6. Rendered(Pick(f, sel, lookups), lookups, store, panel)
  BY <1>1, <1>2, <1>4, <1>5, PickRendered
<1>7. ~Certain
  BY <1>1, UsableIs
<1> QED BY <1>1, <1>3, <1>6, <1>7, EditStep

LEMMA TokenStep ==
  ASSUME Inv, NEW i \in -1..Len(Catalogue) - 1, SelectToken(i)
  PROVE  Inv' /\ ~crashed'
<1> DEFINE f == [form EXCEPT !.custom = NONE, !.error = None]
           load == form.type = 0
           list == superTokens(store, form.type)
           sel == handleDropDownChange(list, i, load)
<1>1. Usable /\ form # None /\ form \in Forms /\ store \in Stores /\ ~isFlowUpdateOperation(panel)
  BY UsableIs, MountedIs DEF SelectToken, SelectorEnabled
<1>2. f \in Forms /\ f.description = form.description /\ f.type = form.type /\ f.custom = NONE
  BY <1>1 DEF Forms
<1>3. Edit(Pick(f, sel, lookups)) /\ i < Len(list) /\ load \in BOOLEAN
  BY DEF SelectToken
<1>4. i = -1 \/ i \in Nat
  BY TokenAssumption
<1>5. /\ sel \in Sels /\ sel.index = i /\ (i = -1 => sel.address = NONE)
      /\ (i >= 0 => list[i + 1] = sel.address)
  <2> HIDE DEF load
  <2>1. CASE i = -1
    BY <1>3, <2>1, OtherIs
  <2>2. CASE i \in Nat
    <3>1. sel = Listed(list, i, load)
      BY <2>2 DEF handleDropDownChange
    <3>2. Listed(list, i, load) \in Sels /\ Listed(list, i, load).index = i /\ Listed(list, i, load).address = list[i + 1]
      BY <1>1, <1>3, <2>2, ListedIs
    <3> HIDE DEF sel, list
    <3> QED BY <2>2, <3>1, <3>2
  <2> QED BY <1>4, <2>1, <2>2
<1> HIDE DEF f, sel, load
<1>6. /\ sel.index < Len(superTokens(store, f.type))
      /\ sel.index >= 0 => superTokens(store, f.type)[sel.index + 1] = sel.address
      /\ sel.loading /\ sel.index = -1 => f.custom = sel.address
  BY <1>2, <1>3, <1>5
<1>7. Rendered(Pick(f, sel, lookups), lookups, store, panel)
  BY <1>1, <1>2, <1>5, <1>6, PickRendered
<1>8. ~Certain
  BY <1>1, UsableIs
<1> QED BY <1>1, <1>3, <1>7, <1>8, EditStep

LEMMA AddressStep ==
  ASSUME Inv, NEW a \in Typed, TypeAddress(a)
  PROVE  Inv' /\ ~crashed'
<1> DEFINE f == [form EXCEPT !.custom = a, !.error = None]
           sel == handleCustomTokenAddressChange(a)
<1>1. Usable /\ form # None /\ form \in Forms /\ store \in Stores /\ form.sel.index = -1
  BY UsableIs, MountedIs DEF TypeAddress
<1>2. f \in Forms /\ f.description = form.description /\ f.custom = a
  BY <1>1 DEF Forms
<1>3. Edit(Pick(f, sel, lookups))
  BY DEF TypeAddress
<1>4. sel \in Sels /\ sel.index = -1 /\ sel.address = a
  BY TypedIs
<1> HIDE DEF f, sel
<1>5. sel.index < Len(superTokens(store, f.type)) /\ ~(sel.index >= 0)
  <2>1. Len(superTokens(store, f.type)) \in Nat
    BY <1>1, ListsAre
  <2> QED BY <1>4, <2>1
<1>6. Rendered(Pick(f, sel, lookups), lookups, store, panel)
  BY <1>1, <1>2, <1>4, <1>5, PickRendered
<1>7. ~Certain
  <2>1. Certain => form.sel.index >= 0
    BY <1>1, UsableIs
  <2> QED BY <1>1, <2>1
<1> QED BY <1>1, <1>3, <1>6, <1>7, EditStep


LEMMA SubmitStep ==
  ASSUME Inv, handleSubmit
  PROVE  Inv' /\ crashed' = crashed
<1>1. /\ form # None /\ form \in Forms /\ FormFits(form, lookups, store, panel) /\ panel \in PanelStates(Presets)
      /\ \A r \in lookups : ReqOK(r)
      /\ UNCHANGED <<store, lookups, crashed, opens, news, origin>>
  BY UsableIs, MountedIs DEF handleSubmit
<1>2. /\ panel' \in PanelStates(Presets) /\ panel'.presets = panel.presets /\ panel'.visible = panel.visible
      /\ panel'.timers = panel.timers
  BY <1>1 DEF handleSubmit, requestTransaction, PanelStates
<1>3. PICK error \in {None, "no address", "to the agent", "deposit"} : form' = form \/ form' = [form EXCEPT !.error = error]
  BY DEF handleSubmit, validateFields
<1>4. /\ form' \in Forms /\ form'.sel = form.sel /\ form'.type = form.type /\ form'.custom = form.custom
      /\ form'.moved = form.moved /\ form'.outrun = form.outrun /\ form'.description = form.description
      /\ form'.recipient = form.recipient /\ form'.retyped = form.retyped
  BY <1>1, <1>3 DEF Forms
<1>5. FormFits(form', lookups, store, panel)
  <2>1. existingFlow(store, form', panel) = existingFlow(store, form, panel)
    BY <1>4 DEF existingFlow
  <2>2. FormOK(form') /\ form'.sel.index < Len(superTokens(store, form'.type))
    BY <1>1, <1>4 DEF FormFits, FormOK
  <2>3. PlaceOK(form', lookups, store)
    BY <1>1, <1>4 DEF FormFits, PlaceOK
  <2>4. StillOK(form', panel)
    BY <1>1, <1>4 DEF FormFits, StillOK
  <2>5. DescriptionOK(form', store, panel)
    BY <1>1, <1>4, <2>1 DEF FormFits, DescriptionOK, Updates
  <2> QED BY <2>2, <2>3, <2>4, <2>5 DEF FormFits
<1>6. FormFits(form', lookups', store', panel')
  BY <1>1, <1>2, <1>5, FitsPanel
<1>7. Certain => UpdateOf(origin, form', lookups, panel')
  BY <1>1, <1>2, <1>4, MountedIs DEF UpdateOf
<1>8. form' # None
  BY <1>4, FlowAssumption
<1>9. World'
  BY <1>1, <1>2 DEF Inv, World
<1>10. Mounted'
  BY <1>1, <1>2, <1>6, <1>7, <1>8 DEF Mounted, Certain
<1> QED BY <1>1, <1>9, <1>10 DEF Inv

-----------------------------------------------------------------------------
(* The specification.                                                       *)

LEMMA InitOK == Init => Inv
<1> SUFFICES ASSUME Init PROVE Inv
  OBVIOUS
<1>1. ClosedPanel \in PanelStates(Presets) /\ ~ClosedPanel.visible
  BY DEF ClosedPanel, PanelStates, Presets
<1>2. opens \in Nat /\ news \in Nat
  BY DEF Init
<1>3. World
  BY <1>1, <1>2, FlowAssumption DEF Init, World
<1>4. Mounted
  BY <1>1 DEF Init, Mounted
<1> QED BY <1>3, <1>4 DEF Inv

\* The published states are states of the store.
LEMMA NewsStep ==
  ASSUME Inv,
         \/ \E x \in Flows : FlowChange(x)
         \/ \E t \in CatalogueTokens : NewToken(t) \/ \E b \in Funds : FundsChange(t, b)
  PROVE  Inv' /\ news' # news
<1>1. store \in Stores
  BY DEF Inv, World
<1>2. ASSUME NEW x \in Flows, FlowChange(x) PROVE Inv' /\ news' # news
  <2> DEFINE s == [store EXCEPT !.flows = (@ \ {x}) \cup ({x} \ @)]
  <2>1. s \in Stores
    BY <1>1 DEF Stores
  <2>2. Published(s)
    BY <1>2 DEF FlowChange
  <2> HIDE DEF s
  <2> QED BY <2>1, <2>2, PublishedStep
<1>3. ASSUME NEW t \in CatalogueTokens, NewToken(t) PROVE Inv' /\ news' # news
  <2> DEFINE s == [store EXCEPT !.listed = @ \cup {t}]
  <2>1. s \in Stores
    BY <1>1 DEF Stores
  <2>2. Published(s)
    BY <1>3 DEF NewToken
  <2> HIDE DEF s
  <2> QED BY <2>1, <2>2, PublishedStep
<1>4. ASSUME NEW t \in CatalogueTokens, NEW b \in Funds, FundsChange(t, b) PROVE Inv' /\ news' # news
  <2> DEFINE s == [store EXCEPT !.funds[t] = b]
  <2>1. b \in Nat
    BY FlowAssumption
  <2>2. s \in Stores
    BY <1>1, <2>1 DEF Stores
  <2>3. Published(s)
    BY <1>4 DEF FundsChange
  <2> HIDE DEF s
  <2> QED BY <2>2, <2>3, PublishedStep
<1> QED BY <1>2, <1>3, <1>4

\* Each step keeps the invariant, and fails only where EditsNeverCrash allows it.
CrashIsExcused ==
  crashed' /\ ~crashed => opens' # opens \/ news' # news \/ (form.outrun /\ lookups # {})

LEMMA NextOK == Inv /\ [Next]_vars => Inv' /\ CrashIsExcused
<1> SUFFICES ASSUME Inv, [Next]_vars PROVE Inv' /\ CrashIsExcused
  OBVIOUS
<1>1. ASSUME OpenCreate PROVE Inv' /\ CrashIsExcused
  <2>1. NoPresets \in Presets
    BY DEF Presets
  <2> QED BY <1>1, <2>1, OpeningStep DEF OpenCreate, CrashIsExcused
<1>2. ASSUME NEW x \in Flows, OpenUpdate(x) PROVE Inv' /\ CrashIsExcused
  <2>1. PresetsOf(x) \in Presets /\ Opening(PresetsOf(x), x)
    BY <1>2 DEF Presets, OpenUpdate, PresetsOf
  <2> QED BY <2>1, OpeningStep DEF CrashIsExcused
<1>3. ASSUME Close \/ TransitionEnd \/ Settle PROVE Inv' /\ CrashIsExcused
  BY <1>3, PanelStep DEF CrashIsExcused
<1>4. ASSUME Timer PROVE Inv' /\ CrashIsExcused
  BY <1>4, TimerStep DEF CrashIsExcused
<1>5. ASSUME \/ handleDescriptionChange \/ (\E r \in Recipients : handleRecipientChange(r))
             \/ (\E r \in FlowRates : handleFlowRateChange(r))
      PROVE  Inv' /\ CrashIsExcused
  BY <1>5, FieldStep DEF CrashIsExcused
<1>6. ASSUME handleSubmit PROVE Inv' /\ CrashIsExcused
  BY <1>6, SubmitStep DEF CrashIsExcused
<1>7. ASSUME NEW type \in 0..1, SelectType(type) PROVE Inv' /\ CrashIsExcused
  BY <1>7, TypeStep DEF CrashIsExcused
<1>8. ASSUME NEW i \in -1..Len(Catalogue) - 1, SelectToken(i) PROVE Inv' /\ CrashIsExcused
  BY <1>8, TokenStep DEF CrashIsExcused
<1>9. ASSUME NEW a \in Typed, TypeAddress(a) PROVE Inv' /\ CrashIsExcused
  BY <1>9, AddressStep DEF CrashIsExcused
<1>10. ASSUME NEW req \in lookups, Answer(req) PROVE Inv' /\ CrashIsExcused
  BY <1>10, AnswerStep DEF CrashIsExcused
<1>11. ASSUME \/ \E x \in Flows : FlowChange(x)
              \/ \E t \in CatalogueTokens : NewToken(t) \/ \E b \in Funds : FundsChange(t, b)
       PROVE  Inv' /\ CrashIsExcused
  BY <1>11, NewsStep DEF CrashIsExcused
<1>12. ASSUME UNCHANGED vars PROVE Inv' /\ CrashIsExcused
  BY <1>12 DEF Inv, World, Mounted, vars, CrashIsExcused
<1> QED
  BY <1>1, <1>2, <1>3, <1>4, <1>5, <1>6, <1>7, <1>8, <1>9, <1>10, <1>11, <1>12 DEF Next

LEMMA InvAlways == Spec => []Inv
  BY InitOK, NextOK, PTL DEF Spec

\* Whatever is typed, answered or published, the form keeps its shape, a visible panel has one, and
\* requiredDeposit is looked up at a position that the list of the form's type has.
THEOREM FormIsMounted == Spec => []TypeOK
<1>1. Inv => TypeOK
  BY DEF Inv, Mounted, FormFits, FormOK, TypeOK
<1> QED BY <1>1, InvAlways, PTL

\* No change of type, recipient, token, rate or description, no timer and no transaction takes the app
\* down: a render of UpdateFlow fails only at an opening, at a published state, or at the late answer
\* of a lookup that another selection overtook.
THEOREM EditsAreSafe == Spec => EditsNeverCrash
<1>1. Inv /\ [Next]_vars => [CrashIsExcused]_vars
  BY NextOK
<1>2. [][CrashIsExcused]_vars => EditsNeverCrash
  BY PTL DEF CrashIsExcused, EditsNeverCrash
<1> QED BY <1>1, <1>2, InvAlways, PTL DEF Spec

\* validateFields looks the agent's balance up by the position of the token and the transaction sends
\* its address: in an outgoing flow that passes, the balance of the token sent covers the deposit,
\* unless the list of a creation moved under the selection or a lookup was overtaken.
THEOREM DepositIsCovered == Spec => []FundsCover
<1>1. Inv => FundsCover
  <2> SUFFICES ASSUME Inv, Sendable, form.type = 1, form.sel.index >= 0, ~form.outrun,
                      isFlowUpdateOperation(panel) \/ ~form.moved
               PROVE  form.rate * Period[form.sel.address] <= store.funds[form.sel.address]
    BY DEF FundsCover
  <2> DEFINE list == superTokens(store, 1)
             a == form.sel.address
             i == form.sel.index
  <2>1. form # None /\ form \in Forms /\ store \in Stores /\ FormFits(form, lookups, store, panel)
    BY UsableIs, MountedIs DEF Sendable
  <2>2. ~form.moved
    BY <2>1 DEF FormFits, StillOK
  <2>3. list[i + 1] = a
    BY <2>1, <2>2 DEF FormFits, PlaceOK
  <2>4. i < Len(list) /\ i \in Int
    BY <2>1, IndexIs DEF FormFits
  <2>5. a \in CatalogueTokens
    <3> DEFINE n == Len(list)
    <3>1. n \in Nat /\ i < n /\ i \in Int /\ i >= 0
      BY <2>1, <2>4, ListsAre
    <3> HIDE DEF n, i
    <3>2. i + 1 \in 1..n
      BY <3>1
    <3>3. list[i + 1] \in CatalogueTokens
      BY <2>1, <3>2, ListsAre DEF n
    <3> QED BY <2>3, <3>3
  <2>6. ~(store.funds[list[i + 1]] < form.rate * Period[list[i + 1]])
    BY FlowAssumption DEF Sendable, validateFields, calculateRequiredDeposit
  <2> HIDE DEF a, i, list
  <2>7. ~(store.funds[a] < form.rate * Period[a])
    BY <2>3, <2>6
  <2>8. store.funds[a] \in Nat /\ form.rate \in Nat /\ Period[a] \in Nat
    BY <2>1, <2>5, FlowAssumption DEF Stores, Forms
  <2> DEFINE deposit == form.rate * Period[a]
             funds == store.funds[a]
  <2>9. deposit \in Nat
    BY <2>8
  <2>10. funds \in Nat /\ ~(funds < deposit)
    BY <2>7, <2>8
  <2> HIDE DEF deposit, funds
  <2>11. deposit <= funds
    BY <2>9, <2>10
  <2> QED BY <2>11 DEF deposit, funds, a
<1> QED BY <1>1, InvAlways, PTL

\* A panel opened from a flow's menu with no timer and no lookup left over sends an update of that flow,
\* to the rate that was typed, whatever is published or answered meanwhile; to the flow's recipient unless
\* another was typed since the presets were set last.
THEOREM UpdateIsKept == Spec => []UpdateStaysUpdate
<1>1. Inv => UpdateStaysUpdate
  <2> SUFFICES ASSUME Inv, Sendable, origin # None
               PROVE  /\ ~Creates(form) /\ calculateNewFlowRate(form) = form.rate
                      /\ form.sel.address = origin.token /\ form.type = IF origin.incoming THEN 0 ELSE 1
                      /\ form.retyped \/ form.recipient = IF origin.incoming THEN Agent ELSE origin.entity
    BY DEF UpdateStaysUpdate
  <2>1. Usable /\ Certain /\ form # None /\ form \in Forms
    BY UsableIs DEF Sendable, Usable, Certain
  <2>2. UpdateOf(origin, form, lookups, panel) /\ isFlowUpdateOperation(panel)
    BY <2>1, MountedIs, UsableIs
  <2>3. ~Creates(form) /\ existingFlow(store, form, panel) = None
    BY <2>2 DEF Creates, existingFlow
  <2>4. calculateNewFlowRate(form) = form.rate
    <3>1. form.rate \in Nat
      BY <2>1 DEF Forms
    <3>2. calculateNewFlowRate(form) = form.rate + 0
      BY <2>3 DEF calculateNewFlowRate
    <3> QED BY <3>1, <3>2
  <2> QED BY <2>2, <2>3, <2>4 DEF UpdateOf
<1> QED BY <1>1, InvAlways, PTL

\* In whatever order recipient, token and type are chosen and flows open and close, a description that
\* was not typed is the flow's when a flow is updated and empty when one is created.
THEOREM DescriptionIsRight == Spec => []DescriptionFits
<1>1. Inv => DescriptionFits
  <2> SUFFICES ASSUME Inv, Sendable PROVE form.description # "typed" => (form.description = "flow's" <=> ~Creates(form))
    BY DEF DescriptionFits
  <2>1. DescriptionOK(form, store, panel)
    BY UsableIs, MountedIs DEF Sendable
  <2> QED BY <2>1 DEF DescriptionOK, Updates, Creates
<1> QED BY <1>1, InvAlways, PTL
=============================================================================
