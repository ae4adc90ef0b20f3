-------------------------- MODULE TokenFormsProofs --------------------------
(***************************************************************************)
(* For any tokens, any texts typed and any order in which lookups and      *)
(* transactions are answered: the data of a selection are its token's,     *)
(* what is sent is what was picked, in the amount that was typed or that   *)
(* Max put in, and the wait shown is the transaction in flight.            *)
(***************************************************************************)
EXTENDS TokenForms, DataProofs

Presets == [token : CatalogueTokens \cup {None}, recipient : {None}, flowType : {None}]
Sels == Selections(Addresses \cup Typed \cup {NONE}, -2..Len(Catalogue) - 1)
Requests == [sel : Sels, address : Addresses, isCustomToken : BOOLEAN]

\* The token that is asked for the data of selection s in a form of this kind.
Asked(s, kind) ==
  IF s.index = -1 /\ s.address \in SuperTokens /\ kind = "Upgrade" THEN Underlying[s.address] ELSE s.address

Consistent(s, kind) ==
  /\ s.decimals # None => s.decimals = DecimalsOf[Asked(s, kind)]
  /\ s.balance # None => s.balance = BalanceOf[Asked(s, kind)]

\* In what follows S are the listed tokens.
SelOK(s, S, kind) ==
  /\ s \in Sels /\ s.index < Len(Listing(S))
  /\ Consistent(s, kind) /\ (s.loading => s.balance = None)
  /\ s.index = -2 => s.address = NONE

\* A lookup in flight was started for the selection it carries.
ReqOK(r, S, kind) ==
  /\ r \in Requests /\ SelOK(r.sel, S, kind)
  /\ r.address = r.sel.address
  /\ r.isCustomToken <=> r.sel.index = -1

\* A selection that is still loading is the one in the field of the form.
FormOK(f, S, kind) ==
  /\ f \in Forms /\ SelOK(f.sel, S, kind)
  /\ f.sel.loading /\ f.sel.index = -1 => f.custom = f.sel.address

\* Unless it was outrun, a pick is followed only by lookups for itself, and stands.
PickOK(f, requests, S, kind) ==
  ~f.outrun =>
    /\ \A r \in requests : r.sel.index = f.sel.index /\ r.sel.address = f.sel.address
    /\ f.sel.address # NONE =>
         IF kind = "Upgrade" /\ f.sel.index # -1
         THEN ~f.moved => Listing(S)[f.sel.index + 1] = f.pick
         ELSE f.sel.address = f.pick

World ==
  /\ which \in {"transfer", "convert"} /\ tab \in 0..1 /\ pending \in Nat /\ strayed \in BOOLEAN
  /\ listed \subseteq CatalogueTokens /\ funded \subseteq listed
  /\ panel \in PanelStates(Presets)
  /\ panel.presets.token # None => panel.presets.token \in listed

Mounted ==
  /\ panel.visible => form # None
  /\ form = None => lookups = {}
  /\ form # None => FormOK(form, listed, Kind) /\ PickOK(form, lookups, listed, Kind)
  /\ \A r \in lookups : ReqOK(r, listed, Kind)

\* The inductive invariant.
Inv == World /\ Mounted /\ WaitIsPending
-----------------------------------------------------------------------------
(* The lists.                                                               *)

LEMMA ListingIs ==
  ASSUME NEW S \in SUBSET CatalogueTokens
  PROVE  /\ Len(Listing(S)) \in Nat /\ Len(Listing(S)) <= Len(Catalogue)
         /\ DOMAIN Listing(S) = 1..Len(Listing(S))
         /\ \A k \in 1..Len(Listing(S)) : Listing(S)[k] \in S
         /\ \A t \in S : \E k \in 1..Len(Listing(S)) : Listing(S)[k] = t
<1>1. Catalogue \in Seq(SuperTokens)
  BY TokenAssumption
<1>2. /\ Len(Listing(S)) \in Nat /\ Len(Listing(S)) <= Len(Catalogue)
      /\ DOMAIN Listing(S) = 1..Len(Listing(S))
      /\ \A k \in 1..Len(Listing(S)) : Listing(S)[k] \in S
      /\ \A i \in DOMAIN Catalogue : Catalogue[i] \in S => \E k \in 1..Len(Listing(S)) : Listing(S)[k] = Catalogue[i]
  BY <1>1, KeptOf DEF Listing
<1>3. \A t \in S : \E i \in DOMAIN Catalogue : t = Catalogue[i]
  BY DEF CatalogueTokens
<1> QED BY <1>2, <1>3

LEMMA ListingLonger ==
  ASSUME NEW U \in SUBSET CatalogueTokens, NEW S \in SUBSET U
  PROVE  Len(Listing(S)) <= Len(Listing(U))
  BY TokenAssumption, KeptLonger DEF Listing

LEMMA CatalogueIs == CatalogueTokens \subseteq SuperTokens /\ CatalogueTokens \subseteq Addresses
  BY TokenAssumption DEF CatalogueTokens

\* What the selector of a form lists.
LEMMA OfferIs ==
  ASSUME World
  PROVE  /\ Len(Offer.tokens) \in Nat /\ Len(Offer.tokens) <= Len(superTokens)
         /\ \A k \in 1..Len(Offer.tokens) : Offer.tokens[k] \in Addresses /\ Offer.behind[k] \in Addresses
         /\ Offer.loads \in BOOLEAN
         /\ Kind = "Upgrade" => Offer.behind = superTokens
         /\ Kind # "Upgrade" => Offer.behind = Offer.tokens
<1>1. Kind \in {"Deposit", "Withdrawal", "Upgrade", "Downgrade"}
  BY DEF World, Kind, Tabs
<1>2. listed \in SUBSET CatalogueTokens /\ listed \cap funded \in SUBSET listed
  BY DEF World
<1>3. /\ Len(superTokens) \in Nat /\ DOMAIN superTokens = 1..Len(superTokens)
      /\ \A k \in 1..Len(superTokens) : superTokens[k] \in listed
  BY <1>2, ListingIs DEF superTokens
<1>4. /\ Len(availableSuperTokens) \in Nat
      /\ \A k \in 1..Len(availableSuperTokens) : availableSuperTokens[k] \in listed
      /\ Len(availableSuperTokens) <= Len(superTokens)
  BY <1>2, ListingIs, ListingLonger DEF superTokens, availableSuperTokens
<1>5. \A t \in listed : t \in Addresses /\ Underlying[t] \in Addresses
  BY <1>2, CatalogueIs, FormAssumption
<1>6. CASE Kind \in {"Deposit", "Downgrade"}
  <2>1. Offer.tokens = superTokens /\ Offer.behind = superTokens /\ Offer.loads \in BOOLEAN
    BY <1>6 DEF Offer, Deposit, Downgrade
  <2>2. Kind # "Upgrade"
    BY <1>6
  <2>3. \A k \in 1..Len(superTokens) : superTokens[k] \in Addresses
    BY <1>3, <1>5
  <2> QED BY <1>3, <2>1, <2>2, <2>3
<1>7. CASE Kind = "Withdrawal"
  <2>1. Offer.tokens = availableSuperTokens /\ Offer.behind = availableSuperTokens /\ Offer.loads \in BOOLEAN
    BY <1>7 DEF Offer, Withdrawal
  <2> QED BY <1>3, <1>4, <1>5, <1>7, <2>1
<1>8. CASE Kind = "Upgrade"
  <2> DEFINE under == [i \in DOMAIN superTokens |-> Underlying[superTokens[i]]]
  <2>1. Offer.tokens = under /\ Offer.behind = superTokens /\ Offer.loads \in BOOLEAN
    BY <1>8 DEF Offer, Upgrade
  <2>2. Len(under) = Len(superTokens)
    BY <1>3
  <2>3. \A k \in 1..Len(superTokens) : under[k] \in Addresses
    BY <1>3, <1>5
  <2> HIDE DEF under
  <2>4. \A k \in 1..Len(superTokens) : superTokens[k] \in Addresses
    BY <1>3, <1>5
  <2> QED BY <1>3, <1>8, <2>1, <2>2, <2>3, <2>4
<1> QED BY <1>1, <1>6, <1>7, <1>8
LEMMA PositionsAre ==
  ASSUME NEW S \in SUBSET CatalogueTokens
  PROVE  Len(Listing(S)) \in Nat /\ Len(Catalogue) \in Nat /\ Len(Listing(S)) <= Len(Catalogue)
  BY ListingIs, TokenAssumption

-----------------------------------------------------------------------------
(* Selections.                                                              *)

LEMMA InitialOK ==
  ASSUME NEW S \in SUBSET CatalogueTokens, NEW kind
  PROVE  SelOK(INITIAL_SELECTED_TOKEN, S, kind)
  BY PositionsAre DEF INITIAL_SELECTED_TOKEN, SelOK, Sels, Selections, Consistent

\* A token picked from a list that is no longer than the list of Super Tokens.
LEMMA ListedIs ==
  ASSUME NEW tokens, NEW i, NEW load
  PROVE  LET s == Listed(tokens, i, load)
         IN  s.index = i /\ s.address = tokens[i + 1] /\ s.decimals = DecimalsOf[tokens[i + 1]] /\ s.balance = None
  BY DEF Listed, INITIAL_SELECTED_TOKEN

LEMMA ListedOK ==
  ASSUME NEW S \in SUBSET CatalogueTokens, NEW kind, NEW tokens, NEW i \in Nat, i < Len(Listing(S)),
         tokens[i + 1] \in Addresses, NEW load \in BOOLEAN
  PROVE  SelOK(Listed(tokens, i, load), S, kind)
<1> DEFINE s == Listed(tokens, i, load)
<1>1. s.index = i /\ s.address = tokens[i + 1] /\ s.decimals = DecimalsOf[tokens[i + 1]] /\ s.balance = None
  BY ListedIs
<1>2. i \in -2..Len(Catalogue) - 1 /\ i # -1 /\ i # -2
  BY PositionsAre
<1>3. s \in Sels
  BY <1>2 DEF Sels, Selections, Listed, INITIAL_SELECTED_TOKEN
<1> HIDE DEF s
<1>4. Consistent(s, kind)
  BY <1>1, <1>2 DEF Consistent, Asked
<1> QED BY <1>1, <1>2, <1>3, <1>4 DEF SelOK, s

\* "Other...", or an address that is typed: nothing is known of the token yet.
LEMMA UnknownOK ==
  ASSUME NEW S \in SUBSET CatalogueTokens, NEW kind, NEW s \in Sels,
         s.index = -1, s.decimals = None, s.balance = None
  PROVE  SelOK(s, S, kind)
  BY PositionsAre DEF SelOK, Consistent

LEMMA OtherOK ==
  ASSUME NEW S \in SUBSET CatalogueTokens, NEW kind, NEW load \in BOOLEAN
  PROVE  LET s == [INITIAL_SELECTED_TOKEN EXCEPT !.index = -1, !.loading = load]
         IN  SelOK(s, S, kind) /\ s.index = -1 /\ s.address = NONE
<1> DEFINE s == [INITIAL_SELECTED_TOKEN EXCEPT !.index = -1, !.loading = load]
<1>1. s.index = -1 /\ s.address = NONE /\ s.decimals = None /\ s.balance = None
  BY DEF INITIAL_SELECTED_TOKEN
<1>2. s \in Sels
  <2>1. -1 \in -2..Len(Catalogue) - 1
    BY PositionsAre
  <2> QED BY <2>1 DEF Sels, Selections, INITIAL_SELECTED_TOKEN
<1> HIDE DEF s
<1>3. SelOK(s, S, kind)
  BY <1>1, <1>2, UnknownOK
<1> QED BY <1>1, <1>3 DEF s

LEMMA TypedOK ==
  ASSUME NEW S \in SUBSET CatalogueTokens, NEW kind, NEW a \in Typed
  PROVE  LET s == handleCustomTokenAddressChange(a)
         IN  SelOK(s, S, kind) /\ s.index = -1 /\ s.address = a
<1> DEFINE s == handleCustomTokenAddressChange(a)
<1>1. s.index = -1 /\ s.address = a /\ s.decimals = None /\ s.balance = None
  BY DEF INITIAL_SELECTED_TOKEN, handleCustomTokenAddressChange
<1>2. s \in Sels
  <2>1. -1 \in -2..Len(Catalogue) - 1
    BY PositionsAre
  <2> QED BY <2>1 DEF Sels, Selections, INITIAL_SELECTED_TOKEN, handleCustomTokenAddressChange
<1> HIDE DEF s
<1>3. SelOK(s, S, kind)
  BY <1>1, <1>2, UnknownOK
<1> QED BY <1>1, <1>3 DEF s

\* Deposit's preset is found at its place in the list.
LEMMA FindOK ==
  ASSUME NEW S \in SUBSET CatalogueTokens, NEW kind, NEW token \in S
  PROVE  LET s == Find(Listing(S), token, TRUE)
         IN  SelOK(s, S, kind) /\ s.index \in Nat /\ s.address = token
<1> DEFINE k == CHOOSE i \in DOMAIN Listing(S) : Listing(S)[i] = token
<1>1. k \in 1..Len(Listing(S)) /\ Listing(S)[k] = token /\ token \in Addresses
  BY ListingIs, CatalogueIs
<1>2. k - 1 \in Nat /\ k - 1 < Len(Listing(S)) /\ (k - 1) + 1 = k
  BY <1>1, PositionsAre
<1>3. Find(Listing(S), token, TRUE) = Listed(Listing(S), k - 1, TRUE)
  BY DEF Find
<1> HIDE DEF k
<1>4. SelOK(Listed(Listing(S), k - 1, TRUE), S, kind)
  BY <1>1, <1>2, ListedOK
<1>5. Listed(Listing(S), k - 1, TRUE).index = k - 1 /\ Listed(Listing(S), k - 1, TRUE).address = Listing(S)[k]
  BY <1>2 DEF Listed, INITIAL_SELECTED_TOKEN
<1> QED BY <1>1, <1>2, <1>3, <1>4, <1>5

\* The effect starts a lookup for the selection that is shown.
LEMMA LookupsOK ==
  ASSUME NEW S \in SUBSET CatalogueTokens, NEW kind, NEW f, FormOK(f, S, kind), NEW r \in Lookups(f.sel, f.custom)
  PROVE  ReqOK(r, S, kind) /\ r.sel = f.sel
<1> DEFINE isCustom == f.custom # NONE /\ f.sel.index = -1
           address == IF isCustom THEN f.custom ELSE f.sel.address
<1>1. /\ f.sel.loading /\ address \in Addresses
      /\ r = [sel |-> f.sel, address |-> address, isCustomToken |-> isCustom]
  BY DEF Lookups
<1>2. f.sel \in Sels /\ SelOK(f.sel, S, kind) /\ (f.sel.index = -1 => f.custom = f.sel.address)
  BY <1>1 DEF FormOK, SelOK
<1>3. address = f.sel.address
  BY <1>2
<1>4. isCustom <=> f.sel.index = -1
  BY <1>1, <1>2, <1>3, TokenAssumption
<1> HIDE DEF isCustom, address
<1>5. isCustom \in BOOLEAN
  BY DEF isCustom
<1> QED BY <1>1, <1>2, <1>3, <1>4, <1>5 DEF ReqOK, Requests
\* An answer hands back the selection the lookup was started for, with the data of its token.
LEMMA AnswerOK ==
  ASSUME NEW S \in SUBSET CatalogueTokens, NEW kind, NEW req, ReqOK(req, S, kind),
         NEW sel \in fetchTokenData(req, IF req.isCustomToken /\ req.address \in SuperTokens
                                         /\ kind = "Upgrade" THEN Underlying[req.address] ELSE req.address)
  PROVE  SelOK(sel, S, kind) /\ ~sel.loading /\ sel.index = req.sel.index /\ sel.address = req.sel.address
<1> DEFINE asked == Asked(req.sel, kind)
           done == [req.sel EXCEPT !.address = req.address, !.loading = FALSE]
           loaded == [done EXCEPT !.decimals = DecimalsOf[asked]]
           invalid == [req.sel EXCEPT !.loading = FALSE, !.error = "INVALID_TOKEN"]
           half == [done EXCEPT !.error = "FETCH_TOKEN"]
           most == [loaded EXCEPT !.error = "FETCH_TOKEN"]
           success == [loaded EXCEPT !.balance = BalanceOf[asked],
                                     !.error = IF BalanceOf[asked] = 0 THEN "NO_TOKEN_BALANCE" ELSE None]
<1>1. /\ req \in Requests /\ SelOK(req.sel, S, kind) /\ req.address = req.sel.address
      /\ req.isCustomToken <=> req.sel.index = -1
  BY DEF ReqOK
<1>2. asked = IF req.isCustomToken /\ req.address \in SuperTokens
              /\ kind = "Upgrade" THEN Underlying[req.address] ELSE req.address
  BY <1>1 DEF Asked
<1>3. asked \in Addresses
  BY <1>1, <1>2, FormAssumption, TokenAssumption DEF Requests
<1>4. req.sel \in Sels /\ req.sel.index < Len(Listing(S)) /\ Consistent(req.sel, kind)
      /\ (req.sel.index = -2 => req.sel.address = NONE)
  BY <1>1 DEF SelOK
<1>5. sel \in {invalid, half, most, success}
  <2> HIDE DEF asked
  <2> QED BY <1>2 DEF fetchTokenData
<1> HIDE DEF asked
<1>6. \A x \in {invalid, half, most, success} :
        /\ x \in Sels /\ ~x.loading /\ x.index = req.sel.index /\ x.address = req.sel.address
        /\ x.decimals \in {req.sel.decimals, DecimalsOf[asked]} /\ x.balance \in {req.sel.balance, BalanceOf[asked]}
  <2>1. /\ invalid \in Sels /\ ~invalid.loading
        /\ invalid.index = req.sel.index /\ invalid.address = req.sel.address
        /\ invalid.decimals = req.sel.decimals /\ invalid.balance = req.sel.balance
    BY <1>4 DEF Sels, Selections
  <2>2. /\ half \in Sels /\ ~half.loading
        /\ half.index = req.sel.index /\ half.address = req.sel.address
        /\ half.decimals = req.sel.decimals /\ half.balance = req.sel.balance
    BY <1>1, <1>4 DEF Sels, Selections
  <2>3. /\ most \in Sels /\ ~most.loading
        /\ most.index = req.sel.index /\ most.address = req.sel.address
        /\ most.decimals = DecimalsOf[asked] /\ most.balance = req.sel.balance
    BY <1>1, <1>3, <1>4 DEF Sels, Selections
  <2>4. /\ success \in Sels /\ ~success.loading
        /\ success.index = req.sel.index /\ success.address = req.sel.address
        /\ success.decimals = DecimalsOf[asked] /\ success.balance = BalanceOf[asked]
    BY <1>1, <1>3, <1>4 DEF Sels, Selections
  <2> HIDE DEF invalid, half, most, success
  <2> QED BY <2>1, <2>2, <2>3, <2>4
<1> HIDE DEF invalid, half, most, success
<1>7. /\ sel \in Sels /\ ~sel.loading /\ sel.index = req.sel.index /\ sel.address = req.sel.address
      /\ sel.decimals \in {req.sel.decimals, DecimalsOf[asked]} /\ sel.balance \in {req.sel.balance, BalanceOf[asked]}
  BY <1>5, <1>6
<1>8. Asked(sel, kind) = asked
  BY <1>7 DEF Asked, asked
<1>9. Consistent(sel, kind)
  BY <1>4, <1>7, <1>8 DEF Consistent, asked
<1> QED BY <1>4, <1>7, <1>9 DEF SelOK

-----------------------------------------------------------------------------
(* Forms.                                                                   *)

LEMMA FreshOK ==
  ASSUME NEW S \in SUBSET CatalogueTokens, NEW kind
  PROVE  /\ FormOK(FreshForm, S, kind) /\ FreshForm # None
         /\ PickOK(FreshForm, {}, S, kind) /\ Lookups(FreshForm.sel, FreshForm.custom) = {}
<1>1. FreshForm.sel = INITIAL_SELECTED_TOKEN /\ SelOK(INITIAL_SELECTED_TOKEN, S, kind)
  BY InitialOK DEF FreshForm
<1>2. INITIAL_SELECTED_TOKEN.loading = FALSE /\ INITIAL_SELECTED_TOKEN.address = NONE
  BY DEF INITIAL_SELECTED_TOKEN
<1>3. INITIAL_SELECTED_TOKEN \in Sels
  BY <1>1 DEF SelOK
<1>4. FreshForm \in Forms
  BY <1>3 DEF FreshForm, Forms, Sels
<1>5. FormOK(FreshForm, S, kind)
  BY <1>1, <1>2, <1>4 DEF FormOK
<1>6. PickOK(FreshForm, {}, S, kind)
  BY <1>1, <1>2 DEF PickOK
<1>7. Lookups(FreshForm.sel, FreshForm.custom) = {}
  BY <1>1, <1>2 DEF Lookups
<1> QED BY <1>4, <1>5, <1>6, <1>7, FormAssumption

\* A pick: the form has the selection, and no lookup for another one unless it is outrun.
LEMMA PickIs ==
  ASSUME NEW f \in Forms, NEW sel \in Sels, NEW token \in Addresses \cup Typed \cup {None}
  PROVE  LET g == Pick(f, sel, token)
         IN  /\ g \in Forms /\ g # None
             /\ g.sel = sel /\ g.custom = f.custom /\ g.pick = token /\ ~g.moved
             /\ ~g.outrun => \A r \in lookups : r.sel = sel
<1> DEFINE g == Pick(f, sel, token)
           outrun == \E r \in lookups : r.sel # sel
<1>1. g = [f EXCEPT !.sel = sel, !.pick = token, !.moved = FALSE, !.max = None, !.outrun = outrun]
  BY DEF Pick
<1>2. outrun \in BOOLEAN
  OBVIOUS
<1>3. g \in Forms
  <2> HIDE DEF outrun
  <2> QED BY <1>1, <1>2 DEF Forms, Sels
<1>4. g.sel = sel /\ g.custom = f.custom /\ g.pick = token /\ ~g.moved
  <2> HIDE DEF outrun
  <2> QED BY <1>1 DEF Forms
<1>5. g.outrun = outrun
  <2> HIDE DEF outrun
  <2> QED BY <1>1, <1>2 DEF Forms
<1> HIDE DEF g
<1> QED BY <1>3, <1>4, <1>5, FormAssumption DEF g

LEMMA PickedOK ==
  ASSUME NEW S, NEW kind, NEW f \in Forms, NEW sel \in Sels, SelOK(sel, S, kind),
         NEW token \in Addresses \cup Typed \cup {None},
         sel.loading /\ sel.index = -1 => f.custom = sel.address
  PROVE  FormOK(Pick(f, sel, token), S, kind)
  BY PickIs DEF FormOK

\* Deposit's effect on its preset.
LEMMA PresetOK ==
  ASSUME NEW S \in SUBSET CatalogueTokens, NEW kind, NEW f, FormOK(f, S, kind),
         NEW token, token # None => token \in S
  PROVE  LET g == WithPreset(f, kind, token, Listing(S))
         IN  /\ FormOK(g, S, kind)
             /\ \/ g = f
                \/ /\ kind = "Deposit" /\ g.pick = g.sel.address
                   /\ ~g.outrun => \A r \in lookups : r.sel = g.sel
<1>1. CASE ~(kind = "Deposit" /\ token # None)
  BY <1>1 DEF WithPreset
<1>2. CASE kind = "Deposit" /\ token # None
  <2> DEFINE s == Find(Listing(S), token, TRUE)
             g == Pick(f, s, token)
  <2>1. token \in S /\ token \in Addresses
    BY <1>2, CatalogueIs
  <2>2. SelOK(s, S, kind) /\ s.index \in Nat /\ s.address = token
    BY <2>1, FindOK
  <2>3. f \in Forms /\ s \in Sels
    BY <2>2 DEF FormOK, SelOK
  <2>4. WithPreset(f, kind, token, Listing(S)) = g
    BY <1>2 DEF WithPreset
  <2> HIDE DEF s
  <2>5. (s.loading /\ s.index = -1 => f.custom = s.address) /\ token \in Addresses \cup Typed \cup {None}
    BY <2>1, <2>2
  <2>6. /\ FormOK(g, S, kind) /\ g.sel = s /\ g.pick = token
        /\ ~g.outrun => \A r \in lookups : r.sel = s
    BY <2>1, <2>2, <2>3, <2>5, PickIs, PickedOK
  <2> HIDE DEF g
  <2> QED BY <1>2, <2>2, <2>4, <2>6
<1> QED BY <1>1, <1>2

\* More tokens are listed: what was a position still is.
LEMMA SelGrows ==
  ASSUME NEW U \in SUBSET CatalogueTokens, NEW S \in SUBSET U, NEW kind, NEW s, SelOK(s, S, kind)
  PROVE  SelOK(s, U, kind)
<1>1. Len(Listing(S)) <= Len(Listing(U)) /\ Len(Listing(S)) \in Nat /\ Len(Listing(U)) \in Nat
  BY ListingLonger, ListingIs
<1>2. s.index \in Int
  BY PositionsAre DEF SelOK, Sels, Selections
<1> QED BY <1>1, <1>2 DEF SelOK

\* A change of the other fields.
LEMMA EditOK ==
  ASSUME NEW S, NEW kind, NEW f, FormOK(f, S, kind), NEW g \in Forms,
         g.sel = f.sel, g.custom = f.custom
  PROVE  FormOK(g, S, kind)
  BY DEF FormOK

LEMMA EditPickOK ==
  ASSUME NEW S, NEW kind, NEW requests, NEW f, PickOK(f, requests, S, kind), NEW g,
         g.sel = f.sel, g.pick = f.pick, g.outrun = f.outrun, ~g.moved => ~f.moved
  PROVE  PickOK(g, requests, S, kind)
  BY DEF PickOK

-----------------------------------------------------------------------------
(* Steps.                                                                   *)

LEMMA WorldIs ==
  ASSUME World
  PROVE  /\ listed \in SUBSET CatalogueTokens /\ superTokens = Listing(listed)
         /\ panel.presets.token # None => panel.presets.token \in listed
         /\ Kind \in {"Deposit", "Withdrawal", "Upgrade", "Downgrade"}
  BY DEF World, superTokens, Kind, Tabs

\* A form to which Deposit's preset was applied, and the lookups that this starts.
LEMMA OpeningStep ==
  ASSUME Inv, NEW presets \in Presets, presets.token # None => presets.token \in listed, Opening(presets)
  PROVE  Inv'
<1> DEFINE old == IF form = None THEN FreshForm ELSE form
           g == WithPreset(old, Kind, presets.token, superTokens)
<1>1. /\ World /\ Mounted /\ WaitIsPending /\ panel' = requestOpen(panel, presets)
      /\ form' = g /\ lookups' = lookups \cup Lookups(g.sel, g.custom)
      /\ UNCHANGED <<world, tab, pending, strayed>>
  BY DEF Inv, Opening
<1>2. Kind' = Kind /\ listed' = listed
  BY <1>1 DEF Kind, Tabs, world
<1>3. World' /\ WaitIsPending'
  BY <1>1 DEF World, WaitIsPending, requestOpen, PanelStates, world, Presets
<1>4. FormOK(old, listed, Kind) /\ PickOK(old, lookups, listed, Kind)
  BY <1>1, WorldIs, FreshOK DEF Mounted
<1> HIDE DEF old
<1>5. /\ FormOK(g, listed, Kind)
      /\ \/ g = old
         \/ /\ Kind = "Deposit" /\ g.pick = g.sel.address
            /\ ~g.outrun => \A r \in lookups : r.sel = g.sel
  BY <1>1, <1>4, WorldIs, PresetOK
<1> HIDE DEF g
<1>6. \A r \in Lookups(g.sel, g.custom) : ReqOK(r, listed, Kind) /\ r.sel = g.sel
  BY <1>1, <1>5, WorldIs, LookupsOK
<1>7. PickOK(g, lookups', listed, Kind)
  BY <1>1, <1>4, <1>5, <1>6 DEF PickOK
<1>8. g # None
  BY <1>5, FormAssumption DEF FormOK
<1>9. Mounted'
  BY <1>1, <1>2, <1>5, <1>6, <1>7, <1>8 DEF Mounted
<1> QED BY <1>3, <1>9 DEF Inv
LEMMA PanelIs ==
  ASSUME NEW p \in PanelStates(Presets)
  PROVE  /\ requestClose(p) \in PanelStates(Presets) /\ requestClose(p).presets = p.presets
         /\ ~requestClose(p).visible /\ ~requestClose(p).waitTx
         /\ p.timers > 0 => timerFires(p) \in PanelStates(Presets)
         /\ timerFires(p).visible = p.visible /\ timerFires(p).waitTx = p.waitTx /\ timerFires(p).presets = NoPresets
<1>1. p.timers \in Nat /\ p.timers + 1 \in Nat /\ (p.timers > 0 => p.timers - 1 \in Nat)
  BY DEF PanelStates
<1>2. NoPresets \in Presets
  BY DEF NoPresets, Presets
<1>3. requestClose(p) \in PanelStates(Presets)
  BY <1>1 DEF PanelStates, requestClose
<1>4. /\ requestClose(p).presets = p.presets
      /\ ~requestClose(p).visible /\ ~requestClose(p).waitTx
  BY DEF PanelStates, requestClose
<1>5. p.timers > 0 => timerFires(p) \in PanelStates(Presets)
  BY <1>1, <1>2 DEF PanelStates, timerFires
<1>6. timerFires(p).visible = p.visible /\ timerFires(p).waitTx = p.waitTx /\ timerFires(p).presets = NoPresets
  BY DEF PanelStates, timerFires
<1> QED BY <1>3, <1>4, <1>5, <1>6

LEMMA PanelStep ==
  ASSUME Inv, Close \/ TransitionEnd \/ Timer \/ \E done \in BOOLEAN : Settle(done)
  PROVE  Inv'
<1>1. World /\ Mounted /\ WaitIsPending
  BY DEF Inv
<1>2. UNCHANGED <<world, tab>> /\ Kind' = Kind /\ listed' = listed
  BY DEF Close, TransitionEnd, Timer, Settle, Kind, Tabs, world
<1>3. panel \in PanelStates(Presets) /\ pending \in Nat /\ NoPresets \in Presets /\ NoPresets.token = None
  BY <1>1 DEF World, NoPresets, Presets
<1>4. CASE Close
  <2>1. /\ panel' \in PanelStates(Presets) /\ panel'.presets = panel.presets
        /\ ~panel'.visible /\ ~panel'.waitTx
    BY <1>3, <1>4, PanelIs DEF Close
  <2>2. UNCHANGED <<form, lookups, pending>> /\ strayed' = (strayed \/ pending > 0)
    BY <1>4 DEF Close
  <2>3. World'
    BY <1>1, <1>2, <2>1, <2>2 DEF World, world
  <2>4. WaitIsPending'
    <3>1. ~strayed' => ~(pending > 0)
      BY <2>2, Zenon
    <3>2. ~strayed' => pending' = 0
      BY <1>3, <2>2, <3>1
    <3> QED BY <2>1, <3>2 DEF WaitIsPending
  <2>5. Mounted'
    BY <1>1, <1>2, <2>1, <2>2 DEF Mounted
  <2> QED BY <2>3, <2>4, <2>5 DEF Inv
<1>5. CASE TransitionEnd
  <2>1. World' /\ WaitIsPending'
    BY <1>1, <1>2, <1>3, <1>5 DEF TransitionEnd, World, WaitIsPending, onTransitionEnd, PanelStates, world
  <2>2. Mounted'
    BY <1>1, <1>2, <1>3, <1>5 DEF TransitionEnd, Mounted, onTransitionEnd, PanelStates
  <2> QED BY <2>1, <2>2 DEF Inv
<1>6. CASE Timer
  <2>1. /\ panel' \in PanelStates(Presets) /\ panel'.presets = NoPresets
        /\ panel'.visible = panel.visible /\ panel'.waitTx = panel.waitTx
    BY <1>3, <1>6, PanelIs DEF Timer
  <2>2. UNCHANGED <<form, lookups, pending, strayed>>
    BY <1>6 DEF Timer
  <2>3. World'
    BY <1>1, <1>2, <1>3, <2>1, <2>2 DEF World, world
  <2>4. WaitIsPending'
    BY <1>1, <2>1, <2>2 DEF WaitIsPending
  <2>5. Mounted'
    BY <1>1, <1>2, <2>1, <2>2 DEF Mounted
  <2> QED BY <2>3, <2>4, <2>5 DEF Inv
<1>7. ASSUME NEW done \in BOOLEAN, Settle(done) PROVE Inv'
  <2>1. /\ UNCHANGED <<form, lookups>> /\ pending > 0 /\ pending' = pending - 1
        /\ strayed' = (strayed \/ (done /\ pending' > 0))
    BY <1>7 DEF Settle
  <2>2. /\ panel' \in PanelStates(Presets) /\ ~panel'.waitTx /\ panel'.presets = panel.presets
        /\ panel'.visible => panel.visible
    <3>1. \A p \in PanelStates(Presets) :
            /\ settled(p, done) \in PanelStates(Presets) /\ ~settled(p, done).waitTx
            /\ settled(p, done).presets = p.presets /\ settled(p, done).visible = p.visible
      BY DEF settled, PanelStates
    <3>2. panel' = settled(requestClose(panel), done) \/ panel' = settled(panel, done)
      BY <1>7 DEF Settle
    <3> QED BY <1>3, <3>1, <3>2, PanelIs
  <2>3. pending' \in Nat
    BY <1>3, <2>1
  <2>4. ~strayed' => pending' = 0
    <3>1. CASE done
      <4>1. ~strayed' => ~(pending' > 0)
        BY <2>1, <3>1, Zenon
      <4> QED BY <2>3, <4>1
    <3>2. CASE ~done /\ ~strayed
      <4>1. pending = 0 \/ pending = 1
        BY <1>1, <3>2 DEF WaitIsPending
      <4> QED BY <2>1, <4>1
    <3> QED BY <2>1, <3>1, <3>2
  <2>5. World'
    BY <1>1, <1>2, <2>1, <2>2, <2>3 DEF World, world
  <2>6. WaitIsPending'
    BY <2>2, <2>4 DEF WaitIsPending
  <2>7. Mounted'
    BY <1>1, <1>2, <2>1, <2>2 DEF Mounted
  <2> QED BY <2>5, <2>6, <2>7 DEF Inv
<1> QED BY <1>4, <1>5, <1>6, <1>7

LEMMA TabStep ==
  ASSUME Inv, NEW i \in 0..1, SelectTab(i)
  PROVE  Inv'
<1> DEFINE g == WithPreset(FreshForm, Tabs(i), panel.presets.token, superTokens)
<1>1. /\ World /\ Mounted /\ WaitIsPending
      /\ form' = g /\ lookups' = Lookups(g.sel, g.custom) /\ tab' = i
      /\ UNCHANGED <<world, panel, pending, opens, strayed>>
  BY DEF Inv, SelectTab
<1>2. Kind' = Tabs(i) /\ listed' = listed
  BY <1>1 DEF Kind, Tabs, world
<1>3. World' /\ WaitIsPending'
  BY <1>1 DEF World, WaitIsPending, world
<1>4. FormOK(FreshForm, listed, Tabs(i)) /\ PickOK(FreshForm, {}, listed, Tabs(i))
      /\ Lookups(FreshForm.sel, FreshForm.custom) = {}
  BY <1>1, WorldIs, FreshOK
<1>5. /\ FormOK(g, listed, Tabs(i))
      /\ \/ g = FreshForm
         \/ /\ Tabs(i) = "Deposit" /\ g.pick = g.sel.address
            /\ ~g.outrun => \A r \in lookups : r.sel = g.sel
  BY <1>1, <1>4, WorldIs, PresetOK
<1> HIDE DEF g
<1>6. \A r \in Lookups(g.sel, g.custom) : ReqOK(r, listed, Tabs(i)) /\ r.sel = g.sel
  BY <1>1, <1>5, WorldIs, LookupsOK
<1>7. PickOK(g, lookups', listed, Tabs(i))
  BY <1>1, <1>4, <1>5, <1>6 DEF PickOK
<1>8. g # None
  BY <1>5, FormAssumption DEF FormOK
<1>9. Mounted'
  BY <1>1, <1>2, <1>5, <1>6, <1>7, <1>8 DEF Mounted
<1> QED BY <1>3, <1>9 DEF Inv

\* An edit that leaves the selection alone.
LEMMA EditStep ==
  ASSUME Inv, form # None, NEW g \in Forms, form' = g,
         g.sel = form.sel, g.custom = form.custom, g.pick = form.pick, g.outrun = form.outrun, g.moved = form.moved,
         UNCHANGED <<world, tab, lookups>>,
         World', WaitIsPending'
  PROVE  Inv'
<1>1. World /\ Mounted
  BY DEF Inv
<1>2. Kind' = Kind /\ listed' = listed
  BY DEF Kind, Tabs, world
<1>3. FormOK(g, listed, Kind) /\ PickOK(g, lookups, listed, Kind) /\ g # None
  BY <1>1, EditOK, EditPickOK, FormAssumption DEF Mounted
<1>4. Mounted'
  BY <1>1, <1>2, <1>3 DEF Mounted
<1> QED BY <1>4 DEF Inv
\* The user picks a selection: another one is looked up, and what would be sent is the pick.
LEMMA PickedStep ==
  ASSUME Inv, NEW f \in Forms, NEW sel, SelOK(sel, listed, Kind),
         NEW token \in Addresses \cup Typed \cup {None},
         sel.loading /\ sel.index = -1 => f.custom = sel.address,
         sel.address # NONE => IF Kind = "Upgrade" /\ sel.index # -1 THEN Listing(listed)[sel.index + 1] = token
                               ELSE sel.address = token,
         Selected(Pick(f, sel, token))
  PROVE  Inv'
<1> DEFINE g == Pick(f, sel, token)
<1>1. /\ World /\ Mounted /\ WaitIsPending
      /\ form' = g /\ lookups' = lookups \cup Lookups(g.sel, g.custom)
      /\ UNCHANGED <<world, tab, panel, pending, opens, strayed>>
  BY DEF Inv, Selected, Edit
<1>2. Kind' = Kind /\ listed' = listed /\ listed \in SUBSET CatalogueTokens
  BY <1>1, WorldIs DEF Kind, Tabs, world
<1>3. World' /\ WaitIsPending'
  BY <1>1 DEF World, WaitIsPending, world
<1>4. /\ f \in Forms /\ sel \in Sels /\ SelOK(sel, listed, Kind) /\ token \in Addresses \cup Typed \cup {None}
      /\ sel.loading /\ sel.index = -1 => f.custom = sel.address
  BY DEF SelOK
<1>5. /\ FormOK(g, listed, Kind) /\ g # None /\ g.sel = sel /\ g.pick = token
      /\ ~g.outrun => \A r \in lookups : r.sel = sel
  BY <1>2, <1>4, PickIs, PickedOK
<1> HIDE DEF g
<1>6. \A r \in Lookups(g.sel, g.custom) : ReqOK(r, listed, Kind) /\ r.sel = g.sel
  BY <1>2, <1>5, LookupsOK
<1>7. PickOK(g, lookups', listed, Kind)
  BY <1>1, <1>5, <1>6 DEF PickOK
<1>8. Mounted'
  BY <1>1, <1>2, <1>5, <1>6, <1>7 DEF Mounted
<1> QED BY <1>3, <1>8 DEF Inv

LEMMA SelectStep ==
  ASSUME Inv, NEW i \in -1..Len(Catalogue) - 1, SelectToken(i)
  PROVE  Inv'
<1> DEFINE f == [form EXCEPT !.custom = NONE, !.error = None]
           sel == handleDropDownChange(Offer.tokens, i, Offer.loads)
           token == IF i = -1 THEN None ELSE Offer.behind[i + 1]
<1>1. World /\ Mounted /\ form # None /\ form \in Forms /\ listed \in SUBSET CatalogueTokens
  BY WorldIs DEF Inv, Mounted, SelectToken, FormOK
<1>2. f \in Forms /\ f.custom = NONE
  BY <1>1 DEF Forms
<1>3. i < Len(Offer.tokens) /\ Selected(Pick(f, sel, token)) /\ i \in Int
  BY TokenAssumption DEF SelectToken
<1>4. CASE i = -1
  <2>1. Offer.loads \in BOOLEAN /\ token = None
    BY <1>1, <1>4, OfferIs
  <2>2. sel = [INITIAL_SELECTED_TOKEN EXCEPT !.index = -1, !.loading = Offer.loads]
    BY <1>4 DEF handleDropDownChange
  <2>3. SelOK(sel, listed, Kind) /\ sel.index = -1 /\ sel.address = NONE
    <3> DEFINE load == Offer.loads
    <3>1. load \in BOOLEAN /\ sel = [INITIAL_SELECTED_TOKEN EXCEPT !.index = -1, !.loading = load]
      BY <2>1, <2>2
    <3> HIDE DEF load, sel
    <3>2. LET s == [INITIAL_SELECTED_TOKEN EXCEPT !.index = -1, !.loading = load]
          IN  SelOK(s, listed, Kind) /\ s.index = -1 /\ s.address = NONE
      BY <1>1, <3>1, OtherOK
    <3> QED BY <3>1, <3>2
  <2> HIDE DEF f, sel, token
  <2> QED BY <1>2, <1>3, <2>1, <2>3, PickedStep
<1>5. CASE i # -1
  <2>1. /\ i \in Nat /\ i < Len(superTokens) /\ Offer.tokens[i + 1] \in Addresses /\ Offer.behind[i + 1] \in Addresses
        /\ Offer.loads \in BOOLEAN
        /\ Kind = "Upgrade" => Offer.behind = superTokens
        /\ Kind # "Upgrade" => Offer.behind = Offer.tokens
        /\ token = Offer.behind[i + 1]
    <3>1. i \in Nat /\ i + 1 \in 1..Len(Offer.tokens) /\ i < Len(superTokens)
      BY <1>1, <1>3, <1>5, OfferIs, WorldIs, PositionsAre
    <3> QED BY <1>1, <1>5, <3>1, OfferIs
  <2>2. sel = Listed(Offer.tokens, i, Offer.loads) /\ superTokens = Listing(listed)
    BY <1>1, <2>1, WorldIs DEF handleDropDownChange
  <2> HIDE DEF f, token
  <2>3. SelOK(sel, listed, Kind) /\ sel.index = i /\ sel.address = Offer.tokens[i + 1]
    <3> DEFINE load == Offer.loads
               tokens == Offer.tokens
    <3>1. /\ load \in BOOLEAN /\ sel = Listed(tokens, i, load) /\ i < Len(Listing(listed))
          /\ tokens[i + 1] \in Addresses
      BY <2>1, <2>2
    <3>2. Offer.tokens[i + 1] = tokens[i + 1]
      OBVIOUS
    <3> HIDE DEF load, tokens, sel
    <3>3. LET s == Listed(tokens, i, load)
          IN  SelOK(s, listed, Kind) /\ s.index = i /\ s.address = tokens[i + 1]
      <4>1. SelOK(Listed(tokens, i, load), listed, Kind)
        BY <1>1, <2>1, <3>1, ListedOK
      <4> QED BY <4>1, ListedIs
    <3> QED BY <3>1, <3>2, <3>3
  <2> HIDE DEF sel
  <2> QED BY <1>2, <1>3, <1>5, <2>1, <2>2, <2>3, PickedStep
<1> QED BY <1>4, <1>5

LEMMA TypeStep ==
  ASSUME Inv, NEW a \in Typed, TypeAddress(a)
  PROVE  Inv'
<1> DEFINE f == [form EXCEPT !.custom = a, !.error = None]
           sel == handleCustomTokenAddressChange(a)
<1>1. World /\ Mounted /\ form # None /\ form \in Forms /\ listed \in SUBSET CatalogueTokens
  BY WorldIs DEF Inv, Mounted, TypeAddress, FormOK
<1>2. f \in Forms /\ f.custom = a
  BY <1>1 DEF Forms
<1>3. Selected(Pick(f, sel, a))
  BY DEF TypeAddress
<1>4. SelOK(sel, listed, Kind) /\ sel.index = -1 /\ sel.address = a
  BY <1>1, TypedOK
<1> HIDE DEF f, sel
<1> QED BY <1>2, <1>3, <1>4, PickedStep
\* The amount, the recipient, Max, and an attempt to send.
LEMMA FieldStep ==
  ASSUME Inv,
         \/ handleMaxAmount \/ (\E x \in Amounts : handleAmountChange(x))
         \/ (\E r \in Typed : handleRecipientChange(r))
  PROVE  Inv'
<1>1. /\ World /\ Mounted /\ WaitIsPending /\ form # None /\ form \in Forms
      /\ form.sel \in Sels
  BY DEF Inv, Mounted, FormOK, SelOK, handleMaxAmount, handleAmountChange, handleRecipientChange
<1>2. UNCHANGED <<world, tab, panel, pending, opens, strayed, lookups>>
  BY DEF handleMaxAmount, handleAmountChange, handleRecipientChange, Edit
<1>3. World' /\ WaitIsPending'
  BY <1>1, <1>2 DEF World, WaitIsPending, world
<1>4. /\ form' \in Forms /\ form'.sel = form.sel /\ form'.custom = form.custom /\ form'.pick = form.pick
      /\ form'.outrun = form.outrun /\ form'.moved = form.moved
  <2>1. CASE handleMaxAmount
    <3> DEFINE b == form.sel.balance
               d == form.sel.decimals
               amount == fromDecimals(DigitsUpTo(b)[b], d)
               m == IF lookups = {} THEN b ELSE None
    <3>1. form' = [form EXCEPT !.amount = amount, !.max = m] /\ b # None /\ d # None
      BY <2>1 DEF handleMaxAmount, Edit
    <3>2. /\ b \in {BalanceOf[a] : a \in Addresses} /\ b \in Nat
          /\ d \in {DecimalsOf[a] : a \in Addresses} /\ m \in Nat \cup {None}
      BY <1>1, <3>1, TokenAssumption DEF Sels, Selections
    <3> HIDE DEF b, d, m
    <3>3. amount \in MaxAmounts
      BY <3>2 DEF MaxAmounts
    <3> HIDE DEF amount
    <3> QED BY <1>1, <3>1, <3>2, <3>3 DEF Forms
  <2>2. ASSUME NEW x \in Amounts, handleAmountChange(x)
        PROVE  /\ form' \in Forms /\ form'.sel = form.sel /\ form'.custom = form.custom /\ form'.pick = form.pick
               /\ form'.outrun = form.outrun /\ form'.moved = form.moved
    BY <1>1, <2>2 DEF handleAmountChange, Edit, Forms
  <2>3. ASSUME NEW r \in Typed, handleRecipientChange(r)
        PROVE  /\ form' \in Forms /\ form'.sel = form.sel /\ form'.custom = form.custom /\ form'.pick = form.pick
               /\ form'.outrun = form.outrun /\ form'.moved = form.moved
    BY <1>1, <2>3 DEF handleRecipientChange, Edit, Forms
  <2> QED BY <2>1, <2>2, <2>3
<1> QED BY <1>1, <1>2, <1>3, <1>4, EditStep
LEMMA SubmitStep ==
  ASSUME Inv, submitDeposit \/ submitWithdrawal \/ submitUpgrade \/ submitDowngrade
  PROVE  Inv'
<1> DEFINE errors == {None, "no address", "not positive", "invalid token", "no balance"}
<1>1. validateFields(form) \in errors /\ validateWithdrawal(form) \in errors
  BY DEF validateFields, validateWithdrawal
<1>2. PICK error \in errors : handleSubmit(error)
  BY <1>1 DEF submitDeposit, submitWithdrawal, submitUpgrade, submitDowngrade
<1>3. /\ World /\ Mounted /\ WaitIsPending /\ form # None /\ form \in Forms
      /\ panel \in PanelStates(Presets) /\ pending \in Nat
      /\ UNCHANGED <<world, tab, lookups, opens, strayed>> /\ ~panel.waitTx
  BY <1>2 DEF Inv, World, Mounted, FormOK, handleSubmit, disableSubmit
<1>4. CASE form' = [form EXCEPT !.error = error] /\ UNCHANGED <<panel, pending>>
  <2>1. World' /\ WaitIsPending'
    BY <1>3, <1>4 DEF World, WaitIsPending, world
  <2>2. /\ form' \in Forms /\ form'.sel = form.sel /\ form'.custom = form.custom /\ form'.pick = form.pick
        /\ form'.outrun = form.outrun /\ form'.moved = form.moved
    BY <1>3, <1>4 DEF Forms
  <2> QED BY <1>3, <2>1, <2>2, EditStep
<1> HIDE DEF errors
<1>5. CASE panel' = requestTransaction(panel) /\ pending' = pending + 1 /\ form' = form
  <2>1. /\ panel' \in PanelStates(Presets) /\ panel'.presets = panel.presets
        /\ panel'.visible = panel.visible /\ panel'.waitTx
    BY <1>3, <1>5 DEF requestTransaction, PanelStates
  <2>2. World'
    <3>1. pending \in Nat /\ pending' = pending + 1
      BY <1>3, <1>5, Zenon
    <3>2. pending' \in Nat
      BY <3>1
    <3> QED BY <1>3, <2>1, <3>2 DEF World, world
  <2>3. WaitIsPending'
    <3>1. ~strayed => pending = 0
      BY <1>3 DEF WaitIsPending
    <3>2. pending' = pending + 1 /\ strayed' = strayed
      BY <1>3, <1>5, Zenon
    <3>3. ~strayed' => pending' = 1
      BY <3>1, <3>2
    <3> QED BY <2>1, <3>3 DEF WaitIsPending
  <2>4. Kind' = Kind /\ listed' = listed
    BY <1>3 DEF Kind, Tabs, world
  <2>5. Mounted'
    BY <1>3, <1>5, <2>1, <2>4 DEF Mounted
  <2> QED BY <2>2, <2>3, <2>5 DEF Inv
<1> QED BY <1>2, <1>4, <1>5 DEF handleSubmit

LEMMA AnswerStep ==
  ASSUME Inv, NEW req \in lookups, Answer(req)
  PROVE  Inv'
<1>1. /\ World /\ Mounted /\ WaitIsPending /\ form # None /\ FormOK(form, listed, Kind)
      /\ PickOK(form, lookups, listed, Kind) /\ ReqOK(req, listed, Kind) /\ listed \in SUBSET CatalogueTokens
      /\ lookups' = lookups \ {req} /\ UNCHANGED <<world, tab, panel, pending, opens, strayed>>
  BY WorldIs DEF Inv, Mounted, Answer
<1>2. World' /\ WaitIsPending' /\ Kind' = Kind /\ listed' = listed
  BY <1>1 DEF World, WaitIsPending, world, Kind, Tabs
<1>3. CASE form' = form
  <2>1. PickOK(form, lookups', listed, Kind)
    BY <1>1 DEF PickOK
  <2>2. Mounted'
    BY <1>1, <1>2, <1>3, <2>1 DEF Mounted
  <2> QED BY <1>2, <2>2 DEF Inv
<1>4. CASE form' # form
  <2> DEFINE asked == IF req.isCustomToken /\ req.address \in SuperTokens /\ Kind = "Upgrade"
                      THEN Underlying[req.address] ELSE req.address
  <2>1. PICK sel \in fetchTokenData(req, asked) : form' = [form EXCEPT !.sel = sel, !.error = None]
    BY <1>4 DEF Answer, processCustomSuperToken
  <2>2. SelOK(sel, listed, Kind) /\ ~sel.loading /\ sel.index = req.sel.index /\ sel.address = req.sel.address
    BY <1>1, <2>1, AnswerOK
  <2>3. form \in Forms /\ sel \in Sels
    BY <1>1, <2>2 DEF FormOK, SelOK
  <2> DEFINE g == [form EXCEPT !.sel = sel, !.error = None]
  <2>4. /\ g \in Forms /\ g.sel = sel /\ g.custom = form.custom /\ g.pick = form.pick
        /\ g.outrun = form.outrun /\ g.moved = form.moved
    BY <2>3 DEF Forms, Sels
  <2>5. form' = g
    BY <2>1
  <2> HIDE DEF g, asked
  <2>6. FormOK(g, listed, Kind) /\ g # None
    BY <2>2, <2>4, FormAssumption DEF FormOK
  <2>7. PickOK(g, lookups', listed, Kind)
    BY <1>1, <2>2, <2>4 DEF PickOK
  <2>8. Mounted'
    BY <1>1, <1>2, <2>5, <2>6, <2>7 DEF Mounted
  <2> QED BY <1>2, <2>8 DEF Inv
<1> QED BY <1>3, <1>4

\* A state is published: positions stay positions, and in Upgrade a pick whose position may
\* have become another token's is marked.
LEMMA PublishedStep ==
  ASSUME Inv, NEW moved \in BOOLEAN, Published(moved),
         listed' \subseteq CatalogueTokens, listed \subseteq listed', listed' = listed \/ moved,
         funded' \subseteq listed'
  PROVE  Inv'
<1>1. /\ World /\ Mounted /\ WaitIsPending /\ listed' \in SUBSET CatalogueTokens /\ listed \in SUBSET listed'
      /\ UNCHANGED <<which, tab, panel, pending, opens, strayed>>
  BY DEF Inv, Published
<1>2. World' /\ WaitIsPending' /\ Kind' = Kind /\ superTokens' = Listing(listed')
  BY <1>1 DEF World, WaitIsPending, Kind, Tabs, superTokens
<1>3. \A r \in lookups : ReqOK(r, listed', Kind)
  BY <1>1, SelGrows DEF Mounted, ReqOK
<1>4. CASE form = None
  <2>1. UNCHANGED <<form, lookups>>
    BY <1>4 DEF Published
  <2>2. Mounted'
    BY <1>1, <1>2, <1>4, <2>1 DEF Mounted
  <2> QED BY <1>2, <2>2 DEF Inv
<1>5. CASE form # None
  <2> DEFINE old == [form EXCEPT !.moved = @ \/ moved]
             g == WithPreset(old, Kind, panel.presets.token, Listing(listed'))
  <2>1. FormOK(form, listed, Kind) /\ PickOK(form, lookups, listed, Kind) /\ form \in Forms
    BY <1>1, <1>5 DEF Mounted, FormOK
  <2>2. /\ form' = g
        /\ lookups' = IF g.sel = form.sel THEN lookups ELSE lookups \cup Lookups(g.sel, g.custom)
    BY <1>2, <1>5 DEF Published
  <2>3. /\ old \in Forms /\ old.sel = form.sel /\ old.custom = form.custom /\ old.pick = form.pick
        /\ old.outrun = form.outrun /\ (~old.moved => ~form.moved /\ ~moved)
    BY <2>1 DEF Forms
  <2> HIDE DEF old
  <2>4. FormOK(old, listed', Kind)
    BY <1>1, <2>1, <2>3, SelGrows DEF FormOK
  <2>5. PickOK(old, lookups, listed', Kind)
    BY <2>1, <2>3 DEF PickOK
  <2>6. /\ FormOK(g, listed', Kind)
        /\ \/ g = old
           \/ /\ Kind = "Deposit" /\ g.pick = g.sel.address
              /\ ~g.outrun => \A r \in lookups : r.sel = g.sel
    <3>1. panel.presets.token # None => panel.presets.token \in listed'
      BY <1>1 DEF World
    <3> QED BY <1>1, <2>4, <3>1, PresetOK
  <2> HIDE DEF g
  <2>7. \A r \in Lookups(g.sel, g.custom) : ReqOK(r, listed', Kind) /\ r.sel = g.sel
    BY <1>1, <2>6, LookupsOK
  <2>8. lookups' \subseteq lookups \cup Lookups(g.sel, g.custom)
    BY <2>2
  <2>9. PickOK(g, lookups', listed', Kind)
    BY <2>5, <2>6, <2>7, <2>8 DEF PickOK
  <2>10. g # None
    BY <2>6, FormAssumption DEF FormOK
  <2>11. Mounted'
    BY <1>1, <1>2, <1>3, <2>2, <2>6, <2>7, <2>8, <2>9, <2>10 DEF Mounted
  <2> QED BY <1>2, <2>11 DEF Inv
<1> QED BY <1>4, <1>5

-----------------------------------------------------------------------------
(* The specification.                                                       *)

LEMMA InitOK == Init => Inv
<1> SUFFICES ASSUME Init PROVE Inv
  OBVIOUS
<1>1. ClosedPanel \in PanelStates(Presets) /\ ClosedPanel.presets.token = None
      /\ ~ClosedPanel.visible /\ ~ClosedPanel.waitTx
  BY DEF ClosedPanel, PanelStates, Presets, NoPresets
<1>2. World
  <2>1. /\ which \in {"transfer", "convert"} /\ listed \subseteq CatalogueTokens /\ funded \subseteq listed
        /\ panel \in PanelStates(Presets) /\ panel.presets.token = None /\ strayed = FALSE
    BY <1>1, FormAssumption DEF Init
  <2>2. tab \in 0..1 /\ pending \in Nat
    BY DEF Init
  <2> QED BY <2>1, <2>2 DEF World
<1>3. Mounted
  BY <1>1 DEF Init, Mounted
<1>4. WaitIsPending
  BY <1>1 DEF Init, WaitIsPending
<1> QED BY <1>2, <1>3, <1>4 DEF Inv

LEMMA NextOK == Inv /\ [Next]_vars => Inv'
<1> SUFFICES ASSUME Inv, [Next]_vars PROVE Inv'
  OBVIOUS
<1>0. World /\ listed \subseteq CatalogueTokens /\ funded \subseteq listed
  BY DEF Inv, World
<1>1. ASSUME Open PROVE Inv'
  <2>1. NoPresets \in Presets /\ NoPresets.token = None
    BY DEF NoPresets, Presets
  <2> QED BY <1>1, <2>1, OpeningStep DEF Open
<1>2. ASSUME NEW t \in CatalogueTokens, OpenDeposit(t) PROVE Inv'
  <2> DEFINE presets == [NoPresets EXCEPT !.token = t]
  <2>1. presets \in Presets /\ presets.token = t
    BY DEF NoPresets, Presets
  <2>2. t \in listed /\ Opening(presets)
    BY <1>2 DEF OpenDeposit
  <2> HIDE DEF presets
  <2> QED BY <2>1, <2>2, OpeningStep
<1>3. ASSUME NEW t \in CatalogueTokens, NewToken(t) PROVE Inv'
  <2>1. /\ Published(TRUE) /\ listed' \subseteq CatalogueTokens /\ listed \subseteq listed'
        /\ funded' \subseteq listed'
    BY <1>0, <1>3 DEF NewToken
  <2> QED BY <2>1, PublishedStep
<1>4. ASSUME NEW t \in CatalogueTokens, FundsChange(t) PROVE Inv'
  <2>1. Published(FALSE) /\ listed' = listed /\ funded' \subseteq listed
    BY <1>0, <1>4 DEF FundsChange
  <2> QED BY <1>0, <2>1, PublishedStep
<1>5. ASSUME Close \/ TransitionEnd \/ Timer \/ \E done \in BOOLEAN : Settle(done) PROVE Inv'
  BY <1>5, PanelStep
<1>6. ASSUME UNCHANGED vars PROVE Inv'
  <2>1. World' /\ WaitIsPending' /\ Kind' = Kind
    BY <1>6 DEF Inv, vars, World, WaitIsPending, Kind, Tabs
  <2>2. Mounted'
    BY <1>6, <2>1 DEF Inv, vars, Mounted
  <2> QED BY <2>1, <2>2 DEF Inv
<1> QED
  BY <1>1, <1>2, <1>3, <1>4, <1>5, <1>6, TabStep, SelectStep, TypeStep, FieldStep, SubmitStep, AnswerStep DEF Next

LEMMA InvAlways == Spec => []Inv
  BY InitOK, NextOK, PTL DEF Spec

\* Whatever is typed, selected, answered or published, the panel and its form keep their shapes, and
\* the selected position is one of the list of Super Tokens.
THEOREM TypeCorrect == Spec => []TypeOK
<1>1. Inv => TypeOK
  <2> SUFFICES ASSUME Inv PROVE TypeOK
    OBVIOUS
  <2>1. form # None => form \in Forms /\ form.sel.index < Len(superTokens)
    BY DEF Inv, Mounted, FormOK, SelOK, superTokens
  <2> QED BY <2>1 DEF Inv, World, Mounted, TypeOK, Presets
<1> QED BY <1>1, InvAlways, PTL

\* The decimals and the balance of a selection are those of its token, in whatever order the lookups
\* of TokenSelector are answered: each carries the selection it was started with.
THEOREM DataIsTokens == Spec => []SelectionConsistent
<1>1. Inv => SelectionConsistent
  <2> SUFFICES ASSUME Inv, form # None PROVE SelectionConsistent
    BY DEF SelectionConsistent
  <2>1. Consistent(form.sel, Kind)
    BY DEF Inv, Mounted, FormOK, SelOK
  <2> QED BY <2>1 DEF Consistent, Asked, SelectionConsistent, processCustomSuperToken
<1> QED BY <1>1, InvAlways, PTL

\* The transaction of a form is for the token that was picked, unless a lookup for another selection
\* was in flight at the pick or, in Upgrade, the list has changed since.
THEOREM PickIsSent == Spec => []SentIsPicked
<1>1. Inv => SentIsPicked
  <2> SUFFICES ASSUME Inv, Sendable, Sure PROVE TokenSent(form) = form.pick
    BY DEF SentIsPicked
  <2>1. form # None /\ PickOK(form, lookups, listed, Kind)
    BY DEF Inv, Mounted, Sendable
  <2>2. ~form.outrun /\ (Kind = "Upgrade" => ~form.moved) /\ form.sel.address # NONE
    BY DEF Sendable, Sure, disableSubmit
  <2> QED BY <2>1, <2>2 DEF PickOK, TokenSent, superTokens
<1> QED BY <1>1, InvAlways, PTL

\* What Max puts into the field is a numeral, like what is typed.
LEMMA MaxNumerals == MaxAmounts \subseteq Numerals
<1> SUFFICES ASSUME NEW a \in Addresses, NEW b \in Addresses
             PROVE  fromDecimals(DigitsUpTo(BalanceOf[a])[BalanceOf[a]], DecimalsOf[b]) \in Numerals
  BY DEF MaxAmounts
<1> DEFINE n == BalanceOf[a]  d == DecimalsOf[b]  digits == DigitsUpTo(n)[n]
<1>1. n \in Nat /\ d \in Nat
  BY TokenAssumption
<1> HIDE DEF n, d
<1>2. n \in 0..n
  BY <1>1
<1>3. digits \in Seq(Digit)
  BY <1>1, <1>2, DigitsAre
<1> HIDE DEF digits
<1> QED BY <1>1, <1>3, FromDecimalsIs DEF n, d, digits

\* What toDecimals hands to the contract is the amount in the field, as plain digits of any length, in the
\* token's smallest unit and cut off after its decimals.
THEOREM AmountIsExact == Spec => []AmountExact
<1>1. Inv => AmountExact
  <2> SUFFICES ASSUME Inv, Sendable, form.sel.decimals # None
               PROVE  LET unit == PowerOfTen(Len(form.amount.dec))
                          exact == Value(form.amount.whole \o form.amount.dec) * PowerOfTen(form.sel.decimals)
                          sent == Value(AmountSent(form)) * unit
                      IN  sent <= exact /\ exact < sent + unit
    BY DEF AmountExact
  <2> DEFINE amount == form.amount  d == form.sel.decimals
  <2>1. form \in Forms /\ form.sel \in Sels /\ amount # None
    BY DEF Inv, Mounted, FormOK, SelOK, Sendable, disableSubmit
  <2>2. amount \in Amounts \cup MaxAmounts \cup {None}
    BY <2>1 DEF Forms
  <2>3. amount \in Numerals
    BY <2>1, <2>2, MaxNumerals, FormAssumption
  <2>4. d \in Nat
    BY <2>1, TokenAssumption DEF Sels, Selections
  <2>5. AmountSent(form) = toDecimals(amount, d)
    BY DEF AmountSent, DecimalsUsed
  <2> HIDE DEF amount, d
  <2>6. LET unit == PowerOfTen(Len(amount.dec))
            exact == Value(amount.whole \o amount.dec) * PowerOfTen(d)
            sent == Value(toDecimals(amount, d)) * unit
        IN  sent <= exact /\ exact < sent + unit
    BY <2>3, <2>4, AmountIs
  <2> QED BY <2>5, <2>6 DEF amount, d
<1> QED BY <1>1, InvAlways, PTL

\* Unless a panel was closed over a transaction, submitTransaction's wait and the transactions in
\* flight agree: a form is never submitted twice and never blocked for nothing.
THEOREM WaitAgrees == Spec => []WaitIsPending
<1>1. Inv => WaitIsPending
  BY DEF Inv
<1> QED BY <1>1, InvAlways, PTL

-----------------------------------------------------------------------------
(* What Max has put into the field.                                         *)

\* As long as the amount is Max's, nothing is looked up and the selection keeps its decimals.
MaxStands ==
  form # None /\ form.max # None =>
    /\ lookups = {} /\ ~form.sel.loading /\ form.sel.decimals # None
    /\ form.amount = fromDecimals(DigitsUpTo(form.max)[form.max], form.sel.decimals)

\* A selection that was picked anew has no maximum; others keep theirs.
LEMMA PresetMax ==
  ASSUME NEW f \in Forms, NEW kind, NEW token, NEW tokens
  PROVE  WithPreset(f, kind, token, tokens) = f \/ WithPreset(f, kind, token, tokens).max = None
<1>1. \A sel : Pick(f, sel, token).max = None
  BY DEF Pick, Forms
<1> QED BY <1>1 DEF WithPreset

\* The form is remounted, picked anew, or left with its selection, its amount and its maximum.
LEMMA MaxKept ==
  ASSUME MaxStands,
         form' # None /\ form'.max # None =>
           /\ form # None /\ form'.max = form.max /\ form'.sel = form.sel /\ form'.amount = form.amount
           /\ lookups' \subseteq lookups \cup Lookups(form.sel, form'.custom)
  PROVE  MaxStands'
<1> SUFFICES ASSUME form' # None, form'.max # None
             PROVE  /\ lookups' = {} /\ ~form'.sel.loading /\ form'.sel.decimals # None
                    /\ form'.amount = fromDecimals(DigitsUpTo(form'.max)[form'.max], form'.sel.decimals)
  BY DEF MaxStands
<1>1. /\ lookups = {} /\ ~form.sel.loading /\ form.sel.decimals # None
      /\ form.amount = fromDecimals(DigitsUpTo(form.max)[form.max], form.sel.decimals)
  BY DEF MaxStands
<1>2. Lookups(form.sel, form'.custom) = {}
  BY <1>1 DEF Lookups
<1> QED BY <1>1, <1>2

LEMMA MaxPicked ==
  ASSUME Inv, MaxStands, NEW f \in Forms, NEW sel, NEW token, form' = Pick(f, sel, token)
  PROVE  MaxStands'
<1>1. form'.max = None
  BY DEF Pick, Forms
<1> QED BY <1>1 DEF MaxStands

LEMMA MaxEdited ==
  ASSUME Inv, MaxStands,
         \/ handleMaxAmount \/ (\E x \in Amounts : handleAmountChange(x))
         \/ (\E r \in Typed : handleRecipientChange(r))
  PROVE  MaxStands'
<1>1. form # None /\ form \in Forms /\ form.sel \in Sels /\ (form.sel.loading => form.sel.balance = None)
      /\ lookups' = lookups
  BY DEF Inv, Mounted, FormOK, SelOK, handleMaxAmount, handleAmountChange, handleRecipientChange
<1>2. CASE handleMaxAmount
  <2> DEFINE b == form.sel.balance
             d == form.sel.decimals
             amount == fromDecimals(DigitsUpTo(b)[b], d)
             m == IF lookups = {} THEN b ELSE None
  <2>1. form' = [form EXCEPT !.amount = amount, !.max = m] /\ b # None /\ d # None
    BY <1>2 DEF handleMaxAmount, Edit
  <2>2. ~form.sel.loading
    BY <1>1, <2>1
  <2>3. m # None => lookups = {} /\ m = b
    OBVIOUS
  <2> HIDE DEF b, amount, m
  <2>4. form'.max = m /\ form'.amount = amount /\ form'.sel = form.sel
    BY <1>1, <2>1 DEF Forms
  <2> QED BY <1>1, <2>1, <2>2, <2>3, <2>4 DEF MaxStands, amount, d
<1>3. CASE \E x \in Amounts : handleAmountChange(x)
  <2>1. form'.max = None
    BY <1>1, <1>3 DEF handleAmountChange, Edit, Forms
  <2> QED BY <2>1 DEF MaxStands
<1>4. CASE \E r \in Typed : handleRecipientChange(r)
  <2>1. form'.max = form.max /\ form'.sel = form.sel /\ form'.amount = form.amount
    BY <1>1, <1>4 DEF handleRecipientChange, Edit, Forms
  <2> QED BY <1>1, <2>1, MaxKept
<1> QED BY <1>2, <1>3, <1>4

LEMMA MaxAnswered ==
  ASSUME Inv, MaxStands, NEW req \in lookups, Answer(req)
  PROVE  MaxStands'
<1>1. form # None /\ form \in Forms
  BY DEF Inv, Mounted, FormOK
<1>2. form.max = None
  BY <1>1 DEF MaxStands
<1>3. form'.max = None
  BY <1>1, <1>2 DEF Answer, Forms
<1> QED BY <1>3 DEF MaxStands

LEMMA MaxPublished ==
  ASSUME Inv, MaxStands, NEW moved \in BOOLEAN, Published(moved)
  PROVE  MaxStands'
<1>1. CASE form = None
  BY <1>1 DEF Published, MaxStands
<1>2. CASE form # None
  <2> DEFINE old == [form EXCEPT !.moved = @ \/ moved]
             g == WithPreset(old, Kind, panel.presets.token, superTokens')
  <2>1. form \in Forms
    BY <1>2 DEF Inv, Mounted, FormOK
  <2>2. old \in Forms /\ old.max = form.max /\ old.sel = form.sel /\ old.amount = form.amount
    BY <2>1 DEF Forms
  <2>3. form' = g /\ lookups' = IF g.sel = form.sel THEN lookups ELSE lookups \cup Lookups(g.sel, g.custom)
    BY <1>2 DEF Published
  <2> HIDE DEF old
  <2>4. g = old \/ g.max = None
    BY <2>2, PresetMax
  <2> HIDE DEF g
  <2> QED BY <1>2, <2>2, <2>3, <2>4, MaxKept
<1> QED BY <1>1, <1>2

LEMMA MaxOpened ==
  ASSUME Inv, MaxStands, NEW presets, Opening(presets)
  PROVE  MaxStands'
<1> DEFINE old == IF form = None THEN FreshForm ELSE form
           g == WithPreset(old, Kind, presets.token, superTokens)
<1>1. form' = g /\ lookups' = lookups \cup Lookups(g.sel, g.custom)
  BY DEF Opening
<1>2. old \in Forms
  BY FreshOK, WorldIs DEF Inv, Mounted, FormOK
<1>3. old = form \/ old.max = None
  BY DEF FreshForm
<1>4. form = None => old.max = None
  BY DEF FreshForm
<1> HIDE DEF old
<1>5. g = old \/ g.max = None
  BY <1>2, PresetMax
<1> HIDE DEF g
<1> QED BY <1>1, <1>3, <1>4, <1>5, MaxKept

LEMMA MaxStep == Inv /\ MaxStands /\ [Next]_vars => MaxStands'
<1> SUFFICES ASSUME Inv, MaxStands, [Next]_vars PROVE MaxStands'
  OBVIOUS
<1>1. ASSUME Open \/ \E t \in CatalogueTokens : OpenDeposit(t) PROVE MaxStands'
  BY <1>1, MaxOpened DEF Open, OpenDeposit
<1>2. ASSUME \E t \in CatalogueTokens : NewToken(t) \/ FundsChange(t) PROVE MaxStands'
  BY <1>2, MaxPublished DEF NewToken, FundsChange
<1>3. ASSUME Close \/ TransitionEnd \/ Timer \/ \E done \in BOOLEAN : Settle(done) PROVE MaxStands'
  <2>1. (form' = form /\ lookups' = lookups) \/ form' = None
    BY <1>3 DEF Close, TransitionEnd, Timer, Settle
  <2> QED BY <2>1 DEF MaxStands
<1>4. ASSUME NEW i \in 0..1, SelectTab(i) PROVE MaxStands'
  <2>1. FreshForm \in Forms /\ FreshForm.max = None
    BY FreshOK, WorldIs DEF Inv, FormOK, FreshForm
  <2>2. form' = WithPreset(FreshForm, Tabs(i), panel.presets.token, superTokens)
    BY <1>4 DEF SelectTab
  <2>3. form'.max = None
    BY <2>1, <2>2, PresetMax
  <2> QED BY <2>3 DEF MaxStands
<1>5. ASSUME NEW i \in -1..Len(Catalogue) - 1, SelectToken(i) PROVE MaxStands'
  <2> DEFINE f == [form EXCEPT !.custom = NONE, !.error = None]
  <2>1. form \in Forms
    BY <1>5 DEF Inv, Mounted, FormOK, SelectToken
  <2>2. f \in Forms
    BY <2>1 DEF Forms
  <2> HIDE DEF f
  <2> QED BY <1>5, <2>2, MaxPicked DEF SelectToken, Selected, Edit, f
<1>6. ASSUME NEW a \in Typed, TypeAddress(a) PROVE MaxStands'
  <2> DEFINE f == [form EXCEPT !.custom = a, !.error = None]
  <2>1. form \in Forms
    BY <1>6 DEF Inv, Mounted, FormOK, TypeAddress
  <2>2. f \in Forms
    BY <2>1 DEF Forms
  <2> HIDE DEF f
  <2> QED BY <1>6, <2>2, MaxPicked DEF TypeAddress, Selected, Edit, f
<1>7. ASSUME submitDeposit \/ submitWithdrawal \/ submitUpgrade \/ submitDowngrade PROVE MaxStands'
  <2>1. form # None /\ form \in Forms
    BY <1>7 DEF Inv, Mounted, FormOK, handleSubmit, submitDeposit, submitWithdrawal, submitUpgrade, submitDowngrade
  <2>2. /\ lookups' = lookups
        /\ form' = form \/ \E error \in {None, "no address", "not positive", "invalid token", "no balance"} :
                              form' = [form EXCEPT !.error = error]
    <3>1. \A f : /\ validateFields(f) \in {None, "no address", "not positive", "invalid token", "no balance"}
                 /\ validateWithdrawal(f) \in {None, "no address", "not positive", "invalid token", "no balance"}
      BY DEF validateFields, validateWithdrawal
    <3> QED BY <1>7, <3>1 DEF handleSubmit, submitDeposit, submitWithdrawal, submitUpgrade, submitDowngrade
  <2>3. form'.max = form.max /\ form'.sel = form.sel /\ form'.amount = form.amount
    BY <2>1, <2>2 DEF Forms
  <2> QED BY <2>1, <2>2, <2>3, MaxKept
<1>8. ASSUME UNCHANGED vars PROVE MaxStands'
  BY <1>8 DEF MaxStands, vars
<1> QED BY <1>1, <1>2, <1>3, <1>4, <1>5, <1>6, <1>7, <1>8, MaxEdited, MaxAnswered DEF Next

LEMMA MaxAlways == Spec => [](Inv /\ MaxStands)
<1>1. Init => MaxStands
  BY DEF Init, MaxStands
<1> QED BY <1>1, InitOK, NextOK, MaxStep, PTL DEF Spec

\* After Max the whole balance is sent: no answer, published state or edit of another field changes
\* the decimals the amount was written with, and toDecimals reads back what fromDecimals wrote.
THEOREM MaxIsAll == Spec => []MaxSendsAll
<1>1. Inv /\ MaxStands => MaxSendsAll
  <2> SUFFICES ASSUME Inv, MaxStands, Sendable, form.max # None
               PROVE  Value(AmountSent(form)) = form.max
    BY DEF MaxSendsAll
  <2> DEFINE m == form.max  d == form.sel.decimals  digits == DigitsUpTo(m)[m]
  <2>1. form \in Forms /\ form.sel \in Sels
    BY DEF Inv, Mounted, FormOK, SelOK, Sendable
  <2>2. m \in Nat /\ m \in 0..m
    <3>1. m \in Nat
      BY <2>1 DEF Forms
    <3> HIDE DEF m
    <3> QED BY <3>1
  <2>3. form # None /\ d # None /\ form.amount = fromDecimals(digits, d)
    BY DEF MaxStands, Inv, Mounted, Sendable
  <2>4. d \in Nat
    BY <2>1, <2>3, TokenAssumption DEF Sels, Selections
  <2>5. AmountSent(form) = toDecimals(fromDecimals(digits, d), d)
    BY <2>3 DEF AmountSent, DecimalsUsed
  <2> HIDE DEF m, d
  <2>6. digits \in Seq(Digit) /\ Value(digits) = m
    BY <2>2, DigitsAre
  <2> HIDE DEF digits
  <2>7. Value(toDecimals(fromDecimals(digits, d), d)) = m
    BY <2>4, <2>6, ThereAndBack
  <2> QED BY <2>5, <2>7 DEF m
<1> QED BY <1>1, MaxAlways, PTL
=============================================================================
