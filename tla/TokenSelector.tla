--------------------------- MODULE TokenSelector ---------------------------
(***************************************************************************)
(* components/SidePanels/TokenSelector: the selection a form holds, and    *)
(* the lookup of the selected token's data and of the user's balance.  The *)
(* lookup works on the selection it was started with and hands back a      *)
(* whole selection; it is not cancelled when the user selects again.       *)
(* Positions are counted from 0, as in the code: -1 is "Other...", -2 is   *)
(* nothing selected.  An account is connected.                             *)
(***************************************************************************)
EXTENDS SidePanel, Sublists

CONSTANTS
  Catalogue,       \* Super Tokens the app may list, sorted by symbol
  SuperTokens,     \* the Super Token contracts
  Addresses,       \* what isAddress accepts
  DecimalsOf,      \* DecimalsOf[a]: decimals of the token at a
  BalanceOf        \* BalanceOf[a]: the user's balance of it, in its smallest unit

NONE == ""   \* no address, no text

\* The app lists Super Tokens; a contract has an address and its token numbers.
ASSUME TokenAssumption ==
  /\ Catalogue \in Seq(SuperTokens) /\ SuperTokens \subseteq Addresses /\ NONE \notin Addresses
  /\ DecimalsOf \in [Addresses -> Nat] /\ BalanceOf \in [Addresses -> Nat]

CatalogueTokens == {Catalogue[i] : i \in DOMAIN Catalogue}

\* The list that is offered of the tokens S.
Listing(S) == Kept(Catalogue, S)

INITIAL_SELECTED_TOKEN ==
  [index |-> -2, address |-> NONE, decimals |-> None, balance |-> None, loading |-> FALSE,
   error |-> None]

Selections(addresses, positions) ==
  [index : positions, address : addresses, decimals : {DecimalsOf[a] : a \in Addresses} \cup {None},
   balance : {BalanceOf[a] : a \in Addresses} \cup {None}, loading : BOOLEAN,
   error : {None, "INVALID_TOKEN", "NO_TOKEN_BALANCE", "FETCH_TOKEN"}]

\* Mutation: positions are counted from 1.
ListedFromOne(tokens, i, load) ==
  [INITIAL_SELECTED_TOKEN EXCEPT !.index = i + 1, !.address = tokens[i + 1],
                                 !.decimals = DecimalsOf[tokens[i + 1]], !.loading = load]

Listed(tokens, i, load) ==
  [INITIAL_SELECTED_TOKEN EXCEPT !.index = i, !.address = tokens[i + 1],
                                 !.decimals = DecimalsOf[tokens[i + 1]], !.loading = load]

handleDropDownChange(tokens, i, load) ==
  IF i >= 0 THEN Listed(tokens, i, load)
  ELSE [INITIAL_SELECTED_TOKEN EXCEPT !.index = i, !.loading = load]

handleCustomTokenAddressChange(value) ==
  [INITIAL_SELECTED_TOKEN EXCEPT !.index = -1, !.address = value, !.loading = TRUE]

\* findSuperTokenByAddress of the panels, for a token that is in the list.
Find(tokens, address, load) ==
  Listed(tokens, (CHOOSE i \in DOMAIN tokens : tokens[i] = address) - 1, load)

\* The effect after a change of the selection: the lookups it starts, one or none.
Lookups(sel, customTokenAddress) ==
  LET isCustomToken == customTokenAddress # NONE /\ sel.index = -1
      address == IF isCustomToken THEN customTokenAddress ELSE sel.address
  IN  IF sel.loading /\ address \in Addresses
      THEN {[sel |-> sel, address |-> address, isCustomToken |-> isCustomToken]}
      ELSE {}

\* Mutation: the token that was typed is asked, not the one processCustomToken names.
FetchUnprocessed(req, asked) ==
  {[req.sel EXCEPT !.address = req.address, !.loading = FALSE,
                   !.decimals = DecimalsOf[req.address], !.balance = BalanceOf[req.address]]}

\* The selections a lookup may end with; `asked` is the token that processCustomToken
\* names.  validateToken takes a failing call for an invalid token; the data or the
\* balance may fail to load.
fetchTokenData(req, asked) ==
  LET done == [req.sel EXCEPT !.address = req.address, !.loading = FALSE]
      loaded == [done EXCEPT !.decimals = DecimalsOf[asked]]
      invalid == [req.sel EXCEPT !.loading = FALSE, !.error = "INVALID_TOKEN"]
      failures == {[done EXCEPT !.error = "FETCH_TOKEN"], [loaded EXCEPT !.error = "FETCH_TOKEN"]}
      success == [loaded EXCEPT !.balance = BalanceOf[asked],
                                !.error = IF BalanceOf[asked] = 0 THEN "NO_TOKEN_BALANCE" ELSE None]
  IN  IF ~req.isCustomToken THEN failures \cup {success}
      ELSE IF req.address \notin SuperTokens THEN {invalid}
      ELSE failures \cup {success, invalid}
=============================================================================
