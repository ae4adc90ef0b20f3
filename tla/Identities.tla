----------------------------- MODULE Identities -----------------------------
(***************************************************************************)
(* Names for addresses: the recipient field that completes names           *)
(* (LocalIdentitiesAutoComplete) inside a form that owns its value, and    *)
(* the name a badge shows (useIdentity).  Searches and lookups are         *)
(* answered in any order and never cancelled.                              *)
(***************************************************************************)
EXTENDS Integers, FiniteSets

CONSTANTS
  People,        \* the local identities: [name, address]
  Texts,         \* what may be typed or preset
  Found,         \* Found[text]: the people api.searchIdentities finds for a text
  Short,         \* the texts of fewer than 3 characters
  MaxLookups     \* bound: lookups of the badge

VARIABLES
  field,         \* [value, searchTerm, selected, items]; value is the form's
  searches,      \* in flight: [kind, text], kind "items" (handleSearch) or "exists" (the effect)
  crossed,       \* history: the value changed in a way the field does not follow
  badge,         \* [address, name, answered]; history: the number of the lookup it has its name from
  lookups,       \* the badge's, in flight: [number, address, name], name Unread until the client reads it
  asked,         \* how many lookups the badge has asked for
  named,         \* the addresses that have a name
  notices        \* addresses whose modification is about to be announced (updates$)

fieldVars == <<field, searches, crossed>>
badgeVars == <<badge, lookups, asked, named, notices>>
identityVars == <<fieldVars, badgeVars>>

Empty == ""
Unread == "unread"
Nobody == [name |-> Empty, address |-> Empty]
AddressesOf(people) == {p.address : p \in people}
NamesOf(people) == {p.name : p \in people}

\* A name is something, nothing is a short text, and a search finds people for every text that may
\* be in the field.
ASSUME PeopleAssumption ==
  /\ Empty \in Short
  /\ People \subseteq [name : NamesOf(People) \ {Empty}, address : AddressesOf(People)]
  /\ Found \in [Texts \cup NamesOf(People) \cup AddressesOf(People) -> SUBSET People]

\* handleSearch: a short text has no results, at once.
Searching(text) == IF text \in Short THEN {} ELSE {[kind |-> "items", text |-> text]}
Cleared(items, text) == IF text \in Short THEN {} ELSE items

\* The effect of the field on form value f.value, after f is rendered: the field and its new searches.
Effect(f) ==
  CASE f.value = Empty -> <<[f EXCEPT !.selected = Nobody, !.searchTerm = Empty, !.items = {}], {}>>
    [] f.value # Empty /\ f.searchTerm = Empty -> <<f, {[kind |-> "exists", text |-> f.value]}>>
    [] OTHER -> <<f, {}>>

Change(f, more) ==
  /\ field' = Effect(f)[1]
  /\ searches' = searches \cup more \cup Effect(f)[2]
  /\ crossed' = /\ f.value # Empty
                /\ \/ crossed
                   \/ f.value # field.value /\ \E s \in searches : s.kind = "exists"
                   \/ f.value # field.value /\ f.searchTerm # Empty /\ f.searchTerm = field.searchTerm
                                            /\ f.selected # Nobody
  /\ UNCHANGED badgeVars

handleChange(text) ==
  /\ field.selected = Nobody /\ text # field.searchTerm
  /\ Change([field EXCEPT !.searchTerm = text, !.value = text, !.items = Cleared(@, text)],
            Searching(text))

handleSelect(p) ==
  /\ field.selected = Nobody /\ p \in field.items
  /\ Change([field EXCEPT !.searchTerm = p.name, !.selected = p, !.value = p.address,
                          !.items = Cleared(@, p.name)], Searching(p.name))

handleSelectedClick ==
  /\ field.selected # Nobody
  /\ Change([field EXCEPT !.selected = Nobody, !.value = field.selected.name], {})

\* The form sets the value: a preset, or nothing again.
ValueSet(text) == text # field.value /\ Change([field EXCEPT !.value = text], {})

\* Mutation: the first person found is selected, whether or not it is the one asked for.
AnyFound(text) == Found[text]

\* The only person found, if the text is the name or the address.
Exists(text) == {p \in Found[text] : Cardinality(Found[text]) = 1 /\ text \in {p.name, p.address}}

\* Outside an event handler every set is rendered at once: setSelected runs the effect before
\* setSearchTerm does, and the effect asks for the same value again.
SearchEnds(s) ==
  /\ LET found == IF s.kind = "exists" THEN Exists(s.text) ELSE {}
         p == CHOOSE x \in found : TRUE
         chosen == IF found = {} THEN field ELSE [field EXCEPT !.selected = p]
         f == IF s.kind = "items" THEN [field EXCEPT !.items = Found[s.text]]
              ELSE IF found = {} THEN [field EXCEPT !.searchTerm = s.text]
              ELSE [chosen EXCEPT !.searchTerm = p.name, !.items = Cleared(@, p.name)]
         again == IF chosen # field THEN Effect(chosen)[2] ELSE {}
         effect == IF s.kind = "items" THEN <<f, {}>> ELSE Effect(f)
     IN  /\ field' = effect[1]
         /\ searches' = (searches \ {s}) \cup again \cup effect[2]
                          \cup (IF found = {} THEN {} ELSE Searching(p.name))
  /\ UNCHANGED <<crossed, badgeVars>>

-----------------------------------------------------------------------------
(* useIdentity.                                                             *)

\* resolveLocalIdentity for the badge, which is then shown for `address`.
Ask(address) ==
  /\ asked < MaxLookups
  /\ asked' = asked + 1
  /\ lookups' = lookups \cup {[number |-> asked + 1, address |-> address, name |-> Unread]}

NameOf(address) == IF address \in named THEN address ELSE Empty

\* The badge is given another address.
Shown(address) ==
  /\ address # badge.address
  /\ badge' = [badge EXCEPT !.address = address]
  /\ Ask(address)
  /\ UNCHANGED <<fieldVars, named, notices>>

\* External: the client reads the name; the answer is on its way.
NameRead(l) ==
  /\ l.name = Unread
  /\ lookups' = (lookups \ {l}) \cup {[l EXCEPT !.name = NameOf(l.address)]}
  /\ UNCHANGED <<fieldVars, badge, asked, named, notices>>

\* handleNameChange, for whichever lookup is answered next.
Resolved(l) ==
  /\ l.name # Unread
  /\ badge' = [badge EXCEPT !.name = l.name, !.answered = l.number]
  /\ lookups' = lookups \ {l}
  /\ UNCHANGED <<fieldVars, asked, named, notices>>

\* requestAddressIdentityModification, and what follows its answer.
handleModifyLocalIdentity(address) ==
  /\ named' = (named \ {address}) \cup ({address} \ named)
  /\ notices' = notices \cup {address}
  /\ UNCHANGED <<fieldVars, badge, lookups, asked>>

\* Mutation: a badge does not hear of modifications.
Unheard(address) ==
  /\ notices' = notices \ {address}
  /\ UNCHANGED <<fieldVars, badge, lookups, asked, named>>

\* updates$: the badge asks again, whatever else it has asked for.
Announced(address) ==
  /\ notices' = notices \ {address}
  /\ IF address = badge.address THEN Ask(address) ELSE UNCHANGED <<lookups, asked>>
  /\ UNCHANGED <<fieldVars, badge, named>>

IdentityInit ==
  /\ field = [value |-> Empty, searchTerm |-> Empty, selected |-> Nobody, items |-> {}]
  /\ searches = {} /\ crossed = FALSE
  /\ badge = [address |-> CHOOSE a \in AddressesOf(People) : TRUE, name |-> Empty, answered |-> 0]
  /\ asked = 1 /\ lookups = {[number |-> 1, address |-> badge.address, name |-> Unread]}
  /\ named = AddressesOf(People) /\ notices = {}

FieldNext ==
  \/ handleSelectedClick
  \/ \E text \in Texts : handleChange(text) \/ ValueSet(text)
  \/ \E p \in People : handleSelect(p)
  \/ \E s \in searches : SearchEnds(s)

BadgeNext ==
  \/ \E a \in AddressesOf(People) : Shown(a) \/ handleModifyLocalIdentity(a)
  \/ \E l \in lookups : NameRead(l) \/ Resolved(l)
  \/ \E a \in notices : Announced(a)

-----------------------------------------------------------------------------
(* Properties.                                                              *)

\* The person shown as selected is the one whose address the form has, so a recipient is never shown as one and
\* sent as another; unless the form changed its value over a search for the old one, or over a selected
\* person, which the field does not follow.
SelectedIsValue ==
  field.selected # Nobody /\ ~crossed => field.value \in {field.selected.address, field.selected.name}

\* When the answer that came last is the one to the lookup that was asked for last, and no modification
\* of its name is about to be announced, a badge shows the name its address has now, whatever addresses
\* and names it had and however the client's reads and the modifications fell.  (Lookups are not
\* cancelled: a badge whose last answer is an earlier lookup's keeps that name.)
BadgeSettles ==
  badge.answered = asked /\ badge.address \notin notices => badge.name = NameOf(badge.address)
=============================================================================
