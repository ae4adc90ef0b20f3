------------------------------ MODULE FlowList ------------------------------
(***************************************************************************)
(* The list of flows: the filters and the page of useFilteredFlows and the *)
(* order of components/Flows, over published states in which flows open    *)
(* and close and tokens are added.  A flow is created at a moment `now`,   *)
(* DayLength moments make a day.  Pages are DataView's (external): the     *)
(* entries from page * PageSize on.                                        *)
(***************************************************************************)
EXTENDS Sublists

CONSTANTS
  ListTokens,    \* Super Tokens that may be listed, sorted by symbol
  DayLength,
  Ranges,        \* what the date picker may give: [start, end], NoDate for none
  PageSize,
  MaxFlows,      \* bound: flows
  MaxNow         \* bound: the clock

VARIABLES
  flows,         \* the published flows, in the order in which they were created
  tokens,        \* the published Super Tokens
  now,
  filter,        \* [state, type, token, range]: the selected positions, -1 for none
  page,
  wanted         \* history: the token that was selected, whether the list of tokens has changed since,
                 \* and whether it has since the page was set

listVars == <<flows, tokens, now, filter, page, wanted>>

NoDate == -1
ListSet == {ListTokens[i] : i \in DOMAIN ListTokens}

\* The tokens are a list, none of them named as the entry for all; the picker gives days or nothing.
ASSUME ListAssumption ==
  /\ ListTokens \in Seq(ListSet) /\ ListTokens # <<>> /\ "All" \notin ListSet
  /\ DayLength \in Nat \ {0} /\ PageSize \in Nat \ {0}
  /\ Ranges \subseteq [start : Nat \cup {NoDate}, end : Nat \cup {NoDate}]

UNSELECTED == -1
NoFilter ==
  [state |-> UNSELECTED, type |-> UNSELECTED, token |-> UNSELECTED,
   range |-> [start |-> NoDate, end |-> NoDate]]

FLOW_STATES == <<"All", "Open", "Close">>
FLOW_TYPES == <<"All", "Incoming", "Outgoing">>

\* Position 0 is "All tokens".
tokensToFilter == <<"All">> \o Kept(ListTokens, tokens)

startOfDay(d) == d - (d % DayLength)
endOfDay(d) == startOfDay(d) + DayLength - 1

\* Mutation: the range ends at the moment the picker gives, not with its day.
RangeEndsAtOnce(f) ==
  /\ filter.state # UNSELECTED => FLOW_STATES[filter.state + 1] = IF f.isCancelled THEN "Close" ELSE "Open"
  /\ filter.type # UNSELECTED => FLOW_TYPES[filter.type + 1] = IF f.isIncoming THEN "Incoming" ELSE "Outgoing"
  /\ filter.range.start # NoDate => f.created >= startOfDay(filter.range.start)
  /\ filter.range.end # NoDate => f.created <= filter.range.end
  /\ filter.token > 0 => f.token = tokensToFilter[filter.token + 1]

Included(f) ==
  /\ filter.state # UNSELECTED => FLOW_STATES[filter.state + 1] = IF f.isCancelled THEN "Close" ELSE "Open"
  /\ filter.type # UNSELECTED => FLOW_TYPES[filter.type + 1] = IF f.isIncoming THEN "Incoming" ELSE "Outgoing"
  /\ filter.range.start # NoDate => ~(f.created < startOfDay(filter.range.start))
  /\ filter.range.end # NoDate => ~(f.created > endOfDay(filter.range.end))
  /\ filter.token > 0 => f.token = tokensToFilter[filter.token + 1]

filteredFlows == Sublist(flows, {i \in DOMAIN flows : Included(flows[i])})

\* The comparison given to Array.sort: negative if a comes first.
compareFlows(a, b) ==
  CASE ~a.isCancelled /\ b.isCancelled -> -1
    [] a.isCancelled /\ ~b.isCancelled -> 1
    [] a.isCancelled /\ b.isCancelled -> 0
    [] OTHER -> b.created - a.created

\* Array.sort is stable.
sortedFlows ==
  LET s == filteredFlows
      Before(i, j) == compareFlows(s[i], s[j]) < 0 \/ (compareFlows(s[i], s[j]) = 0 /\ i < j)
  IN  [k \in DOMAIN s |->
         s[CHOOSE i \in DOMAIN s : Cardinality({j \in DOMAIN s : Before(j, i)}) = k - 1]]

-----------------------------------------------------------------------------
(* The filters.                                                             *)

Position(index) == IF index = 0 THEN UNSELECTED ELSE index

\* Mutation: the page is not reset when the type changes.
PageKeptForType(old, new) == IF old.token # new.token THEN 0 ELSE page

\* The effect on [selectedDateRange, selectedFlowType, selectedToken].
PageAfter(old, new) == IF old.type # new.type \/ old.token # new.token THEN 0 ELSE page

Filter(new) ==
  /\ filter' = new
  /\ page' = PageAfter(filter, new)
  /\ UNCHANGED <<flows, tokens, now>>
Reset == [wanted EXCEPT !.pageMoved = @ /\ page' # 0]

\* Every range is another object, so the effect runs also when the same days are picked again.
handleDateRangeChange(range) ==
  /\ filter' = [filter EXCEPT !.range = range]
  /\ page' = 0 /\ wanted' = Reset
  /\ UNCHANGED <<flows, tokens, now>>
handleFlowStateChange(index) ==
  Filter([filter EXCEPT !.state = Position(index)]) /\ wanted' = Reset
handleFlowTypeChange(index) ==
  Filter([filter EXCEPT !.type = Position(index)]) /\ wanted' = Reset
handleTokenChange(index) ==
  /\ index < Len(tokensToFilter)
  /\ Filter([filter EXCEPT !.token = Position(index)])
  /\ wanted' = [Reset EXCEPT !.token = tokensToFilter[index + 1], !.moved = FALSE]

setPage(p) ==
  /\ p * PageSize < Len(filteredFlows)
  /\ page' = p /\ wanted' = [wanted EXCEPT !.pageMoved = FALSE]
  /\ UNCHANGED <<flows, tokens, now, filter>>

-----------------------------------------------------------------------------
(* Published states, and time.                                              *)

FlowOpens(t, isIncoming) ==
  /\ t \in tokens /\ Len(flows) < MaxFlows
  /\ flows' = Append(flows, [id |-> Len(flows), token |-> t, isIncoming |-> isIncoming,
                             isCancelled |-> FALSE, created |-> now])
  /\ UNCHANGED <<tokens, now, filter, page, wanted>>

FlowCloses(i) ==
  /\ i \in DOMAIN flows /\ ~flows[i].isCancelled
  /\ flows' = [flows EXCEPT ![i].isCancelled = TRUE]
  /\ UNCHANGED <<tokens, now, filter, page, wanted>>

TokenListed(t) ==
  /\ t \notin tokens
  /\ tokens' = tokens \cup {t}
  /\ wanted' = [wanted EXCEPT !.moved = TRUE, !.pageMoved = TRUE]
  /\ UNCHANGED <<flows, now, filter, page>>

Tick ==
  /\ now < MaxNow
  /\ now' = now + 1
  /\ UNCHANGED <<flows, tokens, filter, page, wanted>>

ListInit ==
  /\ flows = <<>> /\ tokens = {ListTokens[Len(ListTokens)]} /\ now = 0
  /\ filter = NoFilter /\ page = 0 /\ wanted = [token |-> "All", moved |-> FALSE, pageMoved |-> FALSE]

ListNext ==
  \/ Tick
  \/ \E t \in ListSet :
       TokenListed(t) \/ \E isIncoming \in BOOLEAN : FlowOpens(t, isIncoming)
  \/ \E i \in 1..MaxFlows : FlowCloses(i)
  \/ \E range \in Ranges : handleDateRangeChange(range)
  \/ \E index \in 0..2 :
       handleFlowStateChange(index) \/ handleFlowTypeChange(index) \/ handleTokenChange(index)
  \/ \E p \in 0..MaxFlows - 1 : setPage(p)

-----------------------------------------------------------------------------
(* Properties.                                                              *)

ListTypeOK == filter.token < Len(tokensToFilter) /\ page \in Nat /\ now \in Nat

\* What the filters ask for, said of a flow and not of positions in the drop-downs.
Asked(f) ==
  /\ filter.state = 1 => ~f.isCancelled
  /\ filter.state = 2 => f.isCancelled
  /\ filter.type = 1 => f.isIncoming
  /\ filter.type = 2 => ~f.isIncoming
  /\ filter.range.start # NoDate => f.created \div DayLength >= filter.range.start \div DayLength
  /\ filter.range.end # NoDate => f.created \div DayLength <= filter.range.end \div DayLength
  /\ wanted.token # "All" => f.token = wanted.token

\* The list shows the flows that were asked for, whole days and both ends of the range included: open ones
\* first and the latest first, then the closed ones.  While a token is selected this holds until the
\* list of tokens changes: the filter keeps a position, not a token.
ListedExactly ==
  ~(wanted.moved /\ filter.token > 0) =>
    LET list == sortedFlows
    IN  /\ {list[k] : k \in DOMAIN list} = {flows[i] : i \in {j \in DOMAIN flows : Asked(flows[j])}}
        /\ \A k \in 1..Len(list) - 1 :
             /\ list[k].isCancelled => list[k + 1].isCancelled
             /\ ~list[k + 1].isCancelled => list[k].created >= list[k + 1].created
             /\ list[k].isCancelled => list[k].id < list[k + 1].id

\* The page that is shown exists, unless flows were filtered by state, of which the page takes no notice, or
\* the selected token has become another one since the page was set.
PageExists ==
  filter.state = UNSELECTED /\ ~(wanted.pageMoved /\ filter.token > 0) =>
    page = 0 \/ page * PageSize < Len(filteredFlows)
=============================================================================
