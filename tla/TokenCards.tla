----------------------------- MODULE TokenCards -----------------------------
(***************************************************************************)
(* The row of token cards: the carousel's selected item, and the           *)
(* conversion rates that useConvertRates fetches for the listed tokens.    *)
(* Each change of the query cancels the request in flight (its answer is   *)
(* then ignored) and the retry that waits.                                 *)
(***************************************************************************)
EXTENDS Sublists

CONSTANTS
  CardTokens,      \* Super Tokens, sorted by symbol
  RateToken,       \* getConvertRateToken: the token priced for a Super Token, or NoRate
  MaxVisible,      \* bound: items that a wide container shows
  RETRY_DELAY, RETRY_DELAY_MAX,
  MaxChanges       \* bound: published states

VARIABLES
  published,       \* [listed, funded]: the Super Tokens, and those with a balance
  changes,
  carousel,        \* [selected, visible, compact], or NoCarousel
  shortDrag,       \* history: was the selection made by a drag in a row with fewer cards than fit?
  rates,           \* the tokens whose rate is known
  mistaken,        \* history: was the last answer an error that was taken for rates?
  sent,            \* requests in flight: [query, cancelled]
  retryTimer, retryDelay

rowVars == <<carousel, shortDrag>>
rateVars == <<rates, mistaken, sent, retryTimer, retryDelay>>
cardVars == <<published, changes, rowVars, rateVars>>

CardSet == {CardTokens[i] : i \in DOMAIN CardTokens}

\* The tokens are a list, and the delays in their order.
ASSUME CardAssumption ==
  /\ CardTokens \in Seq(CardSet)
  /\ RETRY_DELAY \in Nat /\ RETRY_DELAY_MAX \in Nat /\ RETRY_DELAY <= RETRY_DELAY_MAX

NoRate == "none"
NoCarousel == [selected |-> 0, visible |-> 0, compact |-> FALSE]

tokenAddresses(p) ==
  LET priced == Kept(CardTokens, {t \in p.listed : RateToken[t] # NoRate})
  IN  [i \in DOMAIN priced |-> RateToken[priced[i]]]
Priced(query) == {query[i] : i \in DOMAIN query}

\* The cards: getAvailableSuperTokens.
Items(p) == Cardinality(p.listed \cap p.funded)

-----------------------------------------------------------------------------
(* useConvertRates.                                                         *)

\* Mutation: the effect's clean-up forgets the request in flight.
QueryChangesUncancelled(query) ==
  /\ sent' = sent \cup {[query |-> query, cancelled |-> FALSE]}
  /\ retryTimer' = FALSE /\ retryDelay' = RETRY_DELAY
  /\ UNCHANGED <<rates, mistaken>>

\* The clean-up of the effect, and its next run.
QueryChanges(query) ==
  /\ sent' = {[r EXCEPT !.cancelled = TRUE] : r \in sent} \cup
               IF query = <<>> THEN {} ELSE {[query |-> query, cancelled |-> FALSE]}
  /\ rates' = IF query = <<>> THEN {} ELSE rates
  /\ mistaken' = (query # <<>> /\ mistaken)
  /\ retryTimer' = FALSE /\ retryDelay' = RETRY_DELAY

\* The service answers with JSON, which is taken for the rates whatever its status: an error object
\* (429, too many requests) leaves no rates, and nothing is asked again.
Answers(r, isError) ==
  /\ sent' = sent \ {r}
  /\ IF r.cancelled THEN UNCHANGED <<rates, mistaken, retryDelay>>
     ELSE /\ rates' = IF isError THEN {} ELSE Priced(r.query)
          /\ mistaken' = isError
          /\ retryDelay' = RETRY_DELAY
  /\ UNCHANGED <<published, changes, rowVars, retryTimer>>

Loads(r) == Answers(r, FALSE)
AnswersError(r) == Answers(r, TRUE)

\* Mutation: a failed request is not repeated.
FailsForGood(r) ==
  /\ sent' = sent \ {r}
  /\ UNCHANGED <<published, changes, rowVars, rates, mistaken, retryTimer, retryDelay>>

\* Mutation: the delay grows without its bound.
FailsUncapped(r) ==
  /\ sent' = sent \ {r}
  /\ IF r.cancelled THEN UNCHANGED <<retryTimer, retryDelay>>
     ELSE retryTimer' = TRUE /\ retryDelay' = (retryDelay * 6) \div 5
  /\ UNCHANGED <<published, changes, rowVars, rates, mistaken>>

\* fetch or the body's parsing throws.
Fails(r) ==
  /\ sent' = sent \ {r}
  /\ IF r.cancelled THEN UNCHANGED <<retryTimer, retryDelay>>
     ELSE /\ retryTimer' = TRUE
          /\ retryDelay' = IF (retryDelay * 6) \div 5 < RETRY_DELAY_MAX
                           THEN (retryDelay * 6) \div 5 ELSE RETRY_DELAY_MAX
  /\ UNCHANGED <<published, changes, rowVars, rates, mistaken>>

Retry ==
  /\ retryTimer
  /\ retryTimer' = FALSE
  /\ sent' = sent \cup {[query |-> tokenAddresses(published), cancelled |-> FALSE]}
  /\ UNCHANGED <<published, changes, rowVars, rates, mistaken, retryDelay>>

-----------------------------------------------------------------------------
(* Carousel.                                                                *)

\* Mutation: the last item that may be selected is counted as if one item were visible.
ClampToItems(c, n) ==
  [c EXCEPT !.selected = IF c.selected > n - 1 THEN n - 1 ELSE c.selected]

\* The effect on the container's width and the items.
Adjusted(c, n) ==
  LET last == IF n - c.visible > 0 THEN n - c.visible ELSE 0
  IN  [c EXCEPT !.selected = IF c.selected > last THEN last ELSE c.selected]

\* The width of the container decides how many items it shows, and the window's whether the
\* layout is small.
Resize(visible, compact) ==
  /\ Items(published) > 0
  /\ carousel' = Adjusted([carousel EXCEPT !.visible = visible, !.compact = compact], Items(published))
  /\ UNCHANGED <<published, changes, shortDrag, rateVars>>

Select(target) ==
  /\ carousel' = [carousel EXCEPT !.selected = target]
  /\ shortDrag' = (target < 0 /\ (shortDrag \/ Items(published) < carousel.visible))
  /\ UNCHANGED <<published, changes, rateVars>>

LeftBy(k) == IF carousel.selected - k > 0 THEN carousel.selected - k ELSE 0
RightBy(k) ==
  LET end == Items(published) - carousel.visible
  IN  IF carousel.selected + k < end THEN carousel.selected + k ELSE end

prev == carousel.selected > 0 /\ Select(LeftBy(carousel.visible))
next ==
  /\ Items(published) > 0 /\ carousel.selected < Items(published) - carousel.visible
  /\ Select(RightBy(carousel.visible))

\* A drag by k items to either side; a small layout allows it in a row that has room to spare, and
\* to the right it then selects an item before the first.
drag(k, left) ==
  /\ Items(published) > 0 /\ (carousel.compact \/ Items(published) > carousel.visible)
  /\ Select(IF left THEN LeftBy(k) ELSE RightBy(k))

-----------------------------------------------------------------------------
\* A state is published: the rates' query and the carousel's items follow.  Without a card there
\* is no carousel, and a new one starts at its first item.
Publish(p) ==
  /\ changes < MaxChanges /\ changes' = changes + 1
  /\ published' = p
  /\ carousel' = IF Items(p) = 0 THEN NoCarousel
                 ELSE IF Items(published) = 0 THEN [NoCarousel EXCEPT !.visible = 1]
                 ELSE Adjusted(carousel, Items(p))
  /\ shortDrag' = (shortDrag /\ Items(p) > 0)
  /\ IF tokenAddresses(p) = tokenAddresses(published) THEN UNCHANGED rateVars
     ELSE QueryChanges(tokenAddresses(p))

CardInit ==
  /\ published = [listed |-> {}, funded |-> {}] /\ changes = 0
  /\ carousel = NoCarousel /\ shortDrag = FALSE
  /\ rates = {} /\ mistaken = FALSE /\ sent = {} /\ retryTimer = FALSE /\ retryDelay = RETRY_DELAY

CardNext ==
  \/ Retry \/ prev \/ next
  \/ \E r \in sent : Loads(r) \/ AnswersError(r) \/ Fails(r)
  \/ \E visible \in 1..MaxVisible, compact \in BOOLEAN : Resize(visible, compact)
  \/ \E k \in 0..2, left \in BOOLEAN : drag(k, left)
  \/ \E listed, funded \in SUBSET CardSet :
       /\ published.listed \subseteq listed /\ funded \subseteq listed
       /\ Publish([listed |-> listed, funded |-> funded])

-----------------------------------------------------------------------------
(* Properties.                                                              *)

CardTypeOK == retryDelay \in RETRY_DELAY..RETRY_DELAY_MAX /\ rates \subseteq Priced([t \in CardSet |-> RateToken[t]])

\* Whatever tokens are added while requests are in flight and fail: either one request for the tokens
\* listed now is in flight, or one retry waits, or the rates are those of the tokens listed now, or there
\* are none because an error was taken for them.
RatesFollow ==
  LET mine == {r \in sent : ~r.cancelled}
      query == tokenAddresses(published)
  IN  /\ \A r \in mine : r.query = query
      /\ ~(retryTimer /\ mine # {})
      /\ ~retryTimer /\ mine = {} => rates = IF mistaken THEN {} ELSE Priced(query)

\* The rates of the tokens that are listed arrive in the end, however many requests are refused, time
\* out or are answered with what is no JSON before, unless an answer is an error in JSON: those rates
\* never come while the tokens stay the same.
RatesArrive == []<>(mistaken \/ rates = Priced(tokenAddresses(published)))

\* The first visible item is one from which the visible ones are all there, through resizing, dragging, and
\* cards that come and go; it lies before the first item only after a drag in a row with fewer cards
\* than fit, and until the next selection.
SelectionInRange ==
  Items(published) > 0 =>
    /\ carousel.selected <= 0 \/ carousel.selected + carousel.visible <= Items(published)
    /\ carousel.selected < 0 => shortDrag
=============================================================================
