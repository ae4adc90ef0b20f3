------------------------------ MODULE Figures ------------------------------
(***************************************************************************)
(* The figures the front end computes from a published balance and net     *)
(* flow while time passes: the current amount, the depletion date and the  *)
(* amount in the default currency.  Time is in seconds since the balance   *)
(* was read (lastUpdateDate); a price is a numeral of Decimals.  The dates *)
(* and the warnings are computed when a state is published or a card is    *)
(* rendered, and stand until that happens again.                           *)
(***************************************************************************)
EXTENDS Decimals

CONSTANTS
  Balances, NetFlows, Prices, MaxClock,
  SecondsPerDay,
  DateRange,               \* the seconds to a depletion date that Date and BN.toNumber can hold
  CardDays, IncomingDays   \* WARNING_THRESHOLD_DAYS of the cards, and of the incoming flows

\* A flow may have left a negative balance; a price is a number that is not negative; the thresholds are days.
ASSUME FigureAssumption ==
  /\ Balances \subseteq Int /\ NetFlows \subseteq Int /\ Prices \subseteq Numerals
  /\ SecondsPerDay \in Nat \ {0} /\ DateRange \in Nat
  /\ CardDays \in Nat /\ IncomingDays \in Nat \ {0}

VARIABLES
  figure,       \* [balance, netFlow, price]
  clock,
  publishedAt,  \* when the state was published last: `now` of its depletion dates
  renderedAt    \* when the token's card was rendered last

figureVars == <<figure, clock, publishedAt, renderedAt>>

calculateCurrentAmount(amount, rate, date) == amount + rate * date

\* BN.div rounds towards zero.
Div(a, b) == IF a < 0 THEN -((-a) \div b) ELSE a \div b

\* Mutation: the balance is taken for the current one.
DepletionFromLast(balance, netFlow, date) == date + Div(balance, -netFlow)

Abs(n) == IF n < 0 THEN -n ELSE n

\* Further away the date is invalid, or toNumber throws.
InDateRange(balance, netFlow, date) ==
  Abs(Div(calculateCurrentAmount(balance, netFlow, date), -netFlow)) <= DateRange

\* For a negative net flow; there is no date otherwise.
calculateDepletionDate(balance, netFlow, date) ==
  date + Div(calculateCurrentAmount(balance, netFlow, date), -netFlow)

\* date-fns: whole days, towards zero.
differenceInDays(date, now) == Div(date - now, SecondsPerDay)

\* The warning on a token's card, and the one about a token with which the user pays incoming flows.
displayWarning(depletionDate, now) == differenceInDays(depletionDate, now) <= CardDays
incomingFlowWarning(balance, netFlow, now) ==
  /\ netFlow < 0
  /\ differenceInDays(calculateDepletionDate(balance, netFlow, now), now) < IncomingDays

\* Mutation: the zeroes after the point are dropped before the digits are counted.
ConvertedByFewerDigits(amount, price) ==
  LET dec == TrimStart(TrimEnd(price.dec))
  IN  Div(amount * Value(TrimStart(price.whole \o dec)), PowerOfTen(Len(dec)))

\* The price as a number prints, without an exponent.
getConvertedAmount(amount, price) ==
  LET dec == TrimEnd(price.dec)
  IN  Div(amount * Value(TrimStart(price.whole \o dec)), PowerOfTen(Len(dec)))

\* What is on the screen: the card keeps the date of the published state and is memoized, the warnings
\* about incoming flows are memoized per published state.
CardDate == calculateDepletionDate(figure.balance, figure.netFlow, publishedAt)
CardWarning == displayWarning(CardDate, renderedAt)
IncomingWarning == incomingFlowWarning(figure.balance, figure.netFlow, publishedAt)

FigureInit ==
  /\ figure \in [balance : Balances, netFlow : NetFlows, price : Prices]
  /\ clock = 0 /\ publishedAt = 0 /\ renderedAt = 0

SecondPasses ==
  /\ clock < MaxClock /\ clock' = clock + 1
  /\ UNCHANGED <<figure, publishedAt, renderedAt>>

\* A state is published that leaves this balance as it is; the cards are rendered with it.
FiguresPublished ==
  /\ publishedAt' = clock /\ renderedAt' = clock
  /\ UNCHANGED <<figure, clock>>

\* The card alone is rendered again, as when the conversion rates arrive.
CardRendered ==
  /\ renderedAt' = clock
  /\ UNCHANGED <<figure, clock, publishedAt>>

FigureNext == SecondPasses \/ FiguresPublished \/ CardRendered

-----------------------------------------------------------------------------
(* Properties.                                                              *)

\* A date that Date can hold is within a second of the moment the balance runs out, whenever the state
\* was published, also after it has run out, and before that there is still a balance at it.  A warning
\* is up if it was computed (the card's at its rendering, the other with the published state) in the
\* last days, as many as its threshold says; and one that is up, however long ago it was computed, is
\* not about a balance with two days more than that.
DepletionWithin ==
  figure.netFlow < 0 /\ InDateRange(figure.balance, figure.netFlow, publishedAt) =>
    LET At(d) == calculateCurrentAmount(figure.balance, figure.netFlow, d)
        Timely(warning, days, computed) ==
          /\ At(computed + days * SecondsPerDay) < 0 => warning
          /\ At(clock + (days + 2) * SecondsPerDay) >= 0 => ~warning
    IN  /\ At(CardDate - 1) >= 0 /\ At(CardDate + 1) < 0
        /\ At(publishedAt) >= 0 => At(CardDate) >= 0
        /\ Timely(CardWarning, CardDays, renderedAt)
        /\ Timely(IncomingWarning, IncomingDays, publishedAt)

\* The converted amount is the amount times the price, cut to whole units towards zero, however the price
\* is written.
ConvertedFloor ==
  \A amount \in {figure.balance, figure.netFlow} :
    LET unit == PowerOfTen(Len(figure.price.dec))
        exact == amount * Value(figure.price.whole \o figure.price.dec)
        converted == getConvertedAmount(amount, figure.price)
    IN  /\ Abs(converted) * unit <= Abs(exact) /\ Abs(exact) < (Abs(converted) + 1) * unit
        /\ converted * exact >= 0
=============================================================================
