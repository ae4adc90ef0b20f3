---------------------------- MODULE ViewsProofs ----------------------------
(***************************************************************************)
(* What the views keep true for any tokens, people, delays and figures:    *)
(* the start's attempts, the cards' rates and carousel, the recipient      *)
(* field, the badge, the list of flows and the figures.                    *)
(***************************************************************************)
EXTENDS Views, DataProofs

-----------------------------------------------------------------------------
(* The start of the script.                                                 *)

StartInv == retryNum \in 0..maxRetries

LEMMA StartInitOK == StartInit => StartInv
  BY StartAssumption DEF StartInit, StartInv

LEMMA StartStep == StartInv /\ [StartNext]_startVars => StartInv'
  BY StartAssumption DEF StartInv, StartNext, CallAnswers, CallFails, WakeUp, startVars

-----------------------------------------------------------------------------
(* The badge.                                                               *)

\* Lookups are numbered in the order they are asked for; the last one is for the badge's address and,
\* unless a modification of its name is about to be announced, finds the name that the address has.
BadgeInv ==
  /\ badge = [address |-> badge.address, name |-> badge.name, answered |-> badge.answered]
  /\ asked \in Nat /\ badge.answered \in Int /\ badge.answered <= asked
  /\ \A l \in lookups :
       /\ l = [number |-> l.number, address |-> l.address, name |-> l.name]
       /\ l.number \in Int /\ l.number <= asked
       /\ l.number = asked =>
            /\ l.address = badge.address
            /\ l.name # Unread /\ badge.address \notin notices => l.name = NameOf(badge.address)
  /\ BadgeSettles

LEMMA BadgeInitOK == IdentityInit => BadgeInv
  BY DEF IdentityInit, BadgeInv, BadgeSettles

LEMMA BadgeStep == BadgeInv /\ [BadgeNext]_badgeVars => BadgeInv'
<1> SUFFICES ASSUME BadgeInv, [BadgeNext]_badgeVars PROVE BadgeInv'
  OBVIOUS
<1>1. ASSUME NEW a, Ask(a), badge'.address = a, badge'.answered = badge.answered, named' = named,
             badge' = [address |-> badge'.address, name |-> badge'.name, answered |-> badge'.answered]
      PROVE  BadgeInv'
  BY <1>1 DEF BadgeInv, BadgeSettles, Ask
<1>2. ASSUME NEW a, Shown(a) PROVE BadgeInv'
  <2>1. Ask(a) /\ badge' = [badge EXCEPT !.address = a] /\ named' = named
    BY <1>2 DEF Shown
  <2>2. /\ badge'.address = a /\ badge'.answered = badge.answered
        /\ badge' = [address |-> badge'.address, name |-> badge'.name, answered |-> badge'.answered]
    BY <2>1 DEF BadgeInv
  <2> QED BY <1>1, <2>1, <2>2
<1>3. ASSUME NEW l \in lookups, NameRead(l) PROVE BadgeInv'
  <2> DEFINE m == [l EXCEPT !.name = NameOf(l.address)]
  <2>1. /\ l.name = Unread /\ lookups' = (lookups \ {l}) \cup {m}
        /\ UNCHANGED <<badge, asked, named, notices>>
    BY <1>3 DEF NameRead
  <2>2. /\ m = [number |-> l.number, address |-> l.address, name |-> NameOf(l.address)]
    BY DEF BadgeInv
  <2>3. /\ m.number = l.number /\ m.address = l.address /\ m.name = NameOf(l.address)
        /\ m = [number |-> m.number, address |-> m.address, name |-> m.name]
    BY <2>2
  <2> HIDE DEF m
  <2>4. NameOf(badge.address)' = NameOf(badge.address)
    BY <2>1 DEF NameOf
  <2>5. ASSUME NEW k \in lookups'
        PROVE  /\ k = [number |-> k.number, address |-> k.address, name |-> k.name]
               /\ k.number \in Int /\ k.number <= asked
               /\ k.number = asked =>
                    /\ k.address = badge.address
                    /\ k.name # Unread /\ badge.address \notin notices => k.name = NameOf(badge.address)
    BY <2>1, <2>3, <2>5 DEF BadgeInv
  <2> QED BY <2>1, <2>4, <2>5 DEF BadgeInv, BadgeSettles
<1>4. ASSUME NEW l \in lookups, Resolved(l) PROVE BadgeInv'
  <2>1. /\ l.name # Unread /\ lookups' = lookups \ {l}
        /\ badge' = [badge EXCEPT !.name = l.name, !.answered = l.number]
        /\ UNCHANGED <<asked, named, notices>>
    BY <1>4 DEF Resolved
  <2>2. /\ badge' = [address |-> badge.address, name |-> l.name, answered |-> l.number]
    BY <2>1 DEF BadgeInv
  <2>3. badge'.address = badge.address /\ badge'.name = l.name /\ badge'.answered = l.number
    BY <2>2
  <2> QED BY <2>1, <2>2, <2>3 DEF BadgeInv, BadgeSettles, NameOf
<1>5. ASSUME NEW a, handleModifyLocalIdentity(a) PROVE BadgeInv'
  <2>1. /\ notices' = notices \cup {a} /\ UNCHANGED <<badge, lookups, asked>>
        /\ badge.address \notin notices' => NameOf(badge.address)' = NameOf(badge.address)
    BY <1>5 DEF handleModifyLocalIdentity, NameOf
  <2> QED BY <2>1 DEF BadgeInv, BadgeSettles
<1>6. ASSUME NEW a \in notices, Announced(a) PROVE BadgeInv'
  <2>1. CASE a = badge.address
    BY <1>1, <1>6, <2>1 DEF Announced, BadgeInv
  <2>2. CASE a # badge.address
    BY <1>6, <2>2 DEF Announced, BadgeInv, BadgeSettles, NameOf
  <2> QED BY <2>1, <2>2
<1>7. CASE UNCHANGED badgeVars
  BY <1>7 DEF BadgeInv, BadgeSettles, NameOf, badgeVars
<1> QED BY <1>2, <1>3, <1>4, <1>5, <1>6, <1>7 DEF BadgeNext

-----------------------------------------------------------------------------
(* The cards: rates.                                                        *)

PricedTokens == {RateToken[t] : t \in CardSet}
Queries == [query : Seq(PricedTokens), cancelled : BOOLEAN]
PublishedStates == {p \in [listed : SUBSET CardSet, funded : SUBSET CardSet] : p.funded \subseteq p.listed}

RatesInv == published \in PublishedStates /\ sent \subseteq Queries /\ RatesFollow /\ CardTypeOK

LEMMA QueryIs ==
  ASSUME NEW p \in PublishedStates
  PROVE  tokenAddresses(p) \in Seq(PricedTokens)
<1> DEFINE S == {t \in p.listed : RateToken[t] # NoRate}
           list == Kept(CardTokens, S)
<1>1. S \subseteq CardSet
  BY DEF PublishedStates
<1> HIDE DEF S
<1>2. /\ Len(list) \in Nat /\ DOMAIN list = 1..Len(list)
      /\ \A k \in 1..Len(list) : list[k] \in S
  BY CardAssumption, KeptOf
<1>3. tokenAddresses(p) = [i \in DOMAIN list |-> RateToken[list[i]]]
  BY DEF tokenAddresses, S
<1> HIDE DEF list
<1>4. \A i \in 1..Len(list) : RateToken[list[i]] \in PricedTokens
  BY <1>1, <1>2 DEF PricedTokens
<1> QED BY <1>2, <1>3, <1>4

LEMMA PricedIs ==
  ASSUME NEW query \in Seq(PricedTokens)
  PROVE  Priced(query) \subseteq PricedTokens
  BY DEF Priced

LEMMA CardTypeIs ==
  CardTypeOK <=> retryDelay \in RETRY_DELAY..RETRY_DELAY_MAX /\ rates \subseteq PricedTokens
<1>1. Priced([t \in CardSet |-> RateToken[t]]) = PricedTokens
  BY DEF Priced, PricedTokens
<1> QED BY <1>1 DEF CardTypeOK

\* The requests that were not cancelled are one, for what is listed now.
LEMMA MineIs ==
  ASSUME RatesInv, NEW r \in sent, NEW s \in sent, ~r.cancelled, ~s.cancelled
  PROVE  r = s
<1>1. r \in Queries /\ s \in Queries /\ r.query = s.query
  BY DEF RatesInv, RatesFollow
<1> QED BY <1>1 DEF Queries

LEMMA RatesInitOK == CardInit => RatesInv
<1> SUFFICES ASSUME CardInit PROVE RatesInv
  OBVIOUS
<1>1. published \in PublishedStates
  BY DEF CardInit, PublishedStates
<1>2. tokenAddresses(published) = <<>>
  <2> DEFINE S == {t \in published.listed : RateToken[t] # NoRate}
             list == Kept(CardTokens, S)
  <2>1. S = {}
    BY DEF CardInit
  <2> HIDE DEF S
  <2>2. Len(list) \in Nat /\ DOMAIN list = 1..Len(list) /\ \A k \in 1..Len(list) : list[k] \in S
    BY CardAssumption, KeptOf
  <2>3. DOMAIN list = {}
    BY <2>1, <2>2
  <2>4. tokenAddresses(published) = [i \in DOMAIN list |-> RateToken[list[i]]]
    BY DEF tokenAddresses, S
  <2> HIDE DEF list
  <2> QED BY <2>3, <2>4
<1>3. RatesFollow
  BY <1>2 DEF CardInit, RatesFollow, Priced
<1>4. CardTypeOK
  BY CardTypeIs, CardAssumption DEF CardInit
<1> QED BY <1>1, <1>3, <1>4 DEF RatesInv, CardInit

LEMMA RatesKeep == RatesInv /\ UNCHANGED <<published, rateVars>> => RatesInv'
  BY DEF RatesInv, RatesFollow, CardTypeOK, rateVars

LEMMA RatesStep == RatesInv /\ [CardNext]_cardVars => RatesInv'
<1> SUFFICES ASSUME RatesInv, [CardNext]_cardVars PROVE RatesInv'
  OBVIOUS
<1> DEFINE now0 == tokenAddresses(published)
           fresh == [query |-> now0, cancelled |-> FALSE]
<1>0. /\ published \in PublishedStates /\ sent \subseteq Queries /\ now0 \in Seq(PricedTokens)
      /\ \A r \in sent : ~r.cancelled => r.query = now0
      /\ retryDelay \in RETRY_DELAY..RETRY_DELAY_MAX /\ rates \subseteq PricedTokens
      /\ Priced(now0) \subseteq PricedTokens
  BY QueryIs, PricedIs, CardTypeIs DEF RatesInv, RatesFollow
<1>1. ASSUME NEW r \in sent, NEW isError \in BOOLEAN, Answers(r, isError), r.cancelled PROVE RatesInv'
  <2>1. UNCHANGED <<published, rates, mistaken, retryTimer, retryDelay>> /\ sent' = sent \ {r}
    BY <1>1 DEF Answers
  <2>2. {q \in sent' : ~q.cancelled} = {q \in sent : ~q.cancelled}
    BY <1>1, <2>1
  <2> QED BY <1>0, <2>1, <2>2 DEF RatesInv, RatesFollow, CardTypeOK
<1>2. ASSUME NEW r \in sent, NEW isError \in BOOLEAN, Answers(r, isError) \/ Fails(r), ~r.cancelled
      PROVE  RatesInv'
  <2>1. UNCHANGED published /\ sent' = sent \ {r} /\ {q \in sent' : ~q.cancelled} = {}
    BY <1>2, MineIs DEF Answers, Fails
  <2>2. ~retryTimer
    BY <1>2 DEF RatesInv, RatesFollow
  <2>3. CASE Answers(r, isError)
    <3>1. /\ rates' = (IF isError THEN {} ELSE Priced(now0)) /\ mistaken' = isError
          /\ retryDelay' = RETRY_DELAY /\ ~retryTimer'
      BY <1>0, <1>2, <2>2, <2>3 DEF Answers
    <3>2. RatesFollow'
      BY <2>1, <3>1 DEF RatesFollow
    <3>3. CardTypeOK'
      BY <1>0, <3>1, CardTypeIs, CardAssumption DEF CardTypeOK, Priced, PricedTokens
    <3> QED BY <1>0, <2>1, <3>2, <3>3 DEF RatesInv
  <2>4. CASE Fails(r)
    <3>1. /\ rates' = rates /\ mistaken' = mistaken /\ retryTimer' = TRUE
          /\ retryDelay' = IF (retryDelay * 6) \div 5 < RETRY_DELAY_MAX
                           THEN (retryDelay * 6) \div 5 ELSE RETRY_DELAY_MAX
      BY <1>2, <2>4 DEF Fails
    <3>2. retryDelay' \in RETRY_DELAY..RETRY_DELAY_MAX
      BY <1>0, <3>1, CardAssumption
    <3>3. RatesFollow'
      BY <2>1, <3>1 DEF RatesFollow
    <3>4. CardTypeOK'
      BY <3>1, <3>2 DEF RatesInv, CardTypeOK
    <3> QED BY <1>0, <2>1, <3>3, <3>4 DEF RatesInv
  <2> QED BY <1>2, <2>3, <2>4
<1>3. ASSUME NEW r \in sent, Fails(r), r.cancelled PROVE RatesInv'
  <2>1. UNCHANGED <<published, rates, mistaken, retryTimer, retryDelay>> /\ sent' = sent \ {r}
    BY <1>3 DEF Fails
  <2>2. {q \in sent' : ~q.cancelled} = {q \in sent : ~q.cancelled}
    BY <1>3, <2>1
  <2> QED BY <1>0, <2>1, <2>2 DEF RatesInv, RatesFollow, CardTypeOK
<1>4. CASE Retry
  <2>1. retryTimer /\ ~retryTimer' /\ sent' = sent \cup {fresh}
        /\ UNCHANGED <<published, rates, mistaken, retryDelay>>
    BY <1>4 DEF Retry
  <2>2. \A q \in sent : q.cancelled
    BY <2>1 DEF RatesInv, RatesFollow
  <2>3. fresh \in Queries /\ fresh.query = now0 /\ ~fresh.cancelled
    BY <1>0 DEF Queries
  <2>4. tokenAddresses(published)' = now0
    BY <2>1
  <2> HIDE DEF fresh, now0
  <2>5. RatesFollow'
    BY <2>1, <2>2, <2>3, <2>4 DEF RatesFollow
  <2> QED BY <1>0, <2>1, <2>3, <2>5 DEF RatesInv, CardTypeOK
<1>5. ASSUME NEW listed \in SUBSET CardSet, NEW funded \in SUBSET CardSet, funded \subseteq listed,
             Publish([listed |-> listed, funded |-> funded])
      PROVE  RatesInv'
  <2> DEFINE p == [listed |-> listed, funded |-> funded]
             query == tokenAddresses(p)
  <2>1. p \in PublishedStates
    BY <1>5 DEF PublishedStates
  <2>2. published' = p /\ ((UNCHANGED rateVars /\ query = now0) \/ QueryChanges(query))
    BY <1>5 DEF Publish
  <2> HIDE DEF p
  <2>3. CASE UNCHANGED rateVars /\ query = now0
    <3>1. tokenAddresses(published)' = now0
      BY <2>2, <2>3
    <3> QED BY <1>0, <2>1, <2>2, <2>3, <3>1 DEF RatesInv, RatesFollow, CardTypeOK, rateVars
  <2>4. CASE QueryChanges(query)
    <3> DEFINE old == {[r EXCEPT !.cancelled = TRUE] : r \in sent}
               new == [query |-> query, cancelled |-> FALSE]
    <3>1. /\ sent' = old \cup (IF query = <<>> THEN {} ELSE {new}) /\ ~retryTimer'
          /\ rates' = (IF query = <<>> THEN {} ELSE rates) /\ mistaken' = (query # <<>> /\ mistaken)
          /\ retryDelay' = RETRY_DELAY
      BY <2>4 DEF QueryChanges
    <3>2. \A r \in old : r.cancelled /\ r \in Queries
      BY <1>0 DEF Queries
    <3>3. query \in Seq(PricedTokens)
      BY <2>1, QueryIs
    <3>4. new \in Queries /\ ~new.cancelled /\ new.query = query
      BY <3>3 DEF Queries
    <3>5. tokenAddresses(published)' = query
      BY <2>2
    <3>6. query = <<>> => Priced(query) = {}
      BY DEF Priced
    <3> HIDE DEF old, new, query
    <3>7. RatesFollow'
      BY <3>1, <3>2, <3>4, <3>5, <3>6 DEF RatesFollow
    <3>8. CardTypeOK'
      BY <3>1, CardAssumption DEF RatesInv, CardTypeOK
    <3>9. sent' \subseteq Queries
      BY <3>1, <3>2, <3>4
    <3> QED BY <2>1, <2>2, <3>7, <3>8, <3>9 DEF RatesInv
  <2> QED BY <2>2, <2>3, <2>4
<1>6. ASSUME \/ prev \/ next \/ UNCHANGED cardVars
             \/ \E visible \in 1..MaxVisible, compact \in BOOLEAN : Resize(visible, compact)
             \/ \E k \in 0..2, left \in BOOLEAN : drag(k, left)
      PROVE  RatesInv'
  <2>1. UNCHANGED <<published, rateVars>>
    BY <1>6 DEF prev, next, Select, Resize, drag, cardVars, rateVars
  <2> QED BY <2>1, RatesKeep
<1>7. ASSUME NEW r \in sent, Loads(r) \/ AnswersError(r) \/ Fails(r) PROVE RatesInv'
  <2>1. Answers(r, FALSE) \/ Answers(r, TRUE) \/ Fails(r)
    BY <1>7 DEF Loads, AnswersError
  <2> QED BY <1>1, <1>2, <1>3, <2>1
<1> QED BY <1>4, <1>5, <1>6, <1>7 DEF CardNext

-----------------------------------------------------------------------------
(* The cards: carousel.                                                     *)

\* With n items and visible v: where the carousel may stand, after a drag in a short row or not.
Carousels == [selected : Int, visible : Nat, compact : BOOLEAN]
Stands(c, n, short) ==
  /\ c \in Carousels /\ c.visible >= 1
  /\ c.selected <= 0 \/ c.selected + c.visible <= n
  /\ c.selected < 0 => short

CarouselInv ==
  /\ published \in PublishedStates
  /\ IF Items(published) = 0 THEN carousel = NoCarousel
     ELSE Stands(carousel, Items(published), shortDrag)

LEMMA ItemsAre ==
  ASSUME NEW p \in PublishedStates
  PROVE  Items(p) \in Nat
<1> DEFINE n == Len(CardTokens)
<1>1. n \in Nat /\ DOMAIN CardTokens = 1..n
  BY CardAssumption
<1> HIDE DEF n
<1>2. IsFiniteSet(1..n)
  BY <1>1, FS_Interval
<1>3. IsFiniteSet(CardSet)
  <2>1. CardTokens \in Surjection(1..n, CardSet)
    BY <1>1, CardAssumption DEF Surjection, CardSet
  <2> QED BY <1>2, <2>1, FS_Surjection
<1>4. p.listed \cap p.funded \in SUBSET CardSet
  BY DEF PublishedStates
<1>5. IsFiniteSet(p.listed \cap p.funded)
  BY <1>3, <1>4, FS_Subset
<1> QED BY <1>5, FS_CardinalityType DEF Items

\* The adjustment after a change of the width or of the items.
LEMMA AdjustedStands ==
  ASSUME NEW n \in Nat, n > 0, NEW short, NEW c \in Carousels, c.visible >= 1, c.selected < 0 => short
  PROVE  Stands(Adjusted(c, n), n, short)
<1> DEFINE last == IF n - c.visible > 0 THEN n - c.visible ELSE 0
           to == IF c.selected > last THEN last ELSE c.selected
           d == [c EXCEPT !.selected = to]
<1>1. c.visible \in Nat /\ c.selected \in Int
  BY DEF Carousels
<1>2. to \in Int /\ (to <= 0 \/ to + c.visible <= n) /\ (to < 0 => c.selected < 0)
  BY <1>1
<1>3. Adjusted(c, n) = d
  BY DEF Adjusted
<1> HIDE DEF to
<1>4. d \in Carousels /\ d.selected = to /\ d.visible = c.visible
  BY <1>2 DEF Carousels
<1> HIDE DEF d
<1>5. Stands(d, n, short)
  BY <1>2, <1>4 DEF Stands
<1> QED BY <1>3, <1>5

LEMMA NewStands ==
  ASSUME NEW n \in Nat, NEW short
  PROVE  Stands([NoCarousel EXCEPT !.visible = 1], n, short)
<1> DEFINE d == [NoCarousel EXCEPT !.visible = 1]
<1>1. NoCarousel \in Carousels /\ NoCarousel.selected = 0
  BY DEF NoCarousel, Carousels
<1>2. \A c \in Carousels : LET e == [c EXCEPT !.visible = 1]
                           IN  e \in Carousels /\ e.visible = 1 /\ e.selected = c.selected
  BY DEF Carousels
<1>3. d \in Carousels /\ d.visible = 1 /\ d.selected = 0
  BY <1>1, <1>2
<1> HIDE DEF d
<1>4. Stands(d, n, short)
  BY <1>3 DEF Stands
<1> QED BY <1>4 DEF d

LEMMA CarouselInitOK == CardInit => CarouselInv
<1> SUFFICES ASSUME CardInit PROVE CarouselInv
  OBVIOUS
<1>1. published \in PublishedStates
  BY DEF CardInit, PublishedStates
<1>2. published.listed \cap published.funded = {}
  BY DEF CardInit
<1>3. Items(published) = 0
  BY <1>2, FS_EmptySet DEF Items
<1> QED BY <1>1, <1>3 DEF CarouselInv, CardInit

LEMMA CarouselStep == CarouselInv /\ [CardNext]_cardVars => CarouselInv'
<1> SUFFICES ASSUME CarouselInv, [CardNext]_cardVars PROVE CarouselInv'
  OBVIOUS
<1> DEFINE n == Items(published)
           c == carousel
<1>0. n \in Nat /\ published \in PublishedStates
  BY ItemsAre DEF CarouselInv
<1>1. ASSUME NEW visible \in 1..MaxVisible, NEW compact \in BOOLEAN, Resize(visible, compact)
      PROVE  CarouselInv'
  <2>1. /\ n > 0 /\ n # 0 /\ published' = published /\ shortDrag' = shortDrag
        /\ carousel' = Adjusted([c EXCEPT !.visible = visible, !.compact = compact], n)
    BY <1>0, <1>1 DEF Resize
  <2> DEFINE d == [c EXCEPT !.visible = visible, !.compact = compact]
  <2>2. c \in Carousels /\ visible \in Nat /\ visible >= 1 /\ (c.selected < 0 => shortDrag)
    BY <2>1 DEF CarouselInv, Stands
  <2>3. d \in Carousels /\ d.visible = visible /\ d.selected = c.selected
    BY <2>2 DEF Carousels
  <2> HIDE DEF n, c, d
  <2>5. Stands(carousel', n, shortDrag')
    BY <1>0, <2>1, <2>2, <2>3, AdjustedStands DEF d
  <2> QED BY <1>0, <2>1, <2>5 DEF CarouselInv, n
<1>2. ASSUME NEW to \in Int, n # 0, Select(to), to <= 0 \/ to + c.visible <= n,
             to < 0 => shortDrag \/ n < c.visible
      PROVE  CarouselInv'
  <2>1. /\ c \in Carousels /\ c.visible >= 1
        /\ carousel' = [c EXCEPT !.selected = to] /\ published' = published
        /\ shortDrag' = (to < 0 /\ (shortDrag \/ n < c.visible))
    BY <1>2 DEF CarouselInv, Select, Stands
  <2> HIDE DEF n, c
  <2>2. carousel' \in Carousels /\ carousel'.selected = to /\ carousel'.visible = c.visible
    BY <2>1 DEF Carousels
  <2>3. Stands(carousel', n, shortDrag')
    BY <1>2, <2>1, <2>2 DEF Stands
  <2> QED BY <1>0, <1>2, <2>1, <2>3 DEF CarouselInv, n
<1>3. n # 0 => /\ c.selected \in Int /\ c.visible \in Nat /\ c.visible >= 1
               /\ c.selected <= 0 \/ c.selected + c.visible <= n
               /\ c.selected < 0 => shortDrag
  BY DEF CarouselInv, Stands, Carousels
<1>4. ASSUME NEW k \in Nat, n # 0
      PROVE  LeftBy(k) \in Nat /\ (LeftBy(k) <= 0 \/ LeftBy(k) + c.visible <= n)
  <2> HIDE DEF n
  <2> QED BY <1>0, <1>3, <1>4 DEF LeftBy
<1>5. ASSUME NEW k \in Nat, n # 0
      PROVE  /\ RightBy(k) \in Int /\ (RightBy(k) <= 0 \/ RightBy(k) + c.visible <= n)
             /\ RightBy(k) < 0 => shortDrag \/ n < c.visible
  <2> DEFINE end == n - c.visible
  <2>1. RightBy(k) = IF c.selected + k < end THEN c.selected + k ELSE end
    BY DEF RightBy
  <2>2. end \in Int /\ c.selected \in Int /\ end + c.visible = n /\ c.visible \in Nat /\ n \in Nat
        /\ (c.selected < 0 => shortDrag)
    <3> HIDE DEF n
    <3> QED BY <1>0, <1>3, <1>5
  <2> HIDE DEF end, n, c
  <2> QED BY <2>1, <2>2
<1>6. CASE prev
  <2>1. n # 0
    BY <1>6 DEF prev, CarouselInv, NoCarousel
  <2>2. Select(LeftBy(c.visible)) /\ c.visible \in Nat
    BY <1>3, <1>6, <2>1 DEF prev
  <2> HIDE DEF n, c
  <2>3. LeftBy(c.visible) \in Int /\ ~(LeftBy(c.visible) < 0)
    BY <1>4, <2>1, <2>2
  <2> QED BY <1>2, <1>4, <2>1, <2>2, <2>3
<1>7. CASE next
  <2>1. n # 0 /\ Select(RightBy(c.visible)) /\ c.visible \in Nat
    BY <1>0, <1>3, <1>7 DEF next
  <2> HIDE DEF n, c
  <2> QED BY <1>2, <1>5, <2>1
<1>8. ASSUME NEW k \in 0..2, NEW left \in BOOLEAN, drag(k, left) PROVE CarouselInv'
  <2>1. n # 0 /\ Select(IF left THEN LeftBy(k) ELSE RightBy(k)) /\ k \in Nat
    BY <1>0, <1>8 DEF drag
  <2> HIDE DEF n, c
  <2>2. CASE left
    <3>1. Select(LeftBy(k)) /\ LeftBy(k) \in Int /\ ~(LeftBy(k) < 0)
      BY <1>4, <2>1, <2>2
    <3> QED BY <1>2, <1>4, <2>1, <3>1
  <2>3. CASE ~left
    BY <1>2, <1>5, <2>1, <2>3
  <2> QED BY <2>2, <2>3
<1>9. ASSUME NEW listed \in SUBSET CardSet, NEW funded \in SUBSET CardSet, funded \subseteq listed,
             Publish([listed |-> listed, funded |-> funded])
      PROVE  CarouselInv'
  <2> DEFINE p == [listed |-> listed, funded |-> funded]
             m == Items(p)
  <2>1. p \in PublishedStates
    BY <1>9 DEF PublishedStates
  <2>2. /\ published' = p
        /\ carousel' = IF m = 0 THEN NoCarousel
                       ELSE IF n = 0 THEN [NoCarousel EXCEPT !.visible = 1] ELSE Adjusted(c, m)
        /\ shortDrag' = (shortDrag /\ m > 0)
    BY <1>9 DEF Publish
  <2> HIDE DEF p
  <2>3. m \in Nat /\ Items(published)' = m
    BY <2>1, <2>2, ItemsAre
  <2>4. CASE m = 0
    BY <2>1, <2>2, <2>3, <2>4 DEF CarouselInv
  <2>5. CASE m # 0 /\ n = 0
    <3>1. Stands(carousel', m, shortDrag')
      BY <2>2, <2>3, <2>5, NewStands
    <3> QED BY <2>1, <2>2, <2>3, <2>5, <3>1 DEF CarouselInv
  <2>6. CASE m # 0 /\ n # 0
    <3>1. c \in Carousels /\ c.visible >= 1 /\ (c.selected < 0 => shortDrag)
      BY <2>6 DEF CarouselInv, Stands
    <3>2. m > 0
      BY <2>3, <2>6
    <3>3. carousel' = Adjusted(c, m) /\ (c.selected < 0 => shortDrag')
      BY <2>2, <2>6, <3>1, <3>2
    <3> HIDE DEF m, c
    <3>4. Stands(carousel', m, shortDrag')
      BY <2>3, <3>1, <3>2, <3>3, AdjustedStands
    <3> QED BY <2>1, <2>2, <2>3, <2>6, <3>4 DEF CarouselInv
  <2> QED BY <2>4, <2>5, <2>6
<1>10. ASSUME UNCHANGED <<published, rowVars>> PROVE CarouselInv'
  BY <1>10 DEF CarouselInv, rowVars
<1>11. ASSUME UNCHANGED cardVars \/ Retry \/ \E r \in sent : Loads(r) \/ AnswersError(r) \/ Fails(r)
       PROVE  CarouselInv'
  BY <1>10, <1>11 DEF cardVars, Retry, Loads, AnswersError, Answers, Fails
<1> QED BY <1>1, <1>6, <1>7, <1>8, <1>9, <1>11 DEF CardNext

-----------------------------------------------------------------------------
(* The recipient field.                                                     *)

FieldTexts == Texts \cup NamesOf(People) \cup AddressesOf(People) \cup {Empty}
Fields ==
  [value : FieldTexts, searchTerm : FieldTexts, selected : People \cup {Nobody}, items : SUBSET People]
Searches == [kind : {"items", "exists"}, text : FieldTexts \ {Empty}]

\* A selected person is in the search field, and an empty value selects nobody.
Shows(f) ==
  /\ f \in Fields
  /\ f.selected # Nobody => f.searchTerm # Empty
  /\ f.value = Empty => f.selected = Nobody

Selects(f) == f.selected # Nobody => f.value \in {f.selected.address, f.selected.name}

\* Unless it was crossed, a search for a person is for the value the form has.
FieldInv ==
  /\ Shows(field) /\ searches \subseteq Searches
  /\ ~crossed =>
       /\ Selects(field)
       /\ field.value # Empty => \A s \in searches : s.kind = "exists" => s.text = field.value

LEMMA PersonIs ==
  ASSUME NEW p \in People
  PROVE  /\ p.name \in FieldTexts /\ p.address \in FieldTexts /\ p.name # Empty /\ p # Nobody
<1>1. p.name \in NamesOf(People) \ {Empty} /\ p.address \in AddressesOf(People)
  BY PeopleAssumption
<1>2. p # Nobody
  BY <1>1 DEF Nobody
<1> QED BY <1>1, <1>2 DEF FieldTexts

LEMMA EffectIs ==
  ASSUME NEW f
  PROVE  /\ f.value = Empty => /\ Effect(f)[1] = [f EXCEPT !.selected = Nobody, !.searchTerm = Empty, !.items = {}]
                               /\ Effect(f)[2] = {}
         /\ f.value # Empty => Effect(f)[1] = f
         /\ f.value # Empty /\ f.searchTerm = Empty => Effect(f)[2] = {[kind |-> "exists", text |-> f.value]}
         /\ f.value # Empty /\ f.searchTerm # Empty => Effect(f)[2] = {}
  BY DEF Effect

LEMMA EffectAsks ==
  ASSUME NEW f \in Fields
  PROVE  \A s \in Effect(f)[2] : s \in Searches /\ s.kind = "exists" /\ s.text = f.value
<1>1. Effect(f)[2] = {} \/ (f.value # Empty /\ Effect(f)[2] = {[kind |-> "exists", text |-> f.value]})
  BY EffectIs
<1>2. f.value # Empty => f.value \in FieldTexts \ {Empty}
  BY DEF Fields
<1> QED BY <1>1, <1>2 DEF Searches

\* What the effect makes of a field, and what it asks for.
LEMMA EffectOK ==
  ASSUME NEW f \in Fields, f.value # Empty /\ f.selected # Nobody => f.searchTerm # Empty
  PROVE  /\ Shows(Effect(f)[1]) /\ Effect(f)[1].value = f.value
         /\ f.value = Empty \/ Effect(f)[1] = f
         /\ \A s \in Effect(f)[2] : s \in Searches /\ s.kind = "exists" /\ s.text = f.value
<1>1. CASE f.value = Empty
  <2>1. Effect(f)[1] = [f EXCEPT !.selected = Nobody, !.searchTerm = Empty, !.items = {}] /\ Effect(f)[2] = {}
    BY <1>1, EffectIs
  <2> QED BY <1>1, <2>1 DEF Fields, Shows, FieldTexts
<1>2. CASE f.value # Empty
  <2>1. Effect(f)[1] = f
    BY <1>2, EffectIs
  <2> QED BY <1>2, <2>1, EffectAsks DEF Shows
<1> QED BY <1>1, <1>2

LEMMA SearchingOK ==
  ASSUME NEW text \in FieldTexts
  PROVE  \A s \in Searching(text) : s \in Searches /\ s.kind = "items"
<1>1. text \notin Short => text \in FieldTexts \ {Empty}
  BY PeopleAssumption
<1>2. Searching(text) = {} \/ (text \notin Short /\ Searching(text) = {[kind |-> "items", text |-> text]})
  BY DEF Searching
<1> QED BY <1>1, <1>2 DEF Searches

\* A change of the field by the user or the form.
LEMMA ChangeStep ==
  ASSUME FieldInv, NEW f \in Fields, NEW more, Change(f, more),
         \A s \in more : s \in Searches /\ s.kind = "items",
         f.selected # Nobody => f.searchTerm # Empty,
         f.value # Empty /\ ~crossed =>
           \/ Selects(f)
           \/ f.value # field.value /\ f.searchTerm = field.searchTerm /\ f.selected # Nobody
  PROVE  FieldInv'
<1> DEFINE g == Effect(f)[1]
           begun == Effect(f)[2]
<1>1. /\ field' = g /\ searches' = searches \cup more \cup begun
      /\ ~crossed' => \/ f.value = Empty
                      \/ /\ ~crossed
                         /\ f.value = field.value \/ \A s \in searches : s.kind # "exists"
                         /\ ~(f.value # field.value /\ f.searchTerm # Empty /\ f.searchTerm = field.searchTerm
                                                    /\ f.selected # Nobody)
  BY DEF Change
<1>2. /\ Shows(g) /\ g.value = f.value /\ (f.value = Empty \/ g = f)
      /\ \A s \in begun : s \in Searches /\ s.kind = "exists" /\ s.text = f.value
  BY EffectOK
<1> HIDE DEF g, begun
<1>3. searches' \subseteq Searches
  BY <1>1, <1>2 DEF FieldInv
<1>4. ~crossed' => Selects(g)
  <2>1. CASE f.value = Empty
    BY <1>2, <2>1 DEF Shows, Selects
  <2>2. CASE f.value # Empty
    BY <1>1, <1>2, <2>2
  <2> QED BY <2>1, <2>2
<1>5. ~crossed' /\ g.value # Empty => \A s \in searches' : s.kind = "exists" => s.text = g.value
  <2> SUFFICES ASSUME ~crossed', g.value # Empty, NEW s \in searches', s.kind = "exists"
               PROVE  s.text = g.value
    OBVIOUS
  <2>1. CASE s \in searches
    BY <1>1, <1>2, <2>1 DEF FieldInv
  <2>2. CASE s \in more
    BY <2>2
  <2>3. CASE s \in begun
    BY <1>2, <2>3
  <2> QED BY <1>1, <2>1, <2>2, <2>3
<1> QED BY <1>1, <1>2, <1>3, <1>4, <1>5 DEF FieldInv

LEMMA SearchEndsStep ==
  ASSUME FieldInv, NEW s \in searches, SearchEnds(s)
  PROVE  FieldInv'
<1>0. /\ Shows(field) /\ field \in Fields /\ searches \subseteq Searches /\ s \in Searches /\ s.text # Empty
      /\ s.text \in FieldTexts
      /\ crossed' = crossed
  BY DEF FieldInv, Shows, Searches, SearchEnds
<1>1. Found[s.text] \subseteq People
  BY <1>0, PeopleAssumption DEF Searches, FieldTexts
<1>2. CASE s.kind = "items"
  <2>1. field' = [field EXCEPT !.items = Found[s.text]] /\ searches' = searches \ {s}
    BY <1>2 DEF SearchEnds
  <2>2. /\ field' \in Fields /\ field'.value = field.value /\ field'.selected = field.selected
        /\ field'.searchTerm = field.searchTerm
    BY <1>0, <1>1, <2>1 DEF Fields
  <2>3. Shows(field') /\ searches' \subseteq Searches
    BY <1>0, <2>1, <2>2 DEF Shows
  <2>4. Selects(field) => Selects(field')
    BY <2>2 DEF Selects
  <2> QED BY <1>0, <2>1, <2>2, <2>3, <2>4 DEF FieldInv
<1>3. CASE s.kind = "exists" /\ Exists(s.text) = {}
  <2> DEFINE f == [field EXCEPT !.searchTerm = s.text]
  <2>1. field' = Effect(f)[1] /\ searches' = (searches \ {s}) \cup Effect(f)[2]
    BY <1>3 DEF SearchEnds
  <2>2. f \in Fields /\ f.searchTerm # Empty /\ f.value = field.value /\ f.selected = field.selected
    BY <1>0 DEF Fields
  <2> HIDE DEF f
  <2>3. /\ Shows(field') /\ field'.value = field.value /\ (field.value = Empty \/ field' = f)
        /\ \A q \in Effect(f)[2] : q \in Searches /\ q.kind = "exists" /\ q.text = field.value
    BY <2>1, <2>2, EffectOK
  <2>4. Selects(field) => Selects(field')
    BY <2>2, <2>3 DEF Selects, Shows
  <2>5. searches' \subseteq Searches
    BY <1>0, <2>1, <2>3
  <2> QED BY <1>0, <2>1, <2>3, <2>4, <2>5 DEF FieldInv
<1>4. CASE s.kind = "exists" /\ Exists(s.text) # {}
  <2> DEFINE p == CHOOSE x \in Exists(s.text) : TRUE
             chosen == [field EXCEPT !.selected = p]
             f == [chosen EXCEPT !.searchTerm = p.name, !.items = Cleared(@, p.name)]
             again == IF chosen # field THEN Effect(chosen)[2] ELSE {}
  <2>1. p \in Exists(s.text)
    BY <1>4
  <2>2. p \in People /\ s.text \in {p.name, p.address}
    BY <1>1, <2>1 DEF Exists
  <2>3. field' = Effect(f)[1] /\ searches' = (searches \ {s}) \cup again \cup Effect(f)[2] \cup Searching(p.name)
    BY <1>4 DEF SearchEnds
  <2> HIDE DEF p
  <2>4. p.name \in FieldTexts /\ p.name # Empty /\ p # Nobody
    BY <2>2, PersonIs
  <2>5. chosen \in Fields /\ chosen.value = field.value /\ chosen.items = field.items
    BY <1>0, <2>2 DEF Fields
  <2>6. Cleared(field.items, p.name) \in SUBSET People
    BY <1>0 DEF Cleared, Fields
  <2>7. f \in Fields /\ f.searchTerm = p.name /\ f.value = field.value /\ f.selected = p
    BY <1>0, <2>2, <2>4, <2>6 DEF Fields
  <2>8. \A q \in again : q \in Searches /\ q.text = field.value
    <3> HIDE DEF chosen, f
    <3> QED BY <2>5, EffectAsks
  <2> HIDE DEF chosen, f, again
  <2>9. /\ Shows(field') /\ field'.value = field.value /\ (field.value = Empty \/ field' = f)
        /\ \A q \in Effect(f)[2] : q \in Searches /\ q.kind = "exists" /\ q.text = field.value
    BY <2>3, <2>4, <2>7, EffectOK
  <2>10. \A q \in Searching(p.name) : q \in Searches /\ q.kind = "items"
    BY <2>4, SearchingOK
  <2>11. ~crossed => Selects(field')
    <3>1. CASE field.value = Empty
      BY <2>9, <3>1 DEF Shows, Selects
    <3>2. CASE field.value # Empty
      <4> SUFFICES ASSUME ~crossed PROVE Selects(f)
        BY <2>9, <3>2
      <4>1. s.text = field.value
        BY <1>4, <3>2 DEF FieldInv
      <4> QED BY <2>2, <2>7, <4>1 DEF Selects
    <3> QED BY <3>1, <3>2
  <2>12. searches' \subseteq Searches
    BY <1>0, <2>3, <2>8, <2>9, <2>10
  <2>13. ~crossed /\ field'.value # Empty => \A q \in searches' : q.kind = "exists" => q.text = field'.value
    <3>1. field'.value = field.value
      BY <2>9
    <3> QED BY <2>3, <2>8, <2>9, <2>10, <3>1 DEF FieldInv
  <2> QED BY <1>0, <2>9, <2>11, <2>12, <2>13 DEF FieldInv
<1>5. s.kind \in {"items", "exists"}
  BY <1>0 DEF Searches
<1> QED BY <1>2, <1>3, <1>4, <1>5

LEMMA FieldInitOK == IdentityInit => FieldInv
  BY DEF IdentityInit, FieldInv, Shows, Selects, Fields, FieldTexts

LEMMA FieldStep == FieldInv /\ [FieldNext]_fieldVars => FieldInv'
<1> SUFFICES ASSUME FieldInv, [FieldNext]_fieldVars PROVE FieldInv'
  OBVIOUS
<1>0. Shows(field) /\ field \in Fields
  BY DEF FieldInv, Shows
<1>1. CASE handleSelectedClick
  <2> DEFINE f == [field EXCEPT !.selected = Nobody, !.value = field.selected.name]
  <2>1. field.selected # Nobody /\ Change(f, {})
    BY <1>1 DEF handleSelectedClick
  <2>2. field.selected \in People /\ field.selected.name \in FieldTexts
    BY <1>0, <2>1, PersonIs DEF Fields
  <2>3. f \in Fields /\ f.selected = Nobody
    BY <1>0, <2>2 DEF Fields
  <2> HIDE DEF f
  <2> QED BY <2>1, <2>3, ChangeStep DEF Selects
<1>2. ASSUME NEW text \in Texts, handleChange(text) PROVE FieldInv'
  <2> DEFINE f == [field EXCEPT !.searchTerm = text, !.value = text, !.items = Cleared(@, text)]
  <2>1. field.selected = Nobody /\ Change(f, Searching(text))
    BY <1>2 DEF handleChange
  <2>2. text \in FieldTexts /\ Cleared(field.items, text) \in SUBSET People
    BY <1>0 DEF FieldTexts, Cleared, Fields
  <2>3. f \in Fields /\ f.selected = Nobody
    BY <1>0, <2>1, <2>2 DEF Fields
  <2> HIDE DEF f
  <2> QED BY <2>1, <2>2, <2>3, SearchingOK, ChangeStep DEF Selects
<1>3. ASSUME NEW text \in Texts, ValueSet(text) PROVE FieldInv'
  <2> DEFINE f == [field EXCEPT !.value = text]
  <2>1. text # field.value /\ Change(f, {})
    BY <1>3 DEF ValueSet
  <2>2. /\ f \in Fields /\ f.selected = field.selected /\ f.searchTerm = field.searchTerm /\ f.value # field.value
    BY <1>0, <2>1 DEF FieldTexts, Fields
  <2> HIDE DEF f
  <2>3. f.selected # Nobody => f.searchTerm # Empty
    BY <1>0, <2>2 DEF Shows
  <2>4. Selects(f) \/ f.selected # Nobody
    BY DEF Selects
  <2> QED BY <2>1, <2>2, <2>3, <2>4, ChangeStep
<1>4. ASSUME NEW p \in People, handleSelect(p) PROVE FieldInv'
  <2> DEFINE f == [field EXCEPT !.searchTerm = p.name, !.selected = p, !.value = p.address,
                                !.items = Cleared(@, p.name)]
  <2>1. Change(f, Searching(p.name))
    BY <1>4 DEF handleSelect
  <2>2. /\ p.name \in FieldTexts /\ p.name # Empty /\ p.address \in FieldTexts
        /\ Cleared(field.items, p.name) \in SUBSET People
    BY <1>0, PersonIs DEF Cleared, Fields
  <2>3. f \in Fields /\ f.selected = p /\ f.value = p.address /\ f.searchTerm = p.name
    BY <1>0, <2>2 DEF Fields
  <2> HIDE DEF f
  <2>4. Selects(f)
    BY <2>3 DEF Selects
  <2> QED BY <2>1, <2>2, <2>3, <2>4, SearchingOK, ChangeStep
<1>5. CASE UNCHANGED fieldVars
  BY <1>5 DEF FieldInv, fieldVars
<1> QED BY <1>1, <1>2, <1>3, <1>4, <1>5, SearchEndsStep DEF FieldNext

-----------------------------------------------------------------------------
(* The list of flows: its filters and its page.                             *)

Flows == [id : Nat, token : ListSet, isIncoming : BOOLEAN, isCancelled : BOOLEAN, created : Nat]
Filters ==
  [state : {UNSELECTED, 1, 2}, type : {UNSELECTED, 1, 2}, token : Nat \cup {UNSELECTED},
   range : [start : Nat \cup {NoDate}, end : Nat \cup {NoDate}]]

FilterTokens(S) == <<"All">> \o Kept(ListTokens, S)

\* What flow f is asked for by the filters flt, but its state; and the positions of such flows.
Fits(f, flt, S) ==
  /\ flt.type # UNSELECTED => FLOW_TYPES[flt.type + 1] = IF f.isIncoming THEN "Incoming" ELSE "Outgoing"
  /\ flt.range.start # NoDate => ~(f.created < startOfDay(flt.range.start))
  /\ flt.range.end # NoDate => ~(f.created > endOfDay(flt.range.end))
  /\ flt.token > 0 => f.token = FilterTokens(S)[flt.token + 1]
Fitting(list, flt, S) == {i \in DOMAIN list : Fits(list[i], flt, S)}

\* The page exists among the flows that are shown when no state is selected.
PageFits(p, list, flt, S) == p = 0 \/ p * PageSize < Cardinality(Fitting(list, flt, S))

ListInv ==
  /\ tokens \in SUBSET ListSet /\ now \in Nat /\ page \in Nat
  /\ flows \in Seq(Flows) /\ \A i \in DOMAIN flows : flows[i].id = i - 1
  /\ filter \in Filters /\ filter.token < Len(tokensToFilter)
  /\ wanted \in [token : ListSet \cup {"All"}, moved : BOOLEAN, pageMoved : BOOLEAN]
  /\ filter.token <= 0 => wanted.token = "All"
  /\ filter.token > 0 /\ ~wanted.moved => wanted.token = FilterTokens(tokens)[filter.token + 1]
  /\ ~(wanted.pageMoved /\ filter.token > 0) => PageFits(page, flows, filter, tokens)

LEMMA FilterTokensAre ==
  ASSUME NEW S \in SUBSET ListSet
  PROVE  /\ FilterTokens(S) \in Seq(ListSet \cup {"All"}) /\ Len(FilterTokens(S)) \in Nat
         /\ Len(FilterTokens(S)) = Len(Kept(ListTokens, S)) + 1 /\ FilterTokens(S)[1] = "All"
         /\ \A i \in 2..Len(FilterTokens(S)) : FilterTokens(S)[i] \in S
<1> DEFINE kept == Kept(ListTokens, S)
<1>1. kept \in Seq(S)
  BY ListAssumption, KeptList
<1> HIDE DEF kept
<1>2. /\ <<"All">> \o kept \in Seq(ListSet \cup {"All"}) /\ Len(<<"All">> \o kept) = Len(kept) + 1
      /\ (<<"All">> \o kept)[1] = "All" /\ Len(kept) \in Nat
      /\ \A i \in 2..Len(kept) + 1 : (<<"All">> \o kept)[i] \in S
  BY <1>1
<1> QED BY <1>2 DEF FilterTokens, kept

LEMMA FilterTokensLonger ==
  ASSUME NEW U \in SUBSET ListSet, NEW S \in SUBSET U
  PROVE  Len(FilterTokens(S)) <= Len(FilterTokens(U))
<1>1. Len(Kept(ListTokens, S)) <= Len(Kept(ListTokens, U))
  BY ListAssumption, KeptLonger
<1>2. Len(Kept(ListTokens, S)) \in Nat /\ Len(Kept(ListTokens, U)) \in Nat
  BY ListAssumption, KeptOf
<1>3. S \in SUBSET ListSet
  OBVIOUS
<1> QED BY <1>1, <1>2, <1>3, FilterTokensAre

LEMMA FittingIs ==
  ASSUME NEW list \in Seq(Flows), NEW flt, NEW S
  PROVE  /\ Fitting(list, flt, S) \in SUBSET Nat /\ IsFiniteSet(Fitting(list, flt, S))
         /\ Cardinality(Fitting(list, flt, S)) \in Nat
<1>1. Fitting(list, flt, S) \in SUBSET DOMAIN list
  BY DEF Fitting
<1>2. Fitting(list, flt, S) \in SUBSET Nat /\ IsFiniteSet(Fitting(list, flt, S))
  BY <1>1, PositionsFinite
<1> QED BY <1>2, FS_CardinalityType

\* A page that exists still does when more flows fit.
LEMMA PageStays ==
  ASSUME NEW p \in Nat, NEW l1 \in Seq(Flows), NEW l2 \in Seq(Flows), NEW f1, NEW f2, NEW S1, NEW S2,
         PageFits(p, l1, f1, S1), Fitting(l1, f1, S1) \subseteq Fitting(l2, f2, S2)
  PROVE  PageFits(p, l2, f2, S2)
<1> DEFINE A == Fitting(l1, f1, S1)
           B == Fitting(l2, f2, S2)
<1>1. IsFiniteSet(B) /\ Cardinality(A) \in Nat /\ Cardinality(B) \in Nat
  BY FittingIs
<1>2. Cardinality(A) <= Cardinality(B)
  BY <1>1, FS_Subset
<1>3. p * PageSize \in Nat
  BY ListAssumption
<1>4. p # 0 => p * PageSize < Cardinality(A)
  BY DEF PageFits
<1> HIDE DEF A, B
<1>5. p = 0 \/ p * PageSize < Cardinality(B)
  <2> DEFINE x == p * PageSize
  <2> HIDE DEF x
  <2> QED BY <1>1, <1>2, <1>3, <1>4 DEF x
<1> QED BY <1>5 DEF PageFits, B

LEMMA ListInitOK == ListInit => ListInv
<1> SUFFICES ASSUME ListInit PROVE ListInv
  OBVIOUS
<1>1. tokens \in SUBSET ListSet
  <2>1. Len(ListTokens) \in DOMAIN ListTokens
    BY ListAssumption
  <2> QED BY <2>1 DEF ListInit, ListSet
<1>2. filter \in Filters /\ filter.token = -1
  BY DEF ListInit, NoFilter, Filters, UNSELECTED, NoDate
<1>3. filter.token < Len(tokensToFilter)
  BY <1>1, <1>2, FilterTokensAre DEF tokensToFilter, FilterTokens
<1>4. wanted \in [token : ListSet \cup {"All"}, moved : BOOLEAN, pageMoved : BOOLEAN] /\ wanted.token = "All"
  BY DEF ListInit
<1>5. flows = <<>> /\ now = 0 /\ page = 0
  BY DEF ListInit
<1>6. PageFits(page, flows, filter, tokens)
  BY <1>5 DEF PageFits
<1> QED BY <1>1, <1>2, <1>3, <1>4, <1>5, <1>6 DEF ListInv

LEMMA TokensToFilter == tokensToFilter = FilterTokens(tokens)
  BY DEF tokensToFilter, FilterTokens

\* A selection in one of the drop-downs: the page stays only when the flows it counts stay.
LEMMA FilterStep ==
  ASSUME ListInv, NEW new \in Filters, Filter(new), new.token < Len(tokensToFilter),
         new.range = filter.range,
         wanted' \in [token : ListSet \cup {"All"}, moved : BOOLEAN, pageMoved : BOOLEAN],
         wanted'.pageMoved <=> wanted.pageMoved /\ page' # 0,
         new.token <= 0 => wanted'.token = "All",
         new.token > 0 /\ ~wanted'.moved => wanted'.token = FilterTokens(tokens)[new.token + 1]
  PROVE  ListInv'
<1>1. filter' = new /\ page' = PageAfter(filter, new) /\ UNCHANGED <<flows, tokens, now>>
  BY DEF Filter
<1>2. page' \in Nat /\ flows \in Seq(Flows) /\ page \in Nat
  BY <1>1 DEF ListInv, PageAfter
<1>3. ~(wanted'.pageMoved /\ new.token > 0) => PageFits(page', flows, new, tokens)
  <2>1. CASE page' = 0
    BY <2>1 DEF PageFits
  <2>2. CASE page' # 0
    <3>1. page' = page /\ new.type = filter.type /\ new.token = filter.token
      BY <1>1, <2>2 DEF PageAfter
    <3>2. Fitting(flows, new, tokens) = Fitting(flows, filter, tokens)
      BY <3>1 DEF Fitting, Fits
    <3>3. ~(wanted.pageMoved /\ filter.token > 0) => PageFits(page, flows, filter, tokens)
      BY DEF ListInv
    <3> QED BY <2>2, <3>1, <3>2, <3>3 DEF PageFits
  <2> QED BY <2>1, <2>2
<1>4. tokensToFilter' = tokensToFilter
  BY <1>1 DEF tokensToFilter
<1> QED BY <1>1, <1>2, <1>3, <1>4 DEF ListInv

LEMMA ResetIs ==
  ASSUME ListInv
  PROVE  /\ Reset \in [token : ListSet \cup {"All"}, moved : BOOLEAN, pageMoved : BOOLEAN]
         /\ Reset.pageMoved <=> wanted.pageMoved /\ page' # 0
         /\ Reset.token = wanted.token /\ Reset.moved = wanted.moved
<1>1. wanted \in [token : ListSet \cup {"All"}, moved : BOOLEAN, pageMoved : BOOLEAN]
  BY DEF ListInv
<1> QED BY <1>1 DEF Reset

LEMMA SelectionStep ==
  ASSUME ListInv, NEW index \in 0..2,
         handleFlowStateChange(index) \/ handleFlowTypeChange(index) \/ handleTokenChange(index)
  PROVE  ListInv'
<1>1. Position(index) \in {UNSELECTED, 1, 2} /\ (index # 0 => Position(index) = index)
      /\ (index = 0 => Position(index) = -1)
  BY DEF Position, UNSELECTED
<1>2. filter \in Filters /\ filter.token < Len(tokensToFilter) /\ filter.token \in Int /\ tokens \in SUBSET ListSet
  BY DEF ListInv, Filters, UNSELECTED
<1>3. CASE handleFlowStateChange(index)
  <2> DEFINE new == [filter EXCEPT !.state = Position(index)]
  <2>1. Filter(new) /\ wanted' = Reset
    BY <1>3 DEF handleFlowStateChange
  <2>2. new \in Filters /\ new.range = filter.range /\ new.token = filter.token
    BY <1>1, <1>2 DEF Filters
  <2> HIDE DEF new
  <2> QED BY <1>2, <2>1, <2>2, ResetIs, FilterStep DEF ListInv
<1>4. CASE handleFlowTypeChange(index)
  <2> DEFINE new == [filter EXCEPT !.type = Position(index)]
  <2>1. Filter(new) /\ wanted' = Reset
    BY <1>4 DEF handleFlowTypeChange
  <2>2. new \in Filters /\ new.range = filter.range /\ new.token = filter.token
    BY <1>1, <1>2 DEF Filters
  <2> HIDE DEF new
  <2> QED BY <1>2, <2>1, <2>2, ResetIs, FilterStep DEF ListInv
<1>5. CASE handleTokenChange(index)
  <2> DEFINE new == [filter EXCEPT !.token = Position(index)]
             token == FilterTokens(tokens)[index + 1]
  <2>1. Filter(new) /\ wanted' = [Reset EXCEPT !.token = token, !.moved = FALSE] /\ index < Len(tokensToFilter)
    BY <1>5, TokensToFilter DEF handleTokenChange
  <2>2. new \in Filters /\ new.range = filter.range /\ new.token = Position(index)
    BY <1>1, <1>2 DEF Filters, UNSELECTED
  <2>3. token \in ListSet \cup {"All"} /\ (index = 0 => token = "All")
    BY <1>2, <2>1, TokensToFilter, FilterTokensAre
  <2> HIDE DEF new, token
  <2>4. /\ wanted' \in [token : ListSet \cup {"All"}, moved : BOOLEAN, pageMoved : BOOLEAN]
        /\ wanted'.pageMoved = Reset.pageMoved /\ wanted'.token = token /\ wanted'.moved = FALSE
    BY <2>1, <2>3, ResetIs
  <2>5. new.token < Len(tokensToFilter) /\ (new.token <= 0 => index = 0)
        /\ (new.token > 0 => new.token + 1 = index + 1)
    <3>1. Len(tokensToFilter) \in Nat
      BY <1>2, TokensToFilter, FilterTokensAre
    <3> QED BY <1>1, <2>1, <2>2, <3>1
  <2>6. new.token > 0 => token = FilterTokens(tokens)[new.token + 1]
    BY <2>5 DEF token
  <2> QED BY <2>1, <2>2, <2>3, <2>4, <2>5, <2>6, ResetIs, FilterStep
<1> QED BY <1>3, <1>4, <1>5

LEMMA RangeStep ==
  ASSUME ListInv, NEW range \in Ranges, handleDateRangeChange(range)
  PROVE  ListInv'
<1>1. /\ filter' = [filter EXCEPT !.range = range] /\ page' = 0 /\ wanted' = Reset
      /\ UNCHANGED <<flows, tokens, now>>
  BY DEF handleDateRangeChange
<1>2. filter \in Filters /\ tokensToFilter' = tokensToFilter
  BY <1>1 DEF ListInv, tokensToFilter
<1>3. filter' \in Filters /\ filter'.token = filter.token
  BY <1>1, <1>2, ListAssumption DEF Filters
<1>4. PageFits(page', flows', filter', tokens')
  BY <1>1 DEF PageFits
<1>5. wanted' \in [token : ListSet \cup {"All"}, moved : BOOLEAN, pageMoved : BOOLEAN]
      /\ wanted'.token = wanted.token /\ wanted'.moved = wanted.moved
  BY <1>1, ResetIs
<1> QED BY <1>1, <1>2, <1>3, <1>4, <1>5 DEF ListInv

\* The positions of the flows that are listed.
Listable == {i \in DOMAIN flows : Included(flows[i])}

LEMMA ListableIs ==
  ASSUME ListInv
  PROVE  /\ Listable \in SUBSET Fitting(flows, filter, tokens) /\ Listable \in SUBSET Nat /\ IsFiniteSet(Listable)
         /\ filter.state = UNSELECTED => Listable = Fitting(flows, filter, tokens)
         /\ Cardinality(Listable) \in Nat /\ Cardinality(Listable) <= Cardinality(Fitting(flows, filter, tokens))
         /\ Len(filteredFlows) = Cardinality(Listable)
<1>1. \A f : Included(f) => Fits(f, filter, tokens)
  BY TokensToFilter DEF Included, Fits
<1>2. filter.state = UNSELECTED => \A f : Fits(f, filter, tokens) => Included(f)
  BY TokensToFilter DEF Included, Fits
<1>3. Listable \in SUBSET Fitting(flows, filter, tokens)
  BY <1>1 DEF Listable, Fitting
<1>4. filter.state = UNSELECTED => Listable = Fitting(flows, filter, tokens)
  BY <1>2, <1>3 DEF Listable, Fitting
<1>5. Fitting(flows, filter, tokens) \in SUBSET Nat /\ IsFiniteSet(Fitting(flows, filter, tokens))
  BY FittingIs DEF ListInv
<1>6. /\ Listable \in SUBSET Nat /\ IsFiniteSet(Listable)
      /\ Cardinality(Listable) <= Cardinality(Fitting(flows, filter, tokens))
  BY <1>3, <1>5, FS_Subset
<1>7. Len(filteredFlows) = Cardinality(Listable) /\ Cardinality(Listable) \in Nat
  BY <1>6, SublistIs DEF filteredFlows, Listable
<1> QED BY <1>3, <1>4, <1>6, <1>7

LEMMA PageStep ==
  ASSUME ListInv, NEW p \in Nat, setPage(p)
  PROVE  ListInv'
<1>1. /\ p * PageSize < Len(filteredFlows) /\ page' = p /\ wanted' = [wanted EXCEPT !.pageMoved = FALSE]
      /\ UNCHANGED <<flows, tokens, now, filter>>
  BY DEF setPage
<1>2. PageFits(p, flows, filter, tokens)
  <2> DEFINE x == p * PageSize
             y == Cardinality(Fitting(flows, filter, tokens))
  <2>1. x \in Nat
    BY ListAssumption
  <2>2. y \in Nat
    BY FittingIs DEF ListInv
  <2>3. x < Cardinality(Listable) /\ Cardinality(Listable) <= y /\ Cardinality(Listable) \in Nat
    BY <1>1, ListableIs
  <2> HIDE DEF x, y
  <2>4. x < y
    BY <2>1, <2>2, <2>3
  <2> QED BY <2>4 DEF PageFits, x, y
<1>3. wanted' \in [token : ListSet \cup {"All"}, moved : BOOLEAN, pageMoved : BOOLEAN]
      /\ wanted'.token = wanted.token /\ wanted'.moved = wanted.moved
  BY <1>1 DEF ListInv
<1>4. tokensToFilter' = tokensToFilter
  BY <1>1 DEF tokensToFilter
<1> QED BY <1>1, <1>2, <1>3, <1>4 DEF ListInv

\* Flows are added, or closed, of which the page takes no notice.
LEMMA FlowsStep ==
  ASSUME ListInv, NEW list \in Seq(Flows), flows' = list, UNCHANGED <<tokens, now, filter, page, wanted>>,
         \A i \in DOMAIN list : list[i].id = i - 1,
         \A i \in DOMAIN flows : /\ i \in DOMAIN list /\ list[i].isIncoming = flows[i].isIncoming
                                 /\ list[i].created = flows[i].created /\ list[i].token = flows[i].token
  PROVE  ListInv'
<1>1. Fitting(flows, filter, tokens) \subseteq Fitting(list, filter, tokens)
  <2> SUFFICES ASSUME NEW i \in DOMAIN flows, Fits(flows[i], filter, tokens)
               PROVE  i \in DOMAIN list /\ Fits(list[i], filter, tokens)
    BY DEF Fitting
  <2> QED BY DEF Fits
<1>2. PageFits(page, flows, filter, tokens) => PageFits(page, list, filter, tokens)
  BY <1>1, PageStays DEF ListInv
<1>3. tokensToFilter' = tokensToFilter
  BY DEF tokensToFilter
<1> QED BY <1>2, <1>3 DEF ListInv

LEMMA OpensStep ==
  ASSUME ListInv, NEW t \in ListSet, NEW isIncoming \in BOOLEAN, FlowOpens(t, isIncoming)
  PROVE  ListInv'
<1> DEFINE f == [id |-> Len(flows), token |-> t, isIncoming |-> isIncoming, isCancelled |-> FALSE, created |-> now]
<1>1. flows' = Append(flows, f) /\ UNCHANGED <<tokens, now, filter, page, wanted>>
  BY DEF FlowOpens
<1>2. flows \in Seq(Flows) /\ Len(flows) \in Nat /\ now \in Nat
  BY DEF ListInv
<1>3. f \in Flows /\ f.id = Len(flows)
  BY <1>2 DEF Flows
<1> HIDE DEF f
<1>4. /\ flows' \in Seq(Flows) /\ Len(flows') = Len(flows) + 1
      /\ \A i \in 1..Len(flows) : flows'[i] = flows[i]
      /\ flows'[Len(flows) + 1] = f
  BY <1>1, <1>2, <1>3
<1>5. \A i \in DOMAIN flows' : flows'[i].id = i - 1
  <2> SUFFICES ASSUME NEW i \in 1..Len(flows) + 1 PROVE flows'[i].id = i - 1
    BY <1>4
  <2>1. CASE i \in 1..Len(flows)
    BY <1>2, <1>4, <2>1 DEF ListInv
  <2>2. CASE i = Len(flows) + 1
    BY <1>2, <1>3, <1>4, <2>2
  <2> QED BY <1>2, <2>1, <2>2
<1>6. \A i \in DOMAIN flows : i \in DOMAIN flows' /\ flows'[i] = flows[i]
  BY <1>2, <1>4
<1> QED BY <1>1, <1>4, <1>5, <1>6, FlowsStep

LEMMA ClosesStep ==
  ASSUME ListInv, NEW i \in Nat, FlowCloses(i)
  PROVE  ListInv'
<1> DEFINE f == [flows[i] EXCEPT !.isCancelled = TRUE]
<1>1. i \in DOMAIN flows /\ flows' = [flows EXCEPT ![i] = f] /\ UNCHANGED <<tokens, now, filter, page, wanted>>
  BY DEF FlowCloses
<1>2. flows \in Seq(Flows) /\ flows[i] \in Flows
  BY <1>1 DEF ListInv
<1>3. /\ f \in Flows /\ f.id = flows[i].id /\ f.isIncoming = flows[i].isIncoming
      /\ f.created = flows[i].created /\ f.token = flows[i].token
  BY <1>2 DEF Flows
<1> HIDE DEF f
<1>4. flows' \in Seq(Flows) /\ DOMAIN flows' = DOMAIN flows
      /\ \A j \in DOMAIN flows : flows'[j] = IF j = i THEN f ELSE flows[j]
  BY <1>1, <1>2, <1>3
<1>5. \A j \in DOMAIN flows' : flows'[j].id = j - 1
  BY <1>3, <1>4 DEF ListInv
<1>6. \A j \in DOMAIN flows : /\ j \in DOMAIN flows' /\ flows'[j].isIncoming = flows[j].isIncoming
                              /\ flows'[j].created = flows[j].created /\ flows'[j].token = flows[j].token
  BY <1>3, <1>4
<1> QED BY <1>1, <1>4, <1>5, <1>6, FlowsStep

\* Another token is listed: a selected token may be another one from here on.
LEMMA TokenStep ==
  ASSUME ListInv, NEW t \in ListSet, TokenListed(t)
  PROVE  ListInv'
<1>1. /\ tokens' = tokens \cup {t} /\ wanted' = [wanted EXCEPT !.moved = TRUE, !.pageMoved = TRUE]
      /\ UNCHANGED <<flows, now, filter, page>>
  BY DEF TokenListed
<1>2. tokens' \in SUBSET ListSet /\ tokens \in SUBSET tokens'
  BY <1>1 DEF ListInv
<1>3. filter \in Filters /\ filter.token \in Int /\ filter.token < Len(FilterTokens(tokens))
  BY TokensToFilter DEF ListInv, Filters, UNSELECTED
<1>4. filter.token < Len(FilterTokens(tokens'))
  BY <1>2, <1>3, FilterTokensLonger, FilterTokensAre
<1>5. tokensToFilter' = FilterTokens(tokens')
  BY DEF tokensToFilter, FilterTokens
<1>6. /\ wanted' \in [token : ListSet \cup {"All"}, moved : BOOLEAN, pageMoved : BOOLEAN]
      /\ wanted'.token = wanted.token /\ wanted'.moved /\ wanted'.pageMoved
  BY <1>1 DEF ListInv
<1>7. filter.token <= 0 => PageFits(page, flows, filter, tokens')
  <2> SUFFICES ASSUME filter.token <= 0 PROVE PageFits(page, flows, filter, tokens')
    OBVIOUS
  <2>1. ~(filter.token > 0)
    BY <1>3
  <2>2. Fitting(flows, filter, tokens') = Fitting(flows, filter, tokens)
    BY <2>1 DEF Fitting, Fits
  <2>3. PageFits(page, flows, filter, tokens)
    BY <2>1 DEF ListInv
  <2> QED BY <2>2, <2>3 DEF PageFits
<1>8. ~(filter.token > 0) => filter.token <= 0
  BY <1>3
<1> QED BY <1>1, <1>2, <1>3, <1>4, <1>5, <1>6, <1>7, <1>8 DEF ListInv

LEMMA ListStep == ListInv /\ [ListNext]_listVars => ListInv'
<1> SUFFICES ASSUME ListInv, [ListNext]_listVars PROVE ListInv'
  OBVIOUS
<1>1. ASSUME now' \in Nat, UNCHANGED <<flows, tokens, filter, page, wanted>> PROVE ListInv'
  BY <1>1 DEF ListInv, tokensToFilter
<1>2. CASE Tick
  BY <1>1, <1>2 DEF Tick, ListInv
<1>3. CASE UNCHANGED listVars
  BY <1>1, <1>3 DEF listVars, ListInv
<1>4. ASSUME NEW i \in 1..MaxFlows, FlowCloses(i) PROVE ListInv'
  <2>1. i \in Nat
    OBVIOUS
  <2> QED BY <1>4, <2>1, ClosesStep
<1>5. ASSUME NEW p \in 0..MaxFlows - 1, setPage(p) PROVE ListInv'
  <2>1. p \in Nat
    OBVIOUS
  <2> QED BY <1>5, <2>1, PageStep
<1> QED BY <1>2, <1>3, <1>4, <1>5, TokenStep, OpensStep, RangeStep, SelectionStep DEF ListNext

-----------------------------------------------------------------------------
(* The list of flows: what it shows and in which order.                     *)

LEMMA Multiply ==
  ASSUME NEW D \in Nat, NEW x \in Int, NEW y \in Int, x <= y
  PROVE  D * x <= D * y
  OBVIOUS

\* Whole days: a moment is not before the start of a day, and not after its end, if its day is not.
LEMMA WholeDays ==
  ASSUME NEW c \in Nat, NEW d \in Nat
  PROVE  /\ ~(c < startOfDay(d)) <=> c \div DayLength >= d \div DayLength
         /\ ~(c > endOfDay(d)) <=> c \div DayLength <= d \div DayLength
<1> DEFINE D == DayLength
           qc == c \div D
           rc == c % D
           qd == d \div D
           rd == d % D
<1>1. D \in Nat \ {0}
  BY ListAssumption
<1>2. qc \in Nat /\ rc \in Nat /\ c = D * qc + rc /\ rc < D
  BY <1>1, QuotientIs
<1>3. qd \in Nat /\ rd \in Nat /\ d = D * qd + rd /\ rd < D
  BY <1>1, QuotientIs
<1>4. startOfDay(d) = d - rd /\ endOfDay(d) = d - rd + D - 1
  BY DEF startOfDay, endOfDay
<1> HIDE DEF D, qc, rc, qd, rd
<1>5. qc >= qd => D * qc >= D * qd
  BY <1>1, <1>2, <1>3, Multiply
<1>6. qc <= qd => D * qc <= D * qd
  BY <1>1, <1>2, <1>3, Multiply
<1>7. qc < qd => D * qc + D <= D * qd
  <2> SUFFICES ASSUME qc < qd PROVE D * qc + D <= D * qd
    OBVIOUS
  <2>1. D * (qc + 1) <= D * qd
    BY <1>1, <1>2, <1>3, Multiply
  <2> QED BY <1>1, <1>2, <1>3, <2>1
<1>8. qd < qc => D * qd + D <= D * qc
  <2> SUFFICES ASSUME qd < qc PROVE D * qd + D <= D * qc
    OBVIOUS
  <2>1. D * (qd + 1) <= D * qc
    BY <1>1, <1>2, <1>3, Multiply
  <2> QED BY <1>1, <1>2, <1>3, <2>1
<1> DEFINE C == D * qc
           E == D * qd
<1>9. C \in Int /\ E \in Int
  BY <1>1, <1>2, <1>3
<1> HIDE DEF C, E
<1>10. ~(c < d - rd) <=> qc >= qd
  BY <1>1, <1>2, <1>3, <1>5, <1>7, <1>9 DEF C, E
<1>11. ~(c > d - rd + D - 1) <=> qc <= qd
  BY <1>1, <1>2, <1>3, <1>6, <1>8, <1>9 DEF C, E
<1> QED BY <1>4, <1>10, <1>11 DEF D, qc, qd

\* The filters as positions in drop-downs ask for what they say, while the selected token is in its place.
LEMMA IncludedIsAsked ==
  ASSUME ListInv, ~(wanted.moved /\ filter.token > 0), NEW f \in Flows
  PROVE  Included(f) <=> Asked(f)
<1>1. filter \in Filters /\ f.created \in Nat /\ f.isCancelled \in BOOLEAN /\ f.isIncoming \in BOOLEAN
  BY DEF ListInv, Flows
<1>2. /\ filter.state \in {-1, 1, 2} /\ filter.type \in {-1, 1, 2} /\ filter.token \in Int
      /\ filter.range.start \in Nat \cup {NoDate} /\ filter.range.end \in Nat \cup {NoDate}
  BY <1>1 DEF Filters, UNSELECTED
<1> DEFINE states == filter.state # UNSELECTED =>
                       FLOW_STATES[filter.state + 1] = IF f.isCancelled THEN "Close" ELSE "Open"
           types == filter.type # UNSELECTED =>
                       FLOW_TYPES[filter.type + 1] = IF f.isIncoming THEN "Incoming" ELSE "Outgoing"
           starts == filter.range.start # NoDate => ~(f.created < startOfDay(filter.range.start))
           ends == filter.range.end # NoDate => ~(f.created > endOfDay(filter.range.end))
           token == filter.token > 0 => f.token = tokensToFilter[filter.token + 1]
<1>3. states <=> (filter.state = 1 => ~f.isCancelled) /\ (filter.state = 2 => f.isCancelled)
  <2>1. FLOW_STATES[2] = "Open" /\ FLOW_STATES[3] = "Close"
    BY DEF FLOW_STATES
  <2>2. CASE filter.state = -1
    BY <2>2 DEF UNSELECTED
  <2>3. CASE filter.state = 1
    <3>1. FLOW_STATES[filter.state + 1] = "Open" /\ filter.state # UNSELECTED
      BY <2>1, <2>3 DEF UNSELECTED
    <3> QED BY <2>3, <3>1
  <2>4. CASE filter.state = 2
    <3>1. FLOW_STATES[filter.state + 1] = "Close" /\ filter.state # UNSELECTED
      BY <2>1, <2>4 DEF UNSELECTED
    <3> QED BY <2>4, <3>1
  <2> QED BY <1>2, <2>2, <2>3, <2>4
<1>4. types <=> (filter.type = 1 => f.isIncoming) /\ (filter.type = 2 => ~f.isIncoming)
  <2>1. FLOW_TYPES[2] = "Incoming" /\ FLOW_TYPES[3] = "Outgoing"
    BY DEF FLOW_TYPES
  <2>2. CASE filter.type = -1
    BY <2>2 DEF UNSELECTED
  <2>3. CASE filter.type = 1
    <3>1. FLOW_TYPES[filter.type + 1] = "Incoming" /\ filter.type # UNSELECTED
      BY <2>1, <2>3 DEF UNSELECTED
    <3> QED BY <2>3, <3>1
  <2>4. CASE filter.type = 2
    <3>1. FLOW_TYPES[filter.type + 1] = "Outgoing" /\ filter.type # UNSELECTED
      BY <2>1, <2>4 DEF UNSELECTED
    <3> QED BY <2>4, <3>1
  <2> QED BY <1>2, <2>2, <2>3, <2>4
<1>5. starts <=> (filter.range.start # NoDate => f.created \div DayLength >= filter.range.start \div DayLength)
  BY <1>1, <1>2, WholeDays
<1>6. ends <=> (filter.range.end # NoDate => f.created \div DayLength <= filter.range.end \div DayLength)
  BY <1>1, <1>2, WholeDays
<1>7. token <=> (wanted.token # "All" => f.token = wanted.token)
  <2>1. CASE filter.token <= 0
    BY <1>2, <2>1 DEF ListInv
  <2>2. CASE filter.token > 0
    <3>1. wanted.token = tokensToFilter[filter.token + 1]
      BY <2>2, TokensToFilter DEF ListInv
    <3>2. filter.token + 1 \in 2..Len(tokensToFilter)
      BY <1>2, <2>2, TokensToFilter, FilterTokensAre DEF ListInv
    <3>3. wanted.token \in ListSet
      BY <3>1, <3>2, TokensToFilter, FilterTokensAre DEF ListInv
    <3> QED BY <2>2, <3>1, <3>3, ListAssumption
  <2> QED BY <1>2, <2>1, <2>2
<1> HIDE DEF states, types, starts, ends, token
<1>8. Included(f) <=> states /\ types /\ starts /\ ends /\ token
  BY DEF Included, states, types, starts, ends, token
<1> QED BY <1>3, <1>4, <1>5, <1>6, <1>7, <1>8 DEF Asked

LEMMA CompareIs ==
  ASSUME NEW a \in Flows, NEW b \in Flows
  PROVE  /\ compareFlows(a, b) < 0 <=> \/ ~a.isCancelled /\ b.isCancelled
                                       \/ ~a.isCancelled /\ ~b.isCancelled /\ b.created < a.created
         /\ compareFlows(a, b) = 0 <=> \/ a.isCancelled /\ b.isCancelled
                                       \/ ~a.isCancelled /\ ~b.isCancelled /\ b.created = a.created
<1>1. a.created \in Nat /\ b.created \in Nat /\ a.isCancelled \in BOOLEAN /\ b.isCancelled \in BOOLEAN
  BY DEF Flows
<1>2. CASE ~a.isCancelled /\ ~b.isCancelled
  <2>1. compareFlows(a, b) = b.created - a.created
    BY <1>2 DEF compareFlows
  <2>2. /\ compareFlows(a, b) < 0 <=> b.created < a.created
        /\ compareFlows(a, b) = 0 <=> b.created = a.created
    BY <1>1, <2>1
  <2> QED BY <1>2, <2>2
<1>3. CASE ~a.isCancelled /\ b.isCancelled
  <2>1. compareFlows(a, b) = -1
    BY <1>3 DEF compareFlows
  <2>2. compareFlows(a, b) < 0 /\ compareFlows(a, b) # 0
    BY <2>1
  <2> QED BY <1>3, <2>2
<1>4. CASE a.isCancelled /\ ~b.isCancelled
  <2>1. compareFlows(a, b) = 1
    BY <1>4 DEF compareFlows
  <2>2. ~(compareFlows(a, b) < 0) /\ compareFlows(a, b) # 0
    BY <2>1
  <2> QED BY <1>4, <2>2
<1>5. CASE a.isCancelled /\ b.isCancelled
  <2>1. compareFlows(a, b) = 0
    BY <1>5 DEF compareFlows
  <2>2. ~(compareFlows(a, b) < 0)
    BY <2>1
  <2> QED BY <1>5, <2>1, <2>2
<1> QED BY <1>2, <1>3, <1>4, <1>5

\* Entry i of list s comes before entry j in the sorted list.
Comes(s, i, j) == compareFlows(s[i], s[j]) < 0 \/ (compareFlows(s[i], s[j]) = 0 /\ i < j)
Order(s) == {x \in (DOMAIN s) \X (DOMAIN s) : Comes(s, x[1], x[2])}

\* The same said of the flows.
LEMMA ComesIs ==
  ASSUME NEW s, NEW i \in Nat, NEW j \in Nat, s[i] \in Flows, s[j] \in Flows
  PROVE  Comes(s, i, j) <=> \/ ~s[i].isCancelled /\ s[j].isCancelled
                            \/ s[i].isCancelled /\ s[j].isCancelled /\ i < j
                            \/ /\ ~s[i].isCancelled /\ ~s[j].isCancelled
                               /\ \/ s[j].created < s[i].created
                                  \/ s[j].created = s[i].created /\ i < j
  BY CompareIs DEF Comes

LEMMA SortOrders ==
  ASSUME NEW s, NEW n \in Nat, DOMAIN s = 1..n, \A i \in 1..n : s[i] \in Flows
  PROVE  Orders(1..n, Order(s))
<1>1. \A i \in 1..n : s[i].created \in Nat /\ s[i].isCancelled \in BOOLEAN
  BY DEF Flows
<1>2. ASSUME NEW i \in 1..n, NEW j \in 1..n PROVE <<i, j>> \in Order(s) <=> Comes(s, i, j)
  <2> DEFINE x == <<i, j>>
  <2>1. x[1] = i /\ x[2] = j /\ x \in (DOMAIN s) \X (DOMAIN s)
    OBVIOUS
  <2> HIDE DEF x
  <2>2. x \in Order(s) <=> Comes(s, x[1], x[2])
    BY <2>1 DEF Order
  <2>3. x \in Order(s) <=> Comes(s, i, j)
    BY <2>1, <2>2
  <2> QED BY <2>3 DEF x
<1> DEFINE Before(i, j) == \/ ~s[i].isCancelled /\ s[j].isCancelled
                           \/ s[i].isCancelled /\ s[j].isCancelled /\ i < j
                           \/ /\ ~s[i].isCancelled /\ ~s[j].isCancelled
                              /\ \/ s[j].created < s[i].created
                                 \/ s[j].created = s[i].created /\ i < j
<1>3. ASSUME NEW i \in 1..n, NEW j \in 1..n PROVE <<i, j>> \in Order(s) <=> Before(i, j)
  <2>1. Comes(s, i, j) <=> Before(i, j)
    BY ComesIs
  <2> QED BY <1>2, <2>1
<1>4. \A i \in 1..n : ~Before(i, i)
  BY <1>1
<1>5. \A i, j \in 1..n : i = j \/ Before(i, j) \/ Before(j, i)
  BY <1>1
<1>6. \A i, j, k \in 1..n : Before(i, j) /\ Before(j, k) => Before(i, k)
  BY <1>1
<1> HIDE DEF Before
<1> QED BY <1>3, <1>4, <1>5, <1>6 DEF Orders

\* What is listed before sorting: the listable flows in the order in which they were created.
LEMMA FilteredIs ==
  ASSUME ListInv
  PROVE  LET s == filteredFlows
             n == Cardinality(Listable)
         IN  /\ n \in Nat /\ DOMAIN s = 1..n
             /\ \A k \in 1..n : s[k] \in Flows /\ \E i \in Listable : s[k] = flows[i]
             /\ \A i \in Listable : \E k \in 1..n : s[k] = flows[i]
             /\ \A k, l \in 1..n : k < l => s[k].id < s[l].id
<1> DEFINE P == Listable
           n == Cardinality(P)
           s == filteredFlows
<1>1. P \in SUBSET Nat /\ IsFiniteSet(P)
  BY ListableIs
<1>2. s = Sublist(flows, P)
  BY DEF filteredFlows, Listable
<1>3. \A i \in P : i \in DOMAIN flows /\ flows[i] \in Flows /\ flows[i].id = i - 1 /\ i \in Nat
  BY <1>1 DEF ListInv, Listable
<1> HIDE DEF P, s
<1>4. n \in Nat /\ \A k \in 1..n : Kth(P, k) \in P
  BY <1>1, KthIs
<1>5. \A i \in P : \E k \in 1..n : Kth(P, k) = i
  BY <1>1, KthIs
<1>6. \A k, l \in 1..n : k < l => Kth(P, k) < Kth(P, l)
  BY <1>1, KthIs
<1>7. DOMAIN s = 1..n /\ \A k \in 1..n : s[k] = flows[Kth(P, k)]
  BY <1>2 DEF Sublist
<1>8. \A k \in 1..n : s[k] \in Flows /\ \E i \in P : s[k] = flows[i]
  BY <1>3, <1>4, <1>7
<1>9. \A i \in P : \E k \in 1..n : s[k] = flows[i]
  BY <1>5, <1>7
<1>10. ASSUME NEW k \in 1..n, NEW l \in 1..n, k < l PROVE s[k].id < s[l].id
  <2> DEFINE a == Kth(P, k)
             b == Kth(P, l)
  <2>1. a \in P /\ b \in P /\ a < b /\ s[k] = flows[a] /\ s[l] = flows[b]
    BY <1>4, <1>6, <1>7, <1>10
  <2> HIDE DEF a, b
  <2> QED BY <1>3, <2>1
<1> QED BY <1>4, <1>7, <1>8, <1>9, <1>10 DEF P, s

\* The sorted list has the same entries, one after the other.
LEMMA SortedIs ==
  ASSUME ListInv
  PROVE  LET s == filteredFlows
             n == Cardinality(Listable)
         IN  /\ DOMAIN sortedFlows = 1..n /\ Len(sortedFlows) = n
             /\ \A k \in 1..n : At(1..n, Order(s), k) \in 1..n /\ sortedFlows[k] = s[At(1..n, Order(s), k)]
             /\ \A i \in 1..n : \E k \in 1..n : At(1..n, Order(s), k) = i
             /\ \A k, l \in 1..n : k < l => Comes(s, At(1..n, Order(s), k), At(1..n, Order(s), l))
<1> DEFINE s == filteredFlows
           n == Cardinality(Listable)
           P == 1..n
           R == Order(s)
<1>1. n \in Nat /\ DOMAIN s = 1..n /\ \A i \in 1..n : s[i] \in Flows
  BY FilteredIs
<1> HIDE DEF n, s
<1>2. IsFiniteSet(P) /\ Cardinality(P) = n
  BY <1>1, FS_Interval
<1>3. Orders(P, R)
  BY <1>1, SortOrders
<1>4. ASSUME NEW i \in P, NEW j \in P PROVE Comes(s, j, i) <=> <<j, i>> \in R
  <2> DEFINE x == <<j, i>>
  <2>1. x[1] = j /\ x[2] = i /\ x \in (DOMAIN s) \X (DOMAIN s)
    BY <1>1
  <2> HIDE DEF x
  <2>2. x \in R <=> Comes(s, x[1], x[2])
    BY <2>1 DEF Order
  <2>3. x \in R <=> Comes(s, j, i)
    BY <2>1, <2>2
  <2> QED BY <2>3 DEF x
<1> HIDE DEF R
<1>5. ASSUME NEW i \in P PROVE Cardinality({j \in P : Comes(s, j, i)}) = Rank(P, R, i)
  <2>1. {j \in P : Comes(s, j, i)} = {j \in P : <<j, i>> \in R}
    BY <1>4
  <2> QED BY <2>1 DEF Rank
<1>6. sortedFlows = [k \in DOMAIN s |-> s[CHOOSE i \in DOMAIN s : Cardinality({j \in DOMAIN s : Comes(s, j, i)}) = k - 1]]
  BY DEF sortedFlows, s, Comes
<1>7. sortedFlows = [k \in P |-> s[CHOOSE i \in P : Cardinality({j \in P : Comes(s, j, i)}) = k - 1]]
  BY <1>1, <1>6
<1>8. ASSUME NEW k \in P
      PROVE  (CHOOSE i \in P : Cardinality({j \in P : Comes(s, j, i)}) = k - 1) = At(P, R, k)
  BY <1>5 DEF At
<1> HIDE DEF P
<1>9. DOMAIN sortedFlows = P /\ \A k \in P : sortedFlows[k] = s[At(P, R, k)]
  BY <1>7, <1>8
<1>10. \A k \in 1..Cardinality(P) : At(P, R, k) \in P
  BY <1>2, <1>3, PlacesAre
<1>11. \A i \in P : \E k \in 1..Cardinality(P) : At(P, R, k) = i
  BY <1>2, <1>3, PlacesAre
<1>12. \A k, l \in 1..Cardinality(P) : k < l => <<At(P, R, k), At(P, R, l)>> \in R
  BY <1>2, <1>3, PlacesAre
<1>13. \A k, l \in P : k < l => Comes(s, At(P, R, k), At(P, R, l))
  BY <1>2, <1>4, <1>10, <1>12 DEF P
<1>14. Len(sortedFlows) = n
  BY <1>1, <1>9 DEF P
<1> QED BY <1>2, <1>9, <1>10, <1>11, <1>13, <1>14 DEF P, R, s, n

LEMMA ListedOK == ListInv => ListedExactly
<1> SUFFICES ASSUME ListInv, ~(wanted.moved /\ filter.token > 0)
             PROVE  LET list == sortedFlows
                    IN  /\ {list[k] : k \in DOMAIN list} = {flows[i] : i \in {j \in DOMAIN flows : Asked(flows[j])}}
                        /\ \A k \in 1..Len(list) - 1 :
                             /\ list[k].isCancelled => list[k + 1].isCancelled
                             /\ ~list[k + 1].isCancelled => list[k].created >= list[k + 1].created
                             /\ list[k].isCancelled => list[k].id < list[k + 1].id
  BY DEF ListedExactly
<1> DEFINE list == sortedFlows
           s == filteredFlows
           n == Cardinality(Listable)
           a(k) == At(1..n, Order(s), k)
<1>1. n \in Nat /\ DOMAIN s = 1..n
  BY FilteredIs
<1>2. \A k \in 1..n : s[k] \in Flows /\ \E i \in Listable : s[k] = flows[i]
  BY FilteredIs
<1>3. \A i \in Listable : \E k \in 1..n : s[k] = flows[i]
  BY FilteredIs
<1>4. \A k, l \in 1..n : k < l => s[k].id < s[l].id
  BY FilteredIs
<1>5. /\ DOMAIN list = 1..n /\ Len(list) = n
      /\ \A k \in 1..n : a(k) \in 1..n /\ list[k] = s[a(k)]
      /\ \A i \in 1..n : \E k \in 1..n : a(k) = i
      /\ \A k, l \in 1..n : k < l => Comes(s, a(k), a(l))
  BY SortedIs
<1>6. Listable = {j \in DOMAIN flows : Asked(flows[j])}
  <2>1. \A j \in DOMAIN flows : flows[j] \in Flows
    BY DEF ListInv
  <2> QED BY <2>1, IncludedIsAsked DEF Listable
<1> HIDE DEF list, s, n, a
<1>7. {list[k] : k \in DOMAIN list} = {flows[i] : i \in Listable}
  <2>1. ASSUME NEW k \in 1..n PROVE \E i \in Listable : list[k] = flows[i]
    <3>1. a(k) \in 1..n /\ list[k] = s[a(k)]
      BY <1>5
    <3>2. PICK i \in Listable : s[a(k)] = flows[i]
      BY <1>2, <3>1
    <3> QED BY <3>1, <3>2
  <2>2. ASSUME NEW i \in Listable PROVE \E k \in 1..n : list[k] = flows[i]
    <3>1. PICK m \in 1..n : s[m] = flows[i]
      BY <1>3
    <3>2. PICK k \in 1..n : a(k) = m
      BY <1>5
    <3> QED BY <1>5, <3>1, <3>2
  <2>3. DOMAIN list = 1..n
    BY <1>5
  <2> DEFINE L == {list[k] : k \in 1..n}
             F == {flows[i] : i \in Listable}
  <2>4. ASSUME NEW x \in L PROVE x \in F
    <3>1. PICK k \in 1..n : x = list[k]
      OBVIOUS
    <3> QED BY <2>1, <3>1
  <2>5. ASSUME NEW x \in F PROVE x \in L
    <3>1. PICK i \in Listable : x = flows[i]
      OBVIOUS
    <3>2. PICK k \in 1..n : list[k] = flows[i]
      BY <2>2
    <3> QED BY <3>1, <3>2
  <2> HIDE DEF L, F
  <2>6. L = F
    BY <2>4, <2>5
  <2> QED BY <2>3, <2>6 DEF L, F
<1>8. ASSUME NEW k \in 1..n - 1
      PROVE  /\ list[k].isCancelled => list[k + 1].isCancelled
             /\ ~list[k + 1].isCancelled => list[k].created >= list[k + 1].created
             /\ list[k].isCancelled => list[k].id < list[k + 1].id
  <2> DEFINE i == a(k)
             j == a(k + 1)
  <2>1. k \in 1..n /\ k + 1 \in 1..n /\ k < k + 1
    BY <1>1
  <2>2. i \in 1..n /\ j \in 1..n /\ Comes(s, i, j) /\ list[k] = s[i] /\ list[k + 1] = s[j]
    BY <1>5, <2>1
  <2> HIDE DEF i, j
  <2>3. /\ s[i] \in Flows /\ s[j] \in Flows /\ i \in Nat /\ j \in Nat
        /\ s[i].created \in Nat /\ s[j].created \in Nat
    BY <1>2, <2>2 DEF Flows
  <2>4. \/ ~s[i].isCancelled /\ s[j].isCancelled
        \/ s[i].isCancelled /\ s[j].isCancelled /\ i < j
        \/ ~s[i].isCancelled /\ ~s[j].isCancelled /\ s[j].created <= s[i].created
    BY <2>2, <2>3, ComesIs
  <2>5. i < j => s[i].id < s[j].id
    BY <1>4, <2>2
  <2>6. s[j].created <= s[i].created => s[i].created >= s[j].created
    BY <2>3
  <2> QED BY <2>2, <2>4, <2>5, <2>6
<1> QED BY <1>5, <1>6, <1>7, <1>8 DEF list, n

LEMMA PageOK == ListInv => PageExists
<1> SUFFICES ASSUME ListInv, filter.state = UNSELECTED, ~(wanted.pageMoved /\ filter.token > 0)
             PROVE  page = 0 \/ page * PageSize < Len(filteredFlows)
  BY DEF PageExists
<1>1. PageFits(page, flows, filter, tokens)
  BY DEF ListInv
<1>2. Len(filteredFlows) = Cardinality(Fitting(flows, filter, tokens))
  BY ListableIs
<1> QED BY <1>1, <1>2 DEF PageFits

-----------------------------------------------------------------------------
(* The figures.                                                             *)

FiguresInv ==
  /\ figure \in [balance : Balances, netFlow : NetFlows, price : Prices]
  /\ clock \in Nat /\ publishedAt \in 0..renderedAt /\ renderedAt \in 0..clock

LEMMA FiguresStep == FiguresInv /\ [FigureNext]_figureVars => FiguresInv'
  BY DEF FiguresInv, FigureNext, SecondPasses, FiguresPublished, CardRendered, figureVars

\* Division towards zero.
LEMMA DivIs ==
  ASSUME NEW a \in Int, NEW r \in Nat \ {0}
  PROVE  /\ Div(a, r) \in Int
         /\ a >= 0 => Div(a, r) >= 0 /\ r * Div(a, r) <= a /\ a < r * Div(a, r) + r
         /\ a < 0 => Div(a, r) <= 0 /\ r * Div(a, r) - r < a /\ a <= r * Div(a, r)
<1>1. CASE a >= 0
  <2>1. a \in Nat /\ Div(a, r) = a \div r
    BY <1>1 DEF Div
  <2>2. a \div r \in Nat /\ a % r \in Nat /\ a = (r * (a \div r)) + (a % r) /\ a % r < r
    BY <2>1, QuotientIs
  <2> DEFINE q == a \div r
             m == a % r
             x == r * q
  <2>3. x \in Int
    BY <2>2
  <2> HIDE DEF q, m, x
  <2>4. q >= 0 /\ x <= a /\ a < x + r
    BY <2>2, <2>3 DEF q, m, x
  <2> QED BY <1>1, <2>1, <2>2, <2>4 DEF q, x
<1>2. CASE a < 0
  <2>1. -a \in Nat /\ Div(a, r) = -((-a) \div r)
    BY <1>2 DEF Div
  <2> DEFINE n == -a
             q == n \div r
             m == n % r
             x == r * q
  <2>2. n \in Nat
    BY <2>1
  <2> HIDE DEF n
  <2>3. q \in Nat /\ m \in Nat /\ n = (r * q) + m /\ m < r
    BY <2>2, QuotientIs
  <2> HIDE DEF q, m
  <2>4. r * (-q) = -x /\ x \in Int
    BY <2>3
  <2> HIDE DEF x
  <2>5. -x - r < a /\ a <= -x /\ -q <= 0 /\ -q \in Int
    BY <2>3, <2>4 DEF n, x
  <2> QED BY <1>2, <2>1, <2>4, <2>5 DEF q, n
<1> QED BY <1>1, <1>2

\* While the net flow is negative the amount falls: it is negative only after it was not.
LEMMA Falls ==
  ASSUME NEW b \in Int, NEW f \in Int, f < 0, NEW x \in Int, NEW y \in Int,
         calculateCurrentAmount(b, f, x) >= 0, calculateCurrentAmount(b, f, y) < 0
  PROVE  x < y
<1> SUFFICES ASSUME y <= x PROVE FALSE
  OBVIOUS
<1> DEFINE r == -f
           u == r * x
           v == r * y
<1>1. r \in Nat
  OBVIOUS
<1>2. v <= u
  BY <1>1, Multiply
<1>3. f * x = -u /\ f * y = -v /\ u \in Int /\ v \in Int
  OBVIOUS
<1> HIDE DEF r, u, v
<1> QED BY <1>2, <1>3 DEF calculateCurrentAmount

\* The date is a whole second off the moment at which the amount is zero at the most.
LEMMA DateIs ==
  ASSUME NEW b \in Int, NEW f \in Int, f < 0, NEW t \in Nat
  PROVE  LET date == calculateDepletionDate(b, f, t)
         IN  /\ date \in Int
             /\ calculateCurrentAmount(b, f, date - 1) >= 0 /\ calculateCurrentAmount(b, f, date + 1) < 0
             /\ calculateCurrentAmount(b, f, t) >= 0 => calculateCurrentAmount(b, f, date) >= 0
             /\ calculateCurrentAmount(b, f, t) < 0 => date <= t
<1> DEFINE r == -f
           a == calculateCurrentAmount(b, f, t)
           q == Div(a, r)
           date == t + q
           p == r * q
<1>1. r \in Nat \ {0} /\ a \in Int
  BY DEF calculateCurrentAmount
<1>2. calculateDepletionDate(b, f, t) = date
  BY DEF calculateDepletionDate
<1>3. /\ q \in Int
      /\ a >= 0 => q >= 0 /\ p <= a /\ a < p + r
      /\ a < 0 => q <= 0 /\ p - r < a /\ a <= p
  BY <1>1, DivIs
<1> HIDE DEF q
<1>4. f * q = -p /\ p \in Int
  BY <1>3
<1>5. /\ f * (t + q) = f * t - p /\ f * ((t + q) - 1) = f * t - p + r
      /\ f * ((t + q) + 1) = f * t - p - r
  <2> HIDE DEF p
  <2>1. f * (t + q) = f * t + f * q
    BY <1>3
  <2>2. f * ((t + q) - 1) = f * (t + q) - f /\ f * ((t + q) + 1) = f * (t + q) + f
    BY <1>3
  <2> DEFINE u == f * t
             v == f * (t + q)
  <2>3. u \in Int /\ v \in Int
    BY <1>3
  <2> HIDE DEF u, v
  <2>4. v = u - p /\ v - f = u - p + r /\ v + f = u - p - r
    BY <1>4, <2>1, <2>3 DEF u, v
  <2> QED BY <2>2, <2>4 DEF u, v
<1>6. a = b + f * t /\ f * t \in Int
  BY DEF calculateCurrentAmount
<1> DEFINE u == f * t
<1> HIDE DEF p, a, r, u
<1>7. /\ calculateCurrentAmount(b, f, date) = a - p
      /\ calculateCurrentAmount(b, f, date - 1) = a - p + r
      /\ calculateCurrentAmount(b, f, date + 1) = a - p - r
  <2>1. /\ calculateCurrentAmount(b, f, date) = b + (u - p)
        /\ calculateCurrentAmount(b, f, date - 1) = b + (u - p + r)
        /\ calculateCurrentAmount(b, f, date + 1) = b + (u - p - r)
    <3>1. f * date = u - p /\ f * (date - 1) = u - p + r /\ f * (date + 1) = u - p - r
      BY <1>5, Zenon DEF u
    <3> HIDE DEF date
    <3> QED BY <3>1, Zenon DEF calculateCurrentAmount
  <2> QED BY <1>1, <1>4, <1>6, <2>1 DEF u
<1>8. /\ a - p + r >= 0 /\ a - p - r < 0
      /\ a >= 0 => a - p >= 0
      /\ a < 0 => date <= t
  BY <1>1, <1>3, <1>4
<1> QED BY <1>2, <1>3, <1>7, <1>8 DEF a

\* Days are whole: so many of them are left if there is time for them.
LEMMA DaysLeft ==
  ASSUME NEW x \in Int, NEW days \in Nat
  PROVE  /\ x <= days * SecondsPerDay => Div(x, SecondsPerDay) <= days
         /\ x < days * SecondsPerDay /\ days # 0 => Div(x, SecondsPerDay) < days
         /\ x >= days * SecondsPerDay => Div(x, SecondsPerDay) >= days
<1> DEFINE S == SecondsPerDay
           q == Div(x, S)
           p == S * q
           d == S * days
<1>1. S \in Nat \ {0}
  BY FigureAssumption
<1>2. /\ q \in Int
      /\ x >= 0 => q >= 0 /\ p <= x /\ x < p + S
      /\ x < 0 => q <= 0 /\ p - S < x /\ x <= p
  BY <1>1, DivIs
<1> HIDE DEF S, q
<1>3. days * S = d /\ d \in Nat /\ p \in Int
  BY <1>1, <1>2
<1>4. q > days => p >= d + S
  <2> SUFFICES ASSUME q > days PROVE p >= d + S
    OBVIOUS
  <2>1. S * (days + 1) <= S * q
    BY <1>1, <1>2, Multiply
  <2>2. S * (days + 1) = d + S
    BY <1>1
  <2> QED BY <1>1, <1>3, <2>1, <2>2
<1>5. q >= days => p >= d
  BY <1>1, <1>2, Multiply
<1>6. q < days => p + S <= d
  <2> SUFFICES ASSUME q < days PROVE p + S <= d
    OBVIOUS
  <2>1. S * (q + 1) <= S * days
    BY <1>1, <1>2, Multiply
  <2>2. S * (q + 1) = p + S
    BY <1>1, <1>2
  <2> QED BY <1>1, <1>3, <2>1, <2>2
<1> HIDE DEF p, d
<1>7. x <= d => q <= days
  BY <1>1, <1>2, <1>3, <1>4
<1>8. x < d /\ days # 0 => q < days
  BY <1>1, <1>2, <1>3, <1>5
<1>9. x >= d => q >= days
  BY <1>1, <1>2, <1>3, <1>6
<1> QED BY <1>3, <1>7, <1>8, <1>9 DEF S, q

LEMMA DepletionOK == FiguresInv => DepletionWithin
<1> DEFINE b == figure.balance
           f == figure.netFlow
           S == SecondsPerDay
           At0(d) == calculateCurrentAmount(b, f, d)
           dateAt(t) == calculateDepletionDate(b, f, t)
           p == publishedAt
           r == renderedAt
<1> SUFFICES ASSUME FiguresInv, f < 0
             PROVE  /\ At0(dateAt(p) - 1) >= 0 /\ At0(dateAt(p) + 1) < 0
                    /\ At0(p) >= 0 => At0(dateAt(p)) >= 0
                    /\ At0(r + CardDays * S) < 0 => displayWarning(dateAt(p), r)
                    /\ At0(clock + (CardDays + 2) * S) >= 0 => ~displayWarning(dateAt(p), r)
                    /\ At0(p + IncomingDays * S) < 0 => incomingFlowWarning(b, f, p)
                    /\ At0(clock + (IncomingDays + 2) * S) >= 0 => ~incomingFlowWarning(b, f, p)
  BY DEF DepletionWithin, CardDate, CardWarning, IncomingWarning
<1>a. b \in Int /\ f \in Int
  BY FigureAssumption DEF FiguresInv
<1>b. S \in Nat \ {0} /\ CardDays \in Nat /\ IncomingDays \in Nat \ {0}
  BY FigureAssumption
<1>c. clock \in Nat /\ p \in Nat /\ r \in Nat /\ p <= clock /\ r <= clock
  BY DEF FiguresInv
<1>1. /\ b \in Int /\ f \in Int /\ S \in Nat \ {0} /\ CardDays \in Nat /\ IncomingDays \in Nat \ {0}
      /\ clock \in Nat /\ p \in Nat /\ r \in Nat /\ p <= clock /\ r <= clock
  BY <1>a, <1>b, <1>c
<1>2. ASSUME NEW t \in Nat
      PROVE  /\ dateAt(t) \in Int
             /\ At0(dateAt(t) - 1) >= 0 /\ At0(dateAt(t) + 1) < 0
             /\ At0(t) >= 0 => At0(dateAt(t)) >= 0
             /\ At0(t) < 0 => dateAt(t) <= t
  <2> HIDE DEF b, f
  <2> QED BY <1>1, DateIs
<1>3. ASSUME NEW x \in Int, NEW y \in Int, At0(x) >= 0, At0(y) < 0 PROVE x < y
  <2> HIDE DEF b, f
  <2> QED BY <1>1, <1>3, Falls
<1>4. \A x \in Int : At0(x) \in Int
  <2> HIDE DEF b, f
  <2> QED BY <1>1 DEF calculateCurrentAmount
<1>5. ASSUME NEW days \in Nat PROVE days * S \in Nat /\ (days + 2) * S \in Nat
  BY <1>1
<1> HIDE DEF b, f, S, At0, dateAt, p, r
\* A warning computed at moment c, of the date computed at moment t.
<1>6. ASSUME NEW t \in Nat, NEW days \in Nat, NEW c \in Nat, c <= clock
      PROVE  /\ At0(c + days * S) < 0 => dateAt(t) - c <= days * S
             /\ At0(clock + (days + 2) * S) >= 0 => dateAt(t) - c >= (days + 2) * S
  <2> DEFINE m == days * S
             n == (days + 2) * S
  <2>1. m \in Nat /\ n \in Nat
    BY <1>5
  <2> HIDE DEF m, n
  <2>2. dateAt(t) \in Int
    BY <1>2
  <2>3. ASSUME At0(c + m) < 0 PROVE dateAt(t) - c <= m
    <3>1. dateAt(t) - 1 < c + m
      BY <1>1, <1>2, <1>3, <2>1, <2>2, <2>3
    <3> QED BY <1>1, <2>1, <2>2, <3>1
  <2>4. ASSUME At0(clock + n) >= 0 PROVE dateAt(t) - c >= n
    <3>1. clock + n < dateAt(t) + 1
      BY <1>1, <1>2, <1>3, <2>1, <2>2, <2>4
    <3> QED BY <1>1, <1>6, <2>1, <2>2, <3>1
  <2> QED BY <2>3, <2>4 DEF m, n
<1>7. ASSUME NEW days \in Nat \ {0}, At0(p + days * S) < 0 PROVE dateAt(p) - p < days * S
  <2> DEFINE m == days * S
             d == dateAt(p)
  <2>1. m \in Nat /\ m > 0
    BY <1>1
  <2>2. /\ d \in Int /\ (At0(p) >= 0 => At0(d) >= 0) /\ (At0(p) < 0 => d <= p)
    BY <1>1, <1>2
  <2>3. At0(p) >= 0 \/ At0(p) < 0
    BY <1>1, <1>4
  <2> HIDE DEF m, d
  <2>4. ASSUME At0(p) < 0 PROVE d - p < m
    BY <1>1, <2>1, <2>2, <2>4
  <2>5. ASSUME At0(p) >= 0 PROVE d - p < m
    <3>1. p + m \in Int /\ At0(p + m) < 0
      BY <1>1, <1>7, <2>1 DEF m
    <3>2. d < p + m
      BY <1>3, <2>2, <2>5, <3>1
    <3> QED BY <1>1, <2>1, <2>2, <3>2
  <2>6. d - p < m
    BY <2>3, <2>4, <2>5
  <2> QED BY <2>6 DEF m, d
<1>8. /\ At0(r + CardDays * S) < 0 => displayWarning(dateAt(p), r)
      /\ At0(clock + (CardDays + 2) * S) >= 0 => ~displayWarning(dateAt(p), r)
  <2> DEFINE x == dateAt(p) - r
  <2>1. x \in Int
    BY <1>1, <1>2
  <2>2. Div(x, S) \in Int
    BY <1>1, <2>1, DivIs
  <2>3. displayWarning(dateAt(p), r) <=> Div(x, S) <= CardDays
    BY DEF displayWarning, differenceInDays, S
  <2>4. At0(r + CardDays * S) < 0 => Div(x, S) <= CardDays
    BY <1>1, <1>6, <2>1, DaysLeft DEF S
  <2>5. At0(clock + (CardDays + 2) * S) >= 0 => Div(x, S) >= CardDays + 2
    <3>1. CardDays + 2 \in Nat
      BY <1>1
    <3>2. At0(clock + (CardDays + 2) * S) >= 0 => x >= (CardDays + 2) * S
      BY <1>1, <1>6
    <3> HIDE DEF x
    <3> QED BY <2>1, <3>1, <3>2, DaysLeft DEF S
  <2> HIDE DEF x
  <2>6. Div(x, S) >= CardDays + 2 => ~(Div(x, S) <= CardDays)
    BY <1>1, <2>2
  <2> QED BY <2>3, <2>4, <2>5, <2>6
<1>9. /\ At0(p + IncomingDays * S) < 0 => incomingFlowWarning(b, f, p)
      /\ At0(clock + (IncomingDays + 2) * S) >= 0 => ~incomingFlowWarning(b, f, p)
  <2> DEFINE x == dateAt(p) - p
  <2>1. x \in Int /\ IncomingDays \in Nat /\ IncomingDays # 0
    BY <1>1, <1>2
  <2>2. Div(x, S) \in Int
    BY <1>1, <2>1, DivIs
  <2>3. incomingFlowWarning(b, f, p) <=> Div(x, S) < IncomingDays
    BY DEF incomingFlowWarning, differenceInDays, S, dateAt
  <2>4. At0(p + IncomingDays * S) < 0 => Div(x, S) < IncomingDays
    BY <1>1, <1>7, <2>1, DaysLeft DEF S
  <2>5. At0(clock + (IncomingDays + 2) * S) >= 0 => Div(x, S) >= IncomingDays + 2
    <3>1. IncomingDays + 2 \in Nat
      BY <1>1
    <3>2. At0(clock + (IncomingDays + 2) * S) >= 0 => x >= (IncomingDays + 2) * S
      BY <1>1, <1>6
    <3> HIDE DEF x
    <3> QED BY <2>1, <3>1, <3>2, DaysLeft DEF S
  <2> HIDE DEF x
  <2>6. Div(x, S) >= IncomingDays + 2 => ~(Div(x, S) < IncomingDays)
    BY <2>1, <2>2
  <2> QED BY <2>3, <2>4, <2>5, <2>6
<1> QED BY <1>1, <1>2, <1>8, <1>9

\* The price is a fraction of a power of ten; what its trimming leaves out is a factor of both.
LEMMA PriceIs ==
  ASSUME NEW amount \in Int, NEW price \in Numerals
  PROVE  \E v, p, q \in Nat :
           /\ p # 0 /\ q # 0 /\ getConvertedAmount(amount, price) = Div(amount * v, p)
           /\ PowerOfTen(Len(price.dec)) = p * q /\ Value(price.whole \o price.dec) = v * q
<1> DEFINE dec == TrimEnd(price.dec)
           k == Len(price.dec) - Len(dec)
           v == Value(price.whole \o dec)
           p == PowerOfTen(Len(dec))
           q == PowerOfTen(k)
<1>1. price.whole \in Seq(Digit) /\ price.dec \in Seq(Digit)
  BY DEF Numerals
<1>2. /\ dec \in Seq(Digit) /\ Len(dec) \in 0..Len(price.dec)
      /\ PowerOfTen(Len(price.dec)) = p * q /\ Value(price.whole \o price.dec) = v * q
  BY <1>1, DecimalsTrimmed
<1>3. k \in Nat /\ Len(dec) \in Nat
  BY <1>1, <1>2
<1>4. price.whole \o dec \in Seq(Digit)
  BY <1>1, <1>2, ConcatProperties
<1>5. Value(TrimStart(price.whole \o dec)) = v
  BY <1>4, TrimStartIs
<1>6. getConvertedAmount(amount, price) = Div(amount * v, p)
  BY <1>5 DEF getConvertedAmount
<1> HIDE DEF dec, k
<1>7. v \in Nat /\ p \in Nat \ {0} /\ q \in Nat \ {0}
  BY <1>3, <1>4, ValueType, PowerType
<1> HIDE DEF v, p, q
<1> QED BY <1>2, <1>6, <1>7

LEMMA ConvertedIs ==
  ASSUME NEW amount \in Int, NEW price \in Numerals
  PROVE  LET unit == PowerOfTen(Len(price.dec))
             exact == amount * Value(price.whole \o price.dec)
             converted == getConvertedAmount(amount, price)
         IN  /\ Abs(converted) * unit <= Abs(exact) /\ Abs(exact) < (Abs(converted) + 1) * unit
             /\ converted * exact >= 0
<1> DEFINE c == getConvertedAmount(amount, price)
           unit == PowerOfTen(Len(price.dec))
           worth == Value(price.whole \o price.dec)
           exact == amount * worth
<1>1. PICK v, p, q \in Nat : p # 0 /\ q # 0 /\ c = Div(amount * v, p) /\ unit = p * q /\ worth = v * q
  BY PriceIs
<1> DEFINE x == amount * v  m == Abs(x)  e == Abs(c)
<1> HIDE DEF c, unit, worth
<1>2. x \in Int /\ exact = x * q
  BY <1>1
<1> HIDE DEF x, exact
<1>3. /\ c \in Int
      /\ x >= 0 => c >= 0 /\ p * c <= x /\ x < p * c + p
      /\ x < 0 => c <= 0 /\ p * c - p < x /\ x <= p * c
  BY <1>1, <1>2, DivIs DEF x
<1>4. m \in Nat /\ e \in Nat /\ p * e <= m /\ m < p * (e + 1)
  <2>1. CASE x >= 0
    <3>1. m = x /\ e = c /\ p * (c + 1) = p * c + p
      BY <1>1, <1>2, <1>3, <2>1 DEF Abs
    <3> QED BY <1>2, <1>3, <2>1, <3>1
  <2>2. CASE x < 0
    <3>1. m = -x /\ e = -c /\ p * (-c) = -(p * c) /\ p * (-c + 1) = p - p * c /\ p * c \in Int
      BY <1>1, <1>2, <1>3, <2>2 DEF Abs
    <3> QED BY <1>1, <1>2, <1>3, <2>2, <3>1
  <2> QED BY <1>2, <2>1, <2>2
<1>5. Abs(exact) = q * m
  <2>1. CASE x >= 0
    <3>1. x * q >= 0 /\ x * q = q * x
      BY <1>1, <1>2, <2>1
    <3> QED BY <1>2, <2>1, <3>1 DEF Abs
  <2>2. CASE x < 0
    <3>1. -x \in Nat /\ (-x) # 0 /\ x * q = -(q * (-x))
      BY <1>1, <1>2, <2>2
    <3>2. q * (-x) >= 0 /\ q * (-x) \in Int
      BY <1>1, <3>1
    <3> QED BY <1>2, <2>2, <3>1, <3>2 DEF Abs
  <2> QED BY <1>2, <2>1, <2>2
<1>6. c * exact >= 0
  <2>1. CASE x >= 0
    <3>1. c \in Nat /\ x * q \in Nat
      BY <1>1, <1>2, <1>3, <2>1
    <3> QED BY <1>2, <3>1
  <2>2. CASE x < 0
    <3>1. -c \in Nat /\ -x \in Nat /\ (-x) * q \in Nat
      BY <1>1, <1>2, <1>3, <2>2
    <3>2. c * (x * q) = (-c) * ((-x) * q)
      BY <1>1, <1>2, <1>3
    <3>3. \A i, j \in Nat : i * j >= 0
      OBVIOUS
    <3> QED BY <1>2, <3>1, <3>2, <3>3
  <2> QED BY <1>2, <2>1, <2>2
<1> HIDE DEF m, e
<1>7. e * unit <= q * m /\ q * m < (e + 1) * unit
  <2>1. e * unit = q * (p * e) /\ (e + 1) * unit = q * (p * (e + 1)) /\ p * e \in Nat /\ p * (e + 1) \in Nat
    BY <1>1, <1>4
  <2>2. q * (p * e) <= q * m /\ q * m < q * (p * (e + 1))
    <3> DEFINE a == p * e  b == p * (e + 1)
    <3>1. a \in Nat /\ b \in Nat /\ a <= m /\ m < b /\ q \in Nat \ {0}
      BY <1>1, <1>4, <2>1
    <3> HIDE DEF a, b
    <3>2. q * a <= q * m /\ q * m < q * b
      BY <1>4, <3>1, SameFactor
    <3> QED BY <3>2 DEF a, b
  <2> QED BY <2>1, <2>2
<1> QED BY <1>5, <1>6, <1>7 DEF e, c, unit, exact, worth

LEMMA ConvertedOK == FiguresInv => ConvertedFloor
<1> SUFFICES ASSUME FiguresInv, NEW amount \in {figure.balance, figure.netFlow}
             PROVE  LET unit == PowerOfTen(Len(figure.price.dec))
                        exact == amount * Value(figure.price.whole \o figure.price.dec)
                        converted == getConvertedAmount(amount, figure.price)
                    IN  /\ Abs(converted) * unit <= Abs(exact) /\ Abs(exact) < (Abs(converted) + 1) * unit
                        /\ converted * exact >= 0
  BY DEF ConvertedFloor
<1>1. amount \in Int /\ figure.price \in Numerals
  BY FigureAssumption DEF FiguresInv
<1> QED BY <1>1, ConvertedIs DEF Abs

-----------------------------------------------------------------------------
(* The specification.                                                       *)

ViewsInv == StartInv /\ RatesInv /\ CarouselInv /\ FieldInv /\ BadgeInv /\ ListInv /\ FiguresInv

\* A step of one view is a step of it and leaves the others as they are.
LEMMA EachView ==
  ASSUME [Next]_vars
  PROVE  /\ [StartNext]_startVars /\ [ListNext]_listVars /\ [CardNext]_cardVars
         /\ [FigureNext]_figureVars /\ [FieldNext]_fieldVars /\ [BadgeNext]_badgeVars
<1>1. CASE InStart(StartNext)
  BY <1>1 DEF InStart, identityVars
<1>2. CASE InFlows(ListNext)
  BY <1>2 DEF InFlows, identityVars
<1>3. CASE InCards(CardNext)
  BY <1>3 DEF InCards, identityVars
<1>4. CASE InFigures(FigureNext)
  BY <1>4 DEF InFigures, identityVars
<1>5. CASE InField(FieldNext)
  <2>1. UNCHANGED badgeVars
    BY <1>5 DEF InField, FieldNext, handleSelectedClick, handleChange, ValueSet, handleSelect, SearchEnds, Change
  <2> QED BY <1>5, <2>1 DEF InField
<1>6. CASE InBadge(BadgeNext)
  <2>1. UNCHANGED fieldVars
    BY <1>6 DEF InBadge, BadgeNext, Shown, NameRead, handleModifyLocalIdentity, Resolved, Announced
  <2> QED BY <1>6, <2>1 DEF InBadge
<1>7. CASE UNCHANGED vars
  BY <1>7 DEF vars, identityVars
<1> QED BY <1>1, <1>2, <1>3, <1>4, <1>5, <1>6, <1>7 DEF Next

LEMMA ViewsAlways == Spec => []ViewsInv
<1>1. Init => ViewsInv
  <2> SUFFICES ASSUME Init PROVE ViewsInv
    OBVIOUS
  <2>1. FiguresInv
    BY DEF Init, FigureInit, FiguresInv
  <2> QED BY <2>1, StartInitOK, RatesInitOK, CarouselInitOK, FieldInitOK, BadgeInitOK, ListInitOK DEF Init, ViewsInv
<1>2. ViewsInv /\ [Next]_vars => ViewsInv'
  BY EachView, StartStep, RatesStep, CarouselStep, FieldStep, BadgeStep, ListStep, FiguresStep DEF ViewsInv
<1> QED BY <1>1, <1>2, PTL DEF Spec

\* Whatever is published, typed and answered, every view keeps its shape: the selected token is one of the
\* drop-down, the retry's delay is within its bounds, and the script counts its attempts.
THEOREM ViewsTypeCorrect == Spec => []TypeOK
<1>1. ViewsInv => TypeOK
  BY DEF ViewsInv, StartInv, RatesInv, ListInv, FiguresInv, TypeOK, ListTypeOK
<1> QED BY <1>1, ViewsAlways, PTL

\* useConvertRates: either a request for the listed tokens is in flight, or a retry waits, or the rates are
\* theirs, or an error was taken for rates and there are none; whatever is listed while requests are
\* cancelled, answered and repeated.
THEOREM RatesAreListed == Spec => []RatesFollow
<1>1. ViewsInv => RatesFollow
  BY DEF ViewsInv, RatesInv
<1> QED BY <1>1, ViewsAlways, PTL

\* Carousel: the visible items are all there, whatever its width and layout and however cards come and
\* go; the first one is before the first card only after a drag in a row with fewer cards than fit.
THEOREM CarouselInRange == Spec => []SelectionInRange
<1>1. ViewsInv => SelectionInRange
  <2> SUFFICES ASSUME CarouselInv, Items(published) > 0 PROVE SelectionInRange
    BY DEF ViewsInv, SelectionInRange
  <2>1. Stands(carousel, Items(published), shortDrag)
    BY ItemsAre DEF CarouselInv
  <2> QED BY <2>1 DEF Stands, Carousels, SelectionInRange
<1> QED BY <1>1, ViewsAlways, PTL

\* LocalIdentitiesAutoComplete: the person shown is the one whose address the form has.
THEOREM PersonIsValue == Spec => []SelectedIsValue
<1>1. ViewsInv => SelectedIsValue
  BY DEF ViewsInv, FieldInv, Selects, SelectedIsValue
<1> QED BY <1>1, ViewsAlways, PTL

\* useIdentity: a badge whose last answer is that to its last lookup shows the name that its address has
\* now, however many lookups there were and in whatever order the client read the names.
THEOREM BadgeIsName == Spec => []BadgeSettles
<1>1. ViewsInv => BadgeSettles
  BY DEF ViewsInv, BadgeInv, BadgeSettles
<1> QED BY <1>1, ViewsAlways, PTL

\* useFilteredFlows and the sorting of Flows: the list is exactly what the filters ask for, in its order.
THEOREM ListIsAsked == Spec => []ListedExactly
<1>1. ViewsInv => ListedExactly
  BY ListedOK DEF ViewsInv
<1> QED BY <1>1, ViewsAlways, PTL

\* The page that is shown exists, unless flows are filtered by state or the selected token has moved.
THEOREM PageIsThere == Spec => []PageExists
<1>1. ViewsInv => PageExists
  BY PageOK DEF ViewsInv
<1> QED BY <1>1, ViewsAlways, PTL

\* calculateDepletionDate: the balance runs out within a second of a date that Date can hold; a warning
\* that was computed in the last days is up, and one that is up is about a balance that runs out.
THEOREM DepletionIsDate == Spec => []DepletionWithin
<1>1. ViewsInv => DepletionWithin
  BY DepletionOK DEF ViewsInv
<1> QED BY <1>1, ViewsAlways, PTL

\* getConvertedAmount: the amount in the currency is the amount times the price, cut to whole units.
THEOREM ConversionIsExact == Spec => []ConvertedFloor
<1>1. ViewsInv => ConvertedFloor
  BY ConvertedOK DEF ViewsInv
<1> QED BY <1>1, ViewsAlways, PTL
=============================================================================
