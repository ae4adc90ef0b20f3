----------------------------- MODULE DataProofs -----------------------------
(***************************************************************************)
(* Lemmas about the data that several of the modules share.                *)
(*   - What the lists of the front end are, whatever they are filtered by  *)
(*     and sorted by: every entry that is kept has one place, and no place *)
(*     is empty.                                                           *)
(*   - What sums are: a fold over a set, whatever the order of its terms.  *)
(*   - What digits are worth, and that amounts keep their worth through    *)
(*     toDecimals and fromDecimals.                                        *)
(***************************************************************************)
EXTENDS Sublists, Decimals, FiniteSetsExt, FiniteSetTheorems, FunctionTheorems, SequenceTheorems,
        WellFoundedInduction, TLAPS

\* How many of P come before i in the order R.
Rank(P, R, i) == Cardinality({j \in P : <<j, i>> \in R})

\* R orders P strictly, one after the other.
Orders(P, R) ==
  /\ \A i \in P : <<i, i>> \notin R
  /\ \A i, j \in P : i = j \/ <<i, j>> \in R \/ <<j, i>> \in R
  /\ \A i, j, k \in P : <<i, j>> \in R /\ <<j, k>> \in R => <<i, k>> \in R

LEMMA RankGrows ==
  ASSUME NEW P, IsFiniteSet(P), NEW R, Orders(P, R), NEW i \in P, NEW j \in P, <<i, j>> \in R
  PROVE  Rank(P, R, i) < Rank(P, R, j)
<1> DEFINE before(x) == {y \in P : <<y, x>> \in R}
<1>1. before(i) \subseteq before(j) /\ i \in before(j) /\ i \notin before(i)
  BY DEF Orders
<1>2. IsFiniteSet(before(j)) /\ Cardinality(before(j)) \in Nat
  BY FS_Subset, FS_CardinalityType
<1>3. /\ Cardinality(before(i)) <= Cardinality(before(j)) /\ Cardinality(before(i)) \in Nat
      /\ Cardinality(before(j)) # Cardinality(before(i))
  <2> HIDE DEF before
  <2> QED BY <1>1, <1>2, FS_Subset, FS_CardinalityType
<1> QED BY <1>2, <1>3 DEF Rank

\* Every entry of a sorted list has its own place.
LEMMA Ranks ==
  ASSUME NEW P, IsFiniteSet(P), NEW R, Orders(P, R)
  PROVE  /\ Cardinality(P) \in Nat
         /\ \A i \in P : Rank(P, R, i) \in 0..Cardinality(P) - 1
         /\ \A i, j \in P : Rank(P, R, i) = Rank(P, R, j) => i = j
<1> DEFINE n == Cardinality(P)
<1>1. n \in Nat
  BY FS_CardinalityType
<1>2. ASSUME NEW i \in P PROVE Rank(P, R, i) \in 0..n - 1
  <2> DEFINE B == {j \in P : <<j, i>> \in R}
  <2>1. B \in SUBSET (P \ {i})
    BY DEF Orders
  <2>2. IsFiniteSet(P \ {i}) /\ Cardinality(P \ {i}) = n - 1
    BY FS_RemoveElement
  <2> HIDE DEF B
  <2>3. IsFiniteSet(B) /\ Cardinality(B) <= n - 1 /\ Cardinality(B) \in Nat
    BY <2>1, <2>2, FS_Subset, FS_CardinalityType
  <2> QED BY <1>1, <2>3 DEF Rank, B
<1>3. ASSUME NEW i \in P, NEW j \in P, Rank(P, R, i) = Rank(P, R, j) PROVE i = j
  <2>1. CASE <<i, j>> \in R
    BY <1>2, <1>3, <2>1, RankGrows
  <2>2. CASE <<j, i>> \in R
    BY <1>2, <1>3, <2>2, RankGrows
  <2> QED BY <2>1, <2>2 DEF Orders
<1> QED BY <1>1, <1>2, <1>3

\* Every place of a sorted list has its entry.
LEMMA RankTaken ==
  ASSUME NEW P, IsFiniteSet(P), NEW R, Orders(P, R), NEW k \in 0..Cardinality(P) - 1
  PROVE  \E i \in P : Rank(P, R, i) = k
<1> DEFINE n == Cardinality(P)
           f == [i \in P |-> Rank(P, R, i)]
<1>1. n \in Nat /\ IsFiniteSet(0..n - 1) /\ Cardinality(0..n - 1) = n
  BY FS_CardinalityType, FS_Interval
<1>2. f \in Injection(P, 0..n - 1)
  BY Ranks DEF Injection, IsInjective
<1>3. f \in Surjection(P, 0..n - 1)
  <2> HIDE DEF f, n
  <2> QED BY <1>1, <1>2, FS_Injection DEF n
<1>4. \E i \in P : f[i] = k
  BY <1>3 DEF Surjection
<1> QED BY <1>4

\* The k-th of P in the order R.
At(P, R, k) == CHOOSE i \in P : Rank(P, R, i) = k - 1

\* Every place of a sorted list has one entry, each entry a place, and they come in order.
LEMMA PlacesAre ==
  ASSUME NEW P, IsFiniteSet(P), NEW R, Orders(P, R)
  PROVE  /\ Cardinality(P) \in Nat
         /\ \A k \in 1..Cardinality(P) : At(P, R, k) \in P
         /\ \A i \in P : \E k \in 1..Cardinality(P) : At(P, R, k) = i
         /\ \A k, l \in 1..Cardinality(P) : k < l => <<At(P, R, k), At(P, R, l)>> \in R
<1> DEFINE n == Cardinality(P)
<1>1. /\ n \in Nat
      /\ \A i \in P : Rank(P, R, i) \in 0..n - 1
      /\ \A i, j \in P : Rank(P, R, i) = Rank(P, R, j) => i = j
  BY Ranks
<1>2. \A k \in 0..n - 1 : \E i \in P : Rank(P, R, i) = k
  BY RankTaken
<1> HIDE DEF n
<1>3. ASSUME NEW k \in 1..n PROVE At(P, R, k) \in P /\ Rank(P, R, At(P, R, k)) = k - 1
  <2>1. k - 1 \in 0..n - 1
    BY <1>1
  <2>2. \E i \in P : Rank(P, R, i) = k - 1
    BY <1>2, <2>1
  <2> QED BY <2>2 DEF At
<1>4. ASSUME NEW i \in P PROVE \E k \in 1..n : At(P, R, k) = i
  <2>1. Rank(P, R, i) + 1 \in 1..n /\ (Rank(P, R, i) + 1) - 1 = Rank(P, R, i)
    BY <1>1
  <2>2. Rank(P, R, At(P, R, Rank(P, R, i) + 1)) = Rank(P, R, i) /\ At(P, R, Rank(P, R, i) + 1) \in P
    BY <1>3, <2>1
  <2> QED BY <1>1, <2>1, <2>2
<1>5. ASSUME NEW k \in 1..n, NEW l \in 1..n, k < l PROVE <<At(P, R, k), At(P, R, l)>> \in R
  <2> DEFINE a == At(P, R, k)
             b == At(P, R, l)
  <2>1. a \in P /\ b \in P /\ Rank(P, R, a) = k - 1 /\ Rank(P, R, b) = l - 1
    BY <1>3
  <2> HIDE DEF a, b
  <2>2. a # b
    BY <1>1, <1>5, <2>1
  <2>3. <<b, a>> \notin R
    <3> SUFFICES ASSUME <<b, a>> \in R PROVE FALSE
      OBVIOUS
    <3>1. Rank(P, R, b) < Rank(P, R, a)
      BY <2>1, RankGrows
    <3> QED BY <1>1, <1>5, <2>1, <3>1
  <2>4. <<a, b>> \in R
    BY <2>1, <2>2, <2>3 DEF Orders
  <2> QED BY <2>4 DEF a, b
<1> QED BY <1>1, <1>3, <1>4, <1>5 DEF n

-----------------------------------------------------------------------------
(* Sublists.                                                                *)

\* The k-th position is one of P, each position is some k-th one, and they come in order.
LEMMA KthIs ==
  ASSUME NEW P \in SUBSET Nat, IsFiniteSet(P)
  PROVE  /\ Cardinality(P) \in Nat
         /\ \A k \in 1..Cardinality(P) : Kth(P, k) \in P
         /\ \A i \in P : \E k \in 1..Cardinality(P) : Kth(P, k) = i
         /\ \A k, l \in 1..Cardinality(P) : k < l => Kth(P, k) < Kth(P, l)
<1> DEFINE R == {x \in P \X P : x[1] < x[2]}
           n == Cardinality(P)
<1>1. Orders(P, R)
  BY DEF Orders
<1>2. ASSUME NEW i \in P PROVE Cardinality({j \in P : j < i}) = Rank(P, R, i)
  <2>1. {j \in P : j < i} = {j \in P : <<j, i>> \in R}
    OBVIOUS
  <2> QED BY <2>1 DEF Rank
<1>3. \A i, j \in P : <<i, j>> \in R <=> i < j
  OBVIOUS
<1> HIDE DEF R
<1>4. ASSUME NEW k PROVE Kth(P, k) = At(P, R, k)
  BY <1>2 DEF Kth, At
<1>5. n \in Nat
  BY <1>1, PlacesAre
<1>6. \A k \in 1..n : At(P, R, k) \in P
  BY <1>1, PlacesAre
<1>7. \A i \in P : \E k \in 1..n : At(P, R, k) = i
  BY <1>1, PlacesAre
<1>8. \A k, l \in 1..n : k < l => <<At(P, R, k), At(P, R, l)>> \in R
  BY <1>1, PlacesAre
<1> QED BY <1>3, <1>4, <1>5, <1>6, <1>7, <1>8

\* A filtered list has as many entries as were kept, each of them an entry that was kept, and
\* every entry that was kept is in it.
LEMMA SublistIs ==
  ASSUME NEW s, NEW P \in SUBSET Nat, IsFiniteSet(P)
  PROVE  /\ Cardinality(P) \in Nat /\ Len(Sublist(s, P)) = Cardinality(P)
         /\ DOMAIN Sublist(s, P) = 1..Cardinality(P)
         /\ \A k \in 1..Cardinality(P) : \E i \in P : Sublist(s, P)[k] = s[i]
         /\ \A i \in P : \E k \in 1..Cardinality(P) : Sublist(s, P)[k] = s[i]
<1>1. Cardinality(P) \in Nat
  BY KthIs
<1>2. Len(Sublist(s, P)) = Cardinality(P) /\ DOMAIN Sublist(s, P) = 1..Cardinality(P)
  BY <1>1 DEF Sublist
<1> QED BY <1>1, <1>2, KthIs DEF Sublist

\* Fewer positions, a shorter list.
LEMMA SublistShorter ==
  ASSUME NEW s, NEW Q \in SUBSET Nat, IsFiniteSet(Q), NEW P \in SUBSET Q
  PROVE  IsFiniteSet(P) /\ Len(Sublist(s, P)) <= Len(Sublist(s, Q))
<1>1. IsFiniteSet(P) /\ Cardinality(P) <= Cardinality(Q)
  BY FS_Subset
<1> QED BY <1>1, SublistIs
LEMMA PositionsFinite ==
  ASSUME NEW T, NEW list \in Seq(T), NEW P \in SUBSET DOMAIN list
  PROVE  P \in SUBSET Nat /\ IsFiniteSet(P) /\ Cardinality(P) <= Len(list)
<1> DEFINE n == Len(list)
<1>1. n \in Nat /\ P \in SUBSET (1..n)
  OBVIOUS
<1> HIDE DEF n
<1>2. IsFiniteSet(1..n) /\ Cardinality(1..n) = n
  BY <1>1, FS_Interval
<1>3. IsFiniteSet(P) /\ Cardinality(P) <= n
  BY <1>1, <1>2, FS_Subset
<1> QED BY <1>1, <1>3 DEF n

\* The list of those entries that are in S.
LEMMA KeptOf ==
  ASSUME NEW T, NEW list \in Seq(T), NEW S
  PROVE  /\ Len(Kept(list, S)) \in Nat /\ Len(Kept(list, S)) <= Len(list)
         /\ DOMAIN Kept(list, S) = 1..Len(Kept(list, S))
         /\ \A k \in 1..Len(Kept(list, S)) : Kept(list, S)[k] \in S
         /\ \A i \in DOMAIN list :
              list[i] \in S => \E k \in 1..Len(Kept(list, S)) : Kept(list, S)[k] = list[i]
<1> DEFINE P == {i \in DOMAIN list : list[i] \in S}
           kept == Sublist(list, P)
<1>1. Len(list) \in Nat /\ P \in SUBSET DOMAIN list
  OBVIOUS
<1>2. \A i \in P : list[i] \in S
  OBVIOUS
<1> HIDE DEF P
<1>3. P \in SUBSET Nat
  BY <1>1, PositionsFinite
<1>4. IsFiniteSet(P) /\ Cardinality(P) <= Len(list)
  BY <1>1, PositionsFinite
<1>5. Len(kept) = Cardinality(P) /\ Cardinality(P) \in Nat /\ DOMAIN kept = 1..Len(kept)
  BY <1>3, <1>4, SublistIs
<1>6. \A k \in 1..Len(kept) : kept[k] \in S
  <2>1. \A k \in 1..Cardinality(P) : \E i \in P : kept[k] = list[i]
    BY <1>3, <1>4, SublistIs
  <2> HIDE DEF kept
  <2> QED BY <1>2, <1>5, <2>1
<1>7. \A i \in P : \E k \in 1..Len(kept) : kept[k] = list[i]
  <2>1. \A i \in P : \E k \in 1..Cardinality(P) : kept[k] = list[i]
    BY <1>3, <1>4, SublistIs
  <2> QED BY <1>5, <2>1
<1>8. \A i \in DOMAIN list : list[i] \in S => i \in P
  BY DEF P
<1> HIDE DEF kept
<1>9. \A i \in DOMAIN list : list[i] \in S => \E k \in 1..Len(kept) : kept[k] = list[i]
  BY <1>7, <1>8
<1>10. Kept(list, S) = kept
  BY DEF Kept, kept, P
<1> QED BY <1>4, <1>5, <1>6, <1>9, <1>10

LEMMA KeptLonger ==
  ASSUME NEW T, NEW list \in Seq(T), NEW U, NEW S \in SUBSET U
  PROVE  Len(Kept(list, S)) <= Len(Kept(list, U))
<1> DEFINE P == {i \in DOMAIN list : list[i] \in S}
           Q == {i \in DOMAIN list : list[i] \in U}
<1>1. P \in SUBSET Q
  OBVIOUS
<1>2. Q \in SUBSET Nat /\ IsFiniteSet(Q)
  BY PositionsFinite
<1> HIDE DEF P, Q
<1>3. Len(Sublist(list, P)) <= Len(Sublist(list, Q))
  BY <1>1, <1>2, SublistShorter
<1> QED BY <1>3 DEF P, Q, Kept

LEMMA KeptList ==
  ASSUME NEW T, NEW list \in Seq(T), NEW S
  PROVE  Kept(list, S) \in Seq(S)
<1> DEFINE kept == Kept(list, S)
<1>1. Len(kept) \in Nat /\ DOMAIN kept = 1..Len(kept) /\ \A k \in 1..Len(kept) : kept[k] \in S
  BY KeptOf
<1>2. kept = [k \in 1..Len(kept) |-> kept[k]]
  BY <1>1 DEF Kept, Sublist
<1> HIDE DEF kept
<1>3. kept \in Seq(S)
  BY <1>1, <1>2
<1> QED BY <1>3 DEF kept

-----------------------------------------------------------------------------
(* Induction, as the smallest counterexample.                               *)

LEMMA LeastOf ==
  ASSUME NEW B, B \subseteq Nat, B # {}
  PROVE  \E x \in B : \A y \in B : x <= y
<1> DEFINE R == OpToRel(<, Nat)
<1>0. IsWellFoundedOn(R, Nat)
  BY NatLessThanWellFounded
<1>1. \A x, y \in Nat : x < y => <<x, y>> \in R
  BY DEF OpToRel
<1> HIDE DEF R
<1>2. \E x \in B : \A y \in B : ~(<<y, x>> \in R)
  BY <1>0, WFMin
<1>3. PICK x \in B : \A y \in B : ~(<<y, x>> \in R)
  BY <1>2
<1>4. ASSUME NEW y \in B PROVE x <= y
  <2>1. ~(<<y, x>> \in R) /\ x \in Nat /\ y \in Nat
    BY <1>3
  <2>2. ~(y < x)
    BY <1>1, <2>1
  <2> QED BY <2>1, <2>2
<1> QED BY <1>3, <1>4

\* A set of natural numbers with 0 and with the successor of each of its members has all of them.
LEMMA Induction ==
  ASSUME NEW S, 0 \in S, \A n \in Nat : n \in S => n + 1 \in S
  PROVE  \A n \in Nat : n \in S
<1> SUFFICES ASSUME NEW k \in Nat, k \notin S PROVE FALSE
  OBVIOUS
<1> DEFINE B == Nat \ S
<1>1. B \subseteq Nat /\ B # {}
  OBVIOUS
<1>2. PICK x \in B : \A y \in B : x <= y
  <2> HIDE DEF B
  <2> QED BY <1>1, LeastOf
<1>3. x \in Nat /\ x # 0 /\ x \notin S
  OBVIOUS
<1>4. x - 1 \in Nat /\ x - 1 \in S
  <2>1. x - 1 \in Nat /\ ~(x <= x - 1)
    BY <1>3
  <2> QED BY <1>2, <2>1
<1>5. (x - 1) + 1 = x
  BY <1>3
<1> QED BY <1>3, <1>4, <1>5

\* Among finite sets there is one with the fewest elements: all its proper subsets are not among them.
LEMMA SmallestOf ==
  ASSUME NEW B, B # {}, \A s \in B : IsFiniteSet(s)
  PROVE  \E s \in B : \A u \in SUBSET s : u # s => u \notin B
<1> DEFINE N == {Cardinality(s) : s \in B}
<1>1. N \subseteq Nat /\ N # {}
  BY FS_CardinalityType
<1>2. PICK n \in N : \A m \in N : n <= m
  BY <1>1, LeastOf
<1>3. PICK s \in B : Cardinality(s) = n
  OBVIOUS
<1>4. ASSUME NEW u \in SUBSET s, u # s, u \in B PROVE FALSE
  <2>1. Cardinality(u) < Cardinality(s)
    <3>1. IsFiniteSet(s) /\ Cardinality(s) \in Nat /\ Cardinality(u) \in Nat
      BY <1>4, FS_CardinalityType
    <3>2. Cardinality(u) <= Cardinality(s) /\ Cardinality(s) # Cardinality(u)
      BY <1>4, <3>1, FS_Subset
    <3> QED BY <3>1, <3>2
  <2>2. n <= Cardinality(u) /\ n \in Nat /\ Cardinality(u) \in Nat
    BY <1>1, <1>2, <1>4
  <2> QED BY <1>3, <2>1, <2>2
<1> QED BY <1>3, <1>4

-----------------------------------------------------------------------------
(* SumFunctionOnSet takes its terms in an order CHOOSE gives.               *)

Some(s) == CHOOSE x \in s : TRUE

\* g[s] is the sum of f over s, for the subsets s of S.
IsTally(g, f, S) ==
  g = [s \in SUBSET S |-> IF s = {} THEN 0 ELSE f[Some(s)] + g[s \ {Some(s)}]]

LEMMA SomeOf == ASSUME NEW s, s # {} PROVE Some(s) \in s
  BY DEF Some

LEMMA TallyAt ==
  ASSUME NEW g, NEW f, NEW S, IsTally(g, f, S), NEW s \in SUBSET S
  PROVE  g[s] = IF s = {} THEN 0 ELSE f[Some(s)] + g[s \ {Some(s)}]
<1> DEFINE h == [u \in SUBSET S |-> IF u = {} THEN 0 ELSE f[Some(u)] + g[u \ {Some(u)}]]
<1>1. h[s] = IF s = {} THEN 0 ELSE f[Some(s)] + g[s \ {Some(s)}]
  OBVIOUS
<1>2. g = h
  BY DEF IsTally
<1> HIDE DEF h
<1> QED BY <1>1, <1>2

LEMMA TallyUnique ==
  ASSUME NEW f, NEW g, NEW S, IsTally(g, f, S), NEW h, NEW T, IsTally(h, f, T),
         NEW s \in SUBSET S, s \in SUBSET T, IsFiniteSet(s)
  PROVE  g[s] = h[s]
<1> DEFINE B == {u \in SUBSET s : g[u] # h[u]}
<1> SUFFICES ASSUME B # {} PROVE FALSE
  OBVIOUS
<1>1. PICK u \in B : \A w \in SUBSET u : w # u => w \notin B
  <2>1. \A w \in B : IsFiniteSet(w)
    BY FS_Subset
  <2> HIDE DEF B
  <2> QED BY <2>1, SmallestOf
<1>2. u \in SUBSET S /\ u \in SUBSET T /\ u \in SUBSET s /\ g[u] # h[u]
  OBVIOUS
<1>3. u # {}
  BY <1>2, TallyAt
<1> DEFINE w == u \ {Some(u)}
<1>4. w \in SUBSET u /\ w # u
  BY <1>3, SomeOf
<1>5. g[w] = h[w]
  <2>1. w \in SUBSET s
    BY <1>2, <1>4
  <2> QED BY <1>1, <1>4, <2>1
<1>6. g[u] = f[Some(u)] + g[w] /\ h[u] = f[Some(u)] + h[w]
  BY <1>2, <1>3, TallyAt
<1> QED BY <1>2, <1>5, <1>6

LEMMA TallyExists == ASSUME NEW f, NEW S, IsFiniteSet(S) PROVE \E g : IsTally(g, f, S)
<1> DEFINE B == {u \in SUBSET S : ~\E g : IsTally(g, f, u)}
<1> SUFFICES ASSUME B # {} PROVE FALSE
  OBVIOUS
<1>1. PICK u \in B : \A w \in SUBSET u : w # u => w \notin B
  <2>1. \A w \in B : IsFiniteSet(w)
    BY FS_Subset
  <2> HIDE DEF B
  <2> QED BY <2>1, SmallestOf
<1>2. u \in SUBSET S /\ IsFiniteSet(u) /\ ~\E g : IsTally(g, f, u)
  BY FS_Subset
<1>3. \A w \in SUBSET u : w # u => \E g : IsTally(g, f, w)
  BY <1>1, <1>2
<1> HIDE DEF B
<1> DEFINE t(w) == CHOOSE g : IsTally(g, f, w)
           e(w) == t(w)[w]
           G == [w \in SUBSET u |-> IF w = {} THEN 0 
                                    ELSE IF w # u THEN e(w)
                                    ELSE f[Some(w)] + e(w \ {Some(w)})]
<1>4. \A w \in SUBSET u : w # u => IsTally(t(w), f, w)
  BY <1>3
<1> HIDE DEF t
<1>5. \A w \in SUBSET u : w = {} /\ w # u => e(w) = 0
  BY <1>4, TallyAt
<1>6. ASSUME NEW w \in SUBSET u, w # {}
      PROVE  G[w] = f[Some(w)] + G[w \ {Some(w)}]
  <2> DEFINE v == w \ {Some(w)}
  <2>1. v \in SUBSET w /\ v # w /\ v \in SUBSET u /\ v # u
    BY <1>6, SomeOf
  <2>2. G[v] = e(v)
    BY <1>5, <2>1
  <2>3. CASE w = u
    BY <1>6, <2>2, <2>3
  <2>4. CASE w # u
    <3>1. G[w] = e(w)
      BY <1>6, <2>4
    <3>2. IsTally(t(w), f, w) /\ IsTally(t(v), f, v) /\ IsFiniteSet(v)
      BY <1>2, <1>4, <2>1, <2>4, FS_Subset
    <3>3. t(w)[w] = f[Some(w)] + t(w)[v]
      BY <1>6, <3>2, TallyAt
    <3>4. t(w)[v] = t(v)[v]
      BY <2>1, <3>2, TallyUnique
    <3> QED BY <2>2, <3>1, <3>3, <3>4
  <2> QED BY <2>3, <2>4
<1>7. G = [w \in SUBSET u |-> IF w = {} THEN 0 ELSE f[Some(w)] + G[w \ {Some(w)}]]
  <2>1. \A w \in SUBSET u : G[w] = IF w = {} THEN 0 ELSE f[Some(w)] + G[w \ {Some(w)}]
    BY <1>6
  <2>2. G = [w \in SUBSET u |-> G[w]]
    OBVIOUS
  <2> HIDE DEF G
  <2> QED BY <2>1, <2>2
<1> QED BY <1>2, <1>7 DEF IsTally

LEMMA SumIsTally ==
  ASSUME NEW f, NEW S
  PROVE  SumFunctionOnSet(f, S) = (CHOOSE g : IsTally(g, f, S))[S]
BY Zenon DEF SumFunctionOnSet, FoldFunctionOnSet, MapThenFoldSet, IsTally, Some

LEMMA SumFirst ==
  ASSUME NEW f, NEW S, IsFiniteSet(S)
  PROVE  SumFunctionOnSet(f, S) =
           IF S = {} THEN 0 ELSE f[Some(S)] + SumFunctionOnSet(f, S \ {Some(S)})
<1> DEFINE t(w) == CHOOSE g : IsTally(g, f, w)
           T == S \ {Some(S)}
<1>1. IsFiniteSet(T) /\ T \in SUBSET S
  BY FS_Subset
<1>2. IsTally(t(S), f, S) /\ IsTally(t(T), f, T)
  BY <1>1, TallyExists
<1>3. SumFunctionOnSet(f, S) = t(S)[S] /\ SumFunctionOnSet(f, T) = t(T)[T]
  BY SumIsTally
<1> HIDE DEF t
<1>4. t(S)[T] = t(T)[T]
  BY <1>1, <1>2, TallyUnique
<1>5. t(S)[S] = IF S = {} THEN 0 ELSE f[Some(S)] + t(S)[T]
  BY <1>2, TallyAt
<1> QED BY <1>3, <1>4, <1>5

LEMMA SumOfNone == ASSUME NEW f PROVE SumFunctionOnSet(f, {}) = 0
  BY SumFirst, FS_EmptySet

LEMMA SumType ==
  ASSUME NEW f, NEW S, IsFiniteSet(S), \A x \in S : f[x] \in Int
  PROVE  SumFunctionOnSet(f, S) \in Int
<1> DEFINE B == {u \in SUBSET S : SumFunctionOnSet(f, u) \notin Int}
<1> SUFFICES ASSUME B # {} PROVE FALSE
  OBVIOUS
<1>1. PICK u \in B : \A w \in SUBSET u : w # u => w \notin B
  <2>1. \A w \in B : IsFiniteSet(w)
    BY FS_Subset
  <2> HIDE DEF B
  <2> QED BY <2>1, SmallestOf
<1>2. u \in SUBSET S /\ IsFiniteSet(u) /\ SumFunctionOnSet(f, u) \notin Int
  BY FS_Subset
<1>3. u # {}
  BY <1>2, SumOfNone
<1> DEFINE w == u \ {Some(u)}
<1>4. w \in SUBSET u /\ w # u /\ f[Some(u)] \in Int /\ w \in SUBSET S
  BY <1>2, <1>3, SomeOf
<1>5. SumFunctionOnSet(f, w) \in Int
  BY <1>1, <1>4
<1>6. SumFunctionOnSet(f, u) = f[Some(u)] + SumFunctionOnSet(f, w)
  BY <1>2, <1>3, SumFirst
<1> HIDE DEF w
<1> QED BY <1>2, <1>4, <1>5, <1>6

LEMMA SumSame ==
  ASSUME NEW f, NEW h, NEW S, IsFiniteSet(S), \A x \in S : f[x] = h[x]
  PROVE  SumFunctionOnSet(f, S) = SumFunctionOnSet(h, S)
<1> DEFINE B == {u \in SUBSET S : SumFunctionOnSet(f, u) # SumFunctionOnSet(h, u)}
<1> SUFFICES ASSUME B # {} PROVE FALSE
  OBVIOUS
<1>1. PICK u \in B : \A w \in SUBSET u : w # u => w \notin B
  <2>1. \A w \in B : IsFiniteSet(w)
    BY FS_Subset
  <2> HIDE DEF B
  <2> QED BY <2>1, SmallestOf
<1>2. u \in SUBSET S /\ IsFiniteSet(u) /\ SumFunctionOnSet(f, u) # SumFunctionOnSet(h, u)
  BY FS_Subset
<1>3. u # {}
  BY <1>2, SumOfNone
<1> DEFINE w == u \ {Some(u)}
<1>4. w \in SUBSET u /\ w # u /\ f[Some(u)] = h[Some(u)] /\ w \in SUBSET S
  BY <1>2, <1>3, SomeOf
<1>5. SumFunctionOnSet(f, w) = SumFunctionOnSet(h, w)
  BY <1>1, <1>4
<1>6. /\ SumFunctionOnSet(f, u) = f[Some(u)] + SumFunctionOnSet(f, w)
      /\ SumFunctionOnSet(h, u) = h[Some(u)] + SumFunctionOnSet(h, w)
  BY <1>2, <1>3, SumFirst
<1> QED BY <1>2, <1>4, <1>5, <1>6

\* Any one of the terms may be taken out of a sum.
LEMMA SumLess ==
  ASSUME NEW f, NEW S, IsFiniteSet(S), \A x \in S : f[x] \in Int, NEW x \in S
  PROVE  SumFunctionOnSet(f, S) = f[x] + SumFunctionOnSet(f, S \ {x})
<1> DEFINE Sum(u) == SumFunctionOnSet(f, u)
           B == {u \in SUBSET S : \E y \in u : Sum(u) # f[y] + Sum(u \ {y})}
<1> SUFFICES ASSUME B # {} PROVE FALSE
  OBVIOUS
<1>1. PICK u \in B : \A w \in SUBSET u : w # u => w \notin B
  <2>1. \A w \in B : IsFiniteSet(w)
    BY FS_Subset
  <2> HIDE DEF B
  <2> QED BY <2>1, SmallestOf
<1>2. u \in SUBSET S /\ IsFiniteSet(u) /\ \E y \in u : Sum(u) # f[y] + Sum(u \ {y})
  BY FS_Subset
<1>3. PICK y \in u : Sum(u) # f[y] + Sum(u \ {y})
  BY <1>2
<1> DEFINE z == Some(u)
<1>4. z \in u /\ Sum(u) = f[z] + Sum(u \ {z})
  BY <1>2, <1>3, SomeOf, SumFirst
<1> HIDE DEF z
<1>5. z # y
  BY <1>3, <1>4
<1>6. /\ \A a \in u \ {z} : Sum(u \ {z}) = f[a] + Sum((u \ {z}) \ {a})
      /\ \A a \in u \ {y} : Sum(u \ {y}) = f[a] + Sum((u \ {y}) \ {a})
  <2>1. u \ {z} \in SUBSET u /\ u \ {z} # u /\ u \ {y} \in SUBSET u /\ u \ {y} # u
    BY <1>4
  <2>2. u \ {z} \notin B /\ u \ {y} \notin B
    BY <1>1, <2>1
  <2>3. u \ {z} \in SUBSET S /\ u \ {y} \in SUBSET S
    BY <1>2
  <2> HIDE DEF Sum
  <2> QED BY <2>2, <2>3
<1> DEFINE v == u \ {y, z}
<1>7. (u \ {z}) \ {y} = v /\ (u \ {y}) \ {z} = v
  OBVIOUS
<1>8. Sum(u \ {z}) = f[y] + Sum(v) /\ Sum(u \ {y}) = f[z] + Sum(v)
  <2> HIDE DEF Sum, v
  <2> QED BY <1>4, <1>5, <1>6, <1>7
<1>9. Sum(v) \in Int /\ f[y] \in Int /\ f[z] \in Int
  <2>1. IsFiniteSet(v) /\ \A a \in v : f[a] \in Int
    BY <1>2, FS_Subset
  <2> QED BY <1>2, <1>4, <2>1, SumType
<1> HIDE DEF Sum, v
<1> QED BY <1>3, <1>4, <1>8, <1>9

LEMMA SumMore ==
  ASSUME NEW f, NEW S, IsFiniteSet(S), NEW x, x \notin S, \A y \in S \cup {x} : f[y] \in Int
  PROVE  SumFunctionOnSet(f, S \cup {x}) = SumFunctionOnSet(f, S) + f[x]
<1> DEFINE T == S \cup {x}
<1>1. IsFiniteSet(T) /\ T \ {x} = S /\ x \in T
  BY FS_AddElement
<1> HIDE DEF T
<1>2. SumFunctionOnSet(f, T) = f[x] + SumFunctionOnSet(f, T \ {x})
  BY <1>1, SumLess DEF T
<1>3. SumFunctionOnSet(f, S) \in Int /\ f[x] \in Int
  BY SumType
<1>4. \A a, b \in Int : a + b = b + a
  OBVIOUS
<1>5. SumFunctionOnSet(f, T) = f[x] + SumFunctionOnSet(f, S)
  BY <1>1, <1>2
<1> QED BY <1>3, <1>4, <1>5, Zenon DEF T

\* The terms that are zero may be left out.
LEMMA SumNonzero ==
  ASSUME NEW f, NEW S, IsFiniteSet(S), \A x \in S : f[x] \in Int,
         NEW T \in SUBSET S, \A x \in S \ T : f[x] = 0
  PROVE  SumFunctionOnSet(f, S) = SumFunctionOnSet(f, T)
<1> DEFINE Sum(u) == SumFunctionOnSet(f, u)
           B == {u \in SUBSET S : T \subseteq u /\ Sum(u) # Sum(T)}
<1> SUFFICES ASSUME B # {} PROVE FALSE
  OBVIOUS
<1>1. PICK u \in B : \A w \in SUBSET u : w # u => w \notin B
  <2>1. \A w \in B : IsFiniteSet(w)
    BY FS_Subset
  <2> HIDE DEF B
  <2> QED BY <2>1, SmallestOf
<1>2. u \in SUBSET S /\ IsFiniteSet(u) /\ T \subseteq u /\ Sum(u) # Sum(T)
  BY FS_Subset
<1>3. PICK x \in u : x \notin T
  <2>1. u # T
    BY <1>2
  <2> HIDE DEF B
  <2> QED BY <1>2, <2>1
<1>4. Sum(u) = f[x] + Sum(u \ {x}) /\ f[x] = 0
  BY <1>2, <1>3, SumLess
<1>5. Sum(u \ {x}) = Sum(T)
  <2>1. u \ {x} \in SUBSET u /\ u \ {x} # u /\ u \ {x} \in SUBSET S /\ T \subseteq u \ {x}
    BY <1>2, <1>3
  <2> HIDE DEF Sum
  <2> QED BY <1>1, <2>1
<1>6. Sum(T) \in Int
  <2>1. IsFiniteSet(T) /\ \A y \in T : f[y] \in Int
    BY FS_Subset
  <2> QED BY <2>1, SumType
<1> HIDE DEF Sum
<1> QED BY <1>2, <1>4, <1>5, <1>6

\* A sum over places is the sum over what is at them, when no two places have the same.
LEMMA SumImage ==
  ASSUME NEW f, NEW h, NEW S, IsFiniteSet(S), NEW m,
         \A x, y \in S : m[x] = m[y] => x = y,
         \A x \in S : f[x] \in Int /\ f[x] = h[m[x]]
  PROVE  /\ IsFiniteSet({m[x] : x \in S})
         /\ SumFunctionOnSet(f, S) = SumFunctionOnSet(h, {m[x] : x \in S})
<1> DEFINE I(u) == {m[x] : x \in u}
           B == {u \in SUBSET S :
                   ~(IsFiniteSet(I(u)) /\ SumFunctionOnSet(f, u) = SumFunctionOnSet(h, I(u)))}
<1> SUFFICES ASSUME B # {} PROVE FALSE
  OBVIOUS
<1>1. PICK u \in B : \A w \in SUBSET u : w # u => w \notin B
  <2>1. \A w \in B : IsFiniteSet(w)
    BY FS_Subset
  <2> HIDE DEF B
  <2> QED BY <2>1, SmallestOf
<1>2. /\ u \in SUBSET S /\ IsFiniteSet(u)
      /\ ~(IsFiniteSet(I(u)) /\ SumFunctionOnSet(f, u) = SumFunctionOnSet(h, I(u)))
  BY FS_Subset
<1>3. u # {}
  <2>1. I({}) = {}
    OBVIOUS
  <2> QED BY <1>2, <2>1, SumOfNone, FS_EmptySet
<1>4. PICK x \in u : TRUE
  BY <1>3
<1> DEFINE w == u \ {x}
<1>5. w \in SUBSET u /\ w # u /\ w \in SUBSET S /\ IsFiniteSet(w)
  BY <1>2, FS_Subset
<1>6. IsFiniteSet(I(w)) /\ SumFunctionOnSet(f, w) = SumFunctionOnSet(h, I(w))
  BY <1>1, <1>5
<1>7. I(u) = I(w) \cup {m[x]} /\ m[x] \notin I(w)
  BY <1>2
<1>8. IsFiniteSet(I(u))
  <2> HIDE DEF I, w
  <2> QED BY <1>6, <1>7, FS_AddElement
<1>9. SumFunctionOnSet(f, u) = f[x] + SumFunctionOnSet(f, w)
  BY <1>2, SumLess
<1>10. SumFunctionOnSet(h, I(u)) = SumFunctionOnSet(h, I(w)) + h[m[x]]
  <2>1. \A y \in I(w) \cup {m[x]} : h[y] \in Int
    BY <1>2
  <2> HIDE DEF I, w
  <2> QED BY <1>6, <1>7, <2>1, SumMore
<1>11. SumFunctionOnSet(f, w) \in Int
  BY <1>5, SumType
<1> HIDE DEF I, w
<1> QED BY <1>2, <1>6, <1>8, <1>9, <1>10, <1>11

\* A sum over an interval grows by n with every place at which there is n.
LEMMA SumSteady ==
  ASSUME NEW f, NEW c \in Int, NEW l \in Int, NEW b \in Int, c <= l, l <= b, NEW n \in Int,
         \A x \in c..(b - 1) : f[x] \in Int,
         \A x \in l..(b - 1) : f[x] = n
  PROVE  SumFunctionOnSet(f, c..(b - 1)) = SumFunctionOnSet(f, c..(l - 1)) + (b - l) * n
<1> DEFINE Sum(m) == SumFunctionOnSet(f, c..(l + m - 1))
           B == {m \in 0..(b - l) : Sum(m) # Sum(0) + m * n}
<1>1. B = {}
  <2> SUFFICES ASSUME B # {} PROVE FALSE
    OBVIOUS
  <2>1. B \subseteq Nat
    OBVIOUS
  <2>2. PICK m \in B : \A k \in B : m <= k
    <3> HIDE DEF B
    <3> QED BY <2>1, LeastOf
  <2>3. m \in 0..(b - l) /\ Sum(m) # Sum(0) + m * n
    OBVIOUS
  <2>4. Sum(0) \in Int
    <3>1. IsFiniteSet(c..(l + 0 - 1)) /\ \A x \in c..(l + 0 - 1) : f[x] \in Int
      BY FS_Interval
    <3> QED BY <3>1, SumType
  <2>5. m # 0
    <3> HIDE DEF Sum
    <3> QED BY <2>3, <2>4
  <2>6. m - 1 \in 0..(b - l) /\ m - 1 \notin B
    <3>1. m - 1 \in 0..(b - l) /\ m \in Int
      <4> HIDE DEF Sum
      <4> QED BY <2>3, <2>5
    <3>2. m - 1 \notin B
      <4> HIDE DEF B
      <4> QED BY <2>2, <3>1
    <3> QED BY <3>1, <3>2
  <2>7. Sum(m - 1) = Sum(0) + (m - 1) * n
    <3> HIDE DEF Sum
    <3> QED BY <2>6
  <2> DEFINE S == c..(l + (m - 1) - 1)
             y == l + m - 1
  <2>8. /\ c..(l + m - 1) = S \cup {y} /\ y \notin S /\ f[y] = n
        /\ \A x \in S \cup {y} : f[x] \in Int
    <3>1. m \in Int /\ 1 <= m /\ m <= b - l
      <4> HIDE DEF Sum
      <4> QED BY <2>3, <2>5
    <3> HIDE DEF Sum, B
    <3>2. y \in Int /\ c <= y /\ l <= y /\ y <= b - 1 /\ S = c..(y - 1)
      BY <3>1
    <3> HIDE DEF S, y
    <3>3. c..y = S \cup {y} /\ y \notin S
      BY <3>2
    <3>4. f[y] = n
      BY <3>2
    <3>5. \A x \in c..y : f[x] \in Int
      BY <3>2
    <3>6. c..(l + m - 1) = c..y
      BY DEF y
    <3> QED BY <3>3, <3>4, <3>5, <3>6
  <2>9. IsFiniteSet(S)
    BY <2>3, FS_Interval
  <2>10. Sum(m) = Sum(m - 1) + n
    <3> HIDE DEF y
    <3>1. SumFunctionOnSet(f, S \cup {y}) = SumFunctionOnSet(f, S) + f[y]
      <4> HIDE DEF S
      <4> QED BY <2>8, <2>9, SumMore
    <3> QED BY <2>8, <3>1
  <2> HIDE DEF Sum
  <2>11. (m - 1) * n = m * n - n
    BY <2>3
  <2>12. m * n \in Int
    BY <2>3
  <2> QED BY <2>3, <2>4, <2>7, <2>10, <2>11, <2>12
<1>2. b - l \in 0..(b - l) /\ l + (b - l) - 1 = b - 1 /\ l + 0 - 1 = l - 1
  OBVIOUS
<1>3. Sum(b - l) = Sum(0) + (b - l) * n
  <2> HIDE DEF Sum
  <2> QED BY <1>1, <1>2
<1> QED BY <1>2, <1>3

-----------------------------------------------------------------------------
(* Digits and what they are worth.                                          *)

\* v[i] is what n becomes with the first i digits behind it.
IsReading(v, n, digits, k) ==
  v = [i \in 0..k |-> IF i = 0 THEN n ELSE 10 * v[i - 1] + digits[i]]

LEMMA ReadingAt ==
  ASSUME NEW n, NEW digits, NEW k, NEW v, IsReading(v, n, digits, k), NEW i \in 0..k
  PROVE  v[i] = IF i = 0 THEN n ELSE 10 * v[i - 1] + digits[i]
<1> DEFINE h == [j \in 0..k |-> IF j = 0 THEN n ELSE 10 * v[j - 1] + digits[j]]
<1>1. h[i] = IF i = 0 THEN n ELSE 10 * v[i - 1] + digits[i]
  OBVIOUS
<1>2. v = h
  BY DEF IsReading
<1> HIDE DEF h
<1> QED BY <1>1, <1>2

LEMMA ReadingExists ==
  ASSUME NEW n \in Int, NEW digits \in Seq(Int)
  PROVE  \A k \in Nat : k <= Len(digits) => \E v : IsReading(v, n, digits, k)
<1> DEFINE S == {k \in Nat : k <= Len(digits) => \E v : IsReading(v, n, digits, k)}
<1>1. 0 \in S
  <2>1. IsReading([i \in 0..0 |-> n], n, digits, 0)
    BY DEF IsReading
  <2> QED BY <2>1
<1>2. ASSUME NEW k \in Nat, k \in S PROVE k + 1 \in S
  <2> SUFFICES ASSUME k + 1 <= Len(digits) PROVE \E v : IsReading(v, n, digits, k + 1)
    OBVIOUS
  <2>1. PICK v : IsReading(v, n, digits, k)
    BY <1>2
  <2> DEFINE w == [i \in 0..k + 1 |-> IF i <= k THEN v[i] ELSE 10 * v[k] + digits[k + 1]]
  <2>2. ASSUME NEW i \in 0..k + 1 PROVE w[i] = IF i = 0 THEN n ELSE 10 * w[i - 1] + digits[i]
    <3>1. CASE i = 0
      BY <2>1, <3>1, ReadingAt
    <3>2. CASE i \in 1..k
      <4>1. v[i] = 10 * v[i - 1] + digits[i]
        BY <2>1, <3>2, ReadingAt
      <4>2. i - 1 \in 0..k + 1 /\ i - 1 <= k /\ i <= k /\ i # 0
        BY <3>2
      <4>3. w[i] = v[i] /\ w[i - 1] = v[i - 1]
        BY <4>2
      <4> HIDE DEF w
      <4> QED BY <4>1, <4>2, <4>3
    <3>3. CASE i = k + 1
      <4>1. w[i] = 10 * v[k] + digits[k + 1]
        BY <3>3
      <4>2. i - 1 = k /\ i # 0 /\ k \in 0..k + 1
        BY <3>3
      <4>3. w[k] = v[k]
        BY <4>2
      <4> HIDE DEF w
      <4> QED BY <3>3, <4>1, <4>2, <4>3
    <3> QED BY <3>1, <3>2, <3>3
  <2>3. w = [i \in 0..k + 1 |-> w[i]]
    OBVIOUS
  <2> HIDE DEF w
  <2>4. w = [i \in 0..k + 1 |-> IF i = 0 THEN n ELSE 10 * w[i - 1] + digits[i]]
    BY <2>2, <2>3
  <2>5. IsReading(w, n, digits, k + 1)
    BY <2>4 DEF IsReading
  <2> QED BY <2>5
<1> HIDE DEF S
<1>3. \A k \in Nat : k \in S
  BY <1>1, <1>2, Induction
<1> QED BY <1>3 DEF S

LEMMA ReadingSame ==
  ASSUME NEW n, NEW digits, NEW more, NEW k \in Nat, NEW m \in Nat, k <= m,
         \A i \in 1..k : digits[i] = more[i],
         NEW v, IsReading(v, n, digits, k), NEW w, IsReading(w, n, more, m)
  PROVE  v[k] = w[k]
<1> DEFINE S == {i \in Nat : i <= k => v[i] = w[i]}
<1>1. 0 \in S
  <2>1. v[0] = n /\ w[0] = n
    BY ReadingAt
  <2> QED BY <2>1
<1>2. ASSUME NEW i \in Nat, i \in S PROVE i + 1 \in S
  <2> SUFFICES ASSUME i + 1 <= k PROVE v[i + 1] = w[i + 1]
    OBVIOUS
  <2>1. i + 1 \in 0..k /\ i + 1 \in 0..m /\ i + 1 # 0 /\ (i + 1) - 1 = i /\ i + 1 \in 1..k /\ i <= k
    OBVIOUS
  <2>2. v[i] = w[i]
    BY <1>2, <2>1
  <2>3. v[i + 1] = 10 * v[i] + digits[i + 1] /\ w[i + 1] = 10 * w[i] + more[i + 1]
    BY <2>1, ReadingAt
  <2>4. digits[i + 1] = more[i + 1]
    BY <2>1
  <2> QED BY <2>2, <2>3, <2>4
<1> HIDE DEF S
<1>3. \A i \in Nat : i \in S
  BY <1>1, <1>2, Induction
<1> QED BY <1>3 DEF S

LEMMA BehindIs ==
  ASSUME NEW n \in Int, NEW digits \in Seq(Int)
  PROVE  \E v : IsReading(v, n, digits, Len(digits)) /\ Behind(n, digits) = v[Len(digits)]
<1> DEFINE v == CHOOSE v : v = [i \in 0..Len(digits) |-> IF i = 0 THEN n ELSE 10 * v[i - 1] + digits[i]]
<1>1. Behind(n, digits) = v[Len(digits)]
  BY DEF Behind
<1>2. \E w : w = [i \in 0..Len(digits) |-> IF i = 0 THEN n ELSE 10 * w[i - 1] + digits[i]]
  <2>1. Len(digits) \in Nat /\ Len(digits) <= Len(digits)
    OBVIOUS
  <2> QED BY <2>1, ReadingExists DEF IsReading
<1>3. v = [i \in 0..Len(digits) |-> IF i = 0 THEN n ELSE 10 * v[i - 1] + digits[i]]
  BY <1>2
<1> HIDE DEF v
<1> QED BY <1>1, <1>3 DEF IsReading

LEMMA BehindNone == ASSUME NEW n \in Int PROVE Behind(n, <<>>) = n
<1>1. <<>> \in Seq(Int) /\ Len(<<>>) = 0
  OBVIOUS
<1>2. PICK v : IsReading(v, n, <<>>, Len(<<>>)) /\ Behind(n, <<>>) = v[Len(<<>>)]
  BY <1>1, BehindIs
<1>3. v[0] = n
  BY <1>1, <1>2, ReadingAt
<1> QED BY <1>1, <1>2, <1>3

LEMMA BehindAppend ==
  ASSUME NEW n \in Int, NEW digits \in Seq(Int), NEW d \in Int
  PROVE  Behind(n, Append(digits, d)) = 10 * Behind(n, digits) + d
<1> DEFINE more == Append(digits, d)  k == Len(digits)
<1>1. /\ more \in Seq(Int) /\ k \in Nat /\ Len(more) = k + 1 /\ more[k + 1] = d
      /\ \A i \in 1..k : digits[i] = more[i]
  OBVIOUS
<1> HIDE DEF more
<1>2. PICK v : IsReading(v, n, digits, k) /\ Behind(n, digits) = v[k]
  BY BehindIs
<1>3. PICK w : IsReading(w, n, more, k + 1) /\ Behind(n, more) = w[k + 1]
  BY <1>1, BehindIs
<1> HIDE DEF k
<1>4. v[k] = w[k]
  BY <1>1, <1>2, <1>3, ReadingSame
<1>5. w[k + 1] = 10 * w[k] + more[k + 1]
  <2>1. k + 1 \in 0..k + 1 /\ k + 1 # 0 /\ (k + 1) - 1 = k
    BY <1>1
  <2> QED BY <1>3, <2>1, ReadingAt
<1> QED BY <1>1, <1>2, <1>3, <1>4, <1>5 DEF more

LEMMA SeqWider ==
  ASSUME NEW C, NEW D, C \subseteq D, NEW s \in Seq(C)
  PROVE  s \in Seq(D)
<1>1. Len(s) \in Nat /\ s = [i \in 1..Len(s) |-> s[i]] /\ \A i \in 1..Len(s) : s[i] \in C
  OBVIOUS
<1>2. s \in [1..Len(s) -> D]
  BY <1>1
<1> QED BY <1>1, <1>2

LEMMA DigitBehind ==
  ASSUME NEW n \in Nat, NEW digits \in Seq(Digit), NEW d \in Digit
  PROVE  Behind(n, Append(digits, d)) = 10 * Behind(n, digits) + d
<1>1. Digit \subseteq Int
  BY DEF Digit
<1>2. digits \in Seq(Int)
  BY <1>1, SeqWider
<1>3. d \in Int /\ n \in Int
  BY <1>1
<1> QED BY <1>2, <1>3, BehindAppend

\* A sequence that is not empty is its last element behind the others.
LEMMA LastSplit ==
  ASSUME NEW t \in Seq(Digit), NEW k \in Nat, Len(t) = k + 1
  PROVE  \E u \in Seq(Digit), d \in Digit : Len(u) = k /\ t = Append(u, d)
<1> DEFINE u == [i \in 1..k |-> t[i]]
<1>1. u \in Seq(Digit) /\ Len(u) = k /\ t[k + 1] \in Digit
  OBVIOUS
<1>2. t = Append(u, t[k + 1])
  <2>1. Append(u, t[k + 1]) \in Seq(Digit) /\ Len(Append(u, t[k + 1])) = k + 1
    BY <1>1
  <2>2. ASSUME NEW i \in 1..k + 1 PROVE t[i] = Append(u, t[k + 1])[i]
    OBVIOUS
  <2> HIDE DEF u
  <2> QED BY <2>1, <2>2, SeqEqual
<1> HIDE DEF u
<1> QED BY <1>1, <1>2

LEMMA BehindType ==
  ASSUME NEW n \in Nat, NEW digits \in Seq(Digit)
  PROVE  Behind(n, digits) \in Nat
<1> DEFINE S == {k \in Nat : \A t \in Seq(Digit) : Len(t) = k => Behind(n, t) \in Nat}
<1>1. 0 \in S
  <2>1. ASSUME NEW t \in Seq(Digit), Len(t) = 0 PROVE Behind(n, t) \in Nat
    <3>1. t = <<>>
      BY <2>1
    <3> QED BY <3>1, BehindNone
  <2> QED BY <2>1
<1>2. ASSUME NEW k \in Nat, k \in S PROVE k + 1 \in S
  <2> SUFFICES ASSUME NEW t \in Seq(Digit), Len(t) = k + 1 PROVE Behind(n, t) \in Nat
    OBVIOUS
  <2>1. PICK u \in Seq(Digit), d \in Digit : Len(u) = k /\ t = Append(u, d)
    <3> HIDE DEF S
    <3> QED BY LastSplit
  <2>2. Behind(n, u) \in Nat
    BY <1>2, <2>1
  <2>3. Behind(n, t) = 10 * Behind(n, u) + d
    BY <2>1, DigitBehind
  <2>4. d \in Nat
    BY DEF Digit
  <2> QED BY <2>2, <2>3, <2>4
<1> HIDE DEF S
<1>3. \A k \in Nat : k \in S
  BY <1>1, <1>2, Induction
<1>4. Len(digits) \in Nat
  OBVIOUS
<1> QED BY <1>3, <1>4 DEF S

\* Digits are written behind a number in one go or in two.
LEMMA BehindConcat ==
  ASSUME NEW n \in Nat, NEW s \in Seq(Digit), NEW t \in Seq(Digit)
  PROVE  Behind(n, s \o t) = Behind(Behind(n, s), t)
<1> DEFINE S == {k \in Nat : \A u \in Seq(Digit) : Len(u) = k => Behind(n, s \o u) = Behind(Behind(n, s), u)}
<1>0. Behind(n, s) \in Nat
  BY BehindType
<1>1. 0 \in S
  <2>1. ASSUME NEW u \in Seq(Digit), Len(u) = 0 PROVE Behind(n, s \o u) = Behind(Behind(n, s), u)
    <3>1. u = <<>> /\ s \o <<>> = s
      BY <2>1
    <3> QED BY <1>0, <3>1, BehindNone
  <2> QED BY <2>1
<1>2. ASSUME NEW k \in Nat, k \in S PROVE k + 1 \in S
  <2> SUFFICES ASSUME NEW u \in Seq(Digit), Len(u) = k + 1 PROVE Behind(n, s \o u) = Behind(Behind(n, s), u)
    OBVIOUS
  <2>1. PICK w \in Seq(Digit), d \in Digit : Len(w) = k /\ u = Append(w, d)
    <3> HIDE DEF S
    <3> QED BY LastSplit
  <2>2. Behind(n, s \o w) = Behind(Behind(n, s), w)
    BY <1>2, <2>1
  <2>3. s \o u = Append(s \o w, d)
    <3>1. /\ s \o u \in Seq(Digit) /\ Len(s \o u) = Len(s) + k + 1
          /\ Append(s \o w, d) \in Seq(Digit) /\ Len(Append(s \o w, d)) = Len(s) + k + 1
      <4>1. s \o u \in Seq(Digit) /\ Len(s \o u) = Len(s) + k + 1
        OBVIOUS
      <4>2. s \o w \in Seq(Digit) /\ Len(s \o w) = Len(s) + k
        <5>1. s \o w \in Seq(Digit) /\ Len(s \o w) = Len(s) + Len(w)
          BY ConcatProperties
        <5> QED BY <2>1, <5>1
      <4>3. Len(s) \in Nat /\ Len(s) + k \in Nat
        OBVIOUS
      <4> QED BY <4>1, <4>2, <4>3
    <3>2. ASSUME NEW i \in 1..Len(s) + k + 1 PROVE (s \o u)[i] = Append(s \o w, d)[i]
      BY <2>1
    <3> QED BY <3>1, <3>2, SeqEqual
  <2>4. Behind(n, s \o u) = 10 * Behind(n, s \o w) + d
    <3>1. s \o w \in Seq(Digit)
      BY ConcatProperties
    <3>2. Behind(n, Append(s \o w, d)) = 10 * Behind(n, s \o w) + d
      BY <3>1, DigitBehind
    <3> QED BY <2>3, <3>2
  <2>5. Behind(Behind(n, s), u) = 10 * Behind(Behind(n, s), w) + d
    BY <1>0, <2>1, DigitBehind
  <2> QED BY <2>2, <2>4, <2>5
<1> HIDE DEF S
<1>3. \A k \in Nat : k \in S
  BY <1>1, <1>2, Induction
<1>4. Len(t) \in Nat
  OBVIOUS
<1> QED BY <1>3, <1>4 DEF S

LEMMA ZerosAre ==
  ASSUME NEW k \in Nat
  PROVE  Zeros(k) \in Seq(Digit) /\ Len(Zeros(k)) = k /\ \A i \in 1..k : Zeros(k)[i] = 0
<1>1. CASE k = 0
  BY <1>1 DEF Zeros, Digit
<1>2. CASE k > 0
  BY <1>2 DEF Zeros, Digit
<1> QED BY <1>1, <1>2

\* Digits are worth less than the power of ten of as many zeros, and shift the number before them by it.
LEMMA BehindSum ==
  ASSUME NEW n \in Nat, NEW t \in Seq(Digit)
  PROVE  /\ PowerOfTen(Len(t)) \in Nat \ {0} /\ Value(t) \in 0..PowerOfTen(Len(t)) - 1
         /\ Behind(n, t) = n * PowerOfTen(Len(t)) + Value(t)
<1> DEFINE P(u) == /\ PowerOfTen(Len(u)) \in Nat \ {0} /\ Value(u) \in 0..PowerOfTen(Len(u)) - 1
                   /\ Behind(n, u) = n * PowerOfTen(Len(u)) + Value(u)
           S == {k \in Nat : \A u \in Seq(Digit) : Len(u) = k => P(u)}
<1>1. 0 \in S
  <2>1. ASSUME NEW u \in Seq(Digit), Len(u) = 0 PROVE P(u)
    <3>1. u = <<>> /\ Zeros(0) = <<>>
      BY <2>1 DEF Zeros
    <3>2. Behind(n, u) = n /\ Value(u) = 0 /\ PowerOfTen(0) = 1
      BY <3>1, BehindNone DEF Value, PowerOfTen
    <3> QED BY <2>1, <3>2
  <2> QED BY <2>1
<1>2. ASSUME NEW k \in Nat, k \in S PROVE k + 1 \in S
  <2> SUFFICES ASSUME NEW u \in Seq(Digit), Len(u) = k + 1 PROVE P(u)
    OBVIOUS
  <2>1. PICK w \in Seq(Digit), d \in Digit : Len(w) = k /\ u = Append(w, d)
    <3> HIDE DEF S
    <3> QED BY LastSplit
  <2>2. P(w)
    BY <1>2, <2>1
  <2>3. d \in 0..9
    BY DEF Digit
  <2>4. Behind(n, u) = 10 * Behind(n, w) + d /\ Value(u) = 10 * Value(w) + d
    BY <2>1, DigitBehind DEF Value
  <2>5. PowerOfTen(k + 1) = 10 * PowerOfTen(k)
    <3>1. Zeros(k + 1) = Append(Zeros(k), 0)
      <4>1. /\ Zeros(k) \in Seq(Digit) /\ Len(Zeros(k)) = k /\ \A i \in 1..k : Zeros(k)[i] = 0
            /\ Zeros(k + 1) \in Seq(Digit) /\ Len(Zeros(k + 1)) = k + 1 /\ \A i \in 1..k + 1 : Zeros(k + 1)[i] = 0
        BY ZerosAre
      <4>2. Append(Zeros(k), 0) \in Seq(Digit) /\ Len(Append(Zeros(k), 0)) = k + 1
        BY <4>1
      <4>3. ASSUME NEW i \in 1..k + 1 PROVE Zeros(k + 1)[i] = Append(Zeros(k), 0)[i]
        BY <4>1
      <4> QED BY <4>1, <4>2, <4>3, SeqEqual
    <3>3. Behind(1, Append(Zeros(k), 0)) = 10 * Behind(1, Zeros(k)) + 0
      <4>1. Zeros(k) \in Seq(Digit) /\ 0 \in Digit
        BY ZerosAre DEF Digit
      <4> QED BY <4>1, DigitBehind
    <3>4. Behind(1, Zeros(k)) \in Nat
      <4>1. Zeros(k) \in Seq(Digit)
        BY ZerosAre
      <4> QED BY <4>1, BehindType
    <3>5. PowerOfTen(k + 1) = 10 * PowerOfTen(k) + 0
      BY <3>1, <3>3 DEF PowerOfTen
    <3>6. PowerOfTen(k) \in Nat
      BY <3>4 DEF PowerOfTen
    <3> QED BY <3>5, <3>6
  <2> DEFINE p == PowerOfTen(k)
  <2>6. p \in Nat \ {0} /\ Value(w) \in 0..p - 1 /\ Behind(n, w) = n * p + Value(w)
    BY <2>1, <2>2
  <2>7. PowerOfTen(Len(u)) = 10 * p
    BY <2>5
  <2> HIDE DEF p
  <2>8. 10 * p \in Nat \ {0} /\ Value(u) \in 0..10 * p - 1
    <3> DEFINE v == Value(w)
    <3>1. v \in 0..p - 1 /\ Value(u) = 10 * v + d
      BY <2>4, <2>6
    <3> HIDE DEF v
    <3> QED BY <2>3, <2>6, <3>1
  <2>9. n * (10 * p) = 10 * (n * p) /\ n * p \in Nat
    BY <2>6
  <2>10. Behind(n, u) = n * (10 * p) + Value(u)
    <3> DEFINE q == n * p
    <3>1. Behind(n, u) = 10 * (q + Value(w)) + d
      BY <2>4, <2>6
    <3>2. n * (10 * p) = 10 * q /\ q \in Nat
      BY <2>9
    <3> HIDE DEF q
    <3> QED BY <2>3, <2>4, <2>6, <3>1, <3>2
  <2> QED BY <2>7, <2>8, <2>10
<1> HIDE DEF S, P
<1>3. \A k \in Nat : k \in S
  BY <1>1, <1>2, Induction
<1>4. Len(t) \in Nat
  OBVIOUS
<1> QED BY <1>3, <1>4 DEF S, P

LEMMA PowerType == ASSUME NEW k \in Nat PROVE PowerOfTen(k) \in Nat \ {0}
<1>1. Zeros(k) \in Seq(Digit) /\ Len(Zeros(k)) = k
  BY ZerosAre
<1>2. PowerOfTen(Len(Zeros(k))) \in Nat \ {0}
  <2>1. 0 \in Nat
    OBVIOUS
  <2> QED BY <1>1, <2>1, BehindSum
<1> QED BY <1>1, <1>2

LEMMA ValueType ==
  ASSUME NEW s \in Seq(Digit) PROVE Value(s) \in Nat /\ Value(s) < PowerOfTen(Len(s))
<1>1. 0 \in Nat
  OBVIOUS
<1>2. Value(s) \in 0..PowerOfTen(Len(s)) - 1 /\ PowerOfTen(Len(s)) \in Nat \ {0}
  BY <1>1, BehindSum
<1> QED BY <1>2

LEMMA ValueConcat ==
  ASSUME NEW s \in Seq(Digit), NEW t \in Seq(Digit)
  PROVE  Value(s \o t) = Value(s) * PowerOfTen(Len(t)) + Value(t)
<1>1. 0 \in Nat /\ Value(s) \in Nat
  BY ValueType
<1>2. Value(s \o t) = Behind(Value(s), t)
  BY <1>1, BehindConcat DEF Value
<1>3. Behind(Value(s), t) = Value(s) * PowerOfTen(Len(t)) + Value(t)
  BY <1>1, BehindSum
<1> QED BY <1>2, <1>3

LEMMA ZerosMore ==
  ASSUME NEW k \in Nat, NEW m \in Nat
  PROVE  Zeros(k + m) = Zeros(k) \o Zeros(m)
<1>1. /\ Zeros(k) \in Seq(Digit) /\ Len(Zeros(k)) = k /\ \A i \in 1..k : Zeros(k)[i] = 0
      /\ Zeros(m) \in Seq(Digit) /\ Len(Zeros(m)) = m /\ \A i \in 1..m : Zeros(m)[i] = 0
  BY ZerosAre
<1>2. /\ Zeros(k + m) \in Seq(Digit) /\ Len(Zeros(k + m)) = k + m
      /\ \A i \in 1..k + m : Zeros(k + m)[i] = 0
  <2>1. k + m \in Nat
    OBVIOUS
  <2> QED BY <2>1, ZerosAre
<1>3. Zeros(k) \o Zeros(m) \in Seq(Digit) /\ Len(Zeros(k) \o Zeros(m)) = k + m
  <2>1. /\ Zeros(k) \o Zeros(m) \in Seq(Digit)
        /\ Len(Zeros(k) \o Zeros(m)) = Len(Zeros(k)) + Len(Zeros(m))
    BY <1>1, ConcatProperties
  <2> QED BY <1>1, <2>1
<1>4. ASSUME NEW i \in 1..k + m PROVE Zeros(k + m)[i] = (Zeros(k) \o Zeros(m))[i]
  <2>1. (Zeros(k) \o Zeros(m))[i] = IF i <= k THEN Zeros(k)[i] ELSE Zeros(m)[i - k]
    BY <1>1
  <2>2. i <= k => i \in 1..k
    OBVIOUS
  <2>3. ~(i <= k) => i - k \in 1..m
    OBVIOUS
  <2> QED BY <1>1, <1>2, <2>1, <2>2, <2>3
<1> QED BY <1>2, <1>3, <1>4, SeqEqual

LEMMA ZerosValue == ASSUME NEW k \in Nat PROVE Value(Zeros(k)) = 0
<1> DEFINE S == {i \in Nat : Value(Zeros(i)) = 0}
<1>1. 0 \in S
  <2>1. Zeros(0) = <<>>
    BY DEF Zeros
  <2> QED BY <2>1, BehindNone DEF Value
<1>2. ASSUME NEW i \in Nat, i \in S PROVE i + 1 \in S
  <2>1. Zeros(i + 1) = Zeros(i) \o Zeros(1)
    <3>1. 1 \in Nat
      OBVIOUS
    <3> QED BY <3>1, ZerosMore
  <2>2. Zeros(i) \in Seq(Digit) /\ Zeros(1) \in Seq(Digit) /\ Len(Zeros(1)) = 1
    <3>1. 1 \in Nat
      OBVIOUS
    <3> QED BY <3>1, ZerosAre
  <2>3. Value(Zeros(i) \o Zeros(1)) = Value(Zeros(i)) * PowerOfTen(1) + Value(Zeros(1))
    BY <2>2, ValueConcat
  <2>4. Value(Zeros(1)) = 0
    <3>1. Zeros(1) = Append(<<>>, 0) /\ <<>> \in Seq(Digit) /\ 0 \in Digit /\ 0 \in Nat
      BY DEF Zeros, Digit
    <3>2. Behind(0, Append(<<>>, 0)) = 10 * Behind(0, <<>>) + 0
      BY <3>1, DigitBehind
    <3>3. Behind(0, <<>>) = 0
      BY BehindNone
    <3> QED BY <3>1, <3>2, <3>3 DEF Value
  <2>5. Value(Zeros(i)) = 0 /\ PowerOfTen(1) \in Nat
    BY <1>2, PowerType
  <2>6. Value(Zeros(i + 1)) = 0
    <3> HIDE DEF S
    <3>1. \A p \in Nat : 0 * p + 0 = 0
      OBVIOUS
    <3>2. Value(Zeros(i)) * PowerOfTen(1) + Value(Zeros(1)) = 0
      BY <2>4, <2>5, <3>1
    <3> QED BY <2>1, <2>3, <3>2
  <2> QED BY <2>6
<1> HIDE DEF S
<1>3. k \in S
  BY <1>1, <1>2, Induction
<1> QED BY <1>3 DEF S

LEMMA PowerSum ==
  ASSUME NEW k \in Nat, NEW m \in Nat
  PROVE  PowerOfTen(k + m) = PowerOfTen(k) * PowerOfTen(m)
<1>1. /\ Zeros(k) \in Seq(Digit) /\ Zeros(m) \in Seq(Digit) /\ Len(Zeros(m)) = m
      /\ PowerOfTen(k) \in Nat /\ 1 \in Nat
  BY ZerosAre, PowerType
<1>2. PowerOfTen(k + m) = Behind(PowerOfTen(k), Zeros(m))
  <2>1. Behind(1, Zeros(k) \o Zeros(m)) = Behind(Behind(1, Zeros(k)), Zeros(m))
    BY <1>1, BehindConcat
  <2> QED BY <2>1, ZerosMore DEF PowerOfTen
<1>3. Behind(PowerOfTen(k), Zeros(m)) = PowerOfTen(k) * PowerOfTen(m) + Value(Zeros(m))
  BY <1>1, BehindSum
<1>4. Value(Zeros(m)) = 0 /\ PowerOfTen(k) * PowerOfTen(m) \in Nat
  BY ZerosValue, PowerType
<1> QED BY <1>2, <1>3, <1>4

-----------------------------------------------------------------------------
(* Leading zeros are worth nothing, and trailing ones are left out of decimals. *)

LEMMA ConcatAt ==
  ASSUME NEW S, NEW s \in Seq(S), NEW t \in Seq(S), NEW i \in 1..Len(s) + Len(t)
  PROVE  (s \o t)[i] = IF i <= Len(s) THEN s[i] ELSE t[i - Len(s)]
  BY ConcatProperties, Zenon

LEMMA TrimStartIs ==
  ASSUME NEW s \in Seq(Digit)
  PROVE  /\ TrimStart(s) \in Seq(Digit) /\ Value(TrimStart(s)) = Value(s)
         /\ Len(TrimStart(s)) <= Len(s)
<1> DEFINE I == {i \in 1..Len(s) : NonZero(s[i])}
           first == SelectInSeq(s, NonZero)
<1>0. Len(s) \in Nat
  OBVIOUS
<1>1. CASE I = {}
  <2>1. first = 0
    BY <1>1 DEF SelectInSeq
  <2>2. TrimStart(s) = <<>>
    BY <2>1 DEF TrimStart
  <2>3. s = Zeros(Len(s))
    <3>1. \A i \in 1..Len(s) : s[i] = 0
      BY <1>1 DEF NonZero
    <3>2. /\ Zeros(Len(s)) \in Seq(Digit) /\ Len(Zeros(Len(s))) = Len(s)
          /\ \A i \in 1..Len(s) : Zeros(Len(s))[i] = 0
      BY <1>0, ZerosAre
    <3>3. \A i \in 1..Len(s) : s[i] = Zeros(Len(s))[i]
      BY <3>1, <3>2
    <3> QED BY <3>2, <3>3, SeqEqual
  <2>4. Value(s) = 0 /\ Value(<<>>) = 0
    BY <1>0, <2>3, ZerosValue, BehindNone DEF Value
  <2> QED BY <1>0, <2>2, <2>4
<1>2. CASE I # {}
  <2>1. first \in I /\ \A i \in I : first <= i
    <3>1. I \subseteq Nat
      BY <1>0
    <3>2. first = CHOOSE x \in I : \A y \in I : x =< y
      BY <1>2 DEF SelectInSeq, Min
    <3> HIDE DEF I, first
    <3>3. \E x \in I : \A y \in I : x <= y
      BY <1>2, <3>1, LeastOf
    <3> QED BY <3>2, <3>3
  <2> DEFINE k == first - 1  t == SubSeq(s, first, Len(s))
  <2>2. first \in 1..Len(s) /\ k \in Nat /\ k <= Len(s)
    BY <2>1
  <2>3. TrimStart(s) = t
    BY <2>2 DEF TrimStart
  <2>4. \A i \in 1..k : s[i] = 0
    <3>1. ASSUME NEW i \in 1..k, s[i] # 0 PROVE FALSE
      <4>1. i \in I /\ ~(first <= i)
        BY <2>2, <3>1 DEF NonZero
      <4> QED BY <2>1, <4>1
    <3> QED BY <3>1
  <2> HIDE DEF first, I
  <2>5. t \in Seq(Digit) /\ Len(t) = Len(s) - k /\ \A i \in 1..Len(s) - k : t[i] = s[i + k]
    BY <1>0, <2>2
  <2>6. s = Zeros(k) \o t
    <3> HIDE DEF k, t
    <3>1. Zeros(k) \in Seq(Digit) /\ Len(Zeros(k)) = k /\ \A i \in 1..k : Zeros(k)[i] = 0
      BY <2>2, ZerosAre
    <3>2. Zeros(k) \o t \in Seq(Digit) /\ Len(Zeros(k) \o t) = Len(Zeros(k)) + Len(t)
      BY <2>5, <3>1, ConcatProperties
    <3>3. Len(Zeros(k) \o t) = Len(s)
      BY <1>0, <2>2, <2>5, <3>1, <3>2
    <3>4. ASSUME NEW i \in 1..Len(s) PROVE s[i] = (Zeros(k) \o t)[i]
      <4>1. (Zeros(k) \o t)[i] = IF i <= k THEN Zeros(k)[i] ELSE t[i - k]
        <5>1. i \in 1..Len(Zeros(k)) + Len(t)
          BY <3>2, <3>3
        <5>2. Zeros(k) \in Seq(Digit) /\ t \in Seq(Digit)
          BY <2>5, <3>1
        <5>3. (Zeros(k) \o t)[i] = IF i <= Len(Zeros(k)) THEN Zeros(k)[i] ELSE t[i - Len(Zeros(k))]
          BY <5>1, <5>2, ConcatAt
        <5> QED BY <3>1, <5>3
      <4>2. CASE i <= k
        <5>1. i \in 1..k
          BY <2>2, <4>2
        <5> QED BY <2>4, <3>1, <4>1, <4>2, <5>1
      <4>3. CASE ~(i <= k)
        <5>1. i - k \in 1..Len(s) - k /\ (i - k) + k = i
          BY <1>0, <2>2, <4>3
        <5> QED BY <2>5, <4>1, <4>3, <5>1
      <4> QED BY <4>2, <4>3
    <3> QED BY <3>2, <3>3, <3>4, SeqEqual
  <2>7. Value(Zeros(k) \o t) = Value(Zeros(k)) * PowerOfTen(Len(t)) + Value(t)
    <3>1. Zeros(k) \in Seq(Digit)
      BY <2>2, ZerosAre
    <3> QED BY <2>5, <3>1, ValueConcat
  <2>8. Value(Zeros(k)) = 0 /\ PowerOfTen(Len(t)) \in Nat /\ Value(t) \in Nat
    <3>1. Len(t) \in Nat
      BY <2>5
    <3> QED BY <2>2, <2>5, <3>1, ZerosValue, PowerType, ValueType
  <2> HIDE DEF k, t
  <2>9. Value(t) = Value(s)
    BY <2>6, <2>7, <2>8
  <2> QED BY <1>0, <2>2, <2>3, <2>5, <2>9
<1> QED BY <1>1, <1>2

LEMMA SplitAt ==
  ASSUME NEW s \in Seq(Digit), NEW m \in 0..Len(s)
  PROVE  /\ SubSeq(s, 1, m) \in Seq(Digit) /\ Len(SubSeq(s, 1, m)) = m
         /\ SubSeq(s, m + 1, Len(s)) \in Seq(Digit) /\ Len(SubSeq(s, m + 1, Len(s))) = Len(s) - m
         /\ s = SubSeq(s, 1, m) \o SubSeq(s, m + 1, Len(s))
<1> DEFINE a == SubSeq(s, 1, m)  b == SubSeq(s, m + 1, Len(s))
<1>0. Len(s) \in Nat /\ m \in Nat /\ m <= Len(s)
  OBVIOUS
<1>1. a \in Seq(Digit) /\ Len(a) = m /\ \A i \in 1..m : a[i] = s[i]
  BY <1>0
<1>2. b \in Seq(Digit) /\ Len(b) = Len(s) - m /\ \A i \in 1..Len(s) - m : b[i] = s[m + i]
  BY <1>0
<1> HIDE DEF a, b
<1>3. a \o b \in Seq(Digit) /\ Len(a \o b) = Len(s)
  <2>1. a \o b \in Seq(Digit) /\ Len(a \o b) = Len(a) + Len(b)
    BY <1>1, <1>2, ConcatProperties
  <2> QED BY <1>0, <1>1, <1>2, <2>1
<1>4. ASSUME NEW i \in 1..Len(s) PROVE s[i] = (a \o b)[i]
  <2>1. i \in 1..Len(a) + Len(b)
    BY <1>0, <1>1, <1>2
  <2>2. (a \o b)[i] = IF i <= Len(a) THEN a[i] ELSE b[i - Len(a)]
    BY <1>1, <1>2, <2>1, ConcatProperties
  <2>3. CASE i <= m
    <3>1. i \in 1..m
      BY <1>0, <2>3
    <3> QED BY <1>1, <2>2, <2>3, <3>1
  <2>4. CASE ~(i <= m)
    <3>1. i - m \in 1..Len(s) - m /\ m + (i - m) = i
      BY <1>0, <2>4
    <3> QED BY <1>1, <1>2, <2>2, <2>4, <3>1
  <2> QED BY <2>3, <2>4
<1>5. s = a \o b
  BY <1>3, <1>4, SeqEqual
<1> QED BY <1>1, <1>2, <1>5 DEF a, b

LEMMA GreatestOf ==
  ASSUME NEW n \in Nat, NEW B, B \subseteq 0..n, B # {}
  PROVE  \E x \in B : \A y \in B : x >= y
<1> DEFINE C == {n - x : x \in B}
<1>0. \A x \in B : x \in 0..n
  OBVIOUS
<1>1. C \subseteq Nat /\ C # {}
  <2>1. ASSUME NEW x \in B PROVE n - x \in Nat
    BY <1>0
  <2> QED BY <2>1
<1>2. PICK c \in C : \A d \in C : c <= d
  <2> HIDE DEF C
  <2> QED BY <1>1, LeastOf
<1>3. PICK x \in B : c = n - x
  OBVIOUS
<1>4. ASSUME NEW y \in B PROVE x >= y
  <2>1. n - x <= n - y /\ x \in Int /\ y \in Int
    BY <1>2, <1>3
  <2> QED BY <2>1
<1> QED BY <1>4

LEMMA TrimEndIs ==
  ASSUME NEW s \in Seq(Digit)
  PROVE  /\ TrimEnd(s) \in Seq(Digit) /\ Len(TrimEnd(s)) \in 0..Len(s)
         /\ s = TrimEnd(s) \o Zeros(Len(s) - Len(TrimEnd(s)))
<1> DEFINE I == {i \in 1..Len(s) : NonZero(s[i])}
           last == SelectLastInSeq(s, NonZero)
<1>0. Len(s) \in Nat
  OBVIOUS
<1>1. last \in 0..Len(s) /\ \A i \in 1..Len(s) : i > last => s[i] = 0
  <2>1. CASE I = {}
    <3>1. last = 0
      BY <2>1 DEF SelectLastInSeq
    <3>2. \A i \in 1..Len(s) : s[i] = 0
      BY <2>1 DEF NonZero
    <3> HIDE DEF last
    <3> QED BY <1>0, <3>1, <3>2
  <2>2. CASE I # {}
    <3>1. I \subseteq 0..Len(s)
      BY <1>0
    <3>2. last = CHOOSE x \in I : \A y \in I : x >= y
      BY <2>2 DEF SelectLastInSeq, Max
    <3>3. last \in I /\ \A i \in I : last >= i
      <4> HIDE DEF I, last
      <4>1. \E x \in I : \A y \in I : x >= y
        BY <1>0, <2>2, <3>1, GreatestOf
      <4> QED BY <3>2, <4>1
    <3> HIDE DEF last
    <3>4. ASSUME NEW i \in 1..Len(s), i > last, s[i] # 0 PROVE FALSE
      <4>1. i \in I
        BY <3>4 DEF NonZero
      <4>2. last >= i /\ last \in Int
        BY <3>1, <3>3, <4>1
      <4> QED BY <3>4, <4>2
    <3> QED BY <3>1, <3>3, <3>4
  <2> QED BY <2>1, <2>2
<1>2. TrimEnd(s) = SubSeq(s, 1, last)
  BY DEF TrimEnd
<1> HIDE DEF last
<1> DEFINE a == SubSeq(s, 1, last)  b == SubSeq(s, last + 1, Len(s))  k == Len(s) - last
<1>3. a \in Seq(Digit) /\ Len(a) = last /\ b \in Seq(Digit) /\ Len(b) = k /\ s = a \o b
  BY <1>1, SplitAt
<1>4. k \in Nat
  BY <1>0, <1>1
<1>5. b = Zeros(k)
  <2>1. Zeros(k) \in Seq(Digit) /\ Len(Zeros(k)) = k /\ \A i \in 1..k : Zeros(k)[i] = 0
    <3> HIDE DEF k
    <3> QED BY <1>4, ZerosAre
  <2>2. ASSUME NEW i \in 1..k PROVE b[i] = 0
    <3>1. last + i \in 1..Len(s) /\ last + i > last
      BY <1>0, <1>1
    <3>2. b[i] = s[last + i]
      BY <1>0, <1>1
    <3> QED BY <1>1, <3>1, <3>2
  <2>3. \A i \in 1..k : b[i] = Zeros(k)[i]
    BY <2>1, <2>2
  <2> HIDE DEF b, k
  <2> QED BY <1>3, <2>1, <2>3, SeqEqual
<1>6. Len(s) - Len(TrimEnd(s)) = k
  BY <1>2, <1>3
<1> HIDE DEF a, b, k
<1> QED BY <1>1, <1>2, <1>3, <1>5, <1>6 DEF a

\* Cut or filled up to m digits: the number with the point moved, rounded down.
LEMMA CutIs ==
  ASSUME NEW s \in Seq(Digit), NEW m \in Nat,
         NEW c, c = SubSeq(PadEnd(s, m), 1, m)
  PROVE  /\ c \in Seq(Digit)
         /\ Value(c) * PowerOfTen(Len(s)) <= Value(s) * PowerOfTen(m)
         /\ Value(s) * PowerOfTen(m) < (Value(c) + 1) * PowerOfTen(Len(s))
<1> DEFINE n == Len(s)
<1>0. n \in Nat /\ Value(s) \in Nat /\ PowerOfTen(n) \in Nat \ {0} /\ PowerOfTen(m) \in Nat \ {0}
  BY ValueType, PowerType
<1>1. CASE n <= m
  <2> DEFINE k == m - n
  <2>1. k \in Nat /\ n + k = m
    BY <1>0, <1>1
  <2>2. PadEnd(s, m) = s \o Zeros(k)
    BY DEF PadEnd
  <2> HIDE DEF k
  <2>3. Zeros(k) \in Seq(Digit) /\ Len(Zeros(k)) = k
    BY <2>1, ZerosAre
  <2>4. s \o Zeros(k) \in Seq(Digit) /\ Len(s \o Zeros(k)) = m
    <3>1. s \o Zeros(k) \in Seq(Digit) /\ Len(s \o Zeros(k)) = Len(s) + Len(Zeros(k))
      BY <2>3, ConcatProperties
    <3> QED BY <2>1, <2>3, <3>1
  <2>5. c = s \o Zeros(k)
    <3> DEFINE z == s \o Zeros(k)
    <3>1. z \in Seq(Digit) /\ Len(z) = m /\ c = SubSeq(z, 1, m)
      BY <2>2, <2>4
    <3> HIDE DEF z
    <3>2. SubSeq(z, 1, m) \in Seq(Digit) /\ Len(SubSeq(z, 1, m)) = m /\ \A i \in 1..m : SubSeq(z, 1, m)[i] = z[i]
      BY <3>1
    <3>3. SubSeq(z, 1, m) = z
      BY <3>1, <3>2, SeqEqual
    <3> QED BY <3>1, <3>3 DEF z
  <2>6. Value(c) = Value(s) * PowerOfTen(k)
    <3>1. Value(s \o Zeros(k)) = Value(s) * PowerOfTen(k) + Value(Zeros(k))
      BY <2>3, ValueConcat
    <3>2. Value(Zeros(k)) = 0 /\ PowerOfTen(k) \in Nat
      BY <2>1, ZerosValue, PowerType
    <3>3. \A v, q \in Nat : v * q + 0 = v * q
      OBVIOUS
    <3>4. Value(s) * PowerOfTen(k) + Value(Zeros(k)) = Value(s) * PowerOfTen(k)
      BY <1>0, <3>2, <3>3
    <3> QED BY <2>5, <3>1, <3>4
  <2>7. PowerOfTen(m) = PowerOfTen(n) * PowerOfTen(k) /\ PowerOfTen(k) \in Nat
    <3> HIDE DEF n
    <3> QED BY <1>0, <2>1, PowerSum, PowerType
  <2>8. \A v, p, q \in Nat : p # 0 => (v * q) * p = v * (p * q) /\ v * (p * q) < (v * q + 1) * p
    <3>1. ASSUME NEW v \in Nat, NEW p \in Nat, NEW q \in Nat, p # 0
          PROVE  (v * q) * p = v * (p * q) /\ v * (p * q) < (v * q + 1) * p
      <4>1. (v * q) * p = v * (p * q) /\ (v * q + 1) * p = (v * q) * p + p /\ v * (p * q) \in Nat
        BY <3>1
      <4> HIDE DEF n
      <4> QED BY <3>1, <4>1
    <3> QED BY <3>1
  <2>9. \A v, p, q \in Nat : v * q \in Nat
    OBVIOUS
  <2> DEFINE v == Value(s)  p == PowerOfTen(n)  q == PowerOfTen(k)
  <2>10. v \in Nat /\ p \in Nat /\ p # 0 /\ q \in Nat /\ Value(c) = v * q /\ PowerOfTen(m) = p * q
    BY <1>0, <2>6, <2>7
  <2>11. (v * q) * p <= v * (p * q) /\ v * (p * q) < (v * q + 1) * p
    <3> HIDE DEF v, p, q
    <3>1. (v * q) * p = v * (p * q) /\ v * (p * q) < (v * q + 1) * p /\ v * (p * q) \in Nat
      BY <2>8, <2>10
    <3> QED BY <3>1
  <2> QED BY <2>4, <2>5, <2>10, <2>11
<1>2. CASE ~(n <= m)
  <2> DEFINE k == n - m  b == SubSeq(s, m + 1, n)
  <2>1. k \in Nat /\ m + k = n /\ m \in 0..Len(s)
    BY <1>0, <1>2
  <2>2. PadEnd(s, m) = s
    <3>1. Zeros(m - n) = <<>>
      BY <1>0, <1>2 DEF Zeros
    <3>2. s \o <<>> = s
      BY ConcatEmptySeq
    <3> QED BY <3>1, <3>2 DEF PadEnd
  <2>3. c \in Seq(Digit) /\ b \in Seq(Digit) /\ Len(b) = k /\ s = c \o b
    BY <2>1, <2>2, SplitAt
  <2> HIDE DEF k, b
  <2>4. Value(s) = Value(c) * PowerOfTen(k) + Value(b) /\ Value(c) \in Nat /\ Value(b) \in Nat /\ Value(b) < PowerOfTen(k)
    BY <2>3, ValueConcat, ValueType
  <2>5. PowerOfTen(n) = PowerOfTen(m) * PowerOfTen(k) /\ PowerOfTen(k) \in Nat
    <3> HIDE DEF n
    <3> QED BY <1>0, <2>1, PowerSum, PowerType
  <2>6. ASSUME NEW v \in Nat, NEW w \in Nat, NEW p \in Nat, NEW q \in Nat, p # 0, w < q
        PROVE  v * (p * q) <= (v * q + w) * p /\ (v * q + w) * p < (v + 1) * (p * q)
    <3>1. (v * q + w) * p = v * (p * q) + w * p /\ (v + 1) * (p * q) = v * (p * q) + q * p
      BY <2>6
    <3>2. w * p < q * p /\ w * p \in Nat /\ q * p \in Nat /\ v * (p * q) \in Nat
      BY <2>6
    <3> QED BY <3>1, <3>2
  <2> QED BY <1>0, <2>3, <2>4, <2>5, <2>6
<1> QED BY <1>1, <1>2

-----------------------------------------------------------------------------
(* The digits of a number, and the point in them.                           *)

IsDigits(f, max) == f = [n \in 0..max |-> IF n < 10 THEN <<n>> ELSE Append(f[n \div 10], n % 10)]

LEMMA DigitsAt ==
  ASSUME NEW max, NEW f, IsDigits(f, max), NEW n \in 0..max
  PROVE  f[n] = IF n < 10 THEN <<n>> ELSE Append(f[n \div 10], n % 10)
<1> DEFINE h == [k \in 0..max |-> IF k < 10 THEN <<k>> ELSE Append(f[k \div 10], k % 10)]
<1>1. h[n] = IF n < 10 THEN <<n>> ELSE Append(f[n \div 10], n % 10)
  OBVIOUS
<1>2. f = h
  BY DEF IsDigits
<1> HIDE DEF h
<1> QED BY <1>1, <1>2

LEMMA TenthOf ==
  ASSUME NEW n \in Nat, ~(n < 10)
  PROVE  n \div 10 \in Nat /\ n \div 10 < n /\ n % 10 \in Digit /\ 10 * (n \div 10) + (n % 10) = n
  BY DEF Digit

LEMMA DigitsExist == \A max \in Nat : \E f : IsDigits(f, max)
<1> DEFINE S == {max \in Nat : \E f : IsDigits(f, max)}
<1>1. 0 \in S
  <2>1. IsDigits([n \in 0..0 |-> <<0>>], 0)
    BY DEF IsDigits
  <2> QED BY <2>1
<1>2. ASSUME NEW max \in Nat, max \in S PROVE max + 1 \in S
  <2>1. PICK f : IsDigits(f, max)
    BY <1>2
  <2> DEFINE top == max + 1
             g == [n \in 0..top |-> IF n <= max THEN f[n] ELSE IF n < 10 THEN <<n>> ELSE Append(f[n \div 10], n % 10)]
  <2>2. ASSUME NEW n \in 0..top PROVE g[n] = IF n < 10 THEN <<n>> ELSE Append(g[n \div 10], n % 10)
    <3>1. g[n] = IF n < 10 THEN <<n>> ELSE Append(f[n \div 10], n % 10)
      <4>1. CASE n <= max
        <5>1. n \in 0..max
          BY <4>1
        <5>2. f[n] = IF n < 10 THEN <<n>> ELSE Append(f[n \div 10], n % 10)
          BY <2>1, <5>1, DigitsAt
        <5>3. g[n] = f[n]
          BY <4>1
        <5> HIDE DEF g
        <5> QED BY <5>2, <5>3
      <4>2. CASE ~(n <= max)
        BY <4>2
      <4> QED BY <4>1, <4>2
    <3>2. ~(n < 10) => g[n \div 10] = f[n \div 10]
      <4> SUFFICES ASSUME ~(n < 10) PROVE g[n \div 10] = f[n \div 10]
        OBVIOUS
      <4> DEFINE k == n \div 10
      <4>1. k \in Nat /\ k < n
        BY TenthOf
      <4> HIDE DEF k
      <4>2. k \in 0..top /\ k <= max
        BY <4>1
      <4>3. g[k] = f[k]
        BY <4>2
      <4> HIDE DEF g
      <4> QED BY <4>3 DEF k
    <3> HIDE DEF g
    <3> QED BY <3>1, <3>2
  <2>3. g = [n \in 0..top |-> g[n]]
    OBVIOUS
  <2> HIDE DEF g
  <2>4. g = [n \in 0..top |-> IF n < 10 THEN <<n>> ELSE Append(g[n \div 10], n % 10)]
    BY <2>2, <2>3
  <2>5. IsDigits(g, top)
    BY <2>4 DEF IsDigits
  <2> QED BY <2>5
<1> HIDE DEF S
<1>3. \A max \in Nat : max \in S
  BY <1>1, <1>2, Induction
<1> QED BY <1>3 DEF S

\* A number is what its digits are worth.
LEMMA DigitsAre ==
  ASSUME NEW max \in Nat, NEW n \in 0..max
  PROVE  DigitsUpTo(max)[n] \in Seq(Digit) /\ Value(DigitsUpTo(max)[n]) = n
<1> DEFINE f == DigitsUpTo(max)
           S == {k \in Nat : \A i \in 0..max : i <= k => f[i] \in Seq(Digit) /\ Value(f[i]) = i}
<1>0. IsDigits(f, max)
  <2>1. \E g : g = [i \in 0..max |-> IF i < 10 THEN <<i>> ELSE Append(g[i \div 10], i % 10)]
    BY DigitsExist DEF IsDigits
  <2>2. f = CHOOSE g : g = [i \in 0..max |-> IF i < 10 THEN <<i>> ELSE Append(g[i \div 10], i % 10)]
    BY DEF DigitsUpTo
  <2> HIDE DEF f
  <2>3. f = [i \in 0..max |-> IF i < 10 THEN <<i>> ELSE Append(f[i \div 10], i % 10)]
    BY <2>1, <2>2
  <2> QED BY <2>3 DEF IsDigits
<1> HIDE DEF f
<1>1. ASSUME NEW i \in 0..max, \A k \in 0..max : k < i => f[k] \in Seq(Digit) /\ Value(f[k]) = k
      PROVE  f[i] \in Seq(Digit) /\ Value(f[i]) = i
  <2>1. f[i] = IF i < 10 THEN <<i>> ELSE Append(f[i \div 10], i % 10)
    BY <1>0, DigitsAt
  <2>2. CASE i < 10
    <3>1. i \in Digit /\ i \in Nat /\ f[i] = Append(<<>>, i) /\ <<>> \in Seq(Digit)
      BY <2>1, <2>2 DEF Digit
    <3>2. Behind(0, Append(<<>>, i)) = 10 * Behind(0, <<>>) + i
      BY <3>1, DigitBehind
    <3>3. Behind(0, <<>>) = 0
      BY BehindNone
    <3>4. Value(f[i]) = i
      BY <3>1, <3>2, <3>3 DEF Value
    <3>5. Append(<<>>, i) \in Seq(Digit)
      BY <3>1
    <3> QED BY <3>1, <3>4, <3>5
  <2>3. CASE ~(i < 10)
    <3> DEFINE k == i \div 10  d == i % 10
    <3>1. k \in Nat /\ k < i /\ d \in Digit /\ 10 * k + d = i
      BY <2>3, TenthOf
    <3>2. f[i] = Append(f[k], d)
      BY <2>1, <2>3
    <3> HIDE DEF k, d
    <3>3. f[k] \in Seq(Digit) /\ Value(f[k]) = k
      BY <1>1, <3>1
    <3>4. Behind(0, Append(f[k], d)) = 10 * Behind(0, f[k]) + d
      BY <3>1, <3>3, DigitBehind
    <3>5. Value(f[i]) = i
      BY <3>1, <3>2, <3>3, <3>4 DEF Value
    <3>6. f[i] \in Seq(Digit)
      BY <3>1, <3>2, <3>3
    <3> QED BY <3>5, <3>6
  <2> QED BY <2>2, <2>3
<1>2. 0 \in S
  <2>1. ASSUME NEW i \in 0..max, i <= 0 PROVE f[i] \in Seq(Digit) /\ Value(f[i]) = i
    <3>1. \A k \in 0..max : ~(k < i)
      BY <2>1
    <3> QED BY <1>1, <3>1
  <2> QED BY <2>1
<1>3. ASSUME NEW k \in Nat, k \in S PROVE k + 1 \in S
  <2>1. ASSUME NEW i \in 0..max, i <= k + 1 PROVE f[i] \in Seq(Digit) /\ Value(f[i]) = i
    <3>1. ASSUME NEW j \in 0..max, j < i PROVE f[j] \in Seq(Digit) /\ Value(f[j]) = j
      <4>1. j <= k
        BY <2>1, <3>1
      <4> QED BY <1>3, <4>1
    <3> QED BY <1>1, <3>1
  <2> QED BY <2>1
<1> HIDE DEF S
<1>4. n \in Nat /\ n <= n
  OBVIOUS
<1>5. n \in S
  BY <1>2, <1>3, <1>4, Induction
<1> QED BY <1>4, <1>5 DEF S, f

-----------------------------------------------------------------------------
(* math.js: an amount and the integer it stands for.                        *)

LEMMA QuotientIs ==
  ASSUME NEW d \in Nat, NEW D \in Nat \ {0}
  PROVE  d \div D \in Nat /\ d % D \in Nat /\ d = (D * (d \div D)) + (d % D) /\ d % D < D
OBVIOUS

\* A factor that is not zero can be put in and left out.
LEMMA SameFactor ==
  ASSUME NEW w \in Nat \ {0}, NEW a \in Nat, NEW b \in Nat
  PROVE  (w * a <= w * b <=> a <= b) /\ (w * a < w * b <=> a < b)
<1>1. ASSUME NEW x \in Nat, NEW y \in Nat, x < y PROVE w * x < w * y
  <2>1. PICK e \in Nat : y = x + e + 1
    <3>1. y - x - 1 \in Nat /\ y = x + (y - x - 1) + 1
      BY <1>1
    <3> QED BY <3>1
  <2>2. w * y = w * x + w * e + w /\ w * x \in Nat /\ w * e \in Nat
    BY <2>1
  <2> QED BY <2>2
<1>2. w * a \in Nat /\ w * b \in Nat
  OBVIOUS
<1>3. a < b \/ a = b \/ b < a
  OBVIOUS
<1> QED BY <1>1, <1>2, <1>3

\* What is left out of the decimals is a factor of the number and of its unit.
LEMMA DecimalsTrimmed ==
  ASSUME NEW w \in Seq(Digit), NEW s \in Seq(Digit), NEW t, t = TrimEnd(s)
  PROVE  /\ t \in Seq(Digit) /\ Len(t) \in 0..Len(s)
         /\ PowerOfTen(Len(s)) = PowerOfTen(Len(t)) * PowerOfTen(Len(s) - Len(t))
         /\ Value(w \o s) = Value(w \o t) * PowerOfTen(Len(s) - Len(t))
<1> DEFINE k == Len(s) - Len(t)
<1>1. t \in Seq(Digit) /\ Len(t) \in 0..Len(s) /\ s = t \o Zeros(k)
  BY TrimEndIs
<1>2. k \in Nat /\ Len(t) \in Nat /\ Len(t) + k = Len(s)
  BY <1>1
<1> HIDE DEF k
<1>3. PowerOfTen(Len(s)) = PowerOfTen(Len(t)) * PowerOfTen(k)
  BY <1>2, PowerSum
<1>4. w \o s = (w \o t) \o Zeros(k) /\ w \o t \in Seq(Digit) /\ Zeros(k) \in Seq(Digit) /\ Len(Zeros(k)) = k
  <2>1. Zeros(k) \in Seq(Digit) /\ Len(Zeros(k)) = k
    BY <1>2, ZerosAre
  <2>2. w \o t \in Seq(Digit)
    BY <1>1, ConcatProperties
  <2>3. (w \o t) \o Zeros(k) = w \o (t \o Zeros(k))
    BY <1>1, <2>1, ConcatAssociative
  <2> QED BY <1>1, <2>1, <2>2, <2>3
<1>5. Value(w \o s) = Value(w \o t) * PowerOfTen(k) + Value(Zeros(k))
  BY <1>4, ValueConcat
<1>6. Value(Zeros(k)) = 0 /\ Value(w \o t) \in Nat /\ PowerOfTen(k) \in Nat
  BY <1>2, <1>4, ZerosValue, ValueType, PowerType
<1>7. \A x, y \in Nat : x * y + 0 = x * y
  OBVIOUS
<1>8. Value(w \o s) = Value(w \o t) * PowerOfTen(k)
  BY <1>5, <1>6, <1>7
<1> QED BY <1>1, <1>3, <1>8 DEF k

\* Leading zeros of the whole part are worth nothing with decimals behind them either.
LEMMA WholeTrimmed ==
  ASSUME NEW w \in Seq(Digit), NEW s \in Seq(Digit)
  PROVE  Value(TrimStart(w) \o s) = Value(w \o s)
<1>1. TrimStart(w) \in Seq(Digit) /\ Value(TrimStart(w)) = Value(w)
  BY TrimStartIs
<1> QED BY <1>1, ValueConcat

\* Trimming as splitDecimalNumber does changes neither the number nor its unit but for a factor.
LEMMA SplitIs ==
  ASSUME NEW num \in Numerals, NEW d, d = splitDecimalNumber(num)
  PROVE  /\ d.whole \in Seq(Digit) /\ d.dec \in Seq(Digit) /\ Len(d.dec) <= Len(num.dec)
         /\ \E q \in Nat \ {0} :
              /\ PowerOfTen(Len(num.dec)) = PowerOfTen(Len(d.dec)) * q
              /\ Value(num.whole \o num.dec) = Value(d.whole \o d.dec) * q
<1>1. num.whole \in Seq(Digit) /\ num.dec \in Seq(Digit)
  BY DEF Numerals
<1>2. d.whole = TrimStart(num.whole) /\ d.dec = TrimEnd(num.dec)
  BY DEF splitDecimalNumber
<1>3. d.whole \in Seq(Digit)
  BY <1>1, <1>2, TrimStartIs
<1> DEFINE q == PowerOfTen(Len(num.dec) - Len(d.dec))
<1>4. /\ d.dec \in Seq(Digit) /\ Len(d.dec) \in 0..Len(num.dec)
      /\ PowerOfTen(Len(num.dec)) = PowerOfTen(Len(d.dec)) * q
      /\ Value(num.whole \o num.dec) = Value(num.whole \o d.dec) * q
  <2> DEFINE w == num.whole  s == num.dec  t == d.dec
  <2>1. w \in Seq(Digit) /\ s \in Seq(Digit) /\ t = TrimEnd(s)
    BY <1>1, <1>2
  <2> HIDE DEF w, s, t
  <2>2. /\ t \in Seq(Digit) /\ Len(t) \in 0..Len(s)
        /\ PowerOfTen(Len(s)) = PowerOfTen(Len(t)) * PowerOfTen(Len(s) - Len(t))
        /\ Value(w \o s) = Value(w \o t) * PowerOfTen(Len(s) - Len(t))
    BY <2>1, DecimalsTrimmed
  <2> QED BY <2>2 DEF w, s, t
<1>5. Value(d.whole \o d.dec) = Value(num.whole \o d.dec)
  BY <1>1, <1>2, <1>4, WholeTrimmed
<1>6. q \in Nat \ {0} /\ Len(d.dec) <= Len(num.dec)
  <2>1. Len(num.dec) - Len(d.dec) \in Nat /\ Len(d.dec) <= Len(num.dec)
    BY <1>1, <1>4
  <2> QED BY <2>1, PowerType
<1> HIDE DEF q
<1> QED BY <1>3, <1>4, <1>5, <1>6

\* toDecimals moves the point and cuts off what is behind it.
LEMMA ToDecimalsIs ==
  ASSUME NEW num \in Numerals, NEW n \in Nat, NEW a, a = toDecimals(num, n)
  PROVE  /\ a \in Seq(Digit)
         /\ Value(a) * PowerOfTen(Len(num.dec)) <= Value(num.whole \o num.dec) * PowerOfTen(n)
         /\ Value(num.whole \o num.dec) * PowerOfTen(n) < (Value(a) + 1) * PowerOfTen(Len(num.dec))
<1> DEFINE d == splitDecimalNumber(num)
           w == d.whole
           t == d.dec
           m == Len(w) + n
           c == SubSeq(PadEnd(w \o t, m), 1, m)
           v == Value(w \o t)
           pt == PowerOfTen(Len(t))
           pn == PowerOfTen(n)
<1>1. w \in Seq(Digit) /\ t \in Seq(Digit)
  <2> HIDE DEF d
  <2>1. d = splitDecimalNumber(num)
    BY DEF d
  <2> QED BY <2>1, SplitIs
<1>2. PICK q \in Nat \ {0} : /\ PowerOfTen(Len(num.dec)) = pt * q
                             /\ Value(num.whole \o num.dec) = v * q
  <2> HIDE DEF d
  <2>1. d = splitDecimalNumber(num)
    BY DEF d
  <2> QED BY <2>1, SplitIs
<1>3. a = IF w = <<>> /\ (t = <<>> \/ n = 0) THEN <<0>> ELSE c
  BY DEF toDecimals
<1> HIDE DEF d, w, t
<1>4. Len(w) \in Nat /\ Len(t) \in Nat /\ m \in Nat /\ w \o t \in Seq(Digit) /\ Len(w \o t) = Len(w) + Len(t)
  BY <1>1, ConcatProperties
<1>5. v \in Nat /\ pt \in Nat \ {0} /\ pn \in Nat \ {0}
  BY <1>4, ValueType, PowerType
<1>6. a \in Seq(Digit) /\ Value(a) \in Nat /\ Value(a) * pt <= v * pn /\ v * pn < (Value(a) + 1) * pt
  <2>1. CASE w = <<>> /\ (t = <<>> \/ n = 0)
    <3>1. a = <<0>> /\ a \in Seq(Digit)
      <4>1. 0 \in Digit
        BY DEF Digit
      <4>2. a = <<0>>
        <5> HIDE DEF c
        <5> QED BY <1>3, <2>1
      <4> QED BY <4>1, <4>2
    <3>2. Value(a) = 0
      <4>1. Zeros(1) = <<0>> /\ 1 \in Nat
        BY DEF Zeros
      <4> QED BY <3>1, <4>1, ZerosValue
    <3>3. w \o t = t
      BY <1>1, <2>1, ConcatEmptySeq
    <3>4. v < pt
      BY <1>1, <3>3, ValueType
    <3>5. CASE t = <<>>
      <4>1. v = 0
        BY <3>3, <3>5, BehindNone DEF Value
      <4>2. v * pn = 0
        BY <1>5, <4>1
      <4> HIDE DEF v, pt, pn
      <4> QED BY <1>5, <3>1, <3>2, <4>2
    <3>6. CASE n = 0
      <4>1. pn = 1
        <5>1. Zeros(0) = <<>>
          BY DEF Zeros
        <5> QED BY <3>6, <5>1, BehindNone DEF PowerOfTen
      <4> HIDE DEF v, pt, pn
      <4> QED BY <1>5, <3>1, <3>2, <3>4, <4>1
    <3> QED BY <2>1, <3>5, <3>6
  <2>2. CASE ~(w = <<>> /\ (t = <<>> \/ n = 0))
    <3> DEFINE pw == PowerOfTen(Len(w))
    <3>1. a = c
      BY <1>3, <2>2
    <3>2. /\ a \in Seq(Digit)
          /\ Value(a) * PowerOfTen(Len(w \o t)) <= v * PowerOfTen(m)
          /\ v * PowerOfTen(m) < (Value(a) + 1) * PowerOfTen(Len(w \o t))
      <4> HIDE DEF m
      <4> QED BY <1>4, <3>1, CutIs
    <3>3. PowerOfTen(Len(w \o t)) = pw * pt /\ PowerOfTen(m) = pw * pn /\ pw \in Nat \ {0}
      BY <1>4, PowerSum, PowerType
    <3>4. Value(a) \in Nat
      BY <3>2, ValueType
    <3> DEFINE x == Value(a)
    <3>5. x \in Nat /\ x * (pw * pt) <= v * (pw * pn) /\ v * (pw * pn) < (x + 1) * (pw * pt)
      BY <3>2, <3>3, <3>4
    <3> HIDE DEF x, v, pw, pt, pn
    <3>6. /\ x * (pw * pt) = pw * (x * pt) /\ v * (pw * pn) = pw * (v * pn)
          /\ (x + 1) * (pw * pt) = pw * ((x + 1) * pt)
          /\ x * pt \in Nat /\ v * pn \in Nat /\ (x + 1) * pt \in Nat
      BY <1>5, <3>3, <3>5
    <3>7. x * pt <= v * pn /\ v * pn < (x + 1) * pt
      BY <3>3, <3>5, <3>6, SameFactor
    <3> QED BY <3>2, <3>4, <3>7 DEF x
  <2> QED BY <2>1, <2>2
<1> DEFINE x == Value(a)
<1>7. x \in Nat /\ x * pt <= v * pn /\ v * pn < (x + 1) * pt
  BY <1>6
<1>8. x * (pt * q) <= (v * q) * pn /\ (v * q) * pn < (x + 1) * (pt * q)
  <2> HIDE DEF x, v, pt, pn
  <2>1. /\ x * (pt * q) = q * (x * pt) /\ (v * q) * pn = q * (v * pn)
        /\ (x + 1) * (pt * q) = q * ((x + 1) * pt)
        /\ x * pt \in Nat /\ v * pn \in Nat /\ (x + 1) * pt \in Nat
    BY <1>2, <1>5, <1>7
  <2> QED BY <1>2, <1>7, <2>1, SameFactor
<1> QED BY <1>2, <1>6, <1>8

\* fromDecimals puts the point where it belongs, and leaves out zeros that are worth nothing.
LEMMA FromDecimalsIs ==
  ASSUME NEW digits \in Seq(Digit), NEW n \in Nat, NEW num, num = fromDecimals(digits, n)
  PROVE  /\ num \in Numerals /\ Len(num.dec) \in 0..n
         /\ Value(num.whole \o num.dec) * PowerOfTen(n - Len(num.dec)) = Value(digits)
<1> DEFINE w == TrimStart(digits)
           z == Zeros(n + 1 - Len(w))
           padded == z \o w
           point == Len(padded) - n
           b == SubSeq(padded, point + 1, Len(padded))
           nothing == [whole |-> <<0>>, dec |-> <<>>]
           split == [whole |-> SubSeq(padded, 1, point), dec |-> TrimEnd(b)]
<1>1. w \in Seq(Digit) /\ Value(w) = Value(digits)
  BY TrimStartIs
<1>2. num = IF w = <<>> THEN nothing ELSE split
  BY DEF fromDecimals, PadStart
<1> HIDE DEF w
<1>3. CASE w = <<>>
  <2>1. num = nothing
    <3> HIDE DEF nothing, split
    <3> QED BY <1>2, <1>3
  <2>2. Zeros(1) = <<0>> /\ Zeros(1) \in Seq(Digit) /\ <<>> \in Seq(Digit)
    <3>1. 1 \in Nat /\ <<>> \in Seq(Digit)
      OBVIOUS
    <3>2. Zeros(1) = <<0>>
      BY DEF Zeros
    <3> QED BY <3>1, <3>2, ZerosAre
  <2>3. num.whole = <<0>> /\ num.dec = <<>> /\ num \in Numerals
    <3> DEFINE zero == <<0>>
    <3>1. zero \in Seq(Digit)
      BY <2>2
    <3> HIDE DEF zero
    <3> QED BY <2>1, <2>2, <3>1 DEF Numerals, zero
  <2>4. num.whole \o num.dec = Zeros(1)
    <3>1. Zeros(1) \o <<>> = Zeros(1)
      BY <2>2, ConcatEmptySeq
    <3> QED BY <2>2, <2>3, <3>1
  <2>5. Value(num.whole \o num.dec) = 0 /\ Value(digits) = 0
    <3>1. 1 \in Nat
      OBVIOUS
    <3> QED BY <1>1, <1>3, <2>4, <3>1, ZerosValue, BehindNone DEF Value
  <2>6. n - Len(num.dec) \in Nat /\ Len(num.dec) \in 0..n
    BY <2>3
  <2>7. PowerOfTen(n - Len(num.dec)) \in Nat
    BY <2>6, PowerType
  <2>8. \A p \in Nat : 0 * p = 0
    OBVIOUS
  <2> QED BY <2>3, <2>5, <2>6, <2>7, <2>8
<1>4. CASE w # <<>>
  <2>1. num = split
    <3> HIDE DEF nothing, split
    <3> QED BY <1>2, <1>4
  <2> DEFINE k == Len(z)
  <2>2. z \in Seq(Digit) /\ Value(z) = 0 /\ k \in Nat /\ k + Len(w) >= n + 1
    <3> DEFINE j == n + 1 - Len(w)
    <3>0. Len(w) \in Nat /\ j \in Int /\ j = n + 1 - Len(w)
      BY <1>1
    <3> HIDE DEF j
    <3>1. CASE j > 0
      <4>1. j \in Nat
        BY <3>0, <3>1
      <4>2. Zeros(j) \in Seq(Digit) /\ Len(Zeros(j)) = j /\ Value(Zeros(j)) = 0
        BY <4>1, ZerosAre, ZerosValue
      <4> QED BY <3>0, <4>1, <4>2 DEF j
    <3>2. CASE ~(j > 0)
      <4>1. Zeros(j) = <<>> /\ <<>> \in Seq(Digit) /\ Len(<<>>) = 0
        BY <3>2 DEF Zeros
      <4>2. Value(<<>>) = 0
        BY BehindNone DEF Value
      <4>3. z = <<>>
        BY <4>1 DEF j
      <4>4. Len(w) >= n + 1
        BY <3>0, <3>2
      <4> HIDE DEF z
      <4> QED BY <3>0, <4>1, <4>2, <4>3, <4>4
    <3> QED BY <3>1, <3>2
  <2> HIDE DEF z
  <2>3. padded \in Seq(Digit) /\ Len(padded) = k + Len(w)
    BY <1>1, <2>2, ConcatProperties
  <2>4. Value(padded) = Value(digits)
    <3>1. Value(padded) = Value(z) * PowerOfTen(Len(w)) + Value(w)
      BY <1>1, <2>2, ValueConcat
    <3>2. PowerOfTen(Len(w)) \in Nat /\ Value(w) \in Nat
      <4>1. Len(w) \in Nat
        BY <1>1
      <4> QED BY <1>1, <4>1, PowerType, ValueType
    <3>3. \A p, x \in Nat : 0 * p + x = x
      OBVIOUS
    <3> QED BY <1>1, <2>2, <3>1, <3>2, <3>3
  <2> HIDE DEF padded, k
  <2>5. Len(padded) \in Nat /\ point \in 0..Len(padded) /\ Len(padded) - point = n
    <3>1. Len(w) \in Nat
      BY <1>1
    <3> QED BY <2>2, <2>3, <3>1
  <2> DEFINE a == SubSeq(padded, 1, point)  t == TrimEnd(b)
  <2>6. a \in Seq(Digit) /\ b \in Seq(Digit) /\ Len(b) = n /\ padded = a \o b
    <3> HIDE DEF point
    <3> QED BY <2>3, <2>5, SplitAt
  <2>7. num.whole = a /\ num.dec = t /\ num = [whole |-> a, dec |-> t]
    BY <2>1
  <2> HIDE DEF a, b
  <2>8. t \in Seq(Digit) /\ Len(t) \in 0..n /\ Value(a \o b) = Value(a \o t) * PowerOfTen(n - Len(t))
    BY <2>6, DecimalsTrimmed
  <2> HIDE DEF t
  <2>9. num \in Numerals
    BY <2>6, <2>7, <2>8 DEF Numerals
  <2> QED BY <2>4, <2>6, <2>7, <2>8, <2>9
<1> QED BY <1>3, <1>4

\* The two undo each other.
LEMMA ThereAndBack ==
  ASSUME NEW digits \in Seq(Digit), NEW n \in Nat
  PROVE  /\ toDecimals(fromDecimals(digits, n), n) \in Seq(Digit)
         /\ Value(toDecimals(fromDecimals(digits, n), n)) = Value(digits)
<1> DEFINE num == fromDecimals(digits, n)  a == toDecimals(num, n)
           l == Len(num.dec)  v == Value(num.whole \o num.dec)
           x == Value(a)  y == Value(digits)  p == PowerOfTen(l)  q == PowerOfTen(n - l)
<1>1. num \in Numerals /\ l \in 0..n /\ v * q = y
  BY FromDecimalsIs
<1>2. a \in Seq(Digit) /\ x * p <= v * PowerOfTen(n) /\ v * PowerOfTen(n) < (x + 1) * p
  <2> HIDE DEF num
  <2> QED BY <1>1, ToDecimalsIs
<1>3. num.whole \o num.dec \in Seq(Digit)
  <2>1. num.whole \in Seq(Digit) /\ num.dec \in Seq(Digit)
    <3> HIDE DEF num
    <3> QED BY <1>1 DEF Numerals
  <2> QED BY <2>1, ConcatProperties
<1> HIDE DEF num, a
<1>4. v \in Nat /\ x \in Nat /\ y \in Nat
  BY <1>2, <1>3, ValueType
<1>5. p \in Nat \ {0} /\ q \in Nat \ {0} /\ PowerOfTen(n) = p * q
  <2>1. l \in Nat /\ n - l \in Nat /\ l + (n - l) = n
    BY <1>1
  <2> DEFINE k == n - l
  <2> HIDE DEF k, l
  <2>2. l \in Nat /\ k \in Nat /\ l + k = n
    BY <2>1 DEF k
  <2>3. PowerOfTen(l) \in Nat \ {0} /\ PowerOfTen(k) \in Nat \ {0} /\ PowerOfTen(l + k) = PowerOfTen(l) * PowerOfTen(k)
    BY <2>2, PowerType, PowerSum
  <2> QED BY <2>2, <2>3 DEF k
<1>6. x * p <= v * (p * q) /\ v * (p * q) < (x + 1) * p
  BY <1>2, <1>5
<1> HIDE DEF l, v, x, y, p, q
<1>7. v * (p * q) = p * (v * q) /\ x * p = p * x /\ (x + 1) * p = p * (x + 1)
  BY <1>4, <1>5
<1>8. p * x <= p * y /\ p * y < p * (x + 1)
  BY <1>1, <1>6, <1>7
<1>9. x <= y /\ y < x + 1
  <2>1. x + 1 \in Nat
    BY <1>4
  <2> QED BY <1>4, <1>5, <1>8, <2>1, SameFactor
<1>10. x = y
  BY <1>4, <1>9
<1> QED BY <1>2, <1>10 DEF x, y, a, num

\* What toDecimals makes of a numeral: cut off after its decimals.
LEMMA AmountIs ==
  ASSUME NEW num \in Numerals, NEW n \in Nat
  PROVE  LET unit == PowerOfTen(Len(num.dec))
             exact == Value(num.whole \o num.dec) * PowerOfTen(n)
             sent == Value(toDecimals(num, n)) * unit
         IN  sent <= exact /\ exact < sent + unit
<1> DEFINE unit == PowerOfTen(Len(num.dec))
           exact == Value(num.whole \o num.dec) * PowerOfTen(n)
           a == toDecimals(num, n)
           x == Value(a)
<1>1. a \in Seq(Digit) /\ x * unit <= exact /\ exact < (x + 1) * unit
  BY ToDecimalsIs
<1> HIDE DEF a
<1>2. x \in Nat
  BY <1>1, ValueType
<1>3. unit \in Nat
  <2>1. Len(num.dec) \in Nat
    BY DEF Numerals
  <2> QED BY <2>1, PowerType
<1> HIDE DEF unit, exact, x
<1>4. (x + 1) * unit = x * unit + unit
  BY <1>2, <1>3
<1>5. x * unit <= exact /\ exact < x * unit + unit
  BY <1>1, <1>4
<1> QED BY <1>5 DEF unit, exact, x, a
=============================================================================
