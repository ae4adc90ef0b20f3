------------------------ MODULE SyncSessionsProofs ------------------------
(***************************************************************************)
(* For any chain, any safety margin of at least two blocks and any number  *)
(* of sessions: the ranges of subscribeToExternals leave no block out, and *)
(* read again, of what the cache had settled, its last block at most.      *)
(***************************************************************************)
EXTENDS SyncSessions, TLAPS

\* The cache covers the agent's blocks up to its cachedBlockNumber, which is no later than
\* the last settled block; a script without one has read nothing.
CacheCovers ==
  IF cachedBlock = NoBlock THEN ingested = {} /\ ~running
  ELSE /\ cachedBlock >= InitialBlock /\ cachedBlock <= CachedTo(head, InitialBlock)
       /\ \A b \in Int : InitialBlock <= b /\ b <= cachedBlock => b \in ingested

\* NoBlockSkipped without the interval, for the provers.
Follows == running => \A b \in Int : InitialBlock <= b /\ b <= head => b \in ingested

Inv == TypeOK /\ CacheCovers /\ Follows

LEMMA InitInv == Init => Inv
<1>1. ASSUME Init PROVE TypeOK
  <2>1. head \in Nat /\ head >= InitialBlock /\ cachedBlock \in Nat /\ cachedBlock <= head
    BY <1>1, BlockAssumption DEF Init, NoBlock
  <2>2. running \in BOOLEAN /\ ingested \subseteq Int /\ twice \subseteq Int
    BY <1>1 DEF Init
  <2> QED BY <2>1, <2>2 DEF TypeOK
<1>2. Init => CacheCovers /\ Follows
  BY DEF Init, CacheCovers, Follows
<1> QED BY <1>1, <1>2 DEF Inv

\* What a session reads, as inequalities.
LEMMA ReadBlocks ==
  ASSUME TypeOK, NEW b \in Int
  PROVE  /\ CachedTo(head, InitialBlock) \in Nat
         /\ b \in CachedRange(cachedBlock, head, InitialBlock) <=>
              /\ b >= (IF cachedBlock = NoBlock THEN InitialBlock
                       ELSE Smaller(cachedBlock + 1, CachedTo(head, InitialBlock)))
              /\ b <= CachedTo(head, InitialBlock)
         /\ b \in RecentRange(head, InitialBlock) <=>
              /\ b >= Smaller(CachedTo(head, InitialBlock) + 1, head - 1)
              /\ b <= head - 1
  BY BlockAssumption, ReorgAssumption
  DEF TypeOK, CachedRange, CachedFrom, CachedTo, RecentRange, RecentFrom, RecentTo,
      Larger, Smaller, NoBlock

LEMMA MineStep == ASSUME Inv, Mine PROVE Inv'
  BY BlockAssumption, ReorgAssumption
  DEF Inv, TypeOK, CacheCovers, Follows, Mine, CachedTo, Larger, NoBlock

LEMMA StartStep == ASSUME Inv, Start PROVE Inv'
<1> DEFINE settled == CachedRange(cachedBlock, head, InitialBlock)
           recent == RecentRange(head, InitialBlock)
<1>1. /\ running' = TRUE /\ head' = head /\ cachedBlock' = CachedTo(head, InitialBlock)
      /\ ingested' = ingested \cup (settled \cup recent \cup {head})
      /\ twice' \subseteq ingested \cup settled
  BY DEF Start
<1>2. settled \subseteq Int /\ recent \subseteq Int
  BY DEF CachedRange, RecentRange
<1>3. /\ CachedTo(head, InitialBlock) \in Nat
      /\ InitialBlock <= CachedTo(head, InitialBlock) /\ CachedTo(head, InitialBlock) <= head
  BY BlockAssumption, ReorgAssumption DEF Inv, TypeOK, CachedTo, Larger
<1>4. TypeOK'
  <2> HIDE DEF settled, recent
  <2> QED BY <1>1, <1>2, <1>3 DEF Inv, TypeOK
<1>5. ASSUME NEW b \in Int, InitialBlock <= b, b <= head PROVE b \in ingested'
  <2>1. TypeOK  BY DEF Inv
  <2>2. CASE b = head
    BY <1>1, <2>2
  <2>3. CASE b <= CachedTo(head, InitialBlock) /\ b < head
    <3>1. CASE cachedBlock = NoBlock
      BY <1>1, <1>5, <2>1, <2>3, <3>1, ReadBlocks
    <3>2. CASE cachedBlock # NoBlock /\ b <= cachedBlock
      BY <1>1, <1>5, <3>2 DEF Inv, CacheCovers
    <3>3. CASE cachedBlock # NoBlock /\ b > cachedBlock
      <4>1. b >= Smaller(cachedBlock + 1, CachedTo(head, InitialBlock))
        BY <1>3, <2>1, <3>3 DEF Smaller, TypeOK
      <4> QED BY <1>1, <2>1, <2>3, <3>3, <4>1, ReadBlocks
    <3> QED BY <2>1, <3>1, <3>2, <3>3 DEF TypeOK
  <2>4. CASE b > CachedTo(head, InitialBlock) /\ b < head
    <3>1. b >= Smaller(CachedTo(head, InitialBlock) + 1, head - 1) /\ b <= head - 1
      BY <1>3, <2>1, <2>4 DEF Smaller, TypeOK
    <3> QED BY <1>1, <2>1, <3>1, ReadBlocks
  <2> QED BY <1>3, <1>5, <2>1, <2>2, <2>3, <2>4 DEF TypeOK
<1>6. Follows'
  BY <1>1, <1>5 DEF Follows
<1>7. CacheCovers'
  <2>1. cachedBlock' # NoBlock
    BY <1>1, <1>3, BlockAssumption DEF NoBlock
  <2>2. ASSUME NEW b \in Int, InitialBlock <= b, b <= cachedBlock' PROVE b \in ingested'
    BY <1>1, <1>3, <1>5, <2>2 DEF Inv, TypeOK
  <2>3. cachedBlock' = CachedTo(head', InitialBlock) /\ cachedBlock' >= InitialBlock
    BY <1>1, <1>3, BlockAssumption
  <2>4. cachedBlock' \in Nat
    BY <1>1, <1>3
  <2> QED BY <2>1, <2>2, <2>3, <2>4 DEF CacheCovers, NoBlock
<1> QED BY <1>4, <1>6, <1>7 DEF Inv

LEMMA StopStep == ASSUME Inv, Stop PROVE Inv'
<1>1. PICK kept \in {0, head} : ingested' = {b \in ingested : b <= Larger(cachedBlock, kept)}
  BY DEF Stop
<1>2. running /\ running' = FALSE /\ UNCHANGED <<head, cachedBlock, twice>>
  BY DEF Stop
<1>3. TypeOK' /\ Follows'
  BY <1>1, <1>2 DEF Inv, TypeOK, Follows
<1>4. CacheCovers'
  BY <1>1, <1>2 DEF Inv, TypeOK, CacheCovers, Larger, CachedTo, NoBlock
<1> QED BY <1>3, <1>4 DEF Inv

LEMMA InvStep == Inv /\ [Next]_vars => Inv'
<1>1. Inv /\ UNCHANGED vars => Inv'
  BY DEF Inv, TypeOK, CacheCovers, Follows, vars
<1> QED BY <1>1, MineStep, StartStep, StopStep DEF Next

LEMMA InvAlways == Spec => []Inv
  BY InitInv, InvStep, PTL DEF Spec

\* cachedBlockNumber is a block the chain has reached, whatever the safety margin, the initial block
\* and the length of the chain: RecentTo and CachedTo never run ahead of the current block.
THEOREM TypeCorrect == Spec => []TypeOK
<1>1. Inv => TypeOK
  BY DEF Inv
<1> QED BY <1>1, InvAlways, PTL

\* A running session has read every block since the agent's initialization, however often
\* and whenever the script was closed and opened again.
THEOREM NothingSkipped == Spec => []NoBlockSkipped
<1>1. Inv => NoBlockSkipped
  BY BlockAssumption DEF Inv, TypeOK, Follows, NoBlockSkipped
<1> QED BY <1>1, InvAlways, PTL

LEMMA StartRereads ==
  ASSUME Inv, Start
  PROVE  /\ \A b \in twice' : InitialBlock <= b /\ b <= cachedBlock =>
              b = cachedBlock /\ cachedBlock' = cachedBlock
         /\ cachedBlock # NoBlock /\ cachedBlock' = cachedBlock => cachedBlock \in twice'
         /\ cachedBlock = NoBlock /\ InitialBlock < head - 1 => twice' = {}
<1> DEFINE settled == CachedRange(cachedBlock, head, InitialBlock)
           recent == RecentRange(head, InitialBlock)
<1>1. /\ twice' = (ingested \cap (settled \cup recent \cup {head}))
                    \cup (settled \cap (recent \cup {head}))
      /\ cachedBlock' = CachedTo(head, InitialBlock)
  BY DEF Start
<1>2. settled \subseteq Int /\ recent \subseteq Int /\ TypeOK
  BY DEF CachedRange, RecentRange, Inv
<1>3. ASSUME NEW b \in settled \cup recent \cup {head}, InitialBlock <= b, b <= cachedBlock
      PROVE  b = cachedBlock /\ cachedBlock' = cachedBlock
  <2>1. b \in Int /\ cachedBlock # NoBlock
    BY <1>2, <1>3, BlockAssumption DEF TypeOK, NoBlock
  <2>2. cachedBlock >= InitialBlock /\ cachedBlock <= CachedTo(head, InitialBlock)
    BY <2>1 DEF Inv, CacheCovers
  <2>3. CASE b \in settled
    <3>1. b >= Smaller(cachedBlock + 1, CachedTo(head, InitialBlock))
      BY <1>2, <2>1, <2>3, ReadBlocks
    <3> QED BY <1>1, <1>2, <1>3, <2>1, <2>2, <3>1, BlockAssumption, ReorgAssumption
            DEF Smaller, CachedTo, Larger, TypeOK
  <2>4. CASE b \in recent
    <3>1. b >= Smaller(CachedTo(head, InitialBlock) + 1, head - 1) /\ b <= head - 1
      BY <1>2, <2>1, <2>4, ReadBlocks
    <3> QED BY <1>1, <1>2, <1>3, <2>1, <2>2, <3>1, BlockAssumption, ReorgAssumption
            DEF Smaller, CachedTo, Larger, TypeOK
  <2>5. CASE b = head
    BY <1>1, <1>2, <1>3, <2>1, <2>2, <2>5, BlockAssumption, ReorgAssumption
    DEF CachedTo, Larger, TypeOK
  <2> QED BY <1>3, <2>3, <2>4, <2>5
<1>5. ASSUME cachedBlock # NoBlock, cachedBlock' = cachedBlock PROVE cachedBlock \in twice'
  <2>1. cachedBlock >= InitialBlock /\ cachedBlock \in Int /\ cachedBlock \in ingested
    BY <1>2, <1>5 DEF Inv, CacheCovers, TypeOK
  <2>2. cachedBlock \in settled
    BY <1>1, <1>2, <1>5, <2>1, ReadBlocks DEF Smaller, TypeOK
  <2> HIDE DEF settled, recent
  <2> QED BY <1>1, <2>1, <2>2
<1>4. ASSUME cachedBlock = NoBlock, InitialBlock < head - 1 PROVE twice' = {}
  <2>1. ingested = {}
    BY <1>4 DEF Inv, CacheCovers
  <2>2. ASSUME NEW b \in settled, b \in recent \cup {head} PROVE FALSE
    <3>1. b \in Int /\ b <= CachedTo(head, InitialBlock)
      BY <1>2, <2>2, ReadBlocks
    <3>2. b >= Smaller(CachedTo(head, InitialBlock) + 1, head - 1)
      <4>1. CASE b \in recent
        BY <1>2, <3>1, <4>1, ReadBlocks
      <4>2. CASE b = head
        BY <1>2, <4>2, BlockAssumption, ReorgAssumption
        DEF TypeOK, Smaller, CachedTo, Larger
      <4> QED BY <2>2, <4>1, <4>2
    <3> QED BY <1>2, <1>4, <3>1, <3>2, BlockAssumption, ReorgAssumption
            DEF Smaller, CachedTo, Larger, TypeOK
  <2> HIDE DEF settled, recent
  <2> QED BY <1>1, <2>1, <2>2
<1>6. twice' \subseteq settled \cup recent \cup {head}
  <2> HIDE DEF settled, recent
  <2> QED BY <1>1
<1> HIDE DEF settled, recent
<1> QED BY <1>3, <1>4, <1>5, <1>6

\* Whatever the chain's length, the safety margin and the number of sessions: of the blocks the
\* cache's number covers a session reads again at most the last, exactly when none has settled
\* since; and a first session reads every block of an agent older than one block once.
THEOREM LastSettledReread == Spec => RereadsLastSettled
<1> DEFINE covered == {b \in twice' : InitialBlock <= b /\ b <= cachedBlock}
<1>1. ASSUME Inv, Start
      PROVE  /\ covered \subseteq {cachedBlock}
             /\ covered # {} <=> cachedBlock # NoBlock /\ cachedBlock' = cachedBlock
             /\ cachedBlock = NoBlock /\ InitialBlock < head - 1 => twice' = {}
  <2>1. covered \subseteq {cachedBlock}
    BY <1>1, StartRereads
  <2>2. ASSUME NEW b \in covered PROVE cachedBlock # NoBlock /\ cachedBlock' = cachedBlock
    <3>1. InitialBlock <= cachedBlock /\ cachedBlock' = cachedBlock
      BY <1>1, <2>2, StartRereads
    <3> QED BY <3>1, BlockAssumption DEF NoBlock
  <2>3. ASSUME cachedBlock # NoBlock, cachedBlock' = cachedBlock PROVE covered # {}
    <3>1. cachedBlock \in twice' /\ InitialBlock <= cachedBlock /\ cachedBlock <= cachedBlock
      BY <1>1, <2>3, StartRereads DEF Inv, TypeOK, CacheCovers
    <3> QED BY <3>1
  <2>4. cachedBlock = NoBlock /\ InitialBlock < head - 1 => twice' = {}
    BY <1>1, StartRereads
  <2> HIDE DEF covered
  <2> QED BY <2>1, <2>2, <2>3, <2>4
<1>2. Inv /\ [Next]_vars =>
        [~running /\ running' =>
           /\ covered \subseteq {cachedBlock}
           /\ covered # {} <=> cachedBlock # NoBlock /\ cachedBlock' = cachedBlock
           /\ cachedBlock = NoBlock /\ InitialBlock < head - 1 => twice' = {}]_vars
  <2> HIDE DEF covered
  <2> QED BY <1>1 DEF Next, Mine, Stop
<1>3. [~running /\ running' =>
           /\ covered \subseteq {cachedBlock}
           /\ covered # {} <=> cachedBlock # NoBlock /\ cachedBlock' = cachedBlock
           /\ cachedBlock = NoBlock /\ InitialBlock < head - 1 => twice' = {}]_vars
      => [~running /\ running' =>
            LET c == {b \in twice' : InitialBlock <= b /\ b <= cachedBlock}
            IN  /\ c \subseteq {cachedBlock}
                /\ c # {} <=> cachedBlock # NoBlock /\ cachedBlock' = cachedBlock
                /\ cachedBlock = NoBlock /\ InitialBlock < head - 1 => twice' = {}]_vars
  OBVIOUS
<1> QED BY <1>2, <1>3, InvAlways, PTL DEF Spec, RereadsLastSettled
=============================================================================
