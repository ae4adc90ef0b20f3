---------------------------- MODULE SyncSessions ----------------------------
(***************************************************************************)
(* The background script over its sessions, reduced to which blocks have   *)
(* gone through the reducer.  A session (script.js, initializeState) reads *)
(* the ranges of SyncRanges and then follows the chain; on                 *)
(* SYNC_STATUS_SYNCING it notes cachedBlockNumber.  The cache this module  *)
(* assumes is a sound one: what a restart finds covers every block up to   *)
(* its cachedBlockNumber.  (FlowStore models the cache as it is.)          *)
(***************************************************************************)
EXTENDS SyncRanges

CONSTANTS
  InitialBlock,   \* the agent's initialization block
  MaxBlocks       \* bound: the length of the chain

ASSUME BlockAssumption ==
  InitialBlock \in Nat \ {0} /\ MaxBlocks \in Nat

VARIABLES
  head,         \* the chain's last block
  running,      \* is a session running?
  cachedBlock,  \* state.cachedBlockNumber, NoBlock if there is none
  ingested,     \* the blocks whose events are in the state
  twice         \* history: blocks the last session to start put through the reducer again

vars == <<head, running, cachedBlock, ingested, twice>>

Init ==
  /\ head = InitialBlock
  /\ running = FALSE
  /\ cachedBlock = NoBlock
  /\ ingested = {}
  /\ twice = {}

\* The chain grows; a running session sees the block as a live event.
Mine ==
  /\ head < MaxBlocks
  /\ head' = head + 1
  /\ ingested' = IF running THEN ingested \cup {head + 1} ELSE ingested
  /\ UNCHANGED <<running, cachedBlock, twice>>

\* initializeState and subscribeToExternals: all ranges of one session.  The state
\* then notes the last settled block, as SYNC_STATUS_SYNCING tells it.
Start ==
  LET settled == CachedRange(cachedBlock, head, InitialBlock)
      recent == RecentRange(head, InitialBlock)
      read == settled \cup recent \cup {head}
  IN  /\ ~running
      /\ running' = TRUE
      /\ ingested' = ingested \cup read
      /\ twice' = (ingested \cap read) \cup (settled \cap (recent \cup {head}))
      /\ cachedBlock' = CachedTo(head, InitialBlock)
      /\ UNCHANGED head

\* The page is closed; the cached state covers at least the blocks it says it does.
Stop ==
  /\ running
  /\ running' = FALSE
  /\ \E kept \in {0, head} :
       ingested' = {b \in ingested : b <= Larger(cachedBlock, kept)}
  /\ UNCHANGED <<head, cachedBlock, twice>>

Next == Mine \/ Start \/ Stop

Spec == Init /\ [][Next]_vars

\* Blocks are natural numbers and cachedBlockNumber is one the chain has reached.
TypeOK ==
  /\ head \in Nat /\ head >= InitialBlock
  /\ running \in BOOLEAN
  /\ cachedBlock \in Nat /\ cachedBlock <= head
  /\ ingested \subseteq Int
  /\ twice \subseteq Int

\* A running session has every block since the agent's initialization: the clamps of
\* subscribeToExternals leave no gap between the ranges, in this session or between
\* this one and those before it.
NoBlockSkipped == running => InitialBlock..head \subseteq ingested

\* Of the blocks the cache's number covers a session reads again the last one and no other,
\* and it does so exactly when no further block has settled since: Math.min in
\* subscribeToExternals then takes that block instead of an empty range.  (FlowStore shows what
\* updateFlows, which is not idempotent, makes of a replayed deletion.)  A first session on an
\* agent older than one block reads nothing twice.
RereadsLastSettled ==
  [][~running /\ running' =>
       LET covered == {b \in twice' : InitialBlock <= b /\ b <= cachedBlock}
       IN  /\ covered \subseteq {cachedBlock}
           /\ covered # {} <=> cachedBlock # NoBlock /\ cachedBlock' = cachedBlock
           /\ cachedBlock = NoBlock /\ InitialBlock < head - 1 => twice' = {}]_vars
=============================================================================
