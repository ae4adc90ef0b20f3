----------------------------- MODULE SyncRanges -----------------------------
(***************************************************************************)
(* The block ranges subscribeToExternals (app/src/store/helpers.js) reads: *)
(* settled past blocks, recent past blocks and live blocks.                *)
(***************************************************************************)
EXTENDS Integers

CONSTANT ReorgSafetyAge   \* REORG_SAFETY_BLOCK_AGE, 100 in the code

ASSUME ReorgAssumption == ReorgSafetyAge \in Nat /\ ReorgSafetyAge >= 2

Larger(a, b) == IF a >= b THEN a ELSE b    \* Math.max
Smaller(a, b) == IF a <= b THEN a ELSE b   \* Math.min

NoBlock == 0   \* cachedBlockNumber is null (no cache), falsy like 0

\* Mutation: the reorganisation margin is added instead of subtracted.
CachedToAhead(current, initial) == Larger(current + ReorgSafetyAge, initial)

\* The last block old enough not to be reorganised, clamped to the initial block.
CachedTo(current, initial) == Larger(current - ReorgSafetyAge, initial)

\* Mutation: the resumed range goes back one block before the cached one.
CachedFromBefore(cachedBlock, current, initial) ==
  IF cachedBlock # NoBlock
  THEN Smaller(cachedBlock - 1, CachedTo(current, initial))
  ELSE initial

CachedFrom(cachedBlock, current, initial) ==
  IF cachedBlock # NoBlock
  THEN Smaller(cachedBlock + 1, CachedTo(current, initial))
  ELSE initial

RecentTo(current) == current - 1

\* Mutation: the recent range starts one block late.
RecentFromLate(current, initial) == Smaller(CachedTo(current, initial) + 2, RecentTo(current))

RecentFrom(current, initial) == Smaller(CachedTo(current, initial) + 1, RecentTo(current))

\* The three ranges: past cached, past non-cached; live events start at `current`.
CachedRange(cachedBlock, current, initial) ==
  CachedFrom(cachedBlock, current, initial)..CachedTo(current, initial)
RecentRange(current, initial) == RecentFrom(current, initial)..RecentTo(current)
=============================================================================
