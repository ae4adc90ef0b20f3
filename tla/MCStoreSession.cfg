SPECIFICATION FairSpec
CONSTANTS
  a1 = a1  a2 = a2  e1 = e1  e2 = e2  t1 = t1  None = None
  Agents <- OneAgent
  Entities <- OneEntity
  Tokens <- OneToken
  PresetTokens <- OneToken
  VaultAmounts <- OneAmount
  InitialBlock = 1
  ReorgSafetyAge = 2
  MaxRate = 2
  MaxBlocks = 4
  MaxSessions = 1
  AgentChanges = FALSE
  Failures = TRUE
INVARIANTS TypeOK MirrorsChain HistoryExact CardsMatchFlows
PROPERTIES SyncEnds EventuallyMirrors
CHECK_DEADLOCK FALSE
