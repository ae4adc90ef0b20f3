SPECIFICATION Spec
CONSTANTS
  a1 = a1  a2 = a2  e1 = e1  e2 = e2  t1 = t1  None = None
  Agents <- TwoAgents
  Entities <- OneEntity
  Tokens <- OneToken
  PresetTokens <- NoTokens
  VaultAmounts <- NoAmounts
  InitialBlock = 1
  ReorgSafetyAge = 2
  MaxRate = 1
  MaxBlocks = 4
  MaxSessions = 2
  AgentChanges = TRUE
  Failures = FALSE
INVARIANTS StateOfContractAgent
CHECK_DEADLOCK FALSE
