SPECIFICATION Spec
CONSTANTS
  u1 = u1  a1 = a1  a2 = a2  other = other  t1 = t1
  Accounts <- MCAccounts
  Agents <- MCAgents
  GrantedAgents <- MCAgents
  OtherContracts <- MCOther
  SuperTokens <- MCTokens
  HostAnswering <- MCAnswering
  App = App
  Host = Host
  Cfa = Cfa
  NoAgent = NoAgent
  StreamManagers <- MCManagers
  TokenManagers <- MCManagers
  AgentSetters <- MCManagers
  Endowment = 1
  Period = 1
  MaxAmount = 1
  MaxRate = 1
INVARIANTS TypeOK PassThrough NoStandingAllowance
PROPERTIES ReplacedAgentFrozen ImplementsTreasury
SYMMETRY MCSymmetry
