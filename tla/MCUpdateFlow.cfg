SPECIFICATION Spec
CONSTANTS
  None = None
  Catalogue <- TwoTokens
  FirstStores <- Start
  SuperTokens <- AllSuperTokens
  Addresses <- AllAddresses
  DecimalsOf <- Decimal
  BalanceOf <- Balances
  Agent = "agent"
  Account = "me"
  Recipients = {"bob", "me"}
  Typed = {"cx"}
  Values = {4}
  Units = {2}
  OldRate = 1
  Period <- Periods
  Flows <- BothFlows
  Funds = {0, 3}
  MaxOpens = 2
  MaxLookups = 2
  MaxTxs = 1
  MaxNews = 1
INVARIANTS TypeOK FundsCover UpdateStaysUpdate DescriptionFits
PROPERTIES EditsNeverCrash
CHECK_DEADLOCK FALSE
