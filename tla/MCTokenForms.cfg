SPECIFICATION Spec
CONSTANTS
  None = None
  Catalogue <- TwoTokens
  FirstListed <- SecondListed
  SuperTokens <- AllSuperTokens
  Underlying <- UnderlyingOf
  Addresses <- AllAddresses
  DecimalsOf <- Decimal
  BalanceOf <- Balances
  Typed <- TypedTexts
  Amounts <- SomeNumerals
  DefaultDecimals = 3
  MaxOpens = 2
  MaxLookups = 2
  MaxTxs = 2
  MaxNews = 1
INVARIANTS TypeOK SelectionConsistent SentIsPicked AmountExact MaxSendsAll WaitIsPending
PROPERTIES WaitEnds
CHECK_DEADLOCK FALSE
