SPECIFICATION Spec
CONSTANTS
  None = None
  Catalogue <- TwoTokens
  FirstListed <- SecondListed
  SuperTokens <- AllSuperTokens
  Underlying <- UnderlyingOf
  Addresses <- AllAddresses
  DecimalsOf <- Decimal
  BalanceOf <- Balances
  Typed <- TypedTexts
  Amounts <- SomeNumerals
  DefaultDecimals = 3
  MaxOpens = 1
  MaxLookups = 2
  MaxTxs = 1
  MaxNews = 1
INVARIANT UpgradeOfPicked
CHECK_DEADLOCK FALSE
