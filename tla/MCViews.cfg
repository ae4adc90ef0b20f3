SPECIFICATION Spec
CONSTANTS
  ListTokens <- TwoTokens
  DayLength = 2
  Ranges <- DateRanges
  PageSize = 1
  MaxFlows = 2
  MaxNow = 3
  CardTokens <- ThreeCards
  RateToken <- RateTokens
  MaxVisible = 2
  RETRY_DELAY = 10
  RETRY_DELAY_MAX = 13
  MaxChanges = 3
  Balances = {0, 1, 3, 7, 12}
  NetFlows <- SomeFlows
  Prices <- SomePrices
  MaxClock = 8
  SecondsPerDay = 2
  DateRange = 9
  CardDays = 1
  IncomingDays = 2
  initialRetryTimer = 1
  increaseFactor = 3
  maxRetries = 3
  People <- TwoPeople
  Texts <- SomeTexts
  Found <- FoundFor
  Short = {"", "al"}
  MaxLookups = 3
INVARIANTS TypeOK ListedExactly PageExists RatesFollow SelectionInRange DepletionWithin ConvertedFloor
INVARIANTS SelectedIsValue BadgeSettles
PROPERTIES RatesArrive StartEnds
CHECK_DEADLOCK FALSE
