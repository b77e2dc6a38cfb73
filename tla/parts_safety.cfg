SPECIFICATION MCSpec
CONSTANTS
  Runtimes <- Four
  Retrying <- Two
  Nobody = Nobody
  r1 = r1
  r2 = r2
  r3 = r3
  r4 = r4
  a1 = a1
  a2 = a2
  b1 = b1
  b2 = b2
  c1 = c1
  c2 = c2
  d1 = d1
  d2 = d2
  Nil = Nil
  NoFile = NoFile
  Torn = Torn
  Unset = Nil
  Launched = {1, 2, 3}
  BlockOf <- LaunchBlocks
  CreatorOf <- LaunchCreators
  LastBlock = 3
  FirstBlock = 1
  RoundBlocks = 2
  RowsPerPage = 2
  RowsListed = 1
  Requests = {a1}
  Publishable = {1, 2, 3}
  OldRows = {}
  Snaps = {2}
  WallRows = 2
  Holes = {}
  Flights = {1, 2}
  TokenAddresses = {a1, a2}
  Venues = {b1}
  Pages = {c1}
  Genuine = {a1}
  MaxEdits = 1
  ToCollect = {1, 2, 3}
  ChainEnd = 5
  ForkedAt = 3
  OnBranch <- AfterTheFork
  TokenSays <- SaidAtState
  LaunchedBy <- CreatedBy
  TimeOf <- BlockTimes
  DayLength = 5
  WindowsAsked <- ReportsAskedFor
  PageBlocks = 4
  AnswerLimit = 1
  CallTokens = 2
  BranchFlips = 1
  HeaderTries = 1
  SaidShapes <- LaunchShapes
  MostLaunches = 3
  LinkFields <- LinkOrder
  HostOfField <- FieldHosts
  HostFor <- HostAliases
  WordsEnough = 3
  Lines = {1, 2}
  Drains = {a1, a2}
  Limit = 1
  Lease = 1
  Budget = 2
  Losses = TRUE
  LastLease = 1
  Envelopes = {a1}
  MaxAge = 3
  Skew = 1
  Latency = 1
  Isolates = {b1, b2}
  LastVerified = 9
  Intents = {a1, a2}
  Expiry <- SubmissionExpiry
  MaxTtl = 2
  Submitters = {b1, b2}
  LastSubmission = 3
  Orders = {a1, a2}
  Amount <- OrderAmount
  MaxPerDay = 2
  Days = {1, 2}
  Dispatches = {b1, b2}
  Selling <- SellAmount
  Holding = 3
  Signals = {d1, d2}
  ConfirmButtons = {c1, c2}
  Taps = {b1, b2}
  Buyers = {a1}
  Rule <- BuyerRule
  Amounts = {21, 60}
  Balances = {100}
  UsedToday = {0}
  FeeAndTax = 300
  Unsold = 20
  CurveStart <- CurveAtFirst
  Ceilings <- LimitChoices
  Others = {40}
  Refunds = {0, 1}
  Members = {a1, a2}
  Fills = {b1, b2}
  Trader <- FillTrader
  TradedAt <- FillSecond
  Fee <- FillFee
  Shares = {3000, 7000}
  DefaultShare = 2000
  HardCap = 6000
  Payouts = {1, 3}
  Minimum = 2
  LastSecond = 3
  MaxRates = 2
  Everyone = d1
  NoReferrer = Nil
  Absent = Nil
  Screens = {a1, a2}
  Offers = {b1, b2}
  Forged = {}
  Addresses = {a1, a2}
  Flows = {b1, b2}
  People = {a1}
  Wallets = {b1, b2}
  Marks = {c1}
  Checks = {d1, d2}
  Edits = {c2}
  HolderTokens <- WalletTokens
  Threshold = 2
  MaxWatched = 1
  Generations = 2
  RuleChecks = {a1}
  Asks = {b1}
INVARIANT
  TypesOK
  PreviousIsStored
  OrdersAreSafe
  SellsAreSafe
  BuysAreSafe
  AccruedAtItsRate
  HandoversAreSafe
  SheetsAreSafe
  WalletsAreKept
  HoldersAreSafe
  PairIsOne
  AcceptedIsChain
  ShownIsWall
  PagesAreWhole
  AllOrNothing
  CountsAreRight
PROPERTY
  ConfirmedIsShown
CHECK_DEADLOCK FALSE
