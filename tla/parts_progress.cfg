SPECIFICATION MCSpec
CONSTANTS
  u1 = u1
  w1 = w1
  a1 = a1
  a2 = a2
  Users <- OneUser
  WalletOf <- OneWallet
  Admins <- TwoAdmins
  Asked <- TheirAsks
  g0 = g0
  l1 = l1
  l2 = l2
  r1 = r1
  r2 = r2
  t1 = t1
  t2 = t2
  NoBlock = NoBlock
  Hashes <- TwoBranches
  HeightOf <- TheirHeight
  ParentOf <- TheirParent
  Carried <- TheirTrades
  Traded <- TwoTrades
  Readable <- OneReadable
  UpdateIds <- OneUpdate
  ClassOf <- ItIsMetered
  ActionsOf <- TwoActions
  Wordings <- TwoWordings
  Handlers <- TwoHandlers
  RenderLease = 1
  PlacesAWindow = 1
  Nobody = Nobody
  Transfers <- FourTrades
  BlockAt <- TheirBlock
  BuyerAt <- TheirBuyer
  Seller = Seller
  Untold <- LineOfTwo
  MaxHead = 2
  MaxBlocks = 2
  MaxLogs = 3
  LinesAWindow = 2
  Notice = Notice
  c1 = c1
  c2 = c2
  c3 = c3
INVARIANT
  NothingBeforeConsent
  PauseHolds
  LiveIsCanonical
  AnsweredOnce
  FeedIsTrue
PROPERTY
  TradesAreSeen
  PassesSettle
  IsAnswered
  BuysAreHeard
  CallsSettle
CHECK_DEADLOCK FALSE
