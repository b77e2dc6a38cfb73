SPECIFICATION FairSpec
CONSTANTS
  o1 = o1
  o2 = o2
  ticker = ticker
  Log <- OneThenTwo
  Ticker <- Alike
  RuleOwner <- TwoOwners
  Threshold <- TwoStrings
  Wants <- TheLaunch
  SignedIn <- OneHolder
  CountFloor = 1
  MaxBlocks = 2
  MaxLaunches = 1
  Capacity = 2
  Batch = 1
  ReadAttempts = 2
  MaxHead = 2
  MaxLost = 0
  MaxCrashes = 0
PROPERTY
  LinesGetThrough
