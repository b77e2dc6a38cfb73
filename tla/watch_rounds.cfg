SPECIFICATION Spec
CONSTANTS
  o1 = o1
  o2 = o2
  ticker = ticker
  Log <- TwoBlocks
  Ticker <- OneTicker
  RuleOwner <- OneOwner
  Threshold <- StringAndShared
  Wants <- TheFirst
  SignedIn = {}
  CountFloor = 1
  MaxBlocks = 2
  MaxLaunches = 2
  Capacity = 1
  Batch = 1
  ReadAttempts = 2
  MaxHead = 2
  MaxLost = 1
  MaxCrashes = 1
INVARIANT
  OnceUnlessPruned
  NothingMissed
  LedgerIsTrue
