SPECIFICATION Spec
CONSTANTS
  o1 = o1
  o2 = o2
  ticker = ticker
  Log <- ThreeBlocks
  Ticker <- Alike
  RuleOwner <- OneRule
  Threshold <- OneString
  Wants <- TheSecond
  SignedIn = {}
  CountFloor = 2
  MaxBlocks = 3
  MaxLaunches = 2
  Capacity = 2
  Batch = 1
  ReadAttempts = 1
  MaxHead = 3
  MaxLost = 0
  MaxCrashes = 1
INVARIANT
  NoLineTwice
