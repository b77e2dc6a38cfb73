SPECIFICATION Spec
CONSTANTS
  u1 = u1
  t1 = t1
  t2 = t2
  q1 = q1
  q2 = q2
  NoIntent = NoIntent
  Users <- OneUser
  Trades <- TwoTrades
  Quotes <- TwoQuotes
  Requests <- TwoQuotesOneTrade
  Amount <- Amounts
  ConfigCap = 2
  DelegatedCap = 2
  Ttl = 1
  Grace = 1
  DropDeadline = 1
  MaxTries = 2
  DayLength = 2
  MaxTime = 3
  MaxReorgs = 0
  Faults = {"audit"}
INVARIANT
  AutoBuyBroadcastOnce
