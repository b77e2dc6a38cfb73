--------------------------- MODULE MCCopyIntents ---------------------------
(***************************************************************************)
(* Small instances of CopyIntents for TLC.                                 *)
(***************************************************************************)
EXTENDS CopyIntents

CONSTANTS u1, t1, t2, q1, q2

Auto(t, q)  == [mode |-> "AUTO_BUY", user |-> u1, trade |-> t, side |-> "BUY", quote |-> q]
Sheet(t, q) == [mode |-> "CONFIRM_EACH", user |-> u1, trade |-> t, side |-> "BUY", quote |-> q]
Sell(t, q)  == [mode |-> "CONFIRM_EACH", user |-> u1, trade |-> t, side |-> "SELL", quote |-> q]

OneUser   == {u1}
TwoTrades == {t1, t2}
TwoQuotes == {q1, q2}
Amounts   == [q \in TwoQuotes |-> IF q = q1 THEN 2 ELSE 1]

\* One source trade, asked for by both paths: the two intents share a replay key.
BothPaths == {Auto(t1, q1), Sheet(t1, q2)}

\* One source trade, quoted twice to the executor.
TwoQuotesOneTrade == {Auto(t1, q1), Auto(t1, q2)}

\* Two source trades whose buys together exceed the cap.
TwoBuys == {Auto(t1, q1), Sheet(t2, q2)}

TwoSheetBuys == {Sheet(t1, q1), Sheet(t2, q2)}

\* One source trade bought by the executor, and a sale from a sheet beside it.
BuyAndSell == {Auto(t1, q1), Sell(t1, q2)}
=============================================================================
