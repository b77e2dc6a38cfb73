------------------------------ MODULE Trading -------------------------------
(***************************************************************************)
(* The ledgers of the trading library: automatic orders with their day's   *)
(* budget (Executions), sells that share a position (ManualSells), buys    *)
(* on a curve with the contract that checks them (CurveBuys), and what the *)
(* fees of final orders are worth to a referrer (Referral).                *)
(***************************************************************************)
EXTENDS Parts, Integers, FiniteSets

CONSTANTS
  Orders,                                                       \* of Executions and of ManualSells
  Days,                                                         \* of Executions and of CurveBuys
  Amount, MaxPerDay, Dispatches,                                \* of Executions, with its Calls
  Selling, Holding, Signals, ConfirmButtons, Taps,              \* of ManualSells, with its Amount, Buttons and Calls
  Buyers, Rule, Amounts, Balances, UsedToday, FeeAndTax,        \* of CurveBuys, with its Users and Limits
  Unsold, CurveStart, Ceilings, Others, Refunds,
  Members, Fills, Trader, TradedAt, Fee, Shares, DefaultShare,  \* of Referral, with its Users, Orders,
  HardCap, Payouts, Minimum, LastSecond, MaxRates, Everyone,    \* Horizon and None
  NoReferrer

\* Budgets are naturals.
ASSUME BudgetAssumption == Amount \in [Orders -> Nat] /\ MaxPerDay \in Nat
\* There are finitely many quotes, each for a number of units, and the position is such a number.
ASSUME PositionAssumption == IsFiniteSet(Orders) /\ Selling \in [Orders -> Nat] /\ Holding \in Nat
\* Amounts are naturals, slippages basis points, fee and tax below the whole, and the curve has
\* something to sell.
ASSUME BuysAssumption ==
  /\ Days \subseteq Nat /\ 1 \in Days
  /\ Amounts \cup Balances \cup UsedToday \cup Others \cup Refunds \subseteq Nat
  /\ FeeAndTax \in Nat /\ FeeAndTax < 10000 /\ Unsold \in Nat
  /\ CurveStart \in [quote: Nat \ {0}, token: Nat, live: BOOLEAN]
  /\ \A u \in Buyers :
       /\ Rule[u].policy \in {"FIXED_QUOTE", "SOURCE_RATIO", "BALANCE_PERCENT"}
       /\ {Rule[u].value, Rule[u].perTrade, Rule[u].perDay} \subseteq Nat
       /\ Rule[u].slippage \in Nat /\ Rule[u].slippage <= 10000
  /\ Ceilings \subseteq [perTrade: Nat, daily: Nat, slippage: Nat]
  /\ \A l \in Ceilings : l.slippage <= 10000
\* Shares are basis points within the hard cap, the default one among them, and the cap within the
\* whole; the clock and the fees are naturals, and nobody is called NoReferrer.
ASSUME RateAssumption ==
  /\ NoReferrer \notin Members
  /\ Trader \in [Fills -> Members] /\ TradedAt \in [Fills -> Nat] /\ Fee \in [Fills -> Nat]
  /\ Shares \subseteq Nat /\ HardCap \in Nat /\ HardCap <= 10000 /\ DefaultShare \in 0 .. HardCap

VARIABLES
  day,                                                  \* of Executions and of CurveBuys
  state,                                                \* of Executions
  intent, expired, signal, button, balance, mined,      \* of ManualSells
  curve, order, halted, limits, spend, paid, allowed,   \* of CurveBuys, with its paused
  active, referrer, rates, fees, accruals, payouts      \* of Referral

E == INSTANCE Executions WITH Calls <- Dispatches
M == INSTANCE ManualSells WITH Amount <- Selling, Buttons <- ConfirmButtons, Calls <- Taps
B == INSTANCE CurveBuys WITH Users <- Buyers, Limits <- Ceilings, Reserved <- Unsold, Start <- CurveStart, paused <- halted
F == INSTANCE Referral WITH Users <- Members, Orders <- Fills, Horizon <- LastSecond, None <- NoReferrer

TradingInit ==
  \/ part = "executions" /\ E!Init
  \/ part = "sells" /\ M!Init
  \/ part = "buys" /\ B!Init
  \/ part = "referral" /\ F!Init

TradingNext ==
  /\ UNCHANGED part
  /\ \/ part = "executions" /\ E!Next
     \/ part = "sells" /\ M!Next
     \/ part = "buys" /\ B!Next
     \/ part = "referral" /\ F!Next

TradingVars ==
  <<part, now, call, sent, state, day, intent, expired, signal, button, balance, mined,
    curve, order, halted, limits, spend, paid, allowed, active, referrer, rates, fees, accruals, payouts>>

TradingSpec == TradingInit /\ [][TradingNext]_TradingVars

-----------------------------------------------------------------------------
\* Executions.BroadcastOnce and DayIsCapped: one broadcast at most, within the day's cap.
OrdersAreSafe == part = "executions" => E!BroadcastOnce /\ E!DayIsCapped

\* ManualSells.SellOnce and NotOversold: one broadcast at most, within the position.
SellsAreSafe == part = "sells" => M!SellOnce /\ M!NotOversold

\* CurveBuys.QuoteIsAccepted and PaidIsRecorded: the two computations agree, and what was paid is what is recorded.
BuysAreSafe == part = "buys" => B!QuoteIsAccepted /\ B!PaidIsRecorded

\* Referral.AccruedAtItsRate.
AccruedAtItsRate == part = "referral" => F!AccruedAtItsRate
=============================================================================
