----------------------------- MODULE CurveBuys -----------------------------
(***************************************************************************)
(* From a confirmed source trade to a buy on a Pons curve: the dispatcher  *)
(* evaluates a user's rule, quotes the curve and builds a call; some time  *)
(* later the call reaches the contract LintchaPonsAutoBuy, which checks    *)
(* it against the user's limits and against the curve as it is by then.    *)
(*                                                                         *)
(* The quote is computed in JavaScript and checked again in Solidity; both *)
(* round towards zero at every division.  A transaction of the contract is *)
(* one step: it succeeds as a whole or changes nothing.                    *)
(***************************************************************************)
EXTENDS Integers

CONSTANTS
  Users,
  Rule,         \* Rule[u]: the copy rule, with its sizing policy
  Amounts,      \* what source trades amount to
  Balances,     \* what a user's wallet may hold when a trade is dispatched
  UsedToday,    \* what the dispatcher may believe a user has spent
  FeeAndTax,    \* feeBps + creatorTaxBps of the curve
  Reserved,     \* the tokens the curve does not sell
  Start,        \* its reserves at first
  Limits,       \* the limits a user may configure
  Others,       \* what others may put into the curve at a time
  Refunds,      \* what the curve may give back of one buy
  Days

VARIABLES
  curve,    \* its reserves, and whether it is live
  order,    \* each user's call on its way to the contract, and the reserves it was quoted at
  paused,   \* globalPaused
  limits,   \* limits[u], with expiresAt as a flag and the pause of the user
  spend,    \* dailySpend[u]
  day,      \* block.timestamp / 1 days
  paid,     \* history: what the contract took from each user on each day, refunds deducted
  allowed   \* history: the largest daily limit each user ever configured

vars == <<curve, order, paused, limits, spend, day, paid, allowed>>

BPS == 10000

Smallest(s) == CHOOSE x \in s : \A y \in s : x <= y

NoOrder  == [amount |-> 0, min |-> 0, at |-> Start]
NoLimits == [perTrade |-> 0, daily |-> 0, slippage |-> 0, active |-> FALSE, paused |-> FALSE]

TypeOK ==
  /\ curve \in [quote: Nat, token: Nat, live: BOOLEAN] /\ curve.token >= Reserved
  /\ order \in [Users -> [amount: Nat, min: Nat, at: [quote: Nat, token: Nat, live: BOOLEAN]]]
  /\ limits \in [Users -> [perTrade: Nat, daily: Nat, slippage: 0 .. BPS, active: BOOLEAN, paused: BOOLEAN]]
  /\ spend \in [Users -> [day: {0} \cup Days, amount: Nat]] /\ day \in Days /\ paused \in BOOLEAN
  /\ paid \in [Users -> [Days -> Nat]] /\ allowed \in [Users -> Nat]

Init ==
  /\ curve = Start /\ day = 1 /\ paused = TRUE
  /\ order = [u \in Users |-> NoOrder]
  /\ limits = [u \in Users |-> NoLimits]
  /\ spend = [u \in Users |-> [day |-> 0, amount |-> 0]]
  /\ paid = [u \in Users |-> [d \in Days |-> 0]]
  /\ allowed = [u \in Users |-> 0]

-----------------------------------------------------------------------------
(***************************************************************************)
(* The dispatcher.                                                         *)
(***************************************************************************)
Desired(r, source, balance) ==
  CASE r.policy = "FIXED_QUOTE"     -> r.value
    [] r.policy = "SOURCE_RATIO"    -> (source * r.value) \div BPS
    [] r.policy = "BALANCE_PERCENT" -> (balance * r.value) \div BPS

\* evaluateRule: the user's own amount, 0 when the trade is skipped.
OwnAmount(r, source, balance, used) ==
  LET capped == Smallest({Desired(r, source, balance), r.perTrade, r.perDay - used})
  IN  IF source < r.minSource \/ used >= r.perDay \/ balance < capped THEN 0 ELSE capped

NetInput(amount) == (amount * (BPS - FeeAndTax)) \div BPS

Output(net, c) == (net * c.token) \div (c.quote + net)

\* Faulty variant: the venue's fee is forgotten.
ExpectedBeforeFees(amount, c) == Output(amount, c)

Expected(amount, c) == Output(NetInput(amount), c)

MinimumOutput(expected, slippage) == (expected * (BPS - slippage)) \div BPS

Impact(amount, c) ==
  LET spot == (NetInput(amount) * c.token) \div c.quote
  IN  IF Expected(amount, c) >= spot THEN 0 ELSE ((spot - Expected(amount, c)) * BPS) \div spot

\* A quote is refused when there is nothing to buy or to sell, and when the impact is too large.
Quotes(r, amount, c) ==
  /\ c.live /\ amount > 0 /\ NetInput(amount) > 0
  /\ Expected(amount, c) \in 1 .. c.token - Reserved
  /\ Impact(amount, c) <= r.impact

\* A BUY for a subscription in AUTO_BUY; everything else it notifies, skips or rejects changes
\* nothing here.
Dispatch(u) ==
  \E source \in Amounts, balance \in Balances, used \in UsedToday :
    LET amount == OwnAmount(Rule[u], source, balance, used)
        min    == MinimumOutput(Expected(amount, curve), Rule[u].slippage)
    IN  /\ order[u] = NoOrder
        /\ Quotes(Rule[u], amount, curve) /\ min > 0
        /\ order' = [order EXCEPT ![u] = [amount |-> amount, min |-> min, at |-> curve]]
        /\ UNCHANGED <<curve, paused, limits, spend, day, paid, allowed>>

-----------------------------------------------------------------------------
(***************************************************************************)
(* The contract.                                                           *)
(***************************************************************************)
SetGlobalPaused ==
  /\ paused' \in BOOLEAN
  /\ UNCHANGED <<curve, order, limits, spend, day, paid, allowed>>

\* configure: new limits are not paused; the day's spend stays.
Configure(u) ==
  \E l \in Limits :
    /\ limits' = [limits EXCEPT ![u] = [perTrade |-> l.perTrade, daily |-> l.daily, slippage |-> l.slippage,
                                        active |-> TRUE, paused |-> FALSE]]
    /\ allowed' = [allowed EXCEPT ![u] = IF l.daily > @ THEN l.daily ELSE @]
    /\ UNCHANGED <<curve, order, paused, spend, day, paid>>

SetUserPaused(u) ==
  /\ limits[u] # NoLimits
  /\ \E p \in BOOLEAN : limits' = [limits EXCEPT ![u].paused = p]
  /\ UNCHANGED <<curve, order, paused, spend, day, paid, allowed>>

\* _validateOutput.
Accepts(amount, min, c, slippage) ==
  LET expected == Output((amount * (BPS - FeeAndTax)) \div BPS, c)
  IN  /\ expected <= c.token - Reserved
      /\ min \in (expected * (BPS - slippage)) \div BPS .. expected

Used(u) == IF spend[u].day = day THEN spend[u].amount ELSE 0

\* buy: the curve may give a part back; it hands out the minimum or reverts.
Buy(u) ==
  LET o    == order[u]
      used == Used(u)
  IN  /\ o # NoOrder
      /\ ~paused /\ limits[u].active /\ ~limits[u].paused
      /\ o.amount <= limits[u].perTrade /\ used + o.amount <= limits[u].daily
      /\ curve.live /\ Accepts(o.amount, o.min, curve, limits[u].slippage)
      /\ \E refund \in Refunds :
           LET kept == o.amount - refund
           IN  /\ kept > 0 /\ Expected(kept, curve) >= o.min
               /\ curve' = [curve EXCEPT !.quote = @ + NetInput(kept), !.token = @ - Expected(kept, curve)]
               /\ spend' = [spend EXCEPT ![u] = [day |-> day, amount |-> used + kept]]
               /\ paid' = [paid EXCEPT ![u][day] = @ + kept]
      /\ order' = [order EXCEPT ![u] = NoOrder]
      /\ UNCHANGED <<paused, limits, day, allowed>>

-----------------------------------------------------------------------------
(***************************************************************************)
(* Everybody else.                                                         *)
(***************************************************************************)

\* A transaction that reverts, or is never sent.
Revert(u) ==
  /\ order[u] # NoOrder
  /\ order' = [order EXCEPT ![u] = NoOrder]
  /\ UNCHANGED <<curve, paused, limits, spend, day, paid, allowed>>

OthersTrade ==
  /\ \/ \E a \in Others :
          /\ curve.live /\ curve.quote + a <= 2 * Start.quote
          /\ curve' = [curve EXCEPT !.quote = @ + a, !.token = @ - Output(a, curve)]
     \/ curve' = [curve EXCEPT !.live = FALSE]
  /\ UNCHANGED <<order, paused, limits, spend, day, paid, allowed>>

Time ==
  /\ \/ day + 1 \in Days /\ day' = day + 1 /\ UNCHANGED limits
     \/ \E u \in Users : limits' = [limits EXCEPT ![u].active = FALSE] /\ UNCHANGED day
  /\ UNCHANGED <<curve, order, paused, spend, paid, allowed>>

Next ==
  \/ \E u \in Users : Dispatch(u) \/ Configure(u) \/ SetUserPaused(u) \/ Buy(u) \/ Revert(u)
  \/ SetGlobalPaused \/ OthersTrade \/ Time

Spec == Init /\ [][Next]_vars

-----------------------------------------------------------------------------
\* What the quote engine offers, the contract accepts as long as the curve has not moved and the
\* user's slippage limit is not below the rule's: the two computations, and their roundings, agree.
QuoteIsAccepted ==
  \A u \in Users :
    order[u] # NoOrder /\ order[u].at = curve /\ limits[u].slippage >= Rule[u].slippage =>
      Accepts(order[u].amount, order[u].min, curve, limits[u].slippage)

\* However limits are changed, refunds come back and days pass, a user pays on one day no more than
\* the largest daily limit they ever set, and what the contract has recorded is what they paid.
PaidIsRecorded ==
  \A u \in Users :
    /\ \A d \in Days : paid[u][d] <= allowed[u]
    /\ spend[u].day \in Days => paid[u][spend[u].day] = spend[u].amount
=============================================================================
