------------------------------ MODULE Referral -----------------------------
(***************************************************************************)
(* The referral ledger of the trading library: codes, one binding per      *)
(* invited user, overrides of the share made by the owner, the fee of each *)
(* finalized order with the accrual it gives rise to, and the payouts the  *)
(* owner prepares.  Every statement is a SQLite write of its own: nothing  *)
(* holds the fee and its accrual together when the process dies.           *)
(***************************************************************************)
EXTENDS Integers, FiniteSetsExt

CONSTANTS
  Users,         \* every user: each may own a code and be invited by another
  Orders,        \* orders whose fee becomes final
  Trader,        \* Trader[o]: the user whose order it is
  TradedAt,      \* TradedAt[o]: the second of its trade
  Fee,           \* Fee[o]: the fee in its receipt
  Shares,        \* shares an override may ask for, in basis points
  DefaultShare,  \* DEFAULT_REFERRAL_SHARE_BPS
  HardCap,       \* REFERRAL_SHARE_HARD_CAP_BPS
  Payouts,       \* amounts a payout may ask for
  Minimum,       \* payoutPolicy.minimumAmount
  Horizon,       \* bound: the last second
  MaxRates,      \* bound: overrides made
  Everyone,      \* referrer_user_id IS NULL
  None

VARIABLES
  now,      \* the clock
  active,   \* owners whose referral code is active
  referrer, \* referral_bindings: who invited each user
  rates,    \* referral_rates
  fees,     \* fee_events: the orders recorded
  accruals, \* referral_accruals: [order, to, share, amount]
  payouts   \* referral_payouts: [to, amount, at]

vars == <<now, active, referrer, rates, fees, accruals, payouts>>

TypeOK ==
  /\ now \in 1 .. Horizon /\ active \subseteq Users /\ fees \subseteq Orders
  /\ referrer \in [Users -> Users \cup {None}]
  /\ rates \subseteq [of: Users \cup {Everyone}, share: 0 .. HardCap, from: Nat]
  /\ accruals \subseteq [order: fees, to: Users, share: 0 .. HardCap, amount: Nat]
  /\ payouts \subseteq [to: Users, amount: Nat, at: 1 .. Horizon]

Init ==
  /\ now = 1
  /\ active = {}
  /\ referrer = [u \in Users |-> None]
  /\ rates = {} /\ fees = {} /\ accruals = {} /\ payouts = {}

-----------------------------------------------------------------------------
Tick ==
  /\ now < Horizon /\ now' = now + 1
  /\ UNCHANGED <<active, referrer, rates, fees, accruals, payouts>>

CreateCode(u) ==
  /\ u \notin active /\ active' = active \cup {u}
  /\ UNCHANGED <<now, referrer, rates, fees, accruals, payouts>>

\* One binding per invited user, for ever.
Bind(u, owner) ==
  /\ owner \in active /\ owner # u
  /\ referrer[u] = None
  /\ referrer' = [referrer EXCEPT ![u] = owner]
  /\ UNCHANGED <<now, active, rates, fees, accruals, payouts>>

\* Faulty variant: an override may reach back one second.
MayStartEarlier(from) == from >= now - 1

MayStart(from) == from >= now

\* Faulty variant: any share of the fee may be asked for.
MayReceiveAll(share) == share <= 10000

MayReceive(share) == share <= HardCap

SetOverride(u, share, from) ==
  /\ Cardinality(rates) < MaxRates
  /\ MayReceive(share)
  /\ MayStart(from)
  /\ rates' = rates \cup {[of |-> u, share |-> share, from |-> from]}
  /\ UNCHANGED <<now, active, referrer, fees, accruals, payouts>>

\* An override of the referrer before one of everyone, the latest first; a tie is broken the same
\* way every time.
RateAt(u, second) ==
  LET due(of) == {r \in rates : r.of = of /\ r.from <= second}
      own     == due(u) # {}
      rows    == IF own THEN due(u) ELSE due(Everyone)
  IN  IF rows = {} THEN DefaultShare
      ELSE (CHOOSE r \in rows : \A s \in rows : s.from <= r.from).share

ShareOf(o) == RateAt(referrer[Trader[o]], TradedAt[o])

\* A fee is recorded once; whoever records it again finds a duplicate.
Rewarded(o) ==
  /\ Fee[o] > 0
  /\ referrer[Trader[o]] # None
  /\ referrer[Trader[o]] \in active

\* The trade is final, so its second is over.  The process may die after the fee's insert.
RecordFinalizedFee(o) ==
  /\ TradedAt[o] < now
  /\ o \notin fees
  /\ fees' = fees \cup {o}
  /\ \/ /\ Rewarded(o)
        /\ LET share == ShareOf(o) IN
             accruals' = accruals \cup {[order |-> o, to |-> referrer[Trader[o]], share |-> share,
                                         amount |-> (Fee[o] * share) \div 10000]}
     \/ UNCHANGED accruals
  /\ UNCHANGED <<now, active, referrer, rates, payouts>>

Pending(u) == MapThenSumSet(LAMBDA a : a.amount, {a \in accruals : a.to = u})

\* The accruals a payout is prepared from stay pending.
PreparePayout(u, amount) ==
  /\ Minimum <= amount /\ amount <= Pending(u)
  /\ payouts' = payouts \cup {[to |-> u, amount |-> amount, at |-> now]}
  /\ UNCHANGED <<now, active, referrer, rates, fees, accruals>>

-----------------------------------------------------------------------------
Next ==
  \/ Tick
  \/ \E u \in Users : CreateCode(u)
  \/ \E u, owner \in Users : Bind(u, owner)
  \/ \E u \in Users \cup {Everyone}, share \in Shares, from \in 0 .. Horizon : SetOverride(u, share, from)
  \/ \E o \in Orders : RecordFinalizedFee(o)
  \/ \E u \in Users, amount \in Payouts : PreparePayout(u, amount)

Spec == Init /\ [][Next]_vars

-----------------------------------------------------------------------------
\* What was accrued is what the rates say of the second of the trade, and keeps being so: no
\* override made before or after the fee was recorded changes a trade that is over, and the
\* trader's referrer never receives more than the fee.
AccruedAtItsRate ==
  \A a \in accruals :
    /\ a.to = referrer[Trader[a.order]]
    /\ a.share = RateAt(a.to, TradedAt[a.order])
    /\ a.amount <= Fee[a.order]
=============================================================================
