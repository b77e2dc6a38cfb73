---------------------------- MODULE ManualSells ----------------------------
(***************************************************************************)
(* Sells a user reviews and confirms in Telegram: a button of a signal     *)
(* leads to a review, the review stores an intent and issues a button, and *)
(* that button claims the intent, signs and broadcasts.                    *)
(*                                                                         *)
(* Buttons live in the memory of the process, intents in SQLite.  A button *)
(* may be tapped twice, an intent may have several buttons, and every call *)
(* goes on with what it read before its last await.                        *)
(***************************************************************************)
EXTENDS Integers, Functions

CONSTANTS
  Orders,   \* sell orders of one user and token: a quote each
  Amount,   \* Amount[o]: what it sells
  Holding,  \* the position when the process starts
  Signals,  \* buttons of signals
  Buttons,  \* confirmation buttons that may be issued
  Calls     \* the taps that may be in flight at a time

VARIABLES
  intent,   \* manual_sell_intents: the state of each order's row, "NONE" without one
  expired,  \* the orders whose quote has expired
  signal,   \* signalGuard: "pending" or "used"
  button,   \* callbackGuard and tokenIntent: each button and its order
  call,     \* each tap: the await it stands at, its order, its button, the balance it read
  balance,  \* the position on chain
  sent,     \* history: how often an order's transaction reached the network
  mined     \* the orders whose transaction was executed

vars == <<intent, expired, signal, button, call, balance, sent, mined>>

Active == {"AWAITING_CONFIRMATION", "SIGNING", "SUBMITTED"}
Awaits == {"idle", "event", "prepare", "prepared", "balance", "signing", "signed", "submitted"}
Idle   == [at: {"idle"}, order: Orders, button: Buttons, read: {0}]

TypeOK ==
  /\ intent \in [Orders -> Active \cup {"NONE", "EXPIRED"}]
  /\ expired \subseteq Orders /\ mined \subseteq Orders
  /\ signal \in [Signals -> {"pending", "used"}]
  /\ button \in [Buttons -> [is: {"unissued", "pending", "used"}, order: Orders]]
  /\ call \in [Calls -> [at: Awaits, order: Orders, button: Buttons, read: Nat]]
  /\ balance \in 0 .. Holding
  /\ sent \in [Orders -> Nat]

Init ==
  /\ intent = [o \in Orders |-> "NONE"]
  /\ expired = {} /\ mined = {}
  /\ signal = [s \in Signals |-> "pending"]
  /\ \E o \in Orders, b \in Buttons :
       /\ button = [x \in Buttons |-> [is |-> "unissued", order |-> o]]
       /\ call = [c \in Calls |-> [at |-> "idle", order |-> o, button |-> b, read |-> 0]]
  /\ balance = Holding
  /\ sent = [o \in Orders |-> 0]

-----------------------------------------------------------------------------
Total(os) == SumFunctionOnSet(Amount, os)

At(c, from) == call[c].at = from
To(c, to)   == call' = [call EXCEPT ![c].at = to, ![c].read = 0]
Outside     == UNCHANGED <<expired, balance, mined>>

\* A step of a call that leaves the table and the buttons alone.
Moves(c, from, to) == At(c, from) /\ To(c, to) /\ Outside /\ UNCHANGED <<intent, signal, button>>

-----------------------------------------------------------------------------
(***************************************************************************)
(* Review.                                                                 *)
(***************************************************************************)
OpenSignal(c) ==
  /\ At(c, "idle") /\ To(c, "event")
  /\ \E s \in Signals : signal[s] = "pending"
  /\ Outside /\ UNCHANGED <<intent, signal, button, sent>>

\* The event was read; it may no longer be eligible, or its button have been used by another tap.
ConsumeSignal(c) ==
  /\ \/ Moves(c, "event", "idle")
     \/ /\ At(c, "event") /\ To(c, "prepare")
        /\ \E s \in Signals : signal[s] = "pending" /\ signal' = [signal EXCEPT ![s] = "used"]
        /\ Outside /\ UNCHANGED <<intent, button>>
  /\ UNCHANGED sent

\* createSellOrder quotes an order and reads the balance.
Prepare(c) ==
  /\ At(c, "prepare")
  /\ \E o \in Orders : call' = [call EXCEPT ![c] = [@ EXCEPT !.at = "prepared", !.order = o, !.read = balance]]
  /\ Outside /\ UNCHANGED <<intent, signal, button, sent>>

Reserved(of) == {o \in Orders : of[o] \in Active}

Swept == [o \in Orders |-> IF intent[o] = "AWAITING_CONFIRMATION" /\ o \in expired THEN "EXPIRED" ELSE intent[o]]

\* createManualSellIntent, one transaction: what it sweeps is rolled back with what it refuses.
\* An intent that is still awaited gets another button.
Create(c) ==
  LET o == call[c].order
  IN  /\ At(c, "prepared") /\ To(c, "idle")
      /\ IF o \in expired \/ Amount[o] > call[c].read
           THEN UNCHANGED <<intent, button>>
         ELSE IF Swept[o] # "NONE"
           THEN /\ intent' = Swept
                /\ IF Swept[o] = "AWAITING_CONFIRMATION"
                     THEN \E b \in Buttons : button[b].is = "unissued"
                            /\ button' = [button EXCEPT ![b] = [is |-> "pending", order |-> o]]
                     ELSE UNCHANGED button
         ELSE IF Total(Reserved(Swept)) + Amount[o] > call[c].read
           THEN UNCHANGED <<intent, button>>
         ELSE /\ intent' = [Swept EXCEPT ![o] = "AWAITING_CONFIRMATION"]
              /\ \E b \in Buttons : button[b].is = "unissued"
                   /\ button' = [button EXCEPT ![b] = [is |-> "pending", order |-> o]]
      /\ Outside /\ UNCHANGED <<signal, sent>>

-----------------------------------------------------------------------------
(***************************************************************************)
(* Confirmation.                                                           *)
(***************************************************************************)
Expire(o) == intent' = [intent EXCEPT ![o] = IF @ = "AWAITING_CONFIRMATION" THEN "EXPIRED" ELSE @]

\* The intent is read, and expired if its time has come; else the balance is asked for.
Confirm(c) ==
  \E b \in Buttons :
    /\ At(c, "idle") /\ button[b].is = "pending"
    /\ IF button[b].order \in expired
         THEN Expire(button[b].order) /\ UNCHANGED call
         ELSE /\ call' = [call EXCEPT ![c] = [at |-> "balance", order |-> button[b].order, button |-> b, read |-> 0]]
              /\ UNCHANGED intent
    /\ Outside /\ UNCHANGED <<signal, button, sent>>

\* Faulty variant: the claim does not look at the state.
ClaimableWhenever(o) == TRUE

Claimable(o) == intent[o] = "AWAITING_CONFIRMATION"

\* The authorization and the age of the button may refuse.  Then the button is used up, once, and
\* the intent claimed, if it is still the revision that was read.
ConsumeAndClaim(c) ==
  LET o == call[c].order
  IN  /\ \/ Moves(c, "balance", "idle")
         \/ /\ At(c, "balance") /\ Amount[o] <= balance /\ button[call[c].button].is = "pending"
            /\ button' = [button EXCEPT ![call[c].button].is = "used"]
            /\ IF Claimable(o)
                 THEN To(c, "signing") /\ intent' = [intent EXCEPT ![o] = "SIGNING"]
                 ELSE To(c, "idle") /\ UNCHANGED intent
            /\ Outside /\ UNCHANGED signal
      /\ UNCHANGED sent

Sign(c) == (Moves(c, "signing", "signed") \/ Moves(c, "signing", "idle")) /\ UNCHANGED sent

\* The broadcaster accepts, or throws before or after the network has the transaction.
Submit(c) ==
  LET once == [sent EXCEPT ![call[c].order] = @ + 1]
  IN  \/ Moves(c, "signed", "submitted") /\ sent' = once
      \/ Moves(c, "signed", "idle") /\ sent' \in {sent, once}

MarkSubmitted(c) ==
  LET o == call[c].order
  IN  /\ At(c, "submitted") /\ To(c, "idle")
      /\ intent' = [intent EXCEPT ![o] = IF @ = "SIGNING" THEN "SUBMITTED" ELSE @]
      /\ Outside /\ UNCHANGED <<signal, button, sent>>

-----------------------------------------------------------------------------
(***************************************************************************)
(* The clock, the chain, the wallet, and a restart of the process.         *)
(***************************************************************************)
Lapse ==
  /\ expired' \in {expired \cup {o} : o \in Orders \ expired}
  /\ UNCHANGED <<intent, signal, button, call, balance, sent, mined>>

Mine ==
  \E o \in Orders \ mined :
    /\ sent[o] > 0 /\ Amount[o] <= balance
    /\ mined' = mined \cup {o} /\ balance' = balance - Amount[o]
    /\ UNCHANGED <<intent, expired, signal, button, call, sent>>

\* The user sells or moves a part by other means.
Withdraw ==
  /\ balance' \in 0 .. balance - 1
  /\ UNCHANGED <<intent, expired, signal, button, call, sent, mined>>

Restart ==
  /\ call' \in {[c \in Calls |-> [call[c] EXCEPT !.at = "idle", !.read = 0]]}
  /\ button' = [b \in Buttons |-> [button[b] EXCEPT !.is = IF @ = "pending" THEN "used" ELSE @]]
  /\ signal' = [s \in Signals |-> "used"]
  /\ Outside /\ UNCHANGED <<intent, sent>>

Next ==
  \/ \E c \in Calls :
       \/ OpenSignal(c) \/ ConsumeSignal(c) \/ Prepare(c) \/ Create(c) \/ Confirm(c)
       \/ ConsumeAndClaim(c) \/ Sign(c) \/ Submit(c) \/ MarkSubmitted(c)
  \/ Lapse \/ Mine \/ Withdraw \/ Restart

Spec == Init /\ [][Next]_vars

-----------------------------------------------------------------------------
\* However often a sell is reviewed and its buttons are tapped, it is broadcast at most once, and
\* no later review takes it for expired.
SellOnce == \A o \in Orders : sent[o] <= 1 /\ (sent[o] = 1 => intent[o] \in {"SIGNING", "SUBMITTED"})

\* The sells that reach the network never add up to more than the position: those in review at
\* the same time, on balances read at different times, share it.
NotOversold == Total({o \in Orders : sent[o] > 0}) <= Holding
=============================================================================
