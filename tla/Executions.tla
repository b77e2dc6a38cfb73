----------------------------- MODULE Executions ----------------------------
(***************************************************************************)
(* Automatic copy orders of the trading library: a reservation of the      *)
(* day's budget in SQLite, the authorization of the user's profile, one    *)
(* signature and one broadcast.                                            *)
(*                                                                         *)
(* The same order may be dispatched by several calls at a time and again   *)
(* after a crash; each call holds an order object of its own, rebuilt from *)
(* the same match and quote, so only the reservation is shared.  Where a   *)
(* call stands is also its order's state: QUOTED until it is checked,      *)
(* AWAITING_APPROVAL until it is signed, then SIGNED and SUBMITTED.        *)
(***************************************************************************)
EXTENDS Integers, Functions

CONSTANTS
  Orders,     \* order ids of one user: deterministicId(match, quote)
  Amount,     \* Amount[o]: what it spends
  MaxPerDay,  \* the profile's daily cap
  Days,       \* the days a dispatch may be asked for
  Calls       \* the dispatches that may be in flight at a time

VARIABLES
  state,  \* execution_reservations.state of each order, "NONE" without a row
  day,    \* execution_reservations.utc_day
  call,   \* each dispatch: the await it stands at, and its order
  sent    \* history: how often an order's transaction reached the network

vars == <<state, day, call, sent>>

Held   == {"RESERVED", "SIGNING", "SUBMITTED"}
Awaits == {"idle", "reserved", "refused", "approved", "signing", "signed", "submitted"}

TypeOK ==
  /\ state \in [Orders -> Held \cup {"NONE", "RELEASED"}]
  /\ day \in [Orders -> Days]
  /\ call \in [Calls -> [at: Awaits, order: Orders]]
  /\ sent \in [Orders -> Nat]

Init ==
  /\ state = [o \in Orders |-> "NONE"]
  /\ day \in [Orders -> Days]
  /\ call \in [Calls -> [at: {"idle"}, order: Orders]]
  /\ sent = [o \in Orders |-> 0]

-----------------------------------------------------------------------------
\* A call moves on, or ends, and leaves the reservations alone or marks its own.
Go(c, from, to) ==
  /\ call[c].at = from
  /\ call' = [call EXCEPT ![c].at = to]
  /\ UNCHANGED day

MarkIf(o, from, to) == state' = [state EXCEPT ![o] = IF @ = from THEN to ELSE @]

HeldOn(d) == {o \in Orders : state[o] \in Held /\ day[o] = d}
UsedOn(d) == SumFunctionOnSet(Amount, HeldOn(d))

\* An order with a row is a duplicate, whatever became of it.
Duplicate(o) == state[o] # "NONE"

Exceeds(o, d) == UsedOn(d) + Amount[o] > MaxPerDay

\* reserveExecutionSpend: one immediate transaction, which a duplicate or the cap leaves empty.
Reserve(c) ==
  /\ call[c].at = "idle"
  /\ \E o \in Orders, d \in Days :
       \/ (Duplicate(o) \/ Exceeds(o, d)) /\ UNCHANGED <<state, day, call>>
       \/ /\ ~Duplicate(o) /\ ~Exceeds(o, d)
          /\ state' = [state EXCEPT ![o] = "RESERVED"]
          /\ day' = [day EXCEPT ![o] = d]
          /\ call' = [call EXCEPT ![c] = [at |-> "reserved", order |-> o]]
  /\ UNCHANGED sent

\* assertExecutionAuthorization and approve: the profile, the targets, the caps, a fresh quote.
Authorize(c) ==
  /\ Go(c, "reserved", "approved") \/ Go(c, "reserved", "refused")
  /\ UNCHANGED <<state, sent>>

Release(c) ==
  /\ Go(c, "refused", "idle")
  /\ MarkIf(call[c].order, "RESERVED", "RELEASED")
  /\ UNCHANGED sent

\* A row that is not RESERVED is a conflict, and the call throws.
MarkSigning(c) ==
  /\ Go(c, "approved", IF state[call[c].order] = "RESERVED" THEN "signing" ELSE "idle")
  /\ MarkIf(call[c].order, "RESERVED", "SIGNING")
  /\ UNCHANGED sent

\* The signer answers or throws.
Sign(c) ==
  /\ Go(c, "signing", "signed") \/ Go(c, "signing", "idle")
  /\ UNCHANGED <<state, sent>>

\* Faulty variant: a broadcast that throws gives the reservation back.
SubmitOrRelease(c) ==
  LET o == call[c].order
  IN  \/ Go(c, "signed", "submitted") /\ sent' = [sent EXCEPT ![o] = @ + 1] /\ UNCHANGED state
      \/ Go(c, "signed", "idle") /\ sent' \in {sent, [sent EXCEPT ![o] = @ + 1]} /\ MarkIf(o, "SIGNING", "RELEASED")

\* The broadcaster accepts, or throws before or after the network has the transaction.
Submit(c) ==
  LET o == call[c].order
  IN  /\ \/ Go(c, "signed", "submitted") /\ sent' = [sent EXCEPT ![o] = @ + 1]
         \/ Go(c, "signed", "idle") /\ sent' \in {sent, [sent EXCEPT ![o] = @ + 1]}
      /\ UNCHANGED state

MarkSubmitted(c) ==
  /\ Go(c, "submitted", "idle")
  /\ MarkIf(call[c].order, "SIGNING", "SUBMITTED")
  /\ UNCHANGED sent

\* The process dies with the call; the database stays.
Crash(c) ==
  /\ call[c].at # "idle" /\ Go(c, call[c].at, "idle")
  /\ UNCHANGED <<state, sent>>

-----------------------------------------------------------------------------
Next == \E c \in Calls :
  \/ Reserve(c) \/ Authorize(c) \/ Release(c) \/ MarkSigning(c)
  \/ Sign(c) \/ Submit(c) \/ MarkSubmitted(c) \/ Crash(c)

Spec == Init /\ [][Next]_vars

-----------------------------------------------------------------------------
\* However often an order is dispatched, at the same time or after a crash, its transaction is
\* broadcast at most once, and its budget is not given back if it may have been.
BroadcastOnce ==
  \A o \in Orders : sent[o] <= 1 /\ (sent[o] = 1 => state[o] \in {"SIGNING", "SUBMITTED"})

\* What is reserved, being signed or submitted on a day never exceeds the daily cap.
DayIsCapped == \A d \in Days : UsedOn(d) <= MaxPerDay
=============================================================================
