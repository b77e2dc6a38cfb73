---------------------------- MODULE CopyPromise ----------------------------
(***************************************************************************)
(* What the copy service promises about an intent, with none of the        *)
(* machinery that keeps the promise: no coordinator, no rows, no executor. *)
(*                                                                         *)
(* An intent is prepared, offered to its user or submitted, and then       *)
(* settles.  A buy holds part of its user's daily budget from preparation  *)
(* until it settles; it is spent exactly when the intent is confirmed, and *)
(* given back only when the intent is void or failed.                      *)
(***************************************************************************)
EXTENDS Integers, FiniteSets, Functions

CONSTANTS
  Intents,  \* the intents that may be asked for
  Buys,     \* those that spend the budget
  Key,      \* Key[i]: what i copies; two intents with one key are rivals
  Account,  \* Account[i]: whose budget i uses
  Wei,      \* Wei[i]: how much of it
  Budget,   \* the budget of an account for a day
  Days      \* the days there are

VARIABLES
  phase,    \* how far each intent is
  charge,   \* what it does to the budget
  day       \* the day whose budget it uses

promise == <<phase, charge, day>>

Phases  == {"none", "preparing", "offered", "submitted", "confirmed", "failed", "void",
            "review", "late"}
Charges == {"none", "held", "spent", "freed"}

\* A rival in one of these phases may still buy, or has bought: no second intent is prepared.
Engaged == {"preparing", "offered", "submitted", "confirmed", "review"}

Init ==
  /\ phase = [i \in Intents |-> "none"]
  /\ charge = [i \in Intents |-> "none"]
  /\ day = [i \in Intents |-> 0]

Used(i) ==
  SumFunctionOnSet(Wei,
    {j \in Intents : Account[j] = Account[i] /\ day[j] = day[i] /\ charge[j] \in {"held", "spent"}})

Prepare(i) ==
  /\ phase[i] = "none"
  /\ \A j \in Intents : Key[j] = Key[i] => phase[j] \notin Engaged
  /\ phase' = [phase EXCEPT ![i] = "preparing"]
  /\ \E d \in Days : day' = [day EXCEPT ![i] = d]
  /\ UNCHANGED charge

Hold(i) ==
  /\ phase[i] = "preparing"
  /\ i \in Buys
  /\ charge[i] = "none"
  /\ Used(i) + Wei[i] <= Budget
  /\ charge' = [charge EXCEPT ![i] = "held"]
  /\ UNCHANGED <<phase, day>>

Spend(i) ==
  /\ phase[i] = "submitted"
  /\ charge[i] = "held"
  /\ charge' = [charge EXCEPT ![i] = "spent"]
  /\ UNCHANGED <<phase, day>>

\* Giving back commits to void or failed: from here the intent can go nowhere else.
Free(i) ==
  /\ phase[i] \in {"preparing", "offered", "submitted"}
  /\ charge[i] = "held"
  /\ charge' = [charge EXCEPT ![i] = "freed"]
  /\ UNCHANGED <<phase, day>>

Move(i, from, to, charges) ==
  /\ phase[i] \in from
  /\ i \in Buys => charge[i] \in charges
  /\ phase' = [phase EXCEPT ![i] = to]
  /\ UNCHANGED <<charge, day>>

Offer(i)   == Move(i, {"preparing"}, "offered", {"held"})
Submit(i)  == Move(i, {"preparing", "offered"}, "submitted", {"held"})
Confirm(i) == Move(i, {"submitted"}, "confirmed", {"spent"})
Fail(i)    == Move(i, {"submitted"}, "failed", {"freed"})
Void(i)    == Move(i, {"preparing", "offered"}, "void", {"none", "freed"})
Review(i)  == Move(i, {"preparing", "submitted"}, "review", {"held"})

\* A report that comes after the intent was voided: looked at by a human, charged to nobody.
ReportLate(i) == Move(i, {"void"}, "late", {"freed"})

Next ==
  \E i \in Intents :
    \/ Prepare(i) \/ Offer(i) \/ Submit(i) \/ Confirm(i) \/ Fail(i) \/ Void(i)
    \/ Review(i) \/ ReportLate(i)
    \/ Hold(i) \/ Spend(i) \/ Free(i)

Spec == Init /\ [][Next]_promise
=============================================================================
