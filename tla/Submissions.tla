---------------------------- MODULE Submissions ----------------------------
(***************************************************************************)
(* The delegated executor: it claims an intent in its own D1 table, hands  *)
(* the transaction to the wallet provider and notes what came back.  Calls *)
(* for one intent may overlap or repeat; a call may die at every await.    *)
(***************************************************************************)
EXTENDS Naturals

CONSTANTS
  Intents,  \* intent ids
  Expiry,   \* Expiry[i]: expiresAt of its submission
  MaxTtl,   \* maxTtlSeconds
  Calls,    \* the calls that may be in flight
  Horizon   \* bound: the last second

VARIABLES
  now,    \* the executor's clock
  paused, \* not enabled, or globallyPaused
  row,    \* delegated_submissions.state, "NONE" without a row
  call,   \* each call: its step, its intent and what its caller was last told
  sent    \* history: how often an intent's transaction was sent

vars == <<now, paused, row, call, sent>>

Answers == {"none", "hash", "refused", "reconcile", "uncertain"}

TypeOK ==
  /\ now \in 0 .. Horizon /\ paused \in BOOLEAN
  /\ row \in [Intents -> {"NONE", "PENDING", "SUBMITTED", "UNCERTAIN"}]
  /\ call \in [Calls -> [at: {"idle", "checked", "claimed", "denied", "sent", "failed"}, intent: Intents, told: Answers]]
  /\ sent \in [Intents -> Nat]

Init ==
  /\ now = 0 /\ paused \in BOOLEAN
  /\ row = [i \in Intents |-> "NONE"]
  /\ call = [c \in Calls |-> [at |-> "idle", intent |-> CHOOSE i \in Intents : TRUE, told |-> "none"]]
  /\ sent = [i \in Intents |-> 0]

-----------------------------------------------------------------------------
Goto(c, from, to) == call[c].at = from /\ call' = [call EXCEPT ![c].at = to]
Tell(c, answer)   == call' = [call EXCEPT ![c].at = "idle", ![c].told = answer]

Tick      == now < Horizon /\ now' = now + 1 /\ UNCHANGED <<paused, row, call, sent>>
Configure == paused' = ~paused /\ UNCHANGED <<now, row, call, sent>>

Valid(i) == now < Expiry[i] /\ Expiry[i] <= now + MaxTtl

\* The kill switch and validateSubmission; the caller of a refusal is answered at once.
Submit(c, i) ==
  /\ call[c].at = "idle"
  /\ call' = [call EXCEPT ![c] = IF paused \/ ~Valid(i) THEN [at |-> "idle", intent |-> i, told |-> "refused"]
                                                       ELSE [at |-> "checked", intent |-> i, told |-> "none"]]
  /\ UNCHANGED <<now, paused, row, sent>>

\* Faulty variant: an intent whose first send is uncertain may be claimed again.
ClaimableIfUncertain(i) == row[i] \in {"NONE", "UNCERTAIN"}

Claimable(i) == row[i] = "NONE"

\* INSERT OR IGNORE.
Claim(c) ==
  LET i == call[c].intent
  IN  /\ IF Claimable(i)
           THEN Goto(c, "checked", "claimed") /\ row' = [row EXCEPT ![i] = "PENDING"]
           ELSE Goto(c, "checked", "denied") /\ UNCHANGED row
      /\ UNCHANGED <<now, paused, sent>>

\* The row of another call, read after the insert.
Denied(c) ==
  /\ call[c].at = "denied"
  /\ Tell(c, IF row[call[c].intent] = "SUBMITTED" THEN "hash" ELSE "reconcile")
  /\ UNCHANGED <<now, paused, row, sent>>

\* The provider answers with a hash, or the caller learns nothing of what it did.
Send(c) ==
  LET once == [sent EXCEPT ![call[c].intent] = @ + 1]
  IN  /\ \/ Goto(c, "claimed", "sent") /\ sent' = once
         \/ Goto(c, "claimed", "failed") /\ sent' \in {sent, once}
      /\ UNCHANGED <<now, paused, row>>

\* markSubmitted, or its failure, which is handled like one of the send.
MarkSubmitted(c) ==
  LET i == call[c].intent
  IN  /\ call[c].at = "sent"
      /\ \/ Tell(c, "hash") /\ row' = [row EXCEPT ![i] = IF @ = "PENDING" THEN "SUBMITTED" ELSE @]
         \/ Goto(c, "sent", "failed") /\ UNCHANGED row
      /\ UNCHANGED <<now, paused, sent>>

MarkUncertain(c) ==
  LET i == call[c].intent
  IN  /\ call[c].at = "failed"
      /\ Tell(c, "uncertain")
      /\ row' = [row EXCEPT ![i] = IF @ = "PENDING" THEN "UNCERTAIN" ELSE @]
      /\ UNCHANGED <<now, paused, sent>>

Die(c) ==
  /\ call[c].at # "idle" /\ Tell(c, "none")
  /\ UNCHANGED <<now, paused, row, sent>>

-----------------------------------------------------------------------------
Next ==
  \/ Tick \/ Configure
  \/ \E c \in Calls :
       \/ \E i \in Intents : Submit(c, i)
       \/ Claim(c) \/ Denied(c) \/ Send(c) \/ MarkSubmitted(c) \/ MarkUncertain(c) \/ Die(c)

Spec == Init /\ [][Next]_vars

-----------------------------------------------------------------------------
\* An intent's transaction is sent once, however its calls overlap, repeat or die, and a caller
\* is given a hash only for a transaction that was sent and whose row says so.
SentOnce ==
  /\ \A i \in Intents : sent[i] <= 1
  /\ \A c \in Calls : call[c].told = "hash" => sent[call[c].intent] = 1 /\ row[call[c].intent] = "SUBMITTED"
=============================================================================
