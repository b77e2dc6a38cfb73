----------------------------- MODULE Handovers ------------------------------
(***************************************************************************)
(* What one service hands another: lines of Copy that Core delivers        *)
(* (Outbox), signed calls between the two (SignedCalls), transactions the  *)
(* copy service asks the executor to send (Submissions).                   *)
(***************************************************************************)
EXTENDS Parts, Integers

CONSTANTS
  Lines, Drains, Limit, Lease, Budget, Losses, LastLease,      \* of Outbox, with its Rows and Horizon
  Envelopes, MaxAge, Skew, Latency, Isolates, LastVerified,   \* of SignedCalls, with its Horizon
  Intents, Expiry, MaxTtl, Submitters, LastSubmission         \* of Submissions, with its Calls and Horizon

\* A lease is a number of seconds, and rows are numbered.
ASSUME LeaseAssumption == Lease \in Nat /\ Lines \subseteq Nat

VARIABLES
  row,                       \* of Outbox and of Submissions
  drain, offered, accepted,  \* of Outbox
  issued, marks, acted,      \* of SignedCalls
  paused                     \* of Submissions

O == INSTANCE Outbox WITH Rows <- Lines, Horizon <- LastLease
C == INSTANCE SignedCalls WITH Horizon <- LastVerified
D == INSTANCE Submissions WITH Calls <- Submitters, Horizon <- LastSubmission

HandoversInit ==
  \/ part = "outbox" /\ O!Init
  \/ part = "calls" /\ C!Init
  \/ part = "submissions" /\ D!Init

HandoversNext ==
  /\ UNCHANGED part
  /\ \/ part = "outbox" /\ O!Next
     \/ part = "calls" /\ C!Next
     \/ part = "submissions" /\ D!Next

HandoversVars == <<part, now, row, call, drain, offered, accepted, issued, marks, acted, paused, sent>>

HandoversSpec == HandoversInit /\ [][HandoversNext]_HandoversVars

-----------------------------------------------------------------------------
\* Outbox.OneHolder and SentWasAccepted, SignedCalls.ActedOnce, Submissions.SentOnce: what one service
\* hands another has its effect once.
HandoversAreSafe ==
  /\ part = "outbox" => O!OneHolder /\ O!SentWasAccepted
  /\ part = "calls" => C!ActedOnce
  /\ part = "submissions" => D!SentOnce
=============================================================================
