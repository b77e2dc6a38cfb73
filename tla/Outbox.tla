------------------------------- MODULE Outbox ------------------------------
(***************************************************************************)
(* The lines Copy queues for its users and the drain of Core that delivers *)
(* them: a D1 table with a lease on every row, drained by a scheduled call *)
(* that leases some rows, hands each to the Bot API and reports what       *)
(* became of it.  A drain may outlive its lease, its calls may time out,   *)
(* and the next drain starts whether or not the last one has ended.        *)
(***************************************************************************)
EXTENDS Integers, FiniteSetsExt

CONSTANTS
  Rows,     \* row ids, numbered as they are inserted
  Drains,   \* the drains that may run at a time
  Limit,    \* rows asked for by a drain
  Lease,    \* leaseSeconds
  Budget,   \* the attempts after which a failing row is DEAD
  Losses,   \* BOOLEAN: answers to Core may be lost
  Horizon   \* bound: the last second

VARIABLES
  now,     \* the clock of both sides
  row,     \* copy_outbox: [state, attempts, until], state "NONE" before its insert
  drain,   \* each drain: its step, the rows it still has to claim, those it holds, its reports
  offered, \* history: how often each row was handed to the Bot API
  accepted \* history: the rows the Bot API accepted

vars == <<now, row, drain, offered, accepted>>

Resting == [at |-> "idle", asked |-> 0, todo |-> {}, held |-> {}, ack |-> {}, fail |-> {}]

TypeOK ==
  /\ now \in 0 .. Horizon
  /\ row \in [Rows -> [state: {"NONE", "PENDING", "SENT", "DEAD"}, attempts: Nat, until: Nat]]
  /\ drain \in [Drains -> [at: {"idle", "claim", "send", "report", "ack", "discard"}, asked: Nat,
                           todo: SUBSET Rows, held: SUBSET Rows, ack: SUBSET Rows, fail: SUBSET Rows]]
  /\ offered \in [Rows -> Nat] /\ accepted \subseteq Rows

Init ==
  /\ now = 0
  /\ row = [r \in Rows |-> [state |-> "NONE", attempts |-> 0, until |-> 0]]
  /\ drain = [d \in Drains |-> Resting]
  /\ offered = [r \in Rows |-> 0] /\ accepted = {}

-----------------------------------------------------------------------------
Tick == now < Horizon /\ now' = now + 1 /\ UNCHANGED <<row, drain, offered, accepted>>

\* INSERT OR IGNORE under the dedupe key.
Enqueue(r) ==
  /\ row[r].state = "NONE" /\ \A q \in Rows : q < r => row[q].state # "NONE"
  /\ row' = [row EXCEPT ![r].state = "PENDING"]
  /\ UNCHANGED <<now, drain, offered, accepted>>

Due(second) == {r \in Rows : row[r].state = "PENDING" /\ row[r].until <= second}

\* The SELECT of lease(): the first rows by id.  The request's clock is read once.
First(S, n) == {r \in S : Cardinality({q \in S : q < r}) < n}

Select(d) ==
  /\ drain[d].at = "idle"
  /\ drain' = [drain EXCEPT ![d] = [Resting EXCEPT !.at = "claim", !.asked = now, !.todo = First(Due(now), Limit)]]
  /\ UNCHANGED <<now, row, offered, accepted>>

\* The UPDATE does not look at the state again.
Claimable(r, second) == row[r].until <= second

ClaimNext(d) ==
  LET r == Min(drain[d].todo)
  IN  /\ drain[d].at \in {"claim", "discard"} /\ drain[d].todo # {}
      /\ IF Claimable(r, drain[d].asked)
           THEN /\ row' = [row EXCEPT ![r].until = drain[d].asked + Lease, ![r].attempts = @ + 1]
                /\ drain' = [drain EXCEPT ![d].todo = @ \ {r},
                                          ![d].held = IF drain[d].at = "claim" THEN @ \cup {r} ELSE @]
           ELSE UNCHANGED row /\ drain' = [drain EXCEPT ![d].todo = @ \ {r}]
      /\ UNCHANGED <<now, offered, accepted>>

\* The rows reach Core, or the answer is lost and with it the drain.
Answer(d) ==
  /\ drain[d].at = "claim" /\ drain[d].todo = {}
  /\ \/ drain' = [drain EXCEPT ![d].at = "send"]
     \/ Losses /\ drain' = [drain EXCEPT ![d] = Resting]
  /\ UNCHANGED <<now, row, offered, accepted>>

Reports(outcome) == CASE outcome = "accepted" -> "ack" [] outcome = "refused" -> "fail" [] OTHER -> "none"

\* An invalid row is reported without being offered, which the Bot API's refusal stands for;
\* a retryable answer may or may not have been delivered.
Send(d) ==
  LET r == Min(drain[d].held)
  IN  /\ drain[d].at = "send" /\ drain[d].held # {}
      /\ \E outcome \in {"accepted", "refused", "retryable"} :
           /\ drain' = [drain EXCEPT ![d].held = @ \ {r},
                          ![d].ack  = IF Reports(outcome) = "ack" THEN @ \cup {r} ELSE @,
                          ![d].fail = IF Reports(outcome) = "fail" THEN @ \cup {r} ELSE @]
           /\ accepted' = IF outcome = "accepted" THEN accepted \cup {r} ELSE accepted
      /\ offered' = [offered EXCEPT ![r] = @ + 1]
      /\ UNCHANGED <<now, row>>

\* The second call, when there is anything to report.
Report(d) ==
  /\ drain[d].at = "send" /\ drain[d].held = {}
  /\ drain' = [drain EXCEPT ![d] = IF @.ack \cup @.fail = {} THEN Resting ELSE [@ EXCEPT !.at = "report"]]
  /\ UNCHANGED <<now, row, offered, accepted>>

\* ack() and fail() of every reported row, or a call that is lost on the way.
AckAndFail(d) ==
  LET Failed(r) == [row[r] EXCEPT !.state = IF row[r].attempts >= Budget THEN "DEAD" ELSE @]
  IN  /\ drain[d].at = "report"
      /\ \/ /\ row' = [r \in Rows |-> IF r \in drain[d].fail THEN Failed(r)
                                      ELSE IF r \in drain[d].ack THEN [row[r] EXCEPT !.state = "SENT"] ELSE row[r]]
            /\ drain' = [drain EXCEPT ![d].at = "ack", ![d].asked = now]
         \/ Losses /\ UNCHANGED row /\ drain' = [drain EXCEPT ![d] = Resting]
      /\ UNCHANGED <<now, offered, accepted>>

\* The same call asks for no row (limit 0), which the handler reads as ten: lease() runs once more.
LeaseAgain(d) ==
  /\ drain[d].at = "ack"
  /\ drain' = [drain EXCEPT ![d].at = "discard", ![d].todo = First(Due(drain[d].asked), Limit)]
  /\ UNCHANGED <<now, row, offered, accepted>>

\* Core does not look at the rows of that answer.
Discard(d) ==
  /\ drain[d].at = "discard" /\ drain[d].todo = {}
  /\ drain' = [drain EXCEPT ![d] = Resting]
  /\ UNCHANGED <<now, row, offered, accepted>>

Die(d) ==
  /\ Losses /\ drain[d].at # "idle"
  /\ drain' = [drain EXCEPT ![d] = Resting]
  /\ UNCHANGED <<now, row, offered, accepted>>

-----------------------------------------------------------------------------
Next ==
  \/ Tick
  \/ \E r \in Rows : Enqueue(r)
  \/ \E d \in Drains :
       \/ Select(d) \/ ClaimNext(d) \/ Answer(d) \/ Send(d)
       \/ Report(d) \/ AckAndFail(d) \/ LeaseAgain(d) \/ Discard(d) \/ Die(d)

Spec == Init /\ [][Next]_vars

-----------------------------------------------------------------------------
\* Two drains never hold one row under a lease that has not run out: a line is delivered twice
\* only when a drain outlived its lease or a report was lost.
OneHolder ==
  \A c, d \in Drains : \A r \in drain[c].held \cap drain[d].held :
    c # d => drain[c].asked + Lease <= now \/ drain[d].asked + Lease <= now

\* A line is taken as delivered only after the Bot API accepted it.
SentWasAccepted == \A r \in Rows : row[r].state = "SENT" => r \in accepted

\* A line is given up only after its attempt budget was spent on deliveries.
DeadWasOffered == \A r \in Rows : row[r].state = "DEAD" => offered[r] >= Budget
=============================================================================
