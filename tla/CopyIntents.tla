---------------------------- MODULE CopyIntents ----------------------------
(***************************************************************************)
(* The copy service: intents, their spend reservations, the per-user       *)
(* coordinator that runs one operation at a time, the delegated executor   *)
(* it calls, and the chain it reconciles against.                          *)
(*                                                                         *)
(* Every operation of copy/copy-service/src/service.mjs that changes state *)
(* is a turn of its user's Durable Object.  A turn is a sequence of steps, *)
(* one per await whose effect another actor can see: the D1 statements,    *)
(* the RPC reads and the executor call.  Turns of one user never overlap,  *)
(* but the clock, the chain, the wallet and the executor move between the  *)
(* steps of a turn, and a turn can die at any of them.                     *)
(***************************************************************************)
EXTENDS Integers, FiniteSets, Functions

CONSTANTS
  Users,        \* Telegram users; each has one wallet here
  Trades,       \* source trades the dispatcher may ask to copy
  Quotes,       \* quote identifiers
  Requests,     \* the intents that may ever be asked for
  Amount,       \* Amount[q]: the wei a BUY with quote q would spend
  ConfigCap,    \* policy.maxDailySpendWei
  DelegatedCap, \* delegation.maxDailySpendWei
  Ttl,          \* longest life of an intent before its confirmation expires
  Grace,        \* submissionGraceSeconds
  DropDeadline, \* dropDeadlineSeconds
  MaxTries,     \* maxReconcileAttempts
  DayLength,    \* seconds in a UTC day
  MaxTime,      \* bound: the clock stops here
  MaxReorgs,    \* bound: how often a transaction may leave its unsafe block
  NoIntent,     \* no intent: an unclaimed key, an idle coordinator
  Faults        \* what may go wrong inside the service

(***************************************************************************)
(* An intent is identified by stableId(mode, replayKey, quote.id); the     *)
(* replay key is (user, wallet, source trade, direction, operation).  BUY  *)
(* intents share the key whether a sheet or the executor submits them.     *)
(***************************************************************************)
Sides == {"BUY", "SELL"}
Modes == {"AUTO_BUY", "CONFIRM_EACH"}
Keys  == [user: Users, trade: Trades, side: Sides]
Ids   == [mode: Modes, user: Users, trade: Trades, side: Sides, quote: Quotes]

ASSUME RequestsAssumption ==
  /\ Requests \subseteq Ids
  /\ \A i \in Requests : i.mode = "AUTO_BUY" => i.side = "BUY"
ASSUME NoIntentAssumption == NoIntent \notin Ids
ASSUME AmountAssumption == Amount \in [Quotes -> Nat]
ASSUME BoundsAssumption ==
  /\ {ConfigCap, DelegatedCap, Grace, DropDeadline, MaxTime, MaxReorgs} \subseteq Nat
  /\ {Ttl, MaxTries, DayLength} \subseteq Nat \ {0}
ASSUME FaultsAssumption == Faults \subseteq {"audit", "d1", "evict"}

KeyOf(i) == [user |-> i.user, trade |-> i.trade, side |-> i.side]

Retryable    == {"REJECTED", "EXPIRED", "FAILED", "CANCELLED"}
Manual       == {"RECONCILIATION_REQUIRED", "DROPPED_OR_REPLACED"}
Open         == {"AWAITING_USER_CONFIRMATION", "CLIENT_CONFIRMING"}
Reconcilable == {"SUBMITTED_PENDING_RECONCILIATION", "INCLUDED_AWAITING_SAFE"}
States       == Retryable \cup Manual \cup Open \cup Reconcilable
                  \cup {"NONE", "CREATING", "DELEGATED_SUBMISSION_PENDING", "CONFIRMED"}
Live         == States \ (Retryable \cup {"NONE"})

VARIABLES
  clock,   \* seconds
  row,     \* copy_confirmation_intents, by id
  owner,   \* its UNIQUE replay_key column: the intent each key names
  res,     \* copy_daily_spend_reservations.state, by intent id
  turn,    \* the operation each user's coordinator is running
  exec,    \* what the delegated executor did for each intent
  tx,      \* the transaction of each intent on chain
  reorgs   \* how often each transaction was moved out of its block: it names the block it is in

service == <<row, owner, res, turn>>
vars    == <<clock, row, owner, res, turn, exec, tx, reorgs>>

Rows == [state: States, exp: Nat, day: Nat, submittedAt: Nat, tries: Nat,
         hash: {"none", "own", "other"}, opened: BOOLEAN, late: BOOLEAN, block: Nat]

NoRow == [state |-> "NONE", exp |-> 0, day |-> 0, submittedAt |-> 0, tries |-> 0,
          hash |-> "none", opened |-> FALSE, late |-> FALSE, block |-> 0]

(***************************************************************************)
(* A turn: the await it stands at, the intent it works on, the state it is *)
(* about to save, the time it captured when it began, and, for reconcile,  *)
(* the answers it has read so far.                                         *)
(***************************************************************************)
Steps == {"authorize", "simulate", "recheck", "pending", "call", "send",
          "submitted", "awaiting", "audit", "release", "commit", "close",
          "readTx", "readReceipt", "decide"}

Idle == [pc |-> "idle", id |-> NoIntent, to |-> "NONE", at |-> 0, seen |-> "none", receipt |-> "none",
         block |-> 0]

Busy == [pc: Steps, id: Requests, to: States, at: Nat,
         seen: {"none", "exact", "wrong"}, receipt: {"none", "ok", "reverted"}, block: Nat]

Turns == Busy \cup {Idle}

ExecStates == {"NONE", "CALLED", "REFUSED", "PENDING", "BROADCAST", "SUBMITTED", "UNCERTAIN"}
TxStates   == {"NONE", "MEMPOOL", "OK", "REVERTED", "SAFE_OK", "SAFE_REVERTED", "GONE"}

TypeOK ==
  /\ clock \in Nat
  /\ row \in [Requests -> Rows]
  /\ owner \in [Keys -> Requests \cup {NoIntent}]
  /\ res \in [Requests -> {"NONE", "RESERVED", "COMMITTED", "RELEASED"}]
  /\ turn \in [Users -> Turns]
  /\ exec \in [Requests -> ExecStates]
  /\ tx \in [Requests -> TxStates]
  /\ reorgs \in [Requests -> Nat]

Init ==
  /\ clock = 0
  /\ row = [i \in Requests |-> NoRow]
  /\ owner = [k \in Keys |-> NoIntent]
  /\ res = [i \in Requests |-> "NONE"]
  /\ turn = [u \in Users |-> Idle]
  /\ exec = [i \in Requests |-> "NONE"]
  /\ tx = [i \in Requests |-> "NONE"]
  /\ reorgs = [i \in Requests |-> 0]

-----------------------------------------------------------------------------
(***************************************************************************)
(* Moves of a turn.                                                        *)
(***************************************************************************)
At(u, pc) == turn[u].pc = pc

Begin(u, i, pc) ==
  turn' = [turn EXCEPT ![u] = [Idle EXCEPT !.pc = pc, !.id = i, !.at = clock]]

Goto(u, pc) == turn' = [turn EXCEPT ![u].pc = pc]

\* The catch and the closing operations: release the reservation, then save the state.
ReleaseThen(u, i, state) ==
  turn' = [turn EXCEPT ![u] = [Idle EXCEPT !.pc = "release", !.id = i, !.to = state]]

Finish(u) == turn' = [turn EXCEPT ![u] = Idle]

Save(i, state) == row' = [row EXCEPT ![i].state = state]

DayOf(t) == t \div DayLength

Price == [i \in Requests |-> Amount[i.quote]]

\* Wei the ledger counts against a user's day.
Counted(u, d) ==
  {i \in Requests : i.user = u /\ row[i].day = d /\ res[i] \in {"RESERVED", "COMMITTED"}}
Charged(u, d) == SumFunctionOnSet(Price, Counted(u, d))

Smaller(a, b) == IF a < b THEN a ELSE b

CapFor(i) == IF i.mode = "AUTO_BUY" THEN Smaller(DelegatedCap, ConfigCap) ELSE ConfigCap

-----------------------------------------------------------------------------
(***************************************************************************)
(* executeAutomaticBuy and createConfirmEachIntent.                        *)
(***************************************************************************)

\* Faulty variant: the UNIQUE replay key is not consulted, only the identity of the quote.
MayClaimAnyQuote(i) == row[i].state = "NONE"

(* An intent may be created unless its key is held by one that is not      *)
(* retryable; the same quote is never used twice.  A retryable holder is   *)
(* superseded: its replay key is renamed, so the key names the new intent. *)
MayClaim(i) ==
  LET holder == owner[KeyOf(i)]
  IN  /\ row[i].state = "NONE"
      /\ holder # NoIntent => row[holder].state \in Retryable

\* The claim: a CREATING row, keyed by the replay key.  Bound: no claim whose windows
\* would close after MaxTime.
ClaimIntent(u, i) ==
  /\ At(u, "idle")
  /\ i.user = u
  /\ MayClaim(i)
  /\ clock + Ttl + Grace <= MaxTime
  /\ \E e \in clock + 1 .. clock + Ttl :
       row' = [row EXCEPT ![i] = [NoRow EXCEPT !.state = "CREATING", !.exp = e, !.day = DayOf(clock)]]
  /\ owner' = [owner EXCEPT ![KeyOf(i)] = i]
  /\ Begin(u, i, "authorize")
  /\ UNCHANGED <<clock, res, exec, tx, reorgs>>

\* Faulty variant: the cap is checked against today, the reservation charged to the claim's day.
AuthorizeToday(u) ==
  /\ At(u, "authorize")
  /\ LET i == turn[u].id
         fits == Charged(u, DayOf(clock)) + Amount[i.quote] <= CapFor(i)
     IN  /\ res[i] = "NONE" /\ fits
         /\ res' = [res EXCEPT ![i] = "RESERVED"]
  /\ Goto(u, "simulate")
  /\ UNCHANGED <<clock, row, owner, exec, tx, reorgs>>

\* policyGate.authorize: allowlists and kill switches may refuse; a BUY reserves its amount
\* within the day's cap or is refused.
Authorize(u) ==
  /\ At(u, "authorize")
  /\ LET i == turn[u].id
         fits == Charged(u, row[i].day) + Amount[i.quote] <= CapFor(i)
     IN  \/ /\ i.side = "BUY" /\ res[i] = "NONE" /\ fits
            /\ res' = [res EXCEPT ![i] = "RESERVED"]
            /\ Goto(u, "simulate")
         \/ /\ i.side = "SELL" \/ res[i] # "NONE"
            /\ Goto(u, "simulate")
            /\ UNCHANGED res
         \/ /\ ReleaseThen(u, i, "REJECTED")
            /\ UNCHANGED res
  /\ UNCHANGED <<clock, row, owner, exec, tx, reorgs>>

\* Both providers simulate.  A failed simulation or, for a sell, a missing allowance rejects;
\* an automatic buy whose quote went stale meanwhile is rejected too.
Simulate(u) ==
  /\ At(u, "simulate")
  /\ LET i == turn[u].id
     IN  \/ ReleaseThen(u, i, "REJECTED")
         \/ i.mode = "AUTO_BUY" /\ clock < row[i].exp /\ Goto(u, "recheck")
         \/ i.mode = "CONFIRM_EACH" /\ Goto(u, "awaiting")
  /\ UNCHANGED <<clock, row, owner, res, exec, tx, reorgs>>

\* The delegation is read again; it may have been revoked or have expired.
RecheckDelegation(u) ==
  /\ At(u, "recheck")
  /\ \/ Goto(u, "pending")
     \/ ReleaseThen(u, turn[u].id, "REJECTED")
  /\ UNCHANGED <<clock, row, owner, res, exec, tx, reorgs>>

SavePending(u) ==
  /\ At(u, "pending")
  /\ Save(turn[u].id, "DELEGATED_SUBMISSION_PENDING")
  /\ Goto(u, "call")
  /\ UNCHANGED <<clock, owner, res, exec, tx, reorgs>>

CallExecutor(u) ==
  /\ At(u, "call")
  /\ exec' = [exec EXCEPT ![turn[u].id] = "CALLED"]
  /\ Goto(u, "send")
  /\ UNCHANGED <<clock, row, owner, res, tx, reorgs>>

\* The executor answered with a hash.
ReceiveHash(u) ==
  /\ At(u, "send")
  /\ exec[turn[u].id] = "SUBMITTED"
  /\ turn' = [turn EXCEPT ![u].pc = "submitted", ![u].at = clock]
  /\ UNCHANGED <<clock, row, owner, res, exec, tx, reorgs>>

\* Faulty variant: an uncertain submission gives its reservation back.
ReceiveNoHashAndRelease(u) ==
  /\ At(u, "send")
  /\ ReleaseThen(u, turn[u].id, "RECONCILIATION_REQUIRED")
  /\ UNCHANGED <<clock, row, owner, res, exec, tx, reorgs>>

\* Faulty variant: the error of the executor ends the turn and nothing is saved.
ReceiveNoHashAndThrow(u) ==
  /\ At(u, "send")
  /\ Finish(u)
  /\ UNCHANGED <<clock, row, owner, res, exec, tx, reorgs>>

\* It answered with an error, or no answer came: the outcome is uncertain, whatever the
\* executor is still doing.  The reservation stays.
ReceiveNoHash(u) ==
  /\ At(u, "send")
  /\ Save(turn[u].id, "RECONCILIATION_REQUIRED")
  /\ Finish(u)
  /\ UNCHANGED <<clock, owner, res, exec, tx, reorgs>>

SaveSubmitted(u) ==
  /\ At(u, "submitted")
  /\ row' = [row EXCEPT ![turn[u].id] = [@ EXCEPT !.state = "SUBMITTED_PENDING_RECONCILIATION",
                                                  !.hash = "own", !.submittedAt = turn[u].at]]
  /\ Goto(u, "audit")
  /\ UNCHANGED <<clock, owner, res, exec, tx, reorgs>>

SaveAwaiting(u) ==
  /\ At(u, "awaiting")
  /\ Save(turn[u].id, "AWAITING_USER_CONFIRMATION")
  /\ Goto(u, "audit")
  /\ UNCHANGED <<clock, owner, res, exec, tx, reorgs>>

\* The last await of both operations, still inside their try: another isolate may have taken
\* the audit sequence number (fault "audit"), and then the catch releases and rejects.
AppendAudit(u) ==
  /\ At(u, "audit")
  /\ \/ Finish(u)
     \/ "audit" \in Faults /\ ReleaseThen(u, turn[u].id, "REJECTED")
  /\ UNCHANGED <<clock, row, owner, res, exec, tx, reorgs>>

-----------------------------------------------------------------------------
(***************************************************************************)
(* The steps shared by every operation that closes an intent.  The ledger  *)
(* never takes a COMMITTED reservation back; commit is unconditional.      *)
(***************************************************************************)
Release(u) ==
  /\ At(u, "release")
  /\ LET i == turn[u].id
     IN  res' = [res EXCEPT ![i] = IF @ \in {"NONE", "COMMITTED"} THEN @ ELSE "RELEASED"]
  /\ Goto(u, "close")
  /\ UNCHANGED <<clock, row, owner, exec, tx, reorgs>>

Commit(u) ==
  /\ At(u, "commit")
  /\ LET i == turn[u].id
     IN  res' = [res EXCEPT ![i] = IF @ = "NONE" THEN @ ELSE "COMMITTED"]
  /\ Goto(u, "close")
  /\ UNCHANGED <<clock, row, owner, exec, tx, reorgs>>

Close(u) ==
  /\ At(u, "close")
  /\ LET i == turn[u].id
         block == IF turn[u].to = "CONFIRMED" THEN turn[u].block ELSE row[i].block
     IN  row' = [row EXCEPT ![i] = [@ EXCEPT !.state = turn[u].to, !.block = block]]
  /\ Finish(u)
  /\ UNCHANGED <<clock, owner, res, exec, tx, reorgs>>

-----------------------------------------------------------------------------
(***************************************************************************)
(* The client: opening the sheet, cancelling, reporting a hash.  A stale   *)
(* revision, a wrong owner or a paused user is refused without a change.   *)
(***************************************************************************)
BeginSheet(u, i) ==
  /\ At(u, "idle")
  /\ i.user = u
  /\ row[i].state = "AWAITING_USER_CONFIRMATION"
  /\ clock < row[i].exp
  /\ row' = [row EXCEPT ![i] = [@ EXCEPT !.state = "CLIENT_CONFIRMING", !.opened = TRUE]]
  /\ UNCHANGED <<clock, owner, res, turn, exec, tx, reorgs>>

\* The same call on an open intent after its window: it expires on the spot, without the grace.
BeginExpired(u, i) ==
  /\ At(u, "idle")
  /\ i.user = u
  /\ row[i].state \in Open
  /\ clock >= row[i].exp
  /\ ReleaseThen(u, i, "EXPIRED")
  /\ UNCHANGED <<clock, row, owner, res, exec, tx, reorgs>>

CancelIntent(u, i) ==
  /\ At(u, "idle")
  /\ i.user = u
  /\ row[i].state \in Open
  /\ ReleaseThen(u, i, "CANCELLED")
  /\ UNCHANGED <<clock, row, owner, res, exec, tx, reorgs>>

RecordSubmission(u, i) ==
  /\ At(u, "idle")
  /\ i.user = u
  /\ row[i].state = "CLIENT_CONFIRMING"
  /\ clock < row[i].exp + Grace
  /\ \E h \in {"own", "other"} :
       row' = [row EXCEPT ![i] = [@ EXCEPT !.state = "SUBMITTED_PENDING_RECONCILIATION",
                                           !.hash = h, !.submittedAt = clock]]
  /\ UNCHANGED <<clock, owner, res, turn, exec, tx, reorgs>>

\* Faulty variant: a late hash is accepted for a cancelled intent too.
RecordLateSubmissionOfClosed(u, i) ==
  /\ At(u, "idle")
  /\ i.user = u
  /\ row[i].state \in {"EXPIRED", "CANCELLED"}
  /\ row[i].opened
  /\ row' = [row EXCEPT ![i] = [@ EXCEPT !.state = "RECONCILIATION_REQUIRED", !.late = TRUE,
                                         !.hash = "own", !.submittedAt = clock]]
  /\ UNCHANGED <<clock, owner, res, turn, exec, tx, reorgs>>

\* Faulty variant: a late hash is reconciled like any other, and takes the reservation again.
RecordLateSubmissionAsUsual(u, i) ==
  /\ At(u, "idle")
  /\ i.user = u
  /\ row[i].state = "EXPIRED"
  /\ row[i].opened
  /\ row' = [row EXCEPT ![i] = [@ EXCEPT !.state = "SUBMITTED_PENDING_RECONCILIATION",
                                         !.hash = "own", !.submittedAt = clock]]
  /\ UNCHANGED <<clock, owner, res, turn, exec, tx, reorgs>>

\* A hash reported after the sweep closed an opened intent: kept for a human.
RecordLateSubmission(u, i) ==
  /\ At(u, "idle")
  /\ i.user = u
  /\ row[i].state = "EXPIRED"
  /\ row[i].opened
  /\ \E h \in {"own", "other"} :
       row' = [row EXCEPT ![i] = [@ EXCEPT !.state = "RECONCILIATION_REQUIRED", !.late = TRUE,
                                           !.hash = h, !.submittedAt = clock]]
  /\ UNCHANGED <<clock, owner, res, turn, exec, tx, reorgs>>

-----------------------------------------------------------------------------
(***************************************************************************)
(* The scheduled pass: expiry of open intents and reconciliation.          *)
(***************************************************************************)
ExpireIntent(u, i) ==
  /\ At(u, "idle")
  /\ i.user = u
  /\ row[i].state \in Open
  /\ clock >= row[i].exp + (IF row[i].state = "CLIENT_CONFIRMING" THEN Grace ELSE 0)
  /\ ReleaseThen(u, i, "EXPIRED")
  /\ UNCHANGED <<clock, row, owner, res, exec, tx, reorgs>>

Reconcile(u, i) ==
  /\ At(u, "idle")
  /\ i.user = u
  /\ row[i].state \in Reconcilable
  /\ Begin(u, i, "readTx")
  /\ UNCHANGED <<clock, row, owner, res, exec, tx, reorgs>>

Included(i) == tx[i] \in {"OK", "REVERTED", "SAFE_OK", "SAFE_REVERTED"}

\* Bound: the attempt counter stops at MaxTries, where only the comparison matters.
CountTry(r) == [r EXCEPT !.tries = Smaller(@ + 1, MaxTries)]

\* eth_getTransactionByHash, by both providers.  A pending transaction may not have reached
\* them; a hash of some other transaction answers with that one, or with nothing.
ReadTx(u) ==
  /\ At(u, "readTx")
  /\ LET i == turn[u].id
     IN  \E s \in {"none", "exact", "wrong"} :
           /\ s = "exact" => row[i].hash = "own" /\ (Included(i) \/ tx[i] = "MEMPOOL")
           /\ s = "wrong" => row[i].hash = "other"
           /\ s = "none" => row[i].hash = "other" \/ ~Included(i)
           /\ turn' = [turn EXCEPT ![u].pc = "readReceipt", ![u].seen = s]
  /\ UNCHANGED <<clock, row, owner, res, exec, tx, reorgs>>

\* eth_getTransactionReceipt for the same hash, a moment later.
ReadReceipt(u) ==
  /\ At(u, "readReceipt")
  /\ LET i == turn[u].id
         found == IF row[i].hash # "own" \/ ~Included(i) THEN "none"
                  ELSE IF tx[i] \in {"OK", "SAFE_OK"} THEN "ok" ELSE "reverted"
     IN  turn' = [turn EXCEPT ![u].pc = "decide", ![u].receipt = found, ![u].block = reorgs[i]]
  /\ UNCHANGED <<clock, row, owner, res, exec, tx, reorgs>>

\* A read fails.  A missing quorum is transient until the attempts run out; anything else,
\* and any failure of the health check, blocks the intent for a human.
ReadFails(u) ==
  /\ turn[u].pc \in {"readTx", "readReceipt", "decide"}
  /\ LET i == turn[u].id
     IN  \/ /\ ~At(u, "decide")
            /\ row[i].tries + 1 < MaxTries
            /\ row' = [row EXCEPT ![i] = CountTry(@)]
         \/ row' = [row EXCEPT ![i] = [CountTry(@) EXCEPT !.state = "RECONCILIATION_REQUIRED"]]
  /\ Finish(u)
  /\ UNCHANGED <<clock, owner, res, exec, tx, reorgs>>

\* Faulty variant: any included transaction counts (requireSafeInclusion off).
CoveredByAnyBlock(u) == {TRUE}

\* Does the safe head read now cover the block of the receipt read before?  While the
\* transaction is still in that block the chain decides; once a reorganisation has moved it,
\* the safe head may have passed the old height or not.
CoveredBySafe(u) ==
  LET i == turn[u].id
  IN  IF reorgs[i] = turn[u].block THEN {tx[i] \in {"SAFE_OK", "SAFE_REVERTED"}} ELSE BOOLEAN

\* The outcomes that end with one save of the row.
DecideAndSave(u, state) ==
  /\ row' = [row EXCEPT ![turn[u].id] = [CountTry(@) EXCEPT !.state = state]]
  /\ Finish(u)

\* Faulty variant: a transaction not seen by the deadline gives its reservation back.
DecideMissingAndRelease(u) ==
  /\ turn[u].seen = "none" /\ turn[u].receipt = "none"
  /\ turn[u].at >= row[turn[u].id].submittedAt + DropDeadline
  /\ ReleaseThen(u, turn[u].id, "DROPPED_OR_REPLACED")
  /\ UNCHANGED row

DecideMissing(u) ==
  LET i == turn[u].id
  IN  /\ turn[u].seen = "none" /\ turn[u].receipt = "none"
      /\ IF turn[u].at >= row[i].submittedAt + DropDeadline
           THEN DecideAndSave(u, "DROPPED_OR_REPLACED")
           ELSE DecideAndSave(u, row[i].state)

DecideMismatch(u) ==
  /\ turn[u].seen = "wrong" \/ (turn[u].seen = "none" /\ turn[u].receipt # "none")
  /\ DecideAndSave(u, "RECONCILIATION_REQUIRED")

DecidePending(u) ==
  /\ turn[u].seen = "exact" /\ turn[u].receipt = "none"
  /\ DecideAndSave(u, row[turn[u].id].state)

\* No safe block is waited for here: the receipt alone decides.
DecideReverted(u) ==
  /\ turn[u].seen = "exact" /\ turn[u].receipt = "reverted"
  /\ turn' = [turn EXCEPT ![u] = [Idle EXCEPT !.pc = "release", !.id = turn[u].id, !.to = "FAILED",
                                              !.block = turn[u].block]]
  /\ UNCHANGED row

\* Faulty variant: the row is saved first, the reservation committed after it.
DecideSuccessSaveFirst(u) ==
  /\ turn[u].seen = "exact" /\ turn[u].receipt = "ok"
  /\ TRUE \in CoveredBySafe(u)
  /\ row' = [row EXCEPT ![turn[u].id] = [CountTry(@) EXCEPT !.state = "CONFIRMED",
                                                            !.block = turn[u].block]]
  /\ turn' = [turn EXCEPT ![u] = [Idle EXCEPT !.pc = "commit", !.id = turn[u].id, !.to = "CONFIRMED",
                                              !.block = turn[u].block]]

DecideSuccess(u) ==
  /\ turn[u].seen = "exact" /\ turn[u].receipt = "ok"
  /\ \E safe \in CoveredBySafe(u) :
       \/ /\ ~safe
          /\ row' = [row EXCEPT ![turn[u].id] = [CountTry(@) EXCEPT !.state = "INCLUDED_AWAITING_SAFE",
                                                                    !.block = turn[u].block]]
          /\ Finish(u)
       \/ /\ safe
          /\ turn' = [turn EXCEPT ![u] = [Idle EXCEPT !.pc = "commit", !.id = turn[u].id,
                                                      !.to = "CONFIRMED", !.block = turn[u].block]]
          /\ UNCHANGED row

Decide(u) ==
  /\ At(u, "decide")
  /\ \/ DecideMissing(u)
     \/ DecideMismatch(u)
     \/ DecidePending(u)
     \/ DecideReverted(u)
     \/ DecideSuccess(u)
  /\ UNCHANGED <<clock, owner, res, exec, tx, reorgs>>

-----------------------------------------------------------------------------
(***************************************************************************)
(* What may go wrong inside the service.                                   *)
(***************************************************************************)

\* The Durable Object is evicted: its turn is gone, D1 keeps what was saved.
Evict(u) ==
  /\ "evict" \in Faults
  /\ ~At(u, "idle")
  /\ Finish(u)
  /\ UNCHANGED <<clock, row, owner, res, exec, tx, reorgs>>

\* A D1 statement rejects.  Inside the try of the creating operations the catch runs, unless
\* the row in memory is already DELEGATED_SUBMISSION_PENDING; elsewhere the turn just fails.
StoreRejects(u) ==
  /\ "d1" \in Faults
  /\ ~At(u, "idle")
  /\ IF turn[u].pc \in {"authorize", "recheck", "awaiting", "submitted"}
       THEN ReleaseThen(u, turn[u].id, "REJECTED")
       ELSE turn[u].pc \in {"pending", "release", "commit", "close"} /\ Finish(u)
  /\ UNCHANGED <<clock, row, owner, res, exec, tx, reorgs>>

-----------------------------------------------------------------------------
(***************************************************************************)
(* The delegated executor: a claim keyed by the intent, one send through   *)
(* the wallet provider, a mark.  It keeps going when the copy service has  *)
(* stopped waiting.                                                        *)
(***************************************************************************)
ExecutorAdmit(i) ==
  /\ exec[i] = "CALLED"
  /\ \E s \in {"PENDING", "REFUSED"} : exec' = [exec EXCEPT ![i] = s]
  /\ UNCHANGED <<clock, tx, reorgs>> /\ UNCHANGED service

ExecutorSend(i) ==
  /\ exec[i] = "PENDING"
  /\ exec' = [exec EXCEPT ![i] = "BROADCAST"]
  /\ tx' = [tx EXCEPT ![i] = "MEMPOOL"]
  /\ UNCHANGED <<clock, reorgs>> /\ UNCHANGED service

\* The send failed, or its answer was lost after the broadcast.
ExecutorLosesAnswer(i) ==
  /\ exec[i] \in {"PENDING", "BROADCAST"}
  /\ exec' = [exec EXCEPT ![i] = "UNCERTAIN"]
  /\ UNCHANGED <<clock, tx, reorgs>> /\ UNCHANGED service

ExecutorMarks(i) ==
  /\ exec[i] = "BROADCAST"
  /\ exec' = [exec EXCEPT ![i] = "SUBMITTED"]
  /\ UNCHANGED <<clock, tx, reorgs>> /\ UNCHANGED service

-----------------------------------------------------------------------------
(***************************************************************************)
(* The user's wallet and the chain.                                        *)
(***************************************************************************)

\* The sheet was opened, so the wallet holds the transaction and may send it at any time.
WalletSends(i) ==
  /\ row[i].opened
  /\ tx[i] = "NONE"
  /\ tx' = [tx EXCEPT ![i] = "MEMPOOL"]
  /\ UNCHANGED <<clock, exec, reorgs>> /\ UNCHANGED service

ChainMoves(i, from, to) ==
  /\ tx[i] \in from
  /\ \E s \in to : tx' = [tx EXCEPT ![i] = s]
  /\ UNCHANGED <<clock, exec>> /\ UNCHANGED service

Include(i) == ChainMoves(i, {"MEMPOOL"}, {"OK", "REVERTED"}) /\ UNCHANGED reorgs
Drop(i)    == ChainMoves(i, {"MEMPOOL"}, {"GONE"}) /\ UNCHANGED reorgs
BecomeSafe(i) ==
  /\ \/ ChainMoves(i, {"OK"}, {"SAFE_OK"})
     \/ ChainMoves(i, {"REVERTED"}, {"SAFE_REVERTED"})
  /\ UNCHANGED reorgs
Reorg(i) ==
  /\ reorgs[i] < MaxReorgs
  /\ ChainMoves(i, {"OK", "REVERTED"}, {"MEMPOOL"})
  /\ reorgs' = [reorgs EXCEPT ![i] = @ + 1]

Tick ==
  /\ clock < MaxTime
  /\ clock' = clock + 1
  /\ UNCHANGED <<exec, tx, reorgs>> /\ UNCHANGED service

\* Nothing is left to do: the clock is at its bound and no coordinator is inside a turn.
Rest ==
  /\ clock = MaxTime
  /\ \A u \in Users : At(u, "idle")
  /\ UNCHANGED vars

-----------------------------------------------------------------------------
CreateSteps(u) ==
  \/ Authorize(u) \/ Simulate(u) \/ RecheckDelegation(u) \/ SavePending(u)
  \/ CallExecutor(u) \/ ReceiveHash(u) \/ ReceiveNoHash(u) \/ SaveSubmitted(u)
  \/ SaveAwaiting(u) \/ AppendAudit(u)
CloseSteps(u) == Release(u) \/ Commit(u) \/ Close(u)
ReadSteps(u)  == ReadTx(u) \/ ReadReceipt(u) \/ ReadFails(u) \/ Decide(u)
TurnStep(u)   == CreateSteps(u) \/ CloseSteps(u) \/ ReadSteps(u)

ClientCalls(u, i) ==
  \/ ClaimIntent(u, i) \/ BeginSheet(u, i) \/ BeginExpired(u, i) \/ CancelIntent(u, i)
  \/ RecordSubmission(u, i) \/ RecordLateSubmission(u, i)
Scheduled(u, i) == ExpireIntent(u, i) \/ Reconcile(u, i)

Executor(i) == ExecutorAdmit(i) \/ ExecutorSend(i) \/ ExecutorLosesAnswer(i) \/ ExecutorMarks(i)
Outside(i)  == WalletSends(i) \/ Include(i) \/ Drop(i) \/ BecomeSafe(i) \/ Reorg(i)

Next ==
  \/ \E u \in Users : TurnStep(u) \/ Evict(u) \/ StoreRejects(u)
  \/ \E u \in Users, i \in Requests : ClientCalls(u, i) \/ Scheduled(u, i)
  \/ \E i \in Requests : Executor(i) \/ Outside(i)
  \/ Tick
  \/ Rest

Spec == Init /\ [][Next]_vars

(***************************************************************************)
(* Fairness.  A coordinator runs its queue to the end of each turn, every  *)
(* call it makes returns or fails, and the clock moves.  The scheduled     *)
(* handler comes back every minute and its call waits in the user's FIFO   *)
(* queue, so an operation it keeps asking for runs between other turns.    *)
(***************************************************************************)
Fairness ==
  /\ WF_vars(Tick)
  /\ \A u \in Users : WF_vars(TurnStep(u))
  /\ \A u \in Users, i \in Requests : SF_vars(ExpireIntent(u, i)) /\ SF_vars(Reconcile(u, i))

\* The chain settles what reaches it: needed only for what waits on a settlement.
ChainFairness ==
  \A i \in Requests : WF_vars(Include(i) \/ Drop(i)) /\ WF_vars(BecomeSafe(i))

FairSpec == Spec /\ Fairness /\ ChainFairness

-----------------------------------------------------------------------------
(***************************************************************************)
(* Safety.                                                                 *)
(***************************************************************************)

IsLive(i) == row[i].state \in Live /\ ~row[i].late

\* Two intents for the same user, source trade and side are never live together, whether a
\* sheet or the executor would submit them: the replay key, the retryable states and supersede.
\* A late report is set apart: the code parks it for a human and lets the key move on.
OneLivePerKey ==
  \A i, j \in Requests : IsLive(i) /\ IsLive(j) /\ KeyOf(i) = KeyOf(j) => i = j

\* A confirmed buy is charged to its day: reconcile commits before it saves CONFIRMED.
ConfirmedIsCharged ==
  \A i \in Requests : row[i].state = "CONFIRMED" /\ i.side = "BUY" => res[i] = "COMMITTED"

\* An intent is CONFIRMED only for a successful transaction at or below the safe block, however
\* often it was reorganised before.  reconcile reads the receipt first and the safe head after
\* it: one reorganisation is set apart, that which moves the transaction out of the block of
\* that receipt before the safe head is read in the same pass.
ConfirmedIsSafe ==
  \A i \in Requests :
    row[i].state = "CONFIRMED" /\ reorgs[i] = row[i].block => tx[i] = "SAFE_OK"

\* What a user's reservations hold or have spent on one day stays within the configured cap.
DailyCap ==
  \A u \in Users, d \in 0 .. DayOf(MaxTime) : Charged(u, d) <= ConfigCap

\* The executor broadcasts at most one automatic buy of a source trade: no later quote for it
\* is sent unless the earlier ones were never sent or have reverted.
AutoBuyBroadcastOnce ==
  \A i, j \in Requests :
    /\ i.mode = "AUTO_BUY" /\ j.mode = "AUTO_BUY" /\ KeyOf(i) = KeyOf(j)
    /\ tx[i] \notin {"NONE", "REVERTED", "SAFE_REVERTED"}
    /\ tx[j] \notin {"NONE", "REVERTED", "SAFE_REVERTED"}
    => i = j

-----------------------------------------------------------------------------
(***************************************************************************)
(* The promise kept: CopyPromise under the mapping below.                  *)
(***************************************************************************)
Phase(i) ==
  CASE row[i].late -> "late"
    [] row[i].state = "NONE" -> "none"
    [] row[i].state \in {"CREATING", "DELEGATED_SUBMISSION_PENDING"} -> "preparing"
    [] row[i].state \in Open -> "offered"
    [] row[i].state \in Reconcilable -> "submitted"
    [] row[i].state = "CONFIRMED" -> "confirmed"
    [] row[i].state = "FAILED" -> "failed"
    [] row[i].state \in Manual /\ ~row[i].late -> "review"
    [] row[i].state \in {"REJECTED", "EXPIRED", "CANCELLED"} -> "void"

ChargeName == [NONE |-> "none", RESERVED |-> "held", COMMITTED |-> "spent", RELEASED |-> "freed"]

Promise == INSTANCE CopyPromise WITH
  Intents <- Requests,
  Buys    <- {i \in Requests : i.side = "BUY"},
  Key     <- [i \in Requests |-> KeyOf(i)],
  Account <- [i \in Requests |-> i.user],
  Wei     <- Price,
  Budget  <- ConfigCap,
  Days    <- 0 .. DayOf(MaxTime),
  phase   <- [i \in Requests |-> Phase(i)],
  charge  <- [i \in Requests |-> ChargeName[res[i]]],
  day     <- [i \in Requests |-> row[i].day]

\* With no fault inside the service, every step of it is a step of CopyPromise or none.
KeepsPromise == Promise!Spec

-----------------------------------------------------------------------------
(***************************************************************************)
(* What a step may never do.                                               *)
(***************************************************************************)
Final == {"REJECTED", "FAILED", "CANCELLED", "CONFIRMED"} \cup Manual

\* No operation, sweep or late turn moves an intent out of a final state; an expired one can
\* only be parked for a human, and only if the sheet had been opened.
FinalStatesStay ==
  [][\A i \in Requests :
       /\ row[i].state \in Final => row'[i].state = row[i].state
       /\ row[i].state = "EXPIRED" /\ row'[i].state # "EXPIRED"
            => row[i].opened /\ row'[i].late]_vars

\* Spending that cannot be ruled out: the executor was called and has not refused, or the row
\* says that a transaction was sent or may have been.
MayBeSpent(i) == exec[i] \notin {"NONE", "REFUSED"} \/ row[i].state \in Reconcilable \cup Manual

\* A reservation whose spending cannot be ruled out is given back only by a reconciliation that
\* read a reverted receipt, and the transaction is still reverted then, unless a reorganisation
\* has moved it since that read.  The executor, the wallet, the chain, the sweep and evictions
\* may come between any two steps.  A sheet that was opened and whose hash nobody has reported
\* is not in this: the sweep expires it, and a late report goes to a human.
SpendIsHeld ==
  [][\A i \in Requests :
       res[i] = "RESERVED" /\ res'[i] = "RELEASED" /\ MayBeSpent(i)
         => /\ turn[i.user].to = "FAILED"
            /\ reorgs[i] = turn[i.user].block => tx[i] \in {"REVERTED", "SAFE_REVERTED"}]_vars

\* A released reservation is never taken back: nothing charges a day whose cap the release
\* has already handed to another intent.
ReleasedStaysReleased ==
  [][\A i \in Requests : res[i] = "RELEASED" => res'[i] = "RELEASED"]_vars

-----------------------------------------------------------------------------
(***************************************************************************)
(* Liveness, under FairSpec.                                               *)
(***************************************************************************)

\* A row a creating operation claimed does not stay unfinished: it blocks its key and holds
\* its reservation until it is resolved.
CreatingResolves ==
  \A i \in Requests :
    row[i].state \in {"CREATING", "DELEGATED_SUBMISSION_PENDING"}
      ~> row[i].state \notin {"CREATING", "DELEGATED_SUBMISSION_PENDING"}

\* An intent offered to the user is used, cancelled or expired: the sweep gives its
\* reservation back.
OpenResolves ==
  \A i \in Requests : row[i].state \in Open ~> row[i].state \notin Open

\* A submitted intent is settled or handed to a human, once the chain has decided.
SubmittedResolves ==
  \A i \in Requests :
    row[i].state \in Reconcilable /\ row[i].submittedAt + DropDeadline <= MaxTime
      ~> row[i].state \notin Reconcilable

\* No intent is left in a state that holds its key and its reservation.
IntentsResolve == CreatingResolves /\ OpenResolves /\ SubmittedResolves
=============================================================================
