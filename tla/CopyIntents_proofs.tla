------------------------ MODULE CopyIntents_proofs -------------------------
(***************************************************************************)
(* Proofs about CopyIntents, for every set of users, trades, quotes and    *)
(* requests, every cap and window, and every set of faults.                *)
(***************************************************************************)
EXTENDS CopyIntents, FiniteSums, TLAPS

\* The key of a request is a replay key of the service, and its user is one of the users.
LEMMA RequestFacts ==
  ASSUME NEW i \in Requests
  PROVE  i \in Ids /\ i.user \in Users /\ KeyOf(i) \in Keys
BY RequestsAssumption DEF Ids, Keys, KeyOf, Sides

-----------------------------------------------------------------------------
(***************************************************************************)
(* Type correctness: first the moves of a turn, then the saves of a row,   *)
(* then each action.                                                       *)
(***************************************************************************)
LEMMA IdleType == Idle \in Turns
BY DEF Turns

LEMMA BusyType ==
  ASSUME TypeOK, NEW u \in Users, turn[u].pc # "idle"
  PROVE  /\ turn[u] \in Busy
         /\ turn[u].id \in Requests
         /\ turn[u].to \in States
         /\ turn[u].at \in Nat
         /\ turn[u].block \in Nat
BY DEF TypeOK, Turns, Idle, Busy

LEMMA TurnUpdateType ==
  ASSUME TypeOK, NEW u \in Users, NEW t \in Busy, turn' = [turn EXCEPT ![u] = t]
  PROVE  turn' \in [Users -> Turns]
BY DEF TypeOK, Turns

LEMMA GotoType ==
  ASSUME TypeOK, NEW u \in Users, NEW pc \in Steps, turn[u].pc # "idle", Goto(u, pc)
  PROVE  turn' \in [Users -> Turns]
<1>1. [turn[u] EXCEPT !.pc = pc] \in Busy
  BY BusyType DEF Busy
<1> QED
  BY <1>1, TurnUpdateType DEF Goto

LEMMA BeginType ==
  ASSUME TypeOK, NEW u \in Users, NEW i \in Requests, NEW pc \in Steps, Begin(u, i, pc)
  PROVE  turn' \in [Users -> Turns]
<1>1. [Idle EXCEPT !.pc = pc, !.id = i, !.at = clock] \in Busy
  BY DEF TypeOK, Idle, Busy, States
<1> QED
  BY <1>1, TurnUpdateType DEF Begin

LEMMA FinishType ==
  ASSUME TypeOK, NEW u \in Users, Finish(u)
  PROVE  turn' \in [Users -> Turns]
BY IdleType DEF TypeOK, Finish

LEMMA ReleaseThenType ==
  ASSUME TypeOK, NEW u \in Users, NEW i \in Requests, NEW state \in States, ReleaseThen(u, i, state)
  PROVE  turn' \in [Users -> Turns]
<1>1. [Idle EXCEPT !.pc = "release", !.id = i, !.to = state] \in Busy
  BY DEF Idle, Busy, Steps
<1> QED
  BY <1>1, TurnUpdateType DEF ReleaseThen

LEMMA StateNames ==
  Retryable \cup Manual \cup Open \cup Reconcilable
    \cup {"NONE", "CREATING", "DELEGATED_SUBMISSION_PENDING", "CONFIRMED"} = States
BY DEF States

LEMMA RowUpdateType ==
  ASSUME TypeOK, NEW i, NEW r, i \in Requests => r \in Rows, row' = [row EXCEPT ![i] = r]
  PROVE  row' \in [Requests -> Rows]
BY DEF TypeOK

\* The ways a row is saved.
LEMMA RowSaveType ==
  ASSUME NEW r \in Rows, NEW state \in States, NEW h \in {"none", "own", "other"}, NEW n \in Nat
  PROVE  /\ [r EXCEPT !.state = state] \in Rows
         /\ [r EXCEPT !.state = state, !.opened = TRUE] \in Rows
         /\ [r EXCEPT !.state = state, !.hash = h, !.submittedAt = n] \in Rows
         /\ [r EXCEPT !.state = state, !.late = TRUE, !.hash = h, !.submittedAt = n] \in Rows
         /\ [r EXCEPT !.state = state, !.block = n] \in Rows
BY DEF Rows

LEMMA SaveType ==
  ASSUME TypeOK, NEW i, NEW state \in States, Save(i, state)
  PROVE  row' \in [Requests -> Rows]
<1>1. row' = [row EXCEPT ![i] = [row[i] EXCEPT !.state = state]]
  BY DEF Save
<1> QED
  BY <1>1, RowSaveType, RowUpdateType DEF TypeOK

LEMMA CountTryType ==
  ASSUME NEW r \in Rows
  PROVE  CountTry(r) \in Rows
BY BoundsAssumption DEF CountTry, Rows, Smaller

LEMMA DecideAndSaveType ==
  ASSUME TypeOK, NEW u \in Users, NEW state, turn[u].id \in Requests => state \in States,
         DecideAndSave(u, state)
  PROVE  row' \in [Requests -> Rows] /\ turn' \in [Users -> Turns]
<1> DEFINE i == turn[u].id
<1>1. i \in Requests => [CountTry(row[i]) EXCEPT !.state = state] \in Rows
  BY CountTryType, RowSaveType DEF TypeOK
<1>2. row' = [row EXCEPT ![i] = [CountTry(row[i]) EXCEPT !.state = state]]
  BY DEF DecideAndSave
<1> QED
  BY <1>1, <1>2, RowUpdateType, FinishType DEF DecideAndSave

\* Each action leaves every variable in its type, whatever the state it starts from.
LEMMA TypeStep == TypeOK /\ [Next]_vars => TypeOK'
<1> SUFFICES ASSUME TypeOK, [Next]_vars PROVE TypeOK'
  OBVIOUS
<1> USE DEF service
<1>1. ASSUME NEW u \in Users, NEW i \in Requests, ClaimIntent(u, i) PROVE TypeOK'
  <2>1. PICK e \in clock + 1 .. clock + Ttl :
          row' = [row EXCEPT ![i] = [NoRow EXCEPT !.state = "CREATING", !.exp = e, !.day = DayOf(clock)]]
    BY <1>1 DEF ClaimIntent
  <2>2. e \in Nat /\ DayOf(clock) \in Nat
    BY <2>1, BoundsAssumption DEF DayOf, TypeOK
  <2>3. [NoRow EXCEPT !.state = "CREATING", !.exp = e, !.day = DayOf(clock)] \in Rows
    BY <2>2, StateNames DEF NoRow, Rows
  <2>4. turn' \in [Users -> Turns]
    BY <1>1, BeginType DEF ClaimIntent, Steps
  <2> QED
    BY <1>1, <2>1, <2>3, <2>4, RowUpdateType DEF ClaimIntent, TypeOK
<1>2. ASSUME NEW u \in Users, Authorize(u) PROVE TypeOK'
  BY <1>2, BusyType, GotoType, ReleaseThenType, StateNames DEF Authorize, At, TypeOK, Steps, Retryable
<1>3. ASSUME NEW u \in Users, Simulate(u) PROVE TypeOK'
  BY <1>3, BusyType, GotoType, ReleaseThenType, StateNames DEF Simulate, At, TypeOK, Steps, Retryable
<1>4. ASSUME NEW u \in Users, RecheckDelegation(u) PROVE TypeOK'
  BY <1>4, BusyType, GotoType, ReleaseThenType, StateNames
  DEF RecheckDelegation, At, TypeOK, Steps, Retryable
<1>5. ASSUME NEW u \in Users, SavePending(u) PROVE TypeOK'
  BY <1>5, BusyType, GotoType, SaveType, StateNames DEF SavePending, At, TypeOK, Steps
<1>6. ASSUME NEW u \in Users, CallExecutor(u) PROVE TypeOK'
  BY <1>6, BusyType, GotoType DEF CallExecutor, At, TypeOK, Steps, ExecStates
<1>7. ASSUME NEW u \in Users, ReceiveHash(u) PROVE TypeOK'
  <2>1. [turn[u] EXCEPT !.pc = "submitted", !.at = clock] \in Busy
    BY <1>7, BusyType DEF ReceiveHash, At, Busy, Steps, TypeOK
  <2>2. turn' = [turn EXCEPT ![u] = [turn[u] EXCEPT !.pc = "submitted", !.at = clock]]
    BY <1>7 DEF ReceiveHash, TypeOK
  <2> QED
    BY <1>7, <2>1, <2>2, TurnUpdateType DEF ReceiveHash, TypeOK
<1>8. ASSUME NEW u \in Users, ReceiveNoHash(u) PROVE TypeOK'
  BY <1>8, FinishType, SaveType, StateNames DEF ReceiveNoHash, TypeOK, Manual
<1>9. ASSUME NEW u \in Users, SaveSubmitted(u) PROVE TypeOK'
  <2>1. turn[u].id \in Requests /\ turn[u].at \in Nat /\ turn' \in [Users -> Turns]
    BY <1>9, BusyType, GotoType DEF SaveSubmitted, At, Steps
  <2>2. [row[turn[u].id] EXCEPT !.state = "SUBMITTED_PENDING_RECONCILIATION",
                                !.hash = "own", !.submittedAt = turn[u].at] \in Rows
    BY <2>1, RowSaveType, StateNames DEF TypeOK, Reconcilable
  <2> QED
    BY <1>9, <2>1, <2>2, RowUpdateType DEF SaveSubmitted, TypeOK
<1>10. ASSUME NEW u \in Users, SaveAwaiting(u) PROVE TypeOK'
  BY <1>10, BusyType, GotoType, SaveType, StateNames DEF SaveAwaiting, At, TypeOK, Steps, Open
<1>11. ASSUME NEW u \in Users, AppendAudit(u) PROVE TypeOK'
  BY <1>11, BusyType, FinishType, ReleaseThenType, StateNames DEF AppendAudit, At, TypeOK, Retryable
<1>12. ASSUME NEW u \in Users, Release(u) PROVE TypeOK'
  BY <1>12, BusyType, GotoType DEF Release, At, TypeOK, Steps
<1>13. ASSUME NEW u \in Users, Commit(u) PROVE TypeOK'
  BY <1>13, BusyType, GotoType DEF Commit, At, TypeOK, Steps
<1>14. ASSUME NEW u \in Users, Close(u) PROVE TypeOK'
  <2> DEFINE i == turn[u].id
             b == IF turn[u].to = "CONFIRMED" THEN turn[u].block ELSE row[i].block
  <2>1. i \in Requests /\ turn[u].to \in States /\ turn[u].block \in Nat
    BY <1>14, BusyType DEF Close, At
  <2>2. row[i] \in Rows /\ b \in Nat
    BY <2>1 DEF TypeOK, Rows
  <2>3. row' = [row EXCEPT ![i] = [row[i] EXCEPT !.state = turn[u].to, !.block = b]]
    BY <1>14, <2>2 DEF Close, Rows, TypeOK
  <2>4. [row[i] EXCEPT !.state = turn[u].to, !.block = b] \in Rows
    BY <2>1, <2>2, RowSaveType
  <2> QED
    BY <1>14, <2>3, <2>4, RowUpdateType, FinishType DEF Close, TypeOK
<1>15. ASSUME NEW u \in Users, NEW i \in Requests, BeginSheet(u, i) PROVE TypeOK'
  <2>1. [row[i] EXCEPT !.state = "CLIENT_CONFIRMING", !.opened = TRUE] \in Rows
    BY RowSaveType, StateNames DEF TypeOK, Open
  <2> QED
    BY <1>15, <2>1, RowUpdateType DEF BeginSheet, TypeOK
<1>16. ASSUME NEW u \in Users, NEW i \in Requests, BeginExpired(u, i) PROVE TypeOK'
  BY <1>16, ReleaseThenType, StateNames DEF BeginExpired, TypeOK, Retryable
<1>17. ASSUME NEW u \in Users, NEW i \in Requests, CancelIntent(u, i) PROVE TypeOK'
  BY <1>17, ReleaseThenType, StateNames DEF CancelIntent, TypeOK, Retryable
<1>18. ASSUME NEW u \in Users, NEW i \in Requests, ExpireIntent(u, i) PROVE TypeOK'
  BY <1>18, ReleaseThenType, StateNames DEF ExpireIntent, TypeOK, Retryable
<1>19. ASSUME NEW u \in Users, NEW i \in Requests, RecordSubmission(u, i) PROVE TypeOK'
  <2>1. ASSUME NEW h \in {"own", "other"}
        PROVE  [row[i] EXCEPT !.state = "SUBMITTED_PENDING_RECONCILIATION",
                              !.hash = h, !.submittedAt = clock] \in Rows
    BY RowSaveType, StateNames DEF TypeOK, Reconcilable
  <2> QED
    BY <1>19, <2>1, RowUpdateType DEF RecordSubmission, TypeOK
<1>20. ASSUME NEW u \in Users, NEW i \in Requests, RecordLateSubmission(u, i) PROVE TypeOK'
  <2>1. ASSUME NEW h \in {"own", "other"}
        PROVE  [row[i] EXCEPT !.state = "RECONCILIATION_REQUIRED", !.late = TRUE,
                              !.hash = h, !.submittedAt = clock] \in Rows
    BY RowSaveType, StateNames DEF TypeOK, Manual
  <2> QED
    BY <1>20, <2>1, RowUpdateType DEF RecordLateSubmission, TypeOK
<1>21. ASSUME NEW u \in Users, NEW i \in Requests, Reconcile(u, i) PROVE TypeOK'
  BY <1>21, BeginType DEF Reconcile, TypeOK, Steps
<1>22. ASSUME NEW u \in Users, ReadTx(u) PROVE TypeOK'
  <2>1. PICK s \in {"none", "exact", "wrong"} :
          turn' = [turn EXCEPT ![u].pc = "readReceipt", ![u].seen = s]
    BY <1>22 DEF ReadTx
  <2>2. [turn[u] EXCEPT !.pc = "readReceipt", !.seen = s] \in Busy
    BY <1>22, BusyType DEF ReadTx, At, Busy, Steps
  <2>3. turn' = [turn EXCEPT ![u] = [turn[u] EXCEPT !.pc = "readReceipt", !.seen = s]]
    BY <2>1 DEF TypeOK
  <2> QED
    BY <1>22, <2>2, <2>3, TurnUpdateType DEF ReadTx, TypeOK
<1>23. ASSUME NEW u \in Users, ReadReceipt(u) PROVE TypeOK'
  <2>1. turn[u] \in Busy /\ reorgs[turn[u].id] \in Nat
    BY <1>23, BusyType DEF ReadReceipt, At, TypeOK
  <2>2. PICK s \in {"none", "ok", "reverted"} :
          turn' = [turn EXCEPT ![u].pc = "decide", ![u].receipt = s, ![u].block = reorgs[turn[u].id]]
    BY <1>23 DEF ReadReceipt
  <2> DEFINE t == [turn[u] EXCEPT !.pc = "decide", !.receipt = s, !.block = reorgs[turn[u].id]]
  <2>3. t \in Busy
    BY <2>1 DEF Busy, Steps
  <2>4. turn' = [turn EXCEPT ![u] = t]
    BY <2>2 DEF TypeOK
  <2> QED
    BY <1>23, <2>3, <2>4, TurnUpdateType DEF ReadReceipt, TypeOK
<1>24. ASSUME NEW u \in Users, ReadFails(u) PROVE TypeOK'
  <2> DEFINE r == row[turn[u].id]
  <2>1. turn[u].id \in Requests =>
          CountTry(r) \in Rows /\ [CountTry(r) EXCEPT !.state = "RECONCILIATION_REQUIRED"] \in Rows
    BY CountTryType, RowSaveType, StateNames DEF TypeOK, Manual
  <2> QED
    BY <1>24, <2>1, RowUpdateType, FinishType DEF ReadFails, TypeOK
<1>25. ASSUME NEW u \in Users, Decide(u) PROVE TypeOK'
  <2>1. turn[u] \in Busy /\ turn[u].id \in Requests /\ turn[u].block \in Nat
    BY <1>25, BusyType DEF Decide, At
  <2>2. CASE DecideMissing(u)
    BY <1>25, <2>1, <2>2, DecideAndSaveType, StateNames
    DEF Decide, DecideMissing, TypeOK, Manual, Rows
  <2>3. CASE DecideMismatch(u)
    BY <1>25, <2>3, DecideAndSaveType, StateNames DEF Decide, DecideMismatch, TypeOK, Manual
  <2>4. CASE DecidePending(u)
    BY <1>25, <2>4, DecideAndSaveType DEF Decide, DecidePending, TypeOK, Rows
  <2>5. CASE DecideReverted(u)
    <3>1. [Idle EXCEPT !.pc = "release", !.id = turn[u].id, !.to = "FAILED", !.block = turn[u].block] \in Busy
      BY <2>1, StateNames DEF Idle, Busy, Steps, Retryable
    <3> QED
      BY <1>25, <2>5, <3>1, TurnUpdateType DEF Decide, DecideReverted, TypeOK
  <2>6. CASE DecideSuccess(u)
    <3> DEFINE i == turn[u].id
               r == [CountTry(row[i]) EXCEPT !.state = "INCLUDED_AWAITING_SAFE", !.block = turn[u].block]
               t == [Idle EXCEPT !.pc = "commit", !.id = i, !.to = "CONFIRMED", !.block = turn[u].block]
    <3>1. CountTry(row[i]) \in Rows
      BY <2>1, CountTryType DEF TypeOK
    <3>2. r \in Rows
      BY <2>1, <3>1, RowSaveType, StateNames DEF Reconcilable
    <3>3. t \in Busy
      BY <2>1, StateNames DEF Busy, Steps, Idle
    <3>4. \/ row' = [row EXCEPT ![i] = r] /\ Finish(u)
          \/ turn' = [turn EXCEPT ![u] = t] /\ UNCHANGED row
      BY <2>6 DEF DecideSuccess
    <3> QED
      BY <1>25, <3>2, <3>3, <3>4, RowUpdateType, FinishType, TurnUpdateType DEF Decide, TypeOK
  <2> QED
    BY <1>25, <2>2, <2>3, <2>4, <2>5, <2>6 DEF Decide
<1>26. ASSUME NEW u \in Users, Evict(u) PROVE TypeOK'
  BY <1>26, FinishType DEF Evict, TypeOK
<1>27. ASSUME NEW u \in Users, StoreRejects(u) PROVE TypeOK'
  BY <1>27, BusyType, FinishType, ReleaseThenType, StateNames DEF StoreRejects, At, TypeOK, Retryable
<1>28. ASSUME NEW i \in Requests, ExecutorAdmit(i) PROVE TypeOK'
  BY <1>28 DEF ExecutorAdmit, TypeOK, ExecStates, TxStates
<1>29. ASSUME NEW i \in Requests, ExecutorSend(i) PROVE TypeOK'
  BY <1>29 DEF ExecutorSend, TypeOK, ExecStates, TxStates
<1>30. ASSUME NEW i \in Requests, ExecutorLosesAnswer(i) PROVE TypeOK'
  BY <1>30 DEF ExecutorLosesAnswer, TypeOK, ExecStates, TxStates
<1>31. ASSUME NEW i \in Requests, ExecutorMarks(i) PROVE TypeOK'
  BY <1>31 DEF ExecutorMarks, TypeOK, ExecStates, TxStates
<1>32. ASSUME NEW i \in Requests, WalletSends(i) PROVE TypeOK'
  BY <1>32 DEF WalletSends, TypeOK, TxStates
<1>33. ASSUME NEW i \in Requests, Include(i) PROVE TypeOK'
  BY <1>33 DEF Include, ChainMoves, TypeOK, TxStates
<1>34. ASSUME NEW i \in Requests, Drop(i) PROVE TypeOK'
  BY <1>34 DEF Drop, ChainMoves, TypeOK, TxStates
<1>35. ASSUME NEW i \in Requests, BecomeSafe(i) PROVE TypeOK'
  BY <1>35 DEF BecomeSafe, ChainMoves, TypeOK, TxStates
<1>36. ASSUME NEW i \in Requests, Reorg(i) PROVE TypeOK'
  BY <1>36 DEF Reorg, ChainMoves, TypeOK, TxStates
<1>37. CASE Tick
  BY <1>37 DEF Tick, TypeOK
<1>38. CASE UNCHANGED vars
  BY <1>38 DEF vars, TypeOK
<1> QED
  BY <1>1, <1>2, <1>3, <1>4, <1>5, <1>6, <1>7, <1>8, <1>9, <1>10, <1>11, <1>12,
     <1>13, <1>14, <1>15, <1>16, <1>17, <1>18, <1>19, <1>20, <1>21, <1>22, <1>23, <1>24,
     <1>25, <1>26, <1>27, <1>28, <1>29, <1>30, <1>31, <1>32, <1>33, <1>34, <1>35, <1>36,
     <1>37, <1>38
  DEF Next, Rest, TurnStep, CreateSteps, CloseSteps, ReadSteps, ClientCalls, Scheduled, Executor,
      Outside

\* Every variable of the service stays in its type.
THEOREM Typing == Spec => []TypeOK
<1>1. Init => TypeOK
  BY IdleType DEF Init, TypeOK, NoRow, Rows, States, ExecStates, TxStates
<1> QED
  BY <1>1, TypeStep, PTL DEF Spec

-----------------------------------------------------------------------------
(***************************************************************************)
(* One live intent for a key, and final states stay.                       *)
(*                                                                         *)
(* OneLivePerKey is not inductive: a turn saves the intent it works on     *)
(* without looking at the key again.  What makes that sound is that a turn *)
(* only ever works on an intent its key names and that is not settled, and *)
(* that the key cannot move while the turn lasts, because only a turn of   *)
(* the same user could supersede it.                                       *)
(***************************************************************************)
Unsettled == {"CREATING", "DELEGATED_SUBMISSION_PENDING"} \cup Open \cup Reconcilable

Busily(u) ==
  /\ turn[u].id.user = u
  /\ owner[KeyOf(turn[u].id)] = turn[u].id
  /\ row[turn[u].id].state \in Unsettled

KeyInv ==
  /\ \A i \in Requests : IsLive(i) => owner[KeyOf(i)] = i
  /\ \A i \in Requests : row[i].late => row[i].state = "RECONCILIATION_REQUIRED"
  /\ \A u \in Users : turn[u].pc # "idle" => Busily(u)

\* What a step inside a turn of u does to the rows, the keys and the turns.
Inside(u) ==
  LET i == turn[u].id
  IN  /\ i \in Requests
      /\ turn[u].pc # "idle"
      /\ \A v \in Users \ {u} : turn'[v] = turn[v]
      /\ \/ turn'[u].pc = "idle"
         \/ turn'[u].id = i /\ row'[i].state \in Unsettled \cup {row[i].state}
      /\ \A j \in Requests \ {i} : row'[j] = row[j]
      /\ row'[i].late = row[i].late
      /\ owner' = owner

\* What a step that begins a turn of u on i does, the claim of a new intent apart.
Starts(u, i) ==
  /\ i.user = u
  /\ row[i].state \in Open \cup Reconcilable
  /\ \A v \in Users \ {u} : turn'[v] = turn[v]
  /\ turn'[u].id = i
  /\ row' = row
  /\ owner' = owner

LEMMA CountTryKeeps ==
  ASSUME NEW r \in Rows, NEW state, NEW n
  PROVE  /\ CountTry(r).state = r.state
         /\ CountTry(r).late = r.late
         /\ [CountTry(r) EXCEPT !.state = state].late = r.late
         /\ [CountTry(r) EXCEPT !.state = state, !.block = n].late = r.late
BY DEF CountTry, Rows

LEMMA CountTryState ==
  ASSUME NEW r \in Rows, NEW state, NEW n
  PROVE  /\ [CountTry(r) EXCEPT !.state = state].state = state
         /\ [CountTry(r) EXCEPT !.state = state, !.block = n].state = state
BY DEF CountTry, Rows

LEMMA FinishEnds ==
  ASSUME TypeOK, NEW u \in Users, Finish(u)
  PROVE  turn'[u].pc = "idle" /\ \A v \in Users \ {u} : turn'[v] = turn[v]
BY DEF TypeOK, Finish, Idle

LEMMA ReleaseThenContinues ==
  ASSUME TypeOK, NEW u \in Users, NEW i, NEW state, ReleaseThen(u, i, state)
  PROVE  turn'[u].id = i /\ \A v \in Users \ {u} : turn'[v] = turn[v]
BY DEF TypeOK, ReleaseThen, Idle

LEMMA RevertedCloses ==
  ASSUME TypeOK, NEW u \in Users, DecideReverted(u)
  PROVE  /\ turn'[u].pc = "release" /\ turn'[u].id = turn[u].id
         /\ turn'[u].to = "FAILED" /\ turn'[u].block = turn[u].block
         /\ \A v \in Users \ {u} : turn'[v] = turn[v]
         /\ row' = row
BY DEF TypeOK, DecideReverted, Idle

\* A turn that ends by saving its row once.
LEMMA SaveAndFinish ==
  ASSUME TypeOK, NEW u \in Users, turn[u].pc # "idle", turn[u].id \in Requests,
         NEW r, r.late = row[turn[u].id].late, row' = [row EXCEPT ![turn[u].id] = r],
         Finish(u), UNCHANGED owner
  PROVE  Inside(u)
<1>1. row'[turn[u].id].late = r.late /\ \A j \in Requests \ {turn[u].id} : row'[j] = row[j]
  BY DEF TypeOK
<1> QED
  BY <1>1, FinishEnds DEF Inside

\* Every step of a turn, and every way a turn is cut short, stays inside its intent.
LEMMA InsideStep ==
  ASSUME TypeOK, NEW u \in Users, TurnStep(u) \/ Evict(u) \/ StoreRejects(u)
  PROVE  Inside(u)
<1> DEFINE i == turn[u].id
<1>1. turn[u].pc # "idle"
  BY DEF TurnStep, CreateSteps, CloseSteps, ReadSteps, Authorize, Simulate, RecheckDelegation,
         SavePending, CallExecutor, ReceiveHash, ReceiveNoHash, SaveSubmitted, SaveAwaiting,
         AppendAudit, Release, Commit, Close, ReadTx, ReadReceipt, ReadFails, Decide, Evict,
         StoreRejects, At
<1>2. i \in Requests /\ turn[u] \in Busy /\ row[i] \in Rows
  BY <1>1, BusyType DEF TypeOK
<1> USE DEF Inside
<1>3. CASE Authorize(u)
  BY <1>3, <1>1, <1>2, ZenonT(60) DEF Authorize, TypeOK, Goto, ReleaseThen, Busy, Idle
<1>4. CASE Simulate(u)
  BY <1>4, <1>1, <1>2, ZenonT(60) DEF Simulate, TypeOK, Goto, ReleaseThen, Busy, Idle
<1>5. CASE RecheckDelegation(u)
  BY <1>5, <1>1, <1>2, ZenonT(60) DEF RecheckDelegation, TypeOK, Goto, ReleaseThen, Busy, Idle
<1>6. CASE SavePending(u)
  BY <1>6, <1>1, <1>2 DEF SavePending, TypeOK, Save, Goto, Busy, Rows, Unsettled
<1>7. CASE CallExecutor(u)
  BY <1>7, <1>1, <1>2 DEF CallExecutor, TypeOK, Goto, Busy
<1>8. CASE ReceiveHash(u)
  BY <1>8, <1>1, <1>2 DEF ReceiveHash, TypeOK, Busy
<1>9. CASE ReceiveNoHash(u)
  BY <1>9, <1>1, <1>2 DEF ReceiveNoHash, TypeOK, Save, Finish, Idle, Rows
<1>10. CASE SaveSubmitted(u)
  BY <1>10, <1>1, <1>2 DEF SaveSubmitted, TypeOK, Goto, Busy, Rows, Unsettled, Reconcilable
<1>11. CASE SaveAwaiting(u)
  BY <1>11, <1>1, <1>2 DEF SaveAwaiting, TypeOK, Save, Goto, Busy, Rows, Unsettled, Open
<1>12. CASE AppendAudit(u)
  BY <1>12, <1>1, <1>2, FinishEnds, ReleaseThenContinues DEF AppendAudit
<1>13. CASE Release(u)
  BY <1>13, <1>1, <1>2 DEF Release, TypeOK, Goto, Busy
<1>14. CASE Commit(u)
  BY <1>14, <1>1, <1>2 DEF Commit, TypeOK, Goto, Busy
<1>15. CASE Close(u)
  BY <1>15, <1>1, <1>2 DEF Close, TypeOK, Finish, Idle, Rows
<1>16. CASE ReadTx(u)
  BY <1>16, <1>1, <1>2 DEF ReadTx, TypeOK, Busy
<1>17. CASE ReadReceipt(u)
  BY <1>17, <1>1, <1>2 DEF ReadReceipt, TypeOK, Busy
<1>18. CASE ReadFails(u)
  <2>1. Finish(u) /\ UNCHANGED owner
    BY <1>18 DEF ReadFails
  <2>2. CASE row' = [row EXCEPT ![i] = CountTry(row[i])]
    BY <2>1, <2>2, <1>1, <1>2, CountTryKeeps, SaveAndFinish
  <2>3. CASE row' = [row EXCEPT ![i] = [CountTry(row[i]) EXCEPT !.state = "RECONCILIATION_REQUIRED"]]
    <3>1. [CountTry(row[i]) EXCEPT !.state = "RECONCILIATION_REQUIRED"].late = row[i].late
      BY <1>2, CountTryKeeps
    <3> QED
      BY <2>1, <2>3, <3>1, <1>1, <1>2, SaveAndFinish
  <2> QED
    BY <1>18, <2>2, <2>3 DEF ReadFails
<1>19. CASE Decide(u)
  <2>1. ASSUME NEW state, DecideAndSave(u, state) PROVE Inside(u)
    <3>1. [CountTry(row[i]) EXCEPT !.state = state].late = row[i].late
      BY <1>2, CountTryKeeps
    <3> QED
      BY <1>19, <2>1, <3>1, <1>1, <1>2, SaveAndFinish DEF DecideAndSave, Decide
  <2>2. CASE DecideMissing(u) \/ DecideMismatch(u) \/ DecidePending(u)
    BY <2>1, <2>2 DEF DecideMissing, DecideMismatch, DecidePending
  <2>3. CASE DecideReverted(u)
    BY <1>19, <2>3, <1>1, <1>2, RevertedCloses DEF Decide
  <2>4. CASE DecideSuccess(u)
    <3> DEFINE r == [CountTry(row[i]) EXCEPT !.state = "INCLUDED_AWAITING_SAFE", !.block = turn[u].block]
    <3>1. CASE Finish(u) /\ row' = [row EXCEPT ![i] = r]
      <4>1. r.late = row[i].late
        BY <1>2, CountTryKeeps
      <4> QED
        BY <1>19, <3>1, <4>1, <1>1, <1>2, SaveAndFinish DEF Decide
    <3>2. CASE turn'[u].id = i /\ (\A v \in Users \ {u} : turn'[v] = turn[v]) /\ row' = row
      BY <1>19, <3>2, <1>1, <1>2 DEF Decide
    <3> QED
      BY <2>4, <3>1, <3>2 DEF DecideSuccess, TypeOK, Idle
  <2> QED
    BY <1>19, <2>2, <2>3, <2>4 DEF Decide
<1>20. CASE Evict(u)
  BY <1>20, <1>1, <1>2 DEF Evict, TypeOK, Finish, Idle
<1>21. CASE StoreRejects(u)
  BY <1>21, <1>1, <1>2, FinishEnds, ReleaseThenContinues DEF StoreRejects
<1> QED
  BY <1>3, <1>4, <1>5, <1>6, <1>7, <1>8, <1>9, <1>10, <1>11, <1>12, <1>13, <1>14,
     <1>15, <1>16, <1>17, <1>18, <1>19, <1>20, <1>21
  DEF TurnStep, CreateSteps, CloseSteps, ReadSteps

LEMMA StartsStep ==
  ASSUME TypeOK, NEW u \in Users, NEW i \in Requests,
         BeginExpired(u, i) \/ CancelIntent(u, i) \/ ExpireIntent(u, i) \/ Reconcile(u, i)
  PROVE  Starts(u, i)
BY ZenonT(60) DEF TypeOK, Starts, BeginExpired, CancelIntent, ExpireIntent, Reconcile, ReleaseThen, Begin, Idle

\* Nothing else touches the rows, the keys or the turns.
LEMMA OutsideStep ==
  ASSUME \/ \E i \in Requests : Executor(i) \/ Outside(i)
         \/ Tick
         \/ Rest
         \/ UNCHANGED vars
  PROVE  UNCHANGED service
BY DEF service, vars, Tick, Rest, Executor, Outside, ExecutorAdmit, ExecutorSend, ExecutorLosesAnswer,
       ExecutorMarks, WalletSends, Include, Drop, BecomeSafe, Reorg, ChainMoves

\* The five ways a step of the system concerns the rows.
LEMMA StepKinds ==
  ASSUME TypeOK, [Next]_vars
  PROVE  \/ \E u \in Users : Inside(u)
         \/ \E u \in Users, i \in Requests :
              \/ ClaimIntent(u, i)
              \/ Starts(u, i)
              \/ BeginSheet(u, i) \/ RecordSubmission(u, i)
              \/ RecordLateSubmission(u, i)
         \/ UNCHANGED service
<1>1. CASE \E u \in Users : TurnStep(u) \/ Evict(u) \/ StoreRejects(u)
  BY <1>1, InsideStep
<1>2. CASE \E u \in Users, i \in Requests : ClientCalls(u, i) \/ Scheduled(u, i)
  BY <1>2, StartsStep DEF ClientCalls, Scheduled
<1>3. CASE \/ \E i \in Requests : Executor(i) \/ Outside(i)
           \/ Tick
           \/ Rest
           \/ UNCHANGED vars
  BY <1>3, OutsideStep
<1> QED
  BY <1>1, <1>2, <1>3 DEF Next

\* The states are different names.
LEMMA StateFacts ==
  /\ Unsettled \subseteq Live
  /\ \A s \in Unsettled : s \notin Final \cup {"EXPIRED", "NONE"}
  /\ \A s \in Retryable : s \notin Live
  /\ "RECONCILIATION_REQUIRED" \notin Unsettled /\ "EXPIRED" \notin Live /\ "NONE" \notin Live
BY DEF Unsettled, Live, States, Final, Retryable, Manual, Open, Reconcilable

LEMMA KeyStep ==
  ASSUME TypeOK, KeyInv, [Next]_vars
  PROVE  KeyInv'
<1>1. ASSUME NEW u \in Users, Inside(u) PROVE KeyInv'
  <2> DEFINE i == turn[u].id
  <2>1. Busily(u) /\ i \in Requests
    BY <1>1 DEF Inside, KeyInv
  <2>2. ~row[i].late
    BY <2>1, StateFacts DEF Busily, KeyInv
  <2>3. \A j \in Requests : IsLive(j)' => owner'[KeyOf(j)] = j
    BY <1>1, <2>1 DEF Inside, KeyInv, IsLive, Busily
  <2>4. \A j \in Requests : row'[j].late => row'[j].state = "RECONCILIATION_REQUIRED"
    BY <1>1, <2>2 DEF Inside, KeyInv
  <2>5. ASSUME NEW v \in Users, turn'[v].pc # "idle" PROVE Busily(v)'
    <3>1. CASE v = u
      BY <1>1, <2>1, <2>5, <3>1 DEF Inside, Busily
    <3>2. CASE v # u
      <4>1. turn'[v] = turn[v] /\ Busily(v)
        BY <1>1, <2>5, <3>2 DEF Inside, KeyInv
      <4>2. turn[v].id # i /\ turn[v].id \in Requests
        BY <2>1, <2>5, <3>2, <4>1, BusyType DEF Busily
      <4> QED
        BY <1>1, <4>1, <4>2 DEF Inside, Busily
    <3> QED
      BY <3>1, <3>2
  <2> QED
    BY <2>3, <2>4, <2>5 DEF KeyInv
<1>2. ASSUME NEW u \in Users, NEW i \in Requests, ClaimIntent(u, i) PROVE KeyInv'
  <2>1. PICK r \in Rows : /\ row' = [row EXCEPT ![i] = r]
                          /\ r.state = "CREATING" /\ r.late = FALSE
    <3>1. PICK e \in clock + 1 .. clock + Ttl :
            row' = [row EXCEPT ![i] = [NoRow EXCEPT !.state = "CREATING", !.exp = e, !.day = DayOf(clock)]]
      BY <1>2 DEF ClaimIntent
    <3>2. e \in Nat /\ DayOf(clock) \in Nat
      BY <3>1, BoundsAssumption DEF DayOf, TypeOK
    <3>3. [NoRow EXCEPT !.state = "CREATING", !.exp = e, !.day = DayOf(clock)] \in Rows
      BY <3>2, StateNames DEF NoRow, Rows
    <3> QED
      BY <3>1, <3>3 DEF NoRow
  <2>2. KeyOf(i) \in Keys /\ owner' = [owner EXCEPT ![KeyOf(i)] = i]
    BY <1>2, RequestFacts DEF ClaimIntent
  <2>3. \A j \in Requests : IsLive(j) /\ KeyOf(j) = KeyOf(i) => FALSE
    BY <1>2, NoIntentAssumption, RequestsAssumption, StateFacts
    DEF ClaimIntent, MayClaim, KeyInv, IsLive
  <2>4. \A j \in Requests : IsLive(j)' => owner'[KeyOf(j)] = j
    BY <2>1, <2>2, <2>3, RequestFacts DEF KeyInv, IsLive, TypeOK
  <2>5. \A j \in Requests : row'[j].late => row'[j].state = "RECONCILIATION_REQUIRED"
    BY <2>1 DEF KeyInv, TypeOK
  <2>6. ASSUME NEW v \in Users, turn'[v].pc # "idle" PROVE Busily(v)'
    <3>1. CASE v = u
      <4>1. turn'[u].id = i /\ i.user = u
        BY <1>2 DEF ClaimIntent, Begin, Idle, TypeOK
      <4> QED
        BY <2>1, <2>2, <3>1, <4>1 DEF Busily, Unsettled, TypeOK
    <3>2. CASE v # u
      <4>1. turn'[v] = turn[v] /\ Busily(v) /\ turn[v].id \in Requests
        BY <1>2, <2>6, <3>2, BusyType DEF ClaimIntent, Begin, KeyInv, TypeOK
      <4>2. turn[v].id # i /\ KeyOf(turn[v].id) # KeyOf(i)
        BY <1>2, <3>2, <4>1 DEF ClaimIntent, Busily, KeyOf
      <4> QED
        BY <2>1, <2>2, <4>1, <4>2, RequestFacts DEF Busily, TypeOK
    <3> QED
      BY <3>1, <3>2
  <2> QED
    BY <2>4, <2>5, <2>6 DEF KeyInv
<1>3. ASSUME NEW u \in Users, NEW i \in Requests, Starts(u, i) PROVE KeyInv'
  <2>1. row[i].state \in Unsettled /\ owner[KeyOf(i)] = i
    BY <1>3, StateFacts DEF Starts, Unsettled, KeyInv, IsLive
  <2>2. ASSUME NEW v \in Users, turn'[v].pc # "idle" PROVE Busily(v)'
    BY <1>3, <2>1, <2>2 DEF Starts, KeyInv, Busily
  <2> QED
    BY <1>3, <2>2 DEF Starts, KeyInv, IsLive
<1>4. ASSUME NEW u \in Users, NEW i \in Requests, BeginSheet(u, i) \/ RecordSubmission(u, i)
      PROVE KeyInv'
  <2>1. /\ row[i].state \in Unsettled
        /\ row'[i].state \in Unsettled /\ row'[i].late = row[i].late
        /\ \A j \in Requests \ {i} : row'[j] = row[j]
        /\ UNCHANGED <<owner, turn>>
    <3>1. CASE BeginSheet(u, i)
      BY <3>1 DEF BeginSheet, Unsettled, Open, TypeOK, Rows
    <3>2. CASE RecordSubmission(u, i)
      BY <3>2 DEF RecordSubmission, Unsettled, Open, Reconcilable, TypeOK, Rows
    <3> QED
      BY <1>4, <3>1, <3>2
  <2>2. ~row[i].late /\ owner[KeyOf(i)] = i
    BY <2>1, StateFacts DEF KeyInv, IsLive
  <2>3. \A j \in Requests : IsLive(j)' => owner'[KeyOf(j)] = j
    BY <2>1, <2>2 DEF KeyInv, IsLive
  <2>4. \A j \in Requests : row'[j].late => row'[j].state = "RECONCILIATION_REQUIRED"
    BY <2>1, <2>2 DEF KeyInv
  <2>5. ASSUME NEW v \in Users, turn'[v].pc # "idle" PROVE Busily(v)'
    BY <2>1, <2>5, BusyType DEF KeyInv, Busily
  <2> QED
    BY <2>3, <2>4, <2>5 DEF KeyInv
<1>5. ASSUME NEW u \in Users, NEW i \in Requests, RecordLateSubmission(u, i) PROVE KeyInv'
  <2>1. /\ row[i].state = "EXPIRED"
        /\ row'[i].state = "RECONCILIATION_REQUIRED" /\ row'[i].late = TRUE
        /\ \A j \in Requests \ {i} : row'[j] = row[j]
        /\ UNCHANGED <<owner, turn>>
    BY <1>5 DEF RecordLateSubmission, TypeOK, Rows
  <2>2. ASSUME NEW v \in Users, turn'[v].pc # "idle" PROVE Busily(v)'
    <3>1. Busily(v) /\ turn[v].id \in Requests
      BY <2>1, <2>2, BusyType DEF KeyInv
    <3>2. turn[v].id # i
      BY <2>1, <3>1, StateFacts DEF Busily
    <3> QED
      BY <2>1, <3>1, <3>2 DEF Busily
  <2> QED
    BY <2>1, <2>2 DEF KeyInv, IsLive
<1>6. CASE UNCHANGED service
  BY <1>6 DEF service, KeyInv, IsLive, Busily
<1> QED
  BY <1>1, <1>2, <1>3, <1>4, <1>5, <1>6, StepKinds

LEMMA KeyInvariant == Spec => []KeyInv
<1>1. Init => KeyInv
  BY DEF Init, KeyInv, IsLive, NoRow, Idle, Live
<1> QED
  BY <1>1, Typing, KeyStep, PTL DEF Spec

\* The replay key of the coordinator and the store admits one live intent at a time, whichever
\* path asked for it and whatever fails in between.
THEOREM OneLive == Spec => []OneLivePerKey
<1>1. KeyInv => OneLivePerKey
  BY DEF KeyInv, OneLivePerKey
<1> QED
  BY <1>1, KeyInvariant, PTL

\* No operation, sweep or late turn moves an intent out of a final state.
THEOREM FinalStays == Spec => FinalStatesStay
<1> DEFINE Stays(i) ==
      /\ row[i].state \in Final => row'[i].state = row[i].state
      /\ row[i].state = "EXPIRED" /\ row'[i].state # "EXPIRED" => row[i].opened /\ row'[i].late
<1>1. ASSUME TypeOK, KeyInv, [Next]_vars, NEW i \in Requests PROVE Stays(i)
  <2>1. CASE \E u \in Users : Inside(u)
    BY <1>1, <2>1, StateFacts DEF Inside, KeyInv, Busily
  <2>2. CASE \E u \in Users, j \in Requests : ClaimIntent(u, j)
    BY <1>1, <2>2 DEF ClaimIntent, MayClaim, TypeOK, Final, Manual
  <2>3. CASE \E u \in Users, j \in Requests : Starts(u, j)
    BY <2>3 DEF Starts
  <2>4. CASE \E u \in Users, j \in Requests : BeginSheet(u, j) \/ RecordSubmission(u, j)
    BY <1>1, <2>4 DEF BeginSheet, RecordSubmission, TypeOK, Final, Manual, Open
  <2>5. CASE \E u \in Users, j \in Requests : RecordLateSubmission(u, j)
    BY <1>1, <2>5 DEF RecordLateSubmission, TypeOK, Rows, Final, Manual
  <2>6. CASE UNCHANGED service
    BY <2>6 DEF service
  <2> QED
    BY <1>1, <2>1, <2>2, <2>3, <2>4, <2>5, <2>6, StepKinds
<1>2. TypeOK /\ KeyInv /\ [Next]_vars => [\A i \in Requests : Stays(i)]_vars
  BY <1>1
<1> QED
  BY <1>2, Typing, KeyInvariant, PTL DEF Spec, FinalStatesStay

-----------------------------------------------------------------------------
(***************************************************************************)
(* A confirmed buy is charged.  The invariant follows the reservation      *)
(* through the turns: it is taken before anything is offered or sent, and  *)
(* committed before CONFIRMED is saved; no step takes a commit back.       *)
(***************************************************************************)
RowCharged(i) ==
  i.side = "BUY" =>
    /\ row[i].state = "CONFIRMED" => res[i] = "COMMITTED"
    /\ row[i].state \in Open \cup Reconcilable => res[i] # "NONE"

TurnCharged(u) ==
  /\ turn[u].pc = "release" => turn[u].to \in Retryable
  /\ turn[u].pc = "commit" => turn[u].to = "CONFIRMED"
  /\ turn[u].pc = "close" => turn[u].to \in Retryable \cup {"CONFIRMED"}
  /\ turn[u].id.side = "BUY" =>
       /\ turn[u].pc \notin {"authorize", "release", "close"} => res[turn[u].id] # "NONE"
       /\ turn[u].pc = "close" /\ turn[u].to = "CONFIRMED" => res[turn[u].id] = "COMMITTED"

ChargeInv ==
  /\ \A i \in Requests : RowCharged(i)
  /\ \A u \in Users : turn[u].pc # "idle" => TurnCharged(u)

ChargesGrow ==
  \A i \in Requests :
    /\ res[i] # "NONE" => res'[i] # "NONE"
    /\ res[i] = "COMMITTED" => res'[i] = "COMMITTED"

LEMMA ClosedNames ==
  /\ \A s \in Retryable \cup Manual : s # "CONFIRMED" /\ s \notin Open \cup Reconcilable
  /\ "CONFIRMED" \notin Open \cup Reconcilable
  /\ "DELEGATED_SUBMISSION_PENDING" \notin Open \cup Reconcilable
  /\ "CREATING" \notin Open \cup Reconcilable
BY DEF Retryable, Manual, Open, Reconcilable

LEMMA RowKeeps ==
  ASSUME TypeOK, NEW i \in Requests, NEW r, row' = [row EXCEPT ![i] = r]
  PROVE  row'[i] = r
BY DEF TypeOK

\* No reservation is ever forgotten, and no commit is taken back.
LEMMA ChargesStep ==
  ASSUME TypeOK, [Next]_vars
  PROVE  ChargesGrow
<1>1. ASSUME NEW u \in Users, Authorize(u) PROVE ChargesGrow
  BY <1>1 DEF Authorize, ChargesGrow, TypeOK
<1>2. ASSUME NEW u \in Users, Release(u) PROVE ChargesGrow
  BY <1>2 DEF Release, ChargesGrow, TypeOK
<1>3. ASSUME NEW u \in Users, Commit(u) PROVE ChargesGrow
  BY <1>3 DEF Commit, ChargesGrow, TypeOK
<1>4. CASE UNCHANGED res
  BY <1>4 DEF ChargesGrow
<1>5. ASSUME NEW u \in Users, TurnStep(u) \/ Evict(u) \/ StoreRejects(u)
      PROVE  Authorize(u) \/ Release(u) \/ Commit(u) \/ UNCHANGED res
  BY <1>5 DEF TurnStep, CreateSteps, CloseSteps, ReadSteps, Simulate, RecheckDelegation, SavePending,
    CallExecutor, ReceiveHash, ReceiveNoHash, SaveSubmitted, SaveAwaiting, AppendAudit, Close, ReadTx,
    ReadReceipt, ReadFails, Decide, Evict, StoreRejects
<1>6. ASSUME NEW u \in Users, NEW i \in Requests, ClientCalls(u, i) \/ Scheduled(u, i)
      PROVE  UNCHANGED res
  BY <1>6 DEF ClientCalls, Scheduled, ClaimIntent, BeginSheet, BeginExpired, CancelIntent,
    RecordSubmission, RecordLateSubmission, ExpireIntent, Reconcile
<1>7. ASSUME \/ \E i \in Requests : Executor(i) \/ Outside(i)
             \/ Tick
             \/ Rest
             \/ UNCHANGED vars
      PROVE  UNCHANGED res
  BY <1>7, OutsideStep DEF service
<1> QED
  BY <1>1, <1>2, <1>3, <1>4, <1>5, <1>6, <1>7 DEF Next

\* A step inside a turn can only disturb the charge of its own intent.
LEMMA ChargeLocal ==
  ASSUME TypeOK, ChargeInv, ChargesGrow, NEW u \in Users, Inside(u), NEW i0, i0 = turn[u].id,
         RowCharged(i0)', turn'[u].pc # "idle" => TurnCharged(u)'
  PROVE  ChargeInv'
<1>1. ASSUME NEW i \in Requests PROVE RowCharged(i)'
  <2>1. CASE i = i0
    BY <2>1
  <2>2. CASE i # i0
    BY <2>2 DEF Inside, ChargeInv, ChargesGrow, RowCharged
  <2> QED
    BY <2>1, <2>2
<1>2. ASSUME NEW v \in Users, v # u, turn'[v].pc # "idle" PROVE TurnCharged(v)'
  <2>1. turn'[v] = turn[v] /\ TurnCharged(v) /\ turn[v].id \in Requests
    BY <1>2, BusyType DEF Inside, ChargeInv
  <2> QED
    BY <2>1 DEF TurnCharged, ChargesGrow
<1> QED
  BY <1>1, <1>2 DEF ChargeInv

\* A step that leaves the row alone keeps its charge.
LEMMA RowChargedStays ==
  ASSUME ChargeInv, ChargesGrow, NEW i \in Requests, row'[i] = row[i]
  PROVE  RowCharged(i)'
BY DEF ChargeInv, ChargesGrow, RowCharged

LEMMA ReleaseThenCharged ==
  ASSUME TypeOK, NEW u \in Users, NEW i, NEW state \in Retryable, ReleaseThen(u, i, state)
  PROVE  TurnCharged(u)'
<1>1. turn'[u].pc = "release" /\ turn'[u].to = state
  BY DEF TypeOK, ReleaseThen, Idle
<1> QED
  BY <1>1 DEF TurnCharged

\* A step of a turn that goes on after the authorization.
LEMMA GotoCharged ==
  ASSUME TypeOK, NEW u \in Users, NEW pc, Goto(u, pc), turn[u].pc # "idle",
         pc \notin {"release", "commit", "close"},
         turn[u].id.side = "BUY" => res'[turn[u].id] # "NONE"
  PROVE  TurnCharged(u)'
<1>1. turn'[u].pc = pc /\ turn'[u].id = turn[u].id
  BY BusyType DEF TypeOK, Goto, Busy
<1> QED
  BY <1>1 DEF TurnCharged

\* Each step of a turn keeps its intent and itself charged.
LEMMA ChargeStepInside ==
  ASSUME TypeOK, ChargeInv, ChargesGrow, NEW u \in Users, NEW i, i = turn[u].id,
         TurnStep(u) \/ Evict(u) \/ StoreRejects(u)
  PROVE  RowCharged(i)' /\ (turn'[u].pc # "idle" => TurnCharged(u)')
<1> DEFINE Goal == RowCharged(i)' /\ (turn'[u].pc # "idle" => TurnCharged(u)')
<1>1. i \in Requests /\ turn[u].pc # "idle" /\ turn[u] \in Busy /\ row[i] \in Rows
  BY InsideStep, BusyType DEF Inside, TypeOK
<1>2. RowCharged(i) /\ TurnCharged(u)
  BY <1>1 DEF ChargeInv
<1>3. \A s \in Retryable \cup Manual \cup {"EXPIRED"} : s # "CONFIRMED"
  BY DEF Retryable, Manual
<1>4. CASE Authorize(u)
  <2>1. RowCharged(i)'
    BY <1>4, <1>1, RowChargedStays DEF Authorize
  <2>2. CASE ReleaseThen(u, i, "REJECTED")
    BY <2>1, <2>2, ReleaseThenCharged DEF Retryable
  <2>3. CASE Goto(u, "simulate") /\ (i.side = "BUY" => res'[i] # "NONE")
    BY <1>1, <2>1, <2>3, GotoCharged
  <2>4. \/ ReleaseThen(u, i, "REJECTED")
        \/ Goto(u, "simulate") /\ (i.side = "BUY" => res'[i] # "NONE")
    BY <1>4, <1>1, RequestsAssumption DEF Authorize, TypeOK, Ids, Sides
  <2> QED
    BY <2>1, <2>2, <2>3, <2>4
<1>5. CASE Simulate(u)
  BY <1>5, <1>1, <1>2, RowChargedStays, ReleaseThenCharged, GotoCharged, FinishEnds
  DEF Simulate, At, TurnCharged, Retryable
<1>6. CASE RecheckDelegation(u)
  BY <1>6, <1>1, <1>2, RowChargedStays, ReleaseThenCharged, GotoCharged, FinishEnds
  DEF RecheckDelegation, At, TurnCharged, Retryable
<1>7. CASE AppendAudit(u)
  BY <1>7, <1>1, <1>2, RowChargedStays, ReleaseThenCharged, GotoCharged, FinishEnds
  DEF AppendAudit, At, TurnCharged, Retryable
<1>8. CASE CallExecutor(u)
  BY <1>8, <1>1, <1>2, RowChargedStays, ReleaseThenCharged, GotoCharged
  DEF CallExecutor, At, TurnCharged
<1>9. CASE SavePending(u)
  <2>1. row'[i].state = "DELEGATED_SUBMISSION_PENDING" /\ res' = res
    BY <1>9, <1>1 DEF SavePending, Save, TypeOK, Rows
  <2>2. RowCharged(i)'
    BY <1>9, <1>2, <2>1, ClosedNames DEF SavePending, At, TurnCharged, RowCharged, Manual
  <2> QED
    BY <1>9, <1>1, <1>2, <2>2, GotoCharged DEF SavePending, At, TurnCharged
<1>10. CASE ReceiveNoHash(u)
  <2>1. row'[i].state = "RECONCILIATION_REQUIRED" /\ res' = res
    BY <1>10, <1>1 DEF ReceiveNoHash, Save, TypeOK, Rows
  <2>2. RowCharged(i)'
    BY <1>10, <1>2, <2>1, ClosedNames DEF ReceiveNoHash, At, TurnCharged, RowCharged, Manual
  <2> QED
    BY <1>10, <1>1, <1>2, <2>2, FinishEnds DEF ReceiveNoHash, At, TurnCharged
<1>11. CASE SaveSubmitted(u)
  <2>1. row'[i].state = "SUBMITTED_PENDING_RECONCILIATION" /\ res' = res
    BY <1>11, <1>1 DEF SaveSubmitted, Save, TypeOK, Rows
  <2>2. RowCharged(i)'
    BY <1>11, <1>2, <2>1, ClosedNames DEF SaveSubmitted, At, TurnCharged, RowCharged, Manual
  <2> QED
    BY <1>11, <1>1, <1>2, <2>2, GotoCharged DEF SaveSubmitted, At, TurnCharged
<1>12. CASE SaveAwaiting(u)
  <2>1. row'[i].state = "AWAITING_USER_CONFIRMATION" /\ res' = res
    BY <1>12, <1>1 DEF SaveAwaiting, Save, TypeOK, Rows
  <2>2. RowCharged(i)'
    BY <1>12, <1>2, <2>1, ClosedNames DEF SaveAwaiting, At, TurnCharged, RowCharged, Manual
  <2> QED
    BY <1>12, <1>1, <1>2, <2>2, GotoCharged DEF SaveAwaiting, At, TurnCharged
<1>13. CASE ReceiveHash(u)
  <2>1. turn'[u].pc = "submitted" /\ turn'[u].id = i /\ res' = res /\ row' = row
    BY <1>13, <1>1 DEF ReceiveHash, TypeOK, Busy
  <2> QED
    BY <1>13, <1>1, <1>2, <2>1, RowChargedStays DEF ReceiveHash, At, TurnCharged
<1>14. CASE ReadTx(u)
  <2>1. turn'[u].pc = "readReceipt" /\ turn'[u].id = i /\ res' = res /\ row' = row
    BY <1>14, <1>1 DEF ReadTx, TypeOK, Busy
  <2> QED
    BY <1>14, <1>1, <1>2, <2>1, RowChargedStays DEF ReadTx, At, TurnCharged
<1>15. CASE ReadReceipt(u)
  <2>1. turn'[u].pc = "decide" /\ turn'[u].id = i /\ res' = res /\ row' = row
    BY <1>15, <1>1 DEF ReadReceipt, TypeOK, Busy
  <2> QED
    BY <1>15, <1>1, <1>2, <2>1, RowChargedStays DEF ReadReceipt, At, TurnCharged
<1>16. CASE Release(u) \/ Commit(u)
  <2>1. /\ turn'[u].pc = "close" /\ turn'[u].id = i /\ turn'[u].to = turn[u].to
        /\ row' = row
    BY <1>16, <1>1 DEF Release, Commit, Goto, TypeOK, Busy
  <2>2. CASE Release(u)
    BY <2>1, <2>2, <1>1, <1>2, <1>3, RowChargedStays DEF Release, At, TurnCharged
  <2>3. CASE Commit(u)
    <3>1. i.side = "BUY" => res'[i] = "COMMITTED"
      BY <2>3, <1>1, <1>2 DEF Commit, At, TurnCharged, TypeOK
    <3> QED
      BY <2>1, <2>3, <3>1, <1>1, <1>2, RowChargedStays DEF Commit, At, TurnCharged
  <2> QED
    BY <1>16, <2>2, <2>3
<1>17. CASE Close(u)
  <2>1. row'[i].state = turn[u].to /\ res' = res
    BY <1>17, <1>1 DEF Close, TypeOK, Rows
  <2>2. RowCharged(i)'
    BY <1>17, <1>2, <2>1, ClosedNames DEF Close, At, TurnCharged, RowCharged
  <2> QED
    BY <1>17, <2>2, FinishEnds DEF Close
<1>18. CASE ReadFails(u)
  <2>1. row'[i].state \in {row[i].state, "RECONCILIATION_REQUIRED"} /\ res' = res
    <3>1. CASE row' = [row EXCEPT ![i] = CountTry(row[i])]
      BY <1>18, <1>1, <3>1, CountTryKeeps, RowKeeps DEF ReadFails
    <3>2. CASE row' = [row EXCEPT ![i] = [CountTry(row[i]) EXCEPT !.state = "RECONCILIATION_REQUIRED"]]
      BY <1>18, <1>1, <3>2, CountTryState, RowKeeps DEF ReadFails
    <3> QED
      BY <1>18, <3>1, <3>2 DEF ReadFails
  <2>2. RowCharged(i)'
    BY <1>2, <2>1, ClosedNames DEF RowCharged, Manual
  <2> QED
    BY <1>18, <2>2, FinishEnds DEF ReadFails
<1>19. CASE Decide(u)
  <2>1. res' = res /\ (i.side = "BUY" => res[i] # "NONE")
    BY <1>19, <1>2 DEF Decide, At, TurnCharged
  <2>2. ASSUME NEW state, DecideAndSave(u, state), state \in {row[i].state} \cup Manual PROVE Goal
    <3> DEFINE r == [CountTry(row[i]) EXCEPT !.state = state]
    <3>1. row'[i].state = state
      <4>1. r.state = state
        BY <1>1, CountTryState
      <4>2. row' = [row EXCEPT ![i] = r]
        BY <2>2 DEF DecideAndSave
      <4> QED
        BY <1>1, <4>1, <4>2 DEF TypeOK
    <3> QED
      BY <1>2, <2>1, <2>2, <3>1, ClosedNames, FinishEnds DEF RowCharged, DecideAndSave
  <2>3. CASE DecideMissing(u) \/ DecideMismatch(u) \/ DecidePending(u)
    <3>1. \E state \in {row[i].state} \cup Manual : DecideAndSave(u, state)
      BY <2>3 DEF DecideMissing, DecideMismatch, DecidePending, Manual
    <3> QED
      BY <2>2, <3>1
  <2>4. CASE DecideReverted(u)
    BY <2>4, <1>1, RowChargedStays, RevertedCloses DEF TurnCharged, Retryable
  <2>5. CASE DecideSuccess(u)
    <3> DEFINE r == [CountTry(row[i]) EXCEPT !.state = "INCLUDED_AWAITING_SAFE", !.block = turn[u].block]
    <3>1. CASE Finish(u) /\ row' = [row EXCEPT ![i] = r]
      <4>1. r.state = "INCLUDED_AWAITING_SAFE"
        BY <1>1, CountTryState
      <4>2. row'[i].state = "INCLUDED_AWAITING_SAFE"
        BY <1>1, <3>1, <4>1 DEF TypeOK
      <4> QED
        BY <2>1, <3>1, <4>2, FinishEnds DEF RowCharged
    <3>2. CASE turn'[u].pc = "commit" /\ turn'[u].id = i /\ turn'[u].to = "CONFIRMED" /\ row' = row
      BY <1>1, <2>1, <3>2, RowChargedStays DEF TurnCharged
    <3> QED
      BY <2>5, <3>1, <3>2 DEF DecideSuccess, TypeOK, Idle
  <2> QED
    BY <1>19, <2>3, <2>4, <2>5 DEF Decide
<1>20. CASE Evict(u)
  BY <1>20, <1>1, <1>2, RowChargedStays, ReleaseThenCharged, GotoCharged, FinishEnds
  DEF Evict, At, TurnCharged
<1>21. CASE StoreRejects(u)
  BY <1>21, <1>1, <1>2, RowChargedStays, ReleaseThenCharged, GotoCharged, FinishEnds
  DEF StoreRejects, At, TurnCharged, Retryable
<1> QED
  BY <1>4, <1>5, <1>6, <1>7, <1>8, <1>9, <1>10, <1>11, <1>12, <1>13, <1>14, <1>15,
     <1>16, <1>17, <1>18, <1>19, <1>20, <1>21
  DEF TurnStep, CreateSteps, CloseSteps, ReadSteps

LEMMA ChargeStep ==
  ASSUME TypeOK, ChargeInv, [Next]_vars
  PROVE  ChargeInv'
<1>1. ChargesGrow
  BY ChargesStep
<1>2. ASSUME NEW u \in Users, TurnStep(u) \/ Evict(u) \/ StoreRejects(u) PROVE ChargeInv'
  BY <1>1, <1>2, InsideStep, ChargeStepInside, ChargeLocal
<1>3. ASSUME NEW u \in Users, NEW i \in Requests, ClaimIntent(u, i) PROVE ChargeInv'
  <2>1. /\ row'[i].state = "CREATING" /\ \A j \in Requests \ {i} : row'[j] = row[j]
        /\ turn'[u].pc = "authorize" /\ \A v \in Users \ {u} : turn'[v] = turn[v]
        /\ res' = res
    BY <1>3 DEF ClaimIntent, Begin, NoRow, Idle, TypeOK
  <2>2. ASSUME NEW j \in Requests PROVE RowCharged(j)'
    BY <2>1, ClosedNames DEF ChargeInv, RowCharged
  <2>3. ASSUME NEW v \in Users, turn'[v].pc # "idle" PROVE TurnCharged(v)'
    BY <2>1, <2>3 DEF ChargeInv, TurnCharged
  <2> QED
    BY <2>2, <2>3 DEF ChargeInv
<1>4. ASSUME NEW u \in Users, NEW i \in Requests,
             BeginExpired(u, i) \/ CancelIntent(u, i) \/ ExpireIntent(u, i) \/ Reconcile(u, i)
      PROVE ChargeInv'
  <2>1. Starts(u, i) /\ res' = res
    BY <1>4, StartsStep DEF BeginExpired, CancelIntent, ExpireIntent, Reconcile
  <2>2. TurnCharged(u)'
    <3>1. CASE \E state \in Retryable : ReleaseThen(u, i, state)
      BY <3>1, ReleaseThenCharged
    <3>2. CASE Reconcile(u, i)
      <4>1. turn'[u].pc = "readTx" /\ turn'[u].id = i
        BY <3>2 DEF Reconcile, Begin, Idle, TypeOK
      <4>2. i.side = "BUY" => res[i] # "NONE"
        BY <2>1 DEF Starts, ChargeInv, RowCharged
      <4> QED
        BY <2>1, <4>1, <4>2 DEF TurnCharged
    <3> QED
      BY <1>4, <3>1, <3>2 DEF BeginExpired, CancelIntent, ExpireIntent, Retryable
  <2>3. ASSUME NEW v \in Users, turn'[v].pc # "idle" PROVE TurnCharged(v)'
    BY <2>1, <2>2, <2>3 DEF Starts, ChargeInv, TurnCharged
  <2> QED
    BY <2>1, <2>3 DEF Starts, ChargeInv, RowCharged
<1>5. ASSUME NEW u \in Users, NEW i \in Requests,
             BeginSheet(u, i) \/ RecordSubmission(u, i) \/ RecordLateSubmission(u, i)
      PROVE ChargeInv'
  <2>1. /\ row'[i].state \in Open \cup Reconcilable => row[i].state \in Open
        /\ row'[i].state # "CONFIRMED"
        /\ \A j \in Requests \ {i} : row'[j] = row[j]
        /\ UNCHANGED <<res, turn>>
    <3>1. CASE BeginSheet(u, i)
      BY <3>1 DEF BeginSheet, Open, TypeOK, Rows
    <3>2. CASE RecordSubmission(u, i)
      BY <3>2 DEF RecordSubmission, Open, TypeOK, Rows
    <3>3. CASE RecordLateSubmission(u, i)
      BY <3>3, ClosedNames DEF RecordLateSubmission, Manual, TypeOK, Rows
    <3> QED
      BY <1>5, <3>1, <3>2, <3>3
  <2> QED
    BY <2>1 DEF ChargeInv, RowCharged, TurnCharged
<1>6. CASE UNCHANGED service
  BY <1>6 DEF service, ChargeInv, RowCharged, TurnCharged
<1> QED
  BY <1>2, <1>3, <1>4, <1>5, <1>6, OutsideStep DEF Next, ClientCalls, Scheduled

LEMMA ChargeInvariant == Spec => []ChargeInv
<1>1. Init => ChargeInv
  BY ClosedNames DEF Init, ChargeInv, RowCharged, NoRow, Idle, Open, Reconcilable
<1> QED
  BY <1>1, Typing, ChargeStep, PTL DEF Spec

\* Reconciliation commits the reservation of a buy before it saves CONFIRMED, and neither an
\* eviction, a failed statement nor a second pass leaves a confirmed buy uncharged.
THEOREM ConfirmedCharged == Spec => []ConfirmedIsCharged
<1>1. ChargeInv => ConfirmedIsCharged
  BY DEF ChargeInv, RowCharged, ConfirmedIsCharged
<1> QED
  BY <1>1, ChargeInvariant, PTL

-----------------------------------------------------------------------------
(***************************************************************************)
(* The steps of a turn, field by field: what each leaves of its turn and   *)
(* of the row of its intent.  The invariants below are shown to be kept    *)
(* from this account of the steps.                                         *)
(***************************************************************************)
GoesTo(u, pc) ==
  /\ turn'[u].pc = pc
  /\ turn'[u].id = turn[u].id
  /\ turn'[u].to = turn[u].to
  /\ turn'[u].block = turn[u].block

Closes(u, state) ==
  /\ turn'[u].pc = "release"
  /\ turn'[u].id = turn[u].id
  /\ turn'[u].to = state

Ends(u) == turn'[u].pc = "idle"

\* The row of i is saved with another state; what it was opened, charged and reported for stays.
Saved(i, state) ==
  /\ row'[i].state = state
  /\ row'[i].opened = row[i].opened
  /\ row'[i].day = row[i].day
  /\ row'[i].late = row[i].late

ReservesOrRejects(u) ==
  LET i == turn[u].id
  IN  /\ row' = row /\ exec' = exec
      /\ \/ /\ i.side = "BUY" /\ res[i] = "NONE"
            /\ Charged(u, row[i].day) + Amount[i.quote] <= CapFor(i)
            /\ res' = [res EXCEPT ![i] = "RESERVED"]
            /\ GoesTo(u, "simulate")
         \/ /\ i.side = "SELL" \/ res[i] # "NONE"
            /\ res' = res
            /\ GoesTo(u, "simulate")
         \/ res' = res /\ Closes(u, "REJECTED")

Prepares(u) ==
  LET i == turn[u].id
  IN  /\ row' = row /\ res' = res /\ exec' = exec
      /\ \/ At(u, "simulate") /\ i.mode = "AUTO_BUY" /\ GoesTo(u, "recheck")
         \/ At(u, "simulate") /\ i.mode = "CONFIRM_EACH" /\ GoesTo(u, "awaiting")
         \/ At(u, "recheck") /\ GoesTo(u, "pending")
         \/ (At(u, "simulate") \/ At(u, "recheck")) /\ Closes(u, "REJECTED")

Delegates(u) ==
  LET i == turn[u].id
  IN  /\ res' = res
      /\ \/ /\ At(u, "pending") /\ Saved(i, "DELEGATED_SUBMISSION_PENDING")
            /\ exec' = exec /\ GoesTo(u, "call")
         \/ /\ At(u, "call") /\ row' = row
            /\ exec' = [exec EXCEPT ![i] = "CALLED"] /\ GoesTo(u, "send")
         \/ At(u, "send") /\ row' = row /\ exec' = exec /\ GoesTo(u, "submitted")
         \/ At(u, "send") /\ Saved(i, "RECONCILIATION_REQUIRED") /\ exec' = exec /\ Ends(u)

Offers(u) ==
  LET i == turn[u].id
  IN  /\ res' = res /\ exec' = exec
      /\ \/ At(u, "submitted") /\ Saved(i, "SUBMITTED_PENDING_RECONCILIATION") /\ GoesTo(u, "audit")
         \/ At(u, "awaiting") /\ Saved(i, "AWAITING_USER_CONFIRMATION") /\ GoesTo(u, "audit")
         \/ At(u, "audit") /\ row' = row /\ Ends(u)
         \/ "audit" \in Faults /\ At(u, "audit") /\ row' = row /\ Closes(u, "REJECTED")

Settles(u) ==
  LET i == turn[u].id
  IN  /\ exec' = exec
      /\ \/ /\ At(u, "release") /\ row' = row /\ GoesTo(u, "close")
            /\ res' = [res EXCEPT ![i] = IF @ \in {"NONE", "COMMITTED"} THEN @ ELSE "RELEASED"]
         \/ /\ At(u, "commit") /\ row' = row /\ GoesTo(u, "close")
            /\ res' = [res EXCEPT ![i] = IF @ = "NONE" THEN @ ELSE "COMMITTED"]
         \/ /\ At(u, "close") /\ res' = res /\ Saved(i, turn[u].to) /\ Ends(u)
            /\ turn[u].to = "CONFIRMED" => row'[i].block = turn[u].block

Reads(u) ==
  LET i == turn[u].id
  IN  /\ row' = row /\ res' = res /\ exec' = exec
      /\ \/ /\ At(u, "readTx")
            /\ turn'[u].pc = "readReceipt" /\ turn'[u].id = i
         \/ /\ At(u, "readReceipt")
            /\ turn'[u].pc = "decide" /\ turn'[u].id = i /\ turn'[u].block = reorgs[i]
            /\ turn'[u].receipt = "ok" => tx[i] \in {"OK", "SAFE_OK"}
            /\ turn'[u].receipt = "reverted" => tx[i] \in {"REVERTED", "SAFE_REVERTED"}

Concludes(u) ==
  LET i == turn[u].id
  IN  /\ res' = res /\ exec' = exec
      /\ \/ /\ turn[u].pc \in {"readTx", "readReceipt", "decide"} /\ Ends(u)
            /\ \E state \in {row[i].state} \cup Manual : Saved(i, state)
         \/ At(u, "decide") /\ Saved(i, "INCLUDED_AWAITING_SAFE") /\ Ends(u)
         \/ /\ At(u, "decide") /\ turn[u].receipt = "reverted" /\ row' = row
            /\ Closes(u, "FAILED") /\ turn'[u].block = turn[u].block
         \/ /\ At(u, "decide") /\ turn[u].receipt = "ok" /\ row' = row
            /\ reorgs[i] = turn[u].block => tx[i] \in {"SAFE_OK", "SAFE_REVERTED"}
            /\ turn'[u].pc = "commit" /\ turn'[u].id = i /\ turn'[u].to = "CONFIRMED"
            /\ turn'[u].block = turn[u].block

\* What every step of a turn leaves alone.
Alone(u) ==
  /\ turn[u].id \in Requests /\ turn[u].pc # "idle"
  /\ \A v \in Users \ {u} : turn'[v] = turn[v]
  /\ \A j \in Requests \ {turn[u].id} : row'[j] = row[j]
  /\ UNCHANGED <<clock, owner, tx, reorgs>>

TurnMoves(u) ==
  /\ Alone(u)
  /\ \/ At(u, "authorize") /\ ReservesOrRejects(u)
     \/ Prepares(u) \/ Delegates(u) \/ Offers(u) \/ Settles(u) \/ Reads(u) \/ Concludes(u)

LEMMA GotoGoes ==
  ASSUME TypeOK, NEW u \in Users, turn[u].pc # "idle", NEW pc, Goto(u, pc)
  PROVE  GoesTo(u, pc)
BY BusyType DEF TypeOK, Goto, GoesTo, Busy

LEMMA ReleaseThenCloses ==
  ASSUME TypeOK, NEW u \in Users, NEW state, ReleaseThen(u, turn[u].id, state)
  PROVE  Closes(u, state)
BY DEF TypeOK, ReleaseThen, Closes, Idle

LEMMA SavedRow ==
  ASSUME TypeOK, NEW i \in Requests, NEW r, row' = [row EXCEPT ![i] = r],
         r.opened = row[i].opened, r.day = row[i].day, r.late = row[i].late
  PROVE  Saved(i, r.state)
BY DEF TypeOK, Saved

LEMMA CountTrySaves ==
  ASSUME NEW r \in Rows, NEW state, NEW n
  PROVE  /\ CountTry(r).opened = r.opened /\ CountTry(r).day = r.day
         /\ [CountTry(r) EXCEPT !.state = state].opened = r.opened
         /\ [CountTry(r) EXCEPT !.state = state].day = r.day
         /\ [CountTry(r) EXCEPT !.state = state, !.block = n].opened = r.opened
         /\ [CountTry(r) EXCEPT !.state = state, !.block = n].day = r.day
BY DEF CountTry, Rows

LEMMA DecideAndSaveSaves ==
  ASSUME TypeOK, NEW u \in Users, turn[u].pc # "idle", NEW state, DecideAndSave(u, state)
  PROVE  Saved(turn[u].id, state) /\ Ends(u)
<1> DEFINE i == turn[u].id
           r == [CountTry(row[i]) EXCEPT !.state = state]
<1>1. i \in Requests /\ row[i] \in Rows
  BY BusyType DEF TypeOK
<1>2. row' = [row EXCEPT ![i] = r] /\ Finish(u)
  BY DEF DecideAndSave
<1>3. r.state = state /\ r.opened = row[i].opened /\ r.day = row[i].day /\ r.late = row[i].late
  BY <1>1, CountTryState, CountTryKeeps, CountTrySaves
<1> HIDE DEF r
<1>4. Saved(i, r.state)
  BY <1>1, <1>2, <1>3, SavedRow
<1> QED
  BY <1>2, <1>3, <1>4, FinishEnds DEF Ends

LEMMA TurnStepMoves ==
  ASSUME TypeOK, NEW u \in Users, TurnStep(u)
  PROVE  TurnMoves(u)
<1> DEFINE i == turn[u].id
<1>1. Alone(u)
  BY InsideStep
  DEF Alone, Inside, TurnStep, CreateSteps, CloseSteps, ReadSteps, Authorize, Simulate,
      RecheckDelegation, SavePending, CallExecutor, ReceiveHash, ReceiveNoHash, SaveSubmitted,
      SaveAwaiting, AppendAudit, Release, Commit, Close, ReadTx, ReadReceipt, ReadFails, Decide
<1>2. i \in Requests /\ turn[u].pc # "idle" /\ turn[u] \in Busy /\ row[i] \in Rows
  BY <1>1, BusyType DEF Alone, TypeOK
<1>3. CASE Authorize(u)
  BY <1>3, <1>1, <1>2, GotoGoes, ReleaseThenCloses DEF Authorize, TurnMoves, ReservesOrRejects
<1>4. CASE Simulate(u) \/ RecheckDelegation(u)
  BY <1>4, <1>1, <1>2, GotoGoes, ReleaseThenCloses
  DEF Simulate, RecheckDelegation, TurnMoves, Prepares
<1>5. CASE SavePending(u)
  <2>1. Saved(i, "DELEGATED_SUBMISSION_PENDING")
    BY <1>5, <1>2 DEF SavePending, Save, Saved, TypeOK, Rows
  <2> QED
    BY <1>5, <2>1, <1>1, <1>2, GotoGoes DEF SavePending, TurnMoves, Delegates
<1>6. CASE CallExecutor(u)
  BY <1>6, <1>1, <1>2, GotoGoes DEF CallExecutor, TurnMoves, Delegates
<1>7. CASE ReceiveHash(u)
  <2>1. GoesTo(u, "submitted")
    BY <1>7, <1>2 DEF ReceiveHash, GoesTo, TypeOK, Busy
  <2> QED
    BY <1>7, <2>1, <1>1, <1>2 DEF ReceiveHash, TurnMoves, Delegates
<1>8. CASE ReceiveNoHash(u)
  <2>1. Saved(i, "RECONCILIATION_REQUIRED")
    BY <1>8, <1>2 DEF ReceiveNoHash, Save, Saved, TypeOK, Rows
  <2> QED
    BY <1>8, <2>1, <1>1, <1>2, FinishEnds DEF ReceiveNoHash, TurnMoves, Delegates, Ends
<1>9. CASE SaveSubmitted(u)
  <2>1. Saved(i, "SUBMITTED_PENDING_RECONCILIATION")
    BY <1>9, <1>2 DEF SaveSubmitted, Saved, TypeOK, Rows
  <2> QED
    BY <1>9, <2>1, <1>1, <1>2, GotoGoes DEF SaveSubmitted, TurnMoves, Offers
<1>10. CASE SaveAwaiting(u)
  <2>1. Saved(i, "AWAITING_USER_CONFIRMATION")
    BY <1>10, <1>2 DEF SaveAwaiting, Save, Saved, TypeOK, Rows
  <2> QED
    BY <1>10, <2>1, <1>1, <1>2, GotoGoes DEF SaveAwaiting, TurnMoves, Offers
<1>11. CASE AppendAudit(u)
  BY <1>11, <1>1, <1>2, FinishEnds, ReleaseThenCloses DEF AppendAudit, TurnMoves, Offers, Ends
<1>12. CASE Release(u) \/ Commit(u)
  BY <1>12, <1>1, <1>2, GotoGoes DEF Release, Commit, TurnMoves, Settles
<1>13. CASE Close(u)
  <2>1. Saved(i, turn[u].to) /\ (turn[u].to = "CONFIRMED" => row'[i].block = turn[u].block)
    BY <1>13, <1>2 DEF Close, Saved, TypeOK, Rows
  <2> QED
    BY <1>13, <2>1, <1>1, <1>2, FinishEnds DEF Close, TurnMoves, Settles, Ends
<1>14. CASE ReadTx(u)
  <2>1. turn'[u].pc = "readReceipt" /\ turn'[u].id = i
    BY <1>14, <1>2 DEF ReadTx, TypeOK, Busy
  <2> QED
    BY <1>14, <2>1, <1>1, <1>2 DEF ReadTx, TurnMoves, Reads
<1>15. CASE ReadReceipt(u)
  <2>1. /\ turn'[u].pc = "decide" /\ turn'[u].id = i /\ turn'[u].block = reorgs[i]
        /\ turn'[u].receipt = "ok" => tx[i] \in {"OK", "SAFE_OK"}
        /\ turn'[u].receipt = "reverted" => tx[i] \in {"REVERTED", "SAFE_REVERTED"}
    BY <1>15, <1>2 DEF ReadReceipt, TypeOK, Busy, Included
  <2> QED
    BY <1>15, <2>1, <1>1, <1>2 DEF ReadReceipt, TurnMoves, Reads
<1>16. CASE ReadFails(u)
  <2>1. \E state \in {row[i].state} \cup Manual : Saved(i, state)
    <3>1. CASE row' = [row EXCEPT ![i] = CountTry(row[i])]
      <4>1. Saved(i, CountTry(row[i]).state)
        BY <3>1, <1>2, CountTryKeeps, CountTrySaves, SavedRow
      <4> QED
        BY <4>1, <1>2, CountTryKeeps
    <3>2. CASE row' = [row EXCEPT ![i] = [CountTry(row[i]) EXCEPT !.state = "RECONCILIATION_REQUIRED"]]
      <4> DEFINE r == [CountTry(row[i]) EXCEPT !.state = "RECONCILIATION_REQUIRED"]
      <4>1. /\ r.state = "RECONCILIATION_REQUIRED" /\ r.opened = row[i].opened /\ r.day = row[i].day
            /\ r.late = row[i].late /\ row' = [row EXCEPT ![i] = r]
        BY <1>2, <3>2, CountTryState, CountTryKeeps, CountTrySaves
      <4> HIDE DEF r
      <4>2. Saved(i, r.state)
        BY <4>1, <1>2, SavedRow
      <4> QED
        BY <4>1, <4>2 DEF Manual
    <3> QED
      BY <1>16, <3>1, <3>2 DEF ReadFails
  <2> QED
    BY <1>16, <2>1, <1>1, <1>2, FinishEnds DEF ReadFails, TurnMoves, Concludes, Ends
<1>17. CASE Decide(u)
  <2>1. CASE DecideMissing(u) \/ DecideMismatch(u) \/ DecidePending(u)
    <3>1. \E state \in {row[i].state} \cup Manual : DecideAndSave(u, state)
      BY <2>1 DEF DecideMissing, DecideMismatch, DecidePending, Manual
    <3>2. Ends(u) /\ \E state \in {row[i].state} \cup Manual : Saved(i, state)
      BY <3>1, <1>2, DecideAndSaveSaves
    <3> QED
      BY <1>17, <3>2, <1>1, <1>2 DEF Decide, At, TurnMoves, Concludes
  <2>2. CASE DecideReverted(u)
    BY <1>17, <2>2, <1>1, <1>2, RevertedCloses
    DEF Decide, DecideReverted, TurnMoves, Concludes, Closes
  <2>3. CASE DecideSuccess(u)
    <3> DEFINE r == [CountTry(row[i]) EXCEPT !.state = "INCLUDED_AWAITING_SAFE", !.block = turn[u].block]
               t == [Idle EXCEPT !.pc = "commit", !.id = i, !.to = "CONFIRMED", !.block = turn[u].block]
    <3>1. CASE Finish(u) /\ row' = [row EXCEPT ![i] = r]
      <4>1. /\ r.state = "INCLUDED_AWAITING_SAFE" /\ r.opened = row[i].opened /\ r.day = row[i].day
            /\ r.late = row[i].late
        BY <1>2, CountTryState, CountTryKeeps, CountTrySaves
      <4> HIDE DEF r
      <4>2. Saved(i, r.state)
        BY <3>1, <4>1, <1>2, SavedRow
      <4> QED
        BY <1>17, <3>1, <4>1, <4>2, <1>1, <1>2, FinishEnds DEF Decide, TurnMoves, Concludes, Ends
    <3>2. CASE /\ turn[u].receipt = "ok" /\ row' = row /\ turn' = [turn EXCEPT ![u] = t]
               /\ TRUE \in CoveredBySafe(u)
      <4>1. /\ turn'[u].pc = "commit" /\ turn'[u].id = i /\ turn'[u].to = "CONFIRMED"
            /\ turn'[u].block = turn[u].block
        BY <3>2 DEF TypeOK, Idle
      <4>2. reorgs[i] = turn[u].block => tx[i] \in {"SAFE_OK", "SAFE_REVERTED"}
        BY <3>2 DEF CoveredBySafe
      <4> QED
        BY <1>17, <3>2, <4>1, <4>2, <1>1, <1>2 DEF Decide, TurnMoves, Concludes
    <3> QED
      BY <2>3, <3>1, <3>2 DEF DecideSuccess, CoveredBySafe
  <2> QED
    BY <1>17, <2>1, <2>2, <2>3 DEF Decide
<1> QED
  BY <1>3, <1>4, <1>5, <1>6, <1>7, <1>8, <1>9, <1>10, <1>11, <1>12, <1>13, <1>14, <1>15, <1>16, <1>17
  DEF TurnStep, CreateSteps, CloseSteps, ReadSteps

\* A turn that is cut short, by an eviction or by the store.
CutShort(u) ==
  /\ Alone(u)
  /\ UNCHANGED <<row, res, exec>>
  /\ Ends(u) \/ ("d1" \in Faults /\ Closes(u, "REJECTED"))

LEMMA TurnCutShort ==
  ASSUME TypeOK, NEW u \in Users, Evict(u) \/ StoreRejects(u)
  PROVE  CutShort(u)
<1>1. Alone(u)
  BY InsideStep DEF Alone, Inside, Evict, StoreRejects
<1>2. UNCHANGED <<row, res, exec>>
  BY DEF Evict, StoreRejects
<1> QED
  BY <1>1, <1>2, FinishEnds, ReleaseThenCloses DEF CutShort, Evict, StoreRejects, Ends

\* The beginning of a turn on an intent that exists, and the calls that are one step.
Begins(u, i) ==
  /\ Starts(u, i)
  /\ turn[u].pc = "idle"
  /\ UNCHANGED <<clock, res, exec, tx, reorgs>>
  /\ \/ row[i].state \in Open /\ turn'[u].pc = "release" /\ turn'[u].to \in {"EXPIRED", "CANCELLED"}
     \/ row[i].state \in Reconcilable /\ turn'[u].pc = "readTx"

LEMMA BeginsStep ==
  ASSUME TypeOK, NEW u \in Users, NEW i \in Requests,
         BeginExpired(u, i) \/ CancelIntent(u, i) \/ ExpireIntent(u, i) \/ Reconcile(u, i)
  PROVE  Begins(u, i)
BY StartsStep, ZenonT(60)
DEF TypeOK, Begins, BeginExpired, CancelIntent, ExpireIntent, Reconcile, ReleaseThen, Begin, Idle,
    At

Claims(u, i) ==
  /\ turn[u].pc = "idle" /\ i.user = u
  /\ row[i].state = "NONE" /\ MayClaim(i)
  /\ clock <= MaxTime
  /\ \A v \in Users \ {u} : turn'[v] = turn[v]
  /\ turn'[u].pc = "authorize" /\ turn'[u].id = i
  /\ \A j \in Requests \ {i} : row'[j] = row[j]
  /\ row'[i].state = "CREATING" /\ row'[i].day = DayOf(clock)
  /\ row'[i].late = FALSE /\ row'[i].opened = FALSE
  /\ UNCHANGED <<clock, res, exec, tx, reorgs>>

LEMMA ClaimsStep ==
  ASSUME TypeOK, NEW u \in Users, NEW i \in Requests, ClaimIntent(u, i)
  PROVE  Claims(u, i)
<1>1. clock <= MaxTime
  BY BoundsAssumption DEF ClaimIntent, TypeOK
<1> QED
  BY <1>1 DEF ClaimIntent, Claims, TypeOK, MayClaim, Begin, NoRow, Idle, At

\* The calls that save the row of an intent outside any turn.
Reports(u, i) ==
  /\ turn[u].pc = "idle" /\ i.user = u
  /\ turn' = turn
  /\ \A j \in Requests \ {i} : row'[j] = row[j]
  /\ row'[i].day = row[i].day
  /\ \/ /\ row[i].state = "AWAITING_USER_CONFIRMATION" /\ row'[i].state = "CLIENT_CONFIRMING"
        /\ row'[i].opened = TRUE /\ row'[i].late = row[i].late
     \/ /\ row[i].state = "CLIENT_CONFIRMING" /\ row'[i].state = "SUBMITTED_PENDING_RECONCILIATION"
        /\ row'[i].opened = row[i].opened /\ row'[i].late = row[i].late
     \/ /\ row[i].state = "EXPIRED" /\ row'[i].state = "RECONCILIATION_REQUIRED"
        /\ row'[i].opened = row[i].opened /\ row'[i].late = TRUE
  /\ UNCHANGED <<clock, res, exec, tx, reorgs>>

LEMMA ReportsStep ==
  ASSUME TypeOK, NEW u \in Users, NEW i \in Requests,
         BeginSheet(u, i) \/ RecordSubmission(u, i) \/ RecordLateSubmission(u, i)
  PROVE  Reports(u, i)
<1>1. CASE BeginSheet(u, i)
  BY <1>1 DEF BeginSheet, Reports, TypeOK, Rows, At
<1>2. CASE RecordSubmission(u, i)
  BY <1>2 DEF RecordSubmission, Reports, TypeOK, Rows, At
<1>3. CASE RecordLateSubmission(u, i)
  <2>1. PICK h \in {"own", "other"} :
          row' = [row EXCEPT ![i] = [row[i] EXCEPT !.state = "RECONCILIATION_REQUIRED", !.late = TRUE,
                                                   !.hash = h, !.submittedAt = clock]]
    BY <1>3 DEF RecordLateSubmission
  <2>2. row[i] \in Rows /\ row'[i].late = TRUE
    BY <2>1 DEF TypeOK, Rows
  <2>3. /\ row'[i].state = "RECONCILIATION_REQUIRED" /\ row'[i].day = row[i].day
        /\ row'[i].opened = row[i].opened
        /\ \A j \in Requests \ {i} : row'[j] = row[j]
    BY <2>1, <2>2 DEF TypeOK, Rows
  <2> QED
    BY <1>3, <2>2, <2>3 DEF RecordLateSubmission, Reports, At
<1> QED
  BY <1>1, <1>2, <1>3

\* What the executor and the world outside do, one intent at a time.
Elsewhere ==
  /\ UNCHANGED service
  /\ \/ \E i \in Requests : Executor(i) \/ Outside(i)
     \/ UNCHANGED <<exec, tx, reorgs>>

LEMMA StepAccount ==
  ASSUME TypeOK, [Next]_vars
  PROVE  \/ \E u \in Users : TurnMoves(u)
         \/ Faults \cap {"d1", "evict"} # {} /\ \E u \in Users : CutShort(u)
         \/ \E u \in Users, i \in Requests : Claims(u, i) \/ Begins(u, i) \/ Reports(u, i)
         \/ Elsewhere
<1>1. CASE \E u \in Users : TurnStep(u)
  BY <1>1, TurnStepMoves
<1>2. CASE \E u \in Users : Evict(u) \/ StoreRejects(u)
  BY <1>2, TurnCutShort DEF Evict, StoreRejects
<1>3. CASE \E u \in Users, i \in Requests : ClientCalls(u, i) \/ Scheduled(u, i)
  BY <1>3, ClaimsStep, BeginsStep, ReportsStep DEF ClientCalls, Scheduled
<1>4. CASE \/ \E i \in Requests : Executor(i) \/ Outside(i)
           \/ Tick
           \/ Rest
           \/ UNCHANGED vars
  BY <1>4, OutsideStep DEF Elsewhere, Tick, Rest, vars
<1> QED
  BY <1>1, <1>2, <1>3, <1>4 DEF Next

-----------------------------------------------------------------------------
(***************************************************************************)
(* A confirmed intent is safe on the chain.                                *)
(*                                                                         *)
(* The service reads the receipt, then the safe head, then commits, then   *)
(* saves, and the chain moves between any two of these.  The invariant     *)
(* carries what was read: while no reorganisation has moved the            *)
(* transaction out of the block it was seen in, it is still there, and     *)
(* once covered it is safe.  It needs that nobody sends the transaction    *)
(* again: the executor sends only from PENDING, which no earlier send has  *)
(* left, and the wallet only what was opened, which the executor is never  *)
(* given.                                                                  *)
(***************************************************************************)
Creating    == {"authorize", "simulate", "recheck", "pending", "call"}
ForExecutor == {"recheck", "pending", "call", "send", "submitted"}

ExecInv ==
  /\ \A i \in Requests :
       /\ row[i].opened \/ row[i].state \in Open => i.mode = "CONFIRM_EACH"
       /\ exec[i] # "NONE" => i.mode = "AUTO_BUY" /\ row[i].state # "NONE"
       /\ i.mode = "AUTO_BUY" /\ exec[i] \in {"NONE", "CALLED", "REFUSED", "PENDING"} => tx[i] = "NONE"
  /\ \A u \in Users : turn[u].pc # "idle" =>
       /\ turn[u].pc \in ForExecutor => turn[u].id.mode = "AUTO_BUY"
       /\ turn[u].pc = "awaiting" => turn[u].id.mode = "CONFIRM_EACH"
       /\ turn[u].pc \in Creating => exec[turn[u].id] = "NONE"

LEMMA ExecStep ==
  ASSUME TypeOK, KeyInv, ChargeInv, ExecInv, [Next]_vars
  PROVE  ExecInv'
<1>0. \A s \in Retryable \cup Manual \cup {"CONFIRMED"} : s # "NONE" /\ s \notin Open
  BY ClosedNames DEF Retryable, Manual
<1>1. ASSUME NEW u \in Users, TurnMoves(u) \/ CutShort(u) PROVE ExecInv'
  <2> DEFINE i == turn[u].id
  <2>1. Alone(u) /\ i \in Requests
    BY <1>1 DEF TurnMoves, CutShort, Alone
  <2>2. /\ row[i].state # "NONE" /\ i.user = u
        /\ \A v \in Users \ {u} : turn[v].pc # "idle" => turn[v].id # i
    BY <2>1, StateFacts DEF Alone, KeyInv, Busily
  <2>3. turn[u].pc = "close" => turn[u].to \in Retryable \cup {"CONFIRMED"}
    BY <2>1 DEF ChargeInv, TurnCharged, Alone
  <2>4. exec[i] # "NONE" \/ exec'[i] # "NONE" => i.mode = "AUTO_BUY"
    BY <1>1, <2>1
    DEF Alone, TurnMoves, ReservesOrRejects, Prepares, Delegates, Offers, Settles, Reads, Concludes,
        CutShort, ExecInv, ForExecutor, At
  <2>5. \A j \in Requests \ {i} : row'[j] = row[j] /\ exec'[j] = exec[j]
    BY <1>1, <2>1
    DEF Alone, TurnMoves, ReservesOrRejects, Prepares, Delegates, Offers, Settles, Reads, Concludes,
        CutShort, TypeOK
  <2>6. exec[i] \notin {"NONE", "CALLED", "REFUSED", "PENDING"} => exec'[i] \notin {"NONE", "CALLED", "REFUSED", "PENDING"}
    BY <1>1, <2>1
    DEF Alone, TurnMoves, ReservesOrRejects, Prepares, Delegates, Offers, Settles, Reads, Concludes,
        CutShort, ExecInv, Creating, At
  <2>7. row'[i].state # "NONE" /\ (row'[i].opened \/ row'[i].state \in Open => i.mode = "CONFIRM_EACH")
    <3>1. row[i].opened \/ row[i].state \in Open => i.mode = "CONFIRM_EACH"
      BY <2>1 DEF ExecInv
    <3>2. CASE row'[i] = row[i]
      BY <2>2, <3>1, <3>2
    <3>3. ASSUME NEW state \in {row[i].state} \cup Manual \cup Retryable \cup {"CONFIRMED",
                   "DELEGATED_SUBMISSION_PENDING", "SUBMITTED_PENDING_RECONCILIATION", "INCLUDED_AWAITING_SAFE"},
                 Saved(i, state)
          PROVE  row'[i].state # "NONE" /\ (row'[i].opened \/ row'[i].state \in Open => i.mode = "CONFIRM_EACH")
      BY <2>2, <3>1, <3>3, <1>0 DEF Saved, Open
    <3>4. CASE At(u, "awaiting") /\ Saved(i, "AWAITING_USER_CONFIRMATION")
      BY <2>1, <3>4 DEF Saved, ExecInv, At
    <3>5. \/ row'[i] = row[i]
          \/ At(u, "awaiting") /\ Saved(i, "AWAITING_USER_CONFIRMATION")
          \/ \E state \in {row[i].state} \cup Manual \cup Retryable \cup {"CONFIRMED",
                   "DELEGATED_SUBMISSION_PENDING", "SUBMITTED_PENDING_RECONCILIATION", "INCLUDED_AWAITING_SAFE"} :
               Saved(i, state)
      BY <1>1, <2>3
      DEF TurnMoves, ReservesOrRejects, Prepares, Delegates, Offers, Settles, Reads, Concludes,
          CutShort, At, Manual
    <3> QED
      BY <3>2, <3>3, <3>4, <3>5
  <2>8. turn'[u].pc # "idle" =>
       /\ turn'[u].pc \in ForExecutor => turn'[u].id.mode = "AUTO_BUY"
       /\ turn'[u].pc = "awaiting" => turn'[u].id.mode = "CONFIRM_EACH"
       /\ turn'[u].pc \in Creating => exec'[turn'[u].id] = "NONE"
    BY <1>1, <2>1
    DEF Alone, TurnMoves, ReservesOrRejects, Prepares, Delegates, Offers, Settles, Reads, Concludes,
        CutShort, ExecInv, Ends, GoesTo, Closes, At, ForExecutor, Creating
  <2> QED
    BY <2>1, <2>2, <2>4, <2>5, <2>6, <2>7, <2>8, BusyType DEF Alone, ExecInv
<1>2. ASSUME NEW u \in Users, NEW i \in Requests, Claims(u, i) \/ Begins(u, i) \/ Reports(u, i) PROVE ExecInv'
  BY <1>2, <1>0 DEF Claims, Begins, Starts, Reports, ExecInv, ForExecutor, Creating, Open, Manual
<1>3. CASE Elsewhere
  <2>1. ASSUME NEW i \in Requests, Executor(i) PROVE ExecInv'
    <3>1. /\ exec[i] # "NONE" /\ exec'[i] # "NONE"
          /\ exec'[i] \in {"NONE", "CALLED", "REFUSED", "PENDING"} => exec[i] = "CALLED" /\ tx'[i] = tx[i]
          /\ \A j \in Requests \ {i} : exec'[j] = exec[j] /\ tx'[j] = tx[j]
          /\ row' = row /\ turn' = turn
      BY <2>1
      DEF TypeOK, service, Executor, ExecutorAdmit, ExecutorSend, ExecutorLosesAnswer, ExecutorMarks
    <3>2. \A u \in Users : turn[u].pc # "idle" /\ turn[u].pc \in Creating => turn[u].id \in Requests \ {i}
      BY <3>1, BusyType DEF ExecInv
    <3> QED
      BY <3>1, <3>2 DEF ExecInv
  <2>2. ASSUME NEW i \in Requests, Outside(i) PROVE ExecInv'
    <3>1. /\ tx[i] # "NONE" \/ row[i].opened
          /\ \A j \in Requests \ {i} : tx'[j] = tx[j]
          /\ exec' = exec /\ row' = row /\ turn' = turn
      BY <2>2 DEF TypeOK, service, Outside, WalletSends, Include, Drop, BecomeSafe, Reorg, ChainMoves
    <3> QED
      BY <3>1 DEF ExecInv
  <2>3. CASE UNCHANGED <<exec, tx, reorgs>>
    BY <1>3, <2>3 DEF Elsewhere, service, ExecInv
  <2> QED
    BY <1>3, <2>1, <2>2, <2>3 DEF Elsewhere
<1> QED
  BY <1>1, <1>2, <1>3, StepAccount

\* The transaction of i was seen in the block b, and while it is still there, it is one of txs.
SeenIn(i, b, txs) == b <= reorgs[i] /\ (reorgs[i] = b => tx[i] \in txs)

SafeInv ==
  /\ \A i \in Requests : row[i].state = "CONFIRMED" => SeenIn(i, row[i].block, {"SAFE_OK"})
  /\ \A u \in Users :
       /\ turn[u].pc = "decide" /\ turn[u].receipt = "ok" =>
            SeenIn(turn[u].id, turn[u].block, {"OK", "SAFE_OK"})
       /\ turn[u].pc \in {"commit", "close"} /\ turn[u].to = "CONFIRMED" =>
            SeenIn(turn[u].id, turn[u].block, {"SAFE_OK"})

\* What was seen on the chain stays there until a reorganisation moves it.
LEMMA SeenStays ==
  ASSUME TypeOK, ExecInv, Elsewhere, NEW i \in Requests, NEW b \in Nat
  PROVE  /\ SeenIn(i, b, {"OK", "SAFE_OK"}) => SeenIn(i, b, {"OK", "SAFE_OK"})'
         /\ SeenIn(i, b, {"REVERTED", "SAFE_REVERTED"}) => SeenIn(i, b, {"REVERTED", "SAFE_REVERTED"})'
         /\ SeenIn(i, b, {"SAFE_OK"}) => SeenIn(i, b, {"SAFE_OK"})'
<1>1. reorgs[i] \in Nat /\ reorgs'[i] \in {reorgs[i], reorgs[i] + 1}
  BY DEF Elsewhere, TypeOK, Executor, ExecutorAdmit, ExecutorSend, ExecutorLosesAnswer, ExecutorMarks,
    Outside, WalletSends, Include, Drop, BecomeSafe, Reorg
<1>2. reorgs'[i] = reorgs[i] =>
        \/ tx[i] \notin {"OK", "SAFE_OK", "REVERTED", "SAFE_REVERTED"} \/ tx'[i] = tx[i]
        \/ tx[i] = "OK" /\ tx'[i] = "SAFE_OK"
        \/ tx[i] = "REVERTED" /\ tx'[i] = "SAFE_REVERTED"
  <2> SUFFICES ASSUME reorgs'[i] = reorgs[i], tx[i] \in {"OK", "SAFE_OK", "REVERTED", "SAFE_REVERTED"}
               PROVE  \/ tx'[i] = tx[i] \/ (tx[i] = "OK" /\ tx'[i] = "SAFE_OK")
                      \/ (tx[i] = "REVERTED" /\ tx'[i] = "SAFE_REVERTED")
    OBVIOUS
  <2>1. ASSUME NEW j \in Requests, Executor(j) PROVE tx'[i] = tx[i]
    BY <2>1
    DEF TypeOK, ExecInv, Executor, ExecutorAdmit, ExecutorSend, ExecutorLosesAnswer, ExecutorMarks
  <2>2. ASSUME NEW j \in Requests, Outside(j)
        PROVE  \/ tx'[i] = tx[i] \/ (tx[i] = "OK" /\ tx'[i] = "SAFE_OK")
               \/ (tx[i] = "REVERTED" /\ tx'[i] = "SAFE_REVERTED")
    <3>1. CASE Reorg(j)
      <4>1. i # j
        BY <3>1, <1>1 DEF Reorg, TypeOK
      <4> QED
        BY <3>1, <4>1 DEF Reorg, ChainMoves, TypeOK
    <3> QED
      BY <2>2, <3>1 DEF TypeOK, Outside, WalletSends, Include, Drop, BecomeSafe, ChainMoves
  <2> QED
    BY <2>1, <2>2 DEF Elsewhere
<1> QED
  BY <1>1, <1>2 DEF SeenIn

LEMMA SafeStep ==
  ASSUME TypeOK, KeyInv, ChargeInv, ExecInv, SafeInv, [Next]_vars
  PROVE  SafeInv'
<1>1. ASSUME NEW u \in Users, TurnMoves(u) \/ CutShort(u) PROVE SafeInv'
  <2> DEFINE i == turn[u].id
  <2>1. Alone(u) /\ i \in Requests /\ reorgs' = reorgs /\ tx' = tx
    BY <1>1 DEF TurnMoves, CutShort, Alone
  <2>2. turn[u].pc = "release" => turn[u].to # "CONFIRMED"
    BY <2>1 DEF ChargeInv, TurnCharged, Alone, Retryable
  <2>3. row[i].state # "CONFIRMED"
    BY <2>1, StateFacts DEF Alone, KeyInv, Busily, Final
  <2>4. row'[i].state = "CONFIRMED" => SeenIn(i, row'[i].block, {"SAFE_OK"})
    BY <1>1, <2>1, <2>3
    DEF Alone, TurnMoves, ReservesOrRejects, Prepares, Delegates, Offers, Settles, Reads, Concludes,
        CutShort, SafeInv, Saved, At, Manual
  <2>5. turn'[u].pc = "decide" /\ turn'[u].receipt = "ok" => SeenIn(turn'[u].id, turn'[u].block, {"OK", "SAFE_OK"})
    <3>1. reorgs[i] \in Nat
      BY <2>1 DEF TypeOK
    <3> QED
      BY <1>1, <2>1, <3>1
      DEF Alone, TurnMoves, ReservesOrRejects, Prepares, Delegates, Offers, Settles, Reads,
          Concludes, CutShort, SeenIn, GoesTo, Closes, Ends, At
  <2>6. turn'[u].pc \in {"commit", "close"} /\ turn'[u].to = "CONFIRMED" =>
          SeenIn(turn'[u].id, turn'[u].block, {"SAFE_OK"})
    BY <1>1, <2>1, <2>2
    DEF Alone, TurnMoves, ReservesOrRejects, Prepares, Delegates, Offers, Settles, Reads, Concludes,
        CutShort, SafeInv, SeenIn, GoesTo, Closes, Ends, At
  <2> QED
    BY <2>1, <2>4, <2>5, <2>6 DEF SafeInv, SeenIn, Alone
<1>2. ASSUME NEW u \in Users, NEW i \in Requests, Claims(u, i) \/ Begins(u, i) \/ Reports(u, i) PROVE SafeInv'
  BY <1>2 DEF Claims, Begins, Starts, Reports, SafeInv, SeenIn
<1>3. CASE Elsewhere
  <2>1. row' = row /\ turn' = turn
    BY <1>3 DEF Elsewhere, service
  <2>2. \A i \in Requests : row[i].block \in Nat
    BY DEF TypeOK, Rows
  <2>3. \A u \in Users : turn[u].pc # "idle" => turn[u].id \in Requests /\ turn[u].block \in Nat
    BY BusyType
  <2> QED
    BY <1>3, <2>1, <2>2, <2>3, SeenStays DEF SafeInv
<1> QED
  BY <1>1, <1>2, <1>3, StepAccount

\* An intent is confirmed only for a transaction that succeeded and is covered by the safe
\* block, however often it was reorganised before the deciding pass read its receipt.  What
\* ConfirmedIsSafe sets apart is a reorganisation between that read and the read of the safe head.
THEOREM ConfirmedSafe == Spec => []ConfirmedIsSafe
<1>1. Init => ExecInv /\ SafeInv
  BY DEF Init, ExecInv, SafeInv, NoRow, Idle, Open
<1>2. SafeInv => ConfirmedIsSafe
  BY DEF SafeInv, SeenIn, ConfirmedIsSafe
<1> QED
  BY <1>1, <1>2, Typing, KeyInvariant, ChargeInvariant, ExecStep, SafeStep, PTL DEF Spec

-----------------------------------------------------------------------------
(***************************************************************************)
(* Spending that cannot be ruled out stays charged.                        *)
(*                                                                         *)
(* A turn that releases either works on an intent that the executor was    *)
(* never called for and nobody has reported, or has read a reverted        *)
(* receipt.  An eviction may end a turn anywhere.  The catch of the        *)
(* creating operations is what breaks this: it releases whatever was sent  *)
(* before, when the audit log (fault "audit") or the store (fault "d1")    *)
(* rejects.                                                                *)
(***************************************************************************)
Reverts == {"REVERTED", "SAFE_REVERTED"}

SpendTurn(u) ==
  LET i == turn[u].id
  IN  /\ turn[u].pc \in {"authorize", "simulate", "recheck"} => row[i].state = "CREATING"
      /\ turn[u].pc = "decide" /\ turn[u].receipt = "reverted" => SeenIn(i, turn[u].block, Reverts)
      /\ turn[u].pc = "release" =>
           \/ turn[u].to = "FAILED" /\ SeenIn(i, turn[u].block, Reverts)
           \/ row[i].state \in Open \cup {"CREATING"} /\ exec[i] = "NONE"

SpendInv == \A u \in Users : turn[u].pc # "idle" => SpendTurn(u)

LEMMA SpendMoves ==
  ASSUME TypeOK, ExecInv, SpendInv, "audit" \notin Faults, NEW u \in Users, TurnMoves(u),
         turn'[u].pc # "idle"
  PROVE  SpendTurn(u)'
<1> DEFINE i == turn[u].id
<1>1. /\ Alone(u) /\ SpendTurn(u) /\ i \in Requests /\ reorgs[i] \in Nat
      /\ turn[u].pc \in Creating => exec[i] = "NONE"
  BY DEF TurnMoves, Alone, SpendInv, ExecInv, TypeOK
<1>2. CASE (At(u, "authorize") /\ ReservesOrRejects(u)) \/ Prepares(u)
  BY <1>1, <1>2
  DEF Alone, ReservesOrRejects, Prepares, At, GoesTo, Closes, SpendTurn, Creating
<1>3. CASE Delegates(u) \/ Offers(u)
  BY <1>1, <1>3 DEF Delegates, Offers, At, GoesTo, Closes, Ends, SpendTurn
<1>4. CASE Settles(u)
  BY <1>1, <1>4 DEF Settles, At, GoesTo, Ends, SpendTurn
<1>5. CASE Reads(u)
  BY <1>1, <1>5 DEF Alone, Reads, At, SpendTurn, SeenIn, Reverts
<1>6. CASE Concludes(u)
  BY <1>1, <1>6 DEF Alone, Concludes, At, Closes, Ends, SpendTurn, SeenIn
<1> QED
  BY <1>2, <1>3, <1>4, <1>5, <1>6 DEF TurnMoves

LEMMA SpendStep ==
  ASSUME Faults \subseteq {"evict"}, TypeOK, KeyInv, ExecInv, SpendInv, [Next]_vars
  PROVE  SpendInv'
<1>1. ASSUME NEW u \in Users, TurnMoves(u) \/ CutShort(u) PROVE SpendInv'
  <2>1. Alone(u) /\ turn[u].id \in Requests
    BY <1>1 DEF TurnMoves, CutShort, Alone
  <2>2. turn'[u].pc # "idle" => SpendTurn(u)'
    BY <1>1, SpendMoves DEF CutShort, Ends
  <2>3. ASSUME NEW v \in Users, v # u, turn'[v].pc # "idle" PROVE SpendTurn(v)'
    <3>1. /\ turn'[v] = turn[v] /\ SpendTurn(v)
          /\ turn[v].id \in Requests \ {turn[u].id}
      BY <2>1, <2>3, BusyType DEF Alone, KeyInv, Busily, SpendInv
    <3>2. /\ row'[turn[v].id] = row[turn[v].id] /\ exec'[turn[v].id] = exec[turn[v].id]
          /\ tx' = tx /\ reorgs' = reorgs
      BY <1>1, <2>1, <3>1
      DEF Alone, TurnMoves, ReservesOrRejects, Prepares, Delegates, Offers, Settles, Reads, Concludes,
          CutShort, TypeOK
    <3> QED
      BY <3>1, <3>2 DEF SpendTurn, SeenIn
  <2> QED
    BY <2>2, <2>3 DEF SpendInv
<1>2. ASSUME NEW u \in Users, NEW i \in Requests, Claims(u, i) \/ Begins(u, i) \/ Reports(u, i) PROVE SpendInv'
  <2>1. /\ \A j \in Requests \ {i} : row'[j] = row[j]
        /\ \A v \in Users \ {u} : turn'[v] = turn[v]
        /\ turn[u].pc = "idle" /\ i.user = u
        /\ exec' = exec /\ tx' = tx /\ reorgs' = reorgs
    BY <1>2 DEF Claims, Begins, Starts, Reports
  <2>2. turn'[u].pc # "idle" => SpendTurn(u)'
    <3>1. row[i].state \in Open => exec[i] = "NONE"
      BY DEF ExecInv
    <3> QED
      BY <1>2, <2>1, <3>1 DEF Claims, Begins, Starts, Reports, SpendTurn
  <2>3. ASSUME NEW v \in Users, v # u, turn'[v].pc # "idle" PROVE SpendTurn(v)'
    <3>1. turn'[v] = turn[v] /\ SpendTurn(v) /\ turn[v].id \in Requests \ {i}
      BY <2>1, <2>3, BusyType DEF KeyInv, Busily, SpendInv
    <3> QED
      BY <2>1, <3>1 DEF SpendTurn, SeenIn
  <2> QED
    BY <2>2, <2>3 DEF SpendInv
<1>3. CASE Elsewhere
  <2>1. row' = row /\ turn' = turn
    BY <1>3 DEF Elsewhere, service
  <2>2. \A i \in Requests : exec[i] = "NONE" => exec'[i] = "NONE"
    BY <1>3
    DEF Elsewhere, TypeOK, Executor, ExecutorAdmit, ExecutorSend, ExecutorLosesAnswer, ExecutorMarks,
        Outside, WalletSends, Include, Drop, BecomeSafe, Reorg, ChainMoves
  <2>3. ASSUME NEW u \in Users, turn'[u].pc # "idle" PROVE SpendTurn(u)'
    <3>1. SpendTurn(u) /\ turn[u].id \in Requests /\ turn[u].block \in Nat
      BY <2>1, <2>3, BusyType DEF SpendInv
    <3>2. SeenIn(turn[u].id, turn[u].block, Reverts) => SeenIn(turn[u].id, turn[u].block, Reverts)'
      BY <1>3, <2>1, <3>1, SeenStays DEF Reverts, SeenIn
    <3> QED
      BY <2>1, <2>2, <3>1, <3>2 DEF SpendTurn
  <2> QED
    BY <2>3 DEF SpendInv
<1> QED
  BY <1>1, <1>2, <1>3, StepAccount

\* The step that gives a reservation back.
LEMMA SpendReleases ==
  ASSUME TypeOK, SpendInv, KeyInv, [Next]_vars, NEW i \in Requests,
         res[i] = "RESERVED", res'[i] = "RELEASED", MayBeSpent(i)
  PROVE  /\ turn[i.user].to = "FAILED"
         /\ reorgs[i] = turn[i.user].block => tx[i] \in Reverts
<1>1. PICK u \in Users : TurnMoves(u)
  BY StepAccount DEF CutShort, Claims, Begins, Reports, Elsewhere, service
<1>2. turn[u].pc = "release" /\ turn[u].id = i /\ i.user = u
  BY <1>1
  DEF TypeOK, KeyInv, Busily, TurnMoves, ReservesOrRejects, Prepares, Delegates, Offers, Settles, Reads,
      Concludes, Alone, At
<1>3. SpendTurn(u)
  BY <1>2 DEF SpendInv
<1>4. \A s \in Open \cup {"CREATING"} : s \notin Reconcilable \cup Manual
  BY DEF Open, Reconcilable, Manual
<1> QED
  BY <1>2, <1>3, <1>4 DEF SpendTurn, SeenIn, MayBeSpent

\* Whatever the executor, the wallet, the chain and evictions do between its steps, the service
\* gives no reservation back while its spending cannot be ruled out.
THEOREM SpendHeld ==
  ASSUME Faults \subseteq {"evict"}
  PROVE  Spec => SpendIsHeld
<1>1. Init => ExecInv /\ SpendInv
  BY DEF Init, ExecInv, SpendInv, NoRow, Idle, Open
<1>2. TypeOK /\ KeyInv /\ SpendInv /\ [Next]_vars
        => [\A i \in Requests :
              res[i] = "RESERVED" /\ res'[i] = "RELEASED" /\ MayBeSpent(i)
                => /\ turn[i.user].to = "FAILED"
                   /\ reorgs[i] = turn[i.user].block => tx[i] \in {"REVERTED", "SAFE_REVERTED"}]_vars
  BY SpendReleases DEF Reverts
<1> QED
  BY <1>1, <1>2, Typing, KeyInvariant, ChargeInvariant, ExecStep, SpendStep, PTL DEF Spec, SpendIsHeld

-----------------------------------------------------------------------------
(***************************************************************************)
(* The reservation of a buy.  Where the service runs its turns to the end  *)
(* and only the audit sequence can collide, a turn knows at every step     *)
(* what the ledger says of its intent: nothing before the authorization,   *)
(* reserved while it works, given back or spent when it closes.  The state *)
(* of the row tells how far the turn is, and why it closes.                *)
(*                                                                         *)
(* An eviction or a rejected statement breaks this: a turn may then close  *)
(* an intent whose row it never read again.                                *)
(***************************************************************************)
Pending == Open \cup Reconcilable \cup {"DELEGATED_SUBMISSION_PENDING", "DROPPED_OR_REPLACED"}

BeingClosed(i) == turn[i.user].id = i /\ turn[i.user].pc = "close"

RowHeld(i) ==
  /\ row[i].state = "NONE" \/ i.side = "SELL" => res[i] = "NONE"
  /\ row[i].state = "EXPIRED" /\ i.side = "BUY" => res[i] = "RELEASED"
  /\ row[i].state \in Pending /\ i.side = "BUY" /\ ~BeingClosed(i) => res[i] = "RESERVED"

\* A creating operation refused before its reservation was taken.
RefusedEarly(u) ==
  res[turn[u].id] = "NONE" /\ row[turn[u].id].state = "CREATING" /\ turn[u].to = "REJECTED"

TurnHeld(u) ==
  LET i == turn[u].id
  IN  i.side = "BUY" =>
        /\ turn[u].pc = "authorize" => res[i] = "NONE"
        /\ turn[u].pc \in Steps \ {"authorize", "release", "close"} => res[i] = "RESERVED"
        /\ turn[u].pc = "release" => res[i] = "RESERVED" \/ RefusedEarly(u)
        /\ turn[u].pc = "close" =>
             IF turn[u].to = "CONFIRMED" THEN res[i] = "COMMITTED" ELSE res[i] = "RELEASED" \/ RefusedEarly(u)

TurnFlows(u) ==
  LET state == row[turn[u].id].state
  IN  /\ turn[u].pc \in {"authorize", "simulate", "recheck", "pending", "awaiting"} => state = "CREATING"
      /\ turn[u].pc \in {"call", "send", "submitted"} => state = "DELEGATED_SUBMISSION_PENDING"
      /\ turn[u].pc = "audit" => state \in Open \cup Reconcilable
      /\ turn[u].pc \in {"readTx", "readReceipt", "decide", "commit"} => state \in Reconcilable
      /\ turn[u].pc \in {"release", "close"} =>
           \/ turn[u].to = "REJECTED" /\ state = "CREATING"
           \/ turn[u].to = "REJECTED" /\ state \in Open \cup Reconcilable /\ "audit" \in Faults
           \/ turn[u].to \in {"EXPIRED", "CANCELLED"} /\ state \in Open
           \/ turn[u].to \in {"FAILED", "CONFIRMED"} /\ state \in Reconcilable
      /\ turn[u].pc = "commit" => turn[u].to = "CONFIRMED"
      /\ turn[u].pc = "release" => turn[u].to # "CONFIRMED"

HeldInv ==
  /\ \A i \in Requests : RowHeld(i)
  /\ \A u \in Users : turn[u].pc # "idle" => TurnHeld(u) /\ TurnFlows(u)

\* No step of the service is cut short, and so the account of its steps is that of its turns.
LEMMA UncutStep ==
  ASSUME TypeOK, [Next]_vars, Faults \subseteq {"audit"}
  PROVE  \/ \E u \in Users : TurnMoves(u)
         \/ \E u \in Users, i \in Requests : Claims(u, i) \/ Begins(u, i) \/ Reports(u, i)
         \/ Elsewhere
BY StepAccount

LEMMA CloseNames ==
  /\ \A s \in Retryable \cup Manual \cup {"CONFIRMED"} : s \notin Open \cup Reconcilable \cup {"NONE", "CREATING"}
  /\ \A s \in Open \cup Reconcilable \cup {"DELEGATED_SUBMISSION_PENDING"} :
       s \notin Retryable \cup Manual \cup {"NONE", "CREATING", "CONFIRMED", "EXPIRED"}
  /\ Open \cap Reconcilable = {}
BY DEF Retryable, Manual, Open, Reconcilable

LEMMA HeldTurn ==
  ASSUME TypeOK, KeyInv, ChargeInv, HeldInv, NEW u \in Users, TurnMoves(u), NEW i, i = turn[u].id
  PROVE  /\ RowHeld(i)' /\ (turn'[u].pc # "idle" => TurnHeld(u)' /\ TurnFlows(u)')
         /\ res[i] = "RELEASED" => res'[i] = "RELEASED"
         /\ \A j \in Requests \ {i} : res'[j] = res[j]
<1>1. /\ Alone(u) /\ i \in Requests /\ RowHeld(i) /\ TurnHeld(u) /\ TurnFlows(u)
      /\ Busily(u) /\ TurnCharged(u) /\ i.user = u /\ i.side \in Sides
      /\ turn[u].pc \in Steps
  BY RequestFacts, BusyType DEF TurnMoves, Alone, HeldInv, KeyInv, ChargeInv, Busily, Ids, Busy
<1>2. BeingClosed(i) <=> turn[u].pc = "close"
  BY <1>1 DEF BeingClosed
<1>3. BeingClosed(i)' <=> turn'[u].pc = "close" /\ turn'[u].id = i
  BY <1>1 DEF BeingClosed
<1>4. CASE At(u, "authorize") /\ ReservesOrRejects(u)
  BY <1>1, <1>2, <1>3, <1>4
  DEF ReservesOrRejects, At, TypeOK, RowHeld, TurnHeld, TurnFlows, RefusedEarly, GoesTo, Closes,
      Steps, Pending, Open, Reconcilable, Sides
<1>5. CASE Prepares(u)
  BY <1>1, <1>2, <1>3, <1>5
  DEF Prepares, At, RowHeld, TurnHeld, TurnFlows, RefusedEarly, GoesTo, Closes, Steps
<1>6. CASE Delegates(u)
  BY <1>1, <1>2, <1>3, <1>6
  DEF Delegates, At, RowHeld, TurnHeld, TurnFlows, RefusedEarly, GoesTo, Closes, Steps, Saved, Ends,
      Pending, Open, Reconcilable
<1>7. CASE Offers(u)
  BY <1>1, <1>2, <1>3, <1>7
  DEF Offers, At, RowHeld, TurnHeld, TurnFlows, RefusedEarly, GoesTo, Closes, Steps, Saved, Ends,
      Pending, Open, Reconcilable
<1>8. CASE Settles(u)
  <2>1. CASE /\ turn[u].pc = "release" /\ row' = row /\ GoesTo(u, "close")
             /\ res' = [res EXCEPT ![i] = IF @ \in {"NONE", "COMMITTED"} THEN @ ELSE "RELEASED"]
    <3>1. /\ res'[i] = IF res[i] \in {"NONE", "COMMITTED"} THEN res[i] ELSE "RELEASED"
          /\ \A j \in Requests \ {i} : res'[j] = res[j]
      BY <1>1, <2>1 DEF TypeOK
    <3>2. row[i].state \in Pending => row[i].state # "NONE"
      BY DEF Pending, Open, Reconcilable
    <3> QED
      BY <1>1, <1>2, <1>3, <2>1, <3>1, <3>2
      DEF RowHeld, TurnHeld, TurnFlows, RefusedEarly, GoesTo, Open, Reconcilable
  <2>2. CASE /\ turn[u].pc = "commit" /\ row' = row /\ GoesTo(u, "close")
             /\ res' = [res EXCEPT ![i] = IF @ = "NONE" THEN @ ELSE "COMMITTED"]
    <3>1. /\ res'[i] = IF res[i] = "NONE" THEN res[i] ELSE "COMMITTED"
          /\ \A j \in Requests \ {i} : res'[j] = res[j]
      BY <1>1, <2>2 DEF TypeOK
    <3> QED
      BY <1>1, <1>2, <1>3, <2>2, <3>1
      DEF RowHeld, TurnHeld, TurnFlows, RefusedEarly, GoesTo, Steps, Reconcilable, Sides
  <2>3. CASE turn[u].pc = "close" /\ res' = res /\ Saved(i, turn[u].to) /\ Ends(u)
    <3>1. turn[u].to \in Retryable \cup {"CONFIRMED"} /\ turn[u].to \notin Pending
      BY <1>1, <2>3, CloseNames DEF TurnCharged, Pending, Retryable
    <3> QED
      BY <1>1, <2>3, <3>1, CloseNames DEF RowHeld, TurnHeld, RefusedEarly, Saved, Ends
  <2> QED
    BY <1>1, <1>8, <2>1, <2>2, <2>3 DEF Settles, At
<1>9. CASE Reads(u)
  BY <1>1, <1>2, <1>3, <1>9 DEF Reads, At, RowHeld, TurnHeld, TurnFlows, RefusedEarly, Steps
<1>10. CASE Concludes(u)
  BY <1>1, <1>2, <1>3, <1>10, CloseNames
  DEF Concludes, At, RowHeld, TurnHeld, TurnFlows, RefusedEarly, Closes, Steps, Saved, Ends, Manual,
      Pending, Reconcilable
<1> QED
  BY <1>4, <1>5, <1>6, <1>7, <1>8, <1>9, <1>10 DEF TurnMoves

LEMMA HeldStep ==
  ASSUME Faults \subseteq {"audit"}, TypeOK, KeyInv, ChargeInv, HeldInv, [Next]_vars
  PROVE  HeldInv' /\ \A i \in Requests : res[i] = "RELEASED" => res'[i] = "RELEASED"
<1>1. ASSUME NEW u \in Users, TurnMoves(u)
      PROVE  HeldInv' /\ \A i \in Requests : res[i] = "RELEASED" => res'[i] = "RELEASED"
  <2>0. PICK i : i = turn[u].id
    OBVIOUS
  <2>1. Alone(u) /\ i \in Requests
    BY <1>1, <2>0 DEF TurnMoves, Alone
  <2>2. /\ RowHeld(i)' /\ (turn'[u].pc # "idle" => TurnHeld(u)' /\ TurnFlows(u)')
        /\ res[i] = "RELEASED" => res'[i] = "RELEASED"
        /\ \A j \in Requests \ {i} : res'[j] = res[j]
    BY <1>1, <2>0, HeldTurn
  <2>3. /\ \A v \in Users \ {u} : turn[v].pc # "idle" => turn[v].id # i
        /\ turn'[u].pc = "idle" \/ turn'[u].id = i
    BY <1>1, <2>0, <2>1
    DEF Alone, KeyInv, Busily, TurnMoves, ReservesOrRejects, Prepares, Delegates, Offers, Settles,
        Reads, Concludes, GoesTo, Closes, Ends
  <2>4. ASSUME NEW j \in Requests, j # i PROVE RowHeld(j)'
    <3>1. BeingClosed(j)' <=> BeingClosed(j)
      BY <2>0, <2>1, <2>3, <2>4, RequestFacts DEF BeingClosed, Alone
    <3> QED
      BY <2>0, <2>1, <2>2, <2>4, <3>1 DEF HeldInv, RowHeld, Alone
  <2>5. ASSUME NEW v \in Users, v # u, turn'[v].pc # "idle" PROVE TurnHeld(v)' /\ TurnFlows(v)'
    <3>1. turn'[v] = turn[v] /\ turn[v].id \in Requests \ {i} /\ TurnHeld(v) /\ TurnFlows(v)
      BY <2>1, <2>3, <2>5, BusyType DEF Alone, HeldInv
    <3>2. res'[turn[v].id] = res[turn[v].id] /\ row'[turn[v].id] = row[turn[v].id]
      BY <2>0, <2>1, <2>2, <3>1 DEF Alone
    <3> QED
      BY <3>1, <3>2 DEF TurnHeld, TurnFlows, RefusedEarly
  <2> QED
    BY <2>1, <2>2, <2>4, <2>5 DEF HeldInv
<1>2. ASSUME NEW u \in Users, NEW i \in Requests, Claims(u, i) \/ Begins(u, i) \/ Reports(u, i) PROVE HeldInv'
  <2>1. /\ res' = res /\ \A j \in Requests \ {i} : row'[j] = row[j]
        /\ \A v \in Users \ {u} : turn'[v] = turn[v]
        /\ turn[u].pc = "idle" /\ i.user = u /\ RowHeld(i) /\ i.side \in Sides
        /\ turn'[u].pc \in {"idle", "authorize", "release", "readTx"}
        /\ turn'[u].pc # "idle" => turn'[u].id = i
    BY <1>2, RequestFacts DEF Claims, Begins, Starts, Reports, HeldInv, Ids
  <2>2. /\ RowHeld(i)' /\ (turn'[u].pc # "idle" => TurnHeld(u)' /\ TurnFlows(u)')
    <3>1. CASE Claims(u, i)
      BY <2>1, <3>1 DEF Claims, RowHeld, TurnHeld, TurnFlows, BeingClosed, Pending, Open, Reconcilable
    <3>2. CASE Begins(u, i)
      BY <2>1, <3>2 DEF Begins, Starts, RowHeld, TurnHeld, TurnFlows, BeingClosed, Pending, Steps
    <3>3. CASE Reports(u, i)
      BY <2>1, <3>3 DEF Reports, RowHeld, BeingClosed, Pending, Open, Reconcilable
    <3> QED
      BY <1>2, <3>1, <3>2, <3>3
  <2>3. ASSUME NEW j \in Requests, j # i PROVE RowHeld(j)'
    <3>1. BeingClosed(j)' <=> BeingClosed(j)
      BY <2>1, <2>3, RequestFacts DEF BeingClosed
    <3> QED
      BY <2>1, <2>3, <3>1 DEF HeldInv, RowHeld
  <2>4. ASSUME NEW v \in Users, v # u, turn'[v].pc # "idle" PROVE TurnHeld(v)' /\ TurnFlows(v)'
    <3>1. turn'[v] = turn[v] /\ turn[v].id \in Requests \ {i} /\ TurnHeld(v) /\ TurnFlows(v)
      BY <2>1, <2>4, BusyType DEF HeldInv, KeyInv, Busily
    <3>2. row'[turn[v].id] = row[turn[v].id]
      BY <2>1, <3>1
    <3> QED
      BY <2>1, <3>1, <3>2 DEF TurnHeld, TurnFlows, RefusedEarly
  <2> QED
    BY <2>1, <2>2, <2>3, <2>4 DEF HeldInv
<1>3. CASE Elsewhere
  BY <1>3 DEF Elsewhere, service, HeldInv, RowHeld, TurnHeld, TurnFlows, RefusedEarly, BeingClosed
<1>4. ASSUME NEW u \in Users, NEW i \in Requests, Claims(u, i) \/ Begins(u, i) \/ Reports(u, i) PROVE res' = res
  BY <1>4 DEF Claims, Begins, Reports
<1>5. Elsewhere => res' = res
  BY DEF Elsewhere, service
<1> QED
  BY <1>1, <1>2, <1>3, <1>4, <1>5, UncutStep

LEMMA HeldInvariant ==
  ASSUME Faults \subseteq {"audit"}
  PROVE  Spec => []HeldInv
<1>1. Init => HeldInv
  BY DEF Init, HeldInv, RowHeld, NoRow, Idle, Pending, Open, Reconcilable
<1> QED
  BY <1>1, Typing, KeyInvariant, ChargeInvariant, HeldStep, PTL DEF Spec

\* No turn takes back a reservation that was released.
THEOREM ReleasedStays ==
  ASSUME Faults \subseteq {"audit"}
  PROVE  Spec => ReleasedStaysReleased
<1>1. TypeOK /\ KeyInv /\ ChargeInv /\ HeldInv /\ [Next]_vars
        => [\A i \in Requests : res[i] = "RELEASED" => res'[i] = "RELEASED"]_vars
  BY HeldStep
<1> QED
  BY <1>1, Typing, KeyInvariant, ChargeInvariant, HeldInvariant, PTL DEF Spec, ReleasedStaysReleased

-----------------------------------------------------------------------------
(***************************************************************************)
(* The cap of the day.  The ledger adds a reservation to what the user has *)
(* charged on the day of the row and compares the sum in the same step;    *)
(* no other step adds to the sum, because the day of a row is fixed before *)
(* it is charged and a released reservation stays released.                *)
(***************************************************************************)
CapInv ==
  /\ IsFiniteSet({i \in Requests : res[i] # "NONE"})
  /\ \A u \in Users, d \in Nat : Charged(u, d) <= ConfigCap

LEMMA CountedFacts ==
  ASSUME CapInv, NEW u, NEW d
  PROVE  IsFiniteSet(Counted(u, d)) /\ Charged(u, d) \in Nat /\ \A i \in Counted(u, d) : Price[i] \in Nat
<1>1. Counted(u, d) \subseteq {i \in Requests : res[i] # "NONE"}
  BY DEF Counted
<1>2. IsFiniteSet(Counted(u, d))
  BY <1>1, FS_Subset DEF CapInv
<1>3. \A i \in Requests : Price[i] \in Nat
  BY AmountAssumption, RequestsAssumption DEF Price, Ids
<1> QED
  BY <1>1, <1>2, <1>3, SumType DEF Charged

\* A step that counts no more than before charges no more.
LEMMA CountedLess ==
  ASSUME CapInv, NEW u \in Users, NEW d \in Nat, Counted(u, d)' \subseteq Counted(u, d)
  PROVE  Charged(u, d)' <= ConfigCap
<1> DEFINE S == Counted(u, d)
           T == Counted(u, d)'
<1>1. IsFiniteSet(S) /\ Charged(u, d) \in Nat /\ \A i \in S : Price[i] \in Nat
  BY CountedFacts
<1>2. IsFiniteSet(T) /\ \A i \in T : Price[i] \in Nat
  BY <1>1, FS_Subset
<1>3. SumFunctionOnSet(Price, T) \in Nat
  BY <1>2, SumType
<1>4. SumFunctionOnSet(Price, T) <= SumFunctionOnSet(Price, S)
  BY <1>1, SumOfPart
<1>5. Charged(u, d) = SumFunctionOnSet(Price, S) /\ Charged(u, d)' = SumFunctionOnSet(Price, T)
  BY DEF Charged, Price
<1>6. Charged(u, d) <= ConfigCap
  BY DEF CapInv
<1> HIDE DEF S, T
<1> QED
  BY <1>1, <1>3, <1>4, <1>5, <1>6, BoundsAssumption

\* What the ledger does in the step that takes a reservation.
LEMMA Reserved ==
  ASSUME TypeOK, CapInv, NEW u \in Users, NEW i \in Requests, i.user = u, res[i] = "NONE", row' = row,
         Charged(u, row[i].day) + Amount[i.quote] <= CapFor(i), res' = [res EXCEPT ![i] = "RESERVED"]
  PROVE  CapInv'
<1>1. IsFiniteSet({j \in Requests : res'[j] # "NONE"})
  <2>1. {j \in Requests : res'[j] # "NONE"} = {j \in Requests : res[j] # "NONE"} \cup {i}
    BY DEF TypeOK
  <2> QED
    BY <2>1, FS_AddElement DEF CapInv
<1>2. ASSUME NEW v \in Users, NEW d \in Nat PROVE Charged(v, d)' <= ConfigCap
  <2>1. CASE v = u /\ d = row[i].day
    <3> DEFINE S == Counted(u, row[i].day)
    <3>1. Counted(v, d)' = S \cup {i} /\ i \notin S
      BY <2>1 DEF Counted, TypeOK
    <3>2. IsFiniteSet(S) /\ \A j \in S \cup {i} : Price[j] \in Nat
      BY CountedFacts, AmountAssumption, RequestsAssumption DEF Price, Ids
    <3>3. SumFunctionOnSet(Price, S \cup {i}) = Price[i] + SumFunctionOnSet(Price, S)
      BY <3>1, <3>2, SumAdd
    <3>4. Charged(u, row[i].day) = SumFunctionOnSet(Price, S) /\ Charged(v, d)' = SumFunctionOnSet(Price, S \cup {i})
      BY <3>1 DEF Charged, Price
    <3>5. Price[i] = Amount[i.quote] /\ Price[i] \in Nat /\ Charged(u, row[i].day) \in Nat
      BY <3>2, CountedFacts DEF Price
    <3>6. CapFor(i) <= ConfigCap
      BY BoundsAssumption DEF CapFor, Smaller
    <3>7. CapFor(i) \in Nat
      BY BoundsAssumption DEF CapFor, Smaller
    <3> HIDE DEF S
    <3> QED
      BY <3>3, <3>4, <3>5, <3>6, <3>7, BoundsAssumption
  <2>2. CASE ~ (v = u /\ d = row[i].day)
    <3>1. Counted(v, d)' \subseteq Counted(v, d)
      BY <2>2 DEF Counted, TypeOK
    <3> QED
      BY <3>1, CountedLess
  <2> QED
    BY <2>1, <2>2
<1> QED
  BY <1>1, <1>2 DEF CapInv

LEMMA CapStep ==
  ASSUME Faults \subseteq {"audit"}, TypeOK, KeyInv, HeldInv, CapInv, [Next]_vars
  PROVE  CapInv'
<1>1. ASSUME \A j \in Requests : /\ res'[j] # "NONE" => res[j] # "NONE" /\ row'[j].day = row[j].day
                                 /\ res'[j] \in {"RESERVED", "COMMITTED"} => res[j] \in {"RESERVED", "COMMITTED"}
      PROVE  CapInv'
  <2>1. {j \in Requests : res'[j] # "NONE"} \subseteq {j \in Requests : res[j] # "NONE"}
    BY <1>1
  <2>2. IsFiniteSet({j \in Requests : res'[j] # "NONE"})
    BY <2>1, FS_Subset DEF CapInv
  <2>3. ASSUME NEW u \in Users, NEW d \in Nat PROVE Charged(u, d)' <= ConfigCap
    <3>1. Counted(u, d)' \subseteq Counted(u, d)
      BY <1>1 DEF Counted
    <3> QED
      BY <3>1, CountedLess
  <2> QED
    BY <2>2, <2>3 DEF CapInv
<1>2. ASSUME NEW u \in Users, TurnMoves(u) PROVE CapInv'
  <2> PICK i : i = turn[u].id
    OBVIOUS
  <2>1. /\ Alone(u) /\ i \in Requests /\ TurnHeld(u) /\ RowHeld(i) /\ i.user = u
        /\ i.side \in Sides
    BY <1>2, RequestFacts DEF TurnMoves, Alone, HeldInv, KeyInv, Busily, Ids
  <2>2. CASE /\ i.side = "BUY" /\ res[i] = "NONE" /\ row' = row
             /\ Charged(u, row[i].day) + Amount[i.quote] <= CapFor(i)
             /\ res' = [res EXCEPT ![i] = "RESERVED"]
    BY <2>1, <2>2, Reserved
  <2>3. CASE res' = res /\ row'[i].day = row[i].day
    BY <1>1, <2>1, <2>3 DEF Alone
  <2>4. CASE Settles(u)
    <3>1. turn[u].pc = "commit" => res[i] \in {"NONE", "RESERVED"}
      BY <2>1 DEF TurnHeld, RowHeld, Steps, Sides
    <3>2. /\ res'[i] # "NONE" => res[i] # "NONE"
          /\ res'[i] \in {"RESERVED", "COMMITTED"} => res[i] \in {"RESERVED", "COMMITTED"}
          /\ \A j \in Requests \ {i} : res'[j] = res[j]
          /\ row'[i].day = row[i].day
      BY <2>1, <2>4, <3>1 DEF Settles, Saved, TypeOK, At
    <3> QED
      BY <1>1, <2>1, <3>2 DEF Alone
  <2> QED
    BY <1>2, <2>2, <2>3, <2>4
    DEF TurnMoves, ReservesOrRejects, Prepares, Delegates, Offers, Reads, Concludes, Saved
<1>3. ASSUME NEW u \in Users, NEW i \in Requests, Claims(u, i) \/ Begins(u, i) \/ Reports(u, i) PROVE CapInv'
  <2>1. RowHeld(i) /\ res' = res
    BY <1>3 DEF HeldInv, Claims, Begins, Reports
  <2> QED
    BY <1>1, <1>3, <2>1 DEF Claims, Begins, Starts, Reports, RowHeld
<1>4. CASE Elsewhere
  BY <1>1, <1>4 DEF Elsewhere, service
<1> QED
  BY <1>2, <1>3, <1>4, UncutStep

LEMMA CapInvariant ==
  ASSUME Faults \subseteq {"audit"}
  PROVE  Spec => []CapInv
<1>1. Init => CapInv
  <2> SUFFICES ASSUME Init PROVE CapInv
    OBVIOUS
  <2>1. {i \in Requests : res[i] # "NONE"} = {}
    BY DEF Init
  <2>2. ASSUME NEW u, NEW d PROVE Charged(u, d) = 0
    <3>1. Counted(u, d) = {}
      BY DEF Init, Counted
    <3> QED
      BY <3>1, SumType, FS_EmptySet DEF Charged
  <2> QED
    BY <2>1, <2>2, FS_EmptySet, BoundsAssumption DEF CapInv
<1> QED
  BY <1>1, Typing, KeyInvariant, HeldInvariant, CapStep, PTL DEF Spec

\* With no turn cut short, what a user's reservations hold or have spent on any day stays
\* within the configured cap, for any amounts and any number of requests.
THEOREM CapKept ==
  ASSUME Faults \subseteq {"audit"}
  PROVE  Spec => []DailyCap
<1>1. CapInv => DailyCap
  BY BoundsAssumption DEF CapInv, DailyCap, DayOf
<1> QED
  BY <1>1, CapInvariant, PTL

-----------------------------------------------------------------------------
(***************************************************************************)
(* The promise.  Each step of the service, seen through the phases of the  *)
(* intents and the names of their charges, is one step of CopyPromise or   *)
(* none.  The invariants above supply what CopyPromise asks of a step: a   *)
(* claim finds no rival engaged (KeyInv), a move finds the charge it needs *)
(* (HeldInv), and the ledger's sum is the budget's (CapInv).               *)
(***************************************************************************)
LEMMA DayMonotone ==
  ASSUME NEW a \in Nat, NEW b \in Nat, a <= b
  PROVE  DayOf(a) \in 0 .. DayOf(b)
<1>1. DayLength \in Nat \ {0}
  BY BoundsAssumption
<1> QED
  BY <1>1, SMTT(60) DEF DayOf

\* The phase of an intent, from its row.
PhaseNamed(i) ==
  IF row[i].late THEN Phase(i) = "late"
  ELSE /\ row[i].state = "NONE" => Phase(i) = "none"
       /\ row[i].state \in {"CREATING", "DELEGATED_SUBMISSION_PENDING"} => Phase(i) = "preparing"
       /\ row[i].state \in Open => Phase(i) = "offered"
       /\ row[i].state \in Reconcilable => Phase(i) = "submitted"
       /\ row[i].state = "CONFIRMED" => Phase(i) = "confirmed"
       /\ row[i].state = "FAILED" => Phase(i) = "failed"
       /\ row[i].state \in Manual => Phase(i) = "review"
       /\ row[i].state \in {"REJECTED", "EXPIRED", "CANCELLED"} => Phase(i) = "void"

LEMMA PhaseNames ==
  ASSUME NEW i \in Requests, row[i].late => row[i].state = "RECONCILIATION_REQUIRED"
  PROVE  PhaseNamed(i)
BY DEF PhaseNamed, Phase, Open, Reconcilable, Manual

LEMMA PhaseNamesNext ==
  ASSUME NEW i \in Requests, row'[i].late => row'[i].state = "RECONCILIATION_REQUIRED"
  PROVE  PhaseNamed(i)'
BY DEF PhaseNamed, Phase, Open, Reconcilable, Manual

LEMMA PromiseStutters ==
  ASSUME \A j \in Requests : Phase(j)' = Phase(j) /\ row'[j].day = row[j].day, res' = res
  PROVE  UNCHANGED Promise!promise
BY DEF Promise!promise

LEMMA PromiseMoves ==
  ASSUME NEW i \in Requests, NEW from, NEW to, NEW charges,
         Phase(i) \in from, Phase(i)' = to, i.side = "BUY" => ChargeName[res[i]] \in charges,
         \A j \in Requests : row'[j].day = row[j].day, res' = res,
         \A j \in Requests \ {i} : Phase(j)' = Phase(j)
  PROVE  Promise!Move(i, from, to, charges)
BY DEF Promise!Move

LEMMA PromiseCharges ==
  ASSUME TypeOK, NEW i \in Requests, row' = row,
         NEW c \in {"NONE", "RESERVED", "COMMITTED", "RELEASED"}, res' = [res EXCEPT ![i] = c]
  PROVE  /\ [j \in Requests |-> ChargeName[res[j]]]' =
              [[j \in Requests |-> ChargeName[res[j]]] EXCEPT ![i] = ChargeName[c]]
         /\ [j \in Requests |-> Phase(j)]' = [j \in Requests |-> Phase(j)]
         /\ [j \in Requests |-> row[j].day]' = [j \in Requests |-> row[j].day]
<1>1. ASSUME NEW j \in Requests PROVE Phase(j)' = Phase(j)
  BY DEF Phase
<1>2. ASSUME NEW j \in Requests
      PROVE  ChargeName[res'[j]] = IF j = i THEN ChargeName[c] ELSE ChargeName[res[j]]
  <2>1. res'[j] = IF j = i THEN c ELSE res[j]
    BY DEF TypeOK
  <2> QED
    BY <2>1
<1>3. [j \in Requests |-> ChargeName[res'[j]]] =
        [[j \in Requests |-> ChargeName[res[j]]] EXCEPT ![i] = ChargeName[c]]
  BY <1>2
<1>4. [j \in Requests |-> ChargeName[res[j]]]' = [j \in Requests |-> ChargeName[res'[j]]]
  BY DEF ChargeName
<1> QED
  BY <1>1, <1>3, <1>4

\* The budget of CopyPromise is the sum of the ledger.
LEMMA PromiseUsed ==
  ASSUME TypeOK, NEW i \in Requests
  PROVE  Promise!Used(i) = Charged(i.user, row[i].day)
<1> DEFINE S == {j \in Requests :
              /\ [k \in Requests |-> k.user][j] = [k \in Requests |-> k.user][i]
              /\ [k \in Requests |-> row[k].day][j] = [k \in Requests |-> row[k].day][i]
              /\ [k \in Requests |-> ChargeName[res[k]]][j] \in {"held", "spent"}}
<1>1. S = Counted(i.user, row[i].day)
  <2>1. ASSUME NEW j \in Requests PROVE ChargeName[res[j]] \in {"held", "spent"} <=> res[j] \in {"RESERVED", "COMMITTED"}
    BY DEF TypeOK, ChargeName
  <2> QED
    BY <2>1 DEF Counted
<1>2. Promise!Used(i) = SumFunctionOnSet(Price, S)
  BY
  DEF Promise!Used, Promise!SumFunctionOnSet, SumFunctionOnSet, Promise!FoldFunctionOnSet,
      FoldFunctionOnSet, Promise!MapThenFoldSet, MapThenFoldSet
<1> QED
  BY <1>1, <1>2 DEF Charged

LEMMA ChargeNames ==
  ASSUME TypeOK, NEW i \in Requests
  PROVE  /\ ChargeName["NONE"] = "none" /\ ChargeName["RESERVED"] = "held"
         /\ ChargeName["COMMITTED"] = "spent" /\ ChargeName["RELEASED"] = "freed"
         /\ [j \in Requests |-> ChargeName[res[j]]][i] = ChargeName[res[i]]
         /\ [j \in Requests |-> Phase(j)][i] = Phase(i)
BY DEF ChargeName

\* The rows that a step of the turn of u, or a call on i, leaves alone keep their phase.
LEMMA OtherPhases ==
  ASSUME NEW i, \A j \in Requests \ {i} : row'[j] = row[j]
  PROVE  \A j \in Requests \ {i} : Phase(j)' = Phase(j)
BY DEF Phase

\* A step of a turn is a step of CopyPromise or none.
LEMMA PromiseTurn ==
  ASSUME Faults = {}, TypeOK, TypeOK', KeyInv, KeyInv', HeldInv, CapInv,
         NEW u \in Users, TurnMoves(u)
  PROVE  Promise!Next \/ UNCHANGED Promise!promise
<1> DEFINE Goal == Promise!Next \/ UNCHANGED Promise!promise
<1>0. PICK i : i = turn[u].id
  OBVIOUS
<1>1. /\ Alone(u) /\ i \in Requests /\ TurnHeld(u) /\ TurnFlows(u) /\ RowHeld(i) /\ i.user = u
      /\ i.side \in Sides /\ row[i].state \in Unsettled /\ ~row[i].late
      /\ \A j \in Requests \ {i} : row'[j] = row[j] /\ Phase(j)' = Phase(j)
      /\ turn[u].pc \in Steps
  <2>1. Alone(u) /\ i \in Requests /\ turn[u].pc \in Steps
    BY <1>0, BusyType DEF TurnMoves, Alone, Busy
  <2>2. TurnHeld(u) /\ TurnFlows(u) /\ RowHeld(i) /\ i.user = u /\ row[i].state \in Unsettled
    BY <1>0, <2>1 DEF Alone, HeldInv, KeyInv, Busily
  <2>3. i.side \in Sides /\ ~row[i].late
    BY <2>1, <2>2, RequestFacts, StateFacts DEF KeyInv, Ids
  <2> QED
    BY <1>0, <2>1, <2>2, <2>3, OtherPhases DEF Alone
<1>2. PhaseNamed(i) /\ PhaseNamed(i)'
  BY <1>1, PhaseNames, PhaseNamesNext DEF KeyInv
<1>3. ASSUME row' = row, res' = res PROVE Goal
  BY <1>3, PromiseStutters DEF Phase
<1>4. ASSUME NEW state, Saved(i, state), res' = res
      PROVE  /\ row'[i].state = state /\ ~row'[i].late
             /\ \A j \in Requests : row'[j].day = row[j].day
  BY <1>1, <1>4 DEF Saved
<1>5. ASSUME NEW state, Saved(i, state), res' = res, Phase(i)' = Phase(i) PROVE Goal
  BY <1>1, <1>4, <1>5, PromiseStutters
<1>6. ASSUME NEW state, Saved(i, state), res' = res, NEW from, NEW to, NEW charges,
             Phase(i) \in from, Phase(i)' = to, i.side = "BUY" => ChargeName[res[i]] \in charges
      PROVE  Promise!Move(i, from, to, charges)
  BY <1>1, <1>4, <1>6, PromiseMoves
<1>7. ASSUME \/ Promise!Offer(i) \/ Promise!Submit(i) \/ Promise!Confirm(i) \/ Promise!Fail(i)
             \/ Promise!Void(i) \/ Promise!Review(i) \/ Promise!Hold(i) \/ Promise!Spend(i) \/ Promise!Free(i)
      PROVE  Goal
  BY <1>1, <1>7 DEF Promise!Next
<1>8. /\ ChargeName["NONE"] = "none" /\ ChargeName["RESERVED"] = "held"
      /\ ChargeName["COMMITTED"] = "spent" /\ ChargeName["RELEASED"] = "freed"
  BY DEF ChargeName
<1>9. CASE At(u, "authorize") /\ ReservesOrRejects(u)
  <2>1. CASE /\ i.side = "BUY" /\ res[i] = "NONE" /\ row' = row
             /\ Charged(u, row[i].day) + Amount[i.quote] <= CapFor(i)
             /\ res' = [res EXCEPT ![i] = "RESERVED"]
    <3>1. Phase(i) = "preparing"
      BY <1>0, <1>1, <1>2, <1>9 DEF TurnFlows, At, PhaseNamed
    <3>2. Promise!Used(i) = Charged(u, row[i].day) /\ Price[i] = Amount[i.quote]
      BY <1>1, PromiseUsed DEF Price
    <3>3. Charged(u, row[i].day) \in Int /\ Amount[i.quote] \in Int /\ CapFor(i) \in Int /\ CapFor(i) <= ConfigCap
      BY <1>1, CountedFacts, AmountAssumption, RequestsAssumption, BoundsAssumption
      DEF CapFor, Smaller, Ids
    <3>4. Promise!Used(i) + Price[i] <= ConfigCap
      BY <2>1, <3>2, <3>3, BoundsAssumption
    <3>5. Promise!Hold(i)
      BY <1>1, <1>8, <2>1, <3>1, <3>4, PromiseCharges DEF Promise!Hold
    <3> QED
      BY <1>7, <3>5
  <2> QED
    BY <1>0, <1>3, <1>9, <2>1 DEF ReservesOrRejects
<1>10. CASE Prepares(u) \/ Reads(u)
  BY <1>3, <1>10 DEF Prepares, Reads
<1>11. CASE Delegates(u)
  <2>1. CASE At(u, "pending") /\ Saved(i, "DELEGATED_SUBMISSION_PENDING") /\ res' = res
    <3>1. Phase(i) = "preparing" /\ Phase(i)' = "preparing"
      BY <1>0, <1>1, <1>2, <1>4, <2>1 DEF TurnFlows, At, PhaseNamed
    <3> QED
      BY <1>5, <2>1, <3>1
  <2>2. CASE At(u, "send") /\ Saved(i, "RECONCILIATION_REQUIRED") /\ res' = res
    <3>1. Phase(i) = "preparing" /\ Phase(i)' = "review"
      BY <1>0, <1>1, <1>2, <1>4, <2>2 DEF TurnFlows, At, PhaseNamed, Manual
    <3>2. Promise!Review(i)
      BY <1>0, <1>1, <1>6, <1>8, <2>2, <3>1 DEF TurnHeld, At, Steps, Promise!Review
    <3> QED
      BY <1>7, <3>2
  <2> QED
    BY <1>0, <1>3, <1>11, <2>1, <2>2 DEF Delegates
<1>12. CASE Offers(u)
  <2>1. CASE At(u, "submitted") /\ Saved(i, "SUBMITTED_PENDING_RECONCILIATION") /\ res' = res
    <3>1. Phase(i) = "preparing" /\ Phase(i)' = "submitted"
      BY <1>0, <1>1, <1>2, <1>4, <2>1 DEF TurnFlows, At, PhaseNamed, Reconcilable
    <3>2. Promise!Submit(i)
      BY <1>0, <1>1, <1>6, <1>8, <2>1, <3>1 DEF TurnHeld, At, Steps, Promise!Submit
    <3> QED
      BY <1>7, <3>2
  <2>2. CASE At(u, "awaiting") /\ Saved(i, "AWAITING_USER_CONFIRMATION") /\ res' = res
    <3>1. Phase(i) = "preparing" /\ Phase(i)' = "offered"
      BY <1>0, <1>1, <1>2, <1>4, <2>2 DEF TurnFlows, At, PhaseNamed, Open
    <3>2. Promise!Offer(i)
      BY <1>0, <1>1, <1>6, <1>8, <2>2, <3>1 DEF TurnHeld, At, Steps, Promise!Offer
    <3> QED
      BY <1>7, <3>2
  <2> QED
    BY <1>0, <1>3, <1>12, <2>1, <2>2 DEF Offers
<1>13. CASE Settles(u)
  <2>1. CASE /\ At(u, "release") /\ row' = row
             /\ res' = [res EXCEPT ![i] = IF @ \in {"NONE", "COMMITTED"} THEN @ ELSE "RELEASED"]
    <3>1. Phase(i) \in {"preparing", "offered", "submitted"} /\ res[i] \in {"NONE", "RESERVED"}
      BY <1>0, <1>1, <1>2, <2>1 DEF TurnFlows, TurnHeld, RefusedEarly, RowHeld, Sides, At, PhaseNamed
    <3>2. CASE res[i] = "NONE"
      <4>1. res' = res
        BY <1>1, <2>1, <3>2 DEF TypeOK
      <4> QED
        BY <1>3, <2>1, <4>1
    <3>3. CASE res[i] = "RESERVED"
      <4>1. res' = [res EXCEPT ![i] = "RELEASED"]
        BY <1>1, <2>1, <3>3 DEF TypeOK
      <4>2. Promise!Free(i)
        BY <1>1, <1>8, <2>1, <3>1, <3>3, <4>1, PromiseCharges DEF Promise!Free
      <4> QED
        BY <1>7, <4>2
    <3> QED
      BY <3>1, <3>2, <3>3
  <2>2. CASE /\ At(u, "commit") /\ row' = row
             /\ res' = [res EXCEPT ![i] = IF @ = "NONE" THEN @ ELSE "COMMITTED"]
    <3>1. Phase(i) = "submitted" /\ res[i] \in {"NONE", "RESERVED"}
      BY <1>0, <1>1, <1>2, <2>2 DEF TurnFlows, TurnHeld, RowHeld, Sides, Steps, At, PhaseNamed
    <3>2. CASE res[i] = "NONE"
      <4>1. res' = res
        BY <1>1, <2>2, <3>2 DEF TypeOK
      <4> QED
        BY <1>3, <2>2, <4>1
    <3>3. CASE res[i] = "RESERVED"
      <4>1. res' = [res EXCEPT ![i] = "COMMITTED"]
        BY <1>1, <2>2, <3>3 DEF TypeOK
      <4>2. Promise!Spend(i)
        BY <1>1, <1>8, <2>2, <3>1, <3>3, <4>1, PromiseCharges DEF Promise!Spend
      <4> QED
        BY <1>7, <4>2
    <3> QED
      BY <3>1, <3>2, <3>3
  <2>3. CASE At(u, "close") /\ res' = res /\ Saved(i, turn[u].to)
    <3>1. CASE turn[u].to = "CONFIRMED"
      <4>1. Phase(i) = "submitted" /\ Phase(i)' = "confirmed"
        BY <1>0, <1>1, <1>2, <1>4, <2>3, <3>1 DEF TurnFlows, At, PhaseNamed, Open, Reconcilable
      <4>2. Promise!Confirm(i)
        BY <1>0, <1>1, <1>6, <1>8, <2>3, <3>1, <4>1 DEF TurnHeld, At, Steps, Promise!Confirm
      <4> QED
        BY <1>7, <4>2
    <3>2. CASE turn[u].to = "FAILED"
      <4>1. Phase(i) = "submitted" /\ Phase(i)' = "failed"
        BY <1>0, <1>1, <1>2, <1>4, <2>3, <3>2 DEF TurnFlows, At, PhaseNamed, Open, Reconcilable
      <4>2. Promise!Fail(i)
        BY <1>0, <1>1, <1>6, <1>8, <2>3, <3>2, <4>1
        DEF TurnHeld, RefusedEarly, At, Steps, Promise!Fail
      <4> QED
        BY <1>7, <4>2
    <3>3. CASE turn[u].to \in {"REJECTED", "EXPIRED", "CANCELLED"}
      <4>1. Phase(i) \in {"preparing", "offered"} /\ Phase(i)' = "void"
        BY <1>0, <1>1, <1>2, <1>4, <2>3, <3>3 DEF TurnFlows, At, PhaseNamed, Open, Reconcilable
      <4>2. Promise!Void(i)
        BY <1>0, <1>1, <1>6, <1>8, <2>3, <3>3, <4>1
        DEF TurnHeld, RefusedEarly, At, Steps, Promise!Void
      <4> QED
        BY <1>7, <4>2
    <3> QED
      BY <1>0, <1>1, <2>3, <3>1, <3>2, <3>3 DEF TurnFlows, At
  <2> QED
    BY <1>0, <1>13, <2>1, <2>2, <2>3 DEF Settles
<1>14. CASE Concludes(u)
  <2>1. CASE turn[u].pc \in {"readTx", "readReceipt", "decide"} /\ res' = res
    <3>1. Phase(i) = "submitted" /\ row[i].state \in Reconcilable
      BY <1>0, <1>1, <1>2, <2>1 DEF TurnFlows, PhaseNamed
    <3>2. ASSUME NEW state \in Reconcilable, Saved(i, state) PROVE Goal
      <4>1. Phase(i)' = "submitted"
        BY <1>2, <1>4, <2>1, <3>2 DEF PhaseNamed
      <4> QED
        BY <1>5, <2>1, <3>1, <3>2, <4>1
    <3>3. ASSUME NEW state \in Manual, Saved(i, state) PROVE Goal
      <4>1. Phase(i)' = "review"
        BY <1>2, <1>4, <2>1, <3>3 DEF PhaseNamed
      <4>2. Promise!Review(i)
        BY <1>0, <1>1, <1>6, <1>8, <2>1, <3>1, <3>3, <4>1 DEF TurnHeld, Steps, Promise!Review
      <4> QED
        BY <1>7, <4>2
    <3> QED
      BY <1>0, <1>3, <1>14, <3>1, <3>2, <3>3 DEF Concludes, Reconcilable
  <2> QED
    BY <1>14, <2>1 DEF Concludes, At
<1> QED
  BY <1>9, <1>10, <1>11, <1>12, <1>13, <1>14 DEF TurnMoves

\* The calls outside the turns: the claim prepares, a report submits or comes late.
LEMMA PromiseCalls ==
  ASSUME TypeOK, TypeOK', KeyInv, KeyInv', HeldInv, NEW u \in Users, NEW i \in Requests,
         Claims(u, i) \/ Begins(u, i) \/ Reports(u, i)
  PROVE  Promise!Next \/ UNCHANGED Promise!promise
<1>1. PhaseNamed(i) /\ PhaseNamed(i)'
  BY PhaseNames, PhaseNamesNext DEF KeyInv
<1>2. ChargeName["RESERVED"] = "held" /\ ChargeName["RELEASED"] = "freed"
  BY DEF ChargeName
<1>3. RowHeld(i)
  BY DEF HeldInv
<1>4. CASE Claims(u, i)
  <2>1. /\ row[i].state = "NONE" /\ row'[i].state = "CREATING" /\ ~row'[i].late
        /\ \A j \in Requests \ {i} : row'[j] = row[j]
        /\ res' = res /\ row'[i].day \in 0 .. DayOf(MaxTime)
    BY <1>4, DayMonotone, BoundsAssumption DEF Claims, TypeOK
  <2>2. Phase(i) = "none" /\ Phase(i)' = "preparing"
    BY <1>1, <2>1 DEF PhaseNamed, KeyInv
  <2>3. ASSUME NEW j \in Requests, KeyOf(j) = KeyOf(i), Phase(j) \in Promise!Engaged PROVE FALSE
    <3>1. IsLive(j)
      <4>1. PhaseNamed(j)
        BY PhaseNames DEF KeyInv
      <4> QED
        BY <2>3, <4>1 DEF PhaseNamed, Promise!Engaged, IsLive, Live, States, TypeOK, Rows, Retryable
    <3>2. owner[KeyOf(i)] = j /\ j # NoIntent
      BY <2>3, <3>1, NoIntentAssumption, RequestsAssumption DEF KeyInv
    <3> QED
      BY <1>4, <3>1, <3>2 DEF Claims, MayClaim, IsLive, Live
  <2>4. \A j \in Requests \ {i} : Phase(j)' = Phase(j)
    BY <2>1, OtherPhases
  <2>5. [j \in Requests |-> Phase(j)]' = [[j \in Requests |-> Phase(j)] EXCEPT ![i] = "preparing"]
    BY <2>2, <2>4
  <2>6. [j \in Requests |-> row[j].day]' = [[j \in Requests |-> row[j].day] EXCEPT ![i] = row'[i].day]
    BY <2>1
  <2>7. Promise!Prepare(i)
    BY <2>1, <2>2, <2>3, <2>5, <2>6 DEF Promise!Prepare
  <2> QED
    BY <2>7 DEF Promise!Next
<1>5. CASE Begins(u, i)
  BY <1>5, PromiseStutters DEF Begins, Starts, Phase
<1>6. CASE Reports(u, i)
  <2>1. /\ \A j \in Requests : row'[j].day = row[j].day
        /\ \A j \in Requests \ {i} : Phase(j)' = Phase(j)
        /\ res' = res /\ ~BeingClosed(i)
    BY <1>6, OtherPhases DEF Reports, BeingClosed
  <2>2. CASE row[i].state = "AWAITING_USER_CONFIRMATION"
    <3>1. Phase(i) = "offered" /\ Phase(i)' = "offered"
      BY <1>1, <1>6, <2>2 DEF Reports, PhaseNamed, Open, KeyInv
    <3> QED
      BY <2>1, <3>1, PromiseStutters
  <2>3. CASE row[i].state = "CLIENT_CONFIRMING"
    <3>1. Phase(i) = "offered" /\ Phase(i)' = "submitted"
      BY <1>1, <1>6, <2>3 DEF Reports, PhaseNamed, Open, Reconcilable, KeyInv
    <3>2. i.side = "BUY" => ChargeName[res[i]] \in {"held"}
      BY <1>2, <1>3, <2>1, <2>3 DEF RowHeld, Pending, Open
    <3>3. Promise!Submit(i)
      BY <2>1, <3>1, <3>2, PromiseMoves DEF Promise!Submit
    <3> QED
      BY <3>3 DEF Promise!Next
  <2>4. CASE row[i].state = "EXPIRED"
    <3>1. Phase(i) = "void" /\ Phase(i)' = "late"
      BY <1>1, <1>6, <2>4 DEF Reports, PhaseNamed, KeyInv
    <3>2. i.side = "BUY" => ChargeName[res[i]] \in {"freed"}
      BY <1>2, <1>3, <2>4 DEF RowHeld
    <3>3. Promise!ReportLate(i)
      BY <2>1, <3>1, <3>2, PromiseMoves DEF Promise!ReportLate
    <3> QED
      BY <3>3 DEF Promise!Next
  <2> QED
    BY <1>6, <2>2, <2>3, <2>4 DEF Reports
<1> QED
  BY <1>4, <1>5, <1>6

LEMMA PromiseStep ==
  ASSUME Faults = {}, TypeOK, TypeOK', KeyInv, KeyInv', HeldInv, CapInv, [Next]_vars
  PROVE  [Promise!Next]_(Promise!promise)
<1>1. CASE Elsewhere
  BY <1>1, PromiseStutters DEF Elsewhere, service, Phase
<1> QED
  BY <1>1, PromiseTurn, PromiseCalls, UncutStep

\* With no fault inside the service, the coordinator, the ledger and the reconciliation keep
\* the promise of CopyPromise: every behaviour of the service is one of its behaviours.
THEOREM PromiseKept ==
  ASSUME Faults = {}
  PROVE  Spec => KeepsPromise
<1>1. Init => Promise!Init
  <2> SUFFICES ASSUME Init PROVE Promise!Init
    OBVIOUS
  <2>1. ASSUME NEW i \in Requests
        PROVE  row[i].state = "NONE" /\ ~row[i].late /\ row[i].day = 0 /\ res[i] = "NONE"
    BY DEF Init, NoRow
  <2>2. ASSUME NEW i \in Requests PROVE Phase(i) = "none"
    BY <2>1, PhaseNames DEF PhaseNamed
  <2> QED
    BY <2>1, <2>2 DEF Promise!Init, ChargeName
<1>2. (Spec => []HeldInv) /\ (Spec => []CapInv)
  BY HeldInvariant, CapInvariant
<1>3. /\ TypeOK /\ KeyInv /\ HeldInv /\ CapInv
      /\ (TypeOK /\ KeyInv /\ HeldInv /\ CapInv)'
      /\ [Next]_vars
      => [Promise!Next]_(Promise!promise)
  BY PromiseStep
<1> QED
  BY <1>1, <1>2, <1>3, Typing, KeyInvariant, PTL DEF Spec, KeepsPromise, Promise!Spec
=============================================================================
