-------------------------- MODULE Trading_proofs ---------------------------
(***************************************************************************)
(* Proofs about Executions, ManualSells, CurveBuys and Referral, and about *)
(* Trading, which puts them side by side: for any number of orders, days,  *)
(* calls, buttons, users, amounts and overrides.  Names that begin with E, *)
(* M, B or F belong to the component that Trading calls so.                *)
(***************************************************************************)
EXTENDS Trading, FiniteSums, TLAPS

(***************************************************************************)
(* Executions.                                                             *)
(***************************************************************************)
EStates   == E!Held \cup {"NONE", "RELEASED"}
ECallType == [Dispatches -> [at: E!Awaits, order: Orders]]

\* The parts of the state a broadcast depends on.
EShape ==
  /\ state \in [Orders -> EStates]
  /\ sent \in [Orders -> Nat]
  /\ call \in ECallType

\* Only an order that is being signed, or was submitted, can have been broadcast.
EOrderInv == E!BroadcastOnce

\* A call that is not idle is alone at its order, whose row it made; from the signature on the row is
\* SIGNING, and nothing was broadcast before its own broadcast.
ECallInv ==
  \A c \in Dispatches :
    /\ call[c].at # "idle" => state[call[c].order] # "NONE"
    /\ call[c].at \in {"signing", "signed"} => state[call[c].order] = "SIGNING" /\ sent[call[c].order] = 0
    /\ call[c].at = "submitted" => sent[call[c].order] = 1
    /\ \A d \in Dispatches : c # d /\ call[c].at # "idle" /\ call[d].at # "idle" => call[c].order # call[d].order

EInv == EShape /\ EOrderInv /\ ECallInv

-----------------------------------------------------------------------------
LEMMA EInitInv == E!Init => EInv
<1> SUFFICES ASSUME E!Init
             PROVE  EInv
  OBVIOUS
<1>1. /\ state = [o \in Orders |-> "NONE"] /\ sent = [o \in Orders |-> 0]
      /\ call \in [Dispatches -> [at: {"idle"}, order: Orders]]
  BY DEF E!Init
<1>2. EShape
  BY <1>1 DEF EShape, EStates, ECallType, E!Awaits
<1>3. /\ 0 <= 1 /\ 0 # 1
      /\ \A o \in Orders : sent[o] = 0
  BY <1>1
<1>4. EOrderInv
  BY <1>3 DEF EOrderInv, E!BroadcastOnce
<1>5. \A c \in Dispatches : call[c].at = "idle"
  BY <1>1
<1>6. ECallInv
  BY <1>5 DEF ECallInv
<1> QED
  BY <1>2, <1>4, <1>6 DEF EInv

\* What a step of one call does to the calls: it moves on, with its order.
EMoves(c, to) ==
  /\ call' \in ECallType
  /\ call'[c].at = to /\ call'[c].order = call[c].order
  /\ \A d \in Dispatches : d # c => call'[d] = call[d]

LEMMA EGoMoves ==
  ASSUME EShape, NEW c \in Dispatches, NEW from \in E!Awaits, NEW to \in E!Awaits, E!Go(c, from, to)
  PROVE  call[c].at = from /\ call[c].order \in Orders /\ EMoves(c, to)
BY DEF EShape, ECallType, E!Go, EMoves

LEMMA EAwaiting ==
  /\ "idle" \in E!Awaits /\ "reserved" \in E!Awaits /\ "refused" \in E!Awaits /\ "approved" \in E!Awaits
  /\ "signing" \in E!Awaits /\ "signed" \in E!Awaits /\ "submitted" \in E!Awaits
BY DEF E!Awaits

LEMMA EMarkStates ==
  ASSUME EShape, NEW o \in Orders, NEW from \in EStates, NEW to \in EStates, E!MarkIf(o, from, to)
  PROVE  /\ state' \in [Orders -> EStates]
         /\ state'[o] = IF state[o] = from THEN to ELSE state[o]
         /\ \A p \in Orders : p # o => state'[p] = state[p]
BY DEF EShape, E!MarkIf

\* A call that ends, or moves between two awaits of which the later promises nothing more.
LEMMA EStepInv ==
  ASSUME EInv, NEW c \in Dispatches, NEW to \in {"idle", "refused", "approved"}, call[c].at # "idle",
         call[c].order \in Orders, EMoves(c, to), UNCHANGED <<state, sent>>
  PROVE  EInv'
<1>1. EShape'
  BY DEF EInv, EShape, EMoves
<1>2. EOrderInv'
  BY DEF EInv, EOrderInv, E!BroadcastOnce
<1>3. ECallInv'
  BY DEF EInv, ECallInv, EMoves
<1> QED
  BY <1>1, <1>2, <1>3 DEF EInv

LEMMA EReserveInv ==
  ASSUME EInv, NEW c \in Dispatches, E!Reserve(c)
  PROVE  EInv'
<1>1. CASE UNCHANGED <<state, call>>
  BY <1>1 DEF E!Reserve, EInv, EShape, EOrderInv, E!BroadcastOnce, ECallInv
<1>2. ASSUME NEW o \in Orders, ~E!Duplicate(o), state' = [state EXCEPT ![o] = "RESERVED"],
             call' = [call EXCEPT ![c] = [at |-> "reserved", order |-> o]]
      PROVE  EInv'
  <2>1. state[o] = "NONE" /\ UNCHANGED sent
    BY <1>2 DEF E!Duplicate, E!Reserve
  <2>2. /\ call' \in ECallType /\ call'[c].at = "reserved" /\ call'[c].order = o
        /\ \A d \in Dispatches : d # c => call'[d] = call[d]
    BY <1>2, EAwaiting DEF EInv, EShape, ECallType
  <2>3. /\ state' \in [Orders -> EStates] /\ state'[o] = "RESERVED"
        /\ \A p \in Orders : p # o => state'[p] = state[p]
    BY <1>2 DEF EInv, EShape, EStates, E!Held
  <2>4. EShape'
    BY <2>1, <2>2, <2>3 DEF EInv, EShape
  <2>5. sent[o] # 1 /\ sent[o] <= 1
    BY <2>1 DEF EInv, EOrderInv, E!BroadcastOnce
  <2>6. EOrderInv'
    BY <2>1, <2>3, <2>5 DEF EInv, EOrderInv, E!BroadcastOnce
  <2>7. \A d \in Dispatches : d # c /\ call[d].at # "idle" => call[d].order # o /\ call[d].order \in Orders
    BY <2>1 DEF EInv, EShape, ECallType, ECallInv
  <2>8. ECallInv'
    BY <2>1, <2>2, <2>3, <2>7 DEF EInv, ECallInv
  <2> QED
    BY <2>4, <2>6, <2>8 DEF EInv
<1> QED
  BY <1>1, <1>2 DEF E!Reserve

LEMMA EAuthorizeInv ==
  ASSUME EInv, NEW c \in Dispatches, E!Authorize(c)
  PROVE  EInv'
<1>1. PICK to \in {"approved", "refused"} : E!Go(c, "reserved", to)
  BY DEF E!Authorize
<1>2. call[c].at = "reserved" /\ call[c].order \in Orders /\ EMoves(c, to)
  BY <1>1, EGoMoves, EAwaiting DEF EInv
<1> QED
  BY <1>2, EStepInv DEF E!Authorize

LEMMA ECrashInv ==
  ASSUME EInv, NEW c \in Dispatches, E!Crash(c)
  PROVE  EInv'
<1>1. call[c].at # "idle" /\ call[c].at \in E!Awaits /\ E!Go(c, call[c].at, "idle") /\ UNCHANGED <<state, sent>>
  BY DEF E!Crash, EInv, EShape, ECallType
<1>2. call[c].order \in Orders /\ EMoves(c, "idle")
  BY <1>1, EGoMoves, EAwaiting DEF EInv
<1> QED
  BY <1>1, <1>2, EStepInv

LEMMA EReleaseInv ==
  ASSUME EInv, NEW c \in Dispatches, E!Release(c)
  PROVE  EInv'
<1> DEFINE o == call[c].order
<1>1. call[c].at = "refused" /\ o \in Orders /\ EMoves(c, "idle") /\ UNCHANGED sent
  BY EGoMoves, EAwaiting DEF EInv, E!Release
<1>2. /\ state' \in [Orders -> EStates]
      /\ state'[o] = IF state[o] = "RESERVED" THEN "RELEASED" ELSE state[o]
      /\ \A p \in Orders : p # o => state'[p] = state[p]
  BY <1>1, EMarkStates DEF EInv, E!Release, EStates, E!Held
<1>3. EShape'
  BY <1>1, <1>2 DEF EInv, EShape, EMoves
<1>4. EOrderInv'
  BY <1>1, <1>2 DEF EInv, EOrderInv, E!BroadcastOnce
<1>5. \A d \in Dispatches : d # c /\ call[d].at # "idle" => call[d].order # o /\ call[d].order \in Orders
  BY <1>1 DEF EInv, EShape, ECallType, ECallInv
<1>6. ECallInv'
  BY <1>1, <1>2, <1>5 DEF EInv, ECallInv, EMoves
<1> QED
  BY <1>3, <1>4, <1>6 DEF EInv

LEMMA EMarkSigningInv ==
  ASSUME EInv, NEW c \in Dispatches, E!MarkSigning(c)
  PROVE  EInv'
<1> DEFINE o == call[c].order
<1>1. PICK to \in {"signing", "idle"} : E!Go(c, "approved", to) /\ (to = "signing" <=> state[o] = "RESERVED")
  BY DEF E!MarkSigning
<1>2. call[c].at = "approved" /\ o \in Orders /\ EMoves(c, to) /\ UNCHANGED sent
  BY <1>1, EGoMoves, EAwaiting DEF EInv, E!MarkSigning
<1>3. /\ state' \in [Orders -> EStates]
      /\ state'[o] = IF state[o] = "RESERVED" THEN "SIGNING" ELSE state[o]
      /\ \A p \in Orders : p # o => state'[p] = state[p]
  BY <1>2, EMarkStates DEF EInv, E!MarkSigning, EStates, E!Held
<1>4. EShape'
  BY <1>2, <1>3 DEF EInv, EShape, EMoves
<1>5. EOrderInv'
  BY <1>2, <1>3 DEF EInv, EOrderInv, E!BroadcastOnce
<1>6. state[o] = "RESERVED" => sent[o] = 0
  BY <1>2 DEF EInv, EOrderInv, E!BroadcastOnce, EShape
<1>7. \A d \in Dispatches : d # c /\ call[d].at # "idle" => call[d].order # o /\ call[d].order \in Orders
  BY <1>2 DEF EInv, EShape, ECallType, ECallInv
<1>8. ECallInv'
  BY <1>1, <1>2, <1>3, <1>6, <1>7 DEF EInv, ECallInv, EMoves
<1> QED
  BY <1>4, <1>5, <1>8 DEF EInv

LEMMA ESignInv ==
  ASSUME EInv, NEW c \in Dispatches, E!Sign(c)
  PROVE  EInv'
<1>1. UNCHANGED <<state, sent>>
  BY DEF E!Sign
<1>2. CASE E!Go(c, "signing", "idle")
  <2>1. call[c].at = "signing" /\ call[c].order \in Orders /\ EMoves(c, "idle")
    BY <1>2, EGoMoves, EAwaiting DEF EInv
  <2> QED
    BY <1>1, <2>1, EStepInv
<1>3. CASE E!Go(c, "signing", "signed")
  <2>1. call[c].at = "signing" /\ call[c].order \in Orders /\ EMoves(c, "signed")
    BY <1>3, EGoMoves, EAwaiting DEF EInv
  <2>2. EShape'
    BY <1>1, <2>1 DEF EInv, EShape, EMoves
  <2>3. ECallInv'
    BY <1>1, <2>1 DEF EInv, ECallInv, EMoves
  <2> QED
    BY <1>1, <2>2, <2>3 DEF EInv, EOrderInv, E!BroadcastOnce
<1> QED
  BY <1>2, <1>3 DEF E!Sign

LEMMA ESubmitInv ==
  ASSUME EInv, NEW c \in Dispatches, E!Submit(c)
  PROVE  EInv'
<1> DEFINE o == call[c].order
<1>1. PICK to \in {"submitted", "idle"} :
        /\ E!Go(c, "signed", to) /\ UNCHANGED state
        /\ sent' \in {sent, [sent EXCEPT ![o] = @ + 1]}
        /\ to = "submitted" => sent' = [sent EXCEPT ![o] = @ + 1]
  BY DEF E!Submit
<1>2. call[c].at = "signed" /\ o \in Orders /\ EMoves(c, to)
  BY <1>1, EGoMoves, EAwaiting DEF EInv
<1>3. state[o] = "SIGNING" /\ sent[o] = 0
  BY <1>2 DEF EInv, ECallInv
<1>4. /\ sent' \in [Orders -> Nat] /\ sent'[o] \in {0, 1} /\ (to = "submitted" => sent'[o] = 1)
      /\ \A p \in Orders : p # o => sent'[p] = sent[p]
  BY <1>1, <1>2, <1>3 DEF EInv, EShape
<1>5. EShape'
  BY <1>1, <1>2, <1>4 DEF EInv, EShape, EMoves
<1>6. EOrderInv'
  BY <1>1, <1>3, <1>4 DEF EInv, EOrderInv, E!BroadcastOnce
<1>7. \A d \in Dispatches : d # c /\ call[d].at # "idle" => call[d].order # o /\ call[d].order \in Orders
  BY <1>2 DEF EInv, EShape, ECallType, ECallInv
<1>8. ECallInv'
  BY <1>1, <1>2, <1>3, <1>4, <1>7 DEF EInv, ECallInv, EMoves
<1> QED
  BY <1>5, <1>6, <1>8 DEF EInv

LEMMA EMarkSubmittedInv ==
  ASSUME EInv, NEW c \in Dispatches, E!MarkSubmitted(c)
  PROVE  EInv'
<1> DEFINE o == call[c].order
<1>1. call[c].at = "submitted" /\ o \in Orders /\ EMoves(c, "idle") /\ UNCHANGED sent
  BY EGoMoves, EAwaiting DEF EInv, E!MarkSubmitted
<1>2. /\ state' \in [Orders -> EStates]
      /\ state'[o] = IF state[o] = "SIGNING" THEN "SUBMITTED" ELSE state[o]
      /\ \A p \in Orders : p # o => state'[p] = state[p]
  BY <1>1, EMarkStates DEF EInv, E!MarkSubmitted, EStates, E!Held
<1>3. EShape'
  BY <1>1, <1>2 DEF EInv, EShape, EMoves
<1>4. EOrderInv'
  BY <1>1, <1>2 DEF EInv, EOrderInv, E!BroadcastOnce
<1>5. \A d \in Dispatches : d # c /\ call[d].at # "idle" => call[d].order # o /\ call[d].order \in Orders
  BY <1>1 DEF EInv, EShape, ECallType, ECallInv
<1>6. ECallInv'
  BY <1>1, <1>2, <1>5 DEF EInv, ECallInv, EMoves
<1> QED
  BY <1>3, <1>4, <1>6 DEF EInv

LEMMA ENextInv == EInv /\ [E!Next]_(E!vars) => EInv'
<1> SUFFICES ASSUME EInv, [E!Next]_(E!vars)
             PROVE  EInv'
  OBVIOUS
<1>1. CASE UNCHANGED E!vars
  <2>1. UNCHANGED <<state, call, sent>>
    BY <1>1 DEF E!vars
  <2> QED
    BY <2>1 DEF EInv, EShape, EOrderInv, E!BroadcastOnce, ECallInv
<1>2. CASE E!Next
  BY <1>2, EReserveInv, EAuthorizeInv, EReleaseInv, EMarkSigningInv, ESignInv, ESubmitInv,
     EMarkSubmittedInv, ECrashInv DEF E!Next
<1> QED
  BY <1>1, <1>2

\* An order is broadcast once, however many calls dispatch it and wherever they crash, and what may
\* have been broadcast keeps its budget.
THEOREM OrdersGoOnce == E!Spec => []E!BroadcastOnce
<1>1. E!Init => EInv
  BY EInitInv
<1>2. EInv /\ [E!Next]_(E!vars) => EInv'
  BY ENextInv
<1>3. EInv => E!BroadcastOnce
  BY DEF EInv, EOrderInv
<1> QED
  BY <1>1, <1>2, <1>3, PTL DEF E!Spec

-----------------------------------------------------------------------------
(***************************************************************************)
(* The daily cap.  Only Reserve adds to what a day holds, and it asks the  *)
(* sum first, in the same transaction; no other step moves an order to     *)
(* another day or back into a held state.                                  *)
(***************************************************************************)
ECapInv ==
  /\ day \in [Orders -> Days]
  /\ \A d \in Days : IsFiniteSet(E!HeldOn(d)) /\ E!UsedOn(d) <= MaxPerDay

\* What Executions sums is what FiniteSums is about.
LEMMA ESums ==
  ASSUME NEW w, NEW S
  PROVE  E!SumFunctionOnSet(w, S) = SumFunctionOnSet(w, S)
BY
DEF E!SumFunctionOnSet, E!FoldFunctionOnSet, E!MapThenFoldSet, SumFunctionOnSet, FoldFunctionOnSet,
    MapThenFoldSet

LEMMA EUsed ==
  ASSUME NEW d
  PROVE  /\ E!UsedOn(d) = SumFunctionOnSet(Amount, E!HeldOn(d))
         /\ E!UsedOn(d)' = SumFunctionOnSet(Amount, E!HeldOn(d)')
BY ESums DEF E!UsedOn

\* A day that holds no more than before uses no more.
LEMMA EHoldsLess ==
  ASSUME ECapInv, NEW d \in Days, E!HeldOn(d)' \subseteq E!HeldOn(d)
  PROVE  IsFiniteSet(E!HeldOn(d)') /\ E!UsedOn(d)' <= MaxPerDay
<1> DEFINE S == E!HeldOn(d)
           T == E!HeldOn(d)'
<1>1. IsFiniteSet(S) /\ T \in SUBSET S /\ \A o \in S : Amount[o] \in Nat
  BY BudgetAssumption DEF ECapInv, E!HeldOn
<1>2. IsFiniteSet(T) /\ \A o \in T : Amount[o] \in Nat
  BY <1>1, FS_Subset
<1>3. E!UsedOn(d) = SumFunctionOnSet(Amount, S) /\ E!UsedOn(d)' = SumFunctionOnSet(Amount, T)
  BY EUsed
<1>4. E!UsedOn(d) <= MaxPerDay /\ MaxPerDay \in Nat
  BY BudgetAssumption DEF ECapInv
<1> HIDE DEF S, T
<1>5. SumFunctionOnSet(Amount, T) <= SumFunctionOnSet(Amount, S)
  BY <1>1, SumOfPart
<1>6. SumFunctionOnSet(Amount, S) \in Nat /\ SumFunctionOnSet(Amount, T) \in Nat
  BY <1>1, <1>2, SumType
<1>7. E!UsedOn(d)' <= MaxPerDay
  BY <1>3, <1>4, <1>5, <1>6
<1> QED
  BY <1>2, <1>7 DEF T

\* A row that is marked keeps its day, and is not taken back once it was given back.
LEMMA EMarkHolds ==
  ASSUME EShape, NEW o \in Orders, UNCHANGED day, NEW d,
         \/ E!MarkIf(o, "RESERVED", "RELEASED")
         \/ E!MarkIf(o, "RESERVED", "SIGNING")
         \/ E!MarkIf(o, "SIGNING", "SUBMITTED")
         \/ UNCHANGED state
  PROVE  E!HeldOn(d)' \subseteq E!HeldOn(d)
BY DEF E!HeldOn, E!Held, EShape, E!MarkIf

LEMMA EReserveCap ==
  ASSUME EShape, ECapInv, NEW o \in Orders, NEW d \in Days, ~E!Duplicate(o), ~E!Exceeds(o, d),
         state' = [state EXCEPT ![o] = "RESERVED"], day' = [day EXCEPT ![o] = d]
  PROVE  ECapInv'
<1>1. day' \in [Orders -> Days]
  BY DEF ECapInv
<1>2. o \notin E!HeldOn(d) /\ E!HeldOn(d)' = E!HeldOn(d) \cup {o}
  BY DEF E!HeldOn, E!Held, E!Duplicate, EShape, ECapInv
<1>3. \A e \in Days : e # d => E!HeldOn(e)' \subseteq E!HeldOn(e)
  BY DEF E!HeldOn, E!Held, E!Duplicate, EShape, ECapInv
<1>4. IsFiniteSet(E!HeldOn(d)') /\ E!UsedOn(d)' <= MaxPerDay
  <2> DEFINE S == E!HeldOn(d)
  <2>1. IsFiniteSet(S) /\ o \notin S /\ \A p \in S \cup {o} : Amount[p] \in Nat
    BY <1>2, BudgetAssumption DEF ECapInv, E!HeldOn
  <2>2. E!UsedOn(d) = SumFunctionOnSet(Amount, S) /\ E!UsedOn(d)' = SumFunctionOnSet(Amount, S \cup {o})
    BY <1>2, EUsed
  <2> HIDE DEF S
  <2>3. IsFiniteSet(S \cup {o})
    BY <2>1, FS_AddElement
  <2>4. SumFunctionOnSet(Amount, S \cup {o}) = Amount[o] + SumFunctionOnSet(Amount, S)
    BY <2>1, SumAdd
  <2>5. SumFunctionOnSet(Amount, S) \in Nat
    BY <2>1, SumType
  <2>6. E!UsedOn(d)' <= MaxPerDay
    BY <2>2, <2>4, <2>5, BudgetAssumption DEF E!Exceeds
  <2> QED
    BY <1>2, <2>3, <2>6 DEF S
<1> QED
  BY <1>1, <1>3, <1>4, EHoldsLess DEF ECapInv

LEMMA ECapStep ==
  ASSUME EInv, ECapInv, [E!Next]_(E!vars)
  PROVE  ECapInv'
<1>1. EShape
  BY DEF EInv
<1>2. ASSUME UNCHANGED day, \A d \in Days : E!HeldOn(d)' \subseteq E!HeldOn(d)
      PROVE  ECapInv'
  BY <1>2, EHoldsLess DEF ECapInv
<1>3. ASSUME NEW c \in Dispatches, E!Reserve(c)
      PROVE  ECapInv'
  <2>1. CASE UNCHANGED <<state, day>>
    BY <1>2, <2>1 DEF E!HeldOn
  <2>2. CASE ~UNCHANGED <<state, day>>
    BY <1>1, <1>3, <2>2, EReserveCap DEF E!Reserve
  <2> QED
    BY <2>1, <2>2
<1>4. ASSUME NEW c \in Dispatches,
             \/ E!Authorize(c) \/ E!Release(c) \/ E!MarkSigning(c) \/ E!Sign(c)
             \/ E!Submit(c) \/ E!MarkSubmitted(c) \/ E!Crash(c)
      PROVE  ECapInv'
  <2>1. UNCHANGED day /\ call[c].order \in Orders
    BY <1>1, <1>4
    DEF E!Authorize, E!Release, E!MarkSigning, E!Sign, E!Submit, E!MarkSubmitted, E!Crash, E!Go,
        EShape, ECallType
  <2>2. \/ E!MarkIf(call[c].order, "RESERVED", "RELEASED")
        \/ E!MarkIf(call[c].order, "RESERVED", "SIGNING")
        \/ E!MarkIf(call[c].order, "SIGNING", "SUBMITTED")
        \/ UNCHANGED state
    BY <1>4 DEF E!Authorize, E!Release, E!MarkSigning, E!Sign, E!Submit, E!MarkSubmitted, E!Crash
  <2> QED
    BY <1>1, <1>2, <2>1, <2>2, EMarkHolds
<1>5. CASE UNCHANGED E!vars
  BY <1>2, <1>5 DEF E!vars, E!HeldOn
<1> QED
  BY <1>3, <1>4, <1>5 DEF E!Next

LEMMA ECapInit ==
  ASSUME E!Init
  PROVE  ECapInv
<1>1. \A d \in Days : E!HeldOn(d) = {}
  BY DEF E!Init, E!HeldOn, E!Held
<1>2. \A d \in Days : E!UsedOn(d) = 0
  <2>1. SumFunctionOnSet(Amount, {}) = 0
    BY FS_EmptySet, SumType
  <2> QED
    BY <1>1, <2>1, EUsed
<1>3. \A d \in Days : IsFiniteSet(E!HeldOn(d)) /\ E!UsedOn(d) <= MaxPerDay
  BY <1>1, <1>2, FS_EmptySet, BudgetAssumption
<1>4. day \in [Orders -> Days]
  BY DEF E!Init
<1> QED
  BY <1>3, <1>4 DEF ECapInv

LEMMA ESafe == EInv /\ ECapInv => E!BroadcastOnce /\ E!DayIsCapped
BY DEF EInv, EOrderInv, ECapInv, E!DayIsCapped

\* An order is broadcast once and what is held for a day stays within its cap, for any number of
\* orders and calls, whatever they cost and wherever they crash.
THEOREM OrdersHold == E!Spec => [](E!BroadcastOnce /\ E!DayIsCapped)
<1>1. E!Init => ECapInv
  BY ECapInit
<1>2. EInv /\ ECapInv /\ [E!Next]_(E!vars) => ECapInv'
  BY ECapStep
<1>3. EInv /\ ECapInv => (E!BroadcastOnce /\ E!DayIsCapped)
  BY ESafe
<1> QED
  BY <1>1, <1>2, <1>3, EInitInv, ENextInv, PTL DEF E!Spec

-----------------------------------------------------------------------------
(***************************************************************************)
(* ManualSells.                                                            *)
(***************************************************************************)
MStates     == M!Active \cup {"NONE", "EXPIRED"}
MButtonType == [ConfirmButtons -> [is: {"unissued", "pending", "used"}, order: Orders]]
MCallType   == [Taps -> [at: M!Awaits, order: Orders, button: ConfirmButtons, read: 0 .. Holding]]

MShape ==
  /\ intent \in [Orders -> MStates]
  /\ button \in MButtonType
  /\ call \in MCallType
  /\ sent \in [Orders -> Nat]
  /\ balance \in 0 .. Holding

\* The taps that claimed their order and have not ended.
MWinning == {"signing", "signed", "submitted"}

\* From the claim on the row of an order is SIGNING, nothing was broadcast before its tap broadcasts,
\* and that tap is alone at it.
MCallInv ==
  \A c \in Taps :
    /\ call[c].at \in {"signing", "signed"} => intent[call[c].order] = "SIGNING" /\ sent[call[c].order] = 0
    /\ call[c].at = "submitted" => sent[call[c].order] = 1
    /\ \A d \in Taps : c # d /\ call[c].at \in MWinning /\ call[d].at \in MWinning => call[c].order # call[d].order

\* What is in review, being signed or submitted fits into the position.
MPositionInv == M!Total(M!Reserved(intent)) <= Holding

MInv == MShape /\ M!SellOnce /\ MCallInv /\ MPositionInv

-----------------------------------------------------------------------------
\* What ManualSells sums is what FiniteSums is about.
LEMMA MSums ==
  ASSUME NEW S
  PROVE  M!Total(S) = SumFunctionOnSet(Selling, S)
BY DEF M!Total, M!SumFunctionOnSet, M!FoldFunctionOnSet, M!MapThenFoldSet,
       SumFunctionOnSet, FoldFunctionOnSet, MapThenFoldSet

LEMMA MLess ==
  ASSUME NEW S, S \subseteq Orders, NEW T, T \subseteq S
  PROVE  M!Total(T) <= M!Total(S) /\ M!Total(S) \in Nat /\ M!Total(T) \in Nat
<1>1. IsFiniteSet(S) /\ IsFiniteSet(T)
  BY FS_Subset, PositionAssumption
<1>2. \A o \in S : Selling[o] \in Nat
  BY PositionAssumption
<1>3. SumFunctionOnSet(Selling, T) <= SumFunctionOnSet(Selling, S)
  BY <1>1, <1>2, SumOfPart
<1>4. SumFunctionOnSet(Selling, S) \in Nat /\ SumFunctionOnSet(Selling, T) \in Nat
  BY <1>1, <1>2, SumType
<1> QED
  BY <1>3, <1>4, MSums

LEMMA MAdds ==
  ASSUME NEW S, S \subseteq Orders, NEW o \in Orders, o \notin S
  PROVE  M!Total(S \cup {o}) = M!Total(S) + Selling[o]
<1>1. IsFiniteSet(S)
  BY FS_Subset, PositionAssumption
<1>2. \A p \in S \cup {o} : Selling[p] \in Nat
  BY PositionAssumption
<1>3. SumFunctionOnSet(Selling, S \cup {o}) = Selling[o] + SumFunctionOnSet(Selling, S)
  BY <1>1, <1>2, SumAdd
<1>4. SumFunctionOnSet(Selling, S) \in Nat
  BY <1>1, <1>2, SumType
<1> QED
  BY <1>2, <1>3, <1>4, MSums

LEMMA MInitInv ==
  ASSUME M!Init
  PROVE  MInv
<1>1. PICK o \in Orders, b \in ConfirmButtons :
        /\ button = [x \in ConfirmButtons |-> [is |-> "unissued", order |-> o]]
        /\ call = [c \in Taps |-> [at |-> "idle", order |-> o, button |-> b, read |-> 0]]
  BY DEF M!Init
<1>2. intent = [p \in Orders |-> "NONE"] /\ sent = [p \in Orders |-> 0] /\ balance = Holding
  BY DEF M!Init
<1>3. 0 \in 0 .. Holding /\ Holding \in 0 .. Holding /\ "idle" \in M!Awaits
  BY PositionAssumption DEF M!Awaits
<1>4. MShape
  BY <1>1, <1>2, <1>3 DEF MShape, MStates, MButtonType, MCallType
<1>5. MCallInv
  BY <1>1 DEF MCallInv, MWinning
<1>6. /\ 0 <= 1 /\ 0 # 1
      /\ \A p \in Orders : sent[p] = 0
  BY <1>2
<1>7. M!SellOnce
  BY <1>6 DEF M!SellOnce
<1>8. M!Reserved(intent) = {}
  BY <1>2 DEF M!Reserved, M!Active
<1>9. M!Total({}) = 0
  BY FS_EmptySet, SumType, MSums
<1>10. MPositionInv
  BY <1>8, <1>9, PositionAssumption DEF MPositionInv
<1> QED
  BY <1>4, <1>5, <1>7, <1>10 DEF MInv

\* A tap that moves on, or ends, with its order and its button.
MMoves(c, to) ==
  /\ call' \in MCallType
  /\ call'[c].at = to /\ call'[c].order = call[c].order
  /\ \A d \in Taps : d # c => call'[d] = call[d]

LEMMA MToMoves ==
  ASSUME MShape, NEW c \in Taps, NEW to \in M!Awaits, M!To(c, to)
  PROVE  MMoves(c, to)
<1>1. 0 \in 0 .. Holding
  BY PositionAssumption
<1> DEFINE moved == [call EXCEPT ![c].at = to]
<1>2. /\ moved \in MCallType /\ moved[c].at = to /\ moved[c].order = call[c].order
      /\ \A d \in Taps : d # c => moved[d] = call[d]
  BY DEF MShape, MCallType
<1>3. call' = [moved EXCEPT ![c].read = 0]
  BY DEF M!To, MShape, MCallType
<1> HIDE DEF moved
<1>4. /\ call' \in MCallType /\ call'[c].at = moved[c].at /\ call'[c].order = moved[c].order
      /\ \A d \in Taps : d # c => call'[d] = moved[d]
  BY <1>1, <1>2, <1>3 DEF MCallType
<1> QED
  BY <1>2, <1>4 DEF MMoves

LEMMA MAwaiting ==
  /\ "idle" \in M!Awaits /\ "event" \in M!Awaits /\ "prepare" \in M!Awaits /\ "prepared" \in M!Awaits
  /\ "balance" \in M!Awaits /\ "signing" \in M!Awaits /\ "signed" \in M!Awaits /\ "submitted" \in M!Awaits
BY DEF M!Awaits

\* A tap that claims nothing: it is where it was, goes from signing to signed, or is not among the winning.
MClaimsNothing(c) ==
  call'[c].at \in MWinning =>
    /\ call[c].at \in MWinning /\ call'[c].order = call[c].order
    /\ call'[c].at = "submitted" <=> call[c].at = "submitted"

\* A step that leaves claimed orders alone keeps the promises about broadcasts.
LEMMA MQuiet ==
  ASSUME MInv, MShape', UNCHANGED sent, \A c \in Taps : MClaimsNothing(c),
         \A o \in Orders : intent[o] \in {"SIGNING", "SUBMITTED"} => intent'[o] = intent[o]
  PROVE  M!SellOnce' /\ MCallInv'
<1>1. M!SellOnce'
  BY DEF MInv, M!SellOnce
<1>2. \A c \in Taps : call[c].order \in Orders /\ call[c].at \in M!Awaits /\ call'[c].at \in M!Awaits
  BY DEF MInv, MShape, MCallType
<1>3. ASSUME NEW c \in Taps, call'[c].at \in {"signing", "signed"}
      PROVE  intent'[call'[c].order] = "SIGNING" /\ sent'[call'[c].order] = 0
  BY <1>2, <1>3 DEF MInv, MCallInv, MClaimsNothing, MWinning
<1>4. ASSUME NEW c \in Taps, call'[c].at = "submitted"
      PROVE  sent'[call'[c].order] = 1
  BY <1>2, <1>4 DEF MInv, MCallInv, MClaimsNothing, MWinning
<1>5. ASSUME NEW c \in Taps, NEW d \in Taps, c # d, call'[c].at \in MWinning, call'[d].at \in MWinning
      PROVE  call'[c].order # call'[d].order
  BY <1>5 DEF MInv, MCallInv, MClaimsNothing
<1> QED
  BY <1>1, <1>3, <1>4, <1>5 DEF MCallInv

\* A step after which no more is reserved than before keeps the position.
LEMMA MNoMore ==
  ASSUME MInv, M!Reserved(intent)' \subseteq M!Reserved(intent)
  PROVE  MPositionInv'
<1>1. M!Reserved(intent) \subseteq Orders
  BY DEF M!Reserved
<1>2. M!Total(M!Reserved(intent)') <= M!Total(M!Reserved(intent)) /\ M!Total(M!Reserved(intent)) \in Nat
      /\ M!Total(M!Reserved(intent)') \in Nat
  BY <1>1, MLess
<1>3. MPositionInv' <=> M!Total(M!Reserved(intent)') <= Holding
  BY DEF MPositionInv, M!Total
<1> QED
  BY <1>2, <1>3, PositionAssumption DEF MInv, MPositionInv

\* A step that leaves the orders alone.
LEMMA MTapsOnly ==
  ASSUME MInv, MShape', UNCHANGED <<intent, sent>>, \A c \in Taps : MClaimsNothing(c)
  PROVE  MInv'
<1>1. M!SellOnce' /\ MCallInv'
  BY MQuiet
<1>2. MPositionInv'
  BY MNoMore DEF M!Reserved
<1> QED
  BY <1>1, <1>2 DEF MInv

\* A tap that moves to an await which promises nothing of its order.
LEMMA MMovesOn ==
  ASSUME MInv, NEW c \in Taps, NEW to, MMoves(c, to),
         to \notin MWinning \/ (call[c].at = "signing" /\ to = "signed")
  PROVE  \A d \in Taps : MClaimsNothing(d)
BY DEF MMoves, MClaimsNothing, MWinning

LEMMA MSameMoves ==
  ASSUME UNCHANGED call
  PROVE  \A d \in Taps : MClaimsNothing(d)
BY DEF MClaimsNothing

LEMMA MQuietTaps ==
  ASSUME MInv, NEW c \in Taps,
         M!OpenSignal(c) \/ M!ConsumeSignal(c) \/ M!Prepare(c) \/ M!Sign(c)
  PROVE  MInv'
<1>1. UNCHANGED <<intent, button, sent, balance>>
  BY DEF M!OpenSignal, M!ConsumeSignal, M!Prepare, M!Sign, M!Moves, M!Outside
<1>2. MShape
  BY DEF MInv
<1>3. ASSUME NEW to, MMoves(c, to), to \notin MWinning \/ (call[c].at = "signing" /\ to = "signed")
      PROVE  MInv'
  <2>1. MShape'
    BY <1>1, <1>2, <1>3 DEF MShape, MMoves
  <2> QED
    BY <1>1, <1>3, <2>1, MMovesOn, MTapsOnly
<1>4. CASE M!OpenSignal(c)
  <2>1. MMoves(c, "event")
    BY <1>2, <1>4, MToMoves, MAwaiting DEF M!OpenSignal
  <2> QED
    BY <1>3, <2>1 DEF MWinning
<1>5. CASE M!ConsumeSignal(c)
  <2>1. PICK to \in {"idle", "prepare"} : M!To(c, to)
    BY <1>5 DEF M!ConsumeSignal, M!Moves
  <2>2. MMoves(c, to)
    BY <1>2, <2>1, MToMoves, MAwaiting
  <2> QED
    BY <1>3, <2>2 DEF MWinning
<1>6. CASE M!Sign(c)
  <2>1. PICK to \in {"idle", "signed"} : M!To(c, to) /\ call[c].at = "signing"
    BY <1>6 DEF M!Sign, M!Moves, M!At
  <2>2. MMoves(c, to)
    BY <1>2, <2>1, MToMoves, MAwaiting
  <2> QED
    BY <1>3, <2>1, <2>2 DEF MWinning
<1>7. CASE M!Prepare(c)
  <2>1. PICK o \in Orders : call' = [call EXCEPT ![c] = [@ EXCEPT !.at = "prepared", !.order = o, !.read = balance]]
    BY <1>7 DEF M!Prepare
  <2>2. /\ call' \in MCallType /\ call'[c].at = "prepared"
        /\ \A d \in Taps : d # c => call'[d] = call[d]
    BY <1>2, <2>1, MAwaiting DEF MShape, MCallType
  <2>3. MShape'
    BY <1>1, <1>2, <2>2 DEF MShape
  <2>4. \A d \in Taps : MClaimsNothing(d)
    BY <2>2 DEF MClaimsNothing, MWinning
  <2> QED
    BY <1>1, <2>3, <2>4, MTapsOnly
<1> QED
  BY <1>4, <1>5, <1>6, <1>7

\* The clock, the chain, the user's other dealings, and a restart.
LEMMA MOutsideInv ==
  ASSUME MInv, M!Lapse \/ M!Mine \/ M!Withdraw \/ M!Restart
  PROVE  MInv'
<1>1. MShape /\ UNCHANGED <<intent, sent>> /\ balance \in 0 .. Holding
  BY DEF MInv, MShape, M!Lapse, M!Mine, M!Withdraw, M!Restart
<1>2. CASE M!Lapse \/ M!Mine \/ M!Withdraw
  <2>1. UNCHANGED <<call, button>>
    BY <1>2 DEF M!Lapse, M!Mine, M!Withdraw
  <2>2. balance' \in 0 .. Holding
    <3>1. CASE M!Lapse
      BY <1>1, <3>1 DEF M!Lapse
    <3>2. CASE M!Mine
      <4>1. PICK o \in Orders : Selling[o] <= balance /\ balance' = balance - Selling[o]
        BY <3>2 DEF M!Mine
      <4> QED
        BY <1>1, <4>1, PositionAssumption
    <3>3. CASE M!Withdraw
      BY <1>1, <3>3, PositionAssumption DEF M!Withdraw
    <3> QED
      BY <1>2, <3>1, <3>2, <3>3
  <2>3. MShape'
    BY <1>1, <2>1, <2>2 DEF MShape
  <2> QED
    BY <1>1, <2>1, <2>3, MSameMoves, MTapsOnly
<1>3. CASE M!Restart
  <2>1. /\ call' = [c \in Taps |-> [call[c] EXCEPT !.at = "idle", !.read = 0]]
        /\ button' = [b \in ConfirmButtons |-> [button[b] EXCEPT !.is = IF @ = "pending" THEN "used" ELSE @]]
        /\ UNCHANGED balance
    BY <1>3 DEF M!Restart, M!Outside
  <2>2. call' \in MCallType /\ \A c \in Taps : call'[c].at = "idle"
    <3>1. 0 \in 0 .. Holding
      BY PositionAssumption
    <3> QED
      BY <1>1, <2>1, <3>1, MAwaiting DEF MShape, MCallType
  <2>3. button' \in MButtonType
    BY <1>1, <2>1 DEF MShape, MButtonType
  <2>4. MShape'
    BY <1>1, <2>1, <2>2, <2>3 DEF MShape
  <2>5. \A c \in Taps : MClaimsNothing(c)
    BY <2>2 DEF MClaimsNothing, MWinning
  <2> QED
    BY <1>1, <2>4, <2>5, MTapsOnly
<1> QED
  BY <1>2, <1>3

\* What the sweep expires was awaited, and it frees only.
LEMMA MSwept ==
  ASSUME MShape
  PROVE  /\ M!Swept \in [Orders -> MStates]
         /\ \A o \in Orders : M!Swept[o] = intent[o] \/ (intent[o] = "AWAITING_CONFIRMATION" /\ M!Swept[o] = "EXPIRED")
         /\ M!Reserved(M!Swept) \subseteq M!Reserved(intent)
BY DEF MShape, M!Swept, M!Reserved, MStates, M!Active

LEMMA MCreateInv ==
  ASSUME MInv, NEW c \in Taps, M!Create(c)
  PROVE  MInv'
<1> DEFINE o == call[c].order
<1>1. /\ MShape /\ o \in Orders /\ UNCHANGED <<sent, balance>> /\ call[c].read \in 0 .. Holding
      /\ Selling[o] \in Nat
  BY PositionAssumption DEF MInv, MShape, MCallType, M!Create, M!Outside
<1>2. MMoves(c, "idle")
  BY <1>1, MToMoves, MAwaiting DEF M!Create
<1>3. \A d \in Taps : MClaimsNothing(d)
  BY <1>2, MMovesOn DEF MWinning
<1>4. button' \in MButtonType
  <2>1. \/ UNCHANGED button
        \/ \E b \in ConfirmButtons : button' = [button EXCEPT ![b] = [is |-> "pending", order |-> o]]
    BY DEF M!Create
  <2> QED
    BY <1>1, <2>1 DEF MShape, MButtonType
<1>5. ASSUME intent' \in [Orders -> MStates],
             \A p \in Orders : intent[p] \in {"SIGNING", "SUBMITTED"} => intent'[p] = intent[p],
             MPositionInv'
      PROVE  MInv'
  <2>1. MShape'
    BY <1>1, <1>2, <1>4, <1>5 DEF MShape, MMoves
  <2>2. M!SellOnce' /\ MCallInv'
    BY <1>1, <1>3, <1>5, <2>1, MQuiet
  <2> QED
    BY <1>5, <2>1, <2>2 DEF MInv
<1>6. CASE UNCHANGED intent
  <2>1. MPositionInv'
    BY <1>6, MNoMore DEF M!Reserved
  <2> QED
    BY <1>1, <1>5, <1>6, <2>1 DEF MShape
<1>7. CASE intent' = M!Swept
  <2>1. M!Reserved(intent)' \subseteq M!Reserved(intent)
    BY <1>1, <1>7, MSwept DEF M!Reserved
  <2>2. MPositionInv'
    BY <2>1, MNoMore
  <2> QED
    BY <1>1, <1>5, <1>7, <2>2, MSwept
<1>8. CASE /\ M!Swept[o] = "NONE" /\ ~(M!Total(M!Reserved(M!Swept)) + Selling[o] > call[c].read)
           /\ intent' = [M!Swept EXCEPT ![o] = "AWAITING_CONFIRMATION"]
  <2> DEFINE S == M!Reserved(M!Swept)
  <2>1. S \subseteq Orders /\ o \notin S
    BY <1>8 DEF M!Reserved, M!Active
  <2>2. M!Reserved(intent)' = S \cup {o}
    BY <1>1, <1>8, MSwept DEF M!Reserved, M!Active
  <2>3. M!Total(S \cup {o}) = M!Total(S) + Selling[o] /\ M!Total(S) \in Nat
    <3> HIDE DEF S
    <3> QED
      BY <1>1, <2>1, MAdds, MLess
  <2>4. M!Total(S) + Selling[o] <= Holding
    BY <1>1, <1>8, <2>3, PositionAssumption
  <2>5. MPositionInv' <=> M!Total(M!Reserved(intent)') <= Holding
    BY DEF MPositionInv, M!Total
  <2>6. MPositionInv'
    BY <2>2, <2>3, <2>4, <2>5
  <2>7. intent' \in [Orders -> MStates]
    BY <1>1, <1>8, MSwept DEF MStates, M!Active
  <2>8. \A p \in Orders : intent[p] \in {"SIGNING", "SUBMITTED"} => intent'[p] = intent[p]
    BY <1>1, <1>8, MSwept
  <2> QED
    BY <1>5, <2>6, <2>7, <2>8
<1> QED
  BY <1>6, <1>7, <1>8 DEF M!Create

LEMMA MConfirmInv ==
  ASSUME MInv, NEW c \in Taps, M!Confirm(c)
  PROVE  MInv'
<1>1. PICK b \in ConfirmButtons :
        /\ \/ M!Expire(button[b].order) /\ UNCHANGED call
           \/ /\ call' = [call EXCEPT ![c] = [at |-> "balance", order |-> button[b].order, button |-> b, read |-> 0]]
              /\ UNCHANGED intent
        /\ UNCHANGED <<balance, button, sent>>
  BY DEF M!Confirm, M!Outside
<1>2. MShape /\ button[b].order \in Orders /\ 0 \in 0 .. Holding
  BY PositionAssumption DEF MInv, MShape, MButtonType
<1>3. CASE M!Expire(button[b].order) /\ UNCHANGED call
  <2>1. /\ intent' \in [Orders -> MStates]
        /\ \A p \in Orders : \/ intent'[p] = intent[p]
                             \/ intent[p] = "AWAITING_CONFIRMATION" /\ intent'[p] = "EXPIRED"
    BY <1>2, <1>3 DEF M!Expire, MShape, MStates
  <2>2. MShape'
    BY <1>1, <1>2, <1>3, <2>1 DEF MShape
  <2>3. \A p \in Orders : intent[p] \in {"SIGNING", "SUBMITTED"} => intent'[p] = intent[p]
    BY <2>1
  <2>4. M!SellOnce' /\ MCallInv'
    BY <1>1, <1>3, <2>2, <2>3, MSameMoves, MQuiet
  <2>5. M!Reserved(intent)' \subseteq M!Reserved(intent)
    BY <2>1 DEF M!Reserved, M!Active
  <2> QED
    BY <2>2, <2>4, <2>5, MNoMore DEF MInv
<1>4. CASE /\ call' = [call EXCEPT ![c] = [at |-> "balance", order |-> button[b].order, button |-> b, read |-> 0]]
           /\ UNCHANGED intent
  <2>1. /\ call' \in MCallType /\ call'[c].at = "balance"
        /\ \A d \in Taps : d # c => call'[d] = call[d]
    BY <1>2, <1>4, MAwaiting DEF MShape, MCallType
  <2>2. MShape'
    BY <1>1, <1>2, <1>4, <2>1 DEF MShape
  <2>3. \A d \in Taps : MClaimsNothing(d)
    BY <2>1 DEF MClaimsNothing, MWinning
  <2> QED
    BY <1>1, <1>4, <2>2, <2>3, MTapsOnly
<1> QED
  BY <1>1, <1>3, <1>4

\* The claim finds the order awaited, so nobody has claimed it before.
LEMMA MClaimInv ==
  ASSUME MInv, NEW c \in Taps, M!ConsumeAndClaim(c)
  PROVE  MInv'
<1> DEFINE o == call[c].order
<1>1. MShape /\ o \in Orders /\ call[c].button \in ConfirmButtons /\ UNCHANGED <<sent, balance>>
  BY DEF MInv, MShape, MCallType, M!ConsumeAndClaim, M!Moves, M!Outside
<1>2. button' \in MButtonType
  <2>1. UNCHANGED button \/ button' = [button EXCEPT ![call[c].button].is = "used"]
    BY DEF M!ConsumeAndClaim, M!Moves
  <2> QED
    BY <1>1, <2>1 DEF MShape, MButtonType
<1>3. CASE M!To(c, "idle") /\ UNCHANGED intent
  <2>1. MMoves(c, "idle")
    BY <1>1, <1>3, MToMoves, MAwaiting
  <2>2. MShape'
    BY <1>1, <1>2, <1>3, <2>1 DEF MShape, MMoves
  <2>3. \A d \in Taps : MClaimsNothing(d)
    BY <2>1, MMovesOn DEF MWinning
  <2> QED
    BY <1>1, <1>3, <2>2, <2>3, MTapsOnly
<1>4. CASE M!Claimable(o) /\ M!To(c, "signing") /\ intent' = [intent EXCEPT ![o] = "SIGNING"]
  <2>1. MMoves(c, "signing")
    BY <1>1, <1>4, MToMoves, MAwaiting
  <2>2. /\ intent' \in [Orders -> MStates] /\ intent'[o] = "SIGNING" /\ intent[o] = "AWAITING_CONFIRMATION"
        /\ \A p \in Orders : p # o => intent'[p] = intent[p]
    BY <1>1, <1>4 DEF MShape, MStates, M!Active, M!Claimable
  <2>3. MShape'
    BY <1>1, <1>2, <2>1, <2>2 DEF MShape, MMoves
  <2>4. sent[o] = 0
    BY <1>1, <2>2 DEF MInv, MShape, M!SellOnce
  <2>5. M!SellOnce'
    BY <1>1, <2>2 DEF MInv, M!SellOnce
  <2>6. \A d \in Taps : call[d].at \in MWinning => call[d].order # o
    BY <1>1, <2>2, <2>4 DEF MInv, MCallInv, MWinning
  <2>7. \A d \in Taps : call[d].order \in Orders
    BY <1>1 DEF MShape, MCallType
  <2>8. MCallInv'
    BY <1>1, <2>1, <2>2, <2>4, <2>6, <2>7 DEF MInv, MCallInv, MMoves, MWinning
  <2>9. M!Reserved(intent)' \subseteq M!Reserved(intent)
    BY <2>2 DEF M!Reserved, M!Active
  <2> QED
    BY <2>3, <2>5, <2>8, <2>9, MNoMore DEF MInv
<1> QED
  BY <1>3, <1>4 DEF M!ConsumeAndClaim, M!Moves

LEMMA MSubmitInv ==
  ASSUME MInv, NEW c \in Taps, M!Submit(c)
  PROVE  MInv'
<1> DEFINE o == call[c].order
<1>1. PICK to \in {"submitted", "idle"} :
        /\ call[c].at = "signed" /\ M!To(c, to) /\ UNCHANGED <<intent, button, balance>>
        /\ sent' \in {sent, [sent EXCEPT ![o] = @ + 1]}
        /\ to = "submitted" => sent' = [sent EXCEPT ![o] = @ + 1]
  BY DEF M!Submit, M!Moves, M!At, M!Outside
<1>2. MShape /\ o \in Orders /\ sent[o] = 0 /\ intent[o] = "SIGNING"
  BY <1>1 DEF MInv, MShape, MCallType, MCallInv
<1>3. MMoves(c, to)
  BY <1>1, <1>2, MToMoves, MAwaiting
<1>4. /\ sent' \in [Orders -> Nat] /\ sent'[o] \in {0, 1} /\ (to = "submitted" => sent'[o] = 1)
      /\ \A p \in Orders : p # o => sent'[p] = sent[p]
  BY <1>1, <1>2 DEF MShape
<1>5. MShape'
  BY <1>1, <1>2, <1>3, <1>4 DEF MShape, MMoves
<1>6. M!SellOnce'
  BY <1>1, <1>2, <1>4 DEF MInv, M!SellOnce
<1>7. \A d \in Taps : d # c /\ call[d].at \in MWinning => call[d].order # o
  BY <1>1 DEF MInv, MCallInv, MWinning
<1>8. \A d \in Taps : call[d].order \in Orders
  BY <1>2 DEF MShape, MCallType
<1>9. MCallInv'
  BY <1>1, <1>3, <1>4, <1>7, <1>8 DEF MInv, MCallInv, MMoves, MWinning
<1>10. MPositionInv'
  BY <1>1, MNoMore DEF M!Reserved
<1> QED
  BY <1>5, <1>6, <1>9, <1>10 DEF MInv

LEMMA MMarkInv ==
  ASSUME MInv, NEW c \in Taps, M!MarkSubmitted(c)
  PROVE  MInv'
<1> DEFINE o == call[c].order
<1>1. /\ MShape /\ o \in Orders /\ call[c].at = "submitted" /\ M!To(c, "idle") /\ UNCHANGED <<sent, button, balance>>
      /\ intent' = [intent EXCEPT ![o] = IF @ = "SIGNING" THEN "SUBMITTED" ELSE @]
  BY DEF MInv, MShape, MCallType, M!MarkSubmitted, M!At, M!Outside
<1>2. MMoves(c, "idle")
  BY <1>1, MToMoves, MAwaiting
<1>3. /\ intent' \in [Orders -> MStates]
      /\ \A p \in Orders : intent'[p] = intent[p] \/ (p = o /\ intent[p] = "SIGNING" /\ intent'[p] = "SUBMITTED")
  BY <1>1 DEF MShape, MStates, M!Active
<1>4. MShape'
  BY <1>1, <1>2, <1>3 DEF MShape, MMoves
<1>5. M!SellOnce'
  BY <1>1, <1>3 DEF MInv, M!SellOnce
<1>6. \A d \in Taps : d # c /\ call[d].at \in MWinning => call[d].order # o
  BY <1>1 DEF MInv, MCallInv, MWinning
<1>7. \A d \in Taps : call[d].order \in Orders
  BY <1>1 DEF MShape, MCallType
<1>8. MCallInv'
  BY <1>1, <1>2, <1>3, <1>6, <1>7 DEF MInv, MCallInv, MMoves, MWinning
<1>9. M!Reserved(intent)' \subseteq M!Reserved(intent)
  BY <1>3 DEF M!Reserved, M!Active
<1> QED
  BY <1>4, <1>5, <1>8, <1>9, MNoMore DEF MInv

LEMMA MNextInv ==
  ASSUME MInv, [M!Next]_(M!vars)
  PROVE  MInv'
<1>1. CASE UNCHANGED M!vars
  <2>1. UNCHANGED <<intent, button, call, balance, sent>>
    BY <1>1 DEF M!vars
  <2>2. MShape'
    BY <2>1 DEF MInv, MShape
  <2> QED
    BY <2>1, <2>2, MSameMoves, MTapsOnly
<1>2. CASE M!Next
  BY <1>2, MQuietTaps, MOutsideInv, MCreateInv, MConfirmInv, MClaimInv, MSubmitInv, MMarkInv
  DEF M!Next
<1> QED
  BY <1>1, <1>2

LEMMA MSafe ==
  ASSUME MInv
  PROVE  M!SellOnce /\ M!NotOversold
<1>1. {o \in Orders : sent[o] > 0} \subseteq M!Reserved(intent) /\ M!Reserved(intent) \subseteq Orders
  BY DEF MInv, MShape, M!SellOnce, M!Reserved, M!Active
<1>2. M!Total({o \in Orders : sent[o] > 0}) <= M!Total(M!Reserved(intent))
      /\ M!Total(M!Reserved(intent)) \in Nat /\ M!Total({o \in Orders : sent[o] > 0}) \in Nat
  BY <1>1, MLess
<1> QED
  BY <1>2, PositionAssumption DEF MInv, MPositionInv, M!NotOversold

\* A sell is broadcast once however often it is reviewed and tapped, and the sells that reach the network
\* fit into the position: for any number of orders, buttons and taps, with balances that were read long
\* before they are used, intents that expire in between, and restarts.
THEOREM SellsHold == M!Spec => [](M!SellOnce /\ M!NotOversold)
<1>1. M!Init => MInv
  BY MInitInv
<1>2. MInv /\ [M!Next]_(M!vars) => MInv'
  BY MNextInv
<1>3. MInv => M!SellOnce /\ M!NotOversold
  BY MSafe
<1> QED
  BY <1>1, <1>2, <1>3, PTL DEF M!Spec

-----------------------------------------------------------------------------
(***************************************************************************)
(* Referral.                                                               *)
(***************************************************************************)
\* RateAt, of any set of rates.
FDue(rs, of, second)  == {r \in rs : r.of = of /\ r.from <= second}
FRows(rs, u, second) ==
  IF FDue(rs, u, second) # {} THEN FDue(rs, u, second) ELSE FDue(rs, Everyone, second)
FLatest(rows)         == CHOOSE r \in rows : \A s \in rows : s.from <= r.from
FShare(rows)          == IF rows = {} THEN DefaultShare ELSE FLatest(rows).share

LEMMA FRate ==
  ASSUME NEW u, NEW second
  PROVE  F!RateAt(u, second) = FShare(FRows(rates, u, second))
BY DEF F!RateAt, FShare, FRows, FDue, FLatest

LEMMA FRateNext ==
  ASSUME NEW u, NEW second, u' = u, second' = second
  PROVE  F!RateAt(u, second)' = FShare(FRows(rates', u, second))
BY DEF F!RateAt, FShare, FRows, FDue, FLatest

FRateType == [of: Members \cup {Everyone}, share: 0 .. HardCap, from: Nat]

FShape ==
  /\ now \in Nat
  /\ referrer \in [Members -> Members \cup {NoReferrer}]
  /\ rates \subseteq FRateType

\* What an accrual is about: a trade that is over, of a trader who has a referrer.
FAccrualInv ==
  \A a \in accruals :
    /\ a.order \in Fills /\ TradedAt[a.order] < now
    /\ a.to \in Members

FInv == FShape /\ FAccrualInv /\ F!AccruedAtItsRate

-----------------------------------------------------------------------------
\* The latest of some rates is one of them.
LEMMA FLatestIn ==
  ASSUME NEW rows, rows # {}, NEW second \in Nat, \A r \in rows : r.from \in Nat /\ r.from <= second
  PROVE  FLatest(rows) \in rows
<1> DEFINE T == {second - r.from : r \in rows}
<1>1. T \subseteq Nat /\ T # {}
  OBVIOUS
<1>2. PICK n \in T : \A m \in T : n <= m
  BY <1>1, LeastElement
<1>3. PICK r \in rows : n = second - r.from
  BY <1>2
<1>4. \A s \in rows : s.from <= r.from
  <2>1. SUFFICES ASSUME NEW s \in rows PROVE s.from <= r.from
    OBVIOUS
  <2>2. second - r.from <= second - s.from
    BY <1>2, <1>3
  <2> QED
    BY <2>2
<1> QED
  BY <1>4 DEF FLatest

\* A share is within the hard cap.
LEMMA FShareCapped ==
  ASSUME FShape, NEW u, NEW second \in Nat
  PROVE  F!RateAt(u, second) \in 0 .. HardCap
<1> DEFINE rows == FRows(rates, u, second)
<1>1. \A r \in rows : r.from \in Nat /\ r.from <= second /\ r.share \in 0 .. HardCap
  BY DEF FRows, FDue, FShape, FRateType
<1>2. FShare(rows) \in 0 .. HardCap
  <2> HIDE DEF rows
  <2>1. CASE rows = {}
    BY <2>1, RateAssumption DEF FShare
  <2>2. CASE rows # {}
    BY <1>1, <2>2, FLatestIn DEF FShare
  <2> QED
    BY <2>1, <2>2
<1> QED
  BY <1>2, FRate

\* No part of a fee, in basis points, is more than the fee.
LEMMA FWithinFee ==
  ASSUME NEW fee \in Nat, NEW share \in Nat, share <= 10000
  PROVE  (fee * share) \div 10000 <= fee
<1> DEFINE rest == 10000 - share
<1>1. rest \in Nat /\ fee * rest \in Nat
  OBVIOUS
<1>2. fee * share + fee * rest = fee * 10000
  OBVIOUS
<1>3. fee * share \in Nat /\ fee * share <= fee * 10000
  <2>1. fee * share \in Nat
    OBVIOUS
  <2> HIDE DEF rest
  <2> QED
    BY <1>1, <1>2, <2>1
<1>4. ASSUME NEW p \in Nat, p <= fee * 10000 PROVE p \div 10000 <= fee
  <2> DEFINE q == p \div 10000
  <2>1. q \in Int /\ 10000 * q <= p
    OBVIOUS
  <2> HIDE DEF q
  <2> QED
    BY <1>4, <2>1 DEF q
<1> DEFINE times == fee * share
<1> HIDE DEF times
<1> QED
  BY <1>3, <1>4 DEF times

LEMMA FCappedPart ==
  ASSUME NEW o \in Fills, NEW share \in 0 .. HardCap
  PROVE  (Fee[o] * share) \div 10000 <= Fee[o]
<1>1. Fee[o] \in Nat
  BY RateAssumption
<1>2. share \in Nat /\ share <= 10000
  BY RateAssumption
<1> QED
  BY <1>1, <1>2, FWithinFee

-----------------------------------------------------------------------------
LEMMA FInitInv == F!Init => FInv
BY DEF F!Init, FInv, FShape, FAccrualInv, F!AccruedAtItsRate

\* A step that records no fee, invites nobody and overrides nothing.
LEMMA FQuiet ==
  ASSUME FInv, now' \in {now, now + 1}, UNCHANGED <<referrer, rates, accruals>>
  PROVE  FInv'
<1>1. FShape'
  BY DEF FInv, FShape
<1>2. FAccrualInv'
  BY RateAssumption DEF FInv, FShape, FAccrualInv
<1>3. F!AccruedAtItsRate'
  BY DEF FInv, F!AccruedAtItsRate, F!RateAt
<1> QED
  BY <1>1, <1>2, <1>3 DEF FInv

\* Who is invited had no referrer, so nothing was accrued for his trades.
LEMMA FBindInv ==
  ASSUME FInv, NEW u \in Members, NEW owner \in Members, F!Bind(u, owner)
  PROVE  FInv'
<1>1. /\ referrer[u] = NoReferrer /\ referrer' = [referrer EXCEPT ![u] = owner]
      /\ UNCHANGED <<now, rates, accruals>> /\ FShape
  BY DEF F!Bind, FInv
<1>2. FShape' /\ FAccrualInv'
  BY <1>1 DEF FInv, FShape, FAccrualInv
<1>3. ASSUME NEW a \in accruals
      PROVE  Trader[a.order] \in Members /\ Trader[a.order] # u
  BY <1>1, RateAssumption DEF FInv, FAccrualInv, F!AccruedAtItsRate
<1>4. \A a \in accruals : referrer'[Trader[a.order]] = referrer[Trader[a.order]]
  BY <1>1, <1>3 DEF FShape
<1>5. F!AccruedAtItsRate'
  BY <1>1, <1>4 DEF FInv, F!AccruedAtItsRate, F!RateAt
<1> QED
  BY <1>2, <1>5 DEF FInv

\* An override starts now or later, so it is not in force at the second of a trade that is over.
LEMMA FOverrideInv ==
  ASSUME FInv, NEW u \in Members \cup {Everyone}, NEW share \in Shares,
         NEW from \in 0 .. LastSecond, F!SetOverride(u, share, from)
  PROVE  FInv'
<1> DEFINE r == [of |-> u, share |-> share, from |-> from]
<1>1. /\ share <= HardCap /\ from >= now /\ rates' = rates \cup {r}
      /\ UNCHANGED <<now, referrer, accruals>> /\ FShape
  BY DEF F!SetOverride, F!MayReceive, F!MayStart, FInv
<1>2. r \in FRateType
  BY <1>1, RateAssumption DEF FRateType
<1>3. FShape' /\ FAccrualInv'
  BY <1>1, <1>2 DEF FInv, FShape, FAccrualInv
<1>4. ASSUME NEW a \in accruals
      PROVE  F!RateAt(a.to, TradedAt[a.order])' = F!RateAt(a.to, TradedAt[a.order])
  <2> DEFINE second == TradedAt[a.order]
  <2>1. second \in Nat /\ second < now /\ now \in Nat /\ from \in Int
    BY <1>1, RateAssumption DEF FInv, FShape, FAccrualInv
  <2>2. ~(r.from <= second)
    <3> HIDE DEF second
    <3> QED
      BY <1>1, <2>1
  <2>3. \A of : FDue(rates', of, second) = FDue(rates, of, second)
    BY <1>1, <2>2 DEF FDue
  <2>4. FRows(rates', a.to, second) = FRows(rates, a.to, second)
    BY <2>3 DEF FRows
  <2> QED
    BY <2>4, FRate, FRateNext
<1>5. F!AccruedAtItsRate'
  BY <1>1, <1>4 DEF FInv, F!AccruedAtItsRate
<1> QED
  BY <1>3, <1>5 DEF FInv

LEMMA FRecordInv ==
  ASSUME FInv, NEW o \in Fills, F!RecordFinalizedFee(o)
  PROVE  FInv'
<1>1. UNCHANGED <<now, referrer, rates>> /\ TradedAt[o] < now /\ FShape
  BY DEF F!RecordFinalizedFee, FInv
<1>2. CASE UNCHANGED accruals
  BY <1>1, <1>2, FQuiet
<1>3. ASSUME F!Rewarded(o),
             accruals' = accruals \cup {[order |-> o, to |-> referrer[Trader[o]], share |-> F!ShareOf(o),
                                         amount |-> (Fee[o] * F!ShareOf(o)) \div 10000]}
      PROVE  FInv'
  <2> DEFINE a == [order |-> o, to |-> referrer[Trader[o]], share |-> F!ShareOf(o),
                   amount |-> (Fee[o] * F!ShareOf(o)) \div 10000]
  <2>1. a.to \in Members /\ a.order = o /\ a.to = referrer[Trader[a.order]]
    BY <1>1, <1>3, RateAssumption DEF F!Rewarded, FShape
  <2>2. a.share = F!RateAt(a.to, TradedAt[a.order])
    BY DEF F!ShareOf
  <2>3. F!ShareOf(o) \in 0 .. HardCap
    BY <1>1, FShareCapped, RateAssumption DEF F!ShareOf
  <2>4. a.amount <= Fee[a.order]
    <3>1. (Fee[o] * F!ShareOf(o)) \div 10000 <= Fee[o]
      <4> HIDE DEF a
      <4> QED
        BY <2>3, FCappedPart
    <3> QED
      BY <3>1
  <2>5. \A b \in accruals' : b \in accruals \/ b = a
    BY <1>3
  <2> HIDE DEF a
  <2>6. FShape' /\ FAccrualInv'
    BY <1>1, <2>1, <2>5 DEF FInv, FShape, FAccrualInv
  <2>7. \A b : F!RateAt(b.to, TradedAt[b.order])' = F!RateAt(b.to, TradedAt[b.order])
    BY <1>1 DEF F!RateAt
  <2>8. F!AccruedAtItsRate'
    BY <1>1, <2>1, <2>2, <2>4, <2>5, <2>7 DEF FInv, F!AccruedAtItsRate
  <2> QED
    BY <2>6, <2>8 DEF FInv
<1> QED
  BY <1>2, <1>3 DEF F!RecordFinalizedFee

LEMMA FNextInv ==
  ASSUME FInv, [F!Next]_(F!vars)
  PROVE  FInv'
<1>1. CASE UNCHANGED F!vars
  BY <1>1, FQuiet DEF F!vars
<1>2. CASE F!Tick
  BY <1>2, FQuiet DEF F!Tick
<1>3. ASSUME NEW u \in Members, F!CreateCode(u) \/ \E amount \in Payouts : F!PreparePayout(u, amount)
      PROVE  FInv'
  BY <1>3, FQuiet DEF F!CreateCode, F!PreparePayout
<1> QED
  BY <1>1, <1>2, <1>3, FBindInv, FOverrideInv, FRecordInv DEF F!Next

\* An accrual is what the rates say of the second of the trade, and stays so: for any users, orders,
\* overrides and interleaving of them with binding, recording and a crash between a fee and its accrual.
THEOREM AccrualsHold == F!Spec => []F!AccruedAtItsRate
<1>1. F!Init => FInv
  BY FInitInv
<1>2. FInv /\ [F!Next]_(F!vars) => FInv'
  BY FNextInv
<1>3. FInv => F!AccruedAtItsRate
  BY DEF FInv
<1> QED
  BY <1>1, <1>2, <1>3, PTL DEF F!Spec

-----------------------------------------------------------------------------
(***************************************************************************)
(* CurveBuys.                                                              *)
(***************************************************************************)
BLimitType == [perTrade: Nat, daily: Nat, slippage: Nat, active: BOOLEAN, paused: BOOLEAN]

\* The parts of the state the two promises depend on.
BShape ==
  /\ curve \in [quote: Nat \ {0}, token: Int, live: BOOLEAN]
  /\ order = [u \in Buyers |-> order[u]]
  /\ \A u \in Buyers : order[u].amount \in Int
  /\ limits \in [Buyers -> BLimitType] /\ \A u \in Buyers : limits[u].slippage <= 10000
  /\ spend \in [Buyers -> [day: Nat, amount: Nat]] /\ day \in Days
  /\ paid \in [Buyers -> [Days -> Nat]] /\ allowed \in [Buyers -> Nat]

\* An order carries the minimum that the rule's slippage leaves of what the curve it was quoted at gives.
BOrderInv ==
  \A u \in Buyers : order[u] # B!NoOrder =>
    /\ B!Expected(order[u].amount, order[u].at) \in Nat
    /\ B!Expected(order[u].amount, order[u].at) <= order[u].at.token - Unsold
    /\ order[u].min = B!MinimumOutput(B!Expected(order[u].amount, order[u].at), Rule[u].slippage)

\* Nothing was paid after the day last recorded; what was paid then is recorded; and nothing exceeds
\* the largest limit.
BPaidInv ==
  /\ B!PaidIsRecorded
  /\ \A u \in Buyers :
       /\ spend[u].day <= day /\ limits[u].daily <= allowed[u]
       /\ \A d \in Days : d > spend[u].day => paid[u][d] = 0

BInv == BShape /\ BOrderInv /\ BPaidInv

-----------------------------------------------------------------------------
\* What rounding down a part of something does.
LEMMA BPartGrows ==
  ASSUME NEW e \in Nat, NEW r \in Nat, NEW s \in Nat, r <= s, s <= 10000
  PROVE  (e * s) \div 10000 \in Nat /\ (e * r) \div 10000 \in Nat /\ (e * r) \div 10000 <= (e * s) \div 10000
<1> DEFINE more == s - r
<1>1. more \in Nat /\ s = r + more
  OBVIOUS
<1>2. e * r \in Nat /\ e * more \in Nat /\ e * s \in Nat /\ e * s = e * r + e * more
  <2> HIDE DEF more
  <2> QED
    BY <1>1
<1>3. ASSUME NEW p \in Nat, NEW q \in Nat, p <= q
      PROVE  p \div 10000 \in Nat /\ q \div 10000 \in Nat /\ p \div 10000 <= q \div 10000
  BY <1>3
<1> DEFINE little == e * r  much == e * s  rest == e * more
<1>4. little \in Nat /\ much \in Nat /\ little <= much
  <2>1. little \in Nat /\ much \in Nat /\ rest \in Nat /\ much = little + rest
    BY <1>2
  <2> HIDE DEF little, much, rest
  <2> QED
    BY <2>1
<1> HIDE DEF little, much
<1> QED
  BY <1>3, <1>4 DEF little, much

LEMMA BWhole ==
  ASSUME NEW e \in Nat
  PROVE  (e * 10000) \div 10000 = e
OBVIOUS

\* The contract's window for the minimum holds the quote engine's minimum.
LEMMA BMinimumFits ==
  ASSUME NEW e \in Nat, NEW r \in Nat, NEW s \in Nat, r <= s, s <= 10000
  PROVE  B!MinimumOutput(e, r) \in (e * (10000 - s)) \div 10000 .. e
<1> DEFINE a == 10000 - r  b == 10000 - s
<1>1. a \in Nat /\ b \in Nat /\ b <= a /\ a <= 10000
  OBVIOUS
<1> HIDE DEF a, b
<1>2. /\ (e * a) \div 10000 \in Nat /\ (e * b) \div 10000 \in Nat
      /\ (e * b) \div 10000 <= (e * a) \div 10000
  BY <1>1, BPartGrows
<1>3. (e * a) \div 10000 <= e
  BY <1>1, BPartGrows, BWhole
<1> QED
  BY <1>2, <1>3 DEF B!MinimumOutput, B!BPS, a, b

\* What goes into the curve is an amount, and so is what comes out.
LEMMA BNet ==
  ASSUME NEW amount \in Int
  PROVE  B!NetInput(amount) \in Int /\ (amount >= 0 => B!NetInput(amount) >= 0)
<1>1. 10000 - FeeAndTax \in Nat
  BY BuysAssumption
<1> DEFINE k == 10000 - FeeAndTax
<1> HIDE DEF k
<1>2. amount * k \in Int /\ (amount >= 0 => amount * k >= 0)
  BY <1>1 DEF k
<1> DEFINE p == amount * k
<1> HIDE DEF p
<1>3. p \div 10000 \in Int /\ (p >= 0 => p \div 10000 >= 0)
  BY <1>2 DEF p
<1> QED
  BY <1>2, <1>3 DEF p, k, B!NetInput, B!BPS

LEMMA BOut ==
  ASSUME NEW net \in Nat, NEW c, c.quote \in Nat \ {0}, c.token \in Int
  PROVE  B!Output(net, c) \in Int
<1>1. net * c.token \in Int /\ c.quote + net \in Int /\ c.quote + net > 0
  OBVIOUS
<1> DEFINE p == net * c.token  q == c.quote + net
<1> HIDE DEF p, q
<1>2. p \div q \in Int
  BY <1>1 DEF p, q
<1> QED
  BY <1>2 DEF p, q, B!Output

LEMMA BExpected ==
  ASSUME NEW amount \in Nat, NEW c, c.quote \in Nat \ {0}, c.token \in Int
  PROVE  B!Expected(amount, c) \in Int
<1>1. B!NetInput(amount) \in Nat
  BY BNet
<1> QED
  BY <1>1, BOut DEF B!Expected

\* The smallest of three integers is one of them.
LEMMA BSmallest ==
  ASSUME NEW a \in Int, NEW b \in Int, NEW c \in Int
  PROVE  B!Smallest({a, b, c}) \in Int
<1>1. \E x \in {a, b, c} : \A y \in {a, b, c} : x <= y
  <2>1. CASE a <= b /\ a <= c
    BY <2>1
  <2>2. CASE b <= a /\ b <= c
    BY <2>2
  <2>3. CASE c <= a /\ c <= b
    BY <2>3
  <2> QED
    BY <2>1, <2>2, <2>3
<1>2. B!Smallest({a, b, c}) \in {a, b, c}
  BY <1>1 DEF B!Smallest
<1> QED
  BY <1>2

LEMMA BOwnAmount ==
  ASSUME NEW u \in Buyers, NEW source \in Amounts, NEW held \in Balances, NEW used \in UsedToday
  PROVE  B!OwnAmount(Rule[u], source, held, used) \in Int
<1>1. /\ source \in Nat /\ held \in Nat /\ used \in Nat
      /\ Rule[u].policy \in {"FIXED_QUOTE", "SOURCE_RATIO", "BALANCE_PERCENT"}
      /\ Rule[u].value \in Nat /\ Rule[u].perTrade \in Nat /\ Rule[u].perDay \in Nat
  BY BuysAssumption
<1>2. ASSUME NEW a \in Nat, NEW b \in Nat
      PROVE  (a * b) \div 10000 \in Int
  <2>1. a * b \in Nat
    BY <1>2
  <2> DEFINE p == a * b
  <2> HIDE DEF p
  <2>2. p \div 10000 \in Int
    BY <2>1 DEF p
  <2> QED
    BY <2>2 DEF p
<1>3. B!Desired(Rule[u], source, held) \in Int
  BY <1>1, <1>2 DEF B!Desired, B!BPS
<1>4. B!Smallest({B!Desired(Rule[u], source, held), Rule[u].perTrade, Rule[u].perDay - used}) \in Int
  BY <1>1, <1>3, BSmallest
<1> QED
  BY <1>4 DEF B!OwnAmount

-----------------------------------------------------------------------------
LEMMA BInitInv == B!Init => BInv
<1> SUFFICES ASSUME B!Init
             PROVE  BInv
  OBVIOUS
<1>1. BShape
  <2>1. /\ curve \in [quote: Nat \ {0}, token: Int, live: BOOLEAN] /\ day \in Days
        /\ B!NoOrder.amount \in Int /\ B!NoLimits \in BLimitType /\ B!NoLimits.slippage <= 10000
    BY BuysAssumption DEF B!Init, B!NoOrder, B!NoLimits, BLimitType
  <2>2. /\ order = [u \in Buyers |-> B!NoOrder] /\ limits = [u \in Buyers |-> B!NoLimits]
        /\ spend = [u \in Buyers |-> [day |-> 0, amount |-> 0]]
        /\ paid = [u \in Buyers |-> [d \in Days |-> 0]] /\ allowed = [u \in Buyers |-> 0]
    BY DEF B!Init
  <2> QED
    BY <2>1, <2>2 DEF BShape
<1>2. BOrderInv
  BY DEF BOrderInv, B!Init
<1>3. BPaidInv
  <2> SUFFICES ASSUME NEW u \in Buyers
               PROVE  /\ \A d \in Days : paid[u][d] <= allowed[u]
                      /\ spend[u].day \in Days => paid[u][spend[u].day] = spend[u].amount
                      /\ spend[u].day <= day /\ limits[u].daily <= allowed[u]
                      /\ \A d \in Days : d > spend[u].day => paid[u][d] = 0
    BY DEF BPaidInv, B!PaidIsRecorded
  <2> QED
    BY BuysAssumption DEF B!Init, B!NoLimits
<1> QED
  BY <1>1, <1>2, <1>3 DEF BInv

\* What a quote offers is what the order carries.
LEMMA BDispatchInv ==
  ASSUME BInv, NEW u \in Buyers, B!Dispatch(u)
  PROVE  BInv'
<1>1. PICK source \in Amounts, held \in Balances, used \in UsedToday :
        LET amount == B!OwnAmount(Rule[u], source, held, used)
            min    == B!MinimumOutput(B!Expected(amount, curve), Rule[u].slippage)
        IN  /\ B!Quotes(Rule[u], amount, curve) /\ min > 0
            /\ order' = [order EXCEPT ![u] = [amount |-> amount, min |-> min, at |-> curve]]
  BY DEF B!Dispatch
<1> DEFINE amount == B!OwnAmount(Rule[u], source, held, used)
           min    == B!MinimumOutput(B!Expected(amount, curve), Rule[u].slippage)
<1>2. amount \in Int
  BY BOwnAmount
<1>3. UNCHANGED <<curve, halted, limits, spend, day, paid, allowed>>
  BY DEF B!Dispatch
<1>4. PICK a, m : a = amount /\ m = min
  OBVIOUS
<1>5. order' = [order EXCEPT ![u] = [amount |-> a, min |-> m, at |-> curve]]
  BY <1>1, <1>4
<1>6. /\ B!Expected(a, curve) \in Nat /\ B!Expected(a, curve) <= curve.token - Unsold
      /\ m = B!MinimumOutput(B!Expected(a, curve), Rule[u].slippage)
  <2>1. B!Expected(a, curve) \in 1 .. curve.token - Unsold
    BY <1>1, <1>4 DEF B!Quotes
  <2>2. curve.token \in Int /\ Unsold \in Int
    BY BuysAssumption DEF BInv, BShape
  <2> QED
    BY <1>4, <2>1, <2>2
<1> HIDE DEF amount, min
<1>7. BShape'
  BY <1>2, <1>3, <1>4, <1>5 DEF BInv, BShape
<1>8. BOrderInv'
  <2> SUFFICES ASSUME NEW v \in Buyers, order'[v] # B!NoOrder
               PROVE  /\ B!Expected(order'[v].amount, order'[v].at) \in Nat
                      /\ B!Expected(order'[v].amount, order'[v].at) <= order'[v].at.token - Unsold
                      /\ order'[v].min = B!MinimumOutput(B!Expected(order'[v].amount, order'[v].at), Rule[v].slippage)
    BY DEF BOrderInv
  <2>1. CASE v = u
    BY <1>5, <1>6, <2>1 DEF BInv, BShape
  <2>2. CASE v # u
    <3>1. order'[v] = order[v]
      BY <1>5, <2>2 DEF BInv, BShape
    <3> QED
      BY <3>1 DEF BInv, BOrderInv
  <2> QED
    BY <2>1, <2>2
<1>9. BPaidInv'
  BY <1>3 DEF BInv, BPaidInv, B!PaidIsRecorded
<1> QED
  BY <1>7, <1>8, <1>9 DEF BInv

\* A step that takes orders away leaves the others as they were.
LEMMA BOrdersShrink ==
  ASSUME BInv, NEW u \in Buyers, order' = [order EXCEPT ![u] = B!NoOrder]
  PROVE  BOrderInv' /\ order' = [v \in Buyers |-> order'[v]] /\ \A v \in Buyers : order'[v].amount \in Int
<1>1. B!NoOrder.amount \in Int
  BY DEF B!NoOrder
<1>2. \A v \in Buyers : order'[v] = IF v = u THEN B!NoOrder ELSE order[v]
  BY DEF BInv, BShape
<1>3. BOrderInv'
  <2> SUFFICES ASSUME NEW v \in Buyers, order'[v] # B!NoOrder
               PROVE  /\ B!Expected(order'[v].amount, order'[v].at) \in Nat
                      /\ B!Expected(order'[v].amount, order'[v].at) <= order'[v].at.token - Unsold
                      /\ order'[v].min = B!MinimumOutput(B!Expected(order'[v].amount, order'[v].at), Rule[v].slippage)
    BY DEF BOrderInv
  <2>1. order'[v] = order[v]
    BY <1>2
  <2> QED
    BY <2>1 DEF BInv, BOrderInv
<1> QED
  BY <1>1, <1>2, <1>3 DEF BInv, BShape

LEMMA BRevertInv ==
  ASSUME BInv, NEW u \in Buyers, B!Revert(u)
  PROVE  BInv'
<1>1. /\ UNCHANGED <<curve, halted, limits, spend, day, paid, allowed>>
      /\ order' = [order EXCEPT ![u] = B!NoOrder]
  BY DEF B!Revert
<1>2. BShape' /\ BOrderInv'
  BY <1>1, BOrdersShrink DEF BInv, BShape
<1>3. BPaidInv'
  BY <1>1 DEF BInv, BPaidInv, B!PaidIsRecorded
<1> QED
  BY <1>2, <1>3 DEF BInv

\* Limits that the largest ever set covers.
LEMMA BLimitsTo ==
  ASSUME BInv, NEW u \in Buyers, NEW l \in BLimitType, l.slippage <= 10000,
         limits' = [v \in Buyers |-> IF v = u THEN l ELSE limits[v]], UNCHANGED <<curve, order, halted, spend, day, paid>>,
         allowed' \in [Buyers -> Nat], l.daily <= allowed'[u], \A v \in Buyers : allowed[v] <= allowed'[v]
  PROVE  BInv'
<1>1. \A v \in Buyers : limits'[v] = IF v = u THEN l ELSE limits[v]
  OBVIOUS
<1>2. l.daily \in Nat /\ limits' \in [Buyers -> BLimitType] /\ \A v \in Buyers : limits'[v].slippage <= 10000
  BY <1>1 DEF BInv, BShape, BLimitType
<1>3. /\ allowed' \in [Buyers -> Nat]
      /\ \A v \in Buyers : allowed[v] <= allowed'[v] /\ limits'[v].daily <= allowed'[v]
  <2> SUFFICES ASSUME NEW v \in Buyers
               PROVE  limits'[v].daily <= allowed'[v]
    OBVIOUS
  <2>1. limits[v].daily \in Nat /\ allowed[v] \in Nat
    BY DEF BInv, BShape, BLimitType
  <2>2. limits[v].daily <= allowed[v]
    BY DEF BInv, BPaidInv
  <2>3. allowed'[v] \in Nat
    OBVIOUS
  <2>4. allowed[v] <= allowed'[v]
    OBVIOUS
  <2> QED
    BY <1>1, <2>1, <2>2, <2>3, <2>4
<1>4. BShape' /\ BOrderInv'
  BY <1>2, <1>3 DEF BInv, BShape, BOrderInv
<1>5. BPaidInv'
  <2> SUFFICES ASSUME NEW v \in Buyers
               PROVE  /\ \A d \in Days : paid[v][d] <= allowed'[v]
                      /\ spend[v].day \in Days => paid[v][spend[v].day] = spend[v].amount
                      /\ spend[v].day <= day /\ limits'[v].daily <= allowed'[v]
                      /\ \A d \in Days : d > spend[v].day => paid[v][d] = 0
    BY DEF BPaidInv, B!PaidIsRecorded
  <2>1. ASSUME NEW d \in Days
        PROVE  paid[v][d] <= allowed'[v]
    <3>1. paid[v][d] \in Nat /\ allowed[v] \in Nat /\ paid[v][d] <= allowed[v]
      BY DEF BInv, BShape, BPaidInv, B!PaidIsRecorded
    <3>2. allowed'[v] \in Nat /\ allowed[v] <= allowed'[v]
      BY <1>3
    <3> QED
      BY <3>1, <3>2
  <2> QED
    BY <1>3, <2>1 DEF BInv, BPaidInv, B!PaidIsRecorded
<1> QED
  BY <1>4, <1>5 DEF BInv

\* Whoever changes limits sets them within the largest ever set.
LEMMA BLimitsInv ==
  ASSUME BInv, NEW u \in Buyers, B!Configure(u) \/ B!SetUserPaused(u)
  PROVE  BInv'
<1>1. UNCHANGED <<curve, order, halted, spend, day, paid>>
  BY DEF B!Configure, B!SetUserPaused
<1>2. CASE B!Configure(u)
  <2>1. PICK c \in Ceilings :
          /\ limits' = [limits EXCEPT ![u] = [perTrade |-> c.perTrade, daily |-> c.daily, slippage |-> c.slippage,
                                              active |-> TRUE, paused |-> FALSE]]
          /\ allowed' = [allowed EXCEPT ![u] = IF c.daily > @ THEN c.daily ELSE @]
    BY <1>2 DEF B!Configure
  <2>2. c \in [perTrade: Nat, daily: Nat, slippage: Nat] /\ c.slippage <= 10000
    BY BuysAssumption
  <2> DEFINE new == [perTrade |-> c.perTrade, daily |-> c.daily, slippage |-> c.slippage,
                     active |-> TRUE, paused |-> FALSE]
  <2>3. new \in BLimitType /\ new.slippage <= 10000 /\ new.daily = c.daily
    BY <2>2 DEF BLimitType
  <2>4. limits' = [v \in Buyers |-> IF v = u THEN new ELSE limits[v]]
    <3>1. limits' = [limits EXCEPT ![u] = new]
      BY <2>1
    <3>2. limits \in [Buyers -> BLimitType]
      BY DEF BInv, BShape
    <3> HIDE DEF new
    <3> QED
      BY <3>1, <3>2
  <2>5. /\ allowed' \in [Buyers -> Nat] /\ c.daily <= allowed'[u]
        /\ \A v \in Buyers : allowed[v] <= allowed'[v]
    BY <2>1, <2>2 DEF BInv, BShape
  <2> HIDE DEF new
  <2> QED
    BY <1>1, <2>3, <2>4, <2>5, BLimitsTo
<1>3. CASE B!SetUserPaused(u)
  <2>1. PICK p \in BOOLEAN : limits' = [limits EXCEPT ![u].paused = p]
    BY <1>3 DEF B!SetUserPaused
  <2>2. PICK old : old = limits[u] /\ old \in BLimitType /\ old.slippage <= 10000
    BY DEF BInv, BShape
  <2>3. PICK new : new = [old EXCEPT !.paused = p]
    OBVIOUS
  <2>4. new \in BLimitType /\ new.slippage <= 10000 /\ new.daily = limits[u].daily
    BY <2>2, <2>3 DEF BLimitType
  <2>5. limits' = [v \in Buyers |-> IF v = u THEN new ELSE limits[v]]
    <3>1. limits' = [limits EXCEPT ![u] = new]
      BY <2>1, <2>2, <2>3
    <3>2. limits \in [Buyers -> BLimitType]
      BY DEF BInv, BShape
    <3> QED
      BY <3>1, <3>2
  <2>6. /\ allowed' \in [Buyers -> Nat] /\ limits[u].daily <= allowed'[u]
        /\ \A v \in Buyers : allowed[v] <= allowed'[v]
    BY <1>3 DEF B!SetUserPaused, BInv, BShape, BPaidInv
  <2> QED
    BY <1>1, <2>4, <2>5, <2>6, BLimitsTo
<1> QED
  BY <1>2, <1>3

LEMMA BTimeInv ==
  ASSUME BInv, B!Time
  PROVE  BInv'
<1>1. UNCHANGED <<curve, order, halted, spend, paid, allowed>>
  BY DEF B!Time
<1>2. /\ day' \in Days /\ day <= day'
      /\ limits' \in [Buyers -> BLimitType]
      /\ \A v \in Buyers : limits'[v].slippage = limits[v].slippage /\ limits'[v].daily = limits[v].daily
  <2>1. CASE day + 1 \in Days /\ day' = day + 1 /\ UNCHANGED limits
    BY <2>1, BuysAssumption DEF BInv, BShape
  <2>2. ASSUME NEW u \in Buyers, limits' = [limits EXCEPT ![u].active = FALSE], UNCHANGED day
        PROVE  /\ day' \in Days /\ day <= day'
               /\ limits' \in [Buyers -> BLimitType]
               /\ \A v \in Buyers : limits'[v].slippage = limits[v].slippage /\ limits'[v].daily = limits[v].daily
    <3>1. day \in Days /\ day <= day
      BY BuysAssumption DEF BInv, BShape
    <3>2. PICK old : old = limits /\ old \in [Buyers -> BLimitType] 
      BY DEF BInv, BShape
    <3>3. /\ [old EXCEPT ![u].active = FALSE] \in [Buyers -> BLimitType]
          /\ \A v \in Buyers : /\ [old EXCEPT ![u].active = FALSE][v].slippage = old[v].slippage
                               /\ [old EXCEPT ![u].active = FALSE][v].daily = old[v].daily
      BY <3>2 DEF BLimitType
    <3> QED
      BY <2>2, <3>1, <3>2, <3>3
  <2> QED
    BY <2>1, <2>2 DEF B!Time
<1>3. BShape' /\ BOrderInv'
  BY <1>1, <1>2 DEF BInv, BShape, BOrderInv
<1>4. BPaidInv'
  <2> SUFFICES ASSUME NEW v \in Buyers
               PROVE  /\ \A d \in Days : paid[v][d] <= allowed[v]
                      /\ spend[v].day \in Days => paid[v][spend[v].day] = spend[v].amount
                      /\ spend[v].day <= day' /\ limits'[v].daily <= allowed[v]
                      /\ \A d \in Days : d > spend[v].day => paid[v][d] = 0
    BY <1>1 DEF BPaidInv, B!PaidIsRecorded
  <2>1. day \in Nat /\ day' \in Nat /\ spend[v].day \in Nat
    BY <1>2, BuysAssumption DEF BInv, BShape
  <2> QED
    BY <1>2, <2>1 DEF BInv, BPaidInv, B!PaidIsRecorded
<1> QED
  BY <1>3, <1>4 DEF BInv

\* A trade at the curve leaves it a curve.
LEMMA BCurveType ==
  ASSUME NEW c \in [quote: Nat \ {0}, token: Int, live: BOOLEAN], NEW put \in Nat, NEW got \in Int
  PROVE  [c EXCEPT !.quote = @ + put, !.token = @ - got] \in [quote: Nat \ {0}, token: Int, live: BOOLEAN]
<1>1. PICK q, t : q = c.quote + put /\ t = c.token - got
  OBVIOUS
<1>2. q \in Nat \ {0} /\ t \in Int
  BY <1>1
<1>3. [c EXCEPT !.quote = q, !.token = t] \in [quote: Nat \ {0}, token: Int, live: BOOLEAN]
  BY <1>2
<1> QED
  BY <1>1, <1>3

\* Whatever others do, there is something to pay with in the curve.
LEMMA BOthersInv ==
  ASSUME BInv, B!OthersTrade \/ B!SetGlobalPaused
  PROVE  BInv'
<1>1. UNCHANGED <<order, limits, spend, day, paid, allowed>>
  BY DEF B!OthersTrade, B!SetGlobalPaused
<1>2. curve' \in [quote: Nat \ {0}, token: Int, live: BOOLEAN]
  <2>1. ASSUME NEW a \in Others, curve' = [curve EXCEPT !.quote = @ + a, !.token = @ - B!Output(a, curve)]
        PROVE  curve' \in [quote: Nat \ {0}, token: Int, live: BOOLEAN]
    <3>1. B!Output(a, curve) \in Int /\ a \in Nat
      BY BuysAssumption, BOut DEF BInv, BShape
    <3>2. curve \in [quote: Nat \ {0}, token: Int, live: BOOLEAN]
      BY DEF BInv, BShape
    <3> QED
      BY <2>1, <3>1, <3>2, BCurveType
  <2>2. CASE curve' = [curve EXCEPT !.live = FALSE] \/ curve' = curve
    <3>1. PICK c : c = curve /\ c \in [quote: Nat \ {0}, token: Int, live: BOOLEAN]
      BY DEF BInv, BShape
    <3>2. [c EXCEPT !.live = FALSE] \in [quote: Nat \ {0}, token: Int, live: BOOLEAN]
      BY <3>1
    <3> QED
      BY <2>2, <3>1, <3>2
  <2> QED
    BY <2>1, <2>2 DEF B!OthersTrade, B!SetGlobalPaused
<1>3. BShape' /\ BOrderInv'
  BY <1>1, <1>2 DEF BInv, BShape, BOrderInv
<1>4. BPaidInv'
  BY <1>1 DEF BInv, BPaidInv, B!PaidIsRecorded
<1> QED
  BY <1>3, <1>4 DEF BInv

\* A buy is recorded on the day it is paid, together with what was paid before on that day.
LEMMA BBuyInv ==
  ASSUME BInv, NEW u \in Buyers, B!Buy(u)
  PROVE  BInv'
<1>1. PICK refund \in Refunds :
        LET kept == order[u].amount - refund
        IN  /\ kept > 0
            /\ curve' = [curve EXCEPT !.quote = @ + B!NetInput(kept), !.token = @ - B!Expected(kept, curve)]
            /\ spend' = [spend EXCEPT ![u] = [day |-> day, amount |-> B!Used(u) + kept]]
            /\ paid' = [paid EXCEPT ![u][day] = @ + kept]
  BY DEF B!Buy
<1>2. PICK kept : kept = order[u].amount - refund
  OBVIOUS
<1>3. /\ order' = [order EXCEPT ![u] = B!NoOrder] /\ UNCHANGED <<limits, day, allowed>>
      /\ B!Used(u) + order[u].amount <= limits[u].daily
  BY DEF B!Buy
<1>4. kept \in Nat /\ kept <= order[u].amount /\ order[u].amount \in Int
  BY <1>1, <1>2, BuysAssumption DEF BInv, BShape
<1>5. PICK used : used = B!Used(u) /\ used \in Nat /\ used = paid[u][day]
  <2>1. day \in Days /\ day \in Nat /\ spend[u].day \in Nat /\ spend[u].amount \in Nat
    BY BuysAssumption DEF BInv, BShape
  <2>2. B!Used(u) = paid[u][day]
    BY <2>1 DEF BInv, BPaidInv, B!PaidIsRecorded, B!Used
  <2>3. paid[u][day] \in Nat
    BY <2>1 DEF BInv, BShape
  <2> QED
    BY <2>2, <2>3
<1>6. /\ spend' = [spend EXCEPT ![u] = [day |-> day, amount |-> used + kept]]
      /\ paid' = [paid EXCEPT ![u][day] = @ + kept]
  BY <1>1, <1>2, <1>5
<1>7. curve' \in [quote: Nat \ {0}, token: Int, live: BOOLEAN]
  <2>1. B!Expected(kept, curve) \in Int
    BY <1>4, BExpected DEF BInv, BShape
  <2>2. B!NetInput(kept) \in Nat
    BY <1>4, BNet
  <2>3. curve' = [curve EXCEPT !.quote = @ + B!NetInput(kept), !.token = @ - B!Expected(kept, curve)]
    BY <1>1, <1>2
  <2>4. curve \in [quote: Nat \ {0}, token: Int, live: BOOLEAN]
    BY DEF BInv, BShape
  <2> QED
    BY <2>1, <2>2, <2>3, <2>4, BCurveType
<1>8. /\ spend' \in [Buyers -> [day: Nat, amount: Nat]] /\ paid' \in [Buyers -> [Days -> Nat]]
      /\ \A v \in Buyers : v # u => spend'[v] = spend[v] /\ paid'[v] = paid[v]
      /\ spend'[u] = [day |-> day, amount |-> used + kept]
      /\ paid'[u][day] = used + kept /\ \A d \in Days : d # day => paid'[u][d] = paid[u][d]
  BY <1>4, <1>5, <1>6, BuysAssumption DEF BInv, BShape
<1>9. BShape' /\ BOrderInv'
  <2>1. BOrderInv' /\ order' = [v \in Buyers |-> order'[v]] /\ \A v \in Buyers : order'[v].amount \in Int
    BY <1>3, BOrdersShrink
  <2> QED
    BY <1>3, <1>7, <1>8, <2>1 DEF BInv, BShape
<1>10. BPaidInv'
  <2> SUFFICES ASSUME NEW v \in Buyers
               PROVE  /\ \A d \in Days : paid'[v][d] <= allowed[v]
                      /\ spend'[v].day \in Days => paid'[v][spend'[v].day] = spend'[v].amount
                      /\ spend'[v].day <= day /\ limits[v].daily <= allowed[v]
                      /\ \A d \in Days : d > spend'[v].day => paid'[v][d] = 0
    BY <1>3 DEF BPaidInv, B!PaidIsRecorded
  <2>1. CASE v # u
    BY <1>8, <2>1 DEF BInv, BPaidInv, B!PaidIsRecorded
  <2>2. CASE v = u
    <3>1. day \in Nat /\ spend[u].day \in Nat /\ spend[u].day <= day /\ limits[u].daily \in Nat /\ allowed[u] \in Nat
      BY BuysAssumption DEF BInv, BShape, BPaidInv, BLimitType
    <3>2. used + kept <= allowed[u]
      BY <1>3, <1>4, <1>5, <3>1 DEF BInv, BPaidInv
    <3>3. \A d \in Days : paid'[u][d] <= allowed[u]
      BY <1>8, <3>2 DEF BInv, BPaidInv, B!PaidIsRecorded
    <3>4. \A d \in Days : d > day => paid'[u][d] = 0
      <4> SUFFICES ASSUME NEW d \in Days, d > day
                   PROVE  paid'[u][d] = 0
        OBVIOUS
      <4>1. d \in Nat
        BY BuysAssumption
      <4>2. d # day /\ d > spend[u].day
        BY <3>1, <4>1
      <4> QED
        BY <1>8, <4>2 DEF BInv, BPaidInv
    <3> QED
      BY <1>8, <2>2, <3>1, <3>3, <3>4 DEF BInv, BPaidInv
  <2> QED
    BY <2>1, <2>2
<1> QED
  BY <1>9, <1>10 DEF BInv

LEMMA BNextInv ==
  ASSUME BInv, [B!Next]_(B!vars)
  PROVE  BInv'
<1>1. ASSUME NEW u \in Buyers, B!Dispatch(u) \/ B!Configure(u) \/ B!SetUserPaused(u) \/ B!Buy(u) \/ B!Revert(u)
      PROVE  BInv'
  BY <1>1, BDispatchInv, BLimitsInv, BBuyInv, BRevertInv
<1>2. CASE B!SetGlobalPaused \/ B!OthersTrade \/ B!Time
  BY <1>2, BOthersInv, BTimeInv
<1>3. CASE UNCHANGED B!vars
  BY <1>3 DEF B!vars, BInv, BShape, BOrderInv, BPaidInv, B!PaidIsRecorded
<1> QED
  BY <1>1, <1>2, <1>3 DEF B!Next

\* What the invariant promises: a quote's minimum is within the contract's window on the same curve.
LEMMA BSafe == BInv => B!QuoteIsAccepted /\ B!PaidIsRecorded
<1> SUFFICES ASSUME BInv
             PROVE  B!QuoteIsAccepted
  BY DEF BInv, BPaidInv
<1> SUFFICES ASSUME NEW u \in Buyers, order[u] # B!NoOrder, order[u].at = curve, limits[u].slippage >= Rule[u].slippage
             PROVE  B!Accepts(order[u].amount, order[u].min, curve, limits[u].slippage)
  BY DEF B!QuoteIsAccepted
<1>1. PICK e : e = B!Expected(order[u].amount, curve)
  OBVIOUS
<1>2. e \in Nat /\ e <= curve.token - Unsold /\ order[u].min = B!MinimumOutput(e, Rule[u].slippage)
  BY <1>1 DEF BInv, BOrderInv
<1>3. /\ Rule[u].slippage \in Nat /\ limits[u].slippage \in Nat /\ limits[u].slippage <= 10000
      /\ Rule[u].slippage <= limits[u].slippage
  BY BuysAssumption DEF BInv, BShape, BLimitType
<1>4. order[u].min \in (e * (10000 - limits[u].slippage)) \div 10000 .. e
  BY <1>2, <1>3, BMinimumFits
<1> QED
  BY <1>1, <1>2, <1>4 DEF B!Accepts, B!Expected, B!NetInput, B!BPS

-----------------------------------------------------------------------------
(***************************************************************************)
(* Trading.                                                                *)
(***************************************************************************)
EPart == part = "executions" => EInv /\ ECapInv

\* An automatic order is broadcast once at most, and what a day holds stays within its cap.
THEOREM OrdersAreSafeAlways == TradingSpec => []OrdersAreSafe
<1>1. TradingInit => EPart
  BY EInitInv, ECapInit DEF TradingInit, EPart
<1>2. EPart /\ [TradingNext]_TradingVars => EPart'
  <2> SUFFICES ASSUME EPart, [TradingNext]_TradingVars, part' = "executions"
               PROVE  (EInv /\ ECapInv)'
    BY DEF EPart
  <2>1. part = "executions"
    BY DEF TradingNext, TradingVars
  <2>2. [E!Next]_(E!vars)
    BY <2>1 DEF TradingNext, TradingVars, E!vars
  <2> QED
    BY <2>1, <2>2, ENextInv, ECapStep DEF EPart
<1>3. EPart => OrdersAreSafe
  BY ESafe DEF EPart, OrdersAreSafe
<1> QED
  BY <1>1, <1>2, <1>3, PTL DEF TradingSpec

MPart == part = "sells" => MInv

\* A sell is broadcast once at most, and what is broadcast fits into the position.
THEOREM SellsAreSafeAlways == TradingSpec => []SellsAreSafe
<1>1. TradingInit => MPart
  BY MInitInv DEF TradingInit, MPart
<1>2. MPart /\ [TradingNext]_TradingVars => MPart'
  <2> SUFFICES ASSUME MPart, [TradingNext]_TradingVars, part' = "sells"
               PROVE  (MInv)'
    BY DEF MPart
  <2>1. part = "sells"
    BY DEF TradingNext, TradingVars
  <2>2. [M!Next]_(M!vars)
    BY <2>1 DEF TradingNext, TradingVars, M!vars
  <2> QED
    BY <2>1, <2>2, MNextInv DEF MPart
<1>3. MPart => SellsAreSafe
  BY MSafe DEF MPart, SellsAreSafe
<1> QED
  BY <1>1, <1>2, <1>3, PTL DEF TradingSpec

BPart == part = "buys" => BInv

\* The contract accepts what the quote engine offers as long as the curve has not moved, and records what
\* a user pays, within the largest daily limit they ever set.
THEOREM BuysAreSafeAlways == TradingSpec => []BuysAreSafe
<1>1. TradingInit => BPart
  BY BInitInv DEF TradingInit, BPart
<1>2. BPart /\ [TradingNext]_TradingVars => BPart'
  <2> SUFFICES ASSUME BPart, [TradingNext]_TradingVars, part' = "buys"
               PROVE  BInv'
    BY DEF BPart
  <2>1. part = "buys"
    BY DEF TradingNext, TradingVars
  <2>2. [B!Next]_(B!vars)
    BY <2>1 DEF TradingNext, TradingVars, B!vars
  <2> QED
    BY <2>1, <2>2, BNextInv DEF BPart
<1>3. BPart => BuysAreSafe
  BY BSafe DEF BPart, BuysAreSafe
<1> QED
  BY <1>1, <1>2, <1>3, PTL DEF TradingSpec

FPart == part = "referral" => FInv

\* A referrer accrues what the rates said at the second of the trade, and never more than the fee.
THEOREM AccruedAtItsRateAlways == TradingSpec => []AccruedAtItsRate
<1>1. TradingInit => FPart
  BY FInitInv DEF TradingInit, FPart
<1>2. FPart /\ [TradingNext]_TradingVars => FPart'
  <2> SUFFICES ASSUME FPart, [TradingNext]_TradingVars, part' = "referral"
               PROVE  (FInv)'
    BY DEF FPart
  <2>1. part = "referral"
    BY DEF TradingNext, TradingVars
  <2>2. [F!Next]_(F!vars)
    BY <2>1 DEF TradingNext, TradingVars, F!vars
  <2> QED
    BY <2>1, <2>2, FNextInv DEF FPart
<1>3. FPart => AccruedAtItsRate
  BY DEF FPart, FInv, AccruedAtItsRate
<1> QED
  BY <1>1, <1>2, <1>3, PTL DEF TradingSpec
=============================================================================
