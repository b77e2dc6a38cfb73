-------------------------- MODULE Intake_proofs ----------------------------
(***************************************************************************)
(* Proofs about BuyGates, SourceTrades, Updates and Tape: for every set of *)
(* users and wallets and any number of operator requests in flight, any    *)
(* tree of blocks and any trades in it, any updates, actions and requests, *)
(* any buys and sells of the token.  Names that begin with S, U or T       *)
(* belong to the component that Intake calls so.                           *)
(***************************************************************************)
EXTENDS Intake, FiniteSums, TLAPS

(***************************************************************************)
(* BuyGates.                                                               *)
(***************************************************************************)

LEMMA LoadType ==
  ASSUME TypeOK
  PROVE  Load \in SUBSET Switches
BY DEF TypeOK, Load, Switches

LEMMA RefuseType ==
  ASSUME TypeOK, NEW u \in Users, Refuse(u)
  PROVE  buy' \in [Users -> [pc: Steps, paused: SUBSET Switches, firm: SUBSET Switches]]
BY DEF TypeOK, Refuse, Steps, NoBuy

LEMMA AdvanceType ==
  ASSUME TypeOK, NEW u \in Users, NEW step \in Steps, Advance(u, step)
  PROVE  buy' \in [Users -> [pc: Steps, paused: SUBSET Switches, firm: SUBSET Switches]]
BY DEF TypeOK, Advance

LEMMA TypeStep == TypeOK /\ [Next]_vars => TypeOK'
<1> SUFFICES ASSUME TypeOK, [Next]_vars PROVE TypeOK'
  OBVIOUS
<1>1. ASSUME NEW a \in Admins, AdminBegin(a) PROVE TypeOK'
  BY <1>1, LoadType, AskedAssumption DEF AdminBegin, TypeOK
<1>2. ASSUME NEW a \in Admins, AdminPersist(a) \/ AdminFails(a) PROVE TypeOK'
  <2>1. /\ Apply(admin[a].paused, admin[a].ask) \in SUBSET Switches
        /\ admin[a].ask.what \in Switches
    BY <1>2 DEF TypeOK, Apply, Asks
  <2>2. NoAsk \in Asks
    BY DEF NoAsk, Asks, Switches
  <2>3. EndRequest(a)
    BY <1>2 DEF AdminPersist, AdminFails
  <2>4. admin' \in [Admins -> [busy: BOOLEAN, paused: SUBSET Switches, ask: Asks]]
    BY <2>2, <2>3 DEF EndRequest, TypeOK
  <2>5. CASE AdminPersist(a)
    <3>1. stored' \in [written: BOOLEAN, paused: SUBSET Switches]
      BY <2>1, <2>5 DEF AdminPersist
    <3>2. firm' \in SUBSET Switches
      BY <2>1, <2>5 DEF AdminPersist, TypeOK
    <3>3. opened' \in BOOLEAN
      BY <2>5 DEF AdminPersist
    <3> QED
      BY <2>4, <2>5, <3>1, <3>2, <3>3 DEF AdminPersist, TypeOK
  <2>6. CASE AdminFails(a)
    BY <2>4, <2>6 DEF AdminFails, TypeOK
  <2> QED
    BY <1>2, <2>5, <2>6
<1>3. ASSUME NEW u \in Users, ChooseAutoBuy(u) \/ ChooseOther(u) \/ SetPause(u) \/ ChangeDelegation(u)
      PROVE TypeOK'
  <2>1. CASE ChooseAutoBuy(u)
    BY <2>1 DEF ChooseAutoBuy, TypeOK
  <2>2. CASE ChooseOther(u)
    BY <2>2 DEF ChooseOther, TypeOK
  <2>3. CASE SetPause(u)
    <3>1. PICK p \in BOOLEAN : user' = [user EXCEPT ![u].paused = p]
      BY <2>3 DEF SetPause
    <3>2. user' \in [Users -> [mode: {"NOTIFY_ONLY", "AUTO_BUY", "CONFIRM_EACH"}, paused: BOOLEAN]]
      BY <3>1 DEF TypeOK
    <3> QED
      BY <2>3, <3>2 DEF SetPause, TypeOK
  <2>4. CASE ChangeDelegation(u)
    BY <2>4 DEF ChangeDelegation, TypeOK
  <2> QED
    BY <1>3, <2>1, <2>2, <2>3, <2>4
<1>4. ASSUME NEW u \in Users, Start(u) PROVE TypeOK'
  <2>1. CASE u \in delegated
    BY <1>4, <2>1, LoadType DEF Start, TypeOK, Steps
  <2>2. CASE u \notin delegated
    BY <1>4, <2>2, RefuseType DEF Start, TypeOK
  <2> QED
    BY <2>1, <2>2
<1>5. ASSUME NEW u \in Users, Admit(u) \/ CallExecutor(u) \/ GiveUp(u) PROVE TypeOK'
  BY <1>5, AdvanceType, RefuseType DEF Admit, CallExecutor, GiveUp, TypeOK, Steps
<1>6. ASSUME NEW u \in Users, Authorize(u) \/ RecheckSwitches(u) \/ RecheckDelegation(u) PROVE TypeOK'
  BY <1>6, AdvanceType, RefuseType
  DEF Authorize, RecheckSwitches, CheckSwitches, RecheckDelegation, TypeOK, Steps
<1>7. CASE UNCHANGED vars
  BY <1>7 DEF vars, TypeOK
<1> QED
  BY <1>1, <1>2, <1>3, <1>4, <1>5, <1>6, <1>7 DEF Next

\* Every variable of the gates stays in its type.
THEOREM Typing == Spec => []TypeOK
<1>1. Init => TypeOK
  <2>1. NoAsk \in Asks
    BY DEF NoAsk, Asks, Switches
  <2>2. ASSUME Init PROVE stored \in [written: BOOLEAN, paused: SUBSET Switches]
    BY <2>2 DEF Init
  <2>3. ASSUME Init
        PROVE  admin \in [Admins -> [busy: BOOLEAN, paused: SUBSET Switches, ask: Asks]]
    BY <2>1, <2>3 DEF Init
  <2>4. ASSUME Init
        PROVE  /\ user \in [Users -> [mode: {"NOTIFY_ONLY", "AUTO_BUY", "CONFIRM_EACH"}, paused: BOOLEAN]]
               /\ buy \in [Users -> [pc: Steps, paused: SUBSET Switches, firm: SUBSET Switches]]
    BY <2>4 DEF Init, Steps, NoBuy
  <2>5. ASSUME Init PROVE /\ delegated \in SUBSET Users /\ opened \in BOOLEAN
                         /\ chose \in SUBSET Users /\ firm \in SUBSET Switches
    BY <2>5 DEF Init
  <2> QED
    BY <2>2, <2>3, <2>4, <2>5 DEF TypeOK
<1> QED
  BY <1>1, TypeStep, PTL DEF Spec

-----------------------------------------------------------------------------
(***************************************************************************)
(* Nothing before consent.  Until GLOBAL is resumed it is paused wherever  *)
(* it is remembered: in the table, in the snapshot of every request that   *)
(* will write the table back, and in the snapshot of every buy.            *)
(***************************************************************************)
Passed(u)  == buy[u].pc \in {"simulate", "recheck", "pending"}
Started(u) == Passed(u) \/ buy[u].pc = "authorize"

ClosedEverywhere ==
  /\ "GLOBAL" \in Load
  /\ \A a \in Admins : admin[a].busy => "GLOBAL" \in admin[a].paused
  /\ \A u \in Users : Started(u) => "GLOBAL" \in buy[u].paused

ConsentInv ==
  /\ ~opened => ClosedEverywhere
  /\ \A u \in Users : user[u].mode = "AUTO_BUY" \/ buy[u].pc # "idle" => u \in chose
  /\ \A u \in Users : Passed(u) => ~Blocks(buy[u].paused, u)

\* The steps that move a buy: only Start gives it a snapshot, only a check lets it pass.
BuyMoves(u) ==
  /\ \A v \in Users \ {u} : buy'[v] = buy[v]
  /\ \/ buy'[u].pc = "idle"
     \/ buy[u].pc = "idle" /\ buy'[u].pc = "queued" /\ user[u].mode = "AUTO_BUY"
     \/ buy[u].pc # "idle" /\ buy'[u].pc = "authorize" /\ buy'[u].paused = Load
     \/ /\ Started(u) /\ Passed(u)' /\ buy'[u].paused = buy[u].paused
        /\ Passed(u) \/ ~Blocks(buy[u].paused, u)
     \* The pauses a turn began under go with its snapshot.
  /\ \/ buy'[u].pc = "authorize" /\ buy'[u].firm = firm
     \/ ~Started(u)'
     \/ Passed(u)' /\ buy'[u].firm = buy[u].firm
  /\ UNCHANGED <<stored, admin, user, opened, chose, firm>>

LEMMA BuyMovesStep ==
  ASSUME TypeOK, NEW u \in Users,
         \/ Admit(u) \/ Start(u) \/ Authorize(u) \/ RecheckSwitches(u)
         \/ RecheckDelegation(u) \/ CallExecutor(u) \/ GiveUp(u)
  PROVE  BuyMoves(u)
<1> USE DEF BuyMoves, TypeOK
<1>1. CASE Admit(u)
  <2>1. buy[u].pc = "idle" /\ user[u].mode = "AUTO_BUY"
    BY <1>1 DEF Admit
  <2>2. /\ \A v \in Users \ {u} : buy'[v] = buy[v]
        /\ buy'[u].pc = "queued"
    BY <1>1 DEF Admit, Advance
  <2>3. UNCHANGED <<stored, admin, user, opened, chose, firm>>
    BY <1>1 DEF Admit
  <2> QED
    BY <2>1, <2>2, <2>3 DEF Started, Passed
<1>2. CASE Start(u)
  BY <1>2 DEF Start, Refuse, NoBuy, Started, Passed
<1>3. CASE Authorize(u)
  BY <1>3 DEF Authorize, CheckSwitches, Advance, Refuse, NoBuy, Started, Passed
<1>4. CASE RecheckSwitches(u)
  BY <1>4 DEF RecheckSwitches, CheckSwitches, Advance, Refuse, NoBuy, Started, Passed
<1>5. CASE RecheckDelegation(u)
  BY <1>5 DEF RecheckDelegation, Advance, Refuse, NoBuy, Started, Passed
<1>6. CASE CallExecutor(u) \/ GiveUp(u)
  BY <1>6 DEF CallExecutor, GiveUp, Refuse, NoBuy, Started, Passed
<1> QED
  BY <1>1, <1>2, <1>3, <1>4, <1>5, <1>6

LEMMA ConsentStep ==
  ASSUME TypeOK, ConsentInv, [Next]_vars
  PROVE  ConsentInv'
<1>1. ASSUME NEW a \in Admins, AdminBegin(a) PROVE ConsentInv'
  BY <1>1 DEF AdminBegin, ConsentInv, ClosedEverywhere, Load, Started, Passed, TypeOK
<1>2. ASSUME NEW a \in Admins, AdminPersist(a) PROVE ConsentInv'
  <2>1. ~opened' => "GLOBAL" \in Apply(admin[a].paused, admin[a].ask)
    BY <1>2 DEF AdminPersist, ConsentInv, ClosedEverywhere, Apply, TypeOK, Asks
  <2>2. ~opened' => Load' = Apply(admin[a].paused, admin[a].ask)
    BY <1>2 DEF AdminPersist, Load
  <2> QED
    BY <1>2, <2>1, <2>2
    DEF AdminPersist, EndRequest, ConsentInv, ClosedEverywhere, Started, Passed, TypeOK
<1>3. ASSUME NEW u \in Users, ChooseAutoBuy(u) \/ ChooseOther(u) \/ SetPause(u) \/ ChangeDelegation(u)
      PROVE ConsentInv'
  <2>1. /\ \A v \in Users : user'[v].mode = "AUTO_BUY" => user[v].mode = "AUTO_BUY" \/ v \in chose'
        /\ chose \subseteq chose'
        /\ UNCHANGED <<stored, admin, buy, opened>>
    BY <1>3 DEF ChooseAutoBuy, ChooseOther, SetPause, ChangeDelegation, TypeOK
  <2> QED
    BY <2>1 DEF ConsentInv, ClosedEverywhere, Load, Started, Passed
<1>4. ASSUME NEW u \in Users, BuyMoves(u) PROVE ConsentInv'
  <2>1. ~opened' => ClosedEverywhere'
    BY <1>4 DEF BuyMoves, ConsentInv, ClosedEverywhere, Load, Started, Passed
  <2>2. ASSUME NEW v \in Users PROVE user'[v].mode = "AUTO_BUY" \/ buy'[v].pc # "idle" => v \in chose'
    BY <1>4 DEF BuyMoves, ConsentInv, Started, Passed
  <2>3. ASSUME NEW v \in Users, Passed(v)' PROVE ~Blocks(buy'[v].paused, v)
    BY <1>4, <2>3 DEF BuyMoves, ConsentInv, Passed
  <2> QED
    BY <2>1, <2>2, <2>3 DEF ConsentInv, Blocks
<1>5. CASE UNCHANGED vars
  BY <1>5 DEF vars, ConsentInv, ClosedEverywhere, Load, Started, Passed
<1>6. ASSUME NEW a \in Admins, AdminFails(a) PROVE ConsentInv'
  BY <1>6 DEF AdminFails, EndRequest, ConsentInv, ClosedEverywhere, Load, Started, Passed, TypeOK
<1> QED
  BY <1>1, <1>2, <1>3, <1>4, <1>5, <1>6, BuyMovesStep DEF Next

\* A fresh deployment and a fresh user stay closed until an operator opens the one and the
\* user the other, however many operator requests write their snapshots back meanwhile.
THEOREM Consent == Spec => []NothingBeforeConsent
<1>1. Init => ConsentInv
  BY DEF Init, NoBuy, ConsentInv, ClosedEverywhere, Load, Started, Passed
<1>2. ConsentInv => NothingBeforeConsent
  BY DEF ConsentInv, NothingBeforeConsent, ClosedEverywhere, Started, Passed, Blocks
<1> QED
  BY <1>1, <1>2, Typing, ConsentStep, PTL DEF Spec

-----------------------------------------------------------------------------
(***************************************************************************)
(* A pause holds.  A request writes back everything it read.  A pause      *)
(* written while no other request was in flight is therefore read by every *)
(* request and every turn that begins after it, and stays in what each of  *)
(* them remembers until a request resumes that switch.                     *)
(***************************************************************************)
PauseInv ==
  /\ firm \subseteq stored.paused
  /\ \A a \in Admins : admin[a].busy => firm \subseteq admin[a].paused
  /\ \A u \in Users : Started(u) => buy[u].firm \subseteq buy[u].paused

LEMMA PauseStep ==
  ASSUME TypeOK, PauseInv, [Next]_vars
  PROVE  PauseInv'
<1>1. ASSUME NEW a \in Admins, AdminBegin(a) PROVE PauseInv'
  BY <1>1 DEF AdminBegin, PauseInv, Load, Started, Passed, TypeOK
<1>2. ASSUME NEW a \in Admins, AdminPersist(a) PROVE PauseInv'
  <2>1. admin[a].busy /\ firm \subseteq admin[a].paused /\ admin[a].ask \in Asks
    BY <1>2 DEF AdminPersist, PauseInv, TypeOK
  <2>2. firm' \subseteq Apply(admin[a].paused, admin[a].ask)
    BY <1>2, <2>1 DEF AdminPersist, Apply
  <2>3. ASSUME NEW b \in Admins, admin'[b].busy PROVE firm' \subseteq admin'[b].paused
    <3>1. b # a /\ admin'[b] = admin[b] /\ ~Uncontested(a)
      BY <1>2, <2>3 DEF AdminPersist, EndRequest, Uncontested, TypeOK
    <3>2. firm' \subseteq firm
      BY <1>2, <3>1 DEF AdminPersist
    <3> QED
      BY <2>3, <3>1, <3>2 DEF PauseInv
  <2>4. stored'.paused = Apply(admin[a].paused, admin[a].ask) /\ buy' = buy
    BY <1>2 DEF AdminPersist
  <2> QED
    BY <2>2, <2>3, <2>4 DEF PauseInv, Started, Passed
<1>3. ASSUME NEW a \in Admins, AdminFails(a) PROVE PauseInv'
  BY <1>3 DEF AdminFails, EndRequest, PauseInv, Started, Passed, TypeOK
<1>4. ASSUME NEW u \in Users, BuyMoves(u) PROVE PauseInv'
  <2>1. ASSUME NEW v \in Users, Started(v)' PROVE buy'[v].firm \subseteq buy'[v].paused
    <3>1. CASE v # u
      BY <1>4, <2>1, <3>1 DEF BuyMoves, PauseInv, Started, Passed
    <3>2. CASE v = u
      BY <1>4, <2>1, <3>2 DEF BuyMoves, PauseInv, Load, Started, Passed
    <3> QED
      BY <3>1, <3>2
  <2> QED
    BY <1>4, <2>1 DEF BuyMoves, PauseInv
<1>5. CASE UNCHANGED <<stored, admin, buy, firm>>
  BY <1>5 DEF PauseInv, Started, Passed
<1> QED
  BY <1>1, <1>2, <1>3, <1>4, <1>5, BuyMovesStep
  DEF Next, ChooseAutoBuy, ChooseOther, SetPause, ChangeDelegation, vars

\* However many operator requests overlap later and whatever they write back, a pause written while no
\* other was in flight stops every buy that begins before a request resumes the switch.
THEOREM PauseHoldsAlways == Spec => []PauseHolds
<1>1. Init => ConsentInv /\ PauseInv
  BY DEF Init, NoBuy, ConsentInv, ClosedEverywhere, PauseInv, Load, Started, Passed
<1>2. ConsentInv /\ PauseInv => PauseHolds
  BY DEF ConsentInv, PauseInv, PauseHolds, Blocks, Started, Passed
<1> QED
  BY <1>1, <1>2, Typing, ConsentStep, PauseStep, PTL DEF Spec

-----------------------------------------------------------------------------
(***************************************************************************)
(* SourceTrades.                                                           *)
(***************************************************************************)

\* The parts of the state an event depends on.
SShape ==
  /\ tip \in Hashes /\ made \subseteq Hashes
  /\ canonical \in [S!Heights -> Hashes \cup {NoBlock}]
  /\ observed \in Hashes \cup {NoBlock}
  /\ events \in [Traded -> [state: S!States, block: Hashes \cup {NoBlock}]]

\* A live event has a block, and the hash kept at the height of that block is the block's.
SHeldInv ==
  \A t \in Traded : S!Live(t) =>
    events[t].block \in Hashes /\ canonical[HeightOf[events[t].block]] = events[t].block

SInv == SShape /\ SHeldInv

LEMMA SInitInv == S!Init => SInv
<1> SUFFICES ASSUME S!Init
             PROVE  SInv
  OBVIOUS
<1>1. \A t \in Traded : events[t].state = "UNSEEN"
  BY DEF S!Init
<1>2. SHeldInv
  BY <1>1 DEF SHeldInv, S!Live
<1>3. "UNSEEN" \in S!States
  BY DEF S!States
<1>4. SShape
  BY <1>3 DEF S!Init, SShape
<1> QED
  BY <1>2, <1>4 DEF SInv

LEMMA SChainIn ==
  ASSUME NEW b \in Hashes
  PROVE  S!Chain[b] \subseteq Hashes
BY DEF S!Chain

LEMMA SHeight ==
  ASSUME NEW b \in Hashes
  PROVE  HeightOf[b] \in Nat /\ HeightOf[b] \in S!Heights
BY BlocksAssumption DEF S!Heights

\* The network makes blocks; the observer does not see it.
LEMMA SNetworkInv ==
  ASSUME SInv, S!Grow \/ S!Settle \/ S!Rest
  PROVE  SInv'
<1>1. UNCHANGED <<canonical, observed, events>>
  BY DEF S!Grow, S!Settle, S!Rest
<1>2. tip' \in Hashes /\ made' \subseteq Hashes
  <2>1. CASE S!Grow
    <3>1. tip' \in Hashes /\ made' = made \cup S!Chain[tip']
      BY <2>1 DEF S!Grow
    <3> QED
      BY <3>1, SChainIn DEF SInv, SShape
  <2>2. CASE S!Settle \/ S!Rest
    BY <2>2 DEF S!Settle, S!Rest, SInv, SShape
  <2> QED
    BY <2>1, <2>2
<1>3. SShape'
  BY <1>1, <1>2 DEF SInv, SShape
<1>4. SHeldInv'
  BY <1>1 DEF SInv, SHeldInv, S!Live
<1> QED
  BY <1>3, <1>4 DEF SInv

\* A block is ingested, whichever it is and whatever was read of it.
LEMMA SIngestInv ==
  ASSUME SInv, NEW b \in Hashes, NEW r \in Hashes, S!IngestLatest(b, r)
  PROVE  SInv'
<1> DEFINE n       == HeightOf[b]
           moved   == canonical[n] \notin {NoBlock, b}
           seen    == IF moved THEN S!RetractedFrom(n) ELSE events
           kept    == [m \in S!Heights |-> IF moved /\ m >= n THEN NoBlock ELSE canonical[m]]
           at      == IF moved /\ observed # NoBlock /\ HeightOf[observed] >= n THEN NoBlock ELSE observed
           EType   == [state: S!States, block: Hashes \cup {NoBlock}]
<1>1. \/ canonical' = kept /\ observed' = at /\ events' = seen
      \/ /\ canonical' = [kept EXCEPT ![n] = b]
         /\ observed' = IF at = NoBlock \/ n >= HeightOf[at] THEN b ELSE at
         /\ events' = S!Observed(seen, b, S!Decoded(b, r))
  BY DEF S!IngestLatest
<1>2. UNCHANGED <<tip, made>>
  BY DEF S!IngestLatest
<1>3. n \in Nat /\ n \in S!Heights
  BY SHeight
<1>4. at \in Hashes \cup {NoBlock} /\ kept \in [S!Heights -> Hashes \cup {NoBlock}]
  BY DEF SInv, SShape
<1>5. /\ seen \in [Traded -> EType]
      /\ \A t \in Traded : seen[t].block = events[t].block
      /\ \A t \in Traded : seen[t].state \notin {"UNSEEN", "RETRACTED"} =>
           /\ S!Live(t)
           /\ seen[t] = events[t]
           /\ moved => ~(HeightOf[events[t].block] >= n)
  <2>1. CASE moved
    <3>1. seen = S!RetractedFrom(n)
      BY <2>1
    <3>2. ASSUME NEW t \in Traded
          PROVE  /\ seen[t] = IF S!Live(t) /\ HeightOf[events[t].block] >= n
                                THEN [events[t] EXCEPT !.state = "RETRACTED"] ELSE events[t]
      BY <3>1 DEF S!RetractedFrom
    <3>3. ASSUME NEW t \in Traded
          PROVE  /\ seen[t] \in EType
                 /\ seen[t].block = events[t].block
                 /\ seen[t].state \notin {"UNSEEN", "RETRACTED"} =>
                      /\ S!Live(t)
                      /\ seen[t] = events[t]
                      /\ ~(HeightOf[events[t].block] >= n)
      <4>1. events[t] \in EType
        BY DEF SInv, SShape
      <4>2. CASE S!Live(t) /\ HeightOf[events[t].block] >= n
        <5>1. seen[t] = [events[t] EXCEPT !.state = "RETRACTED"]
          BY <3>2, <4>2
        <5> QED
          BY <4>1, <5>1 DEF S!States
      <4>3. CASE ~(S!Live(t) /\ HeightOf[events[t].block] >= n)
        <5>1. seen[t] = events[t]
          BY <3>2, <4>3
        <5> QED
          BY <4>1, <4>3, <5>1 DEF S!Live
      <4> QED
        BY <4>2, <4>3
    <3>4. seen = [t \in Traded |-> seen[t]]
      BY <3>1 DEF S!RetractedFrom
    <3> QED
      BY <2>1, <3>3, <3>4
  <2>2. CASE ~moved
    BY <2>2 DEF SInv, SShape, S!Live
  <2> QED
    BY <2>1, <2>2
<1>6. \A t \in Traded : seen[t].state \notin {"UNSEEN", "RETRACTED"} =>
        /\ seen[t].block \in Hashes
        /\ kept[HeightOf[seen[t].block]] = seen[t].block
  <2> SUFFICES ASSUME NEW t \in Traded, seen[t].state \notin {"UNSEEN", "RETRACTED"}
               PROVE  seen[t].block \in Hashes /\ kept[HeightOf[seen[t].block]] = seen[t].block
    OBVIOUS
  <2>1. /\ S!Live(t) /\ seen[t] = events[t]
        /\ moved => ~(HeightOf[events[t].block] >= n)
    BY <1>5
  <2>2. events[t].block \in Hashes /\ canonical[HeightOf[events[t].block]] = events[t].block
    BY <2>1 DEF SInv, SHeldInv
  <2>3. HeightOf[events[t].block] \in S!Heights
    BY <2>2, SHeight
  <2> QED
    BY <2>1, <2>2, <2>3
<1>7. CASE canonical' = kept /\ observed' = at /\ events' = seen
  <2>1. SShape'
    BY <1>2, <1>4, <1>5, <1>7 DEF SInv, SShape
  <2>2. SHeldInv'
    BY <1>6, <1>7 DEF SHeldInv, S!Live
  <2> QED
    BY <2>1, <2>2 DEF SInv
<1>8. CASE /\ canonical' = [kept EXCEPT ![n] = b]
           /\ observed' = IF at = NoBlock \/ n >= HeightOf[at] THEN b ELSE at
           /\ events' = S!Observed(seen, b, S!Decoded(b, r))
  <2> HIDE DEF n, kept, at, seen
  <2>1. /\ events' = [t \in Traded |-> events'[t]]
        /\ \A t \in Traded :
             events'[t] = IF t \in S!Decoded(b, r) /\ seen[t].state \in {"UNSEEN", "RETRACTED"}
                            THEN [state |-> "PROVISIONAL", block |-> b] ELSE seen[t]
    BY <1>8 DEF S!Observed
  <2>2. [state |-> "PROVISIONAL", block |-> b] \in EType
    BY DEF S!States
  <2>3. events' \in [Traded -> EType]
    <3>1. \A t \in Traded : events'[t] \in EType
      BY <1>5, <2>1, <2>2
    <3> QED
      BY <2>1, <3>1
  <2>4. SShape'
    <3>1. canonical' \in [S!Heights -> Hashes \cup {NoBlock}]
      BY <1>4, <1>8
    <3>2. observed' \in Hashes \cup {NoBlock}
      BY <1>4, <1>8
    <3>3. UNCHANGED <<S!Heights, S!States>>
      BY DEF S!Heights, S!States
    <3> QED
      BY <1>2, <2>3, <3>1, <3>2, <3>3 DEF SInv, SShape
  <2>5. ASSUME NEW t \in Traded, S!Live(t)'
        PROVE  /\ events'[t].block \in Hashes
               /\ canonical'[HeightOf[events'[t].block]] = events'[t].block
    <3>1. CASE events'[t] = [state |-> "PROVISIONAL", block |-> b]
      <4>1. canonical'[n] = b
        BY <1>3, <1>4, <1>8
      <4> QED
        BY <3>1, <4>1 DEF n
    <3>2. CASE events'[t] = seen[t]
      <4>1. seen[t].block \in Hashes /\ kept[HeightOf[seen[t].block]] = seen[t].block
        BY <1>6, <2>5, <3>2 DEF S!Live
      <4>2. HeightOf[seen[t].block] \in S!Heights
        BY <4>1, SHeight
      <4>3. CASE HeightOf[seen[t].block] = n
        \* The same height was kept, so nothing was moved and the block is b.
        <5>1. kept[n] = seen[t].block /\ seen[t].block # NoBlock
          BY <4>1, <4>3, BlocksAssumption
        <5>2. ~moved
          BY <1>3, <5>1 DEF kept
        <5>3. canonical[n] = seen[t].block
          BY <1>3, <5>1, <5>2 DEF kept
        <5>4. seen[t].block = b
          BY <5>1, <5>2, <5>3
        <5>5. canonical'[n] = b
          BY <1>3, <1>4, <1>8
        <5> QED
          BY <3>2, <4>1, <4>3, <5>4, <5>5
      <4>4. CASE HeightOf[seen[t].block] # n
        <5>1. canonical'[HeightOf[seen[t].block]] = kept[HeightOf[seen[t].block]]
          BY <1>4, <1>8, <4>2, <4>4
        <5> QED
          BY <3>2, <4>1, <5>1
      <4> QED
        BY <4>3, <4>4
    <3> QED
      BY <2>1, <3>1, <3>2
  <2> QED
    BY <2>4, <2>5 DEF SInv, SHeldInv
<1> QED
  BY <1>1, <1>7, <1>8

\* Confirming and finalizing change the state of a live event for another live one.
LEMMA SAdvanceInv ==
  ASSUME SInv, NEW n, NEW from \in {"PROVISIONAL", "CONFIRMED"}, NEW to \in {"CONFIRMED", "FINALIZED"},
         S!Advance(n, from, to)
  PROVE  SInv'
<1> DEFINE EType == [state: S!States, block: Hashes \cup {NoBlock}]
<1>1. UNCHANGED <<tip, made, canonical, observed>>
  BY DEF S!Advance
<1>2. events' = [t \in Traded |-> events'[t]]
  BY DEF S!Advance
<1>3. ASSUME NEW t \in Traded
      PROVE  events'[t] = events[t] \/ (events[t].state = from /\ events'[t] = [events[t] EXCEPT !.state = to])
  BY DEF S!Advance
<1>4. ASSUME NEW t \in Traded
      PROVE  /\ events'[t] \in EType /\ events'[t].block = events[t].block
             /\ S!Live(t)' => S!Live(t)
  <2>1. events[t] \in EType /\ to \in S!States
    BY DEF SInv, SShape, S!States
  <2> QED
    BY <1>3, <2>1 DEF S!Live
<1>5. SShape'
  BY <1>1, <1>2, <1>4 DEF SInv, SShape
<1>6. SHeldInv'
  BY <1>1, <1>4 DEF SInv, SHeldInv
<1> QED
  BY <1>5, <1>6 DEF SInv

LEMMA SNextInv == SInv /\ [S!Next]_(S!vars) => SInv'
<1> SUFFICES ASSUME SInv, [S!Next]_(S!vars)
             PROVE  SInv'
  OBVIOUS
<1>1. CASE S!Grow \/ S!Settle \/ S!Rest
  BY <1>1, SNetworkInv
<1>2. CASE S!Feed
  <2>1. PICK b \in (IF quiet THEN S!Chain[tip] ELSE made), r \in (IF quiet THEN S!Chain[tip] ELSE made) :
          S!IngestLatest(b, r)
    BY <1>2 DEF S!Feed
  <2>2. b \in Hashes /\ r \in Hashes
    <3>1. tip \in Hashes /\ made \subseteq Hashes
      BY DEF SInv, SShape
    <3> QED
      BY <2>1, <3>1, SChainIn
  <2> QED
    BY <2>1, <2>2, SIngestInv
<1>3. CASE S!MarkSafe
  BY <1>3, SAdvanceInv DEF S!MarkSafe
<1>4. CASE S!MarkFinalized
  BY <1>4, SAdvanceInv DEF S!MarkFinalized
<1>5. CASE UNCHANGED S!vars
  BY <1>5 DEF S!vars, SInv, SShape, SHeldInv, S!Live
<1> QED
  BY <1>1, <1>2, <1>3, <1>4, <1>5 DEF S!Next

\* Whatever the feed hands over, in whatever order and from whichever branch, and however receipts
\* and blocks are mixed up, a trade shown as seen, confirmed or final stands in the block that the
\* observer holds to be canonical at that height.
THEOREM LiveStaysCanonical == S!Spec => []LiveIsCanonical
<1>1. SInv => LiveIsCanonical
  BY DEF SInv, SHeldInv, LiveIsCanonical, S!LiveIsCanonical
<1> QED
  BY <1>1, SInitInv, SNextInv, PTL DEF S!Spec

-----------------------------------------------------------------------------
(***************************************************************************)
(* Updates.                                                                *)
(***************************************************************************)
UMarks   == {"no", "once", "twice", "excused"}
UReqType == [at: U!Steps, id: UpdateIds, index: Nat, words: Wordings]

UShape ==
  /\ ledger \in [UpdateIds -> U!Entry]
  /\ req \in [Handlers -> UReqType]
  /\ changed \in [UpdateIds -> Nat]
  /\ said \in [UpdateIds -> SUBSET (Wordings \cup {Nobody})]
  /\ sent = [u \in UpdateIds |-> [i \in DOMAIN ActionsOf[u] |-> sent[u][i]]]
  /\ \A u \in UpdateIds : \A i \in DOMAIN ActionsOf[u] : sent[u][i] \in UMarks

UUnstored(u) == ledger[u].row \in {"unseen", "rendering"}
UStored(u)   == ledger[u].row \in {"sending", "closed"}

\* The command has changed something only if its effect is kept, until the rendering is stored.
UChange(u) == changed[u] <= 1 /\ (UUnstored(u) /\ ~ledger[u].effect => changed[u] = 0)

\* Nothing is said before a rendering is stored, and then only its words.
UWords(u) == (UUnstored(u) => said[u] = {}) /\ (UStored(u) => said[u] \subseteq {ledger[u].words})

\* Nothing is posted before a rendering is stored, nor out of turn; a message at its turn that was
\* posted is under the lease of whoever posted it.
UTurn(u) ==
  /\ UUnstored(u) => ledger[u].next = 1
  /\ ledger[u].row = "sending" => ledger[u].next \in DOMAIN ActionsOf[u]
  /\ \A i \in DOMAIN ActionsOf[u] :
       /\ UUnstored(u) => sent[u][i] = "no"
       /\ sent[u][i] # "no" => ledger[u].next >= i
       /\ ActionsOf[u][i] # "callback" => sent[u][i] # "twice"
       /\ ActionsOf[u][i] # "callback" /\ sent[u][i] = "once" /\ ledger[u].row = "sending" /\ ledger[u].next = i =>
            ledger[u].by # Nobody

UUpdate(u) == UChange(u) /\ UWords(u) /\ UTurn(u)

\* Whoever sends an action holds the lease of it, unless the action is excused, and a message was
\* not posted yet; whoever gives back the lease of a message has not posted it.
URequest(r) ==
  LET u == req[r].id  i == req[r].index
  IN  /\ req[r].at \in {"send", "release", "advance"} => UStored(u) /\ i \in DOMAIN ActionsOf[u]
      /\ req[r].at = "send" =>
           /\ ledger[u].next >= i
           /\ sent[u][i] = "excused"
                \/ (ledger[u].row = "sending" /\ ledger[u].next = i /\ ledger[u].by = r /\ ledger[u].left > 0)
           /\ ActionsOf[u][i] # "callback" => sent[u][i] \in {"no", "excused"}
      /\ req[r].at = "release" /\ U!Holds(r) /\ ActionsOf[u][i] # "callback" => sent[u][i] # "once"

UInv == UShape /\ (\A u \in UpdateIds : UUpdate(u)) /\ (\A r \in Handlers : URequest(r))

-----------------------------------------------------------------------------
LEMMA UInitInv == U!Init => UInv
<1> SUFFICES ASSUME U!Init
             PROVE  UInv
  OBVIOUS
<1>1. /\ (CHOOSE u \in UpdateIds : TRUE) \in UpdateIds
      /\ (CHOOSE w \in Wordings : TRUE) \in Wordings
  BY UpdatesAssumption
<1>2. ledger \in [UpdateIds -> U!Entry]
  BY UpdatesAssumption DEF U!Init, U!Entry
<1>3. req \in [Handlers -> UReqType] /\ \A r \in Handlers : req[r].at = "idle"
  <2>1. "idle" \in U!Steps
    BY DEF U!Steps
  <2> QED
    BY <1>1, <2>1 DEF U!Init, UReqType
<1>4. /\ changed = [u \in UpdateIds |-> 0]
      /\ said = [u \in UpdateIds |-> {}]
      /\ sent = [u \in UpdateIds |-> [i \in DOMAIN ActionsOf[u] |-> "no"]]
  BY DEF U!Init
<1>5. UShape
  BY <1>2, <1>3, <1>4 DEF UShape, UMarks
<1>6. ASSUME NEW u \in UpdateIds
      PROVE  UUpdate(u)
  <2>1. ledger[u].row = "unseen" /\ ledger[u].next = 1
    BY DEF U!Init
  <2>2. UChange(u) /\ UWords(u)
    BY <1>4, <2>1 DEF UChange, UWords, UStored
  <2>3. UTurn(u)
    BY <1>4, <2>1 DEF UTurn
  <2> QED
    BY <2>2, <2>3 DEF UUpdate
<1>7. \A r \in Handlers : URequest(r)
  BY <1>3 DEF URequest
<1> QED
  BY <1>5, <1>6, <1>7 DEF UInv

\* A step of one request concerns one update; requests that are at another see nothing of it.
UOthersStand(r, u) ==
  /\ \A v \in UpdateIds : v # u => ledger'[v] = ledger[v] /\ changed'[v] = changed[v] /\ said'[v] = said[v] /\ sent'[v] = sent[v]
  /\ \A q \in Handlers : q # r => req'[q] = req[q]

LEMMA UStepInv ==
  ASSUME UInv, NEW r \in Handlers, NEW u \in UpdateIds, UShape', UOthersStand(r, u),
         UUpdate(u)', URequest(r)',
         \A q \in Handlers : q # r /\ req[q].id = u => URequest(q)'
  PROVE  UInv'
<1>1. ASSUME NEW v \in UpdateIds, v # u
      PROVE  UUpdate(v)'
  <2>1. UUpdate(v)
    BY DEF UInv
  <2>2. ledger'[v] = ledger[v] /\ changed'[v] = changed[v] /\ said'[v] = said[v] /\ sent'[v] = sent[v]
    BY <1>1 DEF UOthersStand
  <2> QED
    BY <2>1, <2>2 DEF UUpdate, UChange, UWords, UTurn, UUnstored, UStored
<1>2. ASSUME NEW q \in Handlers, q # r, req[q].id # u
      PROVE  URequest(q)'
  <2>1. URequest(q) /\ req[q].id \in UpdateIds
    BY DEF UInv, UShape, UReqType
  <2>2. req'[q] = req[q] /\ ledger'[req[q].id] = ledger[req[q].id] /\ sent'[req[q].id] = sent[req[q].id]
    BY <1>2, <2>1 DEF UOthersStand
  <2> QED
    BY <2>1, <2>2 DEF URequest, UStored, U!Holds
<1> QED
  BY <1>1, <1>2 DEF UInv

\* A request that is at none of the three steps under a lease promises nothing.
LEMMA UNothingPromised ==
  ASSUME NEW r \in Handlers, req'[r].at \notin {"send", "release", "advance"}
  PROVE  URequest(r)'
BY DEF URequest

\* What the others promise of an update stays true while its entry and its posts stand.
LEMMA UPromisesStand ==
  ASSUME UInv, NEW q \in Handlers, NEW u \in UpdateIds, req[q].id = u, req'[q] = req[q],
         ledger'[u] = ledger[u], sent'[u] = sent[u]
  PROVE  URequest(q)'
<1>1. URequest(q)
  BY DEF UInv
<1> QED
  BY <1>1 DEF URequest, UStored, U!Holds

LEMMA UTypes ==
  ASSUME UShape, NEW u \in UpdateIds
  PROVE  /\ ledger[u] \in U!Entry
         /\ ledger[u].next \in Nat /\ ledger[u].left \in 0 .. RenderLease
         /\ changed[u] \in Nat /\ said[u] \subseteq Wordings \cup {Nobody}
         /\ Len(ActionsOf[u]) \in Nat /\ DOMAIN ActionsOf[u] = 1 .. Len(ActionsOf[u])
BY UpdatesAssumption DEF UShape, U!Entry

LEMMA UReqTypes ==
  ASSUME UShape, NEW r \in Handlers
  PROVE  /\ req[r] \in UReqType /\ req[r].id \in UpdateIds /\ req[r].index \in Nat /\ req[r].words \in Wordings
BY DEF UShape, UReqType

\* A request moves on: to a step, an update, an action or words of its own.
LEMMA UReqMoves ==
  ASSUME UShape, NEW r \in Handlers, NEW at \in U!Steps, NEW u \in UpdateIds, NEW i \in Nat, NEW w \in Wordings,
         \/ req' = [req EXCEPT ![r] = [at |-> at, id |-> u, index |-> i, words |-> w]]
         \/ req' = [req EXCEPT ![r].at = at]
         \/ req' = [req EXCEPT ![r].at = at, ![r].id = u]
         \/ req' = [req EXCEPT ![r].at = at, ![r].id = u, ![r].index = i]
         \/ req' = [req EXCEPT ![r].at = at, ![r].index = i]
         \/ req' = [req EXCEPT ![r].at = at, ![r].words = w]
  PROVE  /\ req' \in [Handlers -> UReqType] /\ req'[r].at = at
         /\ \A q \in Handlers : q # r => req'[q] = req[q]
<1>1. req[r] \in UReqType /\ req \in [Handlers -> UReqType]
  BY DEF UShape
<1>2. PICK old \in UReqType : old = req[r]
  BY <1>1
<1> QED
  BY <1>1 DEF UReqType

LEMMA UStepNames ==
  /\ "idle" \in U!Steps /\ "render" \in U!Steps /\ "store" \in U!Steps /\ "claim" \in U!Steps
  /\ "send" \in U!Steps /\ "release" \in U!Steps /\ "advance" \in U!Steps
BY DEF U!Steps

LEMMA UFailMoves ==
  ASSUME UShape, NEW r \in Handlers, U!Fail(r)
  PROVE  /\ req' \in [Handlers -> UReqType] /\ req'[r].at = "idle"
         /\ \A q \in Handlers : q # r => req'[q] = req[q]
BY UStepNames, UReqTypes, UReqMoves DEF U!Fail

\* A request that ends changes nothing else.
LEMMA UFailInv ==
  ASSUME UInv, NEW r \in Handlers, U!Fail(r), UNCHANGED <<ledger, changed, sent, said>>
  PROVE  UInv'
<1>1. /\ req' \in [Handlers -> UReqType] /\ req'[r].at = "idle"
      /\ \A q \in Handlers : q # r => req'[q] = req[q]
  BY UFailMoves DEF UInv
<1>2. UShape'
  BY <1>1 DEF UInv, UShape
<1>3. \A u \in UpdateIds : UUpdate(u)'
  BY DEF UInv, UUpdate, UChange, UWords, UTurn, UUnstored, UStored
<1>4. ASSUME NEW q \in Handlers
      PROVE  URequest(q)'
  <2>1. CASE q = r
    BY <1>1, <2>1, UNothingPromised
  <2>2. CASE q # r
    BY <1>1, <2>2, UPromisesStand, UReqTypes DEF UInv
  <2> QED
    BY <2>1, <2>2
<1> QED
  BY <1>2, <1>3, <1>4 DEF UInv

\* Time passes only while nobody acts under a lease.
LEMMA UTickInv ==
  ASSUME UInv, U!Tick
  PROVE  UInv'
<1>1. /\ \A r \in Handlers : req[r].at \notin {"send", "release", "advance"}
      /\ ledger' = [u \in UpdateIds |-> [ledger[u] EXCEPT !.left = IF @ = 0 THEN 0 ELSE @ - 1]]
      /\ UNCHANGED <<req, changed, sent, said>>
  BY DEF U!Tick, U!past
<1>2. ASSUME NEW u \in UpdateIds
      PROVE  /\ ledger'[u] \in U!Entry
             /\ ledger'[u].row = ledger[u].row /\ ledger'[u].next = ledger[u].next
             /\ ledger'[u].words = ledger[u].words /\ ledger'[u].by = ledger[u].by
             /\ ledger'[u].effect = ledger[u].effect
  <2>1. ledger[u] \in U!Entry /\ ledger[u].left \in 0 .. RenderLease
    BY UTypes DEF UInv
  <2>2. (IF ledger[u].left = 0 THEN 0 ELSE ledger[u].left - 1) \in 0 .. RenderLease
    BY <2>1, UpdatesAssumption
  <2> QED
    BY <1>1, <2>1, <2>2 DEF U!Entry
<1>3. UShape'
  BY <1>1, <1>2 DEF UInv, UShape
<1>4. ASSUME NEW u \in UpdateIds
      PROVE  UUpdate(u)'
  <2>1. UUpdate(u)
    BY DEF UInv
  <2> QED
    BY <1>1, <1>2, <2>1 DEF UUpdate, UChange, UWords, UTurn, UUnstored, UStored
<1>5. \A r \in Handlers : URequest(r)'
  BY <1>1, UNothingPromised
<1> QED
  BY <1>3, <1>4, <1>5 DEF UInv

\* One entry changes, and stays an entry.
LEMMA UEntryMoves ==
  ASSUME UShape, NEW u \in UpdateIds, NEW e \in U!Entry, ledger' = [ledger EXCEPT ![u] = e]
  PROVE  /\ ledger' \in [UpdateIds -> U!Entry] /\ ledger'[u] = e
         /\ \A v \in UpdateIds : v # u => ledger'[v] = ledger[v]
BY DEF UShape

\* No request acts for an update whose rendering is not stored.
LEMMA UNobodyActs ==
  ASSUME UInv, NEW u \in UpdateIds, UUnstored(u), NEW q \in Handlers, req[q].id = u, req'[q] = req[q]
  PROVE  URequest(q)'
<1>1. URequest(q)
  BY DEF UInv
<1>2. req[q].at \notin {"send", "release", "advance"}
  BY <1>1 DEF URequest, UUnstored, UStored
<1> QED
  BY <1>2, UNothingPromised

\* What becomes of an entry when some of its fields are set.
LEMMA UEntryRow ==
  ASSUME NEW e \in U!Entry, NEW row \in {"unseen", "closed", "rendering", "sending"},
         NEW f, f = [e EXCEPT !.row = row]
  PROVE  /\ f \in U!Entry
         /\ f.row = row /\ f.words = e.words /\ f.next = e.next
         /\ f.left = e.left /\ f.by = e.by /\ f.effect = e.effect
BY DEF U!Entry

LEMMA UEntryEffect ==
  ASSUME NEW e \in U!Entry,
         NEW f, f = [e EXCEPT !.effect = TRUE]
  PROVE  /\ f \in U!Entry
         /\ f.row = e.row /\ f.words = e.words /\ f.next = e.next
         /\ f.left = e.left /\ f.by = e.by /\ f.effect = TRUE
BY DEF U!Entry

LEMMA UZero == 0 \in 0 .. RenderLease /\ RenderLease \in 0 .. RenderLease /\ RenderLease > 0
BY UpdatesAssumption

LEMMA UClaimFreshInv ==
  ASSUME UInv, NEW r \in Handlers, NEW u \in UpdateIds, req[r].at = "idle", U!ClaimFresh(r, u),
         UNCHANGED <<changed, sent, said>>
  PROVE  UInv'
<1>a. PICK e : e = IF U!Allowed(u) THEN [ledger[u] EXCEPT !.row = "rendering", !.left = RenderLease, !.by = r]
                                   ELSE [ledger[u] EXCEPT !.row = "closed"]
  OBVIOUS
<1>1. ledger[u] \in U!Entry /\ ledger[u].row = "unseen"
  BY UTypes DEF UInv, U!ClaimFresh
<1>2. /\ e \in U!Entry /\ e.next = ledger[u].next /\ e.effect = ledger[u].effect /\ e.words = ledger[u].words
      /\ e.row \in {"rendering", "closed"}
  <2>1. CASE U!Allowed(u)
    <3>1. PICK old \in U!Entry : old = ledger[u]
      BY <1>1
    <3>2. e = [old EXCEPT !.row = "rendering", !.left = RenderLease, !.by = r]
      BY <1>a, <2>1, <3>1
    <3> QED
      BY <3>1, <3>2, UZero DEF U!Entry
  <2>2. CASE ~U!Allowed(u)
    BY <1>a, <1>1, <2>2, UEntryRow
  <2> QED
    BY <2>1, <2>2
<1>3. ledger' = [ledger EXCEPT ![u] = e]
  BY <1>a DEF U!ClaimFresh
<1>4. /\ req' \in [Handlers -> UReqType] /\ req'[r].at \in {"idle", "render"}
      /\ \A q \in Handlers : q # r => req'[q] = req[q]
  <2>1. CASE U!Allowed(u)
    <3>1. req' = [req EXCEPT ![r].at = "render", ![r].id = u]
      BY <2>1 DEF U!ClaimFresh
    <3> QED
      BY <3>1, UStepNames, UReqTypes, UReqMoves DEF UInv
  <2>2. CASE ~U!Allowed(u)
    BY <2>2 DEF U!ClaimFresh, UInv, UShape
  <2> QED
    BY <2>1, <2>2
<1>5. /\ ledger' \in [UpdateIds -> U!Entry] /\ ledger'[u] = e
      /\ \A v \in UpdateIds : v # u => ledger'[v] = ledger[v]
  BY <1>2, <1>3, UEntryMoves DEF UInv
<1>6. UShape'
  BY <1>4, <1>5 DEF UInv, UShape
<1>7. UUpdate(u)'
  <2>1. UUpdate(u)
    BY DEF UInv
  <2> QED
    BY <1>1, <1>2, <1>5, <2>1 DEF UUpdate, UChange, UWords, UTurn, UUnstored, UStored
<1>8. URequest(r)'
  BY <1>4, UNothingPromised
<1>9. \A q \in Handlers : q # r /\ req[q].id = u => URequest(q)'
  BY <1>1, <1>4, UNobodyActs DEF UUnstored
<1>10. UOthersStand(r, u)
  BY <1>4, <1>5 DEF UOthersStand
<1> QED
  BY <1>6, <1>7, <1>8, <1>9, <1>10, UStepInv

LEMMA UStandsInv ==
  ASSUME UInv, UNCHANGED <<ledger, req, changed, sent, said>>
  PROVE  UInv'
<1>1. UShape'
  BY DEF UInv, UShape
<1>2. \A u \in UpdateIds : UUpdate(u)'
  BY DEF UInv, UUpdate, UChange, UWords, UTurn, UUnstored, UStored
<1>3. \A q \in Handlers : URequest(q)'
  BY UPromisesStand, UReqTypes DEF UInv
<1> QED
  BY <1>1, <1>2, <1>3 DEF UInv

LEMMA UClaimAgainInv ==
  ASSUME UInv, NEW r \in Handlers, NEW u \in UpdateIds, req[r].at = "idle", U!ClaimAgain(r, u),
         UNCHANGED <<changed, sent, said>>
  PROVE  UInv'
<1>1. CASE UNCHANGED <<ledger, req>>
  BY <1>1, UStandsInv
<1>2. CASE /\ ledger[u].row = "rendering"
           /\ ledger' = U!Lease(u, r)
           /\ req' = [req EXCEPT ![r].at = "render", ![r].id = u]
  <2>a. PICK e : e = [ledger[u] EXCEPT !.left = RenderLease, !.by = r]
    OBVIOUS
  <2>1. ledger[u] \in U!Entry
    BY UTypes DEF UInv
  <2>2. /\ e \in U!Entry /\ e.next = ledger[u].next /\ e.effect = ledger[u].effect /\ e.words = ledger[u].words
        /\ e.row = ledger[u].row
    <3>1. PICK old \in U!Entry : old = ledger[u]
      BY <2>1
    <3>2. e = [old EXCEPT !.left = RenderLease, !.by = r]
      BY <2>a, <3>1
    <3> QED
      BY <3>1, <3>2, UZero DEF U!Entry
  <2>3. ledger' = [ledger EXCEPT ![u] = e]
    BY <1>2, <2>a DEF U!Lease
  <2>4. /\ req' \in [Handlers -> UReqType] /\ req'[r].at = "render"
        /\ \A q \in Handlers : q # r => req'[q] = req[q]
    BY <1>2, UStepNames, UReqTypes, UReqMoves DEF UInv
  <2>5. /\ ledger' \in [UpdateIds -> U!Entry] /\ ledger'[u] = e
        /\ \A v \in UpdateIds : v # u => ledger'[v] = ledger[v]
    BY <2>2, <2>3, UEntryMoves DEF UInv
  <2>6. UShape'
    BY <2>4, <2>5 DEF UInv, UShape
  <2>7. UUpdate(u)'
    <3>1. UUpdate(u)
      BY DEF UInv
    <3> QED
      BY <1>2, <2>2, <2>5, <3>1 DEF UUpdate, UChange, UWords, UTurn, UUnstored, UStored
  <2>8. URequest(r)'
    BY <2>4, UNothingPromised
  <2>9. \A q \in Handlers : q # r /\ req[q].id = u => URequest(q)'
    BY <1>2, <2>4, UNobodyActs DEF UUnstored
  <2>10. UOthersStand(r, u)
    BY <2>4, <2>5 DEF UOthersStand
  <2> QED
    BY <2>6, <2>7, <2>8, <2>9, <2>10, UStepInv
<1>3. CASE /\ req' = [req EXCEPT ![r].at = "claim", ![r].id = u, ![r].index = ledger[u].next]
           /\ UNCHANGED ledger
  <2>1. /\ req' \in [Handlers -> UReqType] /\ req'[r].at = "claim"
        /\ \A q \in Handlers : q # r => req'[q] = req[q]
    BY <1>3, UStepNames, UTypes, UReqTypes, UReqMoves, ZenonT(60) DEF UInv
  <2>2. UShape'
    BY <1>3, <2>1 DEF UInv, UShape
  <2>3. UUpdate(u)'
    BY <1>3 DEF UInv, UUpdate, UChange, UWords, UTurn, UUnstored, UStored
  <2>4. URequest(r)'
    BY <2>1, UNothingPromised
  <2>5. \A q \in Handlers : q # r /\ req[q].id = u => URequest(q)'
    BY <1>3, <2>1, UPromisesStand
  <2>6. UOthersStand(r, u)
    BY <1>3, <2>1 DEF UOthersStand
  <2> QED
    BY <2>2, <2>3, <2>4, <2>5, <2>6, UStepInv
<1> QED
  BY <1>1, <1>2, <1>3 DEF U!ClaimAgain

\* The handler runs: it changes something only if no effect is kept.
LEMMA URenderInv ==
  ASSUME UInv, NEW r \in Handlers, U!Render(r)
  PROVE  UInv'
<1>a. PICK u \in UpdateIds : u = req[r].id
  BY UReqTypes DEF UInv
<1>e. PICK e : e = IF ledger[u].row = "rendering" THEN [ledger[u] EXCEPT !.effect = TRUE] ELSE ledger[u]
  OBVIOUS
<1>1. u \in UpdateIds /\ ledger[u] \in U!Entry /\ changed[u] \in Nat
  BY UTypes, UReqTypes DEF UInv
<1>2. /\ e \in U!Entry /\ e.next = ledger[u].next /\ e.words = ledger[u].words
      /\ e.row = ledger[u].row /\ e.by = ledger[u].by /\ e.left = ledger[u].left
      /\ e.effect = (ledger[u].effect \/ ledger[u].row = "rendering")
  <2>1. CASE ledger[u].row = "rendering"
    BY <1>e, <1>1, <2>1, UEntryEffect
  <2>2. CASE ledger[u].row # "rendering"
    BY <1>e, <1>1, <2>2 DEF U!Entry
  <2> QED
    BY <2>1, <2>2
<1>3. /\ ledger' = [ledger EXCEPT ![u] = e]
      /\ changed' \in [UpdateIds -> Nat]
      /\ changed'[u] = IF ledger[u].row = "rendering" /\ ~ledger[u].effect THEN changed[u] + 1 ELSE changed[u]
      /\ \A v \in UpdateIds : v # u => changed'[v] = changed[v]
  <2>1. ledger \in [UpdateIds -> U!Entry] /\ changed \in [UpdateIds -> Nat]
    BY DEF UInv, UShape
  <2>2. CASE ledger[u].row = "rendering"
    BY <1>a, <1>e, <1>1, <2>1, <2>2 DEF U!Render, U!EffectOnce
  <2>3. CASE ledger[u].row # "rendering"
    BY <1>a, <1>e, <1>1, <2>1, <2>3 DEF U!Render
  <2> QED
    BY <2>2, <2>3
<1>4. UNCHANGED <<sent, said>>
  BY DEF U!Render
<1>5. /\ req' \in [Handlers -> UReqType] /\ req'[r].at \in {"idle", "store"}
      /\ \A q \in Handlers : q # r => req'[q] = req[q]
  <2>1. CASE \E w \in Wordings : req' = [req EXCEPT ![r].at = "store", ![r].words = w]
    <3>1. PICK w \in Wordings : req' = [req EXCEPT ![r].at = "store", ![r].words = w]
      BY <2>1
    <3>2. UShape /\ "store" \in U!Steps /\ 1 \in Nat
      BY UStepNames DEF UInv
    <3> QED
      BY <1>1, <3>1, <3>2, UReqMoves
  <2>2. CASE U!Fail(r)
    BY <2>2, UFailMoves DEF UInv
  <2> QED
    BY <2>1, <2>2 DEF U!Render
<1>6. /\ ledger' \in [UpdateIds -> U!Entry] /\ ledger'[u] = e
      /\ \A v \in UpdateIds : v # u => ledger'[v] = ledger[v]
  BY <1>1, <1>2, <1>3, UEntryMoves DEF UInv
<1>7. UShape'
  BY <1>3, <1>4, <1>5, <1>6 DEF UInv, UShape
<1>8. UUpdate(u)'
  <2>1. UUpdate(u)
    BY <1>1 DEF UInv
  <2>2. UChange(u)'
    <3>1. UChange(u) /\ changed[u] \in Nat /\ ledger[u].effect \in BOOLEAN
      BY <1>1, <2>1 DEF UUpdate, U!Entry
    <3>2. CASE ledger[u].row = "rendering" /\ ~ledger[u].effect
      <4>1. changed[u] = 0
        BY <3>1, <3>2 DEF UChange, UUnstored
      <4>2. changed'[u] = 1
        BY <1>3, <3>2, <4>1
      <4>3. e.effect = TRUE
        BY <1>e, <1>1, <3>2, UEntryEffect
      <4> QED
        BY <1>6, <4>2, <4>3 DEF UChange
    <3>3. CASE ~(ledger[u].row = "rendering" /\ ~ledger[u].effect)
      <4>1. changed'[u] = changed[u]
        BY <1>3, <3>3
      <4> QED
        BY <1>2, <1>6, <3>1, <4>1 DEF UChange, UUnstored
    <3> QED
      BY <3>2, <3>3
  <2> QED
    BY <1>2, <1>4, <1>6, <2>1, <2>2 DEF UUpdate, UWords, UTurn, UUnstored, UStored
<1>9. URequest(r)'
  BY <1>5, UNothingPromised
<1>10. \A q \in Handlers : q # r /\ req[q].id = u => URequest(q)'
  <2>1. CASE ledger[u].row = "rendering"
    BY <1>1, <1>5, <2>1, UNobodyActs DEF UUnstored
  <2>2. CASE ledger[u].row # "rendering"
    <3>1. ledger'[u] = ledger[u]
      BY <1>e, <1>6, <2>2
    <3> QED
      BY <1>1, <1>4, <1>5, <3>1, UPromisesStand
  <2> QED
    BY <2>1, <2>2
<1>11. UOthersStand(r, u)
  BY <1>3, <1>4, <1>5, <1>6 DEF UOthersStand
<1> QED
  BY <1>1, <1>7, <1>8, <1>9, <1>10, <1>11, UStepInv

\* The posts of one update, as UShape has them.
USentShape ==
  /\ sent = [u \in UpdateIds |-> [i \in DOMAIN ActionsOf[u] |-> sent[u][i]]]
  /\ \A u \in UpdateIds : \A i \in DOMAIN ActionsOf[u] : sent[u][i] \in UMarks

\* What is remembered of one action changes.
LEMMA USentMoves ==
  ASSUME UShape, NEW u \in UpdateIds, NEW i \in Nat, NEW m \in UMarks, sent' = [sent EXCEPT ![u][i] = m]
  PROVE  /\ USentShape'
         /\ \A v \in UpdateIds : v # u => sent'[v] = sent[v]
         /\ \A j \in DOMAIN ActionsOf[u] : sent'[u][j] = IF j = i THEN m ELSE sent[u][j]
<1>1. /\ sent = [v \in UpdateIds |-> [j \in DOMAIN ActionsOf[v] |-> sent[v][j]]]
      /\ \A v \in UpdateIds : \A j \in DOMAIN ActionsOf[v] : sent[v][j] \in UMarks
  BY DEF UShape
<1>2. DOMAIN sent = UpdateIds
  BY <1>1
<1>3. \A v \in UpdateIds : DOMAIN sent[v] = DOMAIN ActionsOf[v]
  BY <1>1
<1>4. sent' = [v \in UpdateIds |-> IF v = u THEN [sent[u] EXCEPT ![i] = m] ELSE sent[v]]
  BY <1>2
<1>5. /\ \A v \in UpdateIds : v # u => sent'[v] = sent[v]
      /\ sent'[u] = [j \in DOMAIN ActionsOf[u] |-> IF j = i THEN m ELSE sent[u][j]]
  BY <1>3, <1>4
<1>6. \A v \in UpdateIds : sent'[v] = [j \in DOMAIN ActionsOf[v] |-> sent'[v][j]]
  <2> SUFFICES ASSUME NEW v \in UpdateIds
               PROVE  sent'[v] = [j \in DOMAIN ActionsOf[v] |-> sent'[v][j]]
    OBVIOUS
  <2>1. sent[v] = [j \in DOMAIN ActionsOf[v] |-> sent[v][j]]
    BY <1>1
  <2> QED
    BY <1>5, <2>1
<1>7. sent' = [v \in UpdateIds |-> [j \in DOMAIN ActionsOf[v] |-> sent'[v][j]]]
  BY <1>4, <1>6
<1>8. \A v \in UpdateIds : \A j \in DOMAIN ActionsOf[v] : sent'[v][j] \in UMarks
  BY <1>1, <1>5
<1> QED
  BY <1>5, <1>7, <1>8 DEF USentShape

\* A request takes up the action the update stands at, if nobody is at it.
LEMMA UClaimActionInv ==
  ASSUME UInv, NEW r \in Handlers, U!ClaimAction(r)
  PROVE  UInv'
<1>1. PICK u \in UpdateIds, i \in Nat, old \in U!Entry : u = req[r].id /\ i = req[r].index /\ old = ledger[u]
  BY UTypes, UReqTypes DEF UInv
<1>2. CASE U!Fail(r) /\ UNCHANGED <<ledger, sent>>
  <2>1. UNCHANGED <<changed, said>>
    BY DEF U!ClaimAction
  <2> QED
    BY <1>2, <2>1, UFailInv
<1>3. CASE ~(U!Fail(r) /\ UNCHANGED <<ledger, sent>>)
  <2>1. /\ old.row = "sending" /\ old.next = i /\ old.left = 0
        /\ ledger' = U!Lease(u, r) /\ U!Goto(r, "send")
        /\ sent' = [sent EXCEPT ![u][i] = IF old.by # Nobody /\ sent[u][i] = "once" THEN "excused" ELSE sent[u][i]]
        /\ UNCHANGED <<changed, said>>
    BY <1>1, <1>3 DEF U!ClaimAction, U!Free
  <2>2. UUpdate(u) /\ i \in DOMAIN ActionsOf[u] /\ sent[u][i] \in UMarks
    BY <1>1, <2>1 DEF UInv, UShape, UUpdate, UTurn
  <2>3. PICK m \in UMarks : m = IF old.by # Nobody /\ sent[u][i] = "once" THEN "excused" ELSE sent[u][i]
    BY <2>2 DEF UMarks
  <2>4. /\ USentShape'
        /\ \A v \in UpdateIds : v # u => sent'[v] = sent[v]
        /\ \A j \in DOMAIN ActionsOf[u] : sent'[u][j] = IF j = i THEN m ELSE sent[u][j]
    <3>1. sent' = [sent EXCEPT ![u][i] = m]
      BY <2>1, <2>3
    <3> QED
      BY <3>1, USentMoves DEF UInv
  <2>5. PICK e : e = [old EXCEPT !.left = RenderLease, !.by = r]
    OBVIOUS
  <2>6. /\ e \in U!Entry /\ e.row = old.row /\ e.words = old.words /\ e.next = old.next /\ e.effect = old.effect
        /\ e.left = RenderLease /\ e.by = r /\ e.left > 0
    BY <2>5, UZero DEF U!Entry
  <2>7. /\ ledger' \in [UpdateIds -> U!Entry] /\ ledger'[u] = e
        /\ \A v \in UpdateIds : v # u => ledger'[v] = ledger[v]
    <3>1. ledger' = [ledger EXCEPT ![u] = e]
      BY <1>1, <2>1, <2>5 DEF U!Lease
    <3> QED
      BY <2>6, <3>1, UEntryMoves DEF UInv
  <2>8. /\ req' \in [Handlers -> UReqType] /\ req'[r].at = "send" /\ req'[r].id = u /\ req'[r].index = i
        /\ \A q \in Handlers : q # r => req'[q] = req[q]
    <3>1. req' = [req EXCEPT ![r].at = "send"]
      BY <2>1 DEF U!Goto
    <3>2. req'[r].id = u /\ req'[r].index = i
      BY <1>1, <3>1 DEF UInv, UShape, UReqType
    <3>3. UShape /\ "send" \in U!Steps
      BY UStepNames DEF UInv
    <3> QED
      BY <1>1, <3>1, <3>2, <3>3, UReqMoves, UReqTypes
  <2>9. UShape'
    BY <2>1, <2>4, <2>7, <2>8 DEF UInv, UShape, USentShape
  <2>10. UUpdate(u)'
    <3>1. UChange(u)' /\ UWords(u)'
      BY <1>1, <2>1, <2>2, <2>6, <2>7 DEF UUpdate, UChange, UWords, UUnstored, UStored
    <3>2. r # Nobody
      BY UpdatesAssumption
    <3>3. UTurn(u)'
      <4>1. UTurn(u) /\ ledger'[u].row = "sending" /\ ledger'[u].next = i /\ ledger'[u].by = r
        BY <2>1, <2>2, <2>6, <2>7 DEF UUpdate
      <4>2. ASSUME NEW j \in DOMAIN ActionsOf[u]
            PROVE  /\ sent'[u][j] # "no" => i >= j
                   /\ ActionsOf[u][j] # "callback" => sent'[u][j] # "twice"
        <5>1. /\ sent[u][j] # "no" => i >= j
              /\ ActionsOf[u][j] # "callback" => sent[u][j] # "twice"
          BY <1>1, <2>1, <4>1 DEF UTurn
        <5>2. CASE j = i
          BY <1>1, <2>3, <2>4, <5>1, <5>2
        <5>3. CASE j # i
          BY <2>4, <5>1, <5>3
        <5> QED
          BY <5>2, <5>3
      <4> QED
        BY <2>2, <3>2, <4>1, <4>2 DEF UTurn, UUnstored
    <3> QED
      BY <3>1, <3>3 DEF UUpdate
  <2>11. URequest(r)'
    <3>1. ActionsOf[u][i] # "callback" => m \in {"no", "excused"}
      BY <1>1, <2>1, <2>2, <2>3 DEF UUpdate, UTurn, UMarks
    <3>2. sent'[u][i] = m
      BY <2>2, <2>4
    <3> QED
      BY <2>1, <2>2, <2>6, <2>7, <2>8, <3>1, <3>2 DEF URequest, UStored
  <2>12. ASSUME NEW q \in Handlers, q # r, req[q].id = u
         PROVE  URequest(q)'
    <3>1. URequest(q)
      BY DEF UInv
    <3>2. req'[q] = req[q]
      BY <2>8, <2>12
    <3>3. ASSUME req[q].at = "send"
          PROVE  sent[u][req[q].index] = "excused" /\ req[q].index \in DOMAIN ActionsOf[u]
      BY <1>1, <2>1, <2>12, <3>1, <3>3 DEF URequest
    <3>4. ASSUME req[q].at = "send"
          PROVE  sent'[u][req[q].index] = "excused"
      BY <2>3, <2>4, <3>3, <3>4
    <3> QED
      BY <1>1, <2>6, <2>7, <2>12, <3>1, <3>2, <3>4 DEF URequest, UStored, U!Holds
  <2>13. UOthersStand(r, u)
    BY <2>1, <2>4, <2>7, <2>8 DEF UOthersStand
  <2> QED
    BY <2>9, <2>10, <2>11, <2>12, <2>13, UStepInv
<1> QED
  BY <1>2, <1>3

\* An action is sent; it may reach Telegram, and the request goes where the outcome takes it.
LEMMA USendInv ==
  ASSUME UInv, NEW r \in Handlers, NEW outcome \in U!Outcomes, U!Send(r, outcome)
  PROVE  UInv'
<1>1. PICK u \in UpdateIds, i \in Nat, old \in U!Entry : u = req[r].id /\ i = req[r].index /\ old = ledger[u]
  BY UTypes, UReqTypes DEF UInv
<1>2. req[r].at = "send" /\ UNCHANGED <<ledger, changed>>
  BY DEF U!Send
<1>3. PICK reached \in IF outcome = "uncertain" THEN BOOLEAN ELSE {outcome = "accepted"} :
        /\ sent' = [sent EXCEPT ![u][i] = IF ~reached \/ @ = "excused" THEN @ ELSE IF @ = "once" THEN "twice" ELSE "once"]
        /\ said' = [said EXCEPT ![u] = IF reached THEN @ \cup {ledger[u].words} ELSE @]
  BY <1>1 DEF U!Send
<1>4. /\ UUpdate(u) /\ UStored(u) /\ i \in DOMAIN ActionsOf[u] /\ sent[u][i] \in UMarks /\ old.next >= i
      /\ sent[u][i] = "excused" \/ (old.row = "sending" /\ old.next = i /\ old.by = r /\ old.left > 0)
      /\ ActionsOf[u][i] # "callback" => sent[u][i] \in {"no", "excused"}
  BY <1>1, <1>2 DEF UInv, UShape, URequest
<1>5. PICK m \in UMarks :
        m = IF ~reached \/ sent[u][i] = "excused" THEN sent[u][i] ELSE IF sent[u][i] = "once" THEN "twice" ELSE "once"
  BY <1>4 DEF UMarks
<1>6. /\ USentShape'
      /\ \A v \in UpdateIds : v # u => sent'[v] = sent[v]
      /\ \A j \in DOMAIN ActionsOf[u] : sent'[u][j] = IF j = i THEN m ELSE sent[u][j]
  <2>1. sent' = [sent EXCEPT ![u][i] = m]
    BY <1>3, <1>5
  <2> QED
    BY <2>1, USentMoves DEF UInv
<1>7. /\ said' \in [UpdateIds -> SUBSET (Wordings \cup {Nobody})]
      /\ said'[u] \subseteq said[u] \cup {old.words}
      /\ \A v \in UpdateIds : v # u => said'[v] = said[v]
  <2>1. said \in [UpdateIds -> SUBSET (Wordings \cup {Nobody})] /\ old.words \in Wordings \cup {Nobody}
    BY DEF UInv, UShape, U!Entry
  <2> QED
    BY <1>1, <1>3, <2>1
<1>8. PICK at \in U!Steps : at = U!After(ActionsOf[u][i], outcome)
  BY UStepNames DEF U!After
<1>9. /\ req' \in [Handlers -> UReqType] /\ req'[r].at = at /\ req'[r].id = u /\ req'[r].index = i
      /\ \A q \in Handlers : q # r => req'[q] = req[q]
  <2>1. req' = [req EXCEPT ![r].at = at]
    BY <1>1, <1>8 DEF U!Send, U!Goto
  <2>2. req'[r].id = u /\ req'[r].index = i
    BY <1>1, <2>1 DEF UInv, UShape, UReqType
  <2>3. UShape
    BY DEF UInv
  <2> QED
    BY <1>1, <2>1, <2>2, <2>3, UReqMoves, UReqTypes
<1>10. UShape'
  BY <1>2, <1>6, <1>7, <1>9 DEF UInv, UShape, USentShape
<1>11. UUpdate(u)'
  <2>1. UChange(u)'
    BY <1>2, <1>4 DEF UUpdate, UChange, UUnstored
  <2>2. UWords(u)'
    BY <1>1, <1>2, <1>4, <1>7 DEF UUpdate, UWords, UUnstored, UStored
  <2>3. r # Nobody
    BY UpdatesAssumption
  <2>4. UTurn(u)'
    <3>1. UTurn(u) /\ ~UUnstored(u)
      BY <1>4 DEF UUpdate, UUnstored, UStored
    <3>2. ASSUME NEW j \in DOMAIN ActionsOf[u]
          PROVE  /\ sent'[u][j] # "no" => old.next >= j
                 /\ ActionsOf[u][j] # "callback" => sent'[u][j] # "twice"
                 /\ ActionsOf[u][j] # "callback" /\ sent'[u][j] = "once" /\ old.row = "sending" /\ old.next = j =>
                      old.by # Nobody
      <4>1. CASE j = i
        BY <1>4, <1>5, <1>6, <2>3, <4>1
      <4>2. CASE j # i
        <5>1. sent'[u][j] = sent[u][j]
          BY <1>6, <4>2
        <5> QED
          BY <1>1, <3>1, <5>1 DEF UTurn
      <4> QED
        BY <4>1, <4>2
    <3> QED
      BY <1>1, <1>2, <3>1, <3>2 DEF UTurn, UUnstored
  <2> QED
    BY <2>1, <2>2, <2>4 DEF UUpdate
<1>12. URequest(r)'
  <2>1. at # "send"
    BY <1>8 DEF U!After
  <2>2. at = "release" /\ ActionsOf[u][i] # "callback" => outcome = "refused"
    BY <1>8 DEF U!After, U!Outcomes
  <2>3. at = "release" /\ ActionsOf[u][i] # "callback" => sent'[u][i] # "once"
    BY <1>3, <1>4, <1>5, <1>6, <2>2
  <2> QED
    BY <1>2, <1>4, <1>9, <2>1, <2>3 DEF URequest, UStored
<1>13. ASSUME NEW q \in Handlers, q # r, req[q].id = u
       PROVE  URequest(q)'
  <2>1. URequest(q)
    BY DEF UInv
  <2>2. req'[q] = req[q] /\ ledger'[u] = ledger[u]
    BY <1>2, <1>9, <1>13
  <2>3. CASE sent[u][i] = "excused" \/ req[q].index # i
    <3>1. req[q].index \in DOMAIN ActionsOf[u] => sent'[u][req[q].index] = sent[u][req[q].index]
      BY <1>5, <1>6, <2>3
    <3> QED
      BY <1>13, <2>1, <2>2, <3>1 DEF URequest, UStored, U!Holds
  <2>4. CASE sent[u][i] # "excused" /\ req[q].index = i
    \* The lease is the sender's own: nobody else acts at this action.
    <3>1. old.by = r
      BY <1>4, <2>4
    <3>2. req[q].at # "send" /\ ~U!Holds(q)
      BY <1>1, <1>13, <2>1, <2>4, <3>1 DEF URequest, U!Holds
    <3> QED
      BY <1>4, <1>13, <2>1, <2>2, <2>4, <3>2 DEF URequest, UStored, U!Holds
  <2> QED
    BY <2>3, <2>4
<1>14. UOthersStand(r, u)
  BY <1>2, <1>6, <1>7, <1>9 DEF UOthersStand
<1> QED
  BY <1>10, <1>11, <1>12, <1>13, <1>14, UStepInv

\* Whoever promises something of an update under a lease holds it, or its action is excused; so once
\* the entry's holder is r, or nobody, all the others' actions are.
LEMMA UOthersExcused ==
  ASSUME UInv, NEW r \in Handlers, NEW q \in Handlers, q # r, NEW u \in UpdateIds, req[q].id = u, req'[q] = req[q],
         ledger[u].row = "sending", ledger[u].by = r, ledger'[u].row \in {"sending", "closed"},
         ledger'[u].next >= ledger[u].next, ledger'[u].next \in Nat, ledger'[u].by # q, sent'[u] = sent[u]
  PROVE  URequest(q)'
<1>1. URequest(q) /\ req[q].index \in Nat /\ ledger[u].next \in Nat
  BY UTypes, UReqTypes DEF UInv
<1>2. CASE req[q].at = "send"
  <2>1. sent[u][req[q].index] = "excused" /\ req[q].index \in DOMAIN ActionsOf[u] /\ ledger[u].next >= req[q].index
    BY <1>1, <1>2 DEF URequest
  <2>2. ledger'[u].next >= req[q].index
    BY <1>1, <2>1
  <2> QED
    BY <1>2, <2>1, <2>2 DEF URequest, UStored
<1>3. CASE req[q].at # "send"
  <2>1. req'[q].id = u /\ req'[q].at # "send" /\ ~U!Holds(q)'
    BY <1>3 DEF U!Holds
  <2>2. req'[q].at \in {"release", "advance"} => req'[q].index \in DOMAIN ActionsOf[u]
    BY <1>1 DEF URequest
  <2> QED
    BY <2>1, <2>2 DEF URequest, UStored
<1> QED
  BY <1>2, <1>3

\* A lease is given back.
LEMMA UReleaseInv ==
  ASSUME UInv, NEW r \in Handlers, U!Release(r)
  PROVE  UInv'
<1>1. PICK u \in UpdateIds, i \in Nat, old \in U!Entry : u = req[r].id /\ i = req[r].index /\ old = ledger[u]
  BY UTypes, UReqTypes DEF UInv
<1>2. req[r].at = "release" /\ U!Fail(r) /\ UNCHANGED <<changed, sent, said>>
  BY DEF U!Release, U!past
<1>3. CASE ~U!Holds(r)
  BY <1>2, <1>3, UFailInv DEF U!Release
<1>4. CASE U!Holds(r)
  <2>1. old.row = "sending" /\ old.next = i /\ old.by = r
    BY <1>1, <1>4 DEF U!Holds
  <2>2. PICK e : e = [old EXCEPT !.left = 0, !.by = Nobody]
    OBVIOUS
  <2>3. /\ e \in U!Entry /\ e.row = old.row /\ e.words = old.words /\ e.next = old.next /\ e.effect = old.effect
        /\ e.by = Nobody /\ e.next \in Nat
    BY <2>2, UZero DEF U!Entry
  <2>4. /\ ledger' \in [UpdateIds -> U!Entry] /\ ledger'[u] = e
        /\ \A v \in UpdateIds : v # u => ledger'[v] = ledger[v]
    <3>1. ledger' = [ledger EXCEPT ![u] = e]
      BY <1>1, <1>4, <2>2 DEF U!Release
    <3> QED
      BY <2>3, <3>1, UEntryMoves DEF UInv
  <2>5. /\ req' \in [Handlers -> UReqType] /\ req'[r].at = "idle"
        /\ \A q \in Handlers : q # r => req'[q] = req[q]
    BY <1>2, UFailMoves DEF UInv
  <2>6. UShape'
    BY <1>2, <2>4, <2>5 DEF UInv, UShape
  <2>7. UUpdate(u)'
    <3>1. UUpdate(u) /\ URequest(r)
      BY DEF UInv
    <3>2. UChange(u)' /\ UWords(u)'
      BY <1>1, <1>2, <2>3, <2>4, <3>1 DEF UUpdate, UChange, UWords, UUnstored, UStored
    <3>3. ActionsOf[u][i] # "callback" => sent[u][i] # "once"
      BY <1>1, <1>2, <1>4, <3>1 DEF URequest
    <3>4. UTurn(u)'
      BY <1>1, <1>2, <2>1, <2>3, <2>4, <3>1, <3>3 DEF UUpdate, UTurn, UUnstored
    <3> QED
      BY <3>2, <3>4 DEF UUpdate
  <2>8. URequest(r)'
    BY <2>5, UNothingPromised
  <2>9. ASSUME NEW q \in Handlers, q # r, req[q].id = u
        PROVE  URequest(q)'
    <3>1. req'[q] = req[q] /\ sent'[u] = sent[u] /\ Nobody # q
      BY <1>2, <2>5, <2>9, UpdatesAssumption
    <3>2. /\ ledger[u].row = "sending" /\ ledger[u].by = r /\ ledger'[u].row \in {"sending", "closed"}
          /\ ledger'[u].next >= ledger[u].next /\ ledger'[u].next \in Nat /\ ledger'[u].by # q
      BY <1>1, <2>1, <2>3, <2>4, <3>1
    <3> QED
      BY <2>9, <3>1, <3>2, UOthersExcused
  <2>10. UOthersStand(r, u)
    BY <1>2, <2>4, <2>5 DEF UOthersStand
  <2> QED
    BY <2>6, <2>7, <2>8, <2>9, <2>10, UStepInv
<1> QED
  BY <1>3, <1>4

\* An action is over: the next one is at its turn, or the update is closed.
LEMMA UAdvanceInv ==
  ASSUME UInv, NEW r \in Handlers, U!Advance(r)
  PROVE  UInv'
<1>1. PICK u \in UpdateIds, i \in Nat, old \in U!Entry : u = req[r].id /\ i = req[r].index /\ old = ledger[u]
  BY UTypes, UReqTypes DEF UInv
<1>2. UNCHANGED <<changed, sent, said>>
  BY DEF U!Advance
<1>3. CASE ~U!Holds(r)
  BY <1>2, <1>3, UFailInv DEF U!Advance
<1>4. CASE U!Holds(r)
  <2>1. old.row = "sending" /\ old.next = i /\ old.by = r
    BY <1>1, <1>4 DEF U!Holds
  <2>2. UUpdate(u) /\ Len(ActionsOf[u]) \in Nat /\ DOMAIN ActionsOf[u] = 1 .. Len(ActionsOf[u])
    BY UTypes DEF UInv
  <2>3. i \in 1 .. Len(ActionsOf[u])
    BY <1>1, <2>1, <2>2 DEF UUpdate, UTurn
  <2>4. PICK e : e = IF i = Len(ActionsOf[u]) THEN [old EXCEPT !.row = "closed", !.left = 0]
                                             ELSE [old EXCEPT !.next = i + 1, !.left = 0, !.by = Nobody]
    OBVIOUS
  <2>5. /\ e \in U!Entry /\ e.words = old.words /\ e.effect = old.effect /\ e.next \in Nat
        /\ IF i = Len(ActionsOf[u]) THEN e.row = "closed" /\ e.next = i /\ e.by = r
                                    ELSE e.row = "sending" /\ e.next = i + 1 /\ e.by = Nobody
    <3>1. CASE i = Len(ActionsOf[u])
      <4>1. e = [old EXCEPT !.row = "closed", !.left = 0]
        BY <2>4, <3>1
      <4> QED
        BY <2>1, <3>1, <4>1, UZero DEF U!Entry
    <3>2. CASE i # Len(ActionsOf[u])
      <4>1. e = [old EXCEPT !.next = i + 1, !.left = 0, !.by = Nobody] /\ i + 1 \in Nat
        BY <2>4, <3>2
      <4> QED
        BY <2>1, <3>2, <4>1, UZero DEF U!Entry
    <3> QED
      BY <3>1, <3>2
  <2>6. /\ ledger' \in [UpdateIds -> U!Entry] /\ ledger'[u] = e
        /\ \A v \in UpdateIds : v # u => ledger'[v] = ledger[v]
    <3>1. ledger' = [ledger EXCEPT ![u] = e]
      BY <1>1, <1>4, <2>4 DEF U!Advance
    <3> QED
      BY <2>5, <3>1, UEntryMoves DEF UInv
  <2>7. /\ req' \in [Handlers -> UReqType] /\ req'[r].at \in {"idle", "claim"}
        /\ \A q \in Handlers : q # r => req'[q] = req[q]
    <3>1. CASE i = Len(ActionsOf[u])
      BY <1>1, <1>4, <3>1, UFailMoves DEF UInv, U!Advance
    <3>2. CASE i # Len(ActionsOf[u])
      <4>1. req' = [req EXCEPT ![r].at = "claim", ![r].index = i + 1] /\ i + 1 \in Nat
        BY <1>1, <1>4, <3>2 DEF U!Advance
      <4>2. UShape /\ "claim" \in U!Steps
        BY UStepNames DEF UInv
      <4> QED
        BY <1>1, <4>1, <4>2, UReqMoves, UReqTypes
    <3> QED
      BY <3>1, <3>2
  <2>8. UShape'
    BY <1>2, <2>6, <2>7 DEF UInv, UShape
  <2>9. UUpdate(u)'
    <3>1. UChange(u)' /\ UWords(u)'
      BY <1>1, <1>2, <2>1, <2>2, <2>5, <2>6 DEF UUpdate, UChange, UWords, UUnstored, UStored
    <3>2. UTurn(u)
      BY <2>2 DEF UUpdate
    <3>3. ledger'[u].row = "sending" => ledger'[u].next \in DOMAIN ActionsOf[u] /\ ledger'[u].next = i + 1
      BY <2>2, <2>3, <2>5, <2>6
    <3>4. ASSUME NEW j \in DOMAIN ActionsOf[u]
          PROVE  /\ sent'[u][j] # "no" => ledger'[u].next >= j
                 /\ ActionsOf[u][j] # "callback" => sent'[u][j] # "twice"
                 /\ sent'[u][j] # "no" => i >= j
      <4>1. /\ sent[u][j] # "no" => i >= j
            /\ ActionsOf[u][j] # "callback" => sent[u][j] # "twice"
        BY <1>1, <2>1, <3>2 DEF UTurn
      <4>2. sent'[u][j] = sent[u][j] /\ j \in Nat /\ ledger'[u].next \in {i, i + 1}
        BY <1>2, <2>2, <2>5, <2>6
      <4> QED
        BY <4>1, <4>2
    <3>5. \A j \in DOMAIN ActionsOf[u] : ledger'[u].row = "sending" /\ ledger'[u].next = j => sent'[u][j] = "no"
      BY <2>2, <3>3, <3>4
    <3>6. ~UUnstored(u)'
      BY <2>5, <2>6 DEF UUnstored
    <3>7. UTurn(u)'
      BY <3>3, <3>4, <3>5, <3>6 DEF UTurn
    <3> QED
      BY <3>1, <3>7 DEF UUpdate
  <2>10. URequest(r)'
    BY <2>7, UNothingPromised
  <2>11. ASSUME NEW q \in Handlers, q # r, req[q].id = u
         PROVE  URequest(q)'
    <3>1. req'[q] = req[q] /\ sent'[u] = sent[u] /\ Nobody # q
      BY <1>2, <2>7, <2>11, UpdatesAssumption
    <3>2. /\ ledger[u].row = "sending" /\ ledger[u].by = r /\ ledger'[u].row \in {"sending", "closed"}
          /\ ledger'[u].next >= ledger[u].next /\ ledger'[u].next \in Nat /\ ledger'[u].by # q
      BY <1>1, <2>1, <2>3, <2>5, <2>6, <2>11, <3>1
    <3> QED
      BY <2>11, <3>1, <3>2, UOthersExcused
  <2>12. UOthersStand(r, u)
    BY <1>2, <2>6, <2>7 DEF UOthersStand
  <2> QED
    BY <2>8, <2>9, <2>10, <2>11, <2>12, UStepInv
<1> QED
  BY <1>3, <1>4

\* A rendering is stored; the same words again take the lease from whoever sends them by now.
LEMMA UStoreInv ==
  ASSUME UInv, NEW r \in Handlers, U!Store(r)
  PROVE  UInv'
<1>1. PICK u \in UpdateIds, w \in Wordings, old \in U!Entry : u = req[r].id /\ w = req[r].words /\ old = ledger[u]
  BY UTypes, UReqTypes DEF UInv
<1>2. PICK n \in Nat : n = old.next
  BY DEF U!Entry
<1>3. UUpdate(u) /\ Len(ActionsOf[u]) \in Nat /\ DOMAIN ActionsOf[u] = 1 .. Len(ActionsOf[u])
  BY UTypes DEF UInv
<1>4. UNCHANGED <<changed, said>>
  BY DEF U!Store
<1>5. CASE ~U!Storable(u, w)
  BY <1>1, <1>4, <1>5, UFailInv DEF U!Store
<1>6. CASE old.row = "rendering"
  <2>1. sent' = sent
    BY <1>1, <1>6 DEF U!Store
  <2>2. PICK e : e = IF ActionsOf[u] = <<>> THEN [old EXCEPT !.row = "closed", !.effect = FALSE]
                     ELSE [old EXCEPT !.row = "sending", !.words = w, !.left = 0, !.by = Nobody, !.effect = FALSE]
    OBVIOUS
  <2>3. /\ e \in U!Entry /\ e.next = n /\ e.row \in {"closed", "sending"}
        /\ e.row = "sending" => ActionsOf[u] # <<>>
    <3>1. CASE ActionsOf[u] = <<>>
      <4>1. e = [old EXCEPT !.row = "closed", !.effect = FALSE]
        BY <2>2, <3>1
      <4> QED
        BY <1>2, <4>1 DEF U!Entry
    <3>2. CASE ActionsOf[u] # <<>>
      <4>1. e = [old EXCEPT !.row = "sending", !.words = w, !.left = 0, !.by = Nobody, !.effect = FALSE]
        BY <2>2, <3>2
      <4> QED
        BY <1>2, <3>2, <4>1, UZero DEF U!Entry
    <3> QED
      BY <3>1, <3>2
  <2>4. /\ ledger' \in [UpdateIds -> U!Entry] /\ ledger'[u] = e
        /\ \A v \in UpdateIds : v # u => ledger'[v] = ledger[v]
    <3>1. ledger' = [ledger EXCEPT ![u] = e]
      BY <1>1, <1>6, <2>2 DEF U!Store, U!Storable
    <3> QED
      BY <2>3, <3>1, UEntryMoves DEF UInv
  <2>5. /\ req' \in [Handlers -> UReqType] /\ req'[r].at \in {"idle", "claim"}
        /\ \A q \in Handlers : q # r => req'[q] = req[q]
    <3>1. CASE ActionsOf[u] = <<>>
      BY <1>1, <1>6, <3>1, UFailMoves DEF UInv, U!Store, U!Storable
    <3>2. CASE ActionsOf[u] # <<>>
      <4>1. req' = [req EXCEPT ![r].at = "claim", ![r].index = n]
        BY <1>1, <1>2, <1>6, <3>2 DEF U!Store, U!Storable
      <4>2. UShape /\ "claim" \in U!Steps
        BY UStepNames DEF UInv
      <4> QED
        BY <1>1, <4>1, <4>2, UReqMoves, UReqTypes
    <3> QED
      BY <3>1, <3>2
  <2>6. UShape'
    BY <1>4, <2>1, <2>4, <2>5 DEF UInv, UShape
  <2>7. UUpdate(u)'
    <3>1. UUnstored(u) /\ n = 1
      BY <1>1, <1>2, <1>3, <1>6 DEF UUpdate, UTurn, UUnstored
    <3>2. UChange(u)' /\ UWords(u)'
      BY <1>1, <1>3, <1>4, <2>3, <2>4, <3>1 DEF UUpdate, UChange, UWords, UUnstored, UStored
    <3>3. e.row = "sending" => 1 \in DOMAIN ActionsOf[u]
      <4>1. ActionsOf[u] \in Seq({"message", "photo", "callback"})
        BY UpdatesAssumption
      <4>2. ActionsOf[u] # <<>> => Len(ActionsOf[u]) >= 1
        BY <1>3, <4>1
      <4> QED
        BY <1>3, <2>3, <4>2
    <3>4. \A j \in DOMAIN ActionsOf[u] : sent'[u][j] = "no"
      BY <1>3, <2>1, <3>1 DEF UUpdate, UTurn
    <3>5. UTurn(u)'
      BY <2>3, <2>4, <3>1, <3>3, <3>4 DEF UTurn, UUnstored
    <3> QED
      BY <3>2, <3>5 DEF UUpdate
  <2>8. URequest(r)'
    BY <2>5, UNothingPromised
  <2>9. \A q \in Handlers : q # r /\ req[q].id = u => URequest(q)'
    BY <1>1, <1>6, <2>5, UNobodyActs DEF UUnstored
  <2>10. UOthersStand(r, u)
    BY <1>4, <2>1, <2>4, <2>5 DEF UOthersStand
  <2> QED
    BY <2>6, <2>7, <2>8, <2>9, <2>10, UStepInv
<1>7. CASE old.row = "sending" /\ old.words = w
  <2>1. n \in DOMAIN ActionsOf[u] /\ ActionsOf[u] # <<>>
    BY <1>1, <1>2, <1>3, <1>7 DEF UUpdate, UTurn
  <2>2. /\ USentShape'
        /\ \A v \in UpdateIds : v # u => sent'[v] = sent[v]
        /\ \A j \in DOMAIN ActionsOf[u] : sent'[u][j] = IF j = n THEN "excused" ELSE sent[u][j]
    <3>1. sent' = [sent EXCEPT ![u][n] = "excused"]
      BY <1>1, <1>2, <1>7 DEF U!Store, U!Storable
    <3>2. "excused" \in UMarks
      BY DEF UMarks
    <3> QED
      BY <3>1, <3>2, USentMoves DEF UInv
  <2>3. PICK e : e = [old EXCEPT !.row = "sending", !.words = w, !.left = 0, !.by = Nobody, !.effect = FALSE]
    OBVIOUS
  <2>4. e \in U!Entry /\ e.next = n /\ e.row = "sending" /\ e.words = w /\ e.by = Nobody
    BY <1>2, <2>3, UZero DEF U!Entry
  <2>5. /\ ledger' \in [UpdateIds -> U!Entry] /\ ledger'[u] = e
        /\ \A v \in UpdateIds : v # u => ledger'[v] = ledger[v]
    <3>a. U!Storable(u, w)
      BY <1>1, <1>7 DEF U!Storable
    <3>b. ledger' = [ledger EXCEPT ![u].row = "sending", ![u].words = w, ![u].left = 0, ![u].by = Nobody, ![u].effect = FALSE]
      BY <1>1, <2>1, <3>a DEF U!Store
    <3>c. ledger \in [UpdateIds -> U!Entry]
      BY DEF UInv, UShape
    <3>1. ledger' = [ledger EXCEPT ![u] = e]
      BY <1>1, <2>3, <3>b, <3>c
    <3> QED
      BY <2>4, <3>1, UEntryMoves DEF UInv
  <2>6. /\ req' \in [Handlers -> UReqType] /\ req'[r].at = "claim"
        /\ \A q \in Handlers : q # r => req'[q] = req[q]
    <3>1. req' = [req EXCEPT ![r].at = "claim", ![r].index = n]
      BY <1>1, <1>2, <1>7, <2>1 DEF U!Store, U!Storable
    <3>2. UShape /\ "claim" \in U!Steps
      BY UStepNames DEF UInv
    <3> QED
      BY <1>1, <3>1, <3>2, UReqMoves, UReqTypes
  <2>7. UShape'
    BY <1>4, <2>2, <2>5, <2>6 DEF UInv, UShape, USentShape
  <2>8. UUpdate(u)'
    <3>1. UChange(u)' /\ UWords(u)'
      BY <1>1, <1>3, <1>4, <1>7, <2>4, <2>5 DEF UUpdate, UChange, UWords, UUnstored, UStored
    <3>2. ASSUME NEW j \in DOMAIN ActionsOf[u]
          PROVE  /\ sent'[u][j] # "no" => n >= j
                 /\ ActionsOf[u][j] # "callback" => sent'[u][j] # "twice"
                 /\ n = j => sent'[u][j] = "excused"
      <4>1. /\ sent[u][j] # "no" => n >= j
            /\ ActionsOf[u][j] # "callback" => sent[u][j] # "twice"
        BY <1>1, <1>2, <1>3 DEF UUpdate, UTurn
      <4> QED
        BY <2>2, <4>1
    <3>3. UTurn(u)'
      BY <2>1, <2>4, <2>5, <3>2 DEF UTurn, UUnstored
    <3> QED
      BY <3>1, <3>3 DEF UUpdate
  <2>9. URequest(r)'
    BY <2>6, UNothingPromised
  <2>10. ASSUME NEW q \in Handlers, q # r, req[q].id = u
         PROVE  URequest(q)'
    <3>1. URequest(q) /\ req'[q] = req[q] /\ Nobody # q
      BY <2>6, <2>10, UpdatesAssumption DEF UInv
    <3>2. req[q].at # "release" \/ ~U!Holds(q)'
      BY <2>4, <2>5, <2>10, <3>1 DEF U!Holds
    <3>3. req[q].at \in {"send", "release", "advance"} => req[q].index \in DOMAIN ActionsOf[u]
      BY <2>10, <3>1 DEF URequest
    <3>4. req[q].at = "send" => sent'[u][req[q].index] = "excused" /\ n >= req[q].index
      BY <1>1, <1>2, <2>2, <2>10, <3>1, <3>3 DEF URequest
    <3> QED
      BY <2>4, <2>5, <2>10, <3>1, <3>2, <3>3, <3>4 DEF URequest, UStored
  <2>11. UOthersStand(r, u)
    BY <1>4, <2>2, <2>5, <2>6 DEF UOthersStand
  <2> QED
    BY <2>7, <2>8, <2>9, <2>10, <2>11, UStepInv
<1> QED
  BY <1>1, <1>5, <1>6, <1>7 DEF U!Storable

-----------------------------------------------------------------------------
LEMMA UNextInv == UInv /\ [U!Next]_(U!vars) => UInv'
<1> SUFFICES ASSUME UInv, [U!Next]_(U!vars)
             PROVE  UInv'
  OBVIOUS
<1>1. CASE U!Tick
  BY <1>1, UTickInv
<1>2. CASE U!BucketExpires
  BY <1>2, UStandsInv DEF U!BucketExpires, U!past
<1>3. ASSUME NEW r \in Handlers, NEW u \in UpdateIds, U!Post(r, u)
      PROVE  UInv'
  BY <1>3, UClaimFreshInv, UClaimAgainInv DEF U!Post
<1>4. ASSUME NEW r \in Handlers, U!Goes(r)
      PROVE  UInv'
  BY <1>4, USendInv, URenderInv, UStoreInv, UClaimActionInv, UReleaseInv, UAdvanceInv DEF U!Goes
<1>5. ASSUME NEW r \in Handlers, U!Die(r)
      PROVE  UInv'
  BY <1>5, UFailInv DEF U!Die, U!past
<1>6. CASE UNCHANGED U!vars
  BY <1>6, UStandsInv DEF U!vars
<1> QED
  BY <1>1, <1>2, <1>3, <1>4, <1>5, <1>6 DEF U!Next

LEMMA USafe == UInv => AnsweredOnce
<1> SUFFICES ASSUME UInv
             PROVE  AnsweredOnce
  OBVIOUS
<1>1. \A u \in UpdateIds : UUpdate(u) /\ ledger[u] \in U!Entry
  BY UTypes DEF UInv
<1>2. U!ChangedOnce
  BY <1>1 DEF U!ChangedOnce, UUpdate, UChange
<1>3. U!PostedOnce
  BY <1>1 DEF U!PostedOnce, UUpdate, UTurn
<1>4. U!OneRendering
  BY <1>1 DEF U!OneRendering, UUpdate, UWords, UUnstored, UStored, U!Entry
<1> QED
  BY <1>2, <1>3, <1>4 DEF AnsweredOnce, U!AnsweredOnce

\* However often Telegram delivers an update, to however many requests at once, and wherever they die:
\* its command changes something at most once, no message is posted twice under a lease that held,
\* none before its turn, and all that is said is of one rendering.
THEOREM UpdatesAreAnsweredOnce == U!Spec => []AnsweredOnce
BY UInitInv, UNextInv, USafe, PTL DEF U!Spec

-----------------------------------------------------------------------------
(* Tape.  A buy is queued before it is counted, and counted with its row;  *)
(* a page is recorded in the order of the chain, however often it is       *)
(* begun again.  So the buys before one that has a line are all counted,   *)
(* and whoever looks first at a wallet looks at its first buy.             *)

\* Lines in a list.
TListed(q) == q \in Seq(T!Lines) /\ T!IsInjective(q)

LEMMA TBehind ==
  ASSUME NEW q, TListed(q), q # <<>>
  PROVE  /\ TListed(T!GoesBehind(q)) /\ T!Range(T!GoesBehind(q)) = T!Range(q)
         /\ Head(q) \in T!Range(q) /\ Head(q) \in T!Lines
<1>1. q \in Seq(T!Lines) /\ Len(q) \in Nat /\ Len(q) >= 1 /\ \A i, j \in 1 .. Len(q) : q[i] = q[j] => i = j
  BY DEF TListed, T!IsInjective
<1>2. PICK g : g = T!GoesBehind(q)
  OBVIOUS
<1>3. /\ g \in Seq(T!Lines) /\ Len(g) = Len(q) /\ g[Len(q)] = q[1]
      /\ \A i \in 1 .. Len(q) - 1 : g[i] = q[i + 1]
  BY <1>1, <1>2 DEF T!GoesBehind
<1>4. \A i, j \in 1 .. Len(q) : g[i] = g[j] => i = j
  <2>1. ASSUME NEW i \in 1 .. Len(q), NEW j \in 1 .. Len(q), g[i] = g[j] PROVE i = j
    <3>1. CASE i = Len(q) /\ j = Len(q)
      BY <3>1
    <3>2. CASE i = Len(q) /\ j # Len(q)
      <4>1. j \in 1 .. Len(q) - 1 /\ j + 1 \in 1 .. Len(q) /\ 1 \in 1 .. Len(q) /\ j + 1 # 1
        BY <1>1, <3>2
      <4> QED
        BY <1>1, <1>3, <2>1, <3>2, <4>1
    <3>3. CASE i # Len(q) /\ j = Len(q)
      <4>1. i \in 1 .. Len(q) - 1 /\ i + 1 \in 1 .. Len(q) /\ 1 \in 1 .. Len(q) /\ i + 1 # 1
        BY <1>1, <3>3
      <4> QED
        BY <1>1, <1>3, <2>1, <3>3, <4>1
    <3>4. CASE i # Len(q) /\ j # Len(q)
      <4>1. i \in 1 .. Len(q) - 1 /\ j \in 1 .. Len(q) - 1 /\ i + 1 \in 1 .. Len(q) /\ j + 1 \in 1 .. Len(q)
        BY <1>1, <3>4
      <4>2. i + 1 = j + 1
        BY <1>1, <1>3, <2>1, <4>1
      <4> QED
        BY <4>1, <4>2
    <3> QED
      BY <3>1, <3>2, <3>3, <3>4
  <2> QED
    BY <2>1
<1>5. T!Range(g) = T!Range(q)
  <2>1. ASSUME NEW i \in 1 .. Len(q) PROVE \E j \in 1 .. Len(q) : g[j] = q[i]
    <3>1. CASE i = 1
      BY <1>1, <1>3, <3>1
    <3>2. CASE i # 1
      <4>1. i - 1 \in 1 .. Len(q) - 1 /\ (i - 1) + 1 = i /\ i - 1 \in 1 .. Len(q)
        BY <1>1, <3>2
      <4> QED
        BY <1>3, <4>1
    <3> QED
      BY <3>1, <3>2
  <2>2. ASSUME NEW i \in 1 .. Len(q) PROVE \E j \in 1 .. Len(q) : q[j] = g[i]
    <3>1. CASE i = Len(q)
      BY <1>1, <1>3, <3>1
    <3>2. CASE i # Len(q)
      <4>1. i \in 1 .. Len(q) - 1 /\ i + 1 \in 1 .. Len(q)
        BY <1>1, <3>2
      <4> QED
        BY <1>3, <4>1
    <3> QED
      BY <3>1, <3>2
  <2>3. DOMAIN g = 1 .. Len(q) /\ DOMAIN q = 1 .. Len(q)
    BY <1>1, <1>3
  <2>4. ASSUME NEW y \in T!Range(g) PROVE y \in T!Range(q)
    <3>1. PICK i \in 1 .. Len(q) : y = g[i]
      BY <2>3, <2>4 DEF T!Range
    <3>2. PICK j \in 1 .. Len(q) : q[j] = g[i]
      BY <2>2
    <3> QED
      BY <2>3, <3>1, <3>2 DEF T!Range
  <2>5. ASSUME NEW y \in T!Range(q) PROVE y \in T!Range(g)
    <3>1. PICK i \in 1 .. Len(q) : y = q[i]
      BY <2>3, <2>5 DEF T!Range
    <3>2. PICK j \in 1 .. Len(q) : g[j] = q[i]
      BY <2>1
    <3> QED
      BY <2>3, <3>1, <3>2 DEF T!Range
  <2> QED
    BY <2>4, <2>5
<1>6. T!IsInjective(g)
  BY <1>1, <1>3, <1>4 DEF T!IsInjective
<1>7. Head(q) = q[1] /\ q[1] \in T!Lines /\ q[1] \in T!Range(q)
  BY <1>1 DEF T!Range
<1> QED
  BY <1>2, <1>3, <1>5, <1>6, <1>7 DEF TListed

LEMMA TAppended ==
  ASSUME NEW q, TListed(q), NEW x \in T!Lines, x \notin T!Range(q)
  PROVE  TListed(Append(q, x)) /\ T!Range(Append(q, x)) = T!Range(q) \cup {x}
<1>1. q \in Seq(T!Lines) /\ Len(q) \in Nat /\ \A i, j \in 1 .. Len(q) : q[i] = q[j] => i = j
  BY DEF TListed, T!IsInjective
<1>2. PICK g : g = Append(q, x)
  OBVIOUS
<1>3. /\ g \in Seq(T!Lines) /\ Len(g) = Len(q) + 1 /\ g[Len(q) + 1] = x /\ \A i \in 1 .. Len(q) : g[i] = q[i]
  BY <1>1, <1>2
<1>4. \A i \in 1 .. Len(q) : q[i] # x
  BY <1>1 DEF T!Range
<1>5. \A i \in 1 .. Len(q) + 1 : i \in 1 .. Len(q) \/ i = Len(q) + 1
  BY <1>1
<1>6. DOMAIN g = 1 .. Len(q) + 1 /\ DOMAIN q = 1 .. Len(q) /\ Len(q) + 1 \in 1 .. Len(q) + 1
      /\ \A i \in 1 .. Len(q) : i \in 1 .. Len(q) + 1
  BY <1>1, <1>3
<1>7. T!IsInjective(g)
  <2>1. ASSUME NEW i \in 1 .. Len(q) + 1, NEW j \in 1 .. Len(q) + 1, g[i] = g[j] PROVE i = j
    BY <1>1, <1>3, <1>4, <1>5, <2>1
  <2> QED
    BY <1>6, <2>1 DEF T!IsInjective
<1>8. T!Range(g) = T!Range(q) \cup {x}
  <2>1. ASSUME NEW y \in T!Range(g) PROVE y \in T!Range(q) \cup {x}
    <3>1. PICK i \in 1 .. Len(q) + 1 : y = g[i]
      BY <1>6, <2>1 DEF T!Range
    <3> QED
      BY <1>3, <1>5, <1>6, <3>1 DEF T!Range
  <2>2. ASSUME NEW y \in T!Range(q) PROVE y \in T!Range(g)
    <3>1. PICK i \in 1 .. Len(q) : y = q[i]
      BY <1>6, <2>2 DEF T!Range
    <3>2. i \in DOMAIN g /\ g[i] = y
      BY <1>3, <1>6, <3>1
    <3> QED
      BY <3>2 DEF T!Range
  <2>3. x \in T!Range(g)
    BY <1>3, <1>6 DEF T!Range
  <2> QED
    BY <2>1, <2>2, <2>3
<1> QED
  BY <1>2, <1>3, <1>7, <1>8 DEF TListed

LEMMA TPutFirst ==
  ASSUME NEW q, TListed(q), NEW x \in T!Lines, x \notin T!Range(q)
  PROVE  TListed(<<x>> \o q) /\ T!Range(<<x>> \o q) = T!Range(q) \cup {x} /\ <<x>> \o q # <<>>
<1>1. q \in Seq(T!Lines) /\ Len(q) \in Nat /\ \A i, j \in 1 .. Len(q) : q[i] = q[j] => i = j
  BY DEF TListed, T!IsInjective
<1>2. PICK g : g = <<x>> \o q
  OBVIOUS
<1>3. /\ g \in Seq(T!Lines) /\ Len(g) = Len(q) + 1 /\ g[1] = x /\ \A i \in 2 .. Len(q) + 1 : g[i] = q[i - 1]
  <2>1. PICK o : o = <<x>>
    OBVIOUS
  <2>2. o \in Seq(T!Lines) /\ Len(o) = 1 /\ o[1] = x
    BY <2>1
  <2>3. g = o \o q
    BY <1>2, <2>1
  <2>4. Len(g) = Len(o) + Len(q) /\ g \in Seq(T!Lines)
        /\ \A i \in 1 .. Len(o) + Len(q) : g[i] = IF i <= Len(o) THEN o[i] ELSE q[i - Len(o)]
    BY <1>1, <2>2, <2>3, ConcatProperties
  <2>5. g[1] = x
    BY <1>1, <2>2, <2>4
  <2>6. \A i \in 2 .. Len(q) + 1 : i \in 1 .. Len(o) + Len(q) /\ ~(i <= Len(o)) /\ i - Len(o) = i - 1
    BY <1>1, <2>2
  <2> QED
    BY <1>1, <2>2, <2>4, <2>5, <2>6
<1>4. \A i \in 1 .. Len(q) : q[i] # x
  BY <1>1 DEF T!Range
<1>5. \A i \in 1 .. Len(q) + 1 : i = 1 \/ (i \in 2 .. Len(q) + 1 /\ i - 1 \in 1 .. Len(q))
  BY <1>1
<1>6. DOMAIN g = 1 .. Len(q) + 1 /\ DOMAIN q = 1 .. Len(q) /\ 1 \in 1 .. Len(q) + 1
  BY <1>1, <1>3
<1>7. T!IsInjective(g)
  <2>1. ASSUME NEW i \in 1 .. Len(q) + 1, NEW j \in 1 .. Len(q) + 1, g[i] = g[j] PROVE i = j
    <3>1. CASE i = 1 \/ j = 1
      BY <1>3, <1>4, <1>5, <2>1, <3>1
    <3>2. CASE i # 1 /\ j # 1
      <4>1. i - 1 = j - 1
        BY <1>1, <1>3, <1>5, <2>1, <3>2
      <4> QED
        BY <4>1
    <3> QED
      BY <3>1, <3>2
  <2> QED
    BY <1>6, <2>1 DEF T!IsInjective
<1>8. T!Range(g) = T!Range(q) \cup {x}
  <2>1. ASSUME NEW y \in T!Range(g) PROVE y \in T!Range(q) \cup {x}
    <3>1. PICK i \in 1 .. Len(q) + 1 : y = g[i]
      BY <1>6, <2>1 DEF T!Range
    <3> QED
      BY <1>3, <1>5, <1>6, <3>1 DEF T!Range
  <2>2. ASSUME NEW y \in T!Range(q) PROVE y \in T!Range(g)
    <3>1. PICK i \in 1 .. Len(q) : y = q[i]
      BY <1>6, <2>2 DEF T!Range
    <3>2. i + 1 \in 2 .. Len(q) + 1 /\ i + 1 \in 1 .. Len(q) + 1 /\ (i + 1) - 1 = i
      BY <1>1
    <3>3. i + 1 \in DOMAIN g /\ g[i + 1] = y
      BY <1>3, <1>6, <3>1, <3>2
    <3> QED
      BY <3>3 DEF T!Range
  <2>3. x \in T!Range(g)
    BY <1>3, <1>6 DEF T!Range
  <2> QED
    BY <2>1, <2>2, <2>3
<1> QED
  BY <1>2, <1>3, <1>7, <1>8 DEF TListed

\* A line leaves the list.
TWithout(q, x) == T!RemoveAt(q, CHOOSE i \in DOMAIN q : q[i] = x)

LEMMA TRemoved ==
  ASSUME NEW q, TListed(q), NEW x \in T!Range(q)
  PROVE  TListed(TWithout(q, x)) /\ T!Range(TWithout(q, x)) = T!Range(q) \ {x}
<1>1. q \in Seq(T!Lines) /\ Len(q) \in Nat /\ \A i, j \in 1 .. Len(q) : q[i] = q[j] => i = j
  BY DEF TListed, T!IsInjective
<1>2. PICK k : k = CHOOSE i \in DOMAIN q : q[i] = x
  OBVIOUS
<1>3. k \in 1 .. Len(q) /\ q[k] = x
  <2>1. \E i \in DOMAIN q : q[i] = x
    BY DEF T!Range
  <2> QED
    BY <1>1, <1>2, <2>1
<1>4. PICK g : g = TWithout(q, x)
  OBVIOUS
<1>5. /\ g \in Seq(T!Lines) /\ Len(g) = Len(q) - 1
      /\ \A i \in 1 .. k - 1 : g[i] = q[i]
      /\ \A i \in k .. Len(q) - 1 : g[i] = q[i + 1]
  <2> DEFINE a == SubSeq(q, 1, k - 1)
             b == SubSeq(q, k + 1, Len(q))
  <2>1. a \in Seq(T!Lines) /\ Len(a) = k - 1 /\ \A i \in 1 .. k - 1 : a[i] = q[i]
    BY <1>1, <1>3, SubSeqProperties
  <2>2. b \in Seq(T!Lines) /\ Len(b) = Len(q) - k /\ \A i \in 1 .. Len(q) - k : b[i] = q[k + i]
    BY <1>1, <1>3, SubSeqProperties
  <2>3. g = a \o b
    BY <1>2, <1>4 DEF TWithout, T!RemoveAt
  <2> HIDE DEF a, b
  <2>4. Len(g) = Len(a) + Len(b) /\ g \in Seq(T!Lines)
        /\ \A i \in 1 .. Len(a) + Len(b) : g[i] = IF i <= Len(a) THEN a[i] ELSE b[i - Len(a)]
    BY <2>1, <2>2, <2>3, ConcatProperties
  <2>5. ASSUME NEW i \in 1 .. k - 1 PROVE g[i] = q[i]
    <3>1. i \in 1 .. Len(a) + Len(b) /\ i <= Len(a)
      BY <1>1, <1>3, <2>1, <2>2
    <3> QED
      BY <2>1, <2>4, <3>1
  <2>6. ASSUME NEW i \in k .. Len(q) - 1 PROVE g[i] = q[i + 1]
    <3>1. i \in 1 .. Len(a) + Len(b) /\ ~(i <= Len(a)) /\ i - Len(a) \in 1 .. Len(q) - k /\ k + (i - Len(a)) = i + 1
      BY <1>1, <1>3, <2>1, <2>2
    <3> QED
      BY <2>2, <2>4, <3>1
  <2> QED
    BY <1>1, <1>3, <2>1, <2>2, <2>4, <2>5, <2>6
<1>6. DOMAIN g = 1 .. Len(q) - 1 /\ DOMAIN q = 1 .. Len(q)
  BY <1>1, <1>3, <1>5
<1>7. ASSUME NEW i \in 1 .. Len(q) - 1
      PROVE  \/ i < k /\ i \in 1 .. Len(q) /\ g[i] = q[i]
             \/ i >= k /\ i + 1 \in 1 .. Len(q) /\ g[i] = q[i + 1]
  BY <1>1, <1>3, <1>5
<1>8. T!IsInjective(g)
  <2>1. ASSUME NEW i \in 1 .. Len(q) - 1, NEW j \in 1 .. Len(q) - 1, g[i] = g[j] PROVE i = j
    BY <1>1, <1>3, <1>7, <2>1
  <2> QED
    BY <1>6, <2>1 DEF T!IsInjective
<1>9. T!Range(g) = T!Range(q) \ {x}
  <2>1. ASSUME NEW y \in T!Range(g) PROVE y \in T!Range(q) \ {x}
    <3>1. PICK i \in 1 .. Len(q) - 1 : y = g[i]
      BY <1>6, <2>1 DEF T!Range
    <3>2. PICK j \in 1 .. Len(q) : y = q[j] /\ j # k
      BY <1>3, <1>7, <3>1
    <3>3. y # x
      BY <1>1, <1>3, <3>2
    <3> QED
      BY <1>6, <3>2, <3>3 DEF T!Range
  <2>2. ASSUME NEW y \in T!Range(q) \ {x} PROVE y \in T!Range(g)
    <3>1. PICK j \in 1 .. Len(q) : y = q[j]
      BY <1>6, <2>2 DEF T!Range
    <3>2. j # k
      BY <1>3, <2>2, <3>1
    <3>3. CASE j < k
      <4>1. j \in 1 .. k - 1 /\ j \in 1 .. Len(q) - 1
        BY <1>3, <3>3
      <4>2. g[j] = y
        BY <1>5, <3>1, <4>1
      <4> QED
        BY <1>6, <4>1, <4>2 DEF T!Range
    <3>4. CASE j > k
      <4>1. j - 1 \in k .. Len(q) - 1 /\ j - 1 \in 1 .. Len(q) - 1 /\ (j - 1) + 1 = j
        BY <1>3, <3>4
      <4>2. g[j - 1] = y
        BY <1>5, <3>1, <4>1
      <4> QED
        BY <1>6, <4>1, <4>2 DEF T!Range
    <3> QED
      BY <1>3, <3>2, <3>3, <3>4
  <2> QED
    BY <2>1, <2>2
<1> QED
  BY <1>4, <1>5, <1>8, <1>9 DEF TListed
-----------------------------------------------------------------------------
(* What holds between the rows, the queue and the counts.                  *)

TPcs == [who : {"idle", "tick", "watchdog"}, at : {"none", "sending", "read", "record"}, line : T!Lines,
         left : Seq(T!Buys), to : T!Heads, sells : Nat]

TShape ==
  /\ head \in T!Heads /\ cursor \in T!Heads \cup {T!Unread} /\ start \in T!Heads \cup {T!Unread}
  /\ DOMAIN queued \in SUBSET T!Buys /\ rows \in SUBSET T!Buys /\ TListed(backlog)
  /\ counts \in [buys : Nat, sells : Nat, of : [T!Wallets -> Nat]]
  /\ taken \in 0 .. LinesAWindow /\ alarm \in BOOLEAN /\ pc \in TPcs

\* A row is of a buy that has a line, in a block not yet finished.
TRows ==
  /\ rows \subseteq DOMAIN queued /\ \A b \in rows : BlockAt[b] > cursor
  /\ start <= cursor /\ (cursor = T!Unread => DOMAIN queued = {})

\* A line was said or waits, and what waits is a line; so have the buys of the blocks that are read.
TLines ==
  /\ \A b \in DOMAIN queued : b \in posted \/ b \in T!Range(backlog)
  /\ \A b \in T!Buys : b \in T!Range(backlog) => b \in DOMAIN queued
  /\ \A b \in T!Buys : b \in T!Covered => b \in posted \/ b \in T!Range(backlog)

\* Buys are queued in the order of the chain: those before one that has a line are counted.
TOrder ==
  \A c \in DOMAIN queued, b \in T!Buys : b < c /\ start < BlockAt[b] => b \in T!Counted

TCounts ==
  /\ counts.buys = Cardinality(T!Counted) /\ counts.sells = Cardinality(T!Covered \ T!Buys)
  /\ \A w \in T!Wallets : counts.of[w] = Cardinality({b \in T!Counted : BuyerAt[b] = w})

TFirst ==
  \A b \in DOMAIN queued :
    IF queued[b] THEN \A c \in T!Counted : BuyerAt[c] = BuyerAt[b] /\ c # b => c > b
    ELSE \E c \in T!Counted : BuyerAt[c] = BuyerAt[b] /\ c < b

\* The page that is being recorded: what has no row is still to come, in the order of the chain.
TPage ==
  /\ pc.at = "sending" => pc.line \in T!Range(backlog)
  /\ pc.at = "record" =>
       /\ cursor # T!Unread /\ pc.to > cursor
       /\ pc.sells = Cardinality(T!Within(cursor + 1, pc.to) \ T!Buys)
       /\ \A b \in T!Buys : b \in T!Within(cursor + 1, pc.to) => b \in rows \/ b \in T!Range(pc.left)
       /\ \A b \in T!Range(pc.left) : b \in T!Buys /\ b \in T!Within(cursor + 1, pc.to)
       /\ \A i, j \in 1 .. Len(pc.left) : i < j => pc.left[i] < pc.left[j]

TFeed == TRows /\ TOrder /\ TCounts /\ TFirst
TInv == TShape /\ TFeed /\ TLines /\ TPage

-----------------------------------------------------------------------------
LEMMA TFacts ==
  /\ T!Buys \subseteq Transfers /\ T!Buys \subseteq Nat /\ Transfers \subseteq Nat /\ IsFiniteSet(Transfers)
  /\ \A t \in Transfers : BlockAt[t] \in Nat
  /\ \A t, o \in Transfers : t <= o => BlockAt[t] <= BlockAt[o]
  /\ T!Heads \subseteq Nat /\ T!Unread = -1 /\ Notice \in T!Lines /\ Notice \notin T!Buys
  /\ \A b \in T!Buys : BuyerAt[b] \in T!Wallets /\ b \in T!Lines
  /\ MaxHead \in Nat /\ MaxBlocks \in Nat /\ MaxBlocks >= 1
<1>1. /\ T!Buys \subseteq Transfers /\ Transfers \subseteq Nat /\ IsFiniteSet(Transfers)
      /\ \A t \in Transfers : BlockAt[t] \in Nat
      /\ \A t, o \in Transfers : t <= o => BlockAt[t] <= BlockAt[o]
  BY TradesAssumption DEF T!Buys
<1>2. T!Heads \subseteq Nat /\ T!Unread = -1 /\ MaxHead \in Nat /\ MaxBlocks \in Nat /\ MaxBlocks >= 1
  BY TradesAssumption DEF T!Heads, T!Unread
<1>3. Notice \in T!Lines /\ Notice \notin T!Buys
  BY TradesAssumption DEF T!Buys, T!Lines
<1>4. \A b \in T!Buys : BuyerAt[b] \in T!Wallets /\ b \in T!Lines
  BY DEF T!Wallets, T!Lines
<1> QED
  BY <1>1, <1>2, <1>3, <1>4

LEMMA TCard == \A B : T!Cardinality(B) = Cardinality(B)
BY DEF T!Cardinality, Cardinality

\* What the types say of the cursor.
LEMMA TCursors ==
  ASSUME TShape
  PROVE  cursor \in Int /\ start \in Int /\ cursor >= -1 /\ head \in Nat
BY TFacts DEF TShape

LEMMA TCountedIs ==
  ASSUME TShape
  PROVE  /\ T!Counted \subseteq T!Buys /\ T!Covered \subseteq Transfers
         /\ \A b : b \in T!Counted <=> b \in rows \/ (b \in T!Buys /\ start < BlockAt[b] /\ BlockAt[b] <= cursor)
BY TFacts DEF TShape, T!Counted, T!Covered, T!Buys

\* The feed is what it was.
LEMMA TSame ==
  ASSUME TFeed, UNCHANGED <<cursor, start, queued, rows, counts>>
  PROVE  TFeed'
<1>1. T!Covered' = T!Covered
  BY DEF T!Covered
<1>2. T!Counted' = T!Counted
  BY <1>1 DEF T!Counted
<1> QED
  BY <1>1, <1>2 DEF TFeed, TRows, TOrder, TCounts, TFirst

\* A buy that has a line is counted with its row.
LEMMA TRecorded ==
  ASSUME TShape, TFeed, NEW b \in DOMAIN queued, BlockAt[b] > cursor, T!Record(b), UNCHANGED <<cursor, start, queued>>
  PROVE  /\ TFeed' /\ rows' \in SUBSET T!Buys /\ counts' \in [buys : Nat, sells : Nat, of : [T!Wallets -> Nat]]
         /\ rows \subseteq rows' /\ b \in rows'
<1>1. b \in T!Buys /\ BuyerAt[b] \in T!Wallets
  BY TFacts DEF TShape
<1>2. CASE b \in rows
  BY <1>2, TSame DEF T!Record, TShape
<1>3. CASE b \notin rows
  <2>1. PICK w : w = BuyerAt[b]
    OBVIOUS
  <2>2. rows' = rows \cup {b} /\ counts' = [counts EXCEPT !.buys = @ + 1, !.of[w] = @ + 1]
    BY <1>3, <2>1 DEF T!Record
  <2>3. b \notin T!Counted
    BY <1>1, <1>3, TCountedIs, TFacts, TCursors
  <2>4. T!Covered' = T!Covered
    BY DEF T!Covered
  <2>5. T!Counted' = T!Counted \cup {b}
    BY <2>2, <2>4 DEF T!Counted
  <2>6. PICK n : n = counts.of[w]
    OBVIOUS
  <2>7. n \in Nat /\ counts.buys \in Nat /\ counts.sells \in Nat /\ counts.of \in [T!Wallets -> Nat] /\ w \in T!Wallets
    BY <1>1, <2>1, <2>6 DEF TShape
  <2>8. PICK of : of = [counts.of EXCEPT ![w] = n + 1]
    OBVIOUS
  <2>9. of \in [T!Wallets -> Nat] /\ of[w] = n + 1 /\ \A v \in T!Wallets : v # w => of[v] = counts.of[v]
    BY <2>7, <2>8
  <2>10. counts' = [buys |-> counts.buys + 1, sells |-> counts.sells, of |-> of]
    BY <2>2, <2>6, <2>7, <2>8 DEF TShape
  <2>11. counts' \in [buys : Nat, sells : Nat, of : [T!Wallets -> Nat]]
    BY <2>7, <2>9, <2>10
  <2>12. IsFiniteSet(T!Counted) /\ \A v : IsFiniteSet({c \in T!Counted : BuyerAt[c] = v})
    <3>1. T!Counted \subseteq Transfers
      BY TCountedIs, TFacts
    <3>2. \A v : {c \in T!Counted : BuyerAt[c] = v} \subseteq Transfers
      BY <3>1
    <3> QED
      BY <3>1, <3>2, TFacts, FS_Subset
  <2>13. Cardinality(T!Counted \cup {b}) = Cardinality(T!Counted) + 1
    BY <2>3, <2>12, FS_AddElement
  <2>14. TCounts'
    <3>1. ASSUME NEW v \in T!Wallets
          PROVE  of[v] = Cardinality({c \in T!Counted \cup {b} : BuyerAt[c] = v})
      <4>1. PICK O : O = {c \in T!Counted : BuyerAt[c] = v}
        OBVIOUS
      <4>2. IsFiniteSet(O) /\ b \notin O
        BY <2>3, <2>12, <4>1
      <4>3. CASE v = w
        <5>1. {c \in T!Counted \cup {b} : BuyerAt[c] = v} = O \cup {b}
          BY <2>1, <4>1, <4>3
        <5>2. Cardinality(O \cup {b}) = Cardinality(O) + 1
          BY <4>2, FS_AddElement
        <5>3. Cardinality(O) = n
          BY <2>6, <2>7, <4>1, <4>3 DEF TFeed, TCounts
        <5> QED
          BY <2>9, <4>3, <5>1, <5>2, <5>3
      <4>4. CASE v # w
        <5>1. {c \in T!Counted \cup {b} : BuyerAt[c] = v} = O
          BY <2>1, <4>1, <4>4
        <5>2. Cardinality(O) = counts.of[v]
          BY <4>1 DEF TFeed, TCounts
        <5> QED
          BY <2>9, <4>4, <5>1, <5>2
      <4> QED
        BY <4>3, <4>4
    <3>2. counts'.buys = counts.buys + 1 /\ counts'.sells = counts.sells /\ counts'.of = of
      BY <2>10
    <3> QED
      BY <2>4, <2>5, <2>13, <3>1, <3>2 DEF TFeed, TCounts
  <2>15. TRows' /\ TOrder'
    BY <2>2, <2>5 DEF TFeed, TRows, TOrder
  <2>16. TFirst'
    <3>1. ASSUME NEW c \in DOMAIN queued
          PROVE  IF queued[c] THEN \A o \in T!Counted \cup {b} : BuyerAt[o] = BuyerAt[c] /\ o # c => o > c
                 ELSE \E o \in T!Counted \cup {b} : BuyerAt[o] = BuyerAt[c] /\ o < c
      <4>1. ~(b < c)
        BY <1>1, <2>3, TCursors, TFacts DEF TFeed, TOrder, TRows
      <4>2. b # c => b > c
        BY <1>1, <4>1, TFacts DEF TShape
      <4> QED
        BY <4>2 DEF TFeed, TFirst
    <3> QED
      BY <2>5, <3>1 DEF TFirst
  <2> QED
    BY <1>1, <2>2, <2>11, <2>14, <2>15, <2>16 DEF TFeed, TShape
<1> QED
  BY <1>2, <1>3

-----------------------------------------------------------------------------
(* The steps.                                                              *)

\* Nothing is recorded and nothing is said.
LEMMA TQuiet ==
  ASSUME TInv, UNCHANGED <<cursor, start, queued, rows, counts, backlog, posted>>,
         head' \in T!Heads, taken' \in 0 .. LinesAWindow, alarm' \in BOOLEAN, pc' \in TPcs, TPage'
  PROVE  TInv'
<1>1. TFeed'
  BY TSame DEF TInv
<1>2. TLines'
  BY DEF TInv, TLines, T!Covered
<1>3. TShape'
  BY DEF TInv, TShape
<1> QED
  BY <1>1, <1>2, <1>3 DEF TInv

LEMMA TIdle == T!Idle \in TPcs /\ T!Idle.at = "none"
<1>1. PICK e : e = <<>>
  OBVIOUS
<1>2. e \in Seq(T!Buys) /\ 0 \in T!Heads
  BY <1>1, TFacts DEF T!Heads
<1>3. PICK n : n = T!Idle
  OBVIOUS
<1>4. n = [who |-> "idle", at |-> "none", line |-> Notice, left |-> e, to |-> 0, sells |-> 0]
  BY <1>1, <1>3 DEF T!Idle
<1> QED
  BY <1>2, <1>3, <1>4, TFacts DEF TPcs

\* A round that stands nowhere has no page.
LEMMA TNoPage ==
  ASSUME pc' \in TPcs, pc'.at \in {"none", "read"} PROVE TPage'
BY DEF TPage

LEMMA TEnds == ASSUME T!Ends PROVE pc' \in TPcs /\ pc'.at = "none" /\ alarm' \in BOOLEAN
BY TIdle DEF T!Ends

LEMMA THeadMoves == TInv /\ T!HeadMoves => TInv'
<1> SUFFICES ASSUME TInv, T!HeadMoves PROVE TInv'
  OBVIOUS
<1>1. UNCHANGED <<cursor, start, queued, rows, counts, backlog, posted>> /\ UNCHANGED <<taken, alarm, pc>> /\ head' \in T!Heads
  BY DEF T!HeadMoves, T!feed
<1>2. TPage'
  BY <1>1 DEF TInv, TPage, T!Within
<1> QED
  BY <1>1, <1>2, TQuiet DEF TInv, TShape

LEMMA TWindowRolls == TInv /\ T!WindowRolls => TInv'
<1> SUFFICES ASSUME TInv, T!WindowRolls PROVE TInv'
  OBVIOUS
<1>1. /\ UNCHANGED <<cursor, start, queued, rows, counts, backlog, posted>> /\ UNCHANGED <<head, alarm, pc>>
      /\ taken' = 0 /\ 0 \in 0 .. LinesAWindow
  BY TradesAssumption DEF T!WindowRolls, T!feed
<1>2. TPage'
  BY <1>1 DEF TInv, TPage, T!Within
<1> QED
  BY <1>1, <1>2, TQuiet DEF TInv, TShape

LEMMA TTimePasses == TInv /\ T!TimePasses => TInv'
<1> SUFFICES ASSUME TInv, T!TimePasses PROVE TInv'
  OBVIOUS
<1>1. UNCHANGED <<cursor, start, queued, rows, counts, backlog, posted>> /\ UNCHANGED <<head, alarm, pc, taken>>
  BY DEF T!TimePasses, T!feed
<1>2. TPage'
  BY <1>1 DEF TInv, TPage, T!Within
<1> QED
  BY <1>1, <1>2, TQuiet DEF TInv, TShape

LEMMA TReadFails == TInv /\ T!ReadFails => TInv'
<1> SUFFICES ASSUME TInv, T!ReadFails PROVE TInv'
  OBVIOUS
<1>1. UNCHANGED <<cursor, start, queued, rows, counts, backlog, posted>> /\ UNCHANGED <<head, taken>> /\ T!Ends
  BY DEF T!ReadFails, T!feed
<1> QED
  BY <1>1, TEnds, TNoPage, TQuiet DEF TInv, TShape

LEMMA TDie == TInv /\ T!Die => TInv'
<1> SUFFICES ASSUME TInv, T!Die PROVE TInv'
  OBVIOUS
<1>1. UNCHANGED <<cursor, start, queued, rows, counts, backlog, posted>> /\ UNCHANGED <<head, taken, alarm>> /\ pc' = T!Idle
  BY DEF T!Die, T!feed
<1> QED
  BY <1>1, TIdle, TNoPage, TQuiet DEF TInv, TShape

\* A line is tried: the list holds what it held, and a notice perhaps.
LEMMA TFlush ==
  ASSUME TInv, NEW who \in {"tick", "watchdog"}, NEW waiting, TListed(waiting),
         T!Range(backlog) \subseteq T!Range(waiting), T!Range(waiting) \subseteq T!Range(backlog) \cup {Notice},
         waiting = <<>> => backlog = <<>>,
         T!Flush(who, waiting), UNCHANGED <<head, cursor, start, queued, posted>>
  PROVE  TInv'
<1>1. TShape /\ TFeed /\ TLines
  BY DEF TInv
<1>2. CASE waiting = <<>>
  <2>1. UNCHANGED <<backlog, rows, counts, taken>> /\ alarm' \in BOOLEAN
    BY <1>2 DEF T!Flush
  <2>2. pc' = [T!Idle EXCEPT !.who = who, !.at = "read"] \/ pc' = T!Idle
    BY <1>2 DEF T!Flush
  <2>3. pc' \in TPcs /\ pc'.at \in {"none", "read"}
    BY <2>2, TIdle DEF TPcs
  <2> QED
    BY <1>1, <2>1, <2>3, TNoPage, TQuiet DEF TShape
<1>3. CASE waiting # <<>>
  <2>1. UNCHANGED <<rows, counts>> \/ (/\ Head(waiting) # Notice /\ BlockAt[Head(waiting)] > cursor /\ T!Record(Head(waiting)))
    BY <1>3 DEF T!Flush
  <2>2. PICK list : list = backlog'
    OBVIOUS
  <2>3. TListed(list) /\ T!Range(list) = T!Range(waiting)
    <3>1. list = waiting \/ list = T!GoesBehind(waiting)
      BY <1>3, <2>2 DEF T!Flush
    <3> QED
      BY <1>3, <3>1, TBehind
  <2>4. Head(waiting) \in T!Range(waiting) /\ Head(waiting) \in T!Lines
    BY <1>3, TBehind
  <2>5. \A b \in T!Buys : b \in T!Range(list) <=> b \in T!Range(backlog)
    BY <2>3, TFacts
  <2>6. TFeed' /\ rows' \in SUBSET T!Buys /\ counts' \in [buys : Nat, sells : Nat, of : [T!Wallets -> Nat]]
    <3>1. CASE UNCHANGED <<rows, counts>>
      BY <1>1, <3>1, TSame DEF TShape
    <3>2. CASE /\ Head(waiting) # Notice /\ BlockAt[Head(waiting)] > cursor /\ T!Record(Head(waiting))
      <4>1. Head(waiting) \in T!Buys /\ Head(waiting) \in T!Range(backlog)
        BY <2>4, <3>2 DEF T!Lines
      <4>2. Head(waiting) \in DOMAIN queued
        BY <1>1, <4>1 DEF TLines
      <4> QED
        BY <1>1, <3>2, <4>2, TRecorded
    <3> QED
      BY <2>1, <3>1, <3>2
  <2>7. TLines'
    <3>1. T!Covered' = T!Covered
      BY DEF T!Covered
    <3>2. T!Range(backlog)' = T!Range(list)
      BY <2>2 DEF T!Range
    <3>3. DOMAIN queued \subseteq T!Buys
      BY <1>1 DEF TShape
    <3> QED
      BY <1>1, <2>5, <3>1, <3>2, <3>3 DEF TLines
  <2>8. CASE taken = LinesAWindow
    <3>1. T!Ends /\ taken' = taken
      BY <1>3, <2>8 DEF T!Flush
    <3>2. TPage' /\ pc' \in TPcs /\ alarm' \in BOOLEAN
      BY <3>1, TEnds, TNoPage
    <3>3. TListed(backlog)'
      BY <2>2, <2>3 DEF TListed, T!IsInjective
    <3> QED
      BY <1>1, <2>6, <2>7, <3>1, <3>2, <3>3 DEF TInv, TShape
  <2>9. CASE taken # LinesAWindow
    <3>1. /\ taken' = taken + 1 /\ list = T!GoesBehind(waiting)
          /\ pc' = [T!Idle EXCEPT !.who = who, !.at = "sending", !.line = Head(waiting)]
          /\ alarm' \in BOOLEAN
      BY <1>1, <1>3, <2>2, <2>9 DEF T!Flush, TShape
    <3>2. pc' \in TPcs /\ pc'.at = "sending" /\ pc'.line = Head(waiting)
      BY <2>4, <3>1, TIdle DEF TPcs
    <3>3. taken' \in 0 .. LinesAWindow
      BY <1>1, <2>9, <3>1, TradesAssumption DEF TShape
    <3>4. T!Range(backlog)' = T!Range(list)
      BY <2>2 DEF T!Range
    <3>5. TPage'
      BY <2>3, <2>4, <3>2, <3>4 DEF TPage
    <3>6. TListed(backlog)'
      BY <2>2, <2>3 DEF TListed, T!IsInjective
    <3> QED
      BY <1>1, <2>6, <2>7, <3>1, <3>2, <3>3, <3>5, <3>6 DEF TInv, TShape
  <2> QED
    BY <2>8, <2>9
<1> QED
  BY <1>2, <1>3

LEMMA TTick == TInv /\ T!Tick => TInv'
<1> SUFFICES ASSUME TInv, T!Tick PROVE TInv'
  OBVIOUS
<1>1. TListed(backlog)
  BY DEF TInv, TShape
<1> QED
  BY <1>1, TFlush DEF T!Tick

LEMMA TWatchdog == TInv /\ T!Watchdog => TInv'
<1> SUFFICES ASSUME TInv, T!Watchdog PROVE TInv'
  OBVIOUS
<1>1. TListed(backlog)
  BY DEF TInv, TShape
<1>2. PICK waiting : /\ T!Flush("watchdog", waiting)
                     /\ waiting = backlog \/ (Notice \notin T!Range(backlog) /\ waiting = <<Notice>> \o backlog)
  BY DEF T!Watchdog
<1>3. TListed(waiting) /\ T!Range(backlog) \subseteq T!Range(waiting) /\ T!Range(waiting) \subseteq T!Range(backlog) \cup {Notice}
      /\ (waiting = <<>> => backlog = <<>>)
  BY <1>1, <1>2, TPutFirst, TFacts
<1> QED
  BY <1>2, <1>3, TFlush DEF T!Watchdog

\* Rows of finished ranges that were said are forgotten.
LEMMA TForgets ==
  ASSUME TShape, TFeed, NEW gone \in SUBSET DOMAIN queued,
         \A b \in gone : BlockAt[b] <= cursor,
         queued' = [b \in DOMAIN queued \ gone |-> queued[b]], UNCHANGED <<cursor, start, rows, counts>>
  PROVE  TFeed' /\ DOMAIN queued' \in SUBSET T!Buys
<1>1. DOMAIN queued' = DOMAIN queued \ gone /\ DOMAIN queued \subseteq T!Buys
      /\ \A b \in DOMAIN queued' : queued'[b] = queued[b]
  BY DEF TShape
<1>2. T!Covered' = T!Covered /\ T!Counted' = T!Counted
  BY DEF T!Covered, T!Counted
<1>3. rows \subseteq DOMAIN queued'
  <2>1. \A b \in rows : ~(BlockAt[b] <= cursor)
    <3>1. \A b \in rows : BlockAt[b] \in Nat
      BY TFacts DEF TShape
    <3> QED
      BY <3>1, TCursors DEF TFeed, TRows
  <2> QED
    BY <1>1, <2>1 DEF TFeed, TRows
<1>4. TRows'
  BY <1>1, <1>3 DEF TFeed, TRows
<1>5. TOrder' /\ TCounts'
  BY <1>1, <1>2 DEF TFeed, TOrder, TCounts
<1>6. TFirst'
  BY <1>1, <1>2 DEF TFeed, TFirst
<1> QED
  BY <1>1, <1>4, <1>5, <1>6 DEF TFeed

LEMMA TSent == ASSUME NEW answer \in {"accepted", "refused", "lost"}, TInv, T!Sent(answer) PROVE TInv'
<1>1. TShape /\ TFeed /\ TLines /\ pc.line \in T!Range(backlog) /\ TListed(backlog)
  BY DEF TInv, TPage, TShape, T!Sent
<1>2. PICK x : x = pc.line
  OBVIOUS
<1>3. PICK rest : rest = IF answer = "accepted" THEN TWithout(backlog, x) ELSE backlog
  OBVIOUS
<1>4. backlog' = rest /\ queued' = T!Keep(queued, rest)
  BY <1>2, <1>3 DEF T!Sent, TWithout
<1>5. /\ TListed(rest) /\ T!Range(rest) \subseteq T!Range(backlog)
      /\ T!Range(rest) = T!Range(backlog) \/ (answer = "accepted" /\ T!Range(rest) = T!Range(backlog) \ {x})
  BY <1>1, <1>2, <1>3, TRemoved
<1>6. posted \subseteq posted' /\ (answer = "accepted" => x \in posted')
  BY <1>2 DEF T!Sent
<1>7. PICK gone : gone = {b \in DOMAIN queued : ~(BlockAt[b] > cursor \/ b \in T!Range(rest))}
  OBVIOUS
<1>8. queued' = [b \in DOMAIN queued \ gone |-> queued[b]]
  <2>1. {b \in DOMAIN queued : BlockAt[b] > cursor \/ b \in T!Range(rest)} = DOMAIN queued \ gone
    BY <1>7
  <2> QED
    BY <1>4, <2>1 DEF T!Keep
<1>9. UNCHANGED <<head, cursor, start, rows, counts, taken>>
  BY DEF T!Sent
<1>10. gone \in SUBSET DOMAIN queued /\ \A b \in gone : BlockAt[b] <= cursor
  <2>1. \A b \in DOMAIN queued : BlockAt[b] \in Nat
    BY <1>1, TFacts DEF TShape
  <2> QED
    BY <1>1, <1>7, <2>1, TCursors
<1>11. TFeed' /\ DOMAIN queued' \in SUBSET T!Buys
  BY <1>1, <1>8, <1>9, <1>10, TForgets
<1>12. DOMAIN queued' = DOMAIN queued \ gone
  BY <1>8
<1>13. TLines'
  <2>1. T!Covered' = T!Covered
    BY <1>9 DEF T!Covered
  <2>2. T!Range(backlog)' = T!Range(rest)
    BY <1>4 DEF T!Range
  <2>3. \A b : b \in posted \/ b \in T!Range(backlog) => b \in posted' \/ b \in T!Range(rest)
    BY <1>5, <1>6
  <2>4. \A b \in DOMAIN queued' : b \in posted' \/ b \in T!Range(rest)
    BY <1>1, <1>12, <2>3 DEF TLines
  <2>5. \A b \in T!Buys : b \in T!Range(rest) => b \in DOMAIN queued'
    BY <1>1, <1>5, <1>7, <1>12 DEF TLines
  <2>6. \A b \in T!Buys : b \in T!Covered => b \in posted' \/ b \in T!Range(rest)
    BY <1>1, <2>3 DEF TLines
  <2> QED
    BY <2>1, <2>2, <2>4, <2>5, <2>6 DEF TLines
<1>14. pc' \in TPcs /\ pc'.at \in {"none", "read"} /\ alarm' \in BOOLEAN
  <2>1. T!Ends \/ (pc' = [pc EXCEPT !.at = "read"] /\ UNCHANGED alarm)
    BY DEF T!Sent, T!AfterFlush
  <2>2. CASE T!Ends
    BY <2>2, TEnds
  <2>3. CASE pc' = [pc EXCEPT !.at = "read"] /\ UNCHANGED alarm
    BY <1>1, <2>3 DEF TShape, TPcs
  <2> QED
    BY <2>1, <2>2, <2>3
<1>15. TPage'
  BY <1>14, TNoPage
<1>16. TListed(backlog)'
  BY <1>4, <1>5 DEF TListed, T!IsInjective
<1> QED
  BY <1>1, <1>9, <1>11, <1>13, <1>14, <1>15, <1>16 DEF TInv, TShape

LEMMA TFirstRead == TInv /\ T!FirstRead => TInv'
<1> SUFFICES ASSUME TInv, T!FirstRead PROVE TInv'
  OBVIOUS
<1>1. TShape /\ TFeed /\ TLines /\ cursor = T!Unread /\ start \in Int /\ head \in Nat
  BY TCursors DEF TInv, T!FirstRead
<1>2. cursor' = head /\ start' = head /\ T!Ends /\ UNCHANGED <<head, queued, backlog, rows, counts, taken, posted>>
  BY DEF T!FirstRead
<1>3. DOMAIN queued = {} /\ rows = {}
  BY <1>1 DEF TFeed, TRows
<1>4. T!Covered = {}
  <2>1. \A t \in Transfers : BlockAt[t] \in Nat /\ ~(BlockAt[t] <= cursor)
    BY <1>1, TFacts
  <2> QED
    BY <2>1 DEF T!Covered
<1>5. T!Covered' = {}
  <2>1. \A t \in Transfers : ~(head < BlockAt[t] /\ BlockAt[t] <= head)
    BY <1>1, TFacts
  <2> QED
    BY <1>2, <2>1 DEF T!Covered
<1>6. T!Counted' = T!Counted
  BY <1>2, <1>4, <1>5 DEF T!Counted
<1>7. TRows' /\ TOrder' /\ TFirst'
  BY <1>1, <1>2, <1>3 DEF TRows, TOrder, TFirst
<1>8. TCounts'
  BY <1>1, <1>2, <1>4, <1>5, <1>6 DEF TFeed, TCounts
<1>9. TLines'
  BY <1>1, <1>2, <1>3, <1>5 DEF TLines
<1>10. pc' \in TPcs /\ alarm' \in BOOLEAN /\ TPage'
  BY <1>2, TEnds, TNoPage
<1>11. TShape'
  BY <1>1, <1>2, <1>10 DEF TShape
<1> QED
  BY <1>7, <1>8, <1>9, <1>10, <1>11 DEF TInv, TFeed

\* The buys of a page, in the order of the chain.
LEMMA TInOrder ==
  ASSUME NEW B \in SUBSET T!Buys
  PROVE  /\ T!InOrder(B) \in Seq(T!Buys) /\ T!Range(T!InOrder(B)) = B
         /\ \A i, j \in 1 .. Len(T!InOrder(B)) : i < j => T!InOrder(B)[i] < T!InOrder(B)[j]
<1>1. T!InOrder(B) = InOrder(B)
  BY DEF T!InOrder, InOrder, T!Cardinality, Cardinality
<1>2. B \subseteq Nat /\ IsFiniteSet(B)
  BY TFacts, FS_Subset
<1>3. PICK o : o = InOrder(B)
  OBVIOUS
<1>4. /\ o \in Seq(B) /\ Len(o) = Cardinality(B)
      /\ \A i, j \in 1 .. Cardinality(B) : i < j => o[i] < o[j]
      /\ \A x \in B : \E i \in 1 .. Cardinality(B) : o[i] = x
  BY <1>2, <1>3, OrderIs
<1>5. DOMAIN o = 1 .. Cardinality(B) /\ \A i \in 1 .. Cardinality(B) : o[i] \in B
  BY <1>4
<1>6. T!Range(o) = B
  <2>1. ASSUME NEW y \in T!Range(o) PROVE y \in B
    BY <1>5, <2>1 DEF T!Range
  <2>2. ASSUME NEW y \in B PROVE y \in T!Range(o)
    BY <1>4, <1>5, <2>2 DEF T!Range
  <2> QED
    BY <2>1, <2>2
<1>7. o \in Seq(T!Buys)
  BY <1>4
<1> QED
  BY <1>1, <1>3, <1>4, <1>6, <1>7

LEMMA TReadPage == TInv /\ T!ReadPage => TInv'
<1> SUFFICES ASSUME TInv, T!ReadPage PROVE TInv'
  OBVIOUS
<1>1. TShape /\ TFeed /\ TLines /\ cursor # T!Unread /\ cursor \in Nat /\ head \in Nat /\ pc \in TPcs
  BY TCursors, TFacts DEF TInv, T!ReadPage, TShape
<1>2. UNCHANGED <<head, cursor, start, queued, rows, counts, backlog, taken, posted>>
  BY DEF T!ReadPage, T!feed
<1>3. CASE T!Ends
  <2>1. pc' \in TPcs /\ alarm' \in BOOLEAN /\ TPage'
    BY <1>3, TEnds, TNoPage
  <2> QED
    BY <1>1, <1>2, <2>1, TQuiet DEF TShape
<1>4. CASE ~T!Ends
  <2>1. PICK seen \in {h \in T!Heads : h <= head} :
          LET from == cursor + 1
              to   == T!PageEnd(from, IF seen < from + MaxBlocks - 1 THEN seen ELSE from + MaxBlocks - 1)
              page == T!Within(from, to)
          IN  /\ ~(seen < from)
              /\ pc' = [pc EXCEPT !.at = "record", !.to = to, !.sells = T!Cardinality(page \ T!Buys),
                                    !.left = T!InOrder(page \cap T!Buys)]
              /\ UNCHANGED alarm
    BY <1>4 DEF T!ReadPage
  <2>2. PICK from : from = cursor + 1
    OBVIOUS
  <2>3. PICK last : last = IF seen < from + MaxBlocks - 1 THEN seen ELSE from + MaxBlocks - 1
    OBVIOUS
  <2>4. PICK to : to = T!PageEnd(from, last)
    OBVIOUS
  <2>5. PICK page : page = T!Within(from, to)
    OBVIOUS
  <2>6. PICK left : left = T!InOrder(page \cap T!Buys)
    OBVIOUS
  <2>7. PICK sells : sells = Cardinality(page \ T!Buys)
    OBVIOUS
  <2>8. ~(seen < from) /\ UNCHANGED alarm /\ pc' = [pc EXCEPT !.at = "record", !.to = to, !.sells = sells, !.left = left]
    BY <2>1, <2>2, <2>3, <2>4, <2>5, <2>6, <2>7, TCard
  <2>9. to \in T!Heads /\ to > cursor
    <3>1. seen \in Nat /\ seen <= MaxHead /\ seen >= from /\ from \in Nat /\ MaxBlocks \in Nat /\ MaxBlocks >= 1
      BY <1>1, <2>2, <2>8, TFacts DEF T!Heads
    <3>2. last \in Nat /\ last <= seen /\ last >= from
      BY <2>3, <3>1
    <3>3. to = from \/ to = last
      BY <2>4 DEF T!PageEnd
    <3> QED
      BY <1>1, <2>2, <3>1, <3>2, <3>3, TFacts DEF T!Heads
  <2>10. IsFiniteSet(page \ T!Buys)
    <3>1. page \ T!Buys \subseteq Transfers
      BY <2>5 DEF T!Within
    <3> QED
      BY <3>1, TFacts, FS_Subset
  <2>11. sells \in Nat
    BY <2>7, <2>10, FS_CardinalityType
  <2>12. /\ left \in Seq(T!Buys) /\ T!Range(left) = page \cap T!Buys
         /\ \A i, j \in 1 .. Len(left) : i < j => left[i] < left[j]
    BY <2>6, TInOrder
  <2>13. pc' \in TPcs /\ pc'.at = "record" /\ pc'.to = to /\ pc'.sells = sells /\ pc'.left = left
    <3>1. pc.who \in {"idle", "tick", "watchdog"} /\ pc.line \in T!Lines
      BY <1>1 DEF TPcs
    <3>2. pc' = [who |-> pc.who, at |-> "record", line |-> pc.line, left |-> left, to |-> to, sells |-> sells]
      BY <1>1, <2>8 DEF TPcs
    <3> QED
      BY <2>9, <2>11, <2>12, <3>1, <3>2 DEF TPcs
  <2>14. TPage'
    <3>1. (T!Within(cursor + 1, pc.to))' = page
      BY <1>2, <2>2, <2>5, <2>13 DEF T!Within
    <3>2. T!Range(pc.left)' = page \cap T!Buys
      BY <2>12, <2>13 DEF T!Range
    <3> QED
      BY <1>1, <1>2, <2>7, <2>9, <2>12, <2>13, <3>1, <3>2 DEF TPage
  <2> QED
    BY <1>1, <1>2, <2>8, <2>13, <2>14, TQuiet DEF TShape
<1> QED
  BY <1>3, <1>4

\* The first of what is left of a page.
LEMMA THeadOf ==
  ASSUME NEW q \in Seq(T!Buys), q # <<>>, \A i, j \in 1 .. Len(q) : i < j => q[i] < q[j]
  PROVE  /\ Head(q) \in T!Buys /\ Head(q) \in T!Range(q) /\ \A x \in T!Range(q) : Head(q) <= x
         /\ Tail(q) \in Seq(T!Buys) /\ \A i, j \in 1 .. Len(Tail(q)) : i < j => Tail(q)[i] < Tail(q)[j]
         /\ T!Range(Tail(q)) \subseteq T!Range(q) /\ T!Range(q) \subseteq T!Range(Tail(q)) \cup {Head(q)}
<1>1. Len(q) \in Nat /\ Len(q) >= 1 /\ DOMAIN q = 1 .. Len(q) /\ Head(q) = q[1] /\ 1 \in 1 .. Len(q)
      /\ \A i \in 1 .. Len(q) : q[i] \in T!Buys /\ q[i] \in Nat
  <2>1. Len(q) \in Nat /\ Len(q) >= 1 /\ DOMAIN q = 1 .. Len(q) /\ Head(q) = q[1]
    OBVIOUS
  <2>2. \A i \in 1 .. Len(q) : q[i] \in T!Buys
    OBVIOUS
  <2>3. \A i \in 1 .. Len(q) : q[i] \in Nat
    BY <2>2, TFacts
  <2>4. 1 \in 1 .. Len(q)
    BY <2>1
  <2> QED
    BY <2>1, <2>2, <2>3, <2>4
<1>2. PICK t : t = Tail(q)
  OBVIOUS
<1>3. t \in Seq(T!Buys) /\ Len(t) = Len(q) - 1 /\ \A i \in 1 .. Len(q) - 1 : t[i] = q[i + 1]
  BY <1>1, <1>2
<1>4. DOMAIN t = 1 .. Len(q) - 1
  BY <1>1, <1>3
<1>5. ASSUME NEW x \in T!Range(q) PROVE Head(q) <= x /\ x \in T!Range(t) \cup {Head(q)}
  <2>1. PICK i \in 1 .. Len(q) : x = q[i]
    BY <1>1, <1>5 DEF T!Range
  <2>2. CASE i = 1
    BY <1>1, <2>1, <2>2
  <2>3. CASE i # 1
    <3>1. 1 < i /\ i - 1 \in 1 .. Len(q) - 1 /\ (i - 1) + 1 = i
      BY <1>1, <2>1, <2>3
    <3>2. t[i - 1] = x
      BY <1>3, <2>1, <3>1
    <3>3. q[1] < q[i] /\ q[1] \in Nat /\ q[i] \in Nat
      BY <1>1, <2>1, <3>1
    <3>4. Head(q) <= x
      BY <1>1, <2>1, <3>3
    <3> QED
      BY <1>4, <3>1, <3>2, <3>4 DEF T!Range
  <2> QED
    BY <2>2, <2>3
<1>6. ASSUME NEW x \in T!Range(t) PROVE x \in T!Range(q)
  <2>1. PICK i \in 1 .. Len(q) - 1 : x = t[i]
    BY <1>4, <1>6 DEF T!Range
  <2>2. i + 1 \in 1 .. Len(q) /\ x = q[i + 1]
    BY <1>1, <1>3, <2>1
  <2> QED
    BY <1>1, <2>2 DEF T!Range
<1>7. ASSUME NEW i \in 1 .. Len(t), NEW j \in 1 .. Len(t), i < j PROVE t[i] < t[j]
  <2>1. i \in 1 .. Len(q) - 1 /\ j \in 1 .. Len(q) - 1 /\ i + 1 \in 1 .. Len(q) /\ j + 1 \in 1 .. Len(q) /\ i + 1 < j + 1
    BY <1>1, <1>3, <1>7
  <2>2. t[i] = q[i + 1] /\ t[j] = q[j + 1]
    BY <1>3, <2>1
  <2> QED
    BY <2>1, <2>2
<1>8. Head(q) \in T!Buys /\ Head(q) \in T!Range(q)
  BY <1>1 DEF T!Range
<1> QED
  BY <1>2, <1>3, <1>5, <1>6, <1>7, <1>8

LEMMA TQueueDelivery == TInv /\ T!QueueDelivery => TInv'
<1> SUFFICES ASSUME TInv, T!QueueDelivery PROVE TInv'
  OBVIOUS
<1>1. TShape /\ TFeed /\ TLines /\ TPage /\ pc \in TPcs /\ pc.at = "record" /\ pc.left # <<>> /\ pc.left \in Seq(T!Buys)
  BY DEF TInv, T!QueueDelivery, TShape, TPcs
<1>2. PICK b : b = Head(pc.left)
  OBVIOUS
<1>3. PICK fresh : fresh = (counts.of[BuyerAt[b]] = 0)
  OBVIOUS
<1>4. /\ b \notin DOMAIN queued /\ backlog' = Append(backlog, b)
      /\ queued' = [x \in DOMAIN queued \cup {b} |-> IF x = b THEN fresh ELSE queued[x]]
      /\ UNCHANGED <<head, cursor, start, rows, counts, taken, pc, alarm, posted>>
  BY <1>2, <1>3 DEF T!QueueDelivery
<1>5. /\ b \in T!Buys /\ b \in Nat /\ b \in T!Within(cursor + 1, pc.to) /\ \A x \in T!Range(pc.left) : b <= x
  BY <1>1, <1>2, THeadOf, TFacts DEF TPage
<1>6. BlockAt[b] \in Nat /\ BlockAt[b] > cursor /\ BlockAt[b] <= pc.to /\ cursor \in Int /\ start \in Int /\ start <= cursor
      /\ pc.to \in Nat
  <2>1. cursor \in Int /\ start \in Int /\ start <= cursor /\ cursor # T!Unread /\ cursor >= -1
    BY <1>1, TCursors DEF TPage, TFeed, TRows
  <2>2. pc.to \in Nat
    BY <1>1, TFacts DEF TPcs
  <2>3. BlockAt[b] \in Nat /\ BlockAt[b] \in cursor + 1 .. pc.to
    BY <1>5, TFacts DEF T!Within
  <2> QED
    BY <2>1, <2>2, <2>3
<1>7. b \notin T!Counted
  BY <1>1, <1>4, <1>6, TCountedIs DEF TFeed, TRows
<1>8. /\ DOMAIN queued' = DOMAIN queued \cup {b} /\ queued'[b] = fresh
      /\ \A c \in DOMAIN queued : queued'[c] = queued[c]
  BY <1>4
<1>9. T!Covered' = T!Covered /\ T!Counted' = T!Counted
  BY <1>4 DEF T!Covered, T!Counted
<1>10. TRows' /\ TCounts'
  <2>1. cursor # T!Unread
    BY <1>1 DEF TPage
  <2> QED
    BY <1>1, <1>4, <1>8, <1>9, <2>1 DEF TFeed, TRows, TCounts
<1>11. ASSUME NEW d \in T!Buys, d < b, start < BlockAt[d] PROVE d \in T!Counted
  <2>1. d \in Nat /\ BlockAt[d] \in Nat /\ BlockAt[d] <= BlockAt[b]
    BY <1>5, <1>11, TFacts
  <2>2. CASE BlockAt[d] <= cursor
    BY <1>1, <1>11, <2>2, TCountedIs
  <2>3. CASE ~(BlockAt[d] <= cursor)
    <3>1. BlockAt[d] \in cursor + 1 .. pc.to
      BY <1>6, <2>1, <2>3
    <3>2. d \in T!Within(cursor + 1, pc.to)
      BY <3>1, TFacts DEF T!Within
    <3>3. d \notin T!Range(pc.left)
      BY <1>5, <1>11, <2>1
    <3> QED
      BY <1>1, <3>2, <3>3, TCountedIs DEF TPage
  <2> QED
    BY <2>2, <2>3
<1>12. TOrder'
  BY <1>1, <1>4, <1>8, <1>9, <1>11 DEF TFeed, TOrder
<1>13. ASSUME NEW c \in T!Counted PROVE c < b
  <2>1. c \in T!Buys /\ c \in Nat /\ c # b /\ BlockAt[c] \in Nat
    BY <1>1, <1>7, TCountedIs, TFacts
  <2>2. CASE c \in rows
    BY <1>1, <1>5, <1>6, <1>7, <2>1, <2>2 DEF TFeed, TRows, TOrder
  <2>3. CASE c \notin rows
    <3>1. BlockAt[c] <= cursor
      BY <1>1, <2>3, TCountedIs
    <3>2. ~(b <= c)
      BY <1>5, <1>6, <2>1, <3>1, TFacts
    <3> QED
      BY <1>5, <2>1, <3>2
  <2> QED
    BY <2>2, <2>3
<1>14. IF fresh THEN \A c \in T!Counted : BuyerAt[c] = BuyerAt[b] /\ c # b => c > b
       ELSE \E c \in T!Counted : BuyerAt[c] = BuyerAt[b] /\ c < b
  <2>1. PICK O : O = {c \in T!Counted : BuyerAt[c] = BuyerAt[b]}
    OBVIOUS
  <2>2. counts.of[BuyerAt[b]] = Cardinality(O)
    BY <1>1, <1>5, <2>1, TFacts DEF TFeed, TCounts
  <2>3. IsFiniteSet(O)
    <3>1. O \subseteq Transfers
      BY <1>1, <2>1, TCountedIs, TFacts
    <3> QED
      BY <3>1, TFacts, FS_Subset
  <2>4. fresh <=> O = {}
    BY <1>3, <2>2, <2>3, FS_EmptySet
  <2>5. CASE O = {}
    BY <2>1, <2>4, <2>5
  <2>6. CASE O # {}
    <3>1. PICK c : c \in O
      BY <2>6
    <3>2. c \in T!Counted /\ BuyerAt[c] = BuyerAt[b] /\ c < b
      BY <1>13, <2>1, <3>1
    <3> QED
      BY <2>4, <2>6, <3>2
  <2> QED
    BY <2>5, <2>6
<1>15. TFirst'
  <2>1. ASSUME NEW x \in DOMAIN queued \cup {b}
        PROVE  IF queued'[x] THEN \A c \in T!Counted : BuyerAt[c] = BuyerAt[x] /\ c # x => c > x
               ELSE \E c \in T!Counted : BuyerAt[c] = BuyerAt[x] /\ c < x
    <3>1. CASE x = b
      BY <1>8, <1>14, <3>1
    <3>2. CASE x # b
      BY <1>1, <1>8, <2>1, <3>2 DEF TFeed, TFirst
    <3> QED
      BY <3>1, <3>2
  <2> QED
    BY <1>8, <1>9, <2>1 DEF TFirst
<1>16. PICK list : list = backlog'
  OBVIOUS
<1>17. TListed(list) /\ T!Range(list) = T!Range(backlog) \cup {b}
  <2>1. b \notin T!Range(backlog)
    BY <1>1, <1>4, <1>5 DEF TLines
  <2>2. TListed(backlog) /\ b \in T!Lines
    BY <1>1, <1>5, TFacts DEF TShape
  <2> QED
    BY <1>4, <1>16, <2>1, <2>2, TAppended
<1>18. TListed(backlog)' /\ T!Range(backlog)' = T!Range(list)
  BY <1>16, <1>17 DEF TListed, T!IsInjective, T!Range
<1>19. TLines'
  BY <1>1, <1>4, <1>8, <1>9, <1>17, <1>18 DEF TLines
<1>20. TPage'
  <2>1. (T!Within(cursor + 1, pc.to))' = T!Within(cursor + 1, pc.to) /\ T!Range(pc.left)' = T!Range(pc.left)
    BY <1>4 DEF T!Within, T!Range
  <2> QED
    BY <1>1, <1>4, <2>1 DEF TPage
<1>21. TShape'
  BY <1>1, <1>4, <1>5, <1>8, <1>18 DEF TShape
<1> QED
  BY <1>10, <1>12, <1>15, <1>19, <1>20, <1>21 DEF TInv, TFeed

LEMMA TRecordBuy == TInv /\ T!RecordBuy => TInv'
<1> SUFFICES ASSUME TInv, T!RecordBuy PROVE TInv'
  OBVIOUS
<1>1. TShape /\ TFeed /\ TLines /\ TPage /\ pc \in TPcs /\ pc.at = "record" /\ pc.left # <<>> /\ pc.left \in Seq(T!Buys)
  BY DEF TInv, T!RecordBuy, TShape, TPcs
<1>2. PICK b : b = Head(pc.left)
  OBVIOUS
<1>3. PICK t : t = Tail(pc.left)
  OBVIOUS
<1>4. /\ b \in DOMAIN queued /\ T!Record(b) /\ pc' = [pc EXCEPT !.left = t]
      /\ UNCHANGED <<head, cursor, start, queued, backlog, taken, alarm, posted>>
  BY <1>2, <1>3 DEF T!RecordBuy
<1>5. /\ b \in T!Within(cursor + 1, pc.to)
      /\ t \in Seq(T!Buys) /\ \A i, j \in 1 .. Len(t) : i < j => t[i] < t[j]
      /\ T!Range(t) \subseteq T!Range(pc.left) /\ T!Range(pc.left) \subseteq T!Range(t) \cup {b}
  BY <1>1, <1>2, <1>3, THeadOf DEF TPage
<1>6. BlockAt[b] > cursor
  BY <1>1, <1>5, TFacts, TCursors DEF T!Within, TPcs
<1>7. /\ TFeed' /\ rows' \in SUBSET T!Buys /\ counts' \in [buys : Nat, sells : Nat, of : [T!Wallets -> Nat]]
      /\ rows \subseteq rows' /\ b \in rows'
  BY <1>1, <1>4, <1>6, TRecorded
<1>8. TLines'
  <2>1. T!Covered' = T!Covered /\ T!Range(backlog)' = T!Range(backlog)
    BY <1>4 DEF T!Covered, T!Range
  <2> QED
    BY <1>1, <1>4, <2>1 DEF TLines
<1>9. /\ pc' \in TPcs /\ pc'.at = "record" /\ pc'.left = t /\ pc'.to = pc.to /\ pc'.sells = pc.sells
  BY <1>1, <1>4, <1>5 DEF TPcs
<1>10. TPage'
  <2>1. (T!Within(cursor + 1, pc.to))' = T!Within(cursor + 1, pc.to) /\ T!Range(pc.left)' = T!Range(t)
    BY <1>4, <1>9 DEF T!Within, T!Range
  <2> QED
    BY <1>1, <1>4, <1>5, <1>7, <1>9, <2>1 DEF TPage
<1>11. TShape'
  BY <1>1, <1>4, <1>7, <1>9 DEF TShape, TListed, T!IsInjective
<1> QED
  BY <1>7, <1>8, <1>10, <1>11 DEF TInv

\* The page is finished: its rows become blocks that are read.
LEMMA TCommit == TInv /\ T!Commit => TInv'
<1> SUFFICES ASSUME TInv, T!Commit PROVE TInv'
  OBVIOUS
<1>1. TShape /\ TFeed /\ TLines /\ TPage /\ pc \in TPcs /\ pc.at = "record" /\ pc.left = <<>>
  BY DEF TInv, T!Commit, TShape
<1>2. PICK page : page = T!Within(cursor + 1, pc.to)
  OBVIOUS
<1>3. PICK gone : gone = {b \in DOMAIN queued : ~(BlockAt[b] > pc.to \/ b \in T!Range(backlog))}
  OBVIOUS
<1>4. /\ counts' = [counts EXCEPT !.sells = @ + pc.sells] /\ cursor' = pc.to
      /\ rows' = {b \in rows : BlockAt[b] > pc.to}
      /\ T!Ends /\ UNCHANGED <<head, start, backlog, taken, posted>>
  BY DEF T!Commit
<1>5. queued' = [b \in DOMAIN queued \ gone |-> queued[b]]
  <2>1. {x \in DOMAIN queued : BlockAt[x] > pc.to \/ x \in T!Range(backlog)} = DOMAIN queued \ gone
    BY <1>3
  <2> QED
    BY <2>1 DEF T!Commit
<1>6. DOMAIN queued' = DOMAIN queued \ gone /\ \A b \in DOMAIN queued' : queued'[b] = queued[b]
  BY <1>5
<1>7. /\ cursor \in Nat /\ start \in Int /\ start <= cursor /\ pc.to \in Nat /\ pc.to > cursor /\ pc.to \in T!Heads
      /\ pc.sells = Cardinality(page \ T!Buys) /\ pc.sells \in Nat /\ counts.sells \in Nat /\ pc.to # T!Unread
  <2>1. cursor \in Int /\ start \in Int /\ start <= cursor /\ cursor # T!Unread /\ cursor >= -1
    BY <1>1, TCursors DEF TPage, TFeed, TRows
  <2>2. pc.to \in T!Heads /\ pc.sells \in Nat /\ pc.to \in Nat
    BY <1>1, TFacts DEF TPcs
  <2>3. pc.to > cursor /\ pc.sells = Cardinality(page \ T!Buys)
    BY <1>1, <1>2 DEF TPage
  <2>4. counts.sells \in Nat
    BY <1>1 DEF TShape
  <2> QED
    BY <2>1, <2>2, <2>3, <2>4, TFacts
<1>8. \A b \in T!Buys : b \in page => b \in rows
  <2>1. T!Range(pc.left) = {}
    BY <1>1 DEF T!Range
  <2> QED
    BY <1>1, <1>2, <2>1 DEF TPage
<1>9. \A t : t \in T!Covered' <=> t \in T!Covered \/ t \in page
  <2>1. ASSUME NEW t \in Transfers
        PROVE  start < BlockAt[t] /\ BlockAt[t] <= pc.to
                 <=> (start < BlockAt[t] /\ BlockAt[t] <= cursor) \/ BlockAt[t] \in cursor + 1 .. pc.to
    BY <1>7, TFacts
  <2> QED
    BY <1>2, <1>4, <2>1 DEF T!Covered, T!Within
<1>10. \A t \in page : t \in Transfers /\ t \notin T!Covered
  <2>1. \A t \in page : t \in Transfers /\ BlockAt[t] \in cursor + 1 .. pc.to
    BY <1>2 DEF T!Within
  <2>2. \A t \in page : ~(BlockAt[t] <= cursor)
    BY <1>7, <2>1
  <2> QED
    BY <2>1, <2>2 DEF T!Covered
<1>11. T!Counted' = T!Counted
  <2>1. ASSUME NEW b \in T!Buys PROVE b \in T!Counted' <=> b \in T!Counted
    <3>1. b \in T!Counted' <=> b \in T!Covered' \/ (b \in rows /\ BlockAt[b] > pc.to)
      BY <1>4, <2>1 DEF T!Counted
    <3>2. b \in T!Counted <=> b \in T!Covered \/ b \in rows
      BY <2>1 DEF T!Counted
    <3>3. b \in rows => b \in page \/ BlockAt[b] > pc.to
      <4>1. ASSUME b \in rows PROVE BlockAt[b] > cursor /\ BlockAt[b] \in Nat /\ b \in Transfers
        BY <1>1, <4>1, TFacts DEF TFeed, TRows, TShape
      <4> QED
        BY <1>2, <1>7, <4>1 DEF T!Within
    <3> QED
      BY <1>8, <1>9, <2>1, <3>1, <3>2, <3>3
  <2>2. T!Counted' \subseteq T!Buys /\ T!Counted \subseteq T!Buys
    BY <1>1, <1>4 DEF T!Counted, TShape
  <2> QED
    BY <2>1, <2>2
<1>12. counts'.buys = counts.buys /\ counts'.of = counts.of /\ counts'.sells = counts.sells + pc.sells
       /\ counts' \in [buys : Nat, sells : Nat, of : [T!Wallets -> Nat]]
  <2>1. PICK n : n = counts.sells + pc.sells
    OBVIOUS
  <2>2. n \in Nat
    BY <1>7, <2>1
  <2>3. counts' = [counts EXCEPT !.sells = n] /\ counts \in [buys : Nat, sells : Nat, of : [T!Wallets -> Nat]]
    BY <1>1, <1>4, <2>1 DEF TShape
  <2> QED
    BY <2>1, <2>2, <2>3
<1>13. Cardinality(T!Covered' \ T!Buys) = Cardinality(T!Covered \ T!Buys) + Cardinality(page \ T!Buys)
  <2>1. PICK A : A = T!Covered \ T!Buys
    OBVIOUS
  <2>2. PICK B : B = page \ T!Buys
    OBVIOUS
  <2>3. A \subseteq Transfers /\ B \subseteq Transfers /\ A \cap B = {} /\ T!Covered' \ T!Buys = A \cup B
    BY <1>9, <1>10, <2>1, <2>2 DEF T!Covered
  <2>4. IsFiniteSet(A) /\ IsFiniteSet(B)
    BY <2>3, TFacts, FS_Subset
  <2>5. Cardinality(A \cup B) = Cardinality(A) + Cardinality(B)
    <3>1. Cardinality(A \cup B) = Cardinality(A) + Cardinality(B) - Cardinality(A \cap B)
      BY <2>4, FS_Union
    <3>2. Cardinality(A \cap B) = 0 /\ Cardinality(A) \in Nat /\ Cardinality(B) \in Nat
      BY <2>3, <2>4, FS_EmptySet, FS_CardinalityType
    <3> QED
      BY <3>1, <3>2
  <2> QED
    BY <2>1, <2>2, <2>3, <2>5
<1>14. TCounts'
  BY <1>1, <1>7, <1>11, <1>12, <1>13 DEF TFeed, TCounts
<1>15. TRows'
  <2>1. \A b \in rows' : b \in DOMAIN queued'
    <3>1. \A b \in rows : b \in DOMAIN queued
      BY <1>1 DEF TFeed, TRows
    <3> QED
      BY <1>3, <1>4, <1>6, <3>1
  <2> QED
    BY <1>4, <1>7, <2>1 DEF TRows
<1>16. TOrder' /\ TFirst'
  BY <1>1, <1>4, <1>6, <1>11 DEF TFeed, TOrder, TFirst
<1>17. TLines'
  <2>1. T!Range(backlog)' = T!Range(backlog)
    BY <1>4 DEF T!Range
  <2>2. \A b \in T!Buys : b \in T!Range(backlog) => b \in DOMAIN queued'
    BY <1>1, <1>3, <1>6 DEF TLines
  <2>3. \A b \in DOMAIN queued' : b \in posted \/ b \in T!Range(backlog)
    BY <1>1, <1>6 DEF TLines
  <2>4. \A b \in T!Buys : b \in T!Covered' => b \in posted \/ b \in T!Range(backlog)
    BY <1>1, <1>8, <1>9 DEF TLines, TFeed, TRows
  <2> QED
    BY <1>4, <2>1, <2>2, <2>3, <2>4 DEF TLines
<1>18. pc' \in TPcs /\ alarm' \in BOOLEAN /\ TPage'
  BY <1>4, TEnds, TNoPage
<1>19. TListed(backlog)'
  BY <1>1, <1>4 DEF TShape, TListed, T!IsInjective
<1>20. TShape'
  BY <1>1, <1>4, <1>6, <1>7, <1>12, <1>18, <1>19 DEF TShape
<1> QED
  BY <1>14, <1>15, <1>16, <1>17, <1>18, <1>20 DEF TInv, TFeed

LEMMA TStart == T!Init => TInv
<1> SUFFICES ASSUME T!Init PROVE TInv
  OBVIOUS
<1>1. PICK e : e = <<>>
  OBVIOUS
<1>2. TListed(e) /\ DOMAIN e = {} /\ T!Range(e) = {}
  BY <1>1 DEF TListed, T!IsInjective, T!Range
<1>3. queued = e /\ backlog = e /\ rows = {} /\ cursor = T!Unread /\ start = T!Unread /\ head = 0 /\ pc = T!Idle
  BY <1>1 DEF T!Init
<1>4. counts = [buys |-> 0, sells |-> 0, of |-> [w \in T!Wallets |-> 0]]
  BY DEF T!Init
<1>5. 0 \in T!Heads /\ 0 \in 0 .. LinesAWindow
  BY TFacts, TradesAssumption DEF T!Heads
<1>6. TShape
  <2>1. counts \in [buys : Nat, sells : Nat, of : [T!Wallets -> Nat]]
    <3>1. PICK of : of = [w \in T!Wallets |-> 0]
      OBVIOUS
    <3>2. of \in [T!Wallets -> Nat]
      BY <3>1
    <3> QED
      BY <1>4, <3>1, <3>2
  <2>2. taken = 0 /\ alarm \in BOOLEAN
    BY DEF T!Init
  <2>3. DOMAIN queued = {} /\ TListed(backlog)
    BY <1>2, <1>3
  <2> QED
    BY <1>3, <1>5, <2>1, <2>2, <2>3, TIdle DEF TShape
<1>7. T!Covered = {} /\ T!Counted = {}
  <2>1. \A t \in Transfers : ~(BlockAt[t] <= cursor)
    BY <1>3, TFacts
  <2> QED
    BY <1>3, <2>1 DEF T!Covered, T!Counted
<1>8. TRows /\ TOrder /\ TFirst /\ TLines
  BY <1>2, <1>3, <1>7, TFacts DEF TRows, TOrder, TFirst, TLines
<1>9. TCounts
  <2>1. Cardinality({}) = 0
    BY FS_EmptySet
  <2>2. \A w : {b \in T!Counted : BuyerAt[b] = w} = {}
    BY <1>7
  <2> QED
    BY <1>4, <1>7, <2>1, <2>2 DEF TCounts
<1>10. TPage
  BY <1>3, TIdle DEF TPage
<1> QED
  BY <1>6, <1>8, <1>9, <1>10 DEF TInv, TFeed

LEMMA TUnchanged == TInv /\ UNCHANGED T!vars => TInv'
<1> SUFFICES ASSUME TInv, UNCHANGED T!vars PROVE TInv'
  OBVIOUS
<1>1. UNCHANGED <<cursor, start, queued, rows, counts, backlog, posted>> /\ UNCHANGED <<head, taken, alarm, pc>>
  BY DEF T!vars
<1>2. TPage'
  BY <1>1 DEF TInv, TPage, T!Within
<1> QED
  BY <1>1, <1>2, TQuiet DEF TInv, TShape

LEMMA TStep == TInv /\ [T!Next]_(T!vars) => TInv'
BY TUnchanged, THeadMoves, TWindowRolls, TTimePasses, TTick, TWatchdog, TSent, TReadFails, TFirstRead, TReadPage,
   TQueueDelivery, TRecordBuy, TCommit, TDie DEF T!Next

LEMMA TType == TInv => T!TypeOK /\ FeedIsTrue
<1> SUFFICES ASSUME TInv PROVE T!TypeOK /\ FeedIsTrue
  OBVIOUS
<1>1. TShape /\ TFeed /\ TLines /\ TListed(backlog) /\ pc \in TPcs
  BY DEF TInv, TShape
<1>2. T!Range(backlog) \subseteq T!Lines
  <2>1. backlog \in Seq(T!Lines)
    BY <1>1 DEF TListed
  <2> QED
    BY <2>1 DEF T!Range
<1>3. T!TypeOK
  BY <1>1, <1>2 DEF TShape, T!TypeOK, TListed, TPcs
<1>4. T!FeedIsTrue
  <2>1. \A b \in T!Covered \cap T!Buys : b \in posted \cup T!Range(backlog)
    BY <1>1 DEF TLines
  <2>2. ASSUME NEW b \in DOMAIN queued
        PROVE  LET others == {c \in T!Counted \ {b} : BuyerAt[c] = BuyerAt[b]}
               IN  IF queued[b] THEN \A c \in others : c > b ELSE \E c \in others : c < b
    <3>1. b \in Nat
      BY <1>1, TFacts DEF TShape
    <3>2. CASE queued[b]
      BY <1>1, <3>2 DEF TFeed, TFirst
    <3>3. CASE ~queued[b]
      <4>1. PICK c \in T!Counted : BuyerAt[c] = BuyerAt[b] /\ c < b
        BY <1>1, <3>3 DEF TFeed, TFirst
      <4>2. c # b
        BY <3>1, <4>1
      <4> QED
        BY <3>3, <4>1, <4>2
    <3> QED
      BY <3>2, <3>3
  <2> QED
    BY <1>1, <2>1, <2>2, TCard DEF T!FeedIsTrue, TFeed, TCounts
<1> QED
  BY <1>3, <1>4 DEF FeedIsTrue

\* Whatever died, was replayed or was refused, the counts are those of the blocks read, every buy in them has its
\* line said or waiting, and "for the first time" is said of the first buy of a wallet and no other, for any
\* trades, any sizes of a page and of a delivery window, and any lines that Telegram refuses.
THEOREM FeedIsTrueAlways == T!Spec => [](T!TypeOK /\ FeedIsTrue)
BY TStart, TStep, TType, PTL DEF T!Spec
=============================================================================
