------------------------- MODULE LaunchWatch_proofs -------------------------
(***************************************************************************)
(* Proofs about LaunchWatch, for every log, every set of rules and every   *)
(* setting of the watcher.                                                 *)
(***************************************************************************)
EXTENDS LaunchWatch, FiniteSetTheorems, TLAPS

LEMMA Sets ==
  /\ Launches \subseteq Nat \ {0} /\ Rules \subseteq Nat \ {0}
  /\ IsFiniteSet(Launches) /\ IsFiniteSet(Rules)
  /\ \A l \in Launches : Log[l] \in Nat \ {0}
  /\ NoLine \notin Lines
<1>1. Launches = 1..Len(Log) /\ Rules = 1..Len(RuleOwner)
  BY LogAssumption, RulesAssumption DEF Launches, Rules
<1>2. IsFiniteSet(Launches) /\ IsFiniteSet(Rules)
  BY <1>1, FS_Interval, LogAssumption, RulesAssumption
<1>3. \A l \in Launches : Log[l] \in Nat \ {0}
  BY LogAssumption DEF Launches
<1> QED
  BY <1>1, <1>2, <1>3, LogAssumption, RulesAssumption DEF NoLine, Lines

LEMMA Settings ==
  /\ MaxBlocks \in Nat \ {0} /\ MaxLaunches \in Nat \ {0} /\ Capacity \in Nat \ {0}
  /\ Batch \in Nat \ {0} /\ ReadAttempts \in Nat \ {0}
  /\ MaxHead \in Nat /\ MaxLost \in Nat /\ MaxCrashes \in Nat /\ CountFloor \in Nat
BY SettingsAssumption

LEMMA IdleType == Idle \in Rounds
BY DEF Idle, Rounds, Steps, None

LEMMA RestrictedRows ==
  ASSUME NEW f, NEW S, S \subseteq DOMAIN f,
         DOMAIN f \subseteq Lines, \A p \in DOMAIN f : f[p] \in Row
  PROVE  /\ DOMAIN Restrict(f, S) = S /\ S \subseteq Lines
         /\ \A p \in S : Restrict(f, S)[p] = f[p] /\ Restrict(f, S)[p] \in Row
BY DEF Restrict

\* Ranks are numbers: the rows are finitely many.
LEMMA StampRows ==
  ASSUME TypeOK, NEW p \in DOMAIN ledger
  PROVE  /\ DOMAIN Stamp(p) = DOMAIN ledger
         /\ \A q \in DOMAIN ledger : /\ Stamp(p)[q] \in Row
                                     /\ Stamp(p)[q].sent = ledger[q].sent
<1> DEFINE others == DOMAIN ledger \ {p}
           lasts  == {ledger[q].last : q \in others}
           ranks  == lasts \ {0}
           rank(n) == Cardinality({m \in ranks : m <= n})
           f == [q \in others |-> ledger[q].last]
<1>1. IsFiniteSet(others)
  <2>1. IsFiniteSet(Rules \X Launches)
    BY FS_Product, Sets
  <2>2. others \in SUBSET (Rules \X Launches)
    BY DEF TypeOK, Lines
  <2> QED
    BY <2>1, <2>2, FS_Subset
<1>2. IsFiniteSet(lasts)
  <2>1. f \in Surjection(others, lasts)
    BY DEF Surjection
  <2> QED
    BY <1>1, <2>1, FS_Surjection
<1>3. IsFiniteSet(ranks)
  <2>1. ranks \in SUBSET lasts
    OBVIOUS
  <2> QED
    BY <1>2, <2>1, FS_Subset
<1>4. Cardinality(ranks) + 1 \in Nat
  <2>1. Cardinality(ranks) \in Nat
    BY <1>3, FS_CardinalityType
  <2> QED
    BY <2>1
<1>5. \A n : rank(n) \in Nat
  <2> TAKE n
  <2>1. {m \in ranks : m <= n} \in SUBSET ranks
    OBVIOUS
  <2>2. IsFiniteSet({m \in ranks : m <= n})
    BY <1>3, <2>1, FS_Subset
  <2> QED
    BY <2>2, FS_CardinalityType
<1>6. Stamp(p) = [q \in DOMAIN ledger |->
                    [ledger[q] EXCEPT !.last = IF q = p THEN Cardinality(ranks) + 1 ELSE rank(ledger[q].last)]]
  BY DEF Stamp
<1> HIDE DEF ranks, rank
<1>7. \A q \in DOMAIN ledger : ledger[q] \in Row
  BY DEF TypeOK
<1> QED
  BY <1>4, <1>5, <1>6, <1>7 DEF Row

LEMMA WithoutRows ==
  ASSUME TypeOK, NEW S
  PROVE  /\ DOMAIN Without(S) = DOMAIN ledger \ S
         /\ DOMAIN Without(S) \subseteq Lines
         /\ \A p \in DOMAIN Without(S) : Without(S)[p] = ledger[p] /\ Without(S)[p] \in Row
BY RestrictedRows DEF TypeOK, Without

LEMMA CleanedRows ==
  ASSUME NEW rows, NEW kept, NEW upto,
         DOMAIN rows \subseteq Lines, \A p \in DOMAIN rows : rows[p] \in Row
  PROVE  /\ DOMAIN Cleaned(rows, kept, upto) =
              {p \in DOMAIN rows : ~(rows[p].sent /\ p[2] \in kept /\ Log[p[2]] <= upto)}
         /\ DOMAIN Cleaned(rows, kept, upto) \subseteq Lines
         /\ \A p \in DOMAIN Cleaned(rows, kept, upto) :
              Cleaned(rows, kept, upto)[p] = rows[p] /\ Cleaned(rows, kept, upto)[p] \in Row
BY RestrictedRows DEF Cleaned

LEMMA LoseType ==
  ASSUME TypeOK, NEW p \in Lines, Lose(p)
  PROVE  told' \in [Lines -> Nat] /\ lost' \in [Lines -> 0..MaxLost]
<1>1. told[p] \in Nat /\ lost[p] \in 0..MaxLost
  BY DEF TypeOK
<1>2. told[p] + 1 \in Nat /\ lost[p] + 1 \in 0..MaxLost
  BY <1>1, Settings DEF Lose
<1> QED
  BY <1>2 DEF Lose, TypeOK

LEMMA NextLineType == TypeOK => NextLine \in Rounds
BY DEF TypeOK, NextLine, Rounds, Steps

LEMMA TypeOthers ==
  ASSUME TypeOK, Others
  PROVE  TypeOK'
<1>1. CASE Mine
  BY <1>1, Settings DEF Mine, TypeOK, outside, table, log, sending
<1>2. CASE Publish
  BY <1>2, Settings DEF Publish, TypeOK, outside, table, log, sending
<1>3. CASE AddRule
  <2>1. nextRule \in 1..Len(RuleOwner) /\ Len(RuleOwner) \in Nat
    BY <1>3, RulesAssumption DEF AddRule, Rules
  <2>2. rules \subseteq 1..(nextRule - 1) /\ rules' = rules \cup {nextRule} /\ nextRule' = nextRule + 1
    BY <1>3 DEF AddRule, TypeOK
  <2>3. nextRule' \in 1..(Len(RuleOwner) + 1) /\ rules' \subseteq 1..(nextRule' - 1)
    BY <2>1, <2>2
  <2> QED
    BY <1>3, <2>3 DEF AddRule, TypeOK, outside, log, sending
<1>4. CASE RemoveRule \/ Forget
  <2>1. PICK gone : Remove(gone)
    BY <1>4 DEF RemoveRule, Forget
  <2> QED
    BY <2>1, WithoutRows DEF Remove, TypeOK, outside, table, log, sending
<1>5. CASE \E p \in Lines : Age(p)
  <2>1. PICK p \in Lines : Age(p)
    BY <1>5
  <2>2. p \in DOMAIN ledger /\ DOMAIN ledger' = DOMAIN ledger
    BY <2>1 DEF Age, Unsent
  <2>3. \A q \in DOMAIN ledger' : ledger'[q] \in Row
    BY <2>1, <2>2 DEF Age, TypeOK, Row
  <2> QED
    BY <2>1, <2>2, <2>3 DEF Age, TypeOK, outside, table, log
<1> QED
  BY <1>1, <1>2, <1>3, <1>4, <1>5 DEF Others

LEMMA TypeSending ==
  ASSUME TypeOK, Sending
  PROVE  TypeOK'
<1>1. CASE Beat
  <2>1. PICK S \in SUBSET Unsent :
          round' = [Idle EXCEPT !.at = "flush", !.todo = S, !.active = {p[1] : p \in S} \cap rules]
    BY <1>1 DEF Beat
  <2>2. S \subseteq Lines /\ rules \subseteq Rules
    BY RulesAssumption DEF TypeOK, Unsent, Rules
  <2>3. round' \in Rounds
    BY <2>1, <2>2, IdleType DEF Rounds, Steps
  <2> QED
    BY <1>1, <2>3 DEF Beat, TypeOK, outside, table, log, sending
<1>2. ASSUME NEW p \in Lines, Flush(p) PROVE TypeOK'
  <2>1. round' \in Rounds
    <3>1. CASE round' = [round EXCEPT !.at = "session", !.line = p]
      BY <3>1 DEF TypeOK, Rounds, Steps
    <3>2. CASE round' = [round EXCEPT !.todo = @ \ {p}]
      BY <3>2 DEF TypeOK, Rounds
    <3> QED
      BY <1>2, <3>1, <3>2 DEF Flush
  <2>2. DOMAIN ledger' \subseteq Lines /\ \A q \in DOMAIN ledger' : ledger'[q] \in Row
    <3>1. CASE p \in DOMAIN ledger /\ p[1] \in round.active
      BY <1>2, <3>1, StampRows DEF Flush, TypeOK
    <3>2. CASE ~(p \in DOMAIN ledger /\ p[1] \in round.active)
      BY <1>2, <3>2, WithoutRows DEF Flush
    <3> QED
      BY <3>1, <3>2
  <2> QED
    BY <1>2, <2>1, <2>2 DEF Flush, TypeOK, outside, table, log
<1>3. CASE NoSession
  <2>1. round.line \in DOMAIN ledger => round.line \in Lines
    BY DEF TypeOK
  <2>2. DOMAIN ledger' \subseteq Lines /\ \A q \in DOMAIN ledger' : ledger'[q] \in Row
    BY <1>3, WithoutRows DEF NoSession, TypeOK
  <2> QED
    BY <1>3, <2>1, <2>2, NextLineType DEF NoSession, TypeOK, outside, table, log
<1>4. ASSUME NEW p \in Lines, Session(p) PROVE TypeOK'
  <2>1. round' \in Rounds
    BY <1>4, NextLineType DEF Session, TypeOK, Rounds, Steps
  <2>2. DOMAIN ledger' \subseteq Lines /\ \A q \in DOMAIN ledger' : ledger'[q] \in Row
    BY <1>4, WithoutRows DEF Session, TypeOK
  <2> QED
    BY <1>4, <2>1, <2>2 DEF Session, TypeOK, outside, table, log
<1>5. ASSUME NEW p \in Lines, Accept(p) PROVE TypeOK'
  <2>1. DOMAIN ledger' \subseteq Lines /\ \A q \in DOMAIN ledger' : ledger'[q] \in Row
    <3>1. CASE p \notin DOMAIN ledger
      BY <1>5, <3>1 DEF Accept, TypeOK
    <3>2. CASE p \in DOMAIN ledger /\ Covered(p)
      BY <1>5, <3>2, WithoutRows DEF Accept
    <3>3. CASE p \in DOMAIN ledger /\ ~Covered(p)
      BY <1>5, <3>3 DEF Accept, TypeOK, Row
    <3> QED
      BY <3>1, <3>2, <3>3
  <2>2. told' \in [Lines -> Nat]
    BY <1>5 DEF Accept, TypeOK
  <2> QED
    BY <1>5, <2>1, <2>2, NextLineType DEF Accept, TypeOK, outside, table, log
<1>6. ASSUME NEW p \in Lines, AnswerLost(p) PROVE TypeOK'
  <2>1. told' \in [Lines -> Nat] /\ lost' \in [Lines -> 0..MaxLost]
    BY <1>6, LoseType DEF AnswerLost
  <2> QED
    BY <1>6, <2>1, NextLineType DEF AnswerLost, TypeOK, outside, table, log
<1>7. CASE Refuse
  BY <1>7, NextLineType DEF Refuse, TypeOK, outside, table, log, sending
<1>8. CASE Backlog
  <2>1. round' \in Rounds
    BY <1>8, IdleType DEF Backlog, Rounds, Steps
  <2> QED
    BY <1>8, <2>1 DEF Backlog, TypeOK, outside, table, log, sending
<1> QED
  BY <1>1, <1>2, <1>3, <1>4, <1>5, <1>6, <1>7, <1>8 DEF Sending

LEMMA GiveUpType ==
  ASSUME TypeOK, NEW bad \in SUBSET round.queue, GiveUp(bad)
  PROVE  unreadable' \in Nat \cup {None} /\ skipped' \subseteq Launches /\ round' \in Rounds
<1>1. bad \subseteq Launches
  BY DEF TypeOK, Rounds
<1>2. unreadable' \in Nat \cup {None}
  BY <1>1, Sets DEF GiveUp, TypeOK
<1> QED
  BY <1>1, <1>2 DEF GiveUp, TypeOK, Rounds, Steps

LEMMA TypeReading ==
  ASSUME TypeOK, Reading
  PROVE  TypeOK'
<1>1. CASE ReadFails
  BY <1>1, IdleType DEF ReadFails, TypeOK, outside, table, log, sending
<1>2. CASE FirstRound
  BY <1>2, IdleType DEF FirstRound, TypeOK, outside, table, sending
<1>3. CASE NothingNew
  BY <1>3, IdleType, CleanedRows DEF NothingNew, TypeOK, outside, table, log
<1>4. CASE Survey
  <2>1. PICK upto \in Nat, q \in SUBSET Launches :
          round' = Idle \/ round' = [round EXCEPT !.at = "read", !.upto = upto, !.queue = q]
    <3>1. cursor \in Nat /\ head \in Nat
      BY <1>4, Settings DEF Survey, TypeOK
    <3>2. cursor + 1 \in Nat /\ cursor + MaxBlocks \in Nat
      BY <3>1, Settings
    <3>3. \A a, b : Between(a, b) \in SUBSET Launches
      BY DEF Between
    <3> QED
      BY <1>4, <3>1, <3>2, <3>3 DEF Survey
  <2>2. round' \in Rounds
    BY <2>1, IdleType DEF TypeOK, Rounds, Steps
  <2> QED
    BY <1>4, <2>2 DEF Survey, TypeOK, outside, table, log, sending
<1>5. CASE ReadLaunches
  <2>1. PICK bad \in SUBSET round.queue :
          \/ /\ attempts + 1 < ReadAttempts /\ attempts' = attempts + 1
             /\ round' = Idle /\ UNCHANGED <<unreadable, skipped>>
          \/ GiveUp(bad) /\ UNCHANGED attempts
    BY <1>5 DEF ReadLaunches
  <2>2. /\ unreadable' \in Nat \cup {None} /\ skipped' \subseteq Launches /\ round' \in Rounds
        /\ attempts' \in 0..(ReadAttempts - 1)
    <3>1. CASE GiveUp(bad) /\ UNCHANGED attempts
      BY <3>1, GiveUpType DEF TypeOK
    <3>2. CASE ~(GiveUp(bad) /\ UNCHANGED attempts)
      <4>1. attempts + 1 \in 0..(ReadAttempts - 1)
        BY <2>1, <3>2, Settings DEF TypeOK
      <4> QED
        BY <2>1, <3>2, <4>1, IdleType DEF TypeOK
    <3> QED
      BY <2>1, <3>1, <3>2
  <2> QED
    BY <1>5, <2>2 DEF ReadLaunches, TypeOK, outside, table, sending
<1>6. ASSUME NEW l \in Launches, Record(l) PROVE TypeOK'
  <2>1. rules \subseteq Rules
    BY RulesAssumption DEF TypeOK, Rules
  <2>2. round' \in Rounds
    BY <1>6, <2>1 DEF Record, Processed, TypeOK, Rounds, Steps
  <2> QED
    BY <1>6, <2>2 DEF Record, TypeOK, outside, table, sending
<1>7. ASSUME NEW l \in Launches, CheckRules(l) PROVE TypeOK'
  <2>1. PICK fresh \in SUBSET Rules : \E queued \in SUBSET fresh : Enqueue(l, fresh, queued)
    <3>1. round.seen \cap rules \subseteq Rules
      BY DEF TypeOK, Rounds
    <3>2. \A b : Fresh(round.seen \cap rules, l, b) \in SUBSET Rules
      BY <3>1 DEF Fresh
    <3>3. \A fresh : Fitting(fresh) \in SUBSET fresh
      BY DEF Fitting
    <3> QED
      BY <1>7, <3>2, <3>3 DEF CheckRules
  <2>2. PICK queued \in SUBSET fresh : Enqueue(l, fresh, queued)
    BY <2>1
  <2>3. round' \in Rounds
    BY <2>2, IdleType DEF Enqueue, Processed, TypeOK, Rounds, Steps
  <2>4. DOMAIN ledger' \subseteq Lines /\ \A q \in DOMAIN ledger' : ledger'[q] \in Row
    BY <2>2 DEF Enqueue, TypeOK, NewRow, Row, Lines
  <2> QED
    BY <1>7, <2>3, <2>4 DEF CheckRules, TypeOK, outside, table, log
<1>8. CASE PruneAndCommit
  <2>1. PICK b \in {snapshot, None}, doomed \in SUBSET tail :
          LET rows == Restrict(ledger, {p \in DOMAIN ledger : ~(ledger[p].sent /\ p[2] \in doomed)})
          IN /\ tail' = tail \ doomed
             /\ pruned' = IF doomed = {} \/ b < pruned THEN pruned ELSE b
             /\ early' = early \cup {p \in DOMAIN ledger : p[2] \in doomed /\ Log[p[2]] > round.upto}
             /\ ledger' = Cleaned(rows, tail \ doomed, round.upto)
    BY <1>8 DEF PruneAndCommit
  <2> DEFINE rows == Restrict(ledger, {p \in DOMAIN ledger : ~(ledger[p].sent /\ p[2] \in doomed)})
  <2>2. DOMAIN rows \subseteq Lines /\ \A p \in DOMAIN rows : rows[p] \in Row
    BY RestrictedRows DEF TypeOK
  <2> HIDE DEF rows
  <2>3. DOMAIN ledger' \subseteq Lines /\ \A p \in DOMAIN ledger' : ledger'[p] \in Row
    BY <2>1, <2>2, CleanedRows DEF rows
  <2>4. cursor' \in Nat \cup {None} /\ attempts' \in 0..(ReadAttempts - 1) /\ round' \in Rounds
    <3>1. round.upto \in Nat \cup {None} /\ 0 \in 0..(ReadAttempts - 1)
      BY Settings DEF TypeOK, Rounds
    <3> QED
      BY <1>8, <3>1, IdleType DEF PruneAndCommit
  <2>5. pruned' \in Nat \cup {None} /\ early' \subseteq Lines /\ tail' \subseteq Launches
    BY <2>1 DEF TypeOK
  <2> QED
    BY <1>8, <2>3, <2>4, <2>5 DEF PruneAndCommit, TypeOK, outside, table
<1> QED
  BY <1>1, <1>2, <1>3, <1>4, <1>5, <1>6, <1>7, <1>8 DEF Reading

LEMMA TypeEvict ==
  ASSUME TypeOK, Evict
  PROVE  TypeOK'
<1>1. told' \in [Lines -> Nat] /\ lost' \in [Lines -> 0..MaxLost]
  BY LoseType DEF Evict, TypeOK
<1>2. crashes' \in 0..MaxCrashes
  BY Settings DEF Evict, TypeOK
<1> QED
  BY <1>1, <1>2, IdleType DEF Evict, TypeOK, outside, table, log

LEMMA TypeInit == Init => TypeOK
BY IdleType, Settings, RulesAssumption DEF Init, TypeOK, None

LEMMA TypeStep == TypeOK /\ [Next]_vars => TypeOK'
<1>1. TypeOK /\ UNCHANGED vars => TypeOK'
  BY DEF TypeOK, vars, outside, table, log, sending
<1> QED
  BY <1>1, TypeOthers, TypeSending, TypeReading, TypeEvict DEF Next

\* The state keeps its shape in every round, whatever the log, the rules and the settings are; in
\* particular the failed attempts at a range stay below READ_ATTEMPTS.
THEOREM Typing == Spec => []TypeOK
BY TypeInit, TypeStep, PTL DEF Spec

-----------------------------------------------------------------------------
(* Why no line is repeated.  OnceUnlessPruned is not inductive: it needs to know why a line that was
   accepted cannot be queued again (OnceInv), what the rows say (RowInv), and what the round that
   stands at an await may still rely on (TodoInv, LineInv, ReadInv). *)

Flushes == {"flush", "session", "send"}
Sends   == {"session", "send"}
Reads   == {"read", "record", "check"}

\* There are no rows before the first round has placed the cursor.
StartInv == cursor = None => DOMAIN ledger = {}

\* No line left to send was accepted meanwhile.
TodoInv == round.at \in Flushes => \A p \in round.todo : p \in DOMAIN ledger => ~ledger[p].sent

\* The line being sent has an open row, or its rule is gone for good; nobody has heard of it.
LineInv == round.at \in Sends =>
  LET p == round.line IN
  /\ p \in Lines /\ p[1] < nextRule
  /\ p \in DOMAIN ledger => ~ledger[p].sent
  /\ p \notin DOMAIN ledger => p[1] \notin rules
  /\ p \notin early => told[p] <= lost[p]

\* The launches being processed lie ahead of the cursor, and the one being checked is in the tail.
ReadInv == round.at \in Reads =>
  /\ cursor # None /\ cursor <= round.upto
  /\ \A l \in round.queue : cursor < Log[l]
  /\ round.at = "check" => \A l \in round.queue : First(l) => l \in tail

\* A row has its rule; an accepted one lies ahead of the cursor, and an open one was not heard of.
RowInv == \A p \in DOMAIN ledger :
  /\ p[1] \in rules
  /\ ledger[p].sent => p[2] \in tail /\ cursor < Log[p[2]]
  /\ ~ledger[p].sent /\ p \notin early =>
       told[p] <= lost[p] /\ (p[2] \in tail \/ Log[p[2]] <= cursor)

\* A line that was heard of has an accepted row, or its range is not read again, or its rule is gone.
Settled(p) ==
  \/ p \in DOMAIN ledger /\ ledger[p].sent
  \/ Log[p[2]] <= cursor
  \/ p[1] \notin rules /\ p[1] < nextRule
OnceInv == \A p \in Lines \ early : told[p] > lost[p] => told[p] = lost[p] + 1 /\ Settled(p)

Rest == StartInv /\ TodoInv /\ LineInv /\ ReadInv /\ RowInv /\ OnceInv
Inv  == TypeOK /\ Rest

kept == <<rules, nextRule, cursor, tail, ledger, told, lost, early>>

LEMMA Kept ==
  ASSUME Inv, UNCHANGED kept
  PROVE  StartInv' /\ RowInv' /\ OnceInv'
BY DEF Inv, Rest, kept, StartInv, RowInv, OnceInv, Settled

\* Numbers a leaf may compare.
LEMMA Numbers ==
  ASSUME TypeOK
  PROVE  /\ cursor \in Int /\ nextRule \in Nat /\ rules \subseteq 1..(nextRule - 1)
         /\ \A p \in Lines : /\ p[1] \in Nat /\ p[2] \in Launches /\ Log[p[2]] \in Nat \ {0}
                             /\ told[p] \in Nat /\ lost[p] \in Nat
<1>1. \A p \in Lines : p[1] \in Rules /\ p[2] \in Launches
  BY DEF Lines
<1>2. \A p \in Lines : told[p] \in Nat /\ lost[p] \in Nat
  BY Settings DEF TypeOK
<1>3. cursor \in Int /\ nextRule \in Nat
  BY DEF TypeOK, None
<1>4. rules \subseteq 1..(nextRule - 1)
  BY DEF TypeOK
<1> QED
  BY <1>1, <1>2, <1>3, <1>4, Sets

LEMMA RestOthers ==
  ASSUME Inv, Others
  PROVE  Rest'
<1>1. CASE Mine \/ Publish
  <2>1. UNCHANGED <<kept, round>>
    BY <1>1 DEF Mine, Publish, kept, table, log, sending
  <2> QED
    BY <2>1, Kept DEF Inv, Rest, kept, TodoInv, LineInv, ReadInv, First
<1>2. CASE AddRule
  <2>1. /\ UNCHANGED <<cursor, tail, ledger, told, lost, early, round>>
        /\ rules' = rules \cup {nextRule} /\ nextRule' = nextRule + 1
    BY <1>2 DEF AddRule, log, sending
  <2>2. StartInv' /\ TodoInv' /\ ReadInv' /\ RowInv'
    BY <2>1 DEF Inv, Rest, StartInv, TodoInv, ReadInv, RowInv, First
  <2>3. LineInv'
    BY <2>1, Numbers DEF Inv, Rest, LineInv
  <2>4. OnceInv'
    BY <2>1, Numbers DEF Inv, Rest, OnceInv, Settled
  <2> QED
    BY <2>2, <2>3, <2>4 DEF Rest
<1>3. CASE RemoveRule \/ Forget
  <2>1. PICK gone : Remove(gone)
    BY <1>3 DEF RemoveRule, Forget
  <2>2. /\ UNCHANGED <<nextRule, cursor, tail, told, lost, early, round>>
        /\ rules' = rules \ gone
        /\ DOMAIN ledger' = {p \in DOMAIN ledger : p[1] \notin gone}
        /\ \A p \in DOMAIN ledger' : ledger'[p] = ledger[p]
    <3>1. DOMAIN ledger \ {p \in Lines : p[1] \in gone} = {p \in DOMAIN ledger : p[1] \notin gone}
      BY DEF Inv, TypeOK
    <3> QED
      BY <2>1, <3>1, WithoutRows DEF Remove, log, Inv
  <2>3. StartInv' /\ TodoInv' /\ ReadInv' /\ RowInv'
    BY <2>2 DEF Inv, Rest, StartInv, TodoInv, ReadInv, RowInv, First
  <2>4. LineInv'
    BY <2>2 DEF Inv, Rest, LineInv
  <2>5. OnceInv'
    BY <2>2, Numbers DEF Inv, Rest, OnceInv, Settled, RowInv
  <2> QED
    BY <2>3, <2>4, <2>5 DEF Rest
<1>4. CASE \E p \in Lines : Age(p)
  <2>1. /\ UNCHANGED <<rules, nextRule, cursor, tail, told, lost, early, round>>
        /\ DOMAIN ledger' = DOMAIN ledger
        /\ \A p \in DOMAIN ledger : ledger'[p].sent = ledger[p].sent
    BY <1>4 DEF Age, table, log, Inv, TypeOK, Row
  <2>2. StartInv' /\ TodoInv' /\ ReadInv'
    BY <2>1 DEF Inv, Rest, StartInv, TodoInv, ReadInv, First
  <2>3. LineInv'
    BY <2>1 DEF Inv, Rest, LineInv
  <2>4. RowInv' /\ OnceInv'
    BY <2>1 DEF Inv, Rest, RowInv, OnceInv, Settled
  <2> QED
    BY <2>2, <2>3, <2>4 DEF Rest
<1> QED
  BY <1>1, <1>2, <1>3, <1>4 DEF Others

\* Rows that were not accepted may go: nothing is concluded from them.
LEMMA OpenRowGoes ==
  ASSUME Inv, NEW q, q \in DOMAIN ledger => ~ledger[q].sent,
         ledger' = Without({q}) \/ ledger' = ledger,
         UNCHANGED <<rules, nextRule, cursor, tail, told, lost, early>>
  PROVE  /\ StartInv' /\ RowInv' /\ OnceInv'
         /\ \A p \in DOMAIN ledger' : p \in DOMAIN ledger /\ ledger'[p] = ledger[p]
<1>1. /\ \A p \in DOMAIN ledger' : p \in DOMAIN ledger /\ ledger'[p] = ledger[p]
      /\ \A p \in DOMAIN ledger : p \notin DOMAIN ledger' => p = q
  BY WithoutRows, ZenonT(60) DEF Inv
<1>2. StartInv' /\ RowInv'
  BY <1>1 DEF Inv, Rest, StartInv, RowInv
<1>3. OnceInv'
  BY <1>1 DEF Inv, Rest, OnceInv, Settled
<1> QED
  BY <1>1, <1>2, <1>3

LEMMA AfterLine ==
  ASSUME Inv, round' = NextLine,
         \A p \in DOMAIN ledger' : /\ p \in DOMAIN ledger
                                   /\ p # round.line => ledger'[p].sent = ledger[p].sent,
         round.at \in Sends
  PROVE  TodoInv' /\ LineInv' /\ ReadInv'
<1>1. round'.at = "flush" /\ round'.todo = round.todo \ {round.line}
  BY DEF NextLine, Inv, TypeOK, Rounds
<1> QED
  BY <1>1 DEF Inv, Rest, TodoInv, LineInv, ReadInv, Sends, Flushes, Reads

LEMMA RestFlush ==
  ASSUME Inv, NEW p \in Lines, Flush(p)
  PROVE  Rest'
<1>1. /\ UNCHANGED <<rules, nextRule, cursor, tail, told, lost, early>>
      /\ round.at = "flush" /\ p \in round.todo
      /\ p \in DOMAIN ledger => ~ledger[p].sent
  BY DEF Flush, table, log, Inv, Rest, TodoInv, Flushes
<1>2. CASE p \in DOMAIN ledger /\ p[1] \in round.active
  <2>1. /\ DOMAIN ledger' = DOMAIN ledger
        /\ \A q \in DOMAIN ledger : ledger'[q].sent = ledger[q].sent
        /\ round'.at = "session" /\ round'.line = p /\ round'.todo = round.todo
    <3>1. ledger' = Stamp(p) /\ round' = [round EXCEPT !.at = "session", !.line = p]
      BY <1>2 DEF Flush
    <3>2. round \in Rounds
      BY DEF Inv, TypeOK
    <3> QED
      BY <1>2, <3>1, <3>2, StampRows DEF Inv, Rounds
  <2>2. StartInv' /\ RowInv' /\ OnceInv'
    BY <1>1, <2>1 DEF Inv, Rest, StartInv, RowInv, OnceInv, Settled
  <2>3. TodoInv' /\ ReadInv'
    BY <1>1, <2>1 DEF Inv, Rest, TodoInv, ReadInv, Flushes, Reads
  <2>4. p[1] < nextRule
    BY <1>2, Numbers DEF Inv, Rest, RowInv
  <2>5. LineInv'
    BY <1>1, <1>2, <2>1, <2>4 DEF Inv, Rest, LineInv, RowInv
  <2> QED
    BY <2>2, <2>3, <2>5 DEF Rest
<1>3. CASE ~(p \in DOMAIN ledger /\ p[1] \in round.active)
  <2>1. /\ ledger' = Without({p})
        /\ round'.at = "flush" /\ round'.todo = round.todo \ {p}
    BY <1>3 DEF Flush, Inv, TypeOK, Rounds
  <2>2. /\ StartInv' /\ RowInv' /\ OnceInv'
        /\ \A q \in DOMAIN ledger' : q \in DOMAIN ledger /\ ledger'[q] = ledger[q]
    BY <1>1, <2>1, OpenRowGoes
  <2>3. TodoInv' /\ LineInv' /\ ReadInv'
    BY <1>1, <2>1, <2>2 DEF Inv, Rest, TodoInv, LineInv, ReadInv, Flushes, Sends, Reads
  <2> QED
    BY <2>2, <2>3 DEF Rest
<1> QED
  BY <1>2, <1>3

LEMMA RestAccept ==
  ASSUME Inv, NEW p \in Lines, Accept(p)
  PROVE  Rest'
<1>1. /\ UNCHANGED <<rules, nextRule, cursor, tail, lost, early>>
      /\ round.at = "send" /\ round.line = p /\ round' = NextLine
      /\ told' = [told EXCEPT ![p] = @ + 1]
  BY DEF Accept, table, log
<1>2. /\ p[1] < nextRule
      /\ p \in DOMAIN ledger => ~ledger[p].sent
      /\ p \notin DOMAIN ledger => p[1] \notin rules
      /\ p \notin early => told[p] <= lost[p]
  BY <1>1 DEF Inv, Rest, LineInv, Sends
<1>3. /\ told'[p] = told[p] + 1
      /\ \A q \in Lines : q # p => told'[q] = told[q]
  BY <1>1 DEF Inv, TypeOK
<1>4. /\ \A q \in DOMAIN ledger' : q \in DOMAIN ledger /\ (q # p => ledger'[q] = ledger[q])
      /\ \A q \in DOMAIN ledger : q \notin DOMAIN ledger' => q = p /\ Covered(p)
      /\ p \in DOMAIN ledger' => ledger'[p].sent /\ ~Covered(p)
  <2>1. CASE p \notin DOMAIN ledger
    BY <2>1 DEF Accept
  <2>2. CASE p \in DOMAIN ledger /\ Covered(p)
    <3>1. ledger' = Without({p})
      BY <2>2 DEF Accept
    <3>2. /\ DOMAIN Without({p}) = DOMAIN ledger \ {p}
          /\ \A q \in DOMAIN Without({p}) : Without({p})[q] = ledger[q]
      BY WithoutRows DEF Inv
    <3> QED
      BY <2>2, <3>1, <3>2
  <2>3. CASE p \in DOMAIN ledger /\ ~Covered(p)
    BY <2>3 DEF Accept, Inv, TypeOK, Row
  <2> QED
    BY <2>1, <2>2, <2>3
<1>5. StartInv'
  BY <1>1, <1>4 DEF Inv, Rest, StartInv
<1>6. RowInv'
  <2> SUFFICES ASSUME NEW q \in DOMAIN ledger'
               PROVE  /\ q[1] \in rules
                      /\ ledger'[q].sent => q[2] \in tail /\ cursor < Log[q[2]]
                      /\ ~ledger'[q].sent /\ q \notin early =>
                           told'[q] <= lost[q] /\ (q[2] \in tail \/ Log[q[2]] <= cursor)
    BY <1>1 DEF RowInv
  <2>1. CASE q = p
    BY <1>4, <2>1, Numbers DEF Inv, Rest, RowInv, Covered
  <2>2. CASE q # p
    <3>1. q \in Lines
      BY <1>4 DEF Inv, TypeOK
    <3> QED
      BY <1>3, <1>4, <2>2, <3>1 DEF Inv, Rest, RowInv
  <2> QED
    BY <2>1, <2>2
<1>7. OnceInv'
  <2> SUFFICES ASSUME NEW q \in Lines \ early, told'[q] > lost[q]
               PROVE  told'[q] = lost[q] + 1 /\ Settled(q)'
    BY <1>1 DEF OnceInv
  <2>1. CASE q = p
    <3>1. told'[q] = lost[q] + 1
      BY <1>2, <1>3, <2>1, Numbers DEF Inv
    <3>2. CASE p \notin DOMAIN ledger
      BY <1>1, <1>2, <2>1, <3>1, <3>2 DEF Settled
    <3>3. CASE p \in DOMAIN ledger'
      BY <1>4, <2>1, <3>1, <3>3 DEF Settled
    <3>4. CASE p \in DOMAIN ledger /\ p \notin DOMAIN ledger'
      <4>1. Covered(p)
        BY <1>4, <3>4
      <4>2. Log[p[2]] <= cursor
        BY <1>2, <2>1, <3>4, <4>1 DEF Inv, Rest, RowInv, Covered
      <4> QED
        BY <1>1, <2>1, <3>1, <4>2 DEF Settled
    <3> QED
      BY <3>2, <3>3, <3>4
  <2>2. CASE q # p
    BY <1>1, <1>3, <1>4, <2>2 DEF Inv, Rest, OnceInv, Settled
  <2> QED
    BY <2>1, <2>2
<1>8. TodoInv' /\ LineInv' /\ ReadInv'
  BY <1>1, <1>4, AfterLine DEF Sends
<1> QED
  BY <1>5, <1>6, <1>7, <1>8 DEF Rest

\* A lost answer counts on both sides.
LEMMA LostCounts ==
  ASSUME Inv, NEW p \in Lines, Lose(p), round.at = "send",
         UNCHANGED <<rules, nextRule, cursor, tail, ledger, early>>
  PROVE  StartInv' /\ RowInv' /\ OnceInv'
<1>1. /\ told'[p] = told[p] + 1 /\ lost'[p] = lost[p] + 1
      /\ \A q \in Lines : q # p => told'[q] = told[q] /\ lost'[q] = lost[q]
  BY DEF Lose, Inv, TypeOK
<1>2. \A q \in Lines : /\ told'[q] <= lost'[q] <=> told[q] <= lost[q]
                       /\ told'[q] > lost'[q] <=> told[q] > lost[q]
                       /\ told'[q] = lost'[q] + 1 <=> told[q] = lost[q] + 1
  BY <1>1, Numbers DEF Inv
<1>3. DOMAIN ledger \subseteq Lines
  BY DEF Inv, TypeOK
<1> QED
  BY <1>2, <1>3 DEF Inv, Rest, StartInv, RowInv, OnceInv, Settled

LEMMA RestSending ==
  ASSUME Inv, Sending
  PROVE  Rest'
<1>1. CASE Beat
  <2>1. PICK S \in SUBSET Unsent :
          round' = [Idle EXCEPT !.at = "flush", !.todo = S, !.active = {p[1] : p \in S} \cap rules]
    BY <1>1 DEF Beat
  <2>2. round'.at = "flush" /\ round'.todo = S
    BY <2>1 DEF Idle
  <2>3. UNCHANGED kept
    BY <1>1 DEF Beat, kept, table, log, sending
  <2>4. TodoInv' /\ LineInv' /\ ReadInv'
    BY <2>2, <2>3 DEF TodoInv, LineInv, ReadInv, Flushes, Sends, Reads, Unsent, kept
  <2> QED
    BY <2>3, <2>4, Kept DEF Rest
<1>2. ASSUME NEW p \in Lines, Flush(p) PROVE Rest'
  BY <1>2, RestFlush
<1>3. CASE NoSession
  <2>1. /\ UNCHANGED <<rules, nextRule, cursor, tail, told, lost, early>>
        /\ round.at = "session" /\ round' = NextLine
        /\ ledger' = Without({round.line}) \/ ledger' = ledger
        /\ round.line \in DOMAIN ledger => ~ledger[round.line].sent
    BY <1>3 DEF NoSession, table, log, Inv, Rest, LineInv, Sends
  <2> QED
    BY <2>1, OpenRowGoes, AfterLine DEF Rest, Sends
<1>4. ASSUME NEW p \in Lines, Session(p) PROVE Rest'
  <2>1. /\ UNCHANGED <<rules, nextRule, cursor, tail, told, lost, early>>
        /\ round.at = "session" /\ round.line = p
        /\ p \in DOMAIN ledger => ~ledger[p].sent
    BY <1>4 DEF Session, table, log, Inv, Rest, LineInv, Sends
  <2>2. CASE p[1] \in rules
    <3>1. /\ UNCHANGED kept
          /\ round'.at = "send" /\ round'.line = round.line /\ round'.todo = round.todo
      BY <1>4, <2>1, <2>2 DEF Session, kept, Inv, TypeOK, Rounds
    <3>2. TodoInv' /\ LineInv' /\ ReadInv'
      BY <2>1, <3>1 DEF Inv, Rest, TodoInv, LineInv, ReadInv, Flushes, Sends, Reads, kept
    <3> QED
      BY <3>1, <3>2, Kept DEF Rest
  <2>3. CASE p[1] \notin rules
    <3>1. ledger' = Without({p}) /\ round' = NextLine
      BY <1>4, <2>3 DEF Session
    <3> QED
      BY <2>1, <3>1, OpenRowGoes, AfterLine DEF Rest, Sends
  <2> QED
    BY <2>2, <2>3
<1>5. ASSUME NEW p \in Lines, Accept(p) PROVE Rest'
  BY <1>5, RestAccept
<1>6. ASSUME NEW p \in Lines, AnswerLost(p) PROVE Rest'
  <2>1. /\ UNCHANGED <<rules, nextRule, cursor, tail, ledger, early>>
        /\ round.at = "send" /\ Lose(p) /\ round' = NextLine
    BY <1>6 DEF AnswerLost, table, log
  <2> QED
    BY <2>1, LostCounts, AfterLine DEF Rest, Sends
<1>7. CASE Refuse
  <2>1. UNCHANGED kept /\ round' = NextLine /\ round.at = "send"
    BY <1>7 DEF Refuse, kept, table, log, sending
  <2> QED
    BY <2>1, Kept, AfterLine DEF Rest, Sends, kept
<1>8. CASE Backlog
  <2>1. UNCHANGED kept /\ round'.at \in {"idle", "survey"}
    BY <1>8 DEF Backlog, kept, table, log, sending, Idle
  <2>2. TodoInv' /\ LineInv' /\ ReadInv'
    BY <2>1 DEF TodoInv, LineInv, ReadInv, Flushes, Sends, Reads
  <2> QED
    BY <2>1, <2>2, Kept DEF Rest
<1> QED
  BY <1>1, <1>2, <1>3, <1>4, <1>5, <1>6, <1>7, <1>8 DEF Sending

\* A round that ends leaves nothing to rely on.
LEMMA RoundOver ==
  ASSUME round'.at \in {"idle", "survey"}
  PROVE  TodoInv' /\ LineInv' /\ ReadInv'
BY DEF TodoInv, LineInv, ReadInv, Flushes, Sends, Reads

LEMMA IdleAt == Idle.at = "idle"
BY DEF Idle

\* Accepted rows may go once the cursor is past their launch.
LEMMA CleanedStep ==
  ASSUME Inv, NothingNew
  PROVE  Rest'
<1>1. /\ UNCHANGED <<rules, nextRule, cursor, tail, told, lost, early>>
      /\ ledger' = Cleaned(ledger, tail, cursor) /\ round'.at = "idle"
  BY IdleAt DEF NothingNew, table, log
<1>2. /\ \A p \in DOMAIN ledger' : p \in DOMAIN ledger /\ ledger'[p] = ledger[p]
      /\ \A p \in DOMAIN ledger : p \notin DOMAIN ledger' => Log[p[2]] <= cursor
  <2>1. /\ DOMAIN Cleaned(ledger, tail, cursor) =
             {p \in DOMAIN ledger : ~(ledger[p].sent /\ p[2] \in tail /\ Log[p[2]] <= cursor)}
        /\ \A p \in DOMAIN Cleaned(ledger, tail, cursor) : Cleaned(ledger, tail, cursor)[p] = ledger[p]
    BY DEF Cleaned, Restrict
  <2> QED
    BY <1>1, <2>1
<1>3. StartInv' /\ RowInv'
  BY <1>1, <1>2 DEF Inv, Rest, StartInv, RowInv
<1>4. OnceInv'
  BY <1>1, <1>2 DEF Inv, Rest, OnceInv, Settled
<1> QED
  BY <1>1, <1>3, <1>4, RoundOver DEF Rest

LEMMA RestFirstRound ==
  ASSUME Inv, FirstRound
  PROVE  Rest'
<1>1. /\ UNCHANGED <<rules, nextRule, tail, ledger, told, lost, early>>
      /\ cursor = None /\ cursor' = head /\ round'.at = "idle"
  BY IdleAt DEF FirstRound, table, sending
<1>2. DOMAIN ledger = {}
  BY <1>1 DEF Inv, Rest, StartInv
<1>3. head \in Nat
  BY Settings DEF Inv, TypeOK
<1>4. StartInv' /\ RowInv'
  BY <1>1, <1>2 DEF StartInv, RowInv
<1>5. \A p \in Lines : ~(Log[p[2]] <= cursor)
  BY <1>1, Numbers DEF Inv, None
<1>6. OnceInv'
  BY <1>1, <1>2, <1>5 DEF Inv, Rest, OnceInv, Settled
<1> QED
  BY <1>1, <1>4, <1>6, RoundOver DEF Rest

LEMMA RestSurvey ==
  ASSUME Inv, Survey
  PROVE  Rest'
<1>1. UNCHANGED kept
  BY DEF Survey, kept, table, log, sending
<1>2. cursor \in Nat /\ head \in Nat /\ cursor < head
  BY Settings DEF Survey, Inv, TypeOK
<1>3. CASE round' = Idle
  BY <1>1, <1>3, IdleAt, RoundOver, Kept DEF Rest
<1>4. CASE round' # Idle
  <2>1. PICK upto \in {cursor + 1, head, cursor + MaxBlocks} :
          round' = [round EXCEPT !.at = "read", !.upto = upto, !.queue = Between(cursor + 1, upto)]
    BY <1>4 DEF Survey
  <2>2. round'.at = "read" /\ round'.upto = upto /\ round'.queue = Between(cursor + 1, upto)
    BY <2>1 DEF Inv, TypeOK, Rounds
  <2>3. cursor <= upto /\ cursor # None
    BY <1>2, Settings DEF None
  <2>4. \A l \in Between(cursor + 1, upto) : cursor < Log[l]
    BY <1>2, Sets DEF Between
  <2>5. TodoInv' /\ LineInv' /\ ReadInv'
    BY <1>1, <2>2, <2>3, <2>4 DEF TodoInv, LineInv, ReadInv, Flushes, Sends, Reads, kept
  <2> QED
    BY <1>1, <2>5, Kept DEF Rest
<1> QED
  BY <1>3, <1>4

\* What is left of the range lies ahead of the cursor.
LEMMA RangeShrinks ==
  ASSUME Inv, round.at \in Reads, round'.at = "record",
         round'.upto = round.upto, round'.queue \subseteq round.queue, cursor' = cursor
  PROVE  TodoInv' /\ LineInv' /\ ReadInv'
BY DEF Inv, Rest, TodoInv, LineInv, ReadInv, Flushes, Sends, Reads

LEMMA RestReadLaunches ==
  ASSUME Inv, ReadLaunches
  PROVE  Rest'
<1>1. UNCHANGED kept /\ round.at = "read"
  BY DEF ReadLaunches, kept, table, sending
<1>2. CASE round' = Idle
  BY <1>1, <1>2, IdleAt, RoundOver, Kept DEF Rest
<1>3. CASE round' # Idle
  <2>1. PICK bad : round' = [round EXCEPT !.at = "record", !.queue = @ \ bad]
    BY <1>3 DEF ReadLaunches, GiveUp
  <2>2. round'.at = "record" /\ round'.upto = round.upto /\ round'.queue \subseteq round.queue
    BY <2>1 DEF Inv, TypeOK, Rounds
  <2> QED
    BY <1>1, <2>2, RangeShrinks, Kept DEF Rest, Reads, kept
<1> QED
  BY <1>2, <1>3

LEMMA RestRecord ==
  ASSUME Inv, NEW l \in Launches, Record(l)
  PROVE  Rest'
<1>1. /\ UNCHANGED <<rules, nextRule, cursor, ledger, told, lost, early>>
      /\ tail' = tail \cup {l} /\ round.at = "record" /\ First(l)
  BY DEF Record, table, sending
<1>2. StartInv' /\ RowInv' /\ OnceInv'
  BY <1>1 DEF Inv, Rest, StartInv, RowInv, OnceInv, Settled
<1>3. CASE round' = Processed(l)
  <2>1. round'.at = "record" /\ round'.upto = round.upto /\ round'.queue \subseteq round.queue
    BY <1>3 DEF Processed, Inv, TypeOK, Rounds
  <2> QED
    BY <1>1, <1>2, <2>1, RangeShrinks DEF Rest, Reads
<1>4. CASE round' # Processed(l)
  <2>1. PICK open : round' = [round EXCEPT !.at = "check", !.seen = open]
    BY <1>4 DEF Record
  <2>2. round'.at = "check" /\ round'.upto = round.upto /\ round'.queue = round.queue
    BY <2>1 DEF Inv, TypeOK, Rounds
  <2>3. \A m \in round.queue : First(m) => m = l
    BY <1>1, Sets DEF First, Inv, TypeOK, Rounds
  <2>4. TodoInv' /\ LineInv'
    BY <2>2 DEF TodoInv, LineInv, Flushes, Sends
  <2>5. ReadInv'
    BY <1>1, <2>2, <2>3 DEF Inv, Rest, ReadInv, Reads, First
  <2> QED
    BY <1>2, <2>4, <2>5 DEF Rest
<1> QED
  BY <1>3, <1>4

LEMMA RestCheckRules ==
  ASSUME Inv, NEW l \in Launches, CheckRules(l)
  PROVE  Rest'
<1>1. /\ UNCHANGED <<rules, nextRule, cursor, tail, told, lost, early>>
      /\ round.at = "check" /\ First(l)
  BY DEF CheckRules, table, log
<1>2. PICK fresh : /\ \A r \in fresh : r \in rules /\ <<r, l>> \notin DOMAIN ledger
                   /\ \E queued \in SUBSET fresh : Enqueue(l, fresh, queued)
  <2>1. \A b : \A r \in Fresh(round.seen \cap rules, l, b) : r \in rules /\ <<r, l>> \notin DOMAIN ledger
    BY DEF Fresh
  <2>2. \A fresh : Fitting(fresh) \in SUBSET fresh
    BY DEF Fitting
  <2> QED
    BY <2>1, <2>2 DEF CheckRules
<1>3. PICK queued \in SUBSET fresh : Enqueue(l, fresh, queued)
  BY <1>2
<1>4. /\ DOMAIN ledger' = DOMAIN ledger \cup (queued \X {l})
      /\ \A p \in DOMAIN ledger : ledger'[p] = ledger[p]
      /\ \A r \in queued : ledger'[<<r, l>>] = NewRow
  BY <1>2, <1>3 DEF Enqueue
<1>5. cursor # None /\ cursor < Log[l] /\ l \in tail
  BY <1>1 DEF Inv, Rest, ReadInv, Reads, First
<1>6. ASSUME NEW r \in queued, <<r, l>> \notin early
      PROVE  told[<<r, l>>] <= lost[<<r, l>>]
  <2>1. r \in rules /\ <<r, l>> \notin DOMAIN ledger
    BY <1>2
  <2>2. <<r, l>> \in Lines
    BY <2>1, RulesAssumption DEF Lines, Rules, Inv, TypeOK
  <2>3. ~(Log[l] <= cursor)
    BY <1>5, Sets, Numbers DEF Inv
  <2>4. ~Settled(<<r, l>>)
    BY <2>1, <2>3 DEF Settled
  <2> QED
    BY <1>6, <2>2, <2>4, Numbers DEF Inv, Rest, OnceInv
<1>7. StartInv'
  BY <1>1, <1>5 DEF StartInv
<1>8. RowInv'
  <2> SUFFICES ASSUME NEW p \in DOMAIN ledger'
               PROVE  /\ p[1] \in rules
                      /\ ledger'[p].sent => p[2] \in tail /\ cursor < Log[p[2]]
                      /\ ~ledger'[p].sent /\ p \notin early =>
                           told[p] <= lost[p] /\ (p[2] \in tail \/ Log[p[2]] <= cursor)
    BY <1>1 DEF RowInv
  <2>1. CASE p \in DOMAIN ledger
    BY <1>4, <2>1 DEF Inv, Rest, RowInv
  <2>2. CASE p \notin DOMAIN ledger
    <3>1. PICK r \in queued : p = <<r, l>>
      BY <1>4, <2>2
    <3>2. ~ledger'[p].sent
      BY <1>4, <3>1 DEF NewRow
    <3> QED
      BY <1>2, <1>5, <1>6, <3>1, <3>2
  <2> QED
    BY <2>1, <2>2
<1>9. OnceInv'
  BY <1>1, <1>4 DEF Inv, Rest, OnceInv, Settled
<1>10. TodoInv' /\ LineInv' /\ ReadInv'
  <2>1. CASE round' = Idle
    BY <2>1, IdleAt, RoundOver
  <2>2. CASE round' = Processed(l)
    <3>1. round'.at = "record" /\ round'.upto = round.upto /\ round'.queue \subseteq round.queue
      BY <2>2 DEF Processed, Inv, TypeOK, Rounds
    <3> QED
      BY <1>1, <3>1, RangeShrinks DEF Reads
  <2> QED
    BY <1>3, <2>1, <2>2 DEF Enqueue
<1> QED
  BY <1>7, <1>8, <1>9, <1>10 DEF Rest

\* The crux: with its launch, an accepted row goes; either the cursor passes it in the same write, or
\* the line is early.
LEMMA RestPruneAndCommit ==
  ASSUME Inv, PruneAndCommit
  PROVE  Rest'
<1>1. /\ UNCHANGED <<rules, nextRule, told, lost>>
      /\ round.at = "record" /\ round.queue = {} /\ cursor' = round.upto /\ round'.at = "idle"
  BY IdleAt DEF PruneAndCommit, table
<1>2. cursor <= cursor' /\ cursor # None /\ cursor \in Int /\ cursor' \in Int /\ cursor' # None
  <2>1. cursor # None /\ cursor <= round.upto
    BY <1>1 DEF Inv, Rest, ReadInv, Reads
  <2>2. cursor \in Nat /\ round.upto \in Nat \cup {None}
    BY <2>1 DEF Inv, TypeOK, Rounds
  <2> QED
    BY <1>1, <2>1, <2>2 DEF None
<1>3. PICK doomed \in SUBSET tail :
        LET rows == Restrict(ledger, {p \in DOMAIN ledger : ~(ledger[p].sent /\ p[2] \in doomed)})
        IN /\ tail' = tail \ doomed
           /\ early' = early \cup {p \in DOMAIN ledger : p[2] \in doomed /\ Log[p[2]] > cursor'}
           /\ ledger' = Cleaned(rows, tail \ doomed, cursor')
  BY <1>1 DEF PruneAndCommit
<1> DEFINE rows == Restrict(ledger, {p \in DOMAIN ledger : ~(ledger[p].sent /\ p[2] \in doomed)})
<1>4. DOMAIN ledger \subseteq Lines /\ \A p \in DOMAIN ledger : ledger[p] \in Row
  BY DEF Inv, TypeOK
<1>5. /\ DOMAIN rows = {p \in DOMAIN ledger : ~(ledger[p].sent /\ p[2] \in doomed)}
      /\ DOMAIN rows \subseteq Lines
      /\ \A p \in DOMAIN rows : rows[p] = ledger[p] /\ rows[p] \in Row
  BY <1>4, RestrictedRows
<1> HIDE DEF rows
<1>6. /\ DOMAIN ledger' = {p \in DOMAIN rows : ~(rows[p].sent /\ p[2] \in tail' /\ Log[p[2]] <= cursor')}
      /\ \A p \in DOMAIN ledger' : ledger'[p] = rows[p]
  <2>1. ledger' = Cleaned(rows, tail', cursor')
    BY <1>3 DEF rows
  <2> QED
    BY <2>1 DEF Cleaned, Restrict
<1>7. \A p \in Lines : Log[p[2]] \in Nat
  BY Numbers DEF Inv
<1>8. StartInv'
  BY <1>2 DEF StartInv
<1>9. RowInv'
  <2> SUFFICES ASSUME NEW p \in DOMAIN ledger'
               PROVE  /\ p[1] \in rules
                      /\ ledger'[p].sent => p[2] \in tail' /\ cursor' < Log[p[2]]
                      /\ ~ledger'[p].sent /\ p \notin early' =>
                           told[p] <= lost[p] /\ (p[2] \in tail' \/ Log[p[2]] <= cursor')
    BY <1>1 DEF RowInv
  <2>1. p \in DOMAIN ledger /\ ledger'[p] = ledger[p] /\ p \in Lines
    BY <1>4, <1>5, <1>6
  <2>2. p[1] \in rules
    BY <2>1 DEF Inv, Rest, RowInv
  <2>3. ASSUME ledger'[p].sent PROVE p[2] \in tail' /\ cursor' < Log[p[2]]
    <3>1. p[2] \in tail
      BY <2>1, <2>3 DEF Inv, Rest, RowInv
    <3>2. p[2] \notin doomed /\ ~(p[2] \in tail' /\ Log[p[2]] <= cursor')
      BY <1>5, <1>6, <2>1, <2>3
    <3>3. p[2] \in tail'
      BY <1>3, <3>1, <3>2
    <3> QED
      BY <1>2, <1>7, <2>1, <3>2, <3>3
  <2>4. ASSUME ~ledger'[p].sent, p \notin early'
        PROVE  told[p] <= lost[p] /\ (p[2] \in tail' \/ Log[p[2]] <= cursor')
    <3>1. p \notin early /\ ~(p[2] \in doomed /\ Log[p[2]] > cursor')
      BY <1>3, <2>1, <2>4
    <3>2. told[p] <= lost[p] /\ (p[2] \in tail \/ Log[p[2]] <= cursor)
      BY <2>1, <2>4, <3>1 DEF Inv, Rest, RowInv
    <3> QED
      BY <1>2, <1>3, <1>7, <2>1, <3>1, <3>2
  <2> QED
    BY <2>2, <2>3, <2>4
<1>10. OnceInv'
  <2> SUFFICES ASSUME NEW p \in Lines \ early', told[p] > lost[p]
               PROVE  told[p] = lost[p] + 1 /\ Settled(p)'
    BY <1>1 DEF OnceInv
  <2>1. told[p] = lost[p] + 1 /\ Settled(p)
    BY <1>3 DEF Inv, Rest, OnceInv
  <2>2. CASE Log[p[2]] <= cursor'
    BY <2>1, <2>2 DEF Settled
  <2>3. CASE ~(Log[p[2]] <= cursor') /\ p \in DOMAIN ledger /\ ledger[p].sent
    <3>1. p[2] \notin doomed
      BY <1>2, <1>3, <1>7, <2>3
    <3> QED
      BY <1>5, <1>6, <2>1, <2>3, <3>1 DEF Settled
  <2>4. CASE p[1] \notin rules /\ p[1] < nextRule
    BY <1>1, <2>1, <2>4 DEF Settled
  <2> QED
    BY <1>2, <1>7, <2>1, <2>2, <2>3, <2>4 DEF Settled
<1> QED
  BY <1>1, <1>8, <1>9, <1>10, RoundOver DEF Rest

LEMMA RestReading ==
  ASSUME Inv, Reading
  PROVE  Rest'
<1>1. CASE ReadFails
  <2>1. UNCHANGED kept /\ round'.at = "idle"
    BY <1>1, IdleAt DEF ReadFails, kept, table, log, sending
  <2> QED
    BY <2>1, Kept, RoundOver DEF Rest
<1> QED
  BY <1>1, RestFirstRound, CleanedStep, RestSurvey, RestReadLaunches, RestPruneAndCommit,
     RestRecord, RestCheckRules DEF Reading

LEMMA RestEvict ==
  ASSUME Inv, Evict
  PROVE  Rest'
<1>1. /\ UNCHANGED <<rules, nextRule, cursor, tail, ledger, early>>
      /\ round'.at = "idle"
  BY IdleAt DEF Evict, table, log
<1>2. CASE UNCHANGED <<told, lost>>
  BY <1>1, <1>2, Kept, RoundOver DEF Rest, kept
<1>3. CASE round.at = "send" /\ \E p \in Lines : Lose(p)
  BY <1>1, <1>3, LostCounts, RoundOver DEF Rest
<1> QED
  BY <1>2, <1>3 DEF Evict

LEMMA InvInit == Init => Inv
<1> SUFFICES ASSUME Init PROVE Rest
  BY TypeInit DEF Inv
<1>1. round.at = "idle" /\ DOMAIN ledger = {} /\ \A p \in Lines : told[p] = 0 /\ lost[p] = 0
  BY DEF Init, Idle
<1>2. StartInv /\ RowInv /\ TodoInv /\ LineInv /\ ReadInv
  BY <1>1 DEF StartInv, RowInv, TodoInv, LineInv, ReadInv, Flushes, Sends, Reads
<1>3. OnceInv
  BY <1>1 DEF OnceInv
<1> QED
  BY <1>2, <1>3 DEF Rest

LEMMA InvStep == Inv /\ [Next]_vars => Inv'
<1> SUFFICES ASSUME Inv, [Next]_vars PROVE Inv'
  OBVIOUS
<1>1. TypeOK'
  BY TypeStep DEF Inv
<1>2. CASE UNCHANGED vars
  <2>1. UNCHANGED <<kept, round>>
    BY <1>2 DEF vars, kept, table, log, sending
  <2>2. TodoInv' /\ LineInv' /\ ReadInv'
    BY <2>1 DEF Inv, Rest, TodoInv, LineInv, ReadInv, First, kept
  <2> QED
    BY <1>1, <2>1, <2>2, Kept DEF Inv, Rest
<1> QED
  BY <1>1, <1>2, RestOthers, RestSending, RestReading, RestEvict DEF Inv, Next

LEMMA Invariant == Spec => []Inv
BY InvInit, InvStep, PTL DEF Spec

\* A holder is told of a launch once per rule, and again only for an answer that was lost or when
\* the launch was pruned before the cursor reached it, over any evictions, rereads and retries.
THEOREM Once == Spec => []OnceUnlessPruned
<1>1. Inv => OnceUnlessPruned
  <2> SUFFICES ASSUME Inv, NEW p \in Lines \ early PROVE told[p] <= 1 + lost[p]
    BY DEF OnceUnlessPruned
  <2>1. told[p] > lost[p] => told[p] = lost[p] + 1
    BY DEF Inv, Rest, OnceInv
  <2> QED
    BY <2>1, Numbers DEF Inv
<1> QED
  BY <1>1, Invariant, PTL

\* No row outlives its rule: what /unrule and /forget removed is not queued again by a round that
\* had read the rule before.
THEOREM RowsHaveRules == Spec => []LedgerHasRule
<1>1. Inv => LedgerHasRule
  BY DEF Inv, Rest, RowInv, LedgerHasRule
<1> QED
  BY <1>1, Invariant, PTL

\* An accepted row is kept only while its range can be read again.
THEOREM AcceptedRowsAreAhead == Spec => []AcceptedIsAhead
<1>1. Inv => AcceptedIsAhead
  <2> SUFFICES ASSUME Inv, NEW p \in DOMAIN ledger, ledger[p].sent PROVE Log[p[2]] > cursor
    BY DEF AcceptedIsAhead
  <2>1. cursor < Log[p[2]]
    BY DEF Inv, Rest, RowInv
  <2>2. p \in Lines
    BY DEF Inv, TypeOK
  <2> QED
    BY <2>1, <2>2, Numbers DEF Inv
<1> QED
  BY <1>1, Invariant, PTL

-----------------------------------------------------------------------------
(* Why nothing is missed.  The properties of the reader speak of where it stands, so each needs an
   invariant that also says what the running round has read but not committed (ReadSoFar): what lies
   there and not in the tail is accounted for (GapInv), and whoever was due there is served
   (ServedInv).  Both rest on what the round stands for (PlaceInv). *)

Taken == {"record", "check"}

\* The reader, its range and the tail stay behind the head; a range just read is whole.
PlaceInv ==
  /\ started = None <=> cursor = None
  /\ cursor <= head /\ \A l \in tail : Log[l] <= head
  /\ round.at \in Reads => round.upto <= head /\ \A l \in round.queue : Log[l] <= round.upto
  /\ round.at = "read" => round.queue = Between(cursor + 1, round.upto)

\* A launch that was read is in the tail, or the watcher started after it, or one that did not answer
\* or was pruned is as late.
GapInv == \A l \in ReadSoFar \ tail :
  started # None /\ (Log[l] <= started \/ Log[l] <= unreadable \/ Log[l] <= pruned)

\* Numbers a leaf about the reader may compare.
LEMMA Places ==
  ASSUME TypeOK
  PROVE  /\ head \in Nat /\ snapshot \in Nat /\ snapshot <= head /\ head <= MaxHead
         /\ cursor \in Int /\ started \in Int /\ unreadable \in Int /\ pruned \in Int
         /\ cursor # None => cursor \in Nat
         /\ round.upto \in Int /\ round.queue \subseteq Launches /\ tail \subseteq Launches
         /\ \A l \in Launches : Log[l] \in Nat \ {0}
<1>1. head \in Nat /\ snapshot \in Nat /\ snapshot <= head /\ head <= MaxHead
  BY Settings DEF TypeOK
<1>2. /\ cursor \in Int /\ started \in Int /\ unreadable \in Int /\ pruned \in Int
      /\ cursor # None => cursor \in Nat
  BY DEF TypeOK, None
<1>3. round.upto \in Int /\ round.queue \subseteq Launches
  BY DEF TypeOK, Rounds, None
<1> QED
  BY <1>1, <1>2, <1>3, Sets DEF TypeOK

\* While lines are sent the reader rests.
LEMMA SendingFrame ==
  ASSUME Inv, Sending
  PROVE  UNCHANGED <<outside, table, log>> /\ round'.at \notin Reads
<1>1. round \in Rounds
  BY DEF Inv, TypeOK
<1>2. NextLine.at = "flush" /\ Idle.at = "idle"
  BY <1>1 DEF NextLine, Rounds, Idle
<1>3. CASE Beat
  BY <1>3 DEF Beat, Reads, Idle
<1>4. CASE NoSession \/ Refuse \/ Backlog
  BY <1>2, <1>4 DEF NoSession, Refuse, Backlog, Reads, Idle
<1>5. CASE \E p \in Lines : Flush(p) \/ Session(p) \/ Accept(p) \/ AnswerLost(p)
  BY <1>1, <1>2, <1>5 DEF Flush, Session, Accept, AnswerLost, Reads, Rounds
<1> QED
  BY <1>3, <1>4, <1>5 DEF Sending

\* A round that stops, or has not begun to read, has read nothing the cursor does not cover.
LEMMA ReaderRests ==
  ASSUME Inv, PlaceInv, GapInv, round'.at \notin Reads, head' = head,
         UNCHANGED <<cursor, started, tail, unreadable, pruned>>
  PROVE  PlaceInv' /\ GapInv' /\ ReadSoFar' \subseteq ReadSoFar
BY DEF PlaceInv, GapInv, ReadSoFar, Reads

LEMMA ReaderOthers ==
  ASSUME Inv, PlaceInv, GapInv, Others
  PROVE  PlaceInv' /\ GapInv' /\ ReadSoFar' = ReadSoFar
<1>1. UNCHANGED <<cursor, started, tail, unreadable, pruned, round>> /\ head' \in {head, head + 1}
  BY DEF Others, Mine, Publish, AddRule, RemoveRule, Forget, Remove, Age, outside, log
<1>2. ReadSoFar' = ReadSoFar
  BY <1>1 DEF ReadSoFar
<1>3. GapInv'
  BY <1>1, <1>2 DEF GapInv
<1>4. \A n \in Int : n <= head => n <= head'
  BY <1>1, Places DEF Inv
<1>5. PlaceInv'
  BY <1>1, <1>4, Places DEF PlaceInv, Between, Inv
<1> QED
  BY <1>2, <1>3, <1>5

LEMMA ReaderFirst ==
  ASSUME Inv, PlaceInv, FirstRound
  PROVE  PlaceInv' /\ GapInv'
<1>1. /\ UNCHANGED <<tail, unreadable, pruned>> /\ head' = head
      /\ cursor' = head /\ started' = head /\ round'.at = "idle"
  BY IdleAt DEF FirstRound, outside
<1>2. head \in Nat /\ head # None
  BY Places DEF Inv, None
<1> QED
  BY <1>1, <1>2 DEF PlaceInv, GapInv, ReadSoFar, Reads

LEMMA ReaderSurvey ==
  ASSUME Inv, PlaceInv, GapInv, Survey
  PROVE  PlaceInv' /\ GapInv' /\ ReadSoFar' \subseteq ReadSoFar
<1>1. UNCHANGED <<cursor, started, tail, unreadable, pruned>> /\ head' = head
  BY DEF Survey, outside, log
<1>2. CASE round' = Idle
  BY <1>1, <1>2, IdleAt, ReaderRests DEF Reads
<1>3. CASE round' # Idle
  <2>1. cursor \in Nat /\ head \in Nat /\ cursor < head /\ MaxBlocks \in Nat \ {0}
    BY Places, Settings DEF Survey, Inv
  <2> DEFINE far  == IF head < cursor + MaxBlocks THEN head ELSE cursor + MaxBlocks
             upto == IF Cardinality(Between(cursor + 1, far)) > MaxLaunches THEN cursor + 1 ELSE far
  <2>2. /\ upto <= head
        /\ round' = [round EXCEPT !.at = "read", !.upto = upto, !.queue = Between(cursor + 1, upto)]
    <3>1. far <= head /\ cursor + 1 <= head
      BY <2>1
    <3> QED
      BY <1>3, <3>1 DEF Survey
  <2> HIDE DEF upto
  <2>3. round'.at = "read" /\ round'.upto = upto /\ round'.queue = Between(cursor + 1, upto)
    BY <2>2 DEF Inv, TypeOK, Rounds
  <2>4. PlaceInv'
    BY <1>1, <2>2, <2>3 DEF PlaceInv, Between
  <2>5. ReadSoFar' \subseteq ReadSoFar
    BY <1>1, <2>3 DEF ReadSoFar
  <2> QED
    BY <1>1, <2>4, <2>5 DEF GapInv
<1> QED
  BY <1>2, <1>3

\* Of a range that was read, only what did not answer is read without being queued.
LEMMA ReaderReads ==
  ASSUME Inv, PlaceInv, GapInv, NEW bad \in SUBSET round.queue,
         round.at = "read", GiveUp(bad), UNCHANGED <<head, cursor, started, tail, pruned>>
  PROVE  PlaceInv' /\ GapInv' /\ ReadSoFar' \subseteq ReadSoFar \cup bad
<1>1. round'.at = "record" /\ round'.upto = round.upto /\ round'.queue = round.queue \ bad
  BY DEF GiveUp, TypeOK, Rounds
<1>2. /\ unreadable <= unreadable' /\ \A l \in bad : Log[l] <= unreadable'
      /\ unreadable' \in Int
  <2>1. bad \subseteq Launches
    BY Places DEF Inv
  <2> QED
    BY <2>1, Places DEF GiveUp, Inv
<1>3. PlaceInv'
  BY <1>1 DEF PlaceInv, Reads
<1>4. ReadSoFar' \subseteq ReadSoFar \cup bad
  <2> SUFFICES ASSUME NEW l \in Launches, ~(Log[l] <= cursor), Log[l] <= round.upto, l \notin round.queue \ bad
               PROVE  l \in bad
    BY <1>1 DEF ReadSoFar
  <2>1. l \in Between(cursor + 1, round.upto)
    BY Places DEF Inv, Between
  <2> QED
    BY <2>1 DEF PlaceInv
<1>5. cursor # None
  BY DEF Inv, Rest, ReadInv, Reads
<1>6. GapInv'
  <2> SUFFICES ASSUME NEW l \in ReadSoFar' \ tail, l \notin bad
               PROVE  Log[l] <= started \/ Log[l] <= unreadable' \/ Log[l] <= pruned
    BY <1>2, <1>5 DEF GapInv, PlaceInv
  <2>1. Log[l] <= started \/ Log[l] <= unreadable \/ Log[l] <= pruned
    BY <1>4 DEF GapInv
  <2>2. Log[l] \in Int /\ unreadable \in Int
    BY Places DEF Inv, ReadSoFar
  <2> QED
    BY <1>2, <2>1, <2>2
<1> QED
  BY <1>3, <1>4, <1>6

After(l) == /\ round'.upto = round.upto
            /\ round'.queue \subseteq round.queue /\ round.queue \subseteq round'.queue \cup {l}

LEMMA Takes ==
  ASSUME TypeOK, NEW l \in Launches, Record(l) \/ CheckRules(l)
  PROVE  round'.at \in {"idle"} \cup Taken /\ (round'.at \in Taken => After(l))
<1>1. round \in Rounds
  BY DEF TypeOK
<1>2. CASE round' = Idle
  BY <1>2, IdleAt DEF Taken
<1>3. CASE round' = Processed(l)
  BY <1>1, <1>3 DEF Processed, Taken, Rounds, After
<1>4. CASE \E open : round' = [round EXCEPT !.at = "check", !.seen = open]
  BY <1>1, <1>4 DEF Taken, Rounds, After
<1> QED
  BY <1>2, <1>3, <1>4 DEF Record, CheckRules, Enqueue

\* A launch is processed when it is in the tail.
LEMMA ReaderProcesses ==
  ASSUME Inv, PlaceInv, GapInv, NEW l \in Launches,
         round.at \in Taken, First(l), l \in tail', tail' \subseteq tail \cup {l}, tail \subseteq tail',
         UNCHANGED <<head, cursor, started, unreadable, pruned>>,
         round'.at # "read", round'.at \in Taken => After(l)
  PROVE  PlaceInv' /\ GapInv' /\ ReadSoFar' \subseteq ReadSoFar \cup {l}
<1>1. round'.at \in Reads => round'.at \in Taken /\ After(l)
  BY DEF Reads, Taken
<1>2. l \in round.queue /\ Log[l] <= round.upto /\ round.upto <= head
  BY DEF First, PlaceInv, Taken, Reads
<1>3. Log[l] <= head
  <2>1. Log[l] \in Int /\ round.upto \in Int /\ head \in Int
    BY Places DEF Inv
  <2> QED
    BY <1>2, <2>1
<1>4. PlaceInv'
  BY <1>1, <1>2, <1>3 DEF PlaceInv, Taken, Reads, After
<1>5. ReadSoFar' \subseteq ReadSoFar \cup {l}
  BY <1>1 DEF ReadSoFar, Taken, After
<1> QED
  BY <1>4, <1>5 DEF GapInv

LEMMA ReaderCommits ==
  ASSUME Inv, PlaceInv, GapInv, PruneAndCommit
  PROVE  PlaceInv' /\ GapInv' /\ ReadSoFar' \subseteq ReadSoFar
<1>1. /\ UNCHANGED <<head, started, unreadable>>
      /\ round.at = "record" /\ round.queue = {} /\ cursor' = round.upto /\ round'.at = "idle"
  BY IdleAt DEF PruneAndCommit, outside
<1>2. cursor # None /\ cursor <= round.upto /\ round.upto <= head
  BY <1>1 DEF Inv, Rest, ReadInv, PlaceInv, Reads
<1>3. round.upto # None
  BY <1>2, Places DEF Inv, None
<1>4. PICK b \in {snapshot, None}, doomed \in SUBSET tail :
        /\ tail' = tail \ doomed
        /\ \A l \in doomed : Log[l] <= b
        /\ pruned' = IF doomed = {} \/ b < pruned THEN pruned ELSE b
  BY DEF PruneAndCommit
<1>5. b \in Int
  BY Places DEF Inv, None
<1>6. PlaceInv'
  BY <1>1, <1>2, <1>3, <1>4 DEF PlaceInv, Reads
<1>7. ReadSoFar' \subseteq ReadSoFar
  BY <1>1, <1>2, Places DEF Inv, ReadSoFar
<1>8. GapInv'
  <2> SUFFICES ASSUME NEW l \in ReadSoFar' \ tail'
               PROVE  started # None /\ (Log[l] <= started \/ Log[l] <= unreadable \/ Log[l] <= pruned')
    BY <1>1 DEF GapInv
  <2>1. Log[l] \in Int /\ pruned \in Int
    BY Places DEF Inv, ReadSoFar
  <2>2. pruned <= pruned' /\ pruned' \in Int /\ (doomed # {} => b <= pruned')
    BY <1>4, <1>5, <2>1
  <2>3. CASE l \in doomed
    <3>1. Log[l] <= pruned'
      BY <1>4, <1>5, <2>1, <2>2, <2>3
    <3> QED
      BY <1>2, <3>1 DEF PlaceInv
  <2>4. CASE l \notin tail
    BY <1>7, <2>1, <2>2, <2>4 DEF GapInv
  <2> QED
    BY <1>4, <2>3, <2>4
<1> QED
  BY <1>6, <1>7, <1>8

LEMMA ReaderStep ==
  ASSUME Inv, PlaceInv, GapInv, [Next]_vars
  PROVE  PlaceInv' /\ GapInv'
<1>1. CASE UNCHANGED vars
  BY <1>1 DEF vars, outside, log, PlaceInv, GapInv, ReadSoFar, Between
<1>2. CASE Others
  BY <1>2, ReaderOthers
<1>3. CASE Sending
  BY <1>3, SendingFrame, ReaderRests DEF Inv, outside, log
<1>4. CASE ReadFails \/ NothingNew \/ Evict
  BY <1>4, IdleAt, ReaderRests DEF ReadFails, NothingNew, Evict, Inv, outside, log, Reads
<1>5. CASE FirstRound \/ Survey \/ PruneAndCommit
  BY <1>5, ReaderFirst, ReaderSurvey, ReaderCommits
<1>6. CASE ReadLaunches
  <2>1. /\ UNCHANGED <<head, cursor, started, tail, pruned>> /\ round.at = "read"
        /\ \/ round' = Idle /\ UNCHANGED unreadable
           \/ \E bad \in SUBSET round.queue : GiveUp(bad)
    BY <1>6 DEF ReadLaunches, outside
  <2> QED
    BY <2>1, IdleAt, ReaderRests, ReaderReads DEF Reads
<1>7. ASSUME NEW l \in Launches, Record(l) PROVE PlaceInv' /\ GapInv'
  BY <1>7, Takes, ReaderProcesses DEF Record, Inv, outside, Taken
<1>8. ASSUME NEW l \in Launches, CheckRules(l) PROVE PlaceInv' /\ GapInv'
  <2>1. l \in tail
    BY <1>8 DEF CheckRules, First, Inv, Rest, ReadInv, Reads
  <2> QED
    BY <1>8, <2>1, Takes, ReaderProcesses DEF CheckRules, Inv, outside, log, Taken
<1> QED
  BY <1>1, <1>2, <1>3, <1>4, <1>5, <1>6, <1>7, <1>8 DEF Next, Reading

-----------------------------------------------------------------------------
\* Whoever was due a line has it, or a row for it, or the row grew too old.
Served(p) == told[p] > 0 \/ p \in DOMAIN ledger \/ p \in retired

\* An accepted row stands for a message.
ToldInv == \A p \in DOMAIN ledger : ledger[p].sent => told[p] > 0

\* The rules a flush goes by are those that stood when it began; an id is not used again.
ActiveInv == round.at \in Flushes => \A p \in round.todo :
  p[1] < nextRule /\ (p[1] \in rules => p[1] \in round.active)

\* A line that is due is one of a string or dev rule made before its launch was mined.
DueInv == \A p \in due : p \in Lines /\ p[1] < nextRule /\ Threshold[p[1]] = 0 /\ Log[p[2]] <= head

\* The rules under check are all that may still be owed a line of the launch.
SeenInv == round.at = "check" => \A p \in due :
  First(p[2]) /\ p[1] \in rules => p[1] \in round.seen \/ Served(p)

ServedInv == \A p \in due :
  (p[1] \in rules /\ started # None /\ started < Log[p[2]] /\ p[2] \in ReadSoFar /\ p[2] \notin skipped)
    => Served(p)

\* How rows go: only with their rule, for a message, or for age; and no accepted one is reopened.
RowsGo ==
  /\ DOMAIN ledger' \subseteq DOMAIN ledger
  /\ \A p \in DOMAIN ledger' : /\ ledger[p].sent => ledger'[p].sent
                               /\ ledger'[p].sent => ledger[p].sent \/ told'[p] > 0
  /\ \A p \in DOMAIN ledger \ DOMAIN ledger' : p[1] \notin rules' \/ told'[p] > 0 \/ p \in retired'
  /\ retired \subseteq retired' /\ \A p \in Lines : told[p] <= told'[p]

LEMMA ToldNumbers ==
  ASSUME TypeOK
  PROVE  told \in [Lines -> Nat] /\ (\A p \in Lines : told[p] \in Nat /\ lost[p] \in Nat)
         /\ DOMAIN ledger \subseteq Lines
BY Settings DEF TypeOK

LEMMA SameRowsGo ==
  ASSUME TypeOK, UNCHANGED sending
  PROVE  RowsGo
BY ToldNumbers DEF sending, RowsGo

\* One row goes, with its rule, for a message, or for age.
LEMMA OneRowGoes ==
  ASSUME TypeOK, NEW q, ledger' = Without({q}), retired \subseteq retired',
         \A p \in Lines : told[p] <= told'[p],
         q \in DOMAIN ledger => q[1] \notin rules' \/ told'[q] > 0 \/ q \in retired'
  PROVE  RowsGo
<1>1. DOMAIN Without({q}) = DOMAIN ledger \ {q}
  BY WithoutRows
<1>2. \A p \in DOMAIN ledger' : p \in DOMAIN ledger /\ ledger'[p] = ledger[p]
  BY WithoutRows
<1>3. \A p \in DOMAIN ledger : p \notin DOMAIN ledger' => p = q
  BY <1>1
<1> QED
  BY <1>2, <1>3 DEF RowsGo

LEMMA RowsGoOthers ==
  ASSUME Inv, Others
  PROVE  RowsGo
<1>1. CASE Mine \/ Publish \/ AddRule
  BY <1>1, SameRowsGo DEF Mine, Publish, AddRule, Inv
<1>2. CASE RemoveRule \/ Forget
  <2>1. PICK gone : Remove(gone)
    BY <1>2 DEF RemoveRule, Forget
  <2>2. /\ rules' = rules \ gone /\ UNCHANGED <<told, retired>>
        /\ DOMAIN ledger' = DOMAIN ledger \ {p \in Lines : p[1] \in gone}
        /\ \A p \in DOMAIN ledger' : ledger'[p] = ledger[p]
    BY <2>1, WithoutRows DEF Remove, Inv
  <2> QED
    BY <2>2, ToldNumbers DEF RowsGo, Inv
<1>3. CASE \E p \in Lines : Age(p)
  <2>1. /\ UNCHANGED <<told, retired>> /\ DOMAIN ledger' = DOMAIN ledger
        /\ \A p \in DOMAIN ledger : ledger'[p].sent = ledger[p].sent
    BY <1>3 DEF Age, Inv, TypeOK, Row
  <2> QED
    BY <2>1, ToldNumbers DEF RowsGo, Inv
<1> QED
  BY <1>1, <1>2, <1>3 DEF Others

LEMMA RowsGoSending ==
  ASSUME Inv, ToldInv, ActiveInv, Sending
  PROVE  RowsGo
<1>1. UNCHANGED rules
  BY SendingFrame DEF Inv, table
<1>2. CASE Beat \/ Refuse \/ Backlog
  BY <1>2, SameRowsGo DEF Beat, Refuse, Backlog, Inv
<1>3. CASE NoSession
  <2>1. CASE round.line \in DOMAIN ledger /\ ledger[round.line].old
    <3>1. /\ ledger' = Without({round.line}) /\ retired' = retired \cup {round.line} /\ UNCHANGED told
      BY <1>3, <2>1 DEF NoSession
    <3> QED
      BY <3>1, OneRowGoes, ToldNumbers DEF Inv
  <2>2. CASE ~(round.line \in DOMAIN ledger /\ ledger[round.line].old)
    BY <1>3, <2>2, ToldNumbers DEF NoSession, RowsGo, Inv
  <2> QED
    BY <2>1, <2>2
<1>4. ASSUME NEW p \in Lines, Flush(p) PROVE RowsGo
  <2>1. UNCHANGED <<told, retired>> /\ round.at = "flush" /\ p \in round.todo
    BY <1>4 DEF Flush
  <2>2. CASE p \in DOMAIN ledger /\ p[1] \in round.active
    <3>1. ledger' = Stamp(p)
      BY <1>4, <2>2 DEF Flush
    <3> QED
      BY <2>1, <2>2, <3>1, StampRows, ToldNumbers DEF RowsGo, Inv
  <2>3. CASE ~(p \in DOMAIN ledger /\ p[1] \in round.active)
    <3>1. ledger' = Without({p})
      BY <1>4, <2>3 DEF Flush
    <3>2. p \in DOMAIN ledger => p[1] \notin rules
      BY <2>1, <2>3 DEF ActiveInv, Flushes
    <3> QED
      BY <1>1, <2>1, <3>1, <3>2, OneRowGoes, ToldNumbers DEF Inv
  <2> QED
    BY <2>2, <2>3
<1>5. ASSUME NEW p \in Lines, Session(p) PROVE RowsGo
  <2>1. UNCHANGED <<told, retired>>
    BY <1>5 DEF Session
  <2>2. CASE p[1] \in rules
    BY <1>5, <2>1, <2>2, ToldNumbers DEF Session, RowsGo, Inv
  <2>3. CASE p[1] \notin rules
    <3>1. ledger' = Without({p})
      BY <1>5, <2>3 DEF Session
    <3> QED
      BY <1>1, <2>1, <2>3, <3>1, OneRowGoes, ToldNumbers DEF Inv
  <2> QED
    BY <2>2, <2>3
<1>6. ASSUME NEW p \in Lines, Accept(p) PROVE RowsGo
  <2>1. /\ UNCHANGED retired /\ told' = [told EXCEPT ![p] = @ + 1]
    BY <1>6 DEF Accept
  <2>2. told'[p] > 0 /\ \A q \in Lines : told[q] <= told'[q]
    BY <2>1, ToldNumbers DEF Inv
  <2>3. CASE p \in DOMAIN ledger /\ Covered(p)
    <3>1. ledger' = Without({p})
      BY <1>6, <2>3 DEF Accept
    <3> QED
      BY <2>1, <2>2, <3>1, OneRowGoes DEF Inv
  <2>4. CASE ~(p \in DOMAIN ledger /\ Covered(p))
    <3>1. /\ DOMAIN ledger' = DOMAIN ledger
          /\ \A q \in DOMAIN ledger : q # p => ledger'[q] = ledger[q]
          /\ p \in DOMAIN ledger => ledger'[p].sent
      BY <1>6, <2>4 DEF Accept, Inv, TypeOK, Row
    <3> QED
      BY <2>1, <2>2, <3>1 DEF RowsGo
  <2> QED
    BY <2>3, <2>4
<1>7. ASSUME NEW p \in Lines, AnswerLost(p) PROVE RowsGo
  BY <1>7, ToldNumbers DEF AnswerLost, Lose, RowsGo, Inv
<1> QED
  BY <1>2, <1>3, <1>4, <1>5, <1>6, <1>7 DEF Sending

\* Every step but the check of a launch's rules.
LEMMA RowsGoReading ==
  ASSUME Inv, ToldInv, Reading \/ Evict, \A l \in Launches : ~CheckRules(l)
  PROVE  RowsGo
<1>1. CASE ReadFails \/ FirstRound \/ Survey \/ ReadLaunches \/ \E l \in Launches : Record(l)
  BY <1>1, SameRowsGo DEF ReadFails, FirstRound, Survey, ReadLaunches, Record, Inv
<1>2. CASE NothingNew
  <2>1. /\ UNCHANGED <<rules, told, retired>> /\ ledger' = Cleaned(ledger, tail, cursor)
    BY <1>2 DEF NothingNew, table
  <2>2. \A p \in DOMAIN ledger' : p \in DOMAIN ledger /\ ledger'[p] = ledger[p]
    BY <2>1 DEF Cleaned, Restrict
  <2>3. \A p \in DOMAIN ledger : p \notin DOMAIN ledger' => ledger[p].sent
    BY <2>1 DEF Cleaned, Restrict
  <2> QED
    BY <2>1, <2>2, <2>3, ToldNumbers DEF RowsGo, ToldInv, Inv
<1>3. CASE PruneAndCommit
  <2>1. PICK doomed, rows :
          /\ rows = Restrict(ledger, {p \in DOMAIN ledger : ~(ledger[p].sent /\ p[2] \in doomed)})
          /\ ledger' = Cleaned(rows, tail \ doomed, round.upto)
    BY <1>3 DEF PruneAndCommit
  <2>2. UNCHANGED <<rules, told, retired>>
    BY <1>3 DEF PruneAndCommit, table
  <2>3. /\ DOMAIN rows = {p \in DOMAIN ledger : ~(ledger[p].sent /\ p[2] \in doomed)}
        /\ \A p \in DOMAIN rows : rows[p] = ledger[p]
    BY <2>1 DEF Restrict
  <2>4. /\ \A p \in DOMAIN ledger' : p \in DOMAIN rows /\ ledger'[p] = rows[p]
        /\ \A p \in DOMAIN rows : p \notin DOMAIN ledger' => rows[p].sent
    BY <2>1 DEF Cleaned, Restrict
  <2> QED
    BY <2>2, <2>3, <2>4, ToldNumbers DEF RowsGo, ToldInv, Inv
<1>4. CASE Evict
  <2>1. UNCHANGED <<ledger, retired>> /\ (UNCHANGED told \/ \E p \in Lines : Lose(p))
    BY <1>4 DEF Evict
  <2> QED
    BY <2>1, ToldNumbers DEF Lose, RowsGo, Inv
<1> QED
  BY <1>1, <1>2, <1>3, <1>4 DEF Reading

-----------------------------------------------------------------------------
\* Of a set of ids, no more than k come before which there are fewer than k others.
LEMMA FirstFew ==
  ASSUME NEW S \in SUBSET Nat, IsFiniteSet(S), NEW k \in Nat
  PROVE  LET F == {r \in S : Cardinality({q \in S : q < r}) < k}
         IN IsFiniteSet(F) /\ Cardinality(F) <= k
<1> DEFINE Below(r) == {q \in S : q < r}
           F == {r \in S : Cardinality(Below(r)) < k}
           f == [r \in F |-> Cardinality(Below(r))]
<1>1. \A r : IsFiniteSet(Below(r)) /\ Cardinality(Below(r)) \in Nat
  <2> TAKE r
  <2>1. Below(r) \in SUBSET S
    OBVIOUS
  <2>2. IsFiniteSet(Below(r))
    BY <2>1, FS_Subset
  <2> QED
    BY <2>2, FS_CardinalityType
<1>2. IsFiniteSet(F) /\ Cardinality(F) \in Nat
  <2>1. F \in SUBSET S
    OBVIOUS
  <2>2. IsFiniteSet(F)
    BY <2>1, FS_Subset
  <2> QED
    BY <2>2, FS_CardinalityType
<1>3. IsFiniteSet(0..(k - 1)) /\ Cardinality(0..(k - 1)) = k
  BY FS_Interval
<1>4. f \in [F -> 0..(k - 1)]
  BY <1>1
<1>5. ASSUME NEW x \in F, NEW y \in F, x < y
      PROVE  f[x] # f[y]
  <2>1. Below(x) \in SUBSET Below(y) /\ x \in Below(y) /\ x \notin Below(x)
    <3>1. x \in S /\ y \in S
      OBVIOUS
    <3>2. ~(x < x) /\ \A q \in S : q < x => q < y
      <4> HIDE DEF F
      <4> QED
        BY <1>5, <3>1
    <3> QED
      BY <1>5, <3>1, <3>2
  <2>2. Cardinality(Below(x)) # Cardinality(Below(y))
    BY <1>1, <2>1, FS_Subset
  <2> QED
    BY <2>2
<1>6. ~(Cardinality(0..(k - 1)) < Cardinality(F))
  <2> SUFFICES ASSUME Cardinality(0..(k - 1)) < Cardinality(F) PROVE FALSE
    OBVIOUS
  <2> HIDE DEF f, F
  <2>1. PICK x, y \in F : x # y /\ f[x] = f[y]
    BY <1>2, <1>3, <1>4, FS_PigeonHole
  <2>2. x \in Nat /\ y \in Nat
    BY DEF F
  <2>3. x < y \/ y < x
    BY <2>1, <2>2
  <2> QED
    BY <1>5, <2>1, <2>3
<1> QED
  BY <1>2, <1>3, <1>6

LEMMA FiniteRows ==
  ASSUME TypeOK
  PROVE  IsFiniteSet(Lines) /\ IsFiniteSet(Unsent) /\ Cardinality(Unsent) \in Nat
<1>1. IsFiniteSet(Lines)
  BY FS_Product, Sets DEF Lines
<1>2. Unsent \in SUBSET Lines
  BY DEF Unsent, TypeOK
<1>3. IsFiniteSet(Unsent)
  BY <1>1, <1>2, FS_Subset
<1> QED
  BY <1>1, <1>3, FS_CardinalityType

\* What the check of a launch's rules writes.
LEMMA CheckedRows ==
  ASSUME Inv, NEW l \in Launches, CheckRules(l)
  PROVE  \E b \in {snapshot, None} :
           LET fresh  == Fresh(round.seen \cap rules, l, b)
               queued == Fitting(fresh)
           IN /\ fresh \in SUBSET rules /\ queued \in SUBSET fresh
              /\ DOMAIN ledger' = DOMAIN ledger \cup (queued \X {l})
              /\ \A p \in DOMAIN ledger : ledger'[p] = ledger[p]
              /\ \A p \in DOMAIN ledger' : p \notin DOMAIN ledger => ledger'[p] = NewRow
              /\ round' = IF queued = fresh THEN Processed(l) ELSE Idle
BY DEF CheckRules, Enqueue, Fresh, Fitting

\* Only the check adds rows, and only as many as there is room for.
LEMMA BacklogStep ==
  ASSUME Inv, ToldInv, ActiveInv, BacklogBounded, [Next]_vars
  PROVE  BacklogBounded'
<1>1. IsFiniteSet(Unsent) /\ Cardinality(Unsent) \in Nat /\ Capacity \in Nat
  BY FiniteRows, Settings DEF Inv
<1>2. CASE UNCHANGED vars
  BY <1>2 DEF vars, sending, BacklogBounded, Unsent
<1>3. CASE RowsGo
  <2>1. Unsent' \in SUBSET Unsent
    BY <1>3 DEF RowsGo, Unsent, Inv, TypeOK, Row
  <2>2. Cardinality(Unsent') <= Cardinality(Unsent) /\ Cardinality(Unsent') \in Nat
    BY <1>1, <2>1, FS_Subset, FS_CardinalityType
  <2> QED
    BY <1>1, <2>2 DEF BacklogBounded
<1>4. ASSUME NEW l \in Launches, CheckRules(l) PROVE BacklogBounded'
  <2>1. PICK fresh \in SUBSET rules :
          /\ DOMAIN ledger' = DOMAIN ledger \cup (Fitting(fresh) \X {l})
          /\ \A p \in DOMAIN ledger : ledger'[p] = ledger[p]
    BY <1>4, CheckedRows
  <2> DEFINE room == Capacity - Cardinality(Unsent)
  <2>2. room \in Nat
    BY <1>1 DEF BacklogBounded
  <2>3. fresh \in SUBSET Nat /\ IsFiniteSet(fresh)
    <3>1. rules \subseteq Rules
      BY RulesAssumption DEF Inv, TypeOK, Rules
    <3>2. fresh \in SUBSET Rules
      BY <3>1
    <3> QED
      BY <3>2, Sets, FS_Subset
  <2>4. IsFiniteSet(Fitting(fresh)) /\ Cardinality(Fitting(fresh)) <= room
    BY <2>2, <2>3, FirstFew DEF Fitting
  <2> DEFINE new == Fitting(fresh) \X {l}
  <2>5. IsFiniteSet(new) /\ Cardinality(new) <= room /\ Cardinality(new) \in Nat
    <3>1. Cardinality(Fitting(fresh)) \in Nat
      BY <2>4, FS_CardinalityType
    <3>2. IsFiniteSet({l}) /\ Cardinality({l}) = 1
      BY FS_Singleton
    <3>3. IsFiniteSet(new) /\ Cardinality(new) = Cardinality(Fitting(fresh)) * 1
      BY <2>4, <3>2, FS_Product
    <3> QED
      BY <2>4, <3>1, <3>3
  <2>6. Unsent' \in SUBSET (Unsent \cup new)
    BY <2>1 DEF Unsent
  <2> HIDE DEF new
  <2>7. /\ IsFiniteSet(Unsent \cup new)
        /\ Cardinality(Unsent \cup new) = Cardinality(Unsent) + Cardinality(new) - Cardinality(Unsent \cap new)
        /\ Cardinality(Unsent \cap new) \in Nat
    BY <1>1, <2>5, FS_Union, FS_Intersection, FS_CardinalityType
  <2>8. Cardinality(Unsent') <= Cardinality(Unsent \cup new) /\ Cardinality(Unsent') \in Nat
    BY <2>6, <2>7, FS_Subset, FS_CardinalityType
  <2> QED
    BY <1>1, <2>5, <2>7, <2>8 DEF BacklogBounded
<1> QED
  BY <1>2, <1>3, <1>4, RowsGoOthers, RowsGoSending, RowsGoReading DEF Next, Reading

\* The launches of a ticker on the chain are at least those the index and the tail count.
LEMMA CountIsTrue ==
  ASSUME Inv, PlaceInv, NEW l \in Launches, NEW b \in Nat, b <= head, NEW n \in Nat, Reaches(l, b, n)
  PROVE  Cardinality({m \in Same(l) : Log[m] <= head}) >= n
<1> DEFINE known   == {m \in Same(l) : Log[m] <= head}
           indexed == {m \in Same(l) : Log[m] <= b}
           young   == {m \in Same(l) \cap tail : Log[m] > b}
<1>1. indexed \in SUBSET known /\ young \in SUBSET known /\ indexed \cap young = {}
  <2>1. \A m \in Same(l) : Log[m] \in Nat
    BY Sets DEF Same
  <2>2. \A m \in tail : Log[m] <= head
    BY DEF PlaceInv
  <2>3. head \in Nat
    BY Places DEF Inv
  <2> QED
    BY <2>1, <2>2, <2>3
<1>2. IsFiniteSet(known)
  <2>1. known \in SUBSET Launches
    BY DEF Same
  <2> QED
    BY <2>1, Sets, FS_Subset
<1> HIDE DEF known, indexed, young
<1>3. /\ IsFiniteSet(indexed) /\ IsFiniteSet(young)
      /\ Cardinality(indexed) \in Nat /\ Cardinality(young) \in Nat /\ Cardinality(known) \in Nat
  BY <1>1, <1>2, FS_Subset, FS_CardinalityType
<1>4. Cardinality(indexed \cup young) = Cardinality(indexed) + Cardinality(young)
  BY <1>1, <1>3, FS_Union, FS_EmptySet
<1>5. indexed \cup young \in SUBSET known
  BY <1>1
<1>6. Cardinality(indexed) + Cardinality(young) <= Cardinality(known)
  BY <1>2, <1>4, <1>5, FS_Subset
<1>7. Cardinality(young) + (IF Cardinality(indexed) >= CountFloor THEN Cardinality(indexed) ELSE 0) >= n
  BY DEF Reaches, InTail, Indexed, indexed, young
<1>8. Cardinality(young) + Cardinality(indexed) >= n
  BY <1>3, <1>7
<1>9. Cardinality(known) >= n
  BY <1>3, <1>6, <1>8
<1> QED
  BY <1>9 DEF known

LEMMA SharedStep ==
  ASSUME Inv, PlaceInv, ToldInv, ActiveInv, SharedIsTrue, [Next]_vars
  PROVE  SharedIsTrue'
<1> DEFINE Known(l) == {m \in Same(l) : Log[m] <= head}
<1>1. head \in Nat /\ head' \in Nat /\ head <= head'
  <2>1. head' = head \/ head' = head + 1
    BY SendingFrame
    DEF Next, Others, Mine, Publish, AddRule, RemoveRule, Forget, Remove, Age, Reading, ReadFails,
        FirstRound, NothingNew, Survey, ReadLaunches, Record, CheckRules, PruneAndCommit, Evict,
        vars, outside, Inv
  <2> QED
    BY <2>1, Places DEF Inv
<1>2. \A l : IsFiniteSet(Known(l)) /\ IsFiniteSet(Known(l)')
             /\ Cardinality(Known(l)) \in Nat /\ Cardinality(Known(l)') \in Nat
             /\ Cardinality(Known(l)) <= Cardinality(Known(l)')
  <2> TAKE l
  <2>1. Known(l)' \in SUBSET Launches
    BY DEF Same
  <2>2. IsFiniteSet(Known(l)')
    BY <2>1, Sets, FS_Subset
  <2>3. Known(l) \in SUBSET (Known(l)')
    <3>1. \A m \in Same(l) : Log[m] \in Nat
      BY Sets DEF Same
    <3> QED
      BY <1>1, <3>1
  <2> HIDE DEF Known
  <2> QED
    BY <2>2, <2>3, FS_Subset, FS_CardinalityType
<1>3. \A p \in DOMAIN ledger : /\ Cardinality(Known(p[2])) >= Threshold[p[1]]
                               /\ Threshold[p[1]] \in Nat
  <2>1. \A p \in DOMAIN ledger : p[1] \in Rules
    BY ToldNumbers DEF Inv, Lines
  <2> QED
    BY <2>1, RulesAssumption DEF SharedIsTrue
<1> SUFFICES ASSUME NEW p \in DOMAIN ledger'
             PROVE  Cardinality(Known(p[2])') >= Threshold[p[1]]
  BY DEF SharedIsTrue
<1>4. CASE p \in DOMAIN ledger
  <2> HIDE DEF Known
  <2> QED
    BY <1>2, <1>3, <1>4
<1>5. CASE p \notin DOMAIN ledger
  <2>1. PICK l \in Launches : CheckRules(l)
    <3>1. DOMAIN ledger' # DOMAIN ledger
      BY <1>5
    <3>2. ~RowsGo
      BY <1>5 DEF RowsGo
    <3> QED
      BY <3>1, <3>2, RowsGoOthers, RowsGoSending, RowsGoReading DEF Next, Reading, vars, sending
  <2>2. PICK b \in {snapshot, None} :
          LET queued == Fitting(Fresh(round.seen \cap rules, l, b))
          IN DOMAIN ledger' = DOMAIN ledger \cup (queued \X {l})
    BY <2>1, CheckedRows
  <2>3. PICK r \in rules : p = <<r, l>> /\ Matches(r, l, b)
    BY <1>5, <2>2 DEF Fitting, Fresh
  <2>4. Threshold[r] \in Nat
    BY RulesAssumption DEF Inv, TypeOK, Rules
  <2>5. CASE Threshold[r] = 0
    <3> HIDE DEF Known
    <3> QED
      BY <1>2, <2>3, <2>5
  <2>6. CASE Threshold[r] # 0
    <3>1. b # None /\ Reaches(l, b, Threshold[r])
      BY <2>3, <2>6 DEF Matches
    <3>2. b \in Nat /\ b <= head
      BY <3>1, Places DEF Inv
    <3>3. Cardinality(Known(l)) >= Threshold[r]
      BY <2>4, <3>1, <3>2, CountIsTrue
    <3> HIDE DEF Known
    <3> QED
      BY <1>2, <2>3, <2>4, <3>3
  <2> QED
    BY <2>5, <2>6
<1> QED
  BY <1>4, <1>5

-----------------------------------------------------------------------------
ServeInv == ToldInv /\ ActiveInv /\ DueInv /\ SeenInv /\ ServedInv

Watched == Inv /\ PlaceInv /\ GapInv /\ ServeInv /\ SharedIsTrue /\ BacklogBounded

LEMMA RulesStand ==
  ASSUME TypeOK
  PROVE  nextRule \in Nat /\ nextRule \notin rules /\ \A r \in rules : r \in Nat /\ r < nextRule
BY Numbers DEF TypeOK

LEMMA DueIsWanted ==
  ASSUME TypeOK
  PROVE  \A p \in due : p \in Wants /\ p \in Lines /\ Threshold[p[1]] = 0 /\ p[2] \in Launches
                        /\ p = <<p[1], p[2]>>
BY RulesAssumption DEF TypeOK, Lines

\* What was read lies behind the head.
LEMMA ReadIsMined ==
  ASSUME Inv, PlaceInv
  PROVE  /\ \A l \in ReadSoFar : Log[l] <= head
         /\ round.at \in Reads => \A l \in round.queue : Log[l] <= head
BY Places DEF Inv, PlaceInv, ReadSoFar, Reads

\* A line that was served stays so while its rule stands.
LEMMA ServedStays ==
  ASSUME TypeOK, TypeOK', RowsGo, NEW p \in Lines, Served(p), p[1] \in rules'
  PROVE  Served(p)'
<1>1. told[p] > 0 => told'[p] > 0
  BY SMTT(30) DEF RowsGo, TypeOK
<1> QED
  BY <1>1 DEF Served, RowsGo

\* A step that only loses rows, reads nothing new and adds no rule leaves everyone served.
LEMMA ServedFrame ==
  ASSUME Inv, Inv', ServeInv, RowsGo, UNCHANGED <<due, started, skipped>>,
         \A p \in due : p[1] \in rules' => p[1] \in rules, ReadSoFar' \subseteq ReadSoFar
  PROVE  ToldInv' /\ ServedInv'
<1>1. ToldInv'
  <2> SUFFICES ASSUME NEW p \in DOMAIN ledger', ledger'[p].sent PROVE told'[p] > 0
    BY DEF ToldInv
  <2>1. p \in Lines
    BY DEF Inv, TypeOK
  <2>2. told[p] \in Nat /\ told'[p] \in Nat /\ told[p] <= told'[p]
    BY <2>1 DEF Inv, TypeOK, RowsGo
  <2> QED
    BY <2>2 DEF RowsGo, ServeInv, ToldInv
<1>2. ServedInv'
  <2> SUFFICES ASSUME NEW p \in due, p[1] \in rules', started # None, started < Log[p[2]],
                      p[2] \in ReadSoFar', p[2] \notin skipped
               PROVE  Served(p)'
    BY DEF ServedInv
  <2>1. Served(p) /\ p \in Lines
    BY DueIsWanted DEF ServeInv, ServedInv, Inv
  <2> QED
    BY <2>1, ServedStays DEF Inv
<1> QED
  BY <1>1, <1>2

LEMMA ServeOthers ==
  ASSUME Inv, Inv', PlaceInv, GapInv, ServeInv, Others
  PROVE  ServeInv'
<1>1. RowsGo /\ ReadSoFar' = ReadSoFar /\ UNCHANGED <<round, started, skipped>>
  BY RowsGoOthers, ReaderOthers
     DEF Others, Mine, Publish, AddRule, RemoveRule, Forget, Remove, Age, log, Inv
<1>2. /\ nextRule <= nextRule' /\ nextRule \in Nat /\ nextRule' \in Nat
      /\ \A r \in rules' : r < nextRule => r \in rules
  <2>1. rules' \subseteq rules \cup {nextRule} /\ nextRule' \in {nextRule, nextRule + 1}
    BY DEF Others, Mine, Publish, AddRule, RemoveRule, Forget, Remove, Age, table
  <2> QED
    BY <2>1, RulesStand DEF Inv
<1>3. CASE ~Mine
  <2>1. UNCHANGED due /\ UNCHANGED head
    BY <1>3 DEF Others, Publish, AddRule, RemoveRule, Forget, Remove, Age, outside
  <2>2. \A p \in due : p[1] \in Nat /\ p[1] < nextRule
    BY DueIsWanted, Numbers DEF ServeInv, DueInv, Inv
  <2>3. \A p \in due : p[1] \in rules' => p[1] \in rules
    BY <1>2, <2>2
  <2>4. ToldInv' /\ ServedInv'
    BY <1>1, <2>1, <2>3, ServedFrame
  <2>5. DueInv'
    BY <1>2, <2>1, <2>2 DEF ServeInv, DueInv
  <2>6. SeenInv'
    <3> SUFFICES ASSUME round.at = "check", NEW p \in due, First(p[2]), p[1] \in rules'
                 PROVE  p[1] \in round.seen \/ Served(p)'
      BY <1>1, <2>1 DEF SeenInv, First
    <3>1. p \in Lines /\ (p[1] \in round.seen \/ Served(p))
      BY <2>3, DueIsWanted DEF ServeInv, SeenInv, Inv
    <3> QED
      BY <1>1, <3>1, ServedStays DEF Inv
  <2>7. ActiveInv'
    <3> SUFFICES ASSUME round.at \in Flushes, NEW p \in round.todo
                 PROVE  p[1] < nextRule' /\ (p[1] \in rules' => p[1] \in round.active)
      BY <1>1 DEF ActiveInv
    <3>1. p \in Lines
      BY DEF Inv, TypeOK, Rounds
    <3>2. p[1] \in Nat /\ p[1] < nextRule /\ (p[1] \in rules => p[1] \in round.active)
      BY <3>1, Numbers DEF ServeInv, ActiveInv, Inv
    <3> QED
      BY <1>2, <3>2
  <2> QED
    BY <2>4, <2>5, <2>6, <2>7 DEF ServeInv
<1>4. CASE Mine
  <2>1. /\ due' = due \cup {p \in Wants : p[1] \in rules /\ Log[p[2]] = head + 1}
        /\ head' = head + 1 /\ UNCHANGED <<rules, nextRule, ledger, told, retired, cursor, round>>
    BY <1>4 DEF Mine, table, log, sending
  <2> DEFINE new == {p \in Wants : p[1] \in rules /\ Log[p[2]] = head + 1}
  <2>2. \A p \in new : p \in Lines /\ p[1] < nextRule /\ Threshold[p[1]] = 0 /\ p[2] \in Launches
    BY RulesAssumption, RulesStand DEF Inv, Lines
  <2>3. \A p \in new : p[2] \notin ReadSoFar /\ (round.at = "check" => p[2] \notin round.queue)
    BY ReadIsMined, Places DEF Inv, Reads
  <2>4. ToldInv' /\ ActiveInv'
    BY <2>1 DEF ServeInv, ToldInv, ActiveInv
  <2>5. DueInv'
    <3>1. \A p \in due : Log[p[2]] \in Nat
      BY DueIsWanted, Places DEF Inv
    <3>2. head \in Nat
      BY Places DEF Inv
    <3> QED
      BY <2>1, <2>2, <3>1, <3>2 DEF ServeInv, DueInv
  <2>6. SeenInv'
    BY <2>1, <2>3 DEF ServeInv, SeenInv, First, Served
  <2>7. ServedInv'
    BY <1>1, <2>1, <2>3 DEF ServeInv, ServedInv, Served
  <2> QED
    BY <2>4, <2>5, <2>6, <2>7 DEF ServeInv
<1> QED
  BY <1>3, <1>4

LEMMA ServeSending ==
  ASSUME Inv, Inv', PlaceInv, GapInv, ServeInv, Sending
  PROVE  ServeInv'
<1>1. UNCHANGED <<outside, table, log>> /\ round'.at \notin Reads
  BY SendingFrame DEF Inv
<1>2. RowsGo
  BY RowsGoSending DEF ServeInv
<1>3. ReadSoFar' \subseteq ReadSoFar
  BY <1>1, ReaderRests DEF outside, log
<1>4. ToldInv' /\ ServedInv'
  BY <1>1, <1>2, <1>3, ServedFrame DEF outside, table, log
<1>5. DueInv' /\ SeenInv'
  BY <1>1 DEF ServeInv, DueInv, SeenInv, outside, table, Reads
<1>6. ActiveInv'
  <2>1. CASE Beat
    <3>1. PICK S \in SUBSET Unsent :
            round' = [Idle EXCEPT !.at = "flush", !.todo = S, !.active = {p[1] : p \in S} \cap rules]
      BY <2>1 DEF Beat
    <3>2. round'.todo = S /\ round'.active = {p[1] : p \in S} \cap rules
      BY <3>1 DEF Idle
    <3>3. \A p \in S : p[1] < nextRule
      BY RulesStand DEF Unsent, Inv, Rest, RowInv
    <3> QED
      BY <1>1, <3>2, <3>3 DEF ActiveInv, table
  <2>2. CASE ~Beat
    <3>1. round'.at \in Flushes => round.at \in Flushes /\ round'.todo \subseteq round.todo
                                   /\ round'.active = round.active
      <4>1. round \in Rounds
        BY DEF Inv, TypeOK
      <4>2. CASE Backlog
        BY <4>2 DEF Backlog, Idle, Flushes
      <4>3. CASE round' = NextLine /\ round.at \in Sends
        BY <4>1, <4>3 DEF NextLine, Rounds, Flushes, Sends
      <4>4. CASE \E p \in Lines : Flush(p)
        BY <4>1, <4>4, ZenonT(60) DEF Flush, Rounds, Flushes
      <4>5. CASE \E p \in Lines : Session(p)
        BY <4>1, <4>3, <4>5 DEF Session, Rounds, Flushes, Sends
      <4> QED
        BY <2>2, <4>2, <4>3, <4>4, <4>5 DEF Sending, NoSession, Refuse, Accept, AnswerLost, Sends
    <3> QED
      BY <1>1, <3>1 DEF ServeInv, ActiveInv, table
  <2> QED
    BY <2>1, <2>2
<1> QED
  BY <1>4, <1>5, <1>6 DEF ServeInv

\* The reader does not touch the rules, and no flush runs beside it.
LEMMA ReadingFrame ==
  ASSUME TypeOK, Reading \/ Evict
  PROVE  UNCHANGED <<outside, table>> /\ round'.at \notin Flushes
<1>1. round \in Rounds
  BY DEF TypeOK
<1>2. CASE ReadLaunches \/ Survey
  BY <1>1, <1>2, IdleAt DEF ReadLaunches, GiveUp, Survey, Flushes, Rounds
<1>3. CASE \E l \in Launches : Record(l) \/ CheckRules(l)
  <2>1. PICK l \in Launches : Record(l) \/ CheckRules(l)
    BY <1>3
  <2>2. round'.at \in {"idle"} \cup Taken
    BY <2>1, Takes
  <2> QED
    BY <2>1, <2>2 DEF Record, CheckRules, Flushes, Taken
<1>4. CASE ReadFails \/ FirstRound \/ NothingNew \/ PruneAndCommit \/ Evict
  BY <1>4, IdleAt DEF ReadFails, FirstRound, NothingNew, PruneAndCommit, Evict, Flushes
<1> QED
  BY <1>2, <1>3, <1>4 DEF Reading

\* What the running round has not taken up is not read.
LEMMA QueueIsAhead ==
  ASSUME Inv, round.at \in Reads
  PROVE  \A l \in round.queue : l \notin ReadSoFar
<1> SUFFICES ASSUME NEW l \in round.queue PROVE ~(Log[l] <= cursor)
  BY DEF ReadSoFar
<1>1. cursor < Log[l] /\ cursor \in Int /\ Log[l] \in Int
  BY Places DEF Inv, Rest, ReadInv
<1> QED
  BY <1>1

\* A launch given up is not owed to anyone.
LEMMA ServeReads ==
  ASSUME Inv, PlaceInv, GapInv, ServeInv, ReadLaunches
  PROVE  ServedInv'
<1>1. /\ UNCHANGED <<due, rules, started, told, ledger, retired>> /\ round.at = "read"
      /\ UNCHANGED <<head, cursor, tail, pruned>>
  BY DEF ReadLaunches, outside, table, sending
<1>2. CASE round' = Idle /\ UNCHANGED <<unreadable, skipped>>
  <2>1. ReadSoFar' \subseteq ReadSoFar
    BY <1>1, <1>2, IdleAt, ReaderRests DEF Reads
  <2> QED
    BY <1>1, <1>2, <2>1 DEF ServeInv, ServedInv, Served
<1>3. ASSUME NEW bad \in SUBSET round.queue, GiveUp(bad)
      PROVE  ServedInv'
  <2>1. ReadSoFar' \subseteq ReadSoFar \cup bad
    BY <1>1, <1>3, ReaderReads
  <2>2. skipped' = (skipped \ round.queue) \cup bad
    BY <1>3 DEF GiveUp
  <2>3. \A l \in ReadSoFar' : l \notin skipped' => l \in ReadSoFar /\ l \notin skipped
    BY <1>1, <2>1, <2>2, QueueIsAhead DEF Reads
  <2> QED
    BY <1>1, <2>3 DEF ServeInv, ServedInv, Served
<1> QED
  BY <1>2, <1>3 DEF ReadLaunches

LEMMA ServeRecord ==
  ASSUME Inv, PlaceInv, GapInv, ServeInv, NEW l \in Launches, Record(l)
  PROVE  SeenInv' /\ ServedInv'
<1>1. /\ UNCHANGED <<due, rules, started, skipped, told, ledger, retired>>
      /\ UNCHANGED <<head, cursor, unreadable, pruned>>
      /\ round.at = "record" /\ First(l) /\ tail' = tail \cup {l}
  BY DEF Record, outside, table, sending
<1>2. round.at \in Taken /\ round'.at # "read" /\ (round'.at \in Taken => After(l))
  BY <1>1, Takes DEF Inv, Taken
<1>3. ReadSoFar' \subseteq ReadSoFar \cup {l}
  BY <1>1, <1>2, ReaderProcesses
<1> DEFINE open == {r \in rules : <<r, l>> \in DOMAIN ledger => ~ledger[<<r, l>>].sent}
<1>4. CASE round' = Processed(l) /\ open = {}
  <2>1. round'.at = "record"
    BY <1>4 DEF Processed, Inv, TypeOK, Rounds
  <2>2. \A p \in due : p[1] \in rules /\ p[2] = l => Served(p)
    BY <1>4, DueIsWanted DEF Served, Inv
  <2> QED
    BY <1>1, <1>3, <2>1, <2>2 DEF SeenInv, ServeInv, ServedInv, Served
<1>5. CASE round' = [round EXCEPT !.at = "check", !.seen = open]
  <2>1. round'.at = "check" /\ round'.seen = open /\ round'.queue = round.queue /\ round'.upto = round.upto
    BY <1>5 DEF Inv, TypeOK, Rounds
  <2>2. ReadSoFar' = ReadSoFar
    BY <1>1, <2>1 DEF ReadSoFar
  <2>3. \A m \in Launches : First(m) => m = l
    BY <1>1, Sets, Places DEF First, Inv
  <2>4. SeenInv'
    <3> SUFFICES ASSUME NEW p \in due, First(p[2]), p[1] \in rules
                 PROVE  p[1] \in open \/ Served(p)
      BY <1>1, <2>1 DEF SeenInv, First, Served
    <3>1. p = <<p[1], l>>
      BY <2>3, DueIsWanted DEF Inv
    <3> QED
      BY <3>1 DEF Served
  <2> QED
    BY <1>1, <2>2, <2>4 DEF ServeInv, ServedInv, Served
<1> QED
  BY <1>4, <1>5 DEF Record

LEMMA ServeCheckRules ==
  ASSUME Inv, PlaceInv, GapInv, ServeInv, NEW l \in Launches, CheckRules(l)
  PROVE  ToldInv' /\ SeenInv' /\ ServedInv'
<1>1. /\ UNCHANGED <<due, rules, started, skipped, told, retired>>
      /\ UNCHANGED <<head, cursor, tail, unreadable, pruned>>
      /\ round.at = "check" /\ First(l)
  BY DEF CheckRules, outside, table, log
<1>2. l \in tail
  BY <1>1 DEF First, Inv, Rest, ReadInv, Reads
<1>3. ReadSoFar' \subseteq ReadSoFar \cup {l}
  BY <1>1, <1>2, Takes, ReaderProcesses DEF Inv, Taken
<1>4. PICK b \in {snapshot, None} :
        LET fresh  == Fresh(round.seen \cap rules, l, b)
            queued == Fitting(fresh)
        IN /\ queued \in SUBSET fresh
           /\ DOMAIN ledger' = DOMAIN ledger \cup (queued \X {l})
           /\ \A p \in DOMAIN ledger : ledger'[p] = ledger[p]
           /\ \A p \in DOMAIN ledger' : p \notin DOMAIN ledger => ledger'[p] = NewRow
           /\ round' = IF queued = fresh THEN Processed(l) ELSE Idle
  BY CheckedRows
<1>5. ToldInv'
  <2> SUFFICES ASSUME NEW p \in DOMAIN ledger', ledger'[p].sent PROVE told[p] > 0
    BY <1>1 DEF ToldInv
  <2>1. p \in DOMAIN ledger
    <3>1. ~NewRow.sent
      BY DEF NewRow
    <3> QED
      BY <1>4, <3>1
  <2> QED
    BY <1>4, <2>1 DEF ServeInv, ToldInv
<1>6. \A p : Served(p) => Served(p)'
  BY <1>1, <1>4 DEF Served
<1>7. CASE round' = Idle
  <2>1. ReadSoFar' \subseteq ReadSoFar
    BY <1>1, <1>7, IdleAt, ReaderRests DEF Reads
  <2> QED
    BY <1>1, <1>5, <1>6, <1>7, <2>1, IdleAt DEF SeenInv, ServeInv, ServedInv
<1>8. CASE round' = Processed(l) /\ Fitting(Fresh(round.seen \cap rules, l, b)) = Fresh(round.seen \cap rules, l, b)
  <2>1. round'.at = "record"
    BY <1>8 DEF Processed, Inv, TypeOK, Rounds
  <2>2. ASSUME NEW p \in due, p[1] \in rules, p[2] = l
        PROVE  Served(p)'
    <3>1. p \in Wants /\ Threshold[p[1]] = 0 /\ p = <<p[1], l>>
      BY <2>2, DueIsWanted DEF Inv
    <3>2. CASE p[1] \in round.seen
      <4>1. Matches(p[1], l, b)
        BY <3>1 DEF Matches
      <4>2. p \notin DOMAIN ledger => p[1] \in Fresh(round.seen \cap rules, l, b)
        BY <2>2, <3>1, <3>2, <4>1 DEF Fresh
      <4>3. p \in DOMAIN ledger'
        BY <1>4, <1>8, <3>1, <4>2
      <4> QED
        BY <4>3 DEF Served
    <3>3. CASE p[1] \notin round.seen
      BY <1>1, <1>6, <2>2, <3>3 DEF ServeInv, SeenInv
    <3> QED
      BY <3>2, <3>3
  <2> QED
    BY <1>1, <1>3, <1>5, <1>6, <2>1, <2>2 DEF SeenInv, ServeInv, ServedInv
<1> QED
  BY <1>4, <1>7, <1>8

LEMMA ServeReading ==
  ASSUME Inv, Inv', PlaceInv, GapInv, ServeInv, Reading \/ Evict
  PROVE  ServeInv'
<1>1. UNCHANGED <<outside, table>> /\ round'.at \notin Flushes
  BY ReadingFrame DEF Inv
<1>2. ActiveInv' /\ DueInv'
  BY <1>1 DEF ServeInv, ActiveInv, DueInv, outside, table
<1>3. CASE \E l \in Launches : CheckRules(l)
  BY <1>2, <1>3, ServeCheckRules DEF ServeInv
<1>4. CASE ~\E l \in Launches : CheckRules(l)
  <2>1. RowsGo
    BY <1>4, RowsGoReading DEF ServeInv
  <2>2. CASE ReadFails \/ NothingNew \/ Survey \/ PruneAndCommit \/ Evict
    <3>1. UNCHANGED <<started, skipped>>
      BY <2>2 DEF ReadFails, NothingNew, Survey, PruneAndCommit, Evict, log
    <3>2. round'.at # "check"
      BY <2>2, IdleAt DEF ReadFails, NothingNew, Survey, PruneAndCommit, Evict, Inv, TypeOK, Rounds
    <3>3. ReadSoFar' \subseteq ReadSoFar
      <4>1. CASE ReadFails \/ NothingNew \/ Evict
        BY <4>1, IdleAt, ReaderRests DEF ReadFails, NothingNew, Evict, Inv, outside, log, Reads
      <4> QED
        BY <2>2, <4>1, ReaderSurvey, ReaderCommits
    <3>4. ToldInv' /\ ServedInv'
      BY <1>1, <2>1, <3>1, <3>3, ServedFrame DEF outside, table
    <3> QED
      BY <1>2, <3>2, <3>4 DEF ServeInv, SeenInv
  <2>3. CASE FirstRound
    <3>1. started' = head /\ round'.at = "idle" /\ UNCHANGED sending
      BY <2>3, IdleAt DEF FirstRound
    <3>2. \A p \in due : ~(head < Log[p[2]])
      <4>1. \A p \in due : Log[p[2]] \in Nat /\ Log[p[2]] <= head
        BY DueIsWanted, Places DEF ServeInv, DueInv, Inv
      <4> QED
        BY <4>1, Places DEF Inv
    <3>3. ServedInv' /\ SeenInv'
      BY <1>1, <3>1, <3>2 DEF ServedInv, SeenInv, outside
    <3> QED
      BY <1>2, <3>1, <3>3 DEF ServeInv, ToldInv, sending
  <2>4. CASE ReadLaunches
    <3>1. UNCHANGED sending /\ round'.at # "check"
      BY <2>4, IdleAt DEF ReadLaunches, GiveUp, Inv, TypeOK, Rounds
    <3> QED
      BY <1>2, <2>4, <3>1, ServeReads DEF ServeInv, ToldInv, SeenInv, sending
  <2>5. ASSUME NEW l \in Launches, Record(l) PROVE ServeInv'
    <3>1. UNCHANGED sending
      BY <2>5 DEF Record
    <3> QED
      BY <1>2, <2>5, <3>1, ServeRecord DEF ServeInv, ToldInv, sending
  <2> QED
    BY <1>4, <2>2, <2>3, <2>4, <2>5 DEF Reading
<1> QED
  BY <1>3, <1>4

LEMMA WatchedInit == Init => Watched
<1> SUFFICES ASSUME Init PROVE Watched
  OBVIOUS
<1>1. /\ round.at = "idle" /\ DOMAIN ledger = {} /\ due = {} /\ tail = {}
      /\ head = 0 /\ cursor = None /\ started = None
  BY DEF Init, Idle
<1>2. ReadSoFar = {}
  <2>1. \A l \in Launches : ~(Log[l] <= cursor)
    BY <1>1, Sets DEF None
  <2> QED
    BY <1>1, <2>1 DEF ReadSoFar
<1>3. Inv
  BY InvInit
<1>4. PlaceInv /\ GapInv
  BY <1>1, <1>2 DEF PlaceInv, GapInv, Reads, None
<1>5. ServeInv
  BY <1>1 DEF ServeInv, ToldInv, ActiveInv, DueInv, SeenInv, ServedInv, Flushes
<1>6. SharedIsTrue
  BY <1>1 DEF SharedIsTrue
<1>7. BacklogBounded
  <2>1. Unsent = {}
    BY <1>1 DEF Unsent
  <2> QED
    BY <2>1, FS_EmptySet, Settings DEF BacklogBounded
<1> QED
  BY <1>3, <1>4, <1>5, <1>6, <1>7 DEF Watched

LEMMA WatchedStep == Watched /\ [Next]_vars => Watched'
<1> SUFFICES ASSUME Watched, [Next]_vars PROVE Watched'
  OBVIOUS
<1>1. Inv /\ Inv' /\ PlaceInv /\ GapInv /\ ServeInv
  BY InvStep DEF Watched
<1>2. ServeInv'
  <2>1. CASE UNCHANGED vars
    BY <1>1, <2>1 DEF vars, outside, table, log, sending, ServeInv, ToldInv, ActiveInv, DueInv,
       SeenInv, ServedInv, Served, First, ReadSoFar
  <2> QED
    BY <1>1, <2>1, ServeOthers, ServeSending, ServeReading DEF Next
<1>3. PlaceInv' /\ GapInv' /\ SharedIsTrue' /\ BacklogBounded'
  BY <1>1, ReaderStep, SharedStep, BacklogStep DEF Watched, ServeInv
<1> QED
  BY <1>1, <1>2, <1>3 DEF Watched

LEMMA WatchInvariant == Spec => []Watched
BY WatchedInit, WatchedStep, PTL DEF Spec

\* When the cursor has passed a launch, every rule that stood when it was mined has been served, over
\* any evictions, rereads, rules removed and rules added meanwhile, unless the launch did not answer.
THEOREM NoneMissed == Spec => []NothingMissed
<1>1. Watched => NothingMissed
  <2> SUFFICES ASSUME Watched, NEW p \in due, p[1] \in rules, started # None, started < Log[p[2]],
                      Log[p[2]] <= cursor, p[2] \notin skipped
               PROVE  Served(p)
    BY DEF NothingMissed, Served
  <2>1. p[2] \in ReadSoFar
    BY DueIsWanted DEF ReadSoFar, Watched, Inv
  <2> QED
    BY <2>1 DEF Watched, ServeInv, ServedInv
<1> QED
  BY <1>1, WatchInvariant, PTL

\* What is queued for "shared N" is true, a tail called complete is complete, and what waits fits.
THEOREM LedgerTrue == Spec => []LedgerIsTrue
<1>1. Watched => CompleteMeansComplete
  <2> SUFFICES ASSUME Watched, NEW b \in 0..MaxHead, TailCompleteAfter(b),
                      NEW l \in ReadSoFar, Log[l] > b, l \notin tail
               PROVE  FALSE
    BY DEF CompleteMeansComplete
  <2>1. Log[l] <= started \/ Log[l] <= unreadable \/ Log[l] <= pruned
    BY DEF Watched, GapInv
  <2>2. /\ Log[l] \in Int /\ started \in Int /\ unreadable \in Int /\ pruned \in Int
        /\ b \in Int
    BY Places DEF Watched, Inv, ReadSoFar
  <2>3. started <= b /\ unreadable <= b /\ pruned <= b
    BY DEF TailCompleteAfter
  <2> QED
    BY <2>1, <2>2, <2>3
<1>2. Watched => LedgerIsTrue
  BY <1>1 DEF Watched, LedgerIsTrue
<1> QED
  BY <1>2, WatchInvariant, PTL
=============================================================================
