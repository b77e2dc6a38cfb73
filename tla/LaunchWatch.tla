----------------------------- MODULE LaunchWatch -----------------------------
(***************************************************************************)
(* The launch watcher of the core bot (bot/src/watch.js): it reads new     *)
(* launches from the factory's log, remembers them in a tail, checks the   *)
(* rules of the holders against each, and sends what matched by Telegram.  *)
(*                                                                         *)
(* A round runs alone (this.running) but stops at every await; rules are   *)
(* added and removed, and the published snapshot is replaced, while it     *)
(* stands there.  What a round writes between two awaits is durable as a   *)
(* whole; an eviction loses only the round itself.                         *)
(***************************************************************************)
EXTENDS Integers, Sequences, FiniteSets, Functions

CONSTANTS
  Log,            \* the block of each launch, in the order of the log
  Ticker,         \* the ticker each launch carries
  RuleOwner,      \* the owner of each rule, in the order the rules are made
  Threshold,      \* per rule: N of "shared N", 0 for a string or dev rule
  SignedIn,       \* holders assumed to stay signed in, for liveness only
  Wants,          \* the pairs (string or dev rule, launch) that match
  CountFloor,     \* from how many launches on the index counts a ticker
  MaxBlocks, MaxLaunches, Capacity, Batch, ReadAttempts,  \* the settings of watch.js
  MaxHead, MaxLost, MaxCrashes    \* bounds: blocks, lost answers per line, evictions

ASSUME LogAssumption ==
  /\ Log \in Seq(Nat \ {0})
  /\ \A i, j \in DOMAIN Log : i <= j => Log[i] <= Log[j]
ASSUME SettingsAssumption ==
  /\ {MaxBlocks, MaxLaunches, Capacity, Batch, ReadAttempts} \subseteq Nat \ {0}
  /\ {MaxHead, MaxLost, MaxCrashes, CountFloor} \subseteq Nat

Launches == DOMAIN Log
Rules    == DOMAIN RuleOwner
Owners   == {RuleOwner[r] : r \in Rules}
Lines    == Rules \X Launches

ASSUME RulesAssumption ==
  /\ RuleOwner \in Seq(Owners) /\ Threshold \in [Rules -> Nat] /\ Wants \subseteq Lines
  /\ \A p \in Wants : Threshold[p[1]] = 0

None     == -1    \* a key that is not stored, a file that was not read
NoLine   == <<0, 0>>

VARIABLES
  head,        \* the finalized head of the chain
  snapshot,    \* the last block the published index and numbers cover
  rules,       \* the ids in the rules table
  nextRule,    \* rule_sequence.next_id
  cursor,      \* last_block
  started,     \* started_block
  tail,        \* the launches in the tail table
  ledger,      \* rule_delivery: (rule, launch) -> row
  attempts,    \* attempts:<cursor + 1>
  unreadable,  \* last_unreadable_block
  pruned,      \* wall_pruned_through
  round        \* where the running round stands, and its local variables

\* History: messages Telegram accepted and answers about them that were lost, per line;
\* lines whose rule stood when the launch was mined; lines retired by age; lines whose launch was
\* pruned before the cursor reached it; launches given up; evictions so far.
VARIABLES told, lost, due, retired, early, skipped, crashes

outside == <<head, snapshot, due>>
table   == <<rules, nextRule>>
log     == <<cursor, started, tail, attempts, unreadable, pruned, skipped, early>>
sending == <<ledger, told, lost, retired>>
vars    == <<outside, table, log, sending, round, crashes>>

-----------------------------------------------------------------------------
Row == [sent : BOOLEAN, last : Nat, old : BOOLEAN]

Steps == {"idle", "flush", "session", "send", "survey", "read", "record", "check"}

\* todo: the batch left to send.  active: their rules as the flush read them.  line: the one being sent.
\* upto: the end of the block range.  queue: the launches of the range left to process.
\* seen: the rules as checkRules read them.
Rounds == [at : Steps, todo : SUBSET Lines, active : SUBSET Rules, line : Lines \cup {NoLine},
           upto : Nat \cup {None}, queue : SUBSET Launches, seen : SUBSET Rules]

Idle == [at |-> "idle", todo |-> {}, active |-> {}, line |-> NoLine, upto |-> None, queue |-> {}, seen |-> {}]

Unsent      == {p \in DOMAIN ledger : ~ledger[p].sent}
Without(S)  == Restrict(ledger, DOMAIN ledger \ S)
Covered(p)  == p[2] \notin tail \/ Log[p[2]] <= cursor
Between(a, b) == {l \in Launches : a <= Log[l] /\ Log[l] <= b}

Init ==
  /\ head = 0 /\ snapshot = 0 /\ due = {}
  /\ rules = {} /\ nextRule = 1
  /\ cursor = None /\ started = None /\ tail = {} /\ attempts = 0
  /\ unreadable = None /\ pruned = None /\ skipped = {} /\ early = {}
  /\ ledger = <<>>
  /\ told = [p \in Lines |-> 0] /\ lost = [p \in Lines |-> 0] /\ retired = {}
  /\ round = Idle /\ crashes = 0

-----------------------------------------------------------------------------
(* What others do while a round waits. *)

Mine ==
  /\ head < MaxHead
  /\ head' = head + 1
  /\ due' = due \cup {p \in Wants : p[1] \in rules /\ Log[p[2]] = head + 1}
  /\ UNCHANGED <<snapshot, table, log, sending, round, crashes>>

\* A build publishes other files; a rollback may publish older ones.
Publish == \E b \in 0..head :
  /\ snapshot' = b
  /\ UNCHANGED <<head, due, table, log, sending, round, crashes>>

\* An id is never used twice: the sequence moves on even when its rule is removed.
AddRule ==
  /\ nextRule \in Rules
  /\ rules' = rules \cup {nextRule}
  /\ nextRule' = nextRule + 1
  /\ UNCHANGED <<outside, log, sending, round, crashes>>

Remove(gone) ==
  /\ rules' = rules \ gone
  /\ ledger' = Without({p \in Lines : p[1] \in gone})
  /\ UNCHANGED <<outside, nextRule, log, told, lost, retired, round, crashes>>

RemoveRule == \E r \in rules : Remove({r})
Forget     == \E o \in Owners : Remove({r \in Rules : RuleOwner[r] = o})

\* A line becomes as old as the longest session (RULE_DELIVERY_RETENTION_MS).
Age(p) ==
  /\ p \in Unsent /\ ~ledger[p].old
  /\ ledger' = [ledger EXCEPT ![p].old = TRUE]
  /\ UNCHANGED <<outside, table, log, told, lost, retired, round, crashes>>

-----------------------------------------------------------------------------
(* The round: retry what is pending, *)

\* The batch is the least recently attempted; among equals the order is left open.
Oldest(S) ==
  /\ S \subseteq Unsent
  /\ Cardinality(S) = IF Cardinality(Unsent) < Batch THEN Cardinality(Unsent) ELSE Batch
  /\ \A p \in S, q \in Unsent \ S : ledger[p].last <= ledger[q].last

\* The alarm starts a round, or the cron when there is no alarm or it is late.
Beat == \E S \in SUBSET Unsent :
  /\ round.at = "idle"
  /\ Oldest(S)
  /\ round' = [Idle EXCEPT !.at = "flush", !.todo = S, !.active = {p[1] : p \in S} \cap rules]
  /\ UNCHANGED <<outside, table, log, sending, crashes>>

\* Faulty variant: a row keeps its place when it was attempted.
StampNothing(p) == ledger

\* last_attempt as a rank: p becomes the most recently attempted row, 0 is "never".
Stamp(p) ==
  LET ranks == {ledger[q].last : q \in DOMAIN ledger \ {p}} \ {0}
      rank(n) == Cardinality({m \in ranks : m <= n})
  IN [q \in DOMAIN ledger |->
        [ledger[q] EXCEPT !.last = IF q = p THEN Cardinality(ranks) + 1 ELSE rank(@)]]

Flush(p) ==
  /\ round.at = "flush" /\ p \in round.todo
  /\ IF p \in DOMAIN ledger /\ p[1] \in round.active
     THEN /\ ledger' = Stamp(p)
          /\ round' = [round EXCEPT !.at = "session", !.line = p]
     ELSE /\ ledger' = Without({p})
          /\ round' = [round EXCEPT !.todo = @ \ {p}]
  /\ UNCHANGED <<outside, table, log, told, lost, retired, crashes>>

NextLine == [round EXCEPT !.at = "flush", !.todo = @ \ {round.line}, !.line = NoLine]

\* The owner has no session in KV, or KV does not answer: an old line is retired, a young one waits.
NoSession ==
  /\ round.at = "session"
  /\ LET old == round.line \in DOMAIN ledger /\ ledger[round.line].old
     IN /\ ledger'  = IF old THEN Without({round.line}) ELSE ledger
        /\ retired' = IF old THEN retired \cup {round.line} ELSE retired
  /\ round' = NextLine
  /\ UNCHANGED <<outside, table, log, told, lost, crashes>>

\* There is a session; the rule may have gone while it was read.
Session(p) ==
  /\ round.at = "session" /\ round.line = p
  /\ IF p[1] \in rules
     THEN /\ round' = [round EXCEPT !.at = "send"]
          /\ UNCHANGED ledger
     ELSE /\ ledger' = Without({p})
          /\ round' = NextLine
  /\ UNCHANGED <<outside, table, log, told, lost, retired, crashes>>

\* Faulty variant: an accepted row goes at once.
AcceptAndDelete(p) ==
  /\ round.at = "send" /\ round.line = p
  /\ told' = [told EXCEPT ![p] = @ + 1]
  /\ ledger' = Without({p})
  /\ round' = NextLine
  /\ UNCHANGED <<outside, table, log, lost, retired, crashes>>

\* Telegram accepts and says so.  A row the cursor covers is not needed as a ledger any more.
Accept(p) ==
  /\ round.at = "send" /\ round.line = p
  /\ told' = [told EXCEPT ![p] = @ + 1]
  /\ ledger' = IF p \notin DOMAIN ledger THEN ledger
               ELSE IF Covered(p) THEN Without({p})
               ELSE [ledger EXCEPT ![p].sent = TRUE]
  /\ round' = NextLine
  /\ UNCHANGED <<outside, table, log, lost, retired, crashes>>

Refuse ==
  /\ round.at = "send"
  /\ round' = NextLine
  /\ UNCHANGED <<outside, table, log, sending, crashes>>

\* Telegram accepts, but the answer is lost or malformed.
Lose(p) ==
  /\ round.line = p /\ lost[p] < MaxLost
  /\ told' = [told EXCEPT ![p] = @ + 1]
  /\ lost' = [lost EXCEPT ![p] = @ + 1]

AnswerLost(p) ==
  /\ round.at = "send" /\ Lose(p)
  /\ round' = NextLine
  /\ UNCHANGED <<outside, table, log, ledger, retired, crashes>>

Backlog ==
  /\ round.at = "flush" /\ round.todo = {}
  /\ round' = IF Cardinality(Unsent) >= Capacity THEN Idle ELSE [Idle EXCEPT !.at = "survey"]
  /\ UNCHANGED <<outside, table, log, sending, crashes>>

-----------------------------------------------------------------------------
(* read the log from where it was left off, *)

\* stand() and retreat(): one read failed, the cursor stays.
ReadFails ==
  /\ round.at = "survey"
  /\ round' = Idle
  /\ UNCHANGED <<outside, table, log, sending, crashes>>

FirstRound ==
  /\ round.at = "survey" /\ cursor = None
  /\ cursor' = head /\ started' = head
  /\ round' = Idle
  /\ UNCHANGED <<outside, table, tail, attempts, unreadable, pruned, skipped, early, sending, crashes>>

\* Accepted rows whose launch the cursor covers retire.
Cleaned(rows, kept, upto) ==
  Restrict(rows, {p \in DOMAIN rows : ~(rows[p].sent /\ p[2] \in kept /\ Log[p[2]] <= upto)})

NothingNew ==
  /\ round.at = "survey" /\ cursor # None /\ head <= cursor
  /\ ledger' = Cleaned(ledger, tail, cursor)
  /\ round' = Idle
  /\ UNCHANGED <<outside, table, log, told, lost, retired, crashes>>

\* A range with too many launches is cut to its first block, once.
Survey ==
  LET from == cursor + 1
      far  == IF head < cursor + MaxBlocks THEN head ELSE cursor + MaxBlocks
      upto == IF Cardinality(Between(from, far)) > MaxLaunches THEN from ELSE far
  IN
  /\ round.at = "survey" /\ cursor # None /\ cursor < head
  /\ round' = IF Cardinality(Between(from, upto)) > MaxLaunches THEN Idle
              ELSE [round EXCEPT !.at = "read", !.upto = upto, !.queue = Between(from, upto)]
  /\ UNCHANGED <<outside, table, log, sending, crashes>>

\* The launches that do not answer are given up, and that is said before the others are processed.
GiveUp(bad) ==
  /\ unreadable' \in {b \in {unreadable} \cup {Log[l] : l \in bad} :
                         unreadable <= b /\ \A l \in bad : Log[l] <= b}
  /\ skipped' = (skipped \ round.queue) \cup bad
  /\ round' = [round EXCEPT !.at = "record", !.queue = @ \ bad]

\* bad: the launches that do not answer.  The whole range is read again, ReadAttempts times.
ReadLaunches == \E bad \in SUBSET round.queue :
  /\ round.at = "read"
  /\ IF bad # {} /\ attempts + 1 < ReadAttempts
     THEN attempts' = attempts + 1 /\ round' = Idle /\ UNCHANGED <<unreadable, skipped>>
     ELSE GiveUp(bad) /\ UNCHANGED attempts
  /\ UNCHANGED <<outside, table, cursor, started, tail, pruned, early, sending, crashes>>

-----------------------------------------------------------------------------
(* remember each launch and check the rules against it, *)

First(l) == l \in round.queue /\ \A m \in round.queue : l <= m

Processed(l) == [round EXCEPT !.at = "record", !.queue = @ \ {l}, !.seen = {}]

\* Faulty variant: the rules of a launch seen before are not checked again.
RecordFresh(l) ==
  /\ round.at = "record" /\ First(l)
  /\ tail' = tail \cup {l}
  /\ round' = IF l \in tail \/ rules = {} THEN Processed(l)
              ELSE [round EXCEPT !.at = "check", !.seen = rules]
  /\ UNCHANGED <<outside, table, cursor, started, attempts, unreadable, pruned, skipped, early, sending, crashes>>

\* A launch seen before is not stored again, but its rules are checked again.
Record(l) ==
  /\ round.at = "record" /\ First(l)
  /\ tail' = tail \cup {l}
  /\ LET open == {r \in rules : <<r, l>> \in DOMAIN ledger => ~ledger[<<r, l>>].sent}
     IN round' = IF open = {} THEN Processed(l) ELSE [round EXCEPT !.at = "check", !.seen = open]
  /\ UNCHANGED <<outside, table, cursor, started, attempts, unreadable, pruned, skipped, early, sending, crashes>>

\* Does the tail hold every launch after block b, up to where the watcher has read?
TailCompleteAfter(b) ==
  /\ started # None /\ started <= b
  /\ unreadable <= b
  /\ pruned <= b

Same(l)       == {m \in Launches : Ticker[m] = Ticker[l]}
Indexed(l, b) == Cardinality({m \in Same(l) : Log[m] <= b})
\* Faulty variant: the whole tail is counted.
InWholeTail(l, b) == Cardinality(Same(l) \cap tail)
InTail(l, b)  == Cardinality({m \in Same(l) \cap tail : Log[m] > b})

\* The index states a count from CountFloor on; below it, the tail alone must reach N.
Reaches(l, b, n) ==
  InTail(l, b) + (IF Indexed(l, b) >= CountFloor THEN Indexed(l, b) ELSE 0) >= n

Matches(r, l, b) ==
  IF Threshold[r] = 0 THEN <<r, l>> \in Wants
  ELSE b # None /\ TailCompleteAfter(b) /\ Reaches(l, b, Threshold[r])

NewRow == [sent |-> FALSE, last |-> 0, old |-> FALSE]

\* The rules of a set that match launch l and have no row for it yet; b is the boundary, or None.
Fresh(among, l, b) == {r \in among : Matches(r, l, b) /\ <<r, l>> \notin DOMAIN ledger}

\* The rules of a set there is room for, in the order of their ids.
Fitting(fresh) ==
  {r \in fresh : Cardinality({q \in fresh : q < r}) < Capacity - Cardinality(Unsent)}

\* At the capacity the round retreats, with what it queued so far.
Enqueue(l, fresh, queued) ==
  /\ ledger' = [p \in DOMAIN ledger \cup (queued \X {l}) |->
                  IF p \in DOMAIN ledger THEN ledger[p] ELSE NewRow]
  /\ round' = IF queued = fresh THEN Processed(l) ELSE Idle

\* The published files may be read or not.  A rule gone since it was read is passed over.
CheckRules(l) == \E b \in {snapshot, None} :
  /\ round.at = "check" /\ First(l)
  /\ LET fresh == Fresh(round.seen \cap rules, l, b) IN Enqueue(l, fresh, Fitting(fresh))
  /\ UNCHANGED <<outside, table, log, told, lost, retired, crashes>>

\* Drop old rows the snapshot covers, then move the cursor and retire accepted rows.
PruneAndCommit == \E b \in {snapshot, None}, age \in 0..MaxHead :
  LET doomed == {l \in tail : Log[l] <= b /\ Log[l] <= age}
      kept   == tail \ doomed
      rows   == Restrict(ledger, {p \in DOMAIN ledger : ~(ledger[p].sent /\ p[2] \in doomed)})
  IN
  /\ round.at = "record" /\ round.queue = {}
  /\ tail' = kept
  /\ pruned' = IF doomed = {} \/ b < pruned THEN pruned ELSE b
  /\ cursor' = round.upto
  /\ attempts' = 0
  /\ early' = early \cup {p \in DOMAIN ledger : p[2] \in doomed /\ Log[p[2]] > round.upto}
  /\ ledger' = Cleaned(rows, kept, round.upto)
  /\ round' = Idle
  /\ UNCHANGED <<outside, table, started, unreadable, skipped, told, lost, retired, crashes>>

-----------------------------------------------------------------------------
\* The isolate is evicted: the round is lost, perhaps with a message on its way.
Evict ==
  /\ round.at # "idle" /\ crashes < MaxCrashes
  /\ crashes' = crashes + 1
  /\ \/ UNCHANGED <<told, lost>>
     \/ round.at = "send" /\ \E p \in Lines : Lose(p)
  /\ round' = Idle
  /\ UNCHANGED <<outside, table, log, ledger, retired>>

Others == Mine \/ Publish \/ AddRule \/ RemoveRule \/ Forget \/ \E p \in Lines : Age(p)

Sending == \/ Beat \/ NoSession \/ Refuse \/ Backlog
           \/ \E p \in Lines : Flush(p) \/ Session(p) \/ Accept(p) \/ AnswerLost(p)

Reading == \/ ReadFails \/ FirstRound \/ NothingNew \/ Survey \/ ReadLaunches
           \/ PruneAndCommit \/ \E l \in Launches : Record(l) \/ CheckRules(l)

Next == Others \/ Sending \/ Reading \/ Evict

Spec == Init /\ [][Next]_vars

\* The lines of the holders who stay signed in.
Heard == {p \in Lines : RuleOwner[p[1]] \in SignedIn}

\* The endpoint answers again and again, and so does Telegram to a holder who stays signed in; a round does not
\* stop at an await forever; an evicted or late round is started again by the cron.
Fairness ==
  /\ WF_vars(Sending \/ Reading)
  /\ SF_vars(Survey) /\ SF_vars(FirstRound)
  /\ \A p \in Heard : SF_vars(Session(p)) /\ SF_vars(Accept(p))

FairSpec == Spec /\ Fairness

-----------------------------------------------------------------------------
(* What must hold. *)

TypeOK ==
  /\ head \in 0..MaxHead /\ snapshot \in 0..head /\ due \subseteq Wants
  /\ rules \subseteq 1..(nextRule - 1) /\ nextRule \in 1..(Len(RuleOwner) + 1)
  /\ {cursor, started, unreadable, pruned} \subseteq Nat \cup {None}
  /\ tail \subseteq Launches /\ attempts \in 0..(ReadAttempts - 1) /\ skipped \subseteq Launches
  /\ DOMAIN ledger \subseteq Lines /\ \A p \in DOMAIN ledger : ledger[p] \in Row
  /\ told \in [Lines -> Nat] /\ lost \in [Lines -> 0..MaxLost] /\ retired \subseteq Lines /\ early \subseteq Lines
  /\ round \in Rounds /\ crashes \in 0..MaxCrashes

\* A holder is told of a launch once per rule, and again only for an answer that was lost: neither a
\* range read again nor a retry repeats a line Telegram is known to have accepted ("The delivery
\* ledger prevents a replayed launch from sending twice", bot/src/watch.js:1062).  Fails: a row can be
\* pruned while its range may still be read again.
NoLineTwice == \A p \in Lines : told[p] <= 1 + lost[p]

\* What does hold: no line is sent twice except for a lost answer, or when its launch was pruned
\* before the cursor reached it.
OnceUnlessPruned == \A p \in Lines \ early : told[p] <= 1 + lost[p]

\* When the cursor has passed a launch, every rule that stood when it was mined has been served: its
\* line was sent, is pending, or was retired unsent after the longest session, unless the launch
\* could not be read or came before the watcher woke up.
NothingMissed == \A p \in due :
  (p[1] \in rules /\ started # None /\ started < Log[p[2]] /\ Log[p[2]] <= cursor /\ p[2] \notin skipped)
     => (told[p] > 0 \/ p \in DOMAIN ledger \/ p \in retired)

\* What was read so far: behind the cursor, or earlier in the running round.
ReadSoFar ==
  {l \in Launches : Log[l] <= cursor \/ (round.at \in {"record", "check"} /\ Log[l] <= round.upto /\ l \notin round.queue)}

\* When the tail claims to join a snapshot without a gap, it does: every launch read since the
\* snapshot ended is in it.  tailCompleteAfter is what a count for "shared N" and the public wall
\* rest on.
CompleteMeansComplete == \A b \in 0..MaxHead :
  TailCompleteAfter(b) => {l \in ReadSoFar : Log[l] > b} \subseteq tail

\* A line of a "shared N" rule is only queued when N launches do carry the ticker: the index and the
\* tail are never added up over the same launch.
SharedIsTrue == \A p \in DOMAIN ledger :
  Cardinality({m \in Same(p[2]) : Log[m] <= head}) >= Threshold[p[1]]

\* No pending or accepted row outlives its rule: what /unrule and /forget removed is not queued again
\* by a round that had read the rule before.
LedgerHasRule == \A p \in DOMAIN ledger : p[1] \in rules

\* An accepted row is kept exactly as long as its range can be read again.
AcceptedIsAhead == \A p \in DOMAIN ledger : ledger[p].sent => Log[p[2]] > cursor

\* A round that was under way when the capacity was reached does not exceed it.
BacklogBounded == Cardinality(Unsent) <= Capacity

\* What is queued is true, what is called complete is complete, and what waits fits.
LedgerIsTrue == CompleteMeansComplete /\ SharedIsTrue /\ BacklogBounded

\* More launches in a block than a round may read: the round over it retreats every time.
Overfull(b) == Cardinality(Between(b, b)) > MaxLaunches

\* The watcher catches up with the chain, past launches that never answer.  Two things alone hold it up: its
\* backlog is full, or the very next block is overfull, and before such a block it stands for good
\* (launch_overflow_block, bot/src/watch.js:1131).
CatchesUp == \A b \in 1..MaxHead :
  (head >= b) ~> (cursor >= b \/ Cardinality(Unsent) >= Capacity \/ Overfull(cursor + 1))

\* A pending line of a holder who stays signed in is not starved by lines of others who are not.
LiveHolderHears == \A p \in Heard : (p \in Unsent) ~> (p \notin Unsent)

\* Launches get to the watcher as far as it can read, and its lines to whoever may hear them, also while it stands.
LinesGetThrough == CatchesUp /\ LiveHolderHears
=============================================================================
