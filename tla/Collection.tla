----------------------------- MODULE Collection ----------------------------
(***************************************************************************)
(* The launch collection: the collector reads the factory's log page by    *)
(* page and the identity of every token at one finalized block, and counts *)
(* them; the guard then reads everything again, in two layouts of smaller  *)
(* pages, and lets a report be published only if it finds the same.        *)
(*                                                                         *)
(* Both ask one endpoint.  It may answer every page with some launches     *)
(* missing, always by the same rule, and change its mind about the chain   *)
(* between two calls.  A launch is a number, in the order of the log.      *)
(***************************************************************************)
EXTENDS Integers, FiniteSets, FiniteSetsExt

CONSTANTS
  Launches,  \* 1 .. n
  Last,      \* the last block of the chain; the first is 0
  ForkAt,    \* the first block the two branches disagree on
  On,        \* On[f]: of the launches from the fork on, those in branch f
  Value,     \* Value[h][l]: what the token of l says at the identity state of hash h
  Deployer,  \* Deployer[l]
  Time,      \* Time[b]: timestamp of a block, never decreasing
  DayLength,
  Windows,   \* what a run may be asked for: <<from, to, state>> with from < to <= state
  Chunk,     \* blocks per page of the collector
  Limit,     \* launches an endpoint that truncates puts into one answer
  Batch,     \* tokens per aggregate3 call
  Flips,     \* how often the endpoint changes its branch
  Tries      \* of one batch of headers

Branches == {"a", "b"}
Hashes == Branches \cup {"common"}
Rules == {"none", "truncates", "drops first", "drops last"}
Blocks == 0 .. Last

VARIABLES
  rule,   \* what the endpoint leaves out, always
  block,  \* the block of each launch, the same in both branches
  branch, \* the branch the endpoint takes for the chain, and how often it changed
  run,    \* the running program: where it stands and what it has read
  report, \* build/launch-collect.json
  verdict \* of the guard on that report

vars == <<rule, block, branch, run, report, verdict>>

Idle == [at |-> "idle", from |-> 0, to |-> 0, state |-> 0, hash |-> "a", page |-> 0, logs |-> {},
         read |-> {}, tries |-> 0]
NoReport == [made |-> FALSE, from |-> 0, to |-> 0, state |-> 0, hash |-> "a", launches |-> 0, readable |-> 0, tables |-> {}]

TypeOK ==
  /\ rule \in Rules /\ block \in [Launches -> Blocks] /\ branch \in [is: Branches, left: 0 .. Flips]
  /\ run.at \in {"idle", "pages", "tokens", "after", "anchor", "aligned", "shifted", "headers", "identities",
                 "recheck", "transactions"}
  /\ verdict \in {"none", "refused", "accepted"}

\* The log is in order: a launch with a greater number is in no earlier block.
Ordered(at) == \A l, m \in Launches : l < m => at[l] <= at[m]

Init ==
  /\ rule \in Rules /\ block \in {at \in [Launches -> Blocks] : Ordered(at)}
  /\ branch = [is |-> "a", left |-> Flips]
  /\ run = Idle /\ report = NoReport /\ verdict = "none"

-----------------------------------------------------------------------------
Hash(b, f) == IF b < ForkAt THEN "common" ELSE f

\* The launches of a chain in some of its blocks.
Chain(f) == {l \in Launches : block[l] < ForkAt \/ l \in On[f]}
LaunchedIn(f, from, to) == {l \in Chain(f) : block[l] \in from .. to}

\* eth_getLogs: the launches of a page with their block hashes, but for those the rule leaves out.
Kept(all, from, to) ==
  CASE rule = "none"        -> all
    [] rule = "truncates"   -> {l \in all : Cardinality({m \in all : m < l}) < Limit}
    [] rule = "drops first" -> {l \in all : block[l] # from}
    [] rule = "drops last"  -> {l \in all : block[l] # to}
PageIn(f, from, to) == {<<l, Hash(block[l], f)>> : l \in Kept(LaunchedIn(f, from, to), from, to)}
Page(from, to) == PageIn(branch.is, from, to)

\* firstBlockAtOrAfter: bisection on the timestamps.
FirstAtOrAfter(t, from, to) ==
  LET Bisect[r \in Blocks \X Blocks] ==
        LET mid == (r[1] + r[2]) \div 2
        IN  IF r[1] >= r[2] THEN r[1] ELSE IF Time[mid] < t THEN Bisect[<<mid + 1, r[2]>>] ELSE Bisect[<<r[1], mid>>]
  IN  Bisect[<<from, to>>]

\* The date of a block, from the block each midnight of the window falls on.
Midnights(from, to) == {m \in 1 .. Time[Last] : m % DayLength = 0 /\ Time[from] <= m /\ m <= Time[to]}
DateOf(b, from, to) ==
  LET passed == {m \in Midnights(from, to) : b >= FirstAtOrAfter(m, from, to)}
  IN  IF passed = {} THEN Time[from] \div DayLength ELSE Max(passed) \div DayLength

\* Counter: of each value, how many launches, the first date and how many deployers.
Count(read, from, to) ==
  {LET rows == {r \in read : r[2] = v}
   IN  [value |-> v, n |-> Cardinality(rows), first |-> Min({DateOf(block[r[1]], from, to) : r \in rows}),
        d |-> Cardinality({Deployer[r[1]] : r \in rows})] : v \in {r[2] : r \in read}}

Tokens(logs) == {l[1] : l \in logs}
Unread == Tokens(run.logs) \ {r[1] : r \in run.read}

\* One aggregate3 call at the identity state, which a token may fail.
Answers(l) == l \in Chain(branch.is)
Says(l) == IF Answers(l) THEN Value[Hash(run.state, branch.is)][l] ELSE "unreadable"
ReadBatch ==
  LET batch == {l \in Unread : Cardinality({m \in Unread : m < l}) < Batch}
  IN  Unread # {} /\ run' = [run EXCEPT !.read = @ \cup {<<l, Says(l)>> : l \in batch}]

Stops == run' = Idle

-----------------------------------------------------------------------------
\* The collector: the window, bounded by a finalized block whose hash it keeps.
Capture(from, to, state) ==
  /\ run.at = "idle"
  /\ run' = [Idle EXCEPT !.at = "pages", !.from = from, !.to = to, !.state = state,
                         !.hash = Hash(state, branch.is), !.page = from]
  /\ UNCHANGED <<report, verdict>>

ReadLogs ==
  LET end == IF run.page + Chunk - 1 < run.to THEN run.page + Chunk - 1 ELSE run.to
  IN  /\ run.at = "pages"
      /\ run' = [run EXCEPT !.logs = @ \cup Page(run.page, end), !.page = end + 1,
                            !.at = IF end = run.to THEN "tokens" ELSE "pages"]
      /\ UNCHANGED <<report, verdict>>

ReadTokens ==
  /\ run.at = "tokens"
  /\ ReadBatch \/ (Unread = {} /\ run' = [run EXCEPT !.at = "after"])
  /\ UNCHANGED <<report, verdict>>

\* The state's hash must not have changed; then the report is written.
Report ==
  /\ run.at = "after" /\ Stops
  /\ IF Hash(run.state, branch.is) # run.hash THEN UNCHANGED <<report, verdict>>
     ELSE LET readable == {r \in run.read : r[2] # "unreadable"}
          IN  /\ report' = [made |-> TRUE, from |-> run.from, to |-> run.to, state |-> run.state, hash |-> run.hash,
                            launches |-> Cardinality(run.logs), readable |-> Cardinality(readable),
                            tables |-> Count(readable, run.from, run.to)]
              /\ verdict' = "none"

-----------------------------------------------------------------------------
Refuse == Stops /\ verdict' = "refused"
Check(ok, next) == IF ok THEN run' = [run EXCEPT !.at = next] /\ UNCHANGED verdict ELSE Refuse

\* validateCollection: the report says of itself that every launch was read.
Complete == report.readable = report.launches /\ report.launches > 0

\* The anchor: the endpoint still has the state the report names.
Anchor ==
  /\ run.at = "idle" /\ report.made /\ verdict = "none"
  /\ IF Complete /\ Hash(report.state, branch.is) = report.hash
       THEN /\ run' = [Idle EXCEPT !.at = "aligned", !.from = report.from, !.to = report.to, !.state = report.state,
                                   !.hash = report.hash, !.page = report.from]
            /\ UNCHANGED verdict
       ELSE Refuse
  /\ UNCHANGED report

Size == IF Chunk \div 2 > 1 THEN Chunk \div 2 ELSE 1
Shift == IF Size \div 2 > 1 THEN Size \div 2 ELSE 1

\* Faulty variant: the second layout is the first again.
EndUnshifted(page, width) == page + Size - 1

\* auditLogLayouts: where a page ends whose layout begins with a page of that width.
EndOf(page, width) == page + (IF page = run.from THEN width ELSE Size) - 1
PageEnd(width) == IF EndOf(run.page, width) < run.to THEN EndOf(run.page, width) ELSE run.to

\* validateLaunchLogs: the pages together are as many launches as the collector found.
Miscounts(logs, done) ==
  IF done THEN Cardinality(logs) # report.launches ELSE Cardinality(logs) > report.launches

ReadAligned ==
  LET end == PageEnd(Size)  logs == run.logs \cup Page(run.page, end)
  IN  /\ run.at = "aligned"
      /\ IF Miscounts(logs, end = run.to) THEN Refuse
         ELSE /\ run' = [run EXCEPT !.logs = logs, !.page = IF end = run.to THEN run.from ELSE end + 1,
                                    !.at = IF end = run.to THEN "shifted" ELSE "aligned"]
              /\ UNCHANGED verdict
      /\ UNCHANGED report

\* validatePartitionPage: a shifted page says of its blocks what the aligned ones said.
ReadShifted ==
  LET end == PageEnd(Shift)
  IN  /\ run.at = "shifted"
      /\ IF Page(run.page, end) # {l \in run.logs : block[l[1]] \in run.page .. end} THEN Refuse
         ELSE /\ run' = [run EXCEPT !.page = end + 1, !.at = IF end = run.to THEN "headers" ELSE "shifted"]
              /\ UNCHANGED verdict
      /\ UNCHANGED report

\* auditEventBlockHeaders: every header has the hash its launches carry; a busy endpoint is asked again.
ReadHeaders ==
  /\ run.at = "headers" /\ UNCHANGED report
  /\ \/ Check(\A l \in run.logs : l[2] = Hash(block[l[1]], branch.is), "identities")
     \/ IF run.tries < Tries THEN run' = [run EXCEPT !.tries = @ + 1] /\ UNCHANGED verdict ELSE Refuse

\* decodeAuditBatch refuses a batch with a token that cannot be read.
ReadIdentities ==
  /\ run.at = "identities" /\ UNCHANGED report
  /\ IF Unread = {} THEN Check(TRUE, "recheck")
     ELSE IF \E l \in Unread : ~Answers(l) THEN Refuse
     ELSE ReadBatch /\ UNCHANGED verdict

Recheck == run.at = "recheck" /\ Check(Hash(run.state, branch.is) = run.hash, "transactions") /\ UNCHANGED report

\* validateSemanticAudit: the tables counted again are those of the report.
Agrees == Count(run.read, run.from, run.to) = report.tables

\* transactionParams: the transaction of a launch is in the block the launch names.
InItsBlock(l) == Answers(l[1]) /\ l[2] = Hash(block[l[1]], branch.is)

\* auditTransactions reads the transactions of a sample, the first launch among it: every fiftieth, or all in smoke.
JudgeReport ==
  /\ run.at = "transactions" /\ Stops /\ UNCHANGED report
  /\ \E sample \in SUBSET run.logs :
       /\ \A l \in run.logs : (\A k \in run.logs : l[1] <= k[1]) => l \in sample
       /\ verdict' = IF Agrees /\ \A l \in sample : InItsBlock(l) THEN "accepted" ELSE "refused"

\* Any call may fail for good, and the program with it.
CallFails == run # Idle /\ Stops /\ UNCHANGED <<report, verdict>>

Flip ==
  /\ branch.left > 0
  /\ branch' = [is |-> IF branch.is = "a" THEN "b" ELSE "a", left |-> branch.left - 1]
  /\ UNCHANGED <<rule, block, run, report, verdict>>

-----------------------------------------------------------------------------
Works ==
  /\ \/ \E w \in Windows : Capture(w[1], w[2], w[3])
     \/ ReadLogs \/ ReadTokens \/ Report
     \/ Anchor \/ ReadAligned \/ ReadShifted \/ ReadHeaders \/ ReadIdentities \/ Recheck \/ JudgeReport \/ CallFails
  /\ UNCHANGED <<rule, block, branch>>

Next == Works \/ Flip

Spec == Init /\ [][Next]_vars

-----------------------------------------------------------------------------
\* What the report should say: the launches of its window in the branch its state belongs to.
Branch == IF report.hash = "common" THEN "a" ELSE report.hash
InWindow == LaunchedIn(Branch, report.from, report.to)
Reference(launches) ==
  {LET those == {l \in launches : Value[report.hash][l] = v}
   IN  [value |-> v, n |-> Cardinality(those), first |-> Min({Time[block[l]] \div DayLength : l \in those}),
        d |-> Cardinality({Deployer[l] : l \in those})] : v \in {Value[report.hash][l] : l \in launches}}

\* The blocks that a page of one layout has in common with one of the other, at most.
Overlap == Size - Shift

\* A launch the second reading cannot miss: it is not at an end of the window, and no more launches than
\* the endpoint truncates to come with it within the blocks two pages share.
Findable(l) ==
  CASE rule = "none"        -> TRUE
    [] rule = "truncates"   -> \A b \in Blocks : Cardinality({m \in InWindow : block[m] \in b .. (b + Overlap - 1)}) <= Limit
    [] rule = "drops first" -> block[l] # report.from
    [] rule = "drops last"  -> block[l] # report.to

\* A report the guard accepts counts every launch of its window that could be found, each with the
\* value, date and deployer it has in the branch of the recorded state, and no other: whatever the
\* endpoint leaves out by its rule, and though it changes its branch once while the two programs run.
AcceptedIsChain ==
  verdict = "accepted" =>
    \E counted \in SUBSET InWindow :
      /\ {l \in InWindow : Findable(l)} \subseteq counted
      /\ report.tables = Reference(counted)
=============================================================================
