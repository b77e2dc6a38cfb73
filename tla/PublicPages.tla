----------------------------- MODULE PublicPages -----------------------------
(***************************************************************************)
(* What the launch watch publishes of the rows it keeps: the tail, handed  *)
(* out in bounded pages that chain to one another, and the history of one  *)
(* deployer, read by the page of the site.  Every await of a handler is a  *)
(* step of its own: a round may write, prune or skip between two of them.  *)
(* Launches, Block and Deployer are the chain; a page cursor is opaque and *)
(* carries the commitment of the pages before it, here the rows they held. *)
(***************************************************************************)
EXTENDS Integers, FiniteSets, FiniteSetsExt

CONSTANTS Launches, Block, Deployer, MaxBlock, Started, Span, PageRows, HistoryRows, Asks, None

VARIABLES
  read, observed,        \* last_block, observed_finalized
  tail, wall,            \* the rows of tail and of wall_event
  gap, pruned, broken,   \* last_unreadable_block, wall_pruned_through, wall_index_error_block (0: none)
  round,                 \* the launches the round in progress has still to record, up to which block
  snapshot,              \* where the published index ends
  walk, page,            \* the verifier's request, and the last page it was given
  kept,                  \* the page the object keeps
  ask, current, shown    \* the site's requests for a history, its latest one, what it shows

rows  == <<read, observed, tail, wall, gap, pruned, broken, round, snapshot>>
walks == <<walk, page, kept>>
asks  == <<ask, current, shown>>
vars  == <<rows, walks, asks>>

Resting == [todo |-> {}, upto |-> 0]
NoWalk  == [at |-> "idle", cursor |-> None, stamp |-> None, body |-> None]
NoAsk   == [at |-> "idle", address |-> None, stamp |-> None, body |-> None]
In(S, a, b) == {l \in S : a <= Block[l] /\ Block[l] <= b}
OnChain(a, b) == In(Launches, a, b)
Newest(S, n) == {l \in S : Cardinality({m \in S : m > l}) < n}

TypeOK ==
  /\ read \in 0 .. MaxBlock /\ observed \in 0 .. MaxBlock
  /\ tail \subseteq Launches /\ wall \subseteq Launches /\ round.todo \subseteq Launches
  /\ gap <= read + Span /\ broken <= MaxBlock /\ pruned <= MaxBlock /\ snapshot \in (1 .. MaxBlock) \cup {None}
  /\ current \in Asks \cup {None}

Init ==
  /\ read = Started /\ observed = Started /\ tail = {} /\ wall = {} /\ gap = 0 /\ pruned = 0 /\ broken = 0
  /\ round = Resting /\ snapshot = None
  /\ walk = NoWalk /\ page = None /\ kept = None
  /\ ask = [a \in Asks |-> NoAsk] /\ current = None /\ shown = None

-----------------------------------------------------------------------------
(* The watcher.                                                            *)

\* The published index reaches further.
Publish ==
  /\ \E b \in (IF snapshot = None THEN 1 ELSE snapshot + 1)..MaxBlock : snapshot' = b
  /\ UNCHANGED <<read, observed, tail, wall, gap, pruned, broken, round, walks, asks>>

\* A round reads the finalized head, which another endpoint may report lower than before, and the
\* launches up to it; those that do not read after the last attempt are counted and left out.
Begin(head) ==
  LET upto == Min({head, read + Span})
      list == OnChain(read + 1, upto)
  IN  /\ round = Resting
      /\ observed' = head
      /\ IF head <= read
           THEN UNCHANGED <<gap, round>>
           ELSE \E bad \in SUBSET list :
                  /\ gap' = Max({gap} \cup {Block[l] : l \in bad})
                  /\ round' = [todo |-> list \ bad, upto |-> upto]
      /\ UNCHANGED <<read, tail, wall, pruned, broken, snapshot, walks, asks>>

\* record: the row and its place on the wall, or a block the index cannot represent.
Record(l) ==
  /\ l \in round.todo /\ \A m \in round.todo : l <= m
  /\ round' = [round EXCEPT !.todo = @ \ {l}]
  /\ IF l \in tail
       THEN UNCHANGED <<tail, wall, broken>>
       ELSE \/ /\ tail' = tail \cup {l} /\ wall' = wall \cup {l} /\ UNCHANGED broken
            \/ /\ broken' = Block[l] /\ tail' \in {tail, tail \cup {l}} /\ UNCHANGED wall
  /\ UNCHANGED <<read, observed, gap, pruned, snapshot, walks, asks>>

\* The round retreats, or the object restarts: the rows written stay, the cursor does not move.
Retreat == /\ round # Resting /\ round' = Resting
           /\ UNCHANGED <<read, observed, tail, wall, gap, pruned, broken, snapshot, walks, asks>>

\* prune, with the boundary the published numbers give, and the cursor after it.
Commit ==
  \E age \in 0..MaxBlock, b \in {snapshot, None} :
    LET doomed == IF b = None THEN {} ELSE In(tail, 0, Min({age, b}))
    IN  /\ round # Resting /\ round.todo = {}
        /\ tail' = tail \ doomed /\ wall' = wall \ doomed
        /\ pruned' = IF doomed = {} THEN pruned ELSE Max({pruned, b})
        /\ read' = round.upto
        /\ round' = Resting
        /\ kept' = None
        /\ UNCHANGED <<observed, gap, broken, snapshot, walk, page, asks>>

-----------------------------------------------------------------------------
(* GET /api/tail.                                                          *)

TailStamp == <<read, gap, pruned, broken>>
CoverageFrom == Max({Started + 1, gap + 1, pruned + 1, broken + 1})

\* Where a page with this cursor starts, and whether the object still stands behind the cursor.
Position(cursor) == IF cursor = None
                      THEN [from |-> CoverageFrom, upper |-> read, before |-> {}]
                      ELSE [from |-> cursor.next, upper |-> cursor.upper, before |-> cursor.before]
Stands(cursor, s) ==
  \/ cursor = None
  \/ /\ cursor.snapshot = s /\ cursor.from = CoverageFrom
     /\ cursor.upper <= read /\ cursor.next >= CoverageFrom /\ cursor.next <= cursor.upper

\* The last block of the page: before the block of the first row that does not fit.
\* Faulty variant: up to and with the block of that row.
PageToAndWith(from, upper) ==
  LET S == In(tail, from, upper)
      over == {l \in S : Cardinality({m \in S : m < l}) >= PageRows}
  IN  IF over = {} THEN upper ELSE Block[Min(over)]
PageTo(from, upper) ==
  LET S == In(tail, from, upper)
      over == {l \in S : Cardinality({m \in S : m < l}) >= PageRows}
  IN  IF over = {} THEN upper ELSE Block[Min(over)] - 1

Page(cursor, s) ==
  LET at == Position(cursor)
      to == PageTo(at.from, at.upper)
      held == In(tail, at.from, to)
      more == at.from <= at.upper /\ to < at.upper
  IN  [from |-> at.from, to |-> to, upper |-> at.upper, coverage |-> CoverageFrom,
       total |-> Cardinality(In(tail, CoverageFrom, at.upper)),
       launches |-> Newest(held, PageRows), before |-> at.before,
       next |-> IF more
                  THEN [snapshot |-> s, from |-> CoverageFrom, upper |-> at.upper, next |-> to + 1,
                        before |-> at.before \cup held]
                  ELSE None]

\* A page that may be refused: the state is one the object cannot describe, or one block fills a page.
Unreadable == gap > read \/ pruned > read \/ broken > read
Full(cursor) == LET at == Position(cursor) IN at.from <= at.upper /\ PageTo(at.from, at.upper) < at.from

\* The reader starts over after reset_required, and asks the same page again after any other refusal.
Refused(reset) == /\ walk' = [NoWalk EXCEPT !.cursor = IF reset THEN None ELSE walk.cursor]
                  /\ UNCHANGED <<page, kept>>
Given(body) == /\ walk' = [NoWalk EXCEPT !.cursor = body.next]
               /\ page' = body

\* A page asked for a moment ago, of the same state, is handed out again.
FromKept == /\ walk.at = "idle" /\ kept # None /\ kept.key = walk.cursor /\ kept.stamp = TailStamp
            /\ Given(kept.body) /\ UNCHANGED <<kept, rows, asks>>
AskTail  == /\ walk.at = "idle" /\ walk' = [walk EXCEPT !.at = "numbers"]
            /\ UNCHANGED <<page, kept, rows, asks>>

\* The state is stamped and the rows are read once the published numbers are known.
ReadTail == \E s \in {snapshot, None} :
  /\ walk.at = "numbers"
  /\ IF Unreadable THEN Refused(FALSE)
     ELSE IF ~Stands(walk.cursor, s) \/ (walk.cursor # None /\ CoverageFrom > walk.cursor.upper) THEN Refused(TRUE)
     ELSE IF Full(walk.cursor) THEN Refused(FALSE)
     ELSE /\ walk' = [walk EXCEPT !.at = "hashed", !.stamp = TailStamp, !.body = Page(walk.cursor, s)]
          /\ UNCHANGED <<page, kept>>
  /\ UNCHANGED <<rows, asks>>

\* The hashes are made; nothing is handed out of a state that has changed meanwhile.
GiveTail ==
  /\ walk.at = "hashed"
  /\ IF walk.stamp # TailStamp
       THEN Refused(FALSE)
       ELSE /\ kept' = [key |-> walk.cursor, stamp |-> walk.stamp, body |-> walk.body]
            /\ Given(walk.body)
  /\ UNCHANGED <<rows, asks>>

\* The reader's deadline, a body it cannot read, or a reader who begins again.
DropTail == \E again \in BOOLEAN : walk # NoWalk /\ Refused(again) /\ UNCHANGED <<rows, asks>>

-----------------------------------------------------------------------------
(* GET /api/deployer, and the page that shows its answer.                  *)

HistoryStamp == <<read, observed, pruned, gap, broken>>
Boundary == Max({Started, pruned})

HistoryReady == read = observed /\ Boundary <= read /\ gap <= Boundary /\ broken <= Boundary

\* The launches of one deployer in the retained range, counted whole, the newest of them listed.
History(d) ==
  LET all == {l \in tail : Deployer[l] = d /\ Block[l] > Boundary}
  IN  [address |-> d, from |-> Boundary + 1, to |-> read, seen |-> Cardinality(all), launches |-> Newest(all, HistoryRows)]

\* What the page displays only if it holds: validSuccess.
Valid(body) == \A l \in body.launches : body.from <= Block[l] /\ Block[l] <= body.to
Failed(a) == /\ ask' = [ask EXCEPT ![a] = NoAsk] /\ shown' = None /\ UNCHANGED current

\* A submit aborts the request before it, unless its answer is already being digested.
Submit(a, d) ==
  /\ ask[a] = NoAsk
  /\ ask' = [b \in Asks |-> IF b = a THEN [NoAsk EXCEPT !.at = "sent", !.address = d]
                            ELSE IF ask[b].at = "digest" THEN ask[b] ELSE NoAsk]
  /\ current' = a /\ shown' = None
  /\ UNCHANGED <<rows, walks>>

ReadHistory(a) ==
  /\ ask[a].at = "sent"
  /\ IF HistoryReady /\ \A l \in tail \ wall : Deployer[l] # ask[a].address \/ Block[l] <= Boundary
       THEN /\ ask' = [ask EXCEPT ![a].at = "hashed", ![a].stamp = HistoryStamp, ![a].body = History(ask[a].address)]
            /\ UNCHANGED <<current, shown>>
       ELSE Failed(a)
  /\ UNCHANGED <<rows, walks>>

\* The answer leaves the object if the state is the one it was read from, and the page checks its shape.
Receive(a) ==
  /\ ask[a].at = "hashed"
  /\ IF ask[a].stamp = HistoryStamp /\ Valid(ask[a].body)
       THEN ask' = [ask EXCEPT ![a].at = "digest"] /\ UNCHANGED <<current, shown>>
       ELSE Failed(a)
  /\ UNCHANGED <<rows, walks>>

\* The digest of the rows agrees: they are displayed, whichever request is the latest.
Show(a) ==
  /\ ask[a].at = "digest"
  /\ shown' = ask[a].body
  /\ ask' = [ask EXCEPT ![a] = NoAsk]
  /\ current' = IF current = a THEN None ELSE current
  /\ UNCHANGED <<rows, walks>>

\* Rate limits, a stale watcher, a network failure.
Deny(a) == ask[a] # NoAsk /\ Failed(a) /\ UNCHANGED <<rows, walks>>

-----------------------------------------------------------------------------
Watcher == Publish \/ Retreat \/ Commit \/ (\E l \in Launches : Record(l)) \/ (\E h \in Started..MaxBlock : Begin(h))
Tails   == FromKept \/ AskTail \/ ReadTail \/ GiveTail \/ DropTail
Histories == \E a \in Asks : ReadHistory(a) \/ Receive(a) \/ Show(a) \/ Deny(a) \/ \E l \in Launches : Submit(a, Deployer[l])

Next == Watcher \/ Tails \/ Histories
Spec == Init /\ [][Next]_vars

-----------------------------------------------------------------------------
\* A page of the tail holds exactly the launches of its range of blocks, so that the collector rebuilds
\* it, and the pages of one chain, once there is no next one, hold every launch of the range
\* the first page stated, however many rounds, gaps and prunes came between two pages
\* (Watch.tail, verify-tail.mjs).
WalkIsWhole ==
  page # None =>
    /\ page.launches = OnChain(page.from, page.to)
    /\ page.next = None => /\ page.before \cup page.launches = OnChain(page.coverage, page.upper)
                           /\ Cardinality(page.before \cup page.launches) = page.total

\* A history on display counts every launch of its deployer in the blocks it states and lists the
\* newest of them: nothing of a round that was not committed, nothing missing before it
\* (Watch.deployerHistory, site/deployer/deployer.js).
HistoryIsWhole ==
  shown # None =>
    LET all == {l \in OnChain(shown.from, shown.to) : Deployer[l] = shown.address}
    IN  shown.seen = Cardinality(all) /\ shown.launches = Newest(all, HistoryRows)
=============================================================================
