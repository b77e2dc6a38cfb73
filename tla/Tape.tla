-------------------------------- MODULE Tape -------------------------------
(***************************************************************************)
(* The feed of the bot: one object that posts every buy of the token to    *)
(* the room and counts its sells.  A round first tries one waiting line;   *)
(* with none left it reads the blocks after its cursor, queues and records *)
(* their buys and moves the cursor.  A watchdog starts a feed that stopped *)
(* and leaves a notice of the gap among the lines.  One round or watchdog  *)
(* runs at a time, and the object may die at every await.                  *)
(*                                                                         *)
(* backlog is the waiting lines in the order in which they are tried: a    *)
(* line that was tried goes behind the others (last_attempt).              *)
(***************************************************************************)
EXTENDS Integers, Sequences, FiniteSets, SequencesExt, Ordered

CONSTANTS
  Trades,    \* the transfers between wallets and the venue, numbered in the order of the chain
  Block,     \* Block[t]: the finalized block it is in
  Buyer,     \* Buyer[t]: the wallet that bought, or Seller when it is a sell
  Seller,
  Refused,   \* buys whose line Telegram refuses whenever it is tried
  MaxHead,   \* bound on blocks
  MaxBlocks, MaxLogs,
  WindowLimit, \* DELIVERY_WINDOW_LIMIT
  Notice

Heads == 0 .. MaxHead
Buys == {t \in Trades : Buyer[t] # Seller}
Unread == -1

VARIABLES
  head,    \* the finalized head of the chain
  cursor,  \* last_block
  start,   \* started_block
  queued,  \* buy_delivery: the buys that have a row, and whether it says "for the first time"
  backlog, \* its unsent rows, and the notice
  rows,    \* buys
  counts,  \* kv: buys, sells and the buys of each wallet
  taken,   \* attempts in this delivery window
  pc,      \* what runs: "idle", "tick" or "watchdog", and where it stands
  alarm,
  late,    \* whether the last chain read is longer ago than the watchdog allows, and whether that was said
  posted   \* history: the lines that reached the room

vars == <<head, cursor, start, queued, backlog, rows, counts, taken, pc, alarm, late, posted>>
feed == <<cursor, start, queued, rows, counts>>

Lines == Buys \cup {Notice}
Wallets == {Buyer[b] : b \in Buys}
Idle == [who |-> "idle", at |-> "none", line |-> Notice, left |-> <<>>, to |-> 0, sells |-> 0]

TypeOK ==
  /\ head \in Heads /\ cursor \in Heads \cup {Unread} /\ start \in Heads \cup {Unread}
  /\ DOMAIN queued \subseteq Buys /\ rows \subseteq Buys /\ Range(backlog) \subseteq Lines /\ IsInjective(backlog)
  /\ counts.buys \in Nat /\ counts.sells \in Nat /\ counts.of \in [Wallets -> Nat]
  /\ taken \in 0 .. WindowLimit /\ alarm \in BOOLEAN
  /\ pc.who \in {"idle", "tick", "watchdog"} /\ pc.at \in {"none", "sending", "read", "record"}

Init ==
  /\ head = 0 /\ cursor = Unread /\ start = Unread
  /\ queued = <<>> /\ backlog = <<>> /\ rows = {}
  /\ counts = [buys |-> 0, sells |-> 0, of |-> [w \in Wallets |-> 0]]
  /\ taken = 0 /\ pc = Idle /\ alarm = FALSE
  /\ late = [is |-> FALSE, said |-> TRUE] /\ posted = {}

-----------------------------------------------------------------------------
HeadMoves == head + 1 \in Heads /\ head' = head + 1 /\ UNCHANGED <<feed, backlog, taken, pc, alarm, late, posted>>

WindowRolls == taken > 0 /\ taken' = 0 /\ UNCHANGED <<head, feed, backlog, pc, alarm, late, posted>>

TimePasses ==
  /\ ~late.is /\ cursor # Unread /\ late' = [is |-> TRUE, said |-> FALSE]
  /\ UNCHANGED <<head, feed, backlog, taken, pc, alarm, posted>>

\* schedule and retreat leave the next alarm behind.
Ends == pc' = Idle /\ alarm' = TRUE

\* Faulty variants: a replayed buy is counted again; a line that was tried stays in front.
RecordedAgain(b) ==
  counts' = [counts EXCEPT !.buys = @ + 1, !.of[Buyer[b]] = @ + 1] /\ rows' = rows \cup {b}
StaysInFront(waiting) == waiting

\* record: a buy is counted with its row, once.
Record(b) ==
  IF b \in rows THEN UNCHANGED <<rows, counts>>
  ELSE counts' = [counts EXCEPT !.buys = @ + 1, !.of[Buyer[b]] = @ + 1] /\ rows' = rows \cup {b}

GoesBehind(waiting) == Append(Tail(waiting), Head(waiting))

\* The end of flushDeliveries: the round goes on when nothing waits and nothing failed.
AfterFlush(waiting, ok) ==
  IF pc.who = "tick" /\ waiting = <<>> /\ ok THEN pc' = [pc EXCEPT !.at = "read"] /\ UNCHANGED alarm ELSE Ends

\* Rows of finished ranges that were sent are forgotten.
Keep(q, waiting) == [b \in {x \in DOMAIN q : Block[x] > cursor \/ x \in Range(waiting)} |-> q[b]]

\* flushDeliveries up to its send: the line is noted as tried, and a row ahead of the cursor is
\* recorded if it is not yet.
Flush(who, waiting) ==
  IF waiting = <<>> THEN
    /\ pc' = IF who = "tick" THEN [Idle EXCEPT !.who = who, !.at = "read"] ELSE Idle
    /\ alarm' = IF who = "tick" THEN FALSE ELSE TRUE
    /\ UNCHANGED <<backlog, rows, counts, taken>>
  ELSE IF taken = WindowLimit THEN
    Ends /\ backlog' = waiting /\ UNCHANGED <<rows, counts, taken>>
  ELSE
    /\ taken' = taken + 1 /\ backlog' = GoesBehind(waiting)
    /\ IF Head(waiting) # Notice /\ Block[Head(waiting)] > cursor THEN Record(Head(waiting)) ELSE UNCHANGED <<rows, counts>>
    /\ pc' = [Idle EXCEPT !.who = who, !.at = "sending", !.line = Head(waiting)]
    /\ alarm' = IF who = "tick" THEN FALSE ELSE alarm

\* The alarm rings, or the watchdog's /tick is asked for.
Tick ==
  /\ pc = Idle /\ alarm
  /\ Flush("tick", backlog)
  /\ UNCHANGED <<head, cursor, start, queued, late, posted>>

\* watchdogOnce: nothing while a round was made in time and the next is set.
Watchdog ==
  /\ pc = Idle
  /\ ~alarm \/ late.is \/ cursor = Unread
  /\ late' = [late EXCEPT !.said = TRUE]
  /\ LET said == cursor # Unread /\ ~late.said /\ Notice \notin Range(backlog)
     IN  Flush("watchdog", IF said THEN <<Notice>> \o backlog ELSE backlog)
  /\ UNCHANGED <<head, cursor, start, queued, posted>>

\* deliver: the answer of Telegram, which may be lost after it was posted.
Sent(answer) ==
  LET x == pc.line
      rest == IF answer = "accepted" THEN RemoveAt(backlog, CHOOSE i \in DOMAIN backlog : backlog[i] = x) ELSE backlog
  IN  /\ pc.at = "sending" /\ (x \in Refused => answer = "refused")
      /\ backlog' = rest
      /\ queued' = Keep(queued, rest)
      /\ \E reached \in IF answer = "lost" THEN BOOLEAN ELSE {answer = "accepted"} :
           posted' = IF reached THEN posted \cup {x} ELSE posted
      /\ AfterFlush(rest, answer = "accepted")
      /\ UNCHANGED <<head, cursor, start, rows, counts, taken, late>>

\* The site, the chain id, the venue, the head or the logs cannot be read.
ReadFails == pc.at = "read" /\ Ends /\ UNCHANGED <<head, feed, backlog, taken, late, posted>>

\* The first round starts at the head it finds.
FirstRead ==
  /\ pc.at = "read" /\ cursor = Unread
  /\ cursor' = head /\ start' = head /\ Ends
  /\ late' = [is |-> FALSE, said |-> FALSE]
  /\ UNCHANGED <<head, queued, backlog, rows, counts, taken, posted>>

Within(from, to) == {t \in Trades : Block[t] \in from .. to}
Overflows(from, to) == Cardinality(Within(from, to)) > MaxLogs

\* The last block of the page: the whole range, or its first block when that has too many logs.
PageEnd(from, to) == IF Overflows(from, to) THEN from ELSE to

\* transfersAround: the trades of a page, in chain order.
ReadPage ==
  /\ pc.at = "read" /\ cursor # Unread
  /\ \E seen \in {h \in Heads : h <= head} :
       LET from == cursor + 1
           to   == PageEnd(from, IF seen < from + MaxBlocks - 1 THEN seen ELSE from + MaxBlocks - 1)
           page == Within(from, to)
       IN  IF seen < from THEN Ends /\ late' = [is |-> FALSE, said |-> FALSE]
           ELSE IF Overflows(from, to) THEN Ends /\ UNCHANGED late
           ELSE /\ pc' = [pc EXCEPT !.at = "record", !.to = to, !.sells = Cardinality(page \ Buys),
                                    !.left = InOrder(page \cap Buys)]
                /\ UNCHANGED <<alarm, late>>
  /\ UNCHANGED <<head, feed, backlog, taken, posted>>

\* queueDelivery: the line is worded before the wallet is counted, and never again.
QueueDelivery ==
  LET b == Head(pc.left)
  IN  /\ pc.at = "record" /\ pc.left # <<>> /\ b \notin DOMAIN queued
      /\ queued' = [x \in DOMAIN queued \cup {b} |-> IF x = b THEN counts.of[Buyer[b]] = 0 ELSE queued[x]]
      /\ backlog' = Append(backlog, b)
      /\ UNCHANGED <<head, cursor, start, rows, counts, taken, pc, alarm, late, posted>>

RecordBuy ==
  LET b == Head(pc.left)
  IN  /\ pc.at = "record" /\ pc.left # <<>> /\ b \in DOMAIN queued
      /\ Record(b) /\ pc' = [pc EXCEPT !.left = Tail(@)]
      /\ UNCHANGED <<head, cursor, start, queued, backlog, taken, alarm, late, posted>>

\* The sells, the cursor and the clean-up go together.
Commit ==
  /\ pc.at = "record" /\ pc.left = <<>>
  /\ counts' = [counts EXCEPT !.sells = @ + pc.sells]
  /\ cursor' = pc.to
  /\ queued' = [b \in {x \in DOMAIN queued : Block[x] > pc.to \/ x \in Range(backlog)} |-> queued[b]]
  /\ rows' = {b \in rows : Block[b] > pc.to}
  /\ late' = [is |-> FALSE, said |-> FALSE] /\ Ends
  /\ UNCHANGED <<head, start, backlog, taken, posted>>

\* The object dies: what was written stays, and the alarm of the round may be gone.
Die ==
  /\ pc # Idle /\ pc' = Idle /\ UNCHANGED <<head, feed, backlog, taken, alarm, late, posted>>

-----------------------------------------------------------------------------
Next ==
  \/ HeadMoves \/ WindowRolls \/ TimePasses \/ Tick \/ Watchdog
  \/ \E answer \in {"accepted", "refused", "lost"} : Sent(answer)
  \/ ReadFails \/ FirstRead \/ ReadPage \/ QueueDelivery \/ RecordBuy \/ Commit \/ Die

Spec == Init /\ [][Next]_vars

\* The object is not killed for ever, cron keeps calling, the endpoint and Telegram answer again and
\* again, and a delivery window passes.
Fairness ==
  /\ WF_vars(HeadMoves) /\ WF_vars(WindowRolls) /\ WF_vars(Watchdog) /\ WF_vars(Tick) /\ WF_vars(ReadFails)
  /\ SF_vars(FirstRead \/ QueueDelivery) /\ SF_vars(ReadPage /\ (pc'.at = "record" \/ pc.at = "record"))
  /\ SF_vars(RecordBuy) /\ SF_vars(Commit)
  /\ WF_vars(\E answer \in {"accepted", "refused", "lost"} : Sent(answer))
  /\ \A x \in Lines : SF_vars(pc.line = x /\ Sent("accepted"))

FairSpec == Spec /\ Fairness

-----------------------------------------------------------------------------
Covered == {t \in Trades : start < Block[t] /\ Block[t] <= cursor}
Counted == (Covered \cap Buys) \cup rows

\* Whatever died or was replayed, the counts are those of the blocks read, every buy in them has its
\* line said or waiting, and "for the first time" is said of the first buy of a wallet and no other.
FeedIsTrue ==
  /\ counts.buys = Cardinality(Counted) /\ counts.sells = Cardinality(Covered \ Buys)
  /\ \A w \in Wallets : counts.of[w] = Cardinality({b \in Counted : Buyer[b] = w})
  /\ \A b \in Covered \cap Buys : b \in posted \cup Range(backlog)
  /\ \A b \in DOMAIN queued :
       LET others == {c \in Counted \ {b} : Buyer[c] = Buyer[b]}
       IN  IF queued[b] THEN \A c \in others : c > b ELSE \E c \in others : c < b

\* Every buy after the feed went up is said in the room in the end.  A line that Telegram never
\* takes holds up the blocks after its own, but no buy of the blocks already read.
Due(b) == start # Unread /\ start < Block[b] /\ Block[b] <= head

BuysAreHeard ==
  <>[](\A b \in Buys \ Refused :
         b \in Covered \/ (Due(b) /\ \A c \in Refused : Block[c] > Block[b]) => b \in posted)
=============================================================================
