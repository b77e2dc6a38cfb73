-------------------------------- MODULE Wall --------------------------------
(***************************************************************************)
(* The live wall: the Watch object answers with the newest declarations    *)
(* after the published snapshot, with a page before a cursor, or with what *)
(* came after one; the page in the browser polls it, checks the hashes and *)
(* shows one bounded page.                                                 *)
(*                                                                         *)
(* The object's reading and hashing, and the page's hashing, are awaits    *)
(* anything may happen in: a round of the watcher, a new snapshot, a click.*)
(* A launch is a number in the order of the factory's log; a hash is the   *)
(* sequence it is taken of.                                                *)
(***************************************************************************)
EXTENDS Integers, Sequences, FiniteSets, Ordered

CONSTANTS
  Launches,     \* 1 .. n
  BlockOf,      \* BlockOf[l], never decreasing
  Publishable,  \* launches with a name and a ticker that can be shown
  OldRows,      \* launches stored before positions were
  LastBlock,    \* bound on blocks
  Snaps,        \* where a published snapshot may end; 0 at first
  Limit,        \* rows of a page
  Unreadable,   \* blocks with a launch nobody can read
  Flights       \* requests at a time; a bound

Blocks == 0 .. LastBlock
None == [stage |-> "none"]
NoCursor == [role |-> "none", snap |-> 0, at |-> 0]
NoPage == [mode |-> "none", snap |-> -1, older |-> NoCursor, live |-> NoCursor, rows |-> <<>>, to |-> 0, why |-> "",
           mixed |-> FALSE]

VARIABLES
  store,  \* the object: its position, the head it saw and what ends its coverage
  snap,   \* the published snapshot's last block
  flight, \* of each slot, a request and how far it came
  page,   \* what the browser holds and shows; mixed is of the model only: its last delta was compared with another page
  user    \* whether updates are paused, whether the tab is hidden, whether a poll is due

vars == <<store, snap, flight, page, user>>

TypeOK ==
  /\ store \in [at: Blocks, head: Blocks, hole: Blocks, pruned: Blocks, bare: SUBSET Launches]
  /\ snap \in Blocks
  /\ \A f \in Flights : flight[f].stage \in {"none", "asked", "boundary", "read", "cut", "hashing", "comparing"}
  /\ page.mode \in {"none", "live", "history"} /\ page.rows \in Seq(Launches)
  /\ user \in [paused: BOOLEAN, hidden: BOOLEAN, due: BOOLEAN]

-----------------------------------------------------------------------------
\* The object: which rows it would show.
Between(from, to) == {l \in Publishable : from < BlockOf[l] /\ BlockOf[l] <= to}
Rows(from, to) == InOrder(Between(from, to))
Newest(rows) == IF Len(rows) > Limit THEN SubSeq(rows, Len(rows) - Limit + 1, Len(rows)) ELSE rows

\* Rows written by an older version get their position now, a page of them at a time.
Missing(s) == {l \in store.bare : BlockOf[l] > s}
Migrated(s) == {l \in Missing(s) : Cardinality({m \in Missing(s) : m < l}) < Limit}

\* A cursor belongs to one snapshot, and a live one to the suffix after it.
FitsLive(c, s) == c.role = "live" /\ c.snap = s /\ s < c.at /\ c.at <= store.at
FitsHistory(c, s) == c.role = "history" /\ c.snap = s /\ c.at > 0 /\ s < BlockOf[c.at] /\ BlockOf[c.at] <= store.at

Refusal(mode, c, s) ==
  CASE store.at < s -> "behind"
    [] store.at # store.head -> "backlog"
    [] s < store.pruned -> "snapshot_regressed"
    [] s < store.hole -> "unreadable"
    [] Missing(s) \ Migrated(s) # {} -> "migrating"
    [] mode = "before" /\ ~FitsHistory(c, s) -> "cursor"
    [] mode = "after" /\ ~FitsLive(c, s) -> "reset_required"
    [] mode = "after" /\ Len(Rows(c.at, store.at)) > Limit -> "reset_required"
    [] OTHER -> ""

Live(s) == [role |-> "live", snap |-> s, at |-> store.at]
Older(all, s) == IF Len(all) > Limit THEN [role |-> "history", snap |-> s, at |-> Newest(all)[1]] ELSE NoCursor

Body(mode, c, s) ==
  LET all == Rows(s, store.at)
      before == InOrder({l \in Between(s, store.at) : l < c.at})
  IN  CASE mode = "latest" -> [mode |-> mode, snap |-> s, to |-> store.at, older |-> Older(all, s), live |-> Live(s),
                               rows |-> Newest(all), view |-> Newest(all)]
        [] mode = "before" -> [mode |-> mode, snap |-> s, to |-> store.at, older |-> Older(before, s), live |-> NoCursor,
                               rows |-> Newest(before), view |-> Newest(before)]
        [] mode = "after"  -> [mode |-> mode, snap |-> s, to |-> store.at, older |-> NoCursor, live |-> Live(s),
                               rows |-> Rows(c.at, store.at), view |-> Newest(all)]

\* The snapshot is read first; the rows, at once, after that.
ReadBoundary(f) ==
  /\ flight[f].stage = "asked"
  /\ flight' = [flight EXCEPT ![f].stage = "boundary", ![f].snap = snap]
  /\ UNCHANGED <<store, snap, page, user>>

ReadRows(f) ==
  /\ flight[f].stage = "boundary"
  /\ LET s == flight[f].snap
         why == Refusal(flight[f].mode, flight[f].cursor, s)
         usable == store.at = store.head /\ store.at >= s /\ s >= store.pruned /\ s >= store.hole
     IN  /\ store' = IF usable THEN [store EXCEPT !.bare = @ \ Migrated(s)] ELSE store
         /\ flight' = [flight EXCEPT ![f].stage = "read", ![f].why = why,
                         ![f].body = IF why = "" THEN Body(flight[f].mode, flight[f].cursor, s) ELSE [mode |-> "none"]]
  /\ UNCHANGED <<snap, page, user>>

\* Every page that is being hashed learns that the state moved.
Moved == [f \in Flights |-> IF flight[f].stage = "read" THEN [flight[f] EXCEPT !.moved = TRUE] ELSE flight[f]]

Round ==
  /\ \E at \in store.at .. LastBlock, head \in Blocks :
       /\ at <= head /\ store.head <= head
       /\ LET gaps == {b \in Unreadable : store.at < b /\ b <= at}
          IN  store' = [store EXCEPT !.at = at, !.head = head, !.hole = IF gaps = {} THEN @ ELSE CHOOSE b \in gaps : \A o \in gaps : o <= b]
  /\ flight' = Moved /\ UNCHANGED <<snap, page, user>>

Prune ==
  /\ snap > store.pruned /\ snap <= store.at /\ store' = [store EXCEPT !.pruned = snap]
  /\ flight' = Moved /\ UNCHANGED <<snap, page, user>>

Publish(b) == b # snap /\ snap' = b /\ UNCHANGED <<store, flight, page, user>>

-----------------------------------------------------------------------------
\* The page in the browser.
InAccept(f) == flight[f].stage \in {"hashing", "comparing"}

\* cancel: the request is aborted.  One that waits for its answer is gone; one whose answer is being read at that
\* moment (reading) is cut off, and the page will take it for an answer that is none; and an answer that has been
\* read does not notice.
Cancelled(reading) ==
  [f \in Flights |-> IF flight[f].stage = "none" \/ ~flight[f].current THEN flight[f]
                     ELSE IF InAccept(f) THEN [flight[f] EXCEPT !.current = FALSE]
                     ELSE IF flight[f].stage = "read" /\ reading
                       THEN [flight[f] EXCEPT !.stage = "cut", !.current = FALSE]
                     ELSE None]
\* request = null, without the abort.
Disowned(fl) == [f \in Flights |-> IF fl[f].stage = "none" THEN fl[f] ELSE [fl[f] EXCEPT !.current = FALSE]]

Asked(fl, mode, cursor) ==
  LET free == CHOOSE f \in Flights : fl[f].stage = "none"
  IN  [fl EXCEPT ![free] = [stage |-> "asked", mode |-> mode, cursor |-> cursor, snap |-> 0, why |-> "", body |-> [mode |-> "none"],
                            moved |-> FALSE, current |-> TRUE, view |-> <<>>, base |-> NoPage]]
HasRoom(fl) == \E f \in Flights : fl[f].stage = "none"

\* requestPage, after the request before it was cancelled or disowned.
Request(fl, mode, cursor) ==
  /\ HasRoom(fl) /\ flight' = Asked(fl, mode, cursor)
  /\ user' = [user EXCEPT !.due = FALSE]

\* newest: the page forgets its place before it asks.
Forgotten == [page EXCEPT !.mode = "none", !.snap = -1, !.live = NoCursor]
Failed(why) == [NoPage EXCEPT !.why = why]

\* finally: only the request the page still holds sets the timer.
Polls(f, mode) == flight[f].current /\ mode = "live" /\ ~user.paused /\ ~user.hidden

Ends(f, after) ==
  /\ page' = after /\ flight' = [flight EXCEPT ![f] = None]
  /\ user' = [user EXCEPT !.due = @ \/ Polls(f, after.mode)]

\* A reset drops the page's request, whichever it is, and asks for the newest page.
Resets(f) == Request(Disowned([flight EXCEPT ![f] = None]), "latest", NoCursor) /\ UNCHANGED page

\* Hashing took the object time as well: a state that moved meanwhile refuses the page.
Outcome(f) == IF flight[f].why = "" /\ flight[f].moved THEN "state_changed" ELSE flight[f].why

Arrive(f) ==
  /\ flight[f].stage = "read"
  /\ \/ /\ Outcome(f) = ""
        /\ flight' = [flight EXCEPT ![f].stage = "hashing"] /\ UNCHANGED <<page, user>>
     \/ Outcome(f) = "reset_required" /\ Resets(f)
     \/ Outcome(f) \notin {"", "reset_required"} /\ Ends(f, Failed(Outcome(f)))
  /\ UNCHANGED <<store, snap>>

\* The site cannot be reached, its watcher is late, or its answer is no page or was cut off: all show a failure,
\* the last one over whatever the page has come to since.
Unanswered(f) ==
  /\ flight[f].stage \in {"asked", "boundary", "read", "cut"}
  /\ Ends(f, Failed("network")) /\ UNCHANGED <<store, snap>>

Shown(body) == [mode |-> IF body.mode = "before" THEN "history" ELSE "live", snap |-> body.snap, older |-> body.older,
                live |-> body.live, rows |-> body.rows, to |-> body.to, why |-> "", mixed |-> FALSE]

\* accept, once the rows' hash is known: a page takes the place of the old one, a delta waits for the
\* hash of the page it would make.
Hashed(f) ==
  LET body == flight[f].body
  IN  /\ flight[f].stage = "hashing"
      /\ IF body.mode # "latest" /\ page.snap # body.snap THEN Resets(f)
         ELSE IF body.mode = "after" /\ page.mode # "live" THEN Resets(f)
         ELSE IF body.mode = "after"
           THEN /\ flight' = [flight EXCEPT ![f].stage = "comparing", ![f].view = Newest(page.rows \o body.rows),
                                            ![f].base = page]
                /\ UNCHANGED <<page, user>>
         ELSE /\ page' = Shown(body) /\ flight' = [flight EXCEPT ![f] = None]
              /\ user' = [user EXCEPT !.paused = @ \/ body.mode = "before", !.due = @ \/ Polls(f, Shown(body).mode)]
      /\ UNCHANGED <<store, snap>>

\* Faulty variant: the page keeps every row it was ever given.
AppendedAll(body, base) ==
  [page EXCEPT !.rows = @ \o body.rows, !.live = body.live, !.to = body.to, !.why = "", !.mixed = page # base]

\* appendDelta: to the rows there are by now, of which nobody asks whether they are those it was compared with.
Appended(body, base) ==
  [page EXCEPT !.rows = Newest(@ \o body.rows), !.live = body.live, !.to = body.to, !.why = "", !.mixed = page # base]

Compared(f) ==
  /\ flight[f].stage = "comparing"
  /\ Ends(f, IF flight[f].view = flight[f].body.view THEN Appended(flight[f].body, flight[f].base) ELSE Failed("invalid"))
  /\ UNCHANGED <<store, snap>>

\* refresh, when the timer fires.
Poll ==
  /\ user.due /\ ~user.paused /\ ~user.hidden
  /\ \E reading \in BOOLEAN :
       IF page.live # NoCursor THEN Request(Cancelled(reading), "after", page.live)
       ELSE Request(Cancelled(reading), "latest", NoCursor)
  /\ UNCHANGED <<store, snap, page>>

\* newest, with what else the click changes.
AskNewest(clicked) ==
  /\ \E reading \in BOOLEAN :
       HasRoom(Cancelled(reading)) /\ flight' = Asked(Cancelled(reading), "latest", NoCursor)
  /\ page' = Forgotten /\ user' = [clicked EXCEPT !.due = FALSE]

\* The buttons, and the tab.
Pause ==
  /\ ~user.paused /\ user' = [user EXCEPT !.paused = TRUE, !.due = FALSE]
  /\ \E reading \in BOOLEAN : flight' = Cancelled(reading)
  /\ UNCHANGED <<store, snap, page>>
Resume == user.paused /\ AskNewest([user EXCEPT !.paused = FALSE]) /\ UNCHANGED <<store, snap>>
LoadOlder ==
  /\ page.older # NoCursor /\ user' = [user EXCEPT !.paused = TRUE, !.due = FALSE]
  /\ \E reading \in BOOLEAN :
       HasRoom(Cancelled(reading)) /\ flight' = Asked(Cancelled(reading), "before", page.older)
  /\ UNCHANGED <<store, snap, page>>
Retry == page.why # "" /\ AskNewest([user EXCEPT !.paused = FALSE]) /\ UNCHANGED <<store, snap>>
Hide ==
  /\ ~user.hidden /\ user' = [user EXCEPT !.hidden = TRUE, !.due = FALSE]
  /\ \E reading \in BOOLEAN : flight' = Cancelled(reading)
  /\ UNCHANGED <<store, snap, page>>
Show ==
  /\ user.hidden
  /\ IF user.paused THEN user' = [user EXCEPT !.hidden = FALSE] /\ UNCHANGED <<flight, page>>
     ELSE AskNewest([user EXCEPT !.hidden = FALSE])
  /\ UNCHANGED <<store, snap>>

-----------------------------------------------------------------------------
Init ==
  /\ store = [at |-> 0, head |-> 0, hole |-> 0, pruned |-> 0, bare |-> OldRows]
  /\ snap = 0
  /\ flight = Asked([f \in Flights |-> None], "latest", NoCursor)
  /\ page = NoPage /\ user = [paused |-> FALSE, hidden |-> FALSE, due |-> FALSE]

Serves(f) == ReadBoundary(f) \/ ReadRows(f)
Accepts(f) == Arrive(f) \/ Hashed(f) \/ Compared(f)
Clicks == Pause \/ Resume \/ LoadOlder \/ Retry \/ Hide \/ Show

Next ==
  \/ \E f \in Flights : Serves(f) \/ Accepts(f) \/ Unanswered(f)
  \/ Round \/ Prune \/ (\E b \in Snaps : Publish(b))
  \/ Poll \/ Clicks

Spec == Init /\ [][Next]_vars

-----------------------------------------------------------------------------
\* A live page is the newest rows of the wall up to the block it names, none missing, none twice and
\* none from before its snapshot; a page of history is a run of rows without a hole.  The exception is a page that
\* another answer, a failure or a click changed between the comparison of a delta and its addition: the delta is
\* added all the same.  It is no exception any more when the next answer is shown: that is a page of its own, or a
\* delta that was compared with the very rows on display and makes the wall of them, or a failure.
ShownIsWall ==
  /\ page.mode = "live" /\ ~page.mixed => page.rows = Newest(Rows(page.snap, page.to))
  /\ page.mode = "history" /\ ~page.mixed =>
       page.rows = Newest(InOrder({l \in Between(page.snap, page.to) : page.rows # <<>> /\ l <= page.rows[Len(page.rows)]}))

\* A page that stopped over rows an older version stored says that it "will retry without showing a partial
\* page"; one that is not paused or hidden then has a request under way or a poll due.
MigrationIsRetried ==
  page.why = "migrating" /\ ~user.paused /\ ~user.hidden => user.due \/ \E f \in Flights : flight[f].stage # "none"
=============================================================================
