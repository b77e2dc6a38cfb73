---------------------------- MODULE SourceTrades ---------------------------
(***************************************************************************)
(* The observer of a source wallet: it is handed blocks, one at a time and *)
(* in whatever order its feed produces them, keeps the hash it last saw at *)
(* every height, and turns the wallet's trades into events that go from    *)
(* PROVISIONAL to CONFIRMED to FINALIZED, or are RETRACTED with the block  *)
(* they stood in.                                                          *)
(*                                                                         *)
(* The network is a tree of blocks and a tip that moves about in it.       *)
(***************************************************************************)
EXTENDS Naturals

CONSTANTS
  Hashes,    \* the blocks that will ever exist
  Height,    \* Height[b]: its number
  Parent,    \* Parent[b]: the block it stands on, None at height 0
  Sent,      \* Sent[b]: the transactions of the source wallet in it
  Trades,    \* the transactions of the source wallet
  Copyable,  \* those the adapter can read as one trade of the wallet
  None

VARIABLES
  tip,       \* the network's newest block
  made,      \* the blocks made so far, those of chains it has left included
  safe,      \* the height below which its blocks stay
  quiet,     \* the network keeps the tip it has, and no provider hands over blocks it has left
  canonical, \* Observer.canonical: the hash last accepted at each height
  cursor,    \* Observer.cursor
  events     \* Observer.events: the state of each trade and the block it was seen in

vars == <<tip, made, safe, quiet, canonical, cursor, events>>

Heights == {Height[b] : b \in Hashes}
States  == {"UNSEEN", "PROVISIONAL", "CONFIRMED", "FINALIZED", "RETRACTED"}

\* The block b and all it stands on: what every set has that holds b and the parent of each of its own.
Chain[b \in Hashes] ==
  {c \in Hashes : \A H \in SUBSET Hashes :
     b \in H /\ (\A x \in H : Parent[x] # None => Parent[x] \in H) => c \in H}

Live(t) == events[t].state \notin {"UNSEEN", "RETRACTED"}

TypeOK ==
  /\ tip \in Hashes /\ made \subseteq Hashes /\ safe \in Heights /\ quiet \in BOOLEAN
  /\ canonical \in [Heights -> Hashes \cup {None}]
  /\ cursor \in Hashes \cup {None}
  /\ events \in [Trades -> [state: States, block: Hashes \cup {None}]]

Init ==
  /\ tip \in {b \in Hashes : Parent[b] = None}
  /\ made = {tip}
  /\ safe = 0
  /\ quiet = FALSE
  /\ canonical = [n \in Heights |-> None]
  /\ cursor = None
  /\ events = [t \in Trades |-> [state |-> "UNSEEN", block |-> None]]

-----------------------------------------------------------------------------
(***************************************************************************)
(* The network.                                                            *)
(***************************************************************************)
Grow ==
  /\ ~quiet
  /\ tip' \in {b \in Hashes : Height[b] >= Height[tip]} \ {tip}
  /\ {b \in Chain[tip] : Height[b] <= safe} \subseteq Chain[tip']
  /\ made' = made \cup Chain[tip']
  /\ UNCHANGED <<safe, quiet, canonical, cursor, events>>

Settle ==
  /\ safe < Height[tip]
  /\ safe' = safe + 1
  /\ UNCHANGED <<tip, made, quiet, canonical, cursor, events>>

Rest ==
  /\ quiet' = TRUE
  /\ UNCHANGED <<tip, made, safe, canonical, cursor, events>>

-----------------------------------------------------------------------------
(***************************************************************************)
(* The observer.                                                           *)
(***************************************************************************)

\* The trades read from the receipts of block r that are kept for block b.
Decoded(b, r) == IF r = b THEN Sent[b] \cap Copyable ELSE {}

\* Faulty variant: only the event of that very height is retracted.
RetractedAt(n) ==
  [t \in Trades |-> IF Live(t) /\ Height[events[t].block] = n
                      THEN [events[t] EXCEPT !.state = "RETRACTED"] ELSE events[t]]

RetractedFrom(n) ==
  [t \in Trades |-> IF Live(t) /\ Height[events[t].block] >= n
                      THEN [events[t] EXCEPT !.state = "RETRACTED"] ELSE events[t]]

Observed(seen, b, trades) ==
  [t \in Trades |-> IF t \in trades /\ seen[t].state \in {"UNSEEN", "RETRACTED"}
                      THEN [state |-> "PROVISIONAL", block |-> b] ELSE seen[t]]

\* Faulty variant: a block below the cursor is out of order as well.
HaltsBelow(at, b) == at # None /\ (Height[b] # Height[at] + 1 \/ Parent[b] # at)

\* A gap, or a parent that is not the block of the cursor.
Halts(at, b) ==
  /\ at # None
  /\ \/ Height[b] > Height[at] + 1
     \/ Height[b] = Height[at] + 1 /\ Parent[b] # at

IngestLatest(b, r) ==
  LET n       == Height[b]
      changed == canonical[n] \notin {None, b}
      seen    == IF changed THEN RetractedFrom(n) ELSE events
      kept    == [m \in Heights |-> IF changed /\ m >= n THEN None ELSE canonical[m]]
      at      == IF changed /\ cursor # None /\ Height[cursor] >= n THEN None ELSE cursor
  IN  /\ IF Halts(at, b)
           THEN canonical' = kept /\ cursor' = at /\ events' = seen
           ELSE /\ canonical' = [kept EXCEPT ![n] = b]
                /\ cursor' = IF at = None \/ n >= Height[at] THEN b ELSE at
                /\ events' = Observed(seen, b, Decoded(b, r))
      /\ UNCHANGED <<tip, made, safe, quiet>>

\* The feed answers with any block of the present chain, or of one the network has left.
Feed == \E b, r \in (IF quiet THEN Chain[tip] ELSE made) : Height[r] = Height[b] /\ IngestLatest(b, r)

Advance(n, from, to) ==
  /\ events' = [t \in Trades |->
       IF /\ events[t].state = from
          /\ Height[events[t].block] <= n
          /\ canonical[Height[events[t].block]] = events[t].block
         THEN [events[t] EXCEPT !.state = to] ELSE events[t]]
  /\ UNCHANGED <<tip, made, safe, quiet, canonical, cursor>>

MarkSafe      == \E n \in 0 .. safe : Advance(n, "PROVISIONAL", "CONFIRMED")
MarkFinalized == \E n \in 0 .. safe : Advance(n, "CONFIRMED", "FINALIZED")

-----------------------------------------------------------------------------
Next == Grow \/ Settle \/ Rest \/ Feed \/ MarkSafe \/ MarkFinalized

\* The feed gets to every block of the present chain, with its own receipts, again and again.
Fairness == \A b \in Hashes : WF_vars(b \in Chain[tip] /\ IngestLatest(b, b))

Spec     == Init /\ [][Next]_vars
FairSpec == Spec /\ Fairness

-----------------------------------------------------------------------------
\* Whatever is shown as seen, confirmed or final stands in the block the observer holds to be
\* canonical at that height: a replaced block takes its own trades and all later ones with it.
LiveIsCanonical ==
  \A t \in Trades : Live(t) => canonical[Height[events[t].block]] = events[t].block

\* Once the network stays where it is and no provider hands over blocks it has left, every
\* copyable trade of its chain becomes an event and remains one: no order of blocks, no gap and
\* no reorganisation leaves the observer halted for good.
TradesAreSeen ==
  <>[]quiet => <>[](\A b \in Chain[tip] : \A t \in Sent[b] \cap Copyable : Live(t))
=============================================================================
