------------------------------ MODULE Archive ------------------------------
(***************************************************************************)
(* What is recorded and published, side by side: the audit log (AuditLog), *)
(* the pages the launch watch serves of its rows (PublicPages), the live   *)
(* wall and the page that shows it (Wall), and the token's page on the     *)
(* site, written by a run of activate-token (Activation), the report on    *)
(* all launches, with the guard that reads them again (Collection), and    *)
(* the counts of what launches say of themselves (IdentityCounts).         *)
(* They share no state.                                                    *)
(***************************************************************************)
EXTENDS AuditLog, Integers, Sequences, FiniteSets

CONSTANTS
  Unset,
  Launched, BlockOf, CreatorOf, LastBlock, FirstBlock, RoundBlocks, RowsPerPage, RowsListed, Requests,   \* of PublicPages
  Publishable, OldRows, Snaps, WallRows, Holes, Flights,                                            \* of Wall
  TokenAddresses, Venues, Pages, Genuine, MaxEdits, NoFile, Torn,                                        \* of Activation
  ToCollect, ChainEnd, ForkedAt, OnBranch, TokenSays, LaunchedBy, TimeOf, DayLength, WindowsAsked,    \* of Collection
  PageBlocks, AnswerLimit, CallTokens, BranchFlips, HeaderTries,
  SaidShapes, MostLaunches, LinkFields, HostOfField, HostFor, WordsEnough                                \* of IdentityCounts

\* Launches are numbered in the order of the chain, and a page has room.
ASSUME LaunchesAssumption ==
  /\ Launched \subseteq Nat /\ IsFiniteSet(Launched)
  /\ LastBlock \in Nat /\ FirstBlock \in 0 .. LastBlock /\ RoundBlocks \in Nat
  /\ BlockOf \in [Launched -> 1 .. LastBlock]
  /\ \A l, m \in Launched : l <= m => BlockOf[l] <= BlockOf[m]
  /\ RowsPerPage \in Nat /\ RowsListed \in Nat \ {0}

\* The wall shows some launches, snapshots end at blocks, and a page has room.
ASSUME WallAssumption ==
  /\ Publishable \subseteq Launched /\ OldRows \subseteq Launched
  /\ Snaps \subseteq 0 .. LastBlock /\ Holes \subseteq 0 .. LastBlock
  /\ WallRows \in Nat \ {0} /\ Flights # {}

\* What is unset is no cursor.
ASSUME UnsetAssumption ==
  Unset \notin [snapshot : Nat \cup {Unset}, from : Nat, upper : Nat, next : Nat, before : SUBSET Launched]

\* No page of the site is token.json or README.md, and a file that is gone reads like neither of them.
ASSUME FilesAssumption ==
  /\ Pages \cap {"token", "readme"} = {} /\ MaxEdits \in Nat
  /\ \A line \in TokenAddresses \cup {Unset}, edits \in SUBSET (1 .. MaxEdits) : NoFile # [line |-> line, text |-> edits]

\* The chain is in order and has a time at each block; a report is on some blocks and read at a later one; and a
\* collector's page is long enough to be halved twice.
ASSUME CollectionAssumption ==
  /\ ToCollect \subseteq Nat /\ IsFiniteSet(ToCollect)
  /\ ChainEnd \in Nat /\ ForkedAt \in Int
  /\ TimeOf \in [0 .. ChainEnd -> Nat] /\ \A b, c \in 0 .. ChainEnd : b <= c => TimeOf[b] <= TimeOf[c]
  /\ DayLength \in Nat \ {0}
  /\ \A w \in WindowsAsked : w \in (0 .. ChainEnd) \X (0 .. ChainEnd) \X (0 .. ChainEnd) /\ w[1] <= w[2] /\ w[2] <= w[3]
  /\ PageBlocks \in Nat /\ PageBlocks >= 4 /\ AnswerLimit \in Nat
  /\ CallTokens \in Nat /\ BranchFlips \in Nat /\ HeaderTries \in Nat

VARIABLES
  read, observed, tail, wall, gap, pruned, broken, round, snapshot,   \* of PublicPages
  walk, page, kept, asked, current, shown,
  board, edition, polls, browser, reader,                             \* of Wall: store, snap, flight, page, user
  disk, backups, source, text, run,                                   \* of Activation
  quirk, placed, endpoint, program, report, verdict,                  \* of Collection: rule, block, branch, run, ...
  announced, covered                                                  \* of IdentityCounts: launches, window

P == INSTANCE PublicPages WITH
       Launches <- Launched, Block <- BlockOf, Deployer <- CreatorOf, MaxBlock <- LastBlock, Started <- FirstBlock,
       Span <- RoundBlocks, PageRows <- RowsPerPage, HistoryRows <- RowsListed, Asks <- Requests, None <- Unset,
       ask <- asked

L == INSTANCE Wall WITH
       Launches <- Launched, Limit <- WallRows, Unreadable <- Holes,
       store <- board, snap <- edition, flight <- polls, page <- browser, user <- reader

T == INSTANCE Activation WITH Addresses <- TokenAddresses, None <- Unset, Missing <- NoFile

K == INSTANCE Collection WITH
       Launches <- ToCollect, Last <- ChainEnd, ForkAt <- ForkedAt, On <- OnBranch, Value <- TokenSays,
       Deployer <- LaunchedBy, Time <- TimeOf, Windows <- WindowsAsked, Chunk <- PageBlocks, Limit <- AnswerLimit,
       Batch <- CallTokens, Flips <- BranchFlips, Tries <- HeaderTries,
       rule <- quirk, block <- placed, branch <- endpoint, run <- program

N == INSTANCE IdentityCounts WITH
       Shapes <- SaidShapes, LaunchLimit <- MostLaunches, Links <- LinkFields, Platform <- HostOfField,
       Hosts <- HostFor, MinWords <- WordsEnough, Nothing <- Unset,
       launches <- announced, window <- covered

\* The link fields have an order, and what is written normalizes to something: a string that does not is Unset.
ASSUME IdentityAssumption ==
  /\ LinkFields \in Seq({LinkFields[k] : k \in DOMAIN LinkFields})
  /\ MostLaunches \in Nat
  /\ \A l \in SaidShapes :
       /\ l.ticker # Unset => N!Ticker(l.ticker) # Unset /\ N!Skeleton(N!Ticker(l.ticker)) # Unset
       /\ \A k \in DOMAIN LinkFields : l.links[k] # Unset => N!Link(l.links[k], LinkFields[k]) # Unset

pagesVars == <<read, observed, tail, wall, gap, pruned, broken, round, snapshot, walk, page, kept, asked, current, shown>>
wallVars == <<board, edition, polls, browser, reader>>
activationVars == <<disk, backups, source, text, run>>
collectionVars == <<quirk, placed, endpoint, program, report, verdict>>
countsVars == <<announced, covered>>

-----------------------------------------------------------------------------
\* PublicPages.WalkIsWhole and HistoryIsWhole: the pages of the tail, and a history on display, hold every
\* launch of the blocks they state.
PagesAreWhole == P!WalkIsWhole /\ P!HistoryIsWhole

\* Wall.ShownIsWall: a live page is the newest rows of the wall up to the block it names, a page of history a run
\* of rows without a hole.
ShownIsWall == L!ShownIsWall

\* Activation.AllOrNothing: a run that rolled back without a failure leaves the tree as it found it, any other that
\* ends by itself leaves it complete, and no edit of the README that came before the snapshot is lost.
AllOrNothing == T!AllOrNothing

\* Collection.AcceptedIsChain: a report that is accepted counts the launches of its window that could be found, as
\* they are in the branch it names.
AcceptedIsChain == K!AcceptedIsChain

\* IdentityCounts.CheckIsTrue, TailIsCollectors and RulesAreRight: what the page says of a launch, what the watcher
\* counts of its tail and what the rules make of both is what the launches hold.
CountsAreRight == N!CheckIsTrue /\ N!TailIsCollectors /\ N!RulesAreRight
=============================================================================
