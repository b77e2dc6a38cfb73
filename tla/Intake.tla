------------------------------- MODULE Intake ------------------------------
(***************************************************************************)
(* What comes in from outside and must be judged before it is acted upon:  *)
(* an automatic buy at its gates (BuyGates), the blocks in which a source  *)
(* wallet trades (SourceTrades), the updates Telegram posts (Updates), and *)
(* the trades of the token, from which the feed is made (Tape).  They      *)
(* share no state.                                                         *)
(***************************************************************************)
EXTENDS BuyGates, Integers, Sequences

CONSTANTS
  Hashes, HeightOf, ParentOf, Carried, Traded, Readable, NoBlock,    \* of SourceTrades
  UpdateIds, ClassOf, ActionsOf, Wordings, Handlers, RenderLease,   \* of Updates
  PlacesAWindow, Nobody,
  Transfers, BlockAt, BuyerAt, Seller, Untold, MaxHead, MaxBlocks, MaxLogs, LinesAWindow, Notice   \* of Tape

\* Blocks have numbers, and NoBlock is none of them.
ASSUME BlocksAssumption == HeightOf \in [Hashes -> Nat] /\ NoBlock \notin Hashes
\* A lease lasts, an update has a list of actions, there is something to say, and Nobody is no request.
ASSUME UpdatesAssumption ==
  /\ RenderLease \in Nat \ {0} /\ Nobody \notin Handlers
  /\ UpdateIds # {} /\ Wordings # {}
  /\ ActionsOf \in [UpdateIds -> Seq({"message", "photo", "callback"})]
\* Trades are numbered in the order of the chain, a range has blocks, and the notice is no trade.
ASSUME TradesAssumption ==
  /\ Transfers \subseteq Nat /\ IsFiniteSet(Transfers) /\ Notice \notin Transfers
  /\ MaxHead \in Nat /\ BlockAt \in [Transfers -> Nat]
  /\ \A t, o \in Transfers : t <= o => BlockAt[t] <= BlockAt[o]
  /\ MaxBlocks \in Nat \ {0} /\ LinesAWindow \in Nat

VARIABLES
  tip, made, safe, quiet, canonical, observed, events,     \* of SourceTrades
  ledger, places, req, answered, changed, sent, said,      \* of Updates, with its taken and posted
  head, cursor, start, queued, backlog, rows, counts, taken, pc, alarm, late, posted   \* of Tape

S == INSTANCE SourceTrades WITH
       Height <- HeightOf, Parent <- ParentOf, Sent <- Carried, Trades <- Traded, Copyable <- Readable,
       None <- NoBlock, cursor <- observed

U == INSTANCE Updates WITH
       Ids <- UpdateIds, Class <- ClassOf, Actions <- ActionsOf, Words <- Wordings, Requests <- Handlers,
       LeaseMs <- RenderLease, Limit <- PlacesAWindow, taken <- places, posted <- sent

T == INSTANCE Tape WITH
       Trades <- Transfers, Block <- BlockAt, Buyer <- BuyerAt, Refused <- Untold, WindowLimit <- LinesAWindow

sourceVars == <<tip, made, safe, quiet, canonical, observed, events>>
updateVars == <<ledger, places, req, answered, changed, sent, said>>
tapeVars == <<head, cursor, start, queued, backlog, rows, counts, taken, pc, alarm, late, posted>>

-----------------------------------------------------------------------------
\* SourceTrades.LiveIsCanonical: what is shown stands in the block the observer holds to be canonical.
LiveIsCanonical == S!LiveIsCanonical

\* Updates.AnsweredOnce: an update changes things once, posts each message once, and says one thing.
AnsweredOnce == U!AnsweredOnce

\* Tape.FeedIsTrue: the counts are those of the blocks read, every buy in them has its line said or waiting,
\* and "for the first time" is said of the first buy of a wallet and no other.
FeedIsTrue == T!FeedIsTrue
=============================================================================
