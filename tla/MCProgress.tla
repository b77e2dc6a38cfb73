------------------------------ MODULE MCProgress -----------------------------
(***************************************************************************)
(* The parts that must get on: the observer of a source wallet, the        *)
(* scheduled pass of the copy service, Telegram updates, the tape of buys, *)
(* the gate in front of the RPC endpoint, and the gates of an automatic    *)
(* buy.  They share no state here, so TLC explores their instances one     *)
(* after the other: part says whose behaviours these are, never changes,   *)
(* and the other parts stand still.                                        *)
(***************************************************************************)
EXTENDS Intake, TLC

CONSTANTS
  u1, w1, a1, a2,                   \* BuyGates
  g0, l1, l2, r1, r2, t1, t2,       \* SourceTrades: two branches on g0, two trades
  c1, c2, c3                        \* RpcGate

OneUser   == {u1}
OneWallet == u1 :> w1
TwoAdmins == {a1, a2}
TheirAsks == {[what |-> "GLOBAL", act |-> "RESUME"], [what |-> u1, act |-> "PAUSE"],
              [what |-> u1, act |-> "RESUME"]}

\* t1 is in both branches, at another height in each; t2 is no trade the adapter can read.
TwoBranches == {g0, l1, l2, r1, r2}
TheirHeight == g0 :> 0 @@ l1 :> 1 @@ l2 :> 2 @@ r1 :> 1 @@ r2 :> 2
TheirParent == g0 :> NoBlock @@ l1 :> g0 @@ l2 :> l1 @@ r1 :> g0 @@ r2 :> r1
TheirTrades == g0 :> {} @@ l1 :> {t1} @@ l2 :> {} @@ r1 :> {} @@ r2 :> {t1, t2}
TwoTrades   == {t1, t2}
OneReadable == {t1}

\* One update with two actions, two requests.
OneUpdate   == {"u1"}
ItIsMetered == [u \in OneUpdate |-> "metered"]
TwoActions  == [u \in OneUpdate |-> <<"message", "photo">>]
TwoWordings == {"v", "w"}
TwoHandlers == {"q1", "q2"}

\* Three buys and a sell; Telegram never takes the line of the second, which is in the same block as those
\* after it.
FourTrades == 1 .. 4
TheirBlock == <<1, 2, 2, 2>>
TheirBuyer == <<"w1", "w1", "w2", Seller>>
LineOfTwo  == {2}

VARIABLES
  part,
  state, pass,
  gate, backoff, call

P == INSTANCE ScheduledPass WITH
       Intents <- 1 .. 4, Stuck <- {1}, Limit <- 2, Passes <- {"p1"}

G == INSTANCE RpcGate WITH
       Calls <- {c1, c2, c3}, Logs <- {c3}, InFlight <- 2, MaxRetries <- 1, Spacing <- 1, LogsSpacing <- 2,
       Cooldown <- 1, MaxCooldown <- 4

passVars   == <<state, pass>>
gateVars   == <<gate, backoff, call>>

MCvars == <<part, vars, sourceVars, passVars, updateVars, tapeVars, gateVars>>

MCInit ==
  /\ part \in {"gates", "source", "pass", "updates", "tape", "gate"}
  /\ Init /\ S!Init /\ P!Init /\ U!Init /\ T!Init /\ G!Init

Alone ==
  /\ UNCHANGED part
  /\ IF part = "gates" THEN TRUE ELSE UNCHANGED vars
  /\ IF part = "source" THEN TRUE ELSE UNCHANGED sourceVars
  /\ IF part = "pass" THEN TRUE ELSE UNCHANGED passVars
  /\ IF part = "updates" THEN TRUE ELSE UNCHANGED updateVars
  /\ IF part = "tape" THEN TRUE ELSE UNCHANGED tapeVars
  /\ IF part = "gate" THEN TRUE ELSE UNCHANGED gateVars

MCNext ==
  /\ \/ part = "gates" /\ Next
     \/ part = "source" /\ S!Next
     \/ part = "pass" /\ P!Next
     \/ part = "updates" /\ U!Next
     \/ part = "tape" /\ T!Next
     \/ part = "gate" /\ G!Next
  /\ Alone

-----------------------------------------------------------------------------
(* The fairness of the parts, taken together: as part never changes, the   *)
(* k-th condition is the k-th of the part that runs.  An action of the     *)
(* disjunction is one of that part's own Fairness.                         *)

Weakly(k) ==
  /\ \/ part = "source" /\ k = 1 /\ g0 \in S!Chain[tip] /\ S!IngestLatest(g0, g0)
     \/ part = "source" /\ k = 2 /\ l1 \in S!Chain[tip] /\ S!IngestLatest(l1, l1)
     \/ part = "source" /\ k = 3 /\ l2 \in S!Chain[tip] /\ S!IngestLatest(l2, l2)
     \/ part = "source" /\ k = 4 /\ r1 \in S!Chain[tip] /\ S!IngestLatest(r1, r1)
     \/ part = "source" /\ k = 5 /\ r2 \in S!Chain[tip] /\ S!IngestLatest(r2, r2)
     \/ part = "pass" /\ k = 1 /\ P!Step("p1")
     \/ part = "updates" /\ k = 1 /\ U!Tick
     \/ part = "updates" /\ k = 2 /\ U!BucketExpires
     \/ part = "updates" /\ k = 3 /\ (U!Goes("q1") \/ U!Die("q1"))
     \/ part = "updates" /\ k = 4 /\ (U!Goes("q2") \/ U!Die("q2"))
     \/ part = "tape" /\ k = 1 /\ T!HeadMoves
     \/ part = "tape" /\ k = 2 /\ T!WindowRolls
     \/ part = "tape" /\ k = 3 /\ T!Watchdog
     \/ part = "tape" /\ k = 4 /\ T!Tick
     \/ part = "tape" /\ k = 5 /\ T!ReadFails
     \/ part = "tape" /\ k = 6 /\ \E answer \in {"accepted", "refused", "lost"} : T!Sent(answer)
     \/ part = "gate" /\ k = 1 /\ G!Tick
     \/ part = "gate" /\ k = 2 /\ G!Fire
     \/ part = "gate" /\ k = 3 /\ (G!Resolve(c1) \/ G!Reject(c1) \/ G!Fails(c1))
     \/ part = "gate" /\ k = 4 /\ (G!Resolve(c2) \/ G!Reject(c2) \/ G!Fails(c2))
     \/ part = "gate" /\ k = 5 /\ (G!Resolve(c3) \/ G!Reject(c3) \/ G!Fails(c3))
  /\ Alone

Strongly(k) ==
  /\ \/ part = "pass" /\ k \in 1 .. 4 /\ (P!Expire("p1", k) \/ P!Reconcile("p1", k)) /\ state'[k] = "done"
     \/ part = "updates" /\ k = 1 /\ \E q \in {"q1", "q2"} : U!Post(q, "u1")
     \/ part = "updates" /\ k = 2 /\ \E q \in {"q1", "q2"} : U!Render(q) /\ req'[q].at = "store"
     \/ part = "updates" /\ k = 3 /\ \E q \in {"q1", "q2"} : U!Store(q) /\ ledger' # ledger
     \/ part = "updates" /\ k = 4 /\ \E q \in {"q1", "q2"} : U!ClaimAction(q) /\ ledger' # ledger
     \/ part = "updates" /\ k = 5 /\ \E q \in {"q1", "q2"} : U!Send(q, "accepted")
     \/ part = "updates" /\ k = 6 /\ \E q \in {"q1", "q2"} : U!Advance(q)
     \/ part = "tape" /\ k = 1 /\ (T!FirstRead \/ T!QueueDelivery)
     \/ part = "tape" /\ k = 2 /\ T!ReadPage /\ (pc'.at = "record" \/ pc.at = "record")
     \/ part = "tape" /\ k = 3 /\ T!RecordBuy
     \/ part = "tape" /\ k = 4 /\ T!Commit
     \/ part = "tape" /\ k = 5 /\ pc.line = 1 /\ T!Sent("accepted")
     \/ part = "tape" /\ k = 6 /\ pc.line = 3 /\ T!Sent("accepted")
     \/ part = "tape" /\ k = 7 /\ pc.line = Notice /\ T!Sent("accepted")
  /\ Alone

MCSpec ==
  /\ MCInit /\ [][MCNext]_MCvars
  /\ \A k \in 1 .. 6 : WF_MCvars(Weakly(k))
  /\ \A k \in 1 .. 7 : SF_MCvars(Strongly(k))

-----------------------------------------------------------------------------
(* Properties: those of the parts, under the names they have there.        *)
TradesAreSeen   == S!TradesAreSeen
PassesSettle    == P!PassesSettle
IsAnswered      == U!IsAnswered
BuysAreHeard    == T!BuysAreHeard
CallsSettle     == G!CallsSettle
=============================================================================
