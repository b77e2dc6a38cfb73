---------------------------- MODULE MCComponents ----------------------------
(***************************************************************************)
(* Small instances of the components that are checked for safety only.     *)
(* They share no state here, so TLC explores them one after the other:     *)
(* part says whose behaviours these are and never changes.                 *)
(***************************************************************************)
EXTENDS Archive, Handovers, Trading, Surfaces, TLC

CONSTANTS
  r1, r2, r3, r4,                                \* the runtimes of AuditLog
  a1, a2, b1, b2, c1, c2, d1, d2,                \* orders, users, calls, marks, ...: see parts_safety.cfg
  Nil

Four == {r1, r2, r3, r4}
Two  == {r1, r2}

CopyRule ==
  [policy |-> "SOURCE_RATIO", value |-> 5000, perTrade |-> 20, perDay |-> 50, slippage |-> 100, impact |-> 10000, minSource |-> 2]

SubmissionExpiry == a1 :> 2 @@ a2 :> 4
OrderAmount      == a1 :> 2 @@ a2 :> 1
SellAmount       == a1 :> 2 @@ a2 :> 2
FillTrader       == b1 :> a2 @@ b2 :> a2
FillSecond       == b1 :> 1 @@ b2 :> 2
FillFee          == b1 :> 10 @@ b2 :> 10
BuyerRule        == a1 :> CopyRule
CurveAtFirst     == [quote |-> 50, token |-> 200, live |-> TRUE]
LimitChoices     == {[perTrade |-> 20, daily |-> 30, slippage |-> 100], [perTrade |-> 20, daily |-> 20, slippage |-> 2000]}
WalletTokens     == b1 :> 2 @@ b2 :> 1
LaunchBlocks     == 1 :> 2 @@ 2 :> 3 @@ 3 :> 3
LaunchCreators   == 1 :> "d" @@ 2 :> "e" @@ 3 :> "d"
AfterTheFork     == "a" :> {1, 2, 3} @@ "b" :> {1, 2}
SaidAtState      == "a" :> <<"v", "v", "v">> @@ "b" :> <<"v", "w", "w">> @@ "common" :> <<"v", "w", "v">>
CreatedBy        == <<"x", "y", "y">>
BlockTimes       == [n \in 0 .. 5 |-> n + 3]
ReportsAskedFor  == {<<0, 5, 5>>, <<0, 2, 2>>}

-----------------------------------------------------------------------------
\* A ticker or a link as it is written: two spellings of one handle, a link that names the same
\* account, and a lookalike.
Written(form, host, word, shape, cased, around) ==
  [form |-> form, host |-> host, word |-> word, shape |-> shape, cased |-> cased, around |-> around]
Bob     == Written("handle", Nil, "bob", "bob", TRUE, "@")
LinkBob == Written("web", "twitter.com", "bob", "bob", FALSE, "https")
ZeroBob == Written("handle", Nil, "b0b", "bob", FALSE, "$")
CashBob == Written("handle", Nil, "bob", "bob", FALSE, "$")

Shape(by, links, recipient, words, ticker) ==
  [by |-> by, links |-> links, recipient |-> recipient, ticker |-> ticker,
   description |-> [words |-> words, text |-> IF words = 0 THEN Nil ELSE "t"]]
LinkOrder    == <<"twitter", "website">>
FieldHosts   == [twitter |-> "x.com"]
HostAliases  == "twitter.com" :> "x.com" @@ "x.com" :> "x.com"
LaunchShapes ==
  {Shape("d1", <<Bob, LinkBob>>, "r1", 2, Bob), Shape("d2", <<Nil, Bob>>, "r1", 0, ZeroBob),
   Shape("d1", <<Nil, Nil>>, "zero", 3, CashBob), Shape("d1", <<LinkBob, Nil>>, "unreadable", 3, Nil),
   Shape("d1", <<Nil, Nil>>, "r1", 0, Bob)}

-----------------------------------------------------------------------------
\* Those with variables of their own, while somebody else runs.
AuditRests      == Init
PagesRest       == P!Init
ActivationRests == T!Init
WallRests       == L!Init
CollectionRests == placed = [l \in ToCollect |-> 0] /\ quirk = "none" /\ K!Init
AuditStays      == UNCHANGED <<log, length, rt>>
PagesStay       == UNCHANGED pagesVars
ActivationStays == UNCHANGED activationVars
WallStays       == UNCHANGED wallVars
CollectionStays == UNCHANGED collectionVars
CountsRest      == N!Init
CountsStay      == UNCHANGED countsVars

ArchiveRests == AuditRests /\ PagesRest /\ WallRests /\ ActivationRests /\ CollectionRests /\ CountsRest
ArchiveStays == AuditStays /\ PagesStay /\ WallStays /\ ActivationStays /\ CollectionStays /\ CountsStay

SharedRest == now = Nil /\ call = Nil /\ sent = Nil

HandoversRest ==
  /\ row = Nil /\ drain = Nil /\ offered = Nil /\ accepted = Nil
  /\ issued = Nil /\ marks = Nil /\ acted = Nil /\ paused = Nil
HandoversStay == UNCHANGED <<row, drain, offered, accepted, issued, marks, acted, paused>>

OrdersRest   == state = Nil
BuysRest     == curve = Nil /\ order = Nil /\ halted = Nil /\ limits = Nil /\ spend = Nil /\ paid = Nil /\ allowed = Nil
SellsRest    == intent = Nil /\ expired = Nil /\ signal = Nil /\ button = Nil /\ balance = Nil /\ mined = Nil
ReferralRest == active = Nil /\ referrer = Nil /\ rates = Nil /\ fees = Nil /\ accruals = Nil /\ payouts = Nil
OrdersStay   == UNCHANGED state
BuysStay     == UNCHANGED <<curve, order, halted, limits, spend, paid, allowed>>
SellsStay    == UNCHANGED <<intent, expired, signal, button, balance, mined>>
ReferralStay == UNCHANGED <<active, referrer, rates, fees, accruals, payouts>>

TradingRests == OrdersRest /\ SellsRest /\ BuysRest /\ ReferralRest /\ day = Nil
TradingStays == OrdersStay /\ SellsStay /\ BuysStay /\ ReferralStay /\ UNCHANGED day

\* Surfaces, while none of its components or one of them runs.
SheetsRest  == offer = Nil /\ late = Nil /\ view = Nil /\ card = Nil /\ armed = Nil /\ pass = Nil
WalletRests == vault = Nil /\ registered = Nil /\ display = Nil /\ flow = Nil
HoldersRest == mark = Nil /\ session = Nil /\ check = Nil /\ edit = Nil /\ granted = Nil
BundleRests == site = Nil /\ cache = Nil /\ flight = Nil /\ pieces = Nil /\ ask = Nil

SheetsStay  == UNCHANGED <<offer, late, view, card, armed, pass>>
WalletStays == UNCHANGED <<vault, registered, display, flow>>
HoldersStay == UNCHANGED <<mark, session, check, edit, granted>>
BundleStays == UNCHANGED <<site, cache, flight, pieces, ask>>

SurfacesRest == SheetsRest /\ WalletRests /\ HoldersRest /\ BundleRests /\ list = Nil
SurfacesStay == SheetsStay /\ WalletStays /\ HoldersStay /\ BundleStays /\ UNCHANGED list

\* What the component that runs leaves to others, of what has variables of its own.
OutboxAlone ==
  /\ ArchiveRests /\ SurfacesRest /\ TradingRests
  /\ call = Nil /\ issued = Nil /\ marks = Nil /\ acted = Nil /\ paused = Nil /\ sent = Nil
CallsAlone ==
  /\ ArchiveRests /\ SurfacesRest /\ TradingRests
  /\ row = Nil /\ drain = Nil /\ offered = Nil /\ accepted = Nil /\ paused = Nil /\ sent = Nil
SubmissionsAlone ==
  /\ ArchiveRests /\ SurfacesRest /\ TradingRests
  /\ drain = Nil /\ offered = Nil /\ accepted = Nil /\ issued = Nil /\ marks = Nil /\ acted = Nil
ExecutionsAlone == ArchiveRests /\ SurfacesRest /\ HandoversRest /\ BuysRest /\ SellsRest /\ ReferralRest /\ now = Nil
SellsAlone ==
  ArchiveRests /\ SurfacesRest /\ HandoversRest /\ OrdersRest /\ BuysRest /\ ReferralRest /\ day = Nil /\ now = Nil
BuysAlone ==
  /\ ArchiveRests /\ SurfacesRest /\ HandoversRest /\ OrdersRest /\ SellsRest /\ ReferralRest
  /\ now = Nil /\ call = Nil /\ sent = Nil
ReferralAlone ==
  /\ ArchiveRests /\ SurfacesRest /\ HandoversRest /\ OrdersRest /\ BuysRest /\ SellsRest
  /\ day = Nil /\ call = Nil /\ sent = Nil

OnlyOutbox      == ArchiveStays /\ SurfacesStay /\ TradingStays /\ UNCHANGED <<call, issued, marks, acted, paused, sent>>
OnlyCalls       == ArchiveStays /\ SurfacesStay /\ TradingStays /\ UNCHANGED <<row, drain, offered, accepted, paused, sent>>
OnlySubmissions == ArchiveStays /\ SurfacesStay /\ TradingStays /\ UNCHANGED <<drain, offered, accepted, issued, marks, acted>>
OnlyExecutions == ArchiveStays /\ SurfacesStay /\ HandoversStay /\ BuysStay /\ SellsStay /\ ReferralStay /\ UNCHANGED now
OnlySells ==
  /\ ArchiveStays /\ SurfacesStay /\ HandoversStay /\ OrdersStay /\ BuysStay /\ ReferralStay
  /\ UNCHANGED <<day, now>>
OnlyBuys ==
  /\ ArchiveStays /\ SurfacesStay /\ HandoversStay /\ OrdersStay /\ SellsStay /\ ReferralStay
  /\ UNCHANGED <<now, call, sent>>
OnlyReferral ==
  /\ ArchiveStays /\ SurfacesStay /\ HandoversStay /\ OrdersStay /\ BuysStay /\ SellsStay
  /\ UNCHANGED <<day, call, sent>>

\* While both screens are in use, one of the offers is new: two screens with one offer under way, and
\* one screen with two.
SheetsBound ==
  (\A s \in Screens : view[s] # "closed" \/ \E i \in Offers : pass[s][i] # "none")
    => \E i \in Offers : offer[i] = "awaiting" /\ late[i] = 0

\* The wall moves while a request is under way that has to see it.  While two answers are in the page's hands, the
\* watcher is not behind and the tab is neither hidden nor shown; and a request that fails does so when the object has
\* answered it.
AtStage(stages) == {f \in Flights : polls[f].stage \in stages}
Overtaken == {f \in Flights : polls[f].stage # "none" /\ ~polls[f].current}
WallBound ==
  /\ <<board, edition>>' # <<board, edition>> => AtStage({"asked", "boundary", "read"}) # {}
  /\ board'.head # board'.at => Overtaken' = {}
  /\ reader'.hidden # reader.hidden => Overtaken = {}
  /\ browser.why # "network" /\ browser'.why = "network" => AtStage({"asked", "boundary"}) \subseteq AtStage({"asked", "boundary"})'

OnlySurfacesRun  == ArchiveRests /\ HandoversRest /\ TradingRests /\ now = Nil /\ call = Nil
OnlySurfacesMove == ArchiveStays /\ HandoversStay /\ TradingStays /\ UNCHANGED <<now, call>>

OnlyArchiveRuns  == SharedRest /\ HandoversRest /\ TradingRests /\ SurfacesRest
OnlyArchiveMoves == UNCHANGED <<now, call, sent>> /\ HandoversStay /\ TradingStays /\ SurfacesStay

MCInit ==
  \/ part \in {"audit", "tail", "history", "wall", "activation", "counts"} /\ ArchiveRests /\ OnlyArchiveRuns
  \/ part = "executions" /\ E!Init /\ ExecutionsAlone
  \/ part = "sells" /\ M!Init /\ SellsAlone
  \/ part = "buys" /\ B!Init /\ BuysAlone
  \/ part = "referral" /\ F!Init /\ ReferralAlone
  \/ part = "outbox" /\ O!Init /\ OutboxAlone
  \/ part = "calls" /\ C!Init /\ CallsAlone
  \/ part = "submissions" /\ D!Init /\ SubmissionsAlone
  \/ part = "collection" /\ K!Init /\ AuditRests /\ PagesRest /\ WallRests /\ ActivationRests /\ CountsRest /\ OnlyArchiveRuns
  \/ /\ OnlySurfacesRun
     /\ \/ part = "sheets" /\ X!Init /\ WalletRests /\ HoldersRest /\ BundleRests
        \/ part = "wallet" /\ W!Init /\ SheetsRest /\ HoldersRest /\ BundleRests /\ list = Nil /\ sent = Nil
        \/ part = "holders" /\ H!Init /\ SheetsRest /\ WalletRests /\ BundleRests /\ sent = Nil
        \/ part = "bundle" /\ U!Init /\ SheetsRest /\ WalletRests /\ HoldersRest /\ list = Nil /\ sent = Nil

MCNext ==
  /\ UNCHANGED part
  /\ \/ /\ OnlyArchiveMoves
        /\ part # "collection" => CollectionStays
        /\ part # "counts" => CountsStay
        /\ \/ part = "audit" /\ Next /\ PagesStay /\ WallStays /\ ActivationStays
           \/ part = "tail" /\ (P!Watcher \/ P!Tails) /\ AuditStays /\ WallStays /\ ActivationStays
           \/ part = "history" /\ (P!Watcher \/ P!Histories) /\ AuditStays /\ WallStays /\ ActivationStays
           \/ part = "activation" /\ T!Next /\ AuditStays /\ PagesStay /\ WallStays
           \/ part = "wall" /\ L!Next /\ WallBound /\ AuditStays /\ PagesStay /\ ActivationStays
           \/ part = "collection" /\ K!Next /\ AuditStays /\ PagesStay /\ WallStays /\ ActivationStays
           \/ part = "counts" /\ N!Next /\ AuditStays /\ PagesStay /\ WallStays /\ ActivationStays
     \/ part = "executions" /\ E!Next /\ OnlyExecutions
     \/ part = "sells" /\ M!Next /\ OnlySells
     \/ part = "buys" /\ B!Next /\ OnlyBuys
     \/ part = "referral" /\ F!Next /\ OnlyReferral
     \/ part = "outbox" /\ O!Next /\ OnlyOutbox
     \/ part = "calls" /\ C!Next /\ OnlyCalls
     \/ part = "submissions" /\ D!Next /\ OnlySubmissions
     \/ /\ OnlySurfacesMove
        /\ \/ part = "sheets" /\ X!Next /\ SheetsBound' /\ WalletStays /\ HoldersStay /\ BundleStays
           \/ part = "wallet" /\ W!Next /\ SheetsStay /\ HoldersStay /\ BundleStays /\ UNCHANGED <<list, sent>>
           \/ part = "holders" /\ H!Next /\ SheetsStay /\ WalletStays /\ BundleStays /\ UNCHANGED sent
           \/ part = "bundle" /\ U!Next /\ SheetsStay /\ WalletStays /\ HoldersStay /\ UNCHANGED <<list, sent>>

MCSpec ==
  MCInit /\ [][MCNext]_<<part, log, length, rt, pagesVars, wallVars, activationVars, collectionVars, countsVars, now, call, sent, row, drain, offered, accepted, issued, marks, acted, paused,
                         state, day, intent, expired, signal, button, balance, mined,
                         curve, order, halted, limits, spend, paid, allowed,
                         active, referrer, rates, fees, accruals, payouts,
                         offer, late, view, list, card, armed, pass, vault, registered, display, flow,
                         mark, session, check, edit, granted, site, cache, flight, pieces, ask>>

-----------------------------------------------------------------------------
(* Properties: each part's own, while it is the part that runs.            *)

\* The type invariants of the components.
TypesOK ==
  CASE part = "audit" -> TypeOK
    [] part = "executions" -> E!TypeOK
    [] part = "sells" -> M!TypeOK
    [] part = "buys" -> B!TypeOK
    [] part = "referral" -> F!TypeOK
    [] part = "outbox" -> O!TypeOK
    [] part = "calls" -> C!TypeOK
    [] part = "submissions" -> D!TypeOK
    [] part = "collection" -> K!TypeOK
    [] part = "wall" -> L!TypeOK
    [] part \in {"tail", "history"} -> P!TypeOK
    [] part = "activation" -> T!TypeOK
    [] part = "counts" -> N!TypeOK
    [] part \in {"sheets", "wallet", "holders", "bundle"} -> SurfacesTypeOK

\* PreviousIsStored is stated in AuditLog; PagesAreWhole, ShownIsWall, AllOrNothing, AcceptedIsChain and
\* CountsAreRight in Archive; HandoversAreSafe in Handovers; OrdersAreSafe, SellsAreSafe, BuysAreSafe and
\* AccruedAtItsRate in Trading; SheetsAreSafe, ConfirmedIsShown, WalletsAreKept, HoldersAreSafe and PairIsOne in
\* Surfaces.
=============================================================================
