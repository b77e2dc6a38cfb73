# Lintcha Chain: specifications, model checking and proofs

This directory specifies the parts of Lintcha Chain whose correctness depends on the order in which things
happen. The modules are written in TLA+, checked on small instances by TLC, and some of what they state is
proved for every instance with TLAPS. Paths below are relative to the repository root (`src/` here).

## 1. The system

| Component | Source | State | Operations | Meets |
|---|---|---|---|---|
| Copy service | `copy/copy-service/src/service.mjs` | `copy_confirmation_intents`, one row per intent, `UNIQUE(replay_key)` | `executeAutomaticBuy`, `createConfirmEachIntent`, `beginSecureSheetConfirmation`, `cancelIntent`, `expireIntent`, `recordClientSubmission`, `reconcile` | policy gate, ledger, audit log, RPC pool, executor |
| Spend policy and ledger | `policy.mjs`, `cloudflare/d1-store.mjs` | `copy_daily_spend_reservations` | `authorize`, `reserve`, `commit`, `release` | copy service |
| Coordinator and scheduled pass | `cloudflare/coordinator.mjs`, `worker.mjs` | a Durable Object per user, with a promise chain as its queue | one turn at a time; expire and reconcile every minute | everything that changes an intent |
| Kill switches, user controls, delegation | `policy.mjs`, `runtime.mjs`, `telegram-surface.mjs`, `http.mjs` | `copy_kill_switches`, `copy_users`, `copy_delegations` | load, pause, resume, persist; mode and pause; put and revoke | operators, users, each buy |
| Audit log | `audit.mjs` | `copy_audit_log`, a hash chain keyed by sequence number | `resume`, `append` | every operation of every isolate |
| Delegated executor | `copy/delegated-executor/src/executor.mjs` | `submissions` | admit, send, mark | copy service, wallet provider |
| RPC pool, simulation | `rpc-pool.mjs`, `simulation.mjs` | circuit state of two providers | quorum reads, simulation, health | copy service |
| Outbox | `http.mjs`, `d1-store.mjs`, `bot/src/copy-gateway.js` | `copy_outbox`, a lease on each row | enqueue, lease, ack, fail, drain | core bot, Telegram |
| Gateway | `gateway-auth.mjs`, `bot/src/copy-gateway.js` | replay marks | sign, verify, sweep | core bot, copy service |
| Mini App | `copy/copy-app/` | what each screen shows | list, open, confirm, cancel, report | copy service, wallet |
| Wallets of a device | `copy/trading/src/wallet/`, `copy/secure-sheet-crypto/` | secure storage, registered addresses | create, import, export, sign | person, device, service |
| Auto-buy contract | `copy/auto-buy-contract/` | limits and daily spend per user | `configure`, pause, `buy` | curve |
| Observer, rules, dispatcher | `copy/trading/src/observer/`, `rules/`, `dispatcher/` | hashes and events per height | ingest, retract, evaluate, quote, build | two RPC feeds, contract |
| Orders and sells | `copy/trading/src/execution/`, `persistence/`, `telegram/` | SQLite reservations and intents, buttons in memory | dispatch, review, confirm | wallet, chain |
| Referral | `copy/trading/src/referral/` | bindings, overrides, fees, accruals, payouts | bind, override, record, prepare | orders |
| Launch watch | `bot/src/watch.js`, `rules.js` | the tail of launches, the cursor, rules, `rule_delivery` | flush, read, record, check, prune; rules added and removed | chain, Telegram, published files, sessions |
| Public reads | `watch.js`, `site/live/`, `site/deployer/` | none of their own; page state in the browser | tail, wall, history, identity | launch watch, published files |
| RPC gate | `bot/src/rpc.js` | queue, in flight, cooldown, timer | call, retry, give up | chain |
| Tape | `bot/src/tape.js` | cursor, lines, counted buys, notices | tick, watchdog, deliver | chain, Telegram |
| Updates | `bot/src/index.js`, `router.js`, `watch.js` | claims, renderings, effects, daily meter | webhook, render, store, send | Telegram |
| Holders | `verify.js`, `wallet-watch.js`, `index.js` | one-time marks, sessions, watched wallets | ask, spend, check, watch, forget | KV, chain |
| Identity counts | `tally.js`, `launch-index.mjs`, `launch.js`, `rules.js` | index, hash rows | count, look up, match | collector, watcher, page |
| Collector and guard | `tools/launch-collect.mjs`, `collection-guard.mjs` | a report | collect, read again, accept | endpoint, workflow |
| Activation | `tools/activate-token.mjs` | the working tree | prove, preflight, write, build, restore | disk, people |
| Rest of site, build, workflows | `site/chain.js`, `tools/build.mjs`, `bot/tools/` | static files | build, bootstrap, smoke | none |

How they interact. A source trade reaches the copy service from the dispatcher. The HTTP route reads the user
row, then hands the call to the user's coordinator, a Durable Object that runs one call at a time. Each call
builds a runtime, which reads the kill switches and the audit head once and keeps them in memory. The call then
moves between D1 statements, RPC reads and, for an automatic buy, one call to the executor, which signs through a
wallet provider. A confirm-each intent is finished by its user's Mini App instead. A scheduled pass expires what
was offered and reconciles what was submitted.

What is hard about it:

* every save is a statement of its own, so a coordinator that is evicted, or a statement that rejects, leaves
  any prefix of an operation behind;
* the executor and the wallet go on when the service has stopped waiting, so an error means "unknown";
* both paths to a buy, and several quotes, compete for one replay key;
* the clock passes confirmation windows, grace periods, drop deadlines and midnight between two awaits;
* blocks are reorganised between the reads of one reconciliation;
* values are cached when a turn begins (switches, audit head, user row) and used after others have changed them;
* runtimes of different users share the audit sequence;
* a round of the launch watch is cut off anywhere and reads its range again, while holders add and remove rules,
  the published snapshot moves, and Telegram accepts messages whose answers are lost.

What makes each part correct. *Copy service*: one live intent per user, trade and side; final states are final; what
is confirmed is safe on chain and charged; what is claimed, offered or submitted does not stay so forever. *Ledger*:
a day is never charged beyond its cap; a reservation is held while its spending cannot be ruled out and is not taken
back after it was given up. *Gates*: nothing is bought before both consents; an operator's pause holds until it is
resumed. *Audit log*: each record extends the chain. *Executor*: one send per intent. *Launch watch*: no launch is
missed and no line repeated, counts are true, lines go with their rules. *Outbox, gateway, updates, tape*: nothing
recorded is lost, and what is repeated has its effect once. *Observer*: a live event stands in the chain. *Orders,
sells, contract, referral*: one broadcast, within the day and the position, at a price both sides compute alike, and
each accrual at the rate of its day. *Mini App, wallets*: what is confirmed is what was shown; no registered address
without its key. *Public reads, counts*: what a page shows is one state, whole. *Collector and guard, activation*:
published is what the chain says, and an activation is done whole or undone.

`PROJECT.json` lists the hazards one by one, with the line where each bites and the properties that cover it.

## 2. Modules

### CopyIntents

The copy service with everything it shares state with: reservations, coordinators, executor, wallet and chain.

| Variable | In the code |
|---|---|
| `clock` | `Date.now()`, in seconds |
| `row` | `copy_confirmation_intents`; `opened` is `confirmation_started_at`, `late` marks a hash reported after expiry |
| `owner` | which intent holds each `replay_key`; superseding renames the old one's |
| `res` | `copy_daily_spend_reservations.state` |
| `turn` | the call each coordinator is inside: the await it stands at, its intent, the state it will save, what it has read |
| `exec`, `tx`, `reorgs` | the environment: the executor's record, the transaction, how often it changed block |

A turn is cut at the awaits whose effect another actor can see. `ClaimIntent`, `Authorize`, `Simulate`,
`RecheckDelegation`, `SavePending`, `CallExecutor`, `ReceiveHash` or `ReceiveNoHash`, `SaveSubmitted` and
`AppendAudit` are `executeAutomaticBuy`; `SaveAwaiting` replaces the middle for `createConfirmEachIntent`.
`BeginSheet`, `BeginExpired`, `CancelIntent`, `RecordSubmission` and `RecordLateSubmission` are the client's
calls. `ExpireIntent` and `Reconcile` are the scheduled ones; `ReadTx`, `ReadReceipt`, `ReadFails` and `Decide`
continue `reconcile`. Closing goes through `Release` or `Commit` and then `Close`, in the code's order. `Evict`
and `StoreRejects` cut a turn short; `StoreRejects` runs the catch of the creating operations where there is one.
The constant `Faults` says which of `"audit"` (a lost race for the audit sequence), `"d1"` and `"evict"` may
happen.

Abstracted: addresses, calldata and token amounts; the allowlists of the policy (one refusal); the confirmation
token and the revision (a stale one is refused and changes nothing); the APPROVAL operation of a sell; the two
providers, which answer together or not at all. `attempt_count` stops at `MaxTries`, where only the comparison
with the limit matters. The block number of a transaction is the number of times it was moved. `DecideReverted` waits
for no safe block, as the code does not.

### CopyPromise

What the service promises about an intent: it is prepared, offered or submitted, and settles; a buy holds part of
a daily budget from preparation to settlement, spends it exactly when it is confirmed, and gives it back only
when it is void or failed. `CopyIntents` instantiates it with `Phase`, `ChargeName` and the row's day, and
`KeepsPromise` says that every step of the service is one of its steps or a stutter. Late reports are a phase of
their own, because the code parks them for a human and lets the key move on.

### BuyGates

The gates of an automatic buy, at the grain of their reads. An operator's request reads every switch, applies one
change and writes the whole snapshot back, or fails before that (`AdminBegin`, `AdminPersist`, `AdminFails`); requests
overlap, and `Asked` bounds what they are asked for. The user's mode and pause are read by the HTTP route only; the
switches by the runtime only, and the check after the simulation asks that same snapshot; the delegation is read
twice. `opened`, `chose` and `firm` are history variables: an operator has resumed GLOBAL, a user has chosen
AUTO_BUY, a pause was written while no other request was in flight and has not been resumed.

### AuditLog

The hash chain under runtimes that read its head at different times. A hash stands for its record (sequence
number and author). `Write` is the append that wins its number and `Collide` the one that finds it taken, with
the sequence advanced and the previous hash not; a creating operation then appends a second time from its catch.

### LaunchWatch

The Durable Object `Watch` of the core bot: its rounds, the rules of the holders, and the ledger of lines.

| Variable | In the code |
|---|---|
| `head`, `snapshot` | the finalized head; the last block the published files cover |
| `rules`, `nextRule` | table `rules`, `rule_sequence.next_id` |
| `cursor`, `started` | keys `last_block`, `started_block` |
| `tail` | table `tail`, as the set of launches in it |
| `ledger` | table `rule_delivery`, keyed by rule and launch: `sent`, `last_attempt` as a rank, and whether the row is as old as the longest session |
| `attempts`, `unreadable`, `pruned` | keys `attempts:<from>`, `last_unreadable_block`, `wall_pruned_through` |
| `round` | the local variables of `tickOnce`, and the await it stands at |

`told`, `lost`, `due`, `retired`, `early`, `skipped` and `crashes` are history. A round is cut at its awaits; what
it writes between two of them is one step, because a Durable Object runs nothing else there and its storage
commits as a whole. `Beat` and `Flush` begin it (`flushRuleDeliveries`); `NoSession`, `Session`, `Accept`,
`Refuse` and `AnswerLost` are what can become of one line (`sendRuleDelivery`, `acceptRuleDelivery`); `Backlog`
decides whether the chain is read at all. `FirstRound`, `NothingNew`, `Survey`, `ReadLaunches` and `ReadFails` are
the reads of `tickOnce`; `Record` and `CheckRules` process one launch; `PruneAndCommit` is `prune` and the writes
after it. `AddRule`, `RemoveRule` and `Forget` (`ruleCommand`) happen at any await. `Evict` ends a round anywhere.

Abstracted: the alarm and the cron are one `Beat`, since the cron starts a round whenever there is no alarm or it is
late; a launch is its place in the log, a match of a string or dev rule is membership in `Wants`; the manifest,
index and numbers are read together or not at all; a session is a nondeterministic answer of KV; the checks of RPC
answers, the failover and the proof of the chain are one failed read. Left out, here and in `PublicPages.Record`: a
launch read again with another payload or at another position, for which the code closes the wall
(`wall_index_error_block`, `watch.js:1236-1244`); in the models a launch is what the chain says it is. The public
reads are in `PublicPages`, `Wall` and `PublishedBundle`.

### Trading: Executions, ManualSells, CurveBuys, Referral; and SourceTrades

`SourceTrades` is the observer. The network is a tree of blocks and a tip that moves about in it until it comes to
rest; the feed hands over blocks of any branch in any order; `IngestLatest` is the whole handler, from the parent
check through the retraction to the new events. `CurveBuys` follows one buy from the rule engine through quote and
call data to the contract's `buy`, with the same integer divisions on both sides, the limits, the day, refunds,
pause and `configure`; the curve may move between quote and transaction, and a transaction is one step.
`Executions` is the automatic order: several calls dispatch it, each cut at its awaits, and only the SQLite
reservation (`Reserve`, `MarkSigning`, `MarkSubmitted`, `Release`) is shared; `Crash` drops a call anywhere.
`ManualSells` has reviews, buttons in memory and intents in SQLite, with calls that go on with the balance and the
time they read. `Referral` has bindings, overrides, fees, accruals and payouts, each statement a step. The module
`Trading` composes the last four.

### Between services: Submissions, ScheduledPass, Outbox, SignedCalls

`Submissions` is the delegated executor's own table: claim, send, mark, with lost answers, deaths and repeated
calls; in `CopyIntents` it is environment. `ScheduledPass` has the two listings with their order and limit, passes
that overlap, and errors that end one. `Outbox` has rows with leases, drains that outlive them, and losses on both
ways. `SignedCalls` has envelopes that arrive late, twice and at several isolates, two clocks, and the marks that
are claimed and swept. `Handovers` composes `Outbox`, `SignedCalls` and `Submissions`.

### Core bot: Updates, Holders, Tape, RpcGate

`Updates` is the webhook: `Post` (Telegram, again and again), claim and meter, `Render`, `Store`, `ClaimAction`,
`Send`, `Advance`, with leases that run out and requests that die. `Holders` has marks, sessions and watched
wallets, with checks and edits that overlap and a KV that answers with an older value. `Tape` is the room's feed:
one round or watchdog at a time, cut at its awaits, with queued lines in the order they are tried, counted buys,
the hourly window, and notices of gaps. `RpcGate` is the limiter, with times as what is left of them.

### What is published: Wall, PublicPages, PublishedBundle, IdentityCounts, Collection, Activation

`Wall` composes the object's answers and the page in the browser: several requests in flight, hashing as an await
on both sides, answers that are hashed beside each other, aborts before an answer, while its body is read and after,
snapshots, pauses and clicks. `PublicPages` hands out the tail in chained pages and a deployer's
history while rounds go on. `PublishedBundle` is the manifest, index and numbers, uploaded one by one and cached
with clocks of their own. `IdentityCounts` counts what launches say of themselves in the collector, the watcher,
the page and the rules, and compares each with a definition by cardinality. `Collection` runs collector and guard
against one endpoint that omits launches by a rule and changes branch between two calls; the guard's sample of
transactions is any that holds the first launch. `Activation` is the tool with every disk operation failing or the
process dying, and other people editing the README and the sources at any time.

### Mini App and wallets: SecureSheet, LocalWallet

`SecureSheet` has several screens of one person, the list, the card with its buttons, each pass from the card to
the report, and the part of the service they call. `LocalWallet` has the device's storage, the registration and
the display of a key, with several flows at a time that may fail or die anywhere.

### Modules that put components side by side

These components share no state, so a composition says which of them runs: `part` (in `Parts`, with the names
several of them use for their own variables) is chosen at the start and never changes, and a component's variables
belong to it through the substitutions of its INSTANCE. The composition declares the constants, with the
assumptions proofs need, and states the properties that are checked and proved.

| Module | Components |
|---|---|
| `Handovers` | `Outbox`, `SignedCalls`, `Submissions` |
| `Trading` | `Executions`, `ManualSells`, `CurveBuys`, `Referral` |
| `Surfaces` | `SecureSheet`, `LocalWallet`, `Holders`, `PublishedBundle` |
| `Archive` | `AuditLog`, `PublicPages`, `Wall`, `Activation`, `Collection`, `IdentityCounts`: each with variables of its own, and no `part` |
| `Intake` | `BuyGates`, `SourceTrades`, `Updates`, `Tape`: likewise |

### MC modules, faulty variants and proof modules

`MCCopyIntents`, `MCAuditLog` and `MCLaunchWatch` name the small instances of their components. The instances of
the others are explored one after the other in two modules: `MCComponents`, which extends `Archive`, `Handovers`,
`Trading` and `Surfaces`, those that are checked for safety only; `MCProgress`, which extends `Intake`, those with
liveness properties. There too `part` says which component runs and never changes, the initial states are those of
all of them, and the others stand still. A property is a component's own; it is guarded by its part, or the
component rests at its initial state while another runs. The fairness of `MCProgress` joins the k-th
conditions of all components into one: since `part` is fixed, that is the component's own `Fairness`.

Operators marked *Faulty variant* stand before the definition they vary; nothing uses them in the specification.
Each is a plausible mistake, and each checked property is known to fail for one of them. `*_proofs` hold the
theorems; `FiniteSums` has what they need of sums over finite sets and of rows in the order of their numbers (`Ordered`),
with the induction it takes.

## 3. What is checked

| Run | Instance | Shows |
|---|---|---|
| `intents_crash` | one trade by both paths, all faults | `OneLivePerKey`, `ConfirmedIsCharged`, `FinalStatesStay` |
| `intents_chain` | an automatic buy and a sell of one trade, evictions, a reorganisation of each | `ConfirmedIsSafe`, `SpendIsHeld` |
| `intents_caps` | two buys of 2 and 1 wei, cap 2, midnight at 2, audit faults | `DailyCap`, `ReleasedStaysReleased` |
| `intents_live` | one trade by both paths, no faults, `FairSpec` | `KeepsPromise`; `IntentsResolve`: creations resolve, offers close, submissions settle or reach a human |
| `watch_rounds` | a string rule and a "shared 2" of one holder, two launches in two blocks, capacity 1, one eviction, one lost answer | `OnceUnlessPruned`, `NothingMissed`; `LedgerIsTrue`: complete is complete, shared counts are true, the backlog keeps its bound |
| `watch_live` | two holders, one of whom stays signed in, a batch of 1, a block with more launches than a round reads, `FairSpec` | `LinesGetThrough`: the cursor goes as far as it can, the holder hears |
| `parts_safety` | eighteen instances, below | a property of each, below |
| `parts_progress` | six instances, below | a property of each, below |

`parts_safety`:

| Part | Instance | Property |
|---|---|---|
| `audit` | four runtimes, two with a catch | `PreviousIsStored` |
| `executions` | orders of 2 and 1, 2 a day, two days, two calls | `OrdersAreSafe`: one broadcast an order, never more than the day |
| `sells` | two sells of 2 from a holding of 3, two signals, two buttons, two calls | `SellsAreSafe`: one broadcast, not oversold |
| `buys` | two amounts, two sets of limits, two refunds, fees, a trade of somebody else in between, midnight | `BuysAreSafe`: a fresh quote is accepted, what is recorded was paid |
| `referral` | two orders of one trader, three shares, two overrides, payouts | `AccruedAtItsRate` |
| `outbox` | two lines, two drains, leases that run out, losses | `HandoversAreSafe`: one holder a lease, SENT was accepted |
| `calls` | an envelope, two isolates, skewed clocks, sweeps | `HandoversAreSafe`: acted on once |
| `submissions` | two intents, two calls each at a time | `HandoversAreSafe`: sent once |
| `sheets` | two screens and two offers, one of the offers new while both screens are in use | `SheetsAreSafe`: the wallet is asked once, cancelled was not sent; `ConfirmedIsShown` |
| `wallet` | two addresses, two flows | `WalletsAreKept` |
| `holders` | a person, two wallets, a mark, two checks and an edit at a time | `HoldersAreSafe`: one session a mark, the list stays readable |
| `collection` | three launches, two branches, a window across the fork and one before it, pages of 4 and 2, one change of branch | `AcceptedIsChain` |
| `wall` | three launches in two blocks, two snapshots, two requests | `ShownIsWall` |
| `tail`, `history` | three launches, two deployers, pages of 2 rows or blocks, gaps, prunes | `PagesAreWhole` |
| `bundle` | two generations, a check and a request | `PairIsOne` |
| `activation` | two addresses of which one is genuine, a page, one edit by others | `AllOrNothing` |
| `counts` | up to three launches of five shapes, with lookalikes and doubled links | `CountsAreRight` |

`parts_progress`:

| Part | Instance | Property |
|---|---|---|
| `gates` | a user, a wallet, two operators who resume GLOBAL, pause the user or resume the user | `NothingBeforeConsent`, `PauseHolds` |
| `source` | two branches of two blocks, a trade that is in both, one nobody can copy | `LiveIsCanonical`, `TradesAreSeen` |
| `pass` | four intents, one always fails, room for two | `PassesSettle` |
| `updates` | one metered update of two actions, two requests | `AnsweredOnce`, `IsAnswered` |
| `tape` | three buys and a sell in two blocks, numbered in the order of the chain; one line Telegram never takes | `FeedIsTrue`, `BuysAreHeard` |
| `gate` | three calls, one of them for logs, two in flight, one retry | `CallsSettle` |

Bounds. One user suffices for `CopyIntents`: users share nothing there, and the one thing they do share, the audit
sequence, is the fault `"audit"` here and the whole subject of `AuditLog`. Two intents are enough for a supersession
or a contest for the cap, since every property relates at most two. `MaxTime` is 2 to 4 seconds, with windows, grace
and deadlines of one second and a day of two: claim, expiry, grace, late report and midnight all fall inside, in
every order. `ClaimIntent` only claims what can still expire before `MaxTime`. `MaxTries = 2` has a transient
failure and a final one; `intents_chain` has the final one only. `MaxReorgs` is 1 there, so a transaction moves
before a receipt is read or after it, and 0 elsewhere; with evictions only, since under the other two faults
`SpendIsHeld` is false (below), while `ConfirmedSafe` covers all three. At the bound of the clock an idle system
rests (`Rest`), and the runs of `CopyIntents` and `LaunchWatch` check for deadlock.

`LaunchWatch` has two blocks so that one can be behind the cursor and one ahead, one ticker so that index and tail
compete for the same launches, and a capacity of one so that the second rule of a launch meets a full backlog. Two
attempts have a first and a last. In `watch_live` the range of both blocks is cut to the first, which has one
launch, and the second has two where a round reads one: the watcher stands before it, which `CatchesUp` names as the
exception, and `LiveHolderHears` must hold all the same. Lost answers happen in `watch_rounds` only. `v_watch_prune`
needs three blocks: one the range is cut to, one that is pruned, and one whose launch makes the range too long.

In `parts_safety` and `parts_progress` two of everything is the rule: two calls, drains, screens, requests or
flows are what it takes to interleave, and no property relates more than two of them. Orders and sells fit one by
one and not together. `SheetsBound` leaves out two screens on two offers that are both under way: a property
relates one offer to the screens, or one screen to the offers. `WallBound` lets the watcher and the snapshot move while
a request is under way that has yet to read what they change, and, while an overtaken answer is still in the page's
hands, keeps the watcher up to date and the tab where it is; the snapshot moves once, so no answer finds it
regressed. `ShownIsWallAlways` needs none of these bounds. `activation` has one edit by others, at any
time. The two operators of `gates` ask for three things, enough for the pause of one to meet the snapshot of the
other. Time has room for a lease, its end and a second
holder. The endpoint of `collection` changes
branch once; with two changes and an omission the model has a wrong report that is accepted, which is beyond what
two readings can notice. The gate has a queue longer than its flight. Components that finish may stop, hence
`CHECK_DEADLOCK FALSE` in these two runs.

### Divergences

These runs end in a counterexample to something the repository says of itself; the findings quote the lines.

* `v_audit_rebroadcast`. The last audit append of an automatic buy stands inside the `try`. If it loses the race
  for its number after the broadcast, the catch releases the reservation and saves REJECTED, which is retryable;
  a second quote for the same trade is then claimed and broadcast.
* `v_audit_chain`. After a lost race the second append uses the next number and the old hash: the chain forks.
* `v_evict_cap`. Eviction between the release and the save leaves an open intent without a reservation. Another
  buy takes the room, the first is used after all, `commit` takes the reservation back, and the day exceeds its
  cap.
* `v_watch_prune`. A round records a range, its lines are sent, and it is cut off before the cursor moves. Meanwhile
  the range grows beyond `WATCH_MAX_LAUNCHES` and is cut to its first block. The prune of that short round drops
  a launch after its block, with the row that remembers the accepted line; the launch is read as new and the
  holder is told again. The launch must be older than `WATCH_DEPTH_DAYS` and covered by the snapshot, so this
  takes a long outage. `OnceUnlessPruned` says that nothing else repeats a line.

Six more findings name a property that the module states and that fails, without a run of its own; TLC shows each
on the component's instance above (`Outbox` with `Losses = FALSE`):

* `SecureSheet.ErrorSaysTruth`: the error view says "Nothing was signed or submitted" also when the report of the
  hash failed after the wallet had sent.
* `Outbox.DeadWasOffered`: the drain that only acknowledges asks for 0 rows, is given 10, and throws them away;
  each has lost an attempt.
* `Updates.OneSender`: a late rendering that stores the same words takes the lease from the request that sends.
  `AnsweredOnce` says what holds nevertheless.
* `PublishedBundle.AnswerIsOfItsCorpus`: an identity answer can name the corpus before the one it was read from.
* `Wall.MigrationIsRetried`: the page promises to retry and does not.
* `IdentityCounts.LinksCountLaunches`: one launch with one link in two fields counts twice.

Other behaviours the models show, for which no run is kept. *Copy service*: a cancel is accepted while the wallet
holds the transaction, which may still go out, although `service.mjs:264` says that nothing was signed; the check
of the switches after the simulation, "checked again" in `AUTO_BUY_ARCHITECTURE.md:11`, asks them as they were when
the turn began; a pause that is written while another operator request is in flight is undone when that one writes
back what it had read (`PauseHolds` speaks of the others); a user's stop is read once, before the queue, and does not
halt a queued buy; a revert is final without waiting for the safe block, so a reorganised transaction may succeed
after FAILED (`SpendIsHeld` sets apart a move after the receipt was read); an opened sheet whose hash nobody
reports is expired and given back, and a late report goes to a human; an eviction right after the claim leaves a
CREATING row that no sweep visits and whose key stays taken (`IntentsResolve` needs `Faults = {}`). A review
message whose enqueueing fails after its intent was created is never queued (`http.mjs:165`). *Scheduled pass*:
with as many stuck rows as the listing has room for, later rows are never reached. *Executor*: a quote that
outlives `MaxTtl` is refused, and the copy service takes any refusal as uncertain and keeps the budget held.
*Trading*: after a change of hash the observer's cursor is empty, and `markSafe` may confirm an event of the other
branch below it; a sell that crashed in SIGNING reserves the position for good; `configure` ends a user's own
pause; a crash between a fee and its accrual loses the accrual, since the fee is a duplicate from then on; a
prepared payout does not mark what it pays. *Holders*: a check in flight makes a session again after `/forget`,
and two edits of one list lose one. *Tape*: a line that is refused for good stops the blocks after its own; a
block with more than `MAX_LOGS` trades stalls the feed. *Launch watch*: a
block with more than `WATCH_MAX_LAUNCHES` launches makes every round over it retreat ("launch overflow",
`watch.js:1131-1134`), so the watcher stands before it for good, and says so in `launch_overflow_block`. *Public
reads*: more launches in one block than the tail may hold answer "capacity" from then on; the deployer page can show
the rows of the address asked for before. *Wall*: a delta is added to whatever rows the page has when its second
digest ends, so when another answer or a click changed them since the comparison, the page mixes two answers, or
shows a delta alone, until the next answer is shown; `ShownIsWall` sets that page apart (`page.mixed`), and without the
exception TLC finds it. A click on pause while the body of an answer is read wipes the page, which then says that it
is unavailable, although the click said that the verified page is frozen: `response.json()` rejects, `live.js:282` makes
that an answer that is none, and `showFailure` follows. *Activation*: a process that dies between its two renames leaves
a file missing, with its backup beside it; when both documents were as wanted before, the pages are read once more
after the verification and outside the `try` (`activate-token.mjs:298-299`), and a refused read is reported as a failure
with the pages already written (`unread`); what others write into the README between the snapshot and the
replacement, or before a restore, is overwritten.

### Fairness

`FairSpec` assumes that the clock moves; that a coordinator finishes each turn it began, since every await of it
returns or throws and the time limits of the RPC and executor clients turn silence into an error; and that
`ExpireIntent` and `Reconcile`, which the scheduled pass asks for every minute, get their turn again and again
even though the client's calls keep disabling them between two passes (strong fairness: a waiting call is in the
coordinator's FIFO queue). `ChainFairness` adds that the chain includes or drops what reaches the mempool and that
an included transaction becomes safe; the code cannot enforce it, and `IntentsResolve` would be false without
it, because `reconcile` has no deadline for a transaction that stays pending. No client or wallet is assumed to
do anything. `IntentsResolve` only speaks of submissions whose drop deadline lies before the end of the clock.

`LaunchWatch` assumes that a round does not stand at an await forever (every fetch has a time limit) and that one
is started again (alarm and cron): weak fairness of the steps of a round. Strong fairness of `Survey` and
`FirstRound` says that an endpoint asked again and again answers in the end; nothing is assumed of single
launches, which may never answer. For the holders in `SignedIn`, sessions are found and Telegram accepts, in the
end. Without evictions in that run: each costs one round at most.

`parts_progress`. `source`: the feed hands over each block of the chain in the end, and the network comes to rest;
`TradesAreSeen` says nothing of a network that does not. `pass`: a pass goes on (its calls have time limits) and is
started every minute; an intent that is asked for again and again and is not stuck is settled. `updates`: Telegram
repeats a post until it is answered, leases run out, requests go on or die, and what is tried again and again
(rendering, storing, sending) succeeds in the end. `tape`: the alarm and the watchdog come back, a read that is
repeated succeeds, and Telegram takes each line in the end except those in `Refused`. `gate`: time passes, timers
fire, and a request ends, well or badly (it has a time limit); nothing is assumed of the endpoint.

## 4. What is proved

| Module | Theorem | Property |
|---|---|---|
| `CopyIntents_proofs` | `Typing` | types |
| | `OneLive` | `OneLivePerKey` |
| | `FinalStays` | `FinalStatesStay` |
| | `ConfirmedCharged` | `ConfirmedIsCharged` |
| | `ConfirmedSafe` | `ConfirmedIsSafe` |
| | `SpendHeld` | `SpendIsHeld`, when `Faults \subseteq {"evict"}` |
| | `ReleasedStays` | `ReleasedStaysReleased`, when `Faults \subseteq {"audit"}` |
| | `CapKept` | `DailyCap`, likewise |
| | `PromiseKept` | `KeepsPromise`: `CopyIntents` implements `CopyPromise`, when `Faults = {}` |
| `LaunchWatch_proofs` | `Typing` | types |
| | `Once` | `OnceUnlessPruned` |
| | `RowsHaveRules` | `LedgerHasRule`: no line outlives its rule |
| | `AcceptedRowsAreAhead` | `AcceptedIsAhead`: an accepted row is ahead of the cursor |
| | `NoneMissed` | `NothingMissed` |
| | `LedgerTrue` | `LedgerIsTrue` |
| `Intake_proofs` | `Typing` | types of the gates |
| | `Consent` | `NothingBeforeConsent` |
| | `PauseHoldsAlways` | `PauseHolds` |
| | `LiveStaysCanonical` | `LiveIsCanonical` |
| | `UpdatesAreAnsweredOnce` | `AnsweredOnce` |
| | `FeedIsTrueAlways` | `FeedIsTrue`, and the types of `Tape` |
| `Handovers_proofs` | `LinesAreHeldOnce` | `Outbox.OneHolder`, `SentWasAccepted` |
| | `CallsActOnce` | `SignedCalls.ActedOnce`, under `Bounds` |
| | `SubmissionsSendOnce` | `Submissions.SentOnce` |
| | `Safe` | `HandoversAreSafe`, under `Bounds` |
| `Trading_proofs` | `OrdersGoOnce`, `OrdersHold`, `OrdersAreSafeAlways` | `OrdersAreSafe` |
| | `SellsHold`, `SellsAreSafeAlways` | `SellsAreSafe` |
| | `BuysAreSafeAlways` | `BuysAreSafe` |
| | `AccrualsHold`, `AccruedAtItsRateAlways` | `AccruedAtItsRate` |
| `Surfaces_proofs` | `SheetsHold`, `SheetsAreSafeAlways` | `SheetsAreSafe` |
| | `ConfirmedIsShownAlways` | `ConfirmedIsShown` |
| | `WalletsHold`, `WalletsAreKeptAlways` | `WalletsAreKept` |
| | `HoldersHold`, `HoldersAreSafeAlways` | `HoldersAreSafe` |
| | `PairsHold`, `PairIsOneAlways` | `PairIsOne` |
| | `SurfacesTypeCorrect` | `SurfacesTypeOK` |
| `Archive_proofs` | `Typing` | types of the audit log |
| | `NeverIntoTheVoid` | `PreviousIsStored` |
| | `PagesAreWholeAlways` | `PagesAreWhole`, and the types of `PublicPages` |
| | `ShownIsWallAlways` | `ShownIsWall`, and the types of `Wall` |
| | `AllOrNothingAlways` | `AllOrNothing`, and the types of `Activation` |
| | `AcceptedIsChainAlways` | `AcceptedIsChain`, and the types of `Collection`, when `BranchFlips <= 1` |
| | `CountsAreRightAlways` | `CountsAreRight`, and the types of `IdentityCounts` |
| `FiniteSums` | `SumType`, `SumAdd`, `SumOfPart`, `SumAgrees` | sums over finite sets |
| | `OrderIs` | a finite set of numbers has one sequence in their order |

Each holds for every value of the constants: any number of users, trades, quotes, operators, runtimes, calls,
drains and screens, any cap and window, any log of launches, any tree of blocks, and any set of faults except where
the table names it. The assumptions are the named ones of the modules, and TLC evaluates each of them:

* identifiers are well-formed and distinct from the values that stand for none (`RequestsAssumption`,
  `NoIntentAssumption`, `SwitchesAssumption`, `RuntimesAssumption`, `UnsetAssumption`, `ReadersAssumption`, and
  parts of others), and bounds are naturals, positive where the code needs them positive;
* the chain is in order: launches are numbered with their blocks (`LogAssumption`, `LaunchesAssumption`) and so are
  trades (`TradesAssumption`), snapshots end at blocks (`WallAssumption`), a block has a height
  (`BlocksAssumption`); rules are numbered, and one that waits for a count matches no launch of its own
  (`RulesAssumption`);
* blocks have times that never go back, a window ends no later than the block its identities are read at, and a page
  of the collector has at least four blocks, so that half of it can be halved (`CollectionAssumption`; the
  collector's own size is 50,000, `launch-collect.mjs:69`);
* leases last (`LeaseAssumption`, `UpdatesAssumption`); a day and a position are naturals, with finitely many orders
  (`BudgetAssumption`, `PositionAssumption`);
* `BuysAssumption`: rules, slippages and fees in the ranges the rule engine (`engine.mjs:19-25`) and the contract
  (`MAX_SLIPPAGE_BPS`, the fee check) accept, and a curve that has something to sell; `RateAssumption`: shares and
  the hard cap are basis points, the default share within the cap (`referral.mjs:4-5`, `:50`), and trades have
  traders;
* the link fields have an order, and a launch whose ticker or link normalizes to nothing is one that has none
  (`IdentityAssumption`);
* there is a person, a wallet and a screen (`HoldersAssumption`, `ScreensAssumption`), and the names of the
  documents are not those of pages (`FilesAssumption`).

Where a theorem names a hypothesis, the code does not guarantee the property without it. With `"d1"` or `"evict"` an
operation is cut between its release and its save, and `v_evict_cap` shows the cap exceeded; with `"audit"` or
`"d1"` the catch releases what the executor has broadcast, as `v_audit_rebroadcast` shows for the first, so
`SpendIsHeld` needs their absence; `Bounds` is about clocks the code does not control; and with `BranchFlips = 2`
TLC finds a report that is accepted though the endpoint went to the other branch and came back while it was read.

*One live intent, final states.* `OneLivePerKey` is not inductive: a turn saves its intent without looking at the
key again. `KeyInv` adds what makes that sound. The key of a live intent names it; only an intent parked for a
human is late; and a turn works on an intent of its own user, which its key names and which is still unsettled.
`Inside` and `Starts` say in a few conjuncts what the steps of a turn, and the calls that begin one, do to rows,
keys and turns. `InsideStep` and `StepKinds` reduce every step of the system to five kinds, and both theorems are
shown for the kinds. The key cannot move during a turn because only a turn of the same user supersedes it.

*Confirmed is charged.* `ChargeInv` follows the reservation: a buy that is offered or submitted has one, a turn past
`authorize` has one, a turn about to save CONFIRMED has a committed one, and a turn that has released saves a
retryable state. `ChargesStep` shows separately that no step forgets a reservation or takes back a commit.

*Confirmed is safe.* An intent says CONFIRMED only after a turn read its transaction in a block that was safe when
it was read. `SafeInv` follows what was seen: a turn about to decide with a receipt in hand has seen the transaction
in that block, one about to save CONFIRMED has seen it there when the block was safe, and so has a row that says so;
what is safe stays where it is. The block is that of the receipt the deciding pass read, so whatever was reorganised
before is covered; what the property sets apart is a move between that read and the read of the safe head. `ExecInv`
says what the executor, the intent and the chain know of one another: who submits which mode of intent, and that no
transaction is there before it could have been sent.

*Spending is held.* `SpendInv` says why a turn may release: the intent is still offered or being created and the executor
was not called for it, or the turn has read a reverted receipt, and the transaction is reverted for as long as it is
in the block of that receipt (`SeenStays`). `SpendReleases` is the step itself. The turn keeps its reason from the
verdict to the release although the executor, the wallet and the chain go on, because nobody calls the executor for an
intent that is being closed. The catch has no such reason, whence the hypothesis.

*Released, capped.* `HeldInv` has three parts. `RowHeld`: a pending buy that is not being closed has a reservation
that is held, and an expired one has given it back; `TurnHeld`: a turn holds it from the reservation to the release;
`TurnFlows`: which state the intent of a turn is in at each of its awaits, and what it may be closed as. A commit then
meets a reservation that is held, so what was released stays so. `DailyCap` is `CapInv`: the sum of what is charged to
a day stays within the cap, because `reserve` compares before it adds. The sum is over a set of any size; `SumAdd`
(one more element) and `SumOfPart` (a part sums to no more) are what the steps need of it, and `FiniteSums` proves
them by induction, over the least natural at which a statement fails.

*The promise is kept.* `PromiseKept` shows that every action of `CopyIntents` is one of `CopyPromise` or leaves `Phase`,
`ChargeName` and the day alone, with `HeldInv` for what a phase says of its charge and `CapInv` for the budget.

*Consent.* Until GLOBAL is resumed it is paused wherever it is remembered: in the table (or in its absence), in
the snapshot of every operator request that will write the table back, and in the snapshot of every buy past its
start. `BuyMoves` states that a buy passes only by a check of its snapshot. The run has two operators at a time,
the theorem any number.

*A pause holds.* `PauseInv`: a pause written while no other request was in flight is in the table, in what every request
in flight has read, and in the snapshot of every turn that began under it. A request writes back all it read except
the one switch it resumes, which stops being `firm` by that. It needs no bound on how requests overlap: those that
were in flight at the write are exactly the ones `firm` leaves out.

*Never into the void.* A runtime remembers a hash only after it was stored, and stored records stay.

*No line twice.* That a line was accepted must be remembered until its range cannot be read again. `OnceInv` names
the three ways in which a line that was heard of is settled: an accepted row, a cursor past its launch, or a rule
that is gone, whose identifier is never used again. `RowInv` says what the rows promise in turn (an accepted row
is ahead of the cursor and its launch in the tail; nobody has heard of an open one), and `TodoInv`, `LineInv` and
`ReadInv` what a round may still rely on after an await: the line being sent was not accepted by anybody, and the
launches being processed are ahead of the cursor. The one step where this fails is the prune, and `early` collects
exactly the lines it fails for. The same invariant gives `RowsHaveRules` and `AcceptedRowsAreAhead`.

*Nothing missed, the ledger is true.* `Watched` follows a launch the other way round. `PlaceInv`: the cursor, the tail and
what a round holds stay behind the head, and a range just read is whole. `GapInv`: a launch that was read and is not
in the tail came before the watcher started, or is as late as one that did not answer or was pruned, which the
published keys say. `ServeInv`: a line that is due was told, or has a row, or its rule is gone, except those the
round is about to make rows of. The three parts of `LedgerIsTrue` are conjuncts of `Watched` or follow from it: a count
was made of the tail, which stays behind the head, and the head does not go back; and a round makes no row beyond the
capacity.

*Sent once.* The row of an intent decides who sends: only one call of `Submissions` finds it absent, and the
invariant keeps that call alone at the intent while it may still send. A call that dies leaves the row behind,
which answers every later call. `Executions` follows the same argument for the reservation of an order, and adds
`ECapInv`: the reserved orders of a day stay within the day's count, again by `FiniteSums`. `ManualSells` needs two
more: `MCallInv`, what a call that goes on after an await still knows of its intent, and `MPositionInv`, that what is in
review, being signed or submitted fits the position.

*Acted once.* `CallsActOnce` is about time. A sweep may remove a mark only when 2 * `MaxAge` have passed since the
verification that set it began; a later verification of the same envelope must have begun while it was fresh.
`Bounds` says what makes the second come before the first: `Skew + Latency < MaxAge`. The code states no such bound;
with a slower verification, or a clock further ahead, the theorem says nothing. The lines of the outbox are held by
leases (`OHeldInv`: a row a drain holds is leased until that drain's lease has run out at least; `OAckInv`: what a
drain acknowledges was accepted).

*A fresh quote is accepted.* `BOrderInv` says that an order carries the minimum that the rule's slippage leaves of
what the curve it was quoted at gives. The contract computes the output again with one division after another; that
its result is no less than the minimum is `BMinimumFits`, from the monotonicity of a rounded part (`BPartGrows`).
`BPaidInv` says that what a day records was paid on that day, and that nothing is paid after the day last recorded.
`FInv`: an accrual is for a trade of the past, so an override, which begins now or later, leaves the rate of its
second alone.

*What a person sees.* `XOffer` says that one pass at most holds the opening of an offer, so the wallet is asked by that
pass only, and none holds it before it is opened or after it was cancelled; `XCardInv` that the card in the review is
that of the buttons. `WFlow` says that an address is told to the service only while its key is in the vault, `WScreen`
that whatever is on the screen has an operation that will clear it. `HMark` says that a mark is gone once a check was
told its owner, that this check is alone with it, and that it earns one session; `HRead` that a check goes on when
its signer holds enough; `HListInv` that every list the KV may answer with can be read. `UGotInv`: what was read is
what the manifest named; `UPair`: the two reads of a check wait for one record, or were given the same.

*A live event stands in the chain.* `SHeldInv`: the hash the observer holds at the height of a live event is that of its
block. A retraction takes a height and all above, with their hashes and their events together.

*Answered once.* `UTurn` and `URequest` say that whoever sends holds the lease, unless the action was claimed before,
and that a message posted at its turn is under the lease of whoever posted it. `UStepInv` and `UOthersExcused` reduce
each step to the one update and the one request it concerns.

*Pages are whole.* A row that is not kept has a reason the object publishes: `PRows` says so of the range behind the
cursor, `PRound` of the round in progress, where the block of the last row that could not be put on the wall covers the
rows before it. A page or a cursor that was made in a state where the published numbers allow it then holds what the
chain holds. The chain does not change, so `CursorIsTrue` and `PageIsTrue` are facts about constants that survive
every later step: no round between two pages can falsify them. A history is read from rows that may
belong to a round that is then given up (`HistoryIsRead`); such rows would be the newest, hence be listed, and the
check of the list against the stated blocks refuses it, so a displayed history is true (`HistoryIsTrue`).

*The wall that is shown.* `WTrue` says of an answer what it says of the chain: its rows, or the view it states the hash
of, are the newest up to its block, or a run of rows without a hole. A fact about constants, it outlives every later
round, prune and snapshot. `WCompares` follows a delta through the page's two digests: the page it is compared with was
live and of its snapshot, and what is compared is made of that page's rows. When the page is still that one, the
addition makes the view of it; when it is not, the page is `mixed`, which every answer that replaces it, every failure and
every delta compared with the rows on display ends (a delta that fits makes the wall of whatever rows it met). How many
answers are hashed at once, and when a request is cut off, does not matter to this.

*The feed is true.* `TOrder` says that buys get their lines in the order of the chain: all those before one that has a
line are counted. `TPage` follows the page being recorded: what has no row yet is still in `left`, in order. A replay
after a death finds the rows of the page and counts nothing again, and once the cursor is past them (`TRows`) the
blocks count them instead, so `Counted` does not change. `TFirst` is then a fact about earlier buys, and no earlier
one can be counted later. `TLines`: what has a line was said or waits.

*All or nothing.* `AWords` says that from the guard on the README of the snapshot is the one the line was written into;
`AReadme` what documents and pages hold at each step of a run, where the README may hold later edits of others;
`AProposed` that the copy was built for the address asked for; `ARestored` that whatever restore has passed without a
failure is as it was. A failed run has passed everything, and one whose last reads fail has passed the verification.

*What is accepted is the chain.* A launch is left out by both readings only if every rule hides it twice.
`KLayouts` is why it cannot be: two pages of the two layouts with a block in common begin apart, unless both begin
with the window, end apart, unless both end with it, and the block is close to the beginning of one of them. So what
is dropped at an end of one page is inside the other, and what is truncated from both follows more launches than the
endpoint truncates to within the blocks two pages share (`KTruncated`, `KFound`). `KCovered` says that a block is in a
page whose launches were all read, `KRead` that all blocks up to the page being read are, in each layout, and that
tokens were read at the report's state. That these were the answers of one branch is `KGuarded`: either the endpoint
still has the report's state, or it has not, has no change of branch left, and the guard's last look at the state will
refuse. Fork or not, `KSamePage` says that an endpoint with that state answers for the window as the branch of the
report. What the guard counts is then what `Reference` counts (`KCounts`): rows and launches are in a bijection, and
the date found by bisecting for midnights is that of the block's time (`KBisects`, by the shortest range for which it
would not be; `KDates`).

*The counts are right.* Both tables are built by recursion, over the launches and over the values of one. `NTable`
is what they are, stated without recursion: of a finite set of pairs of a place and a position, it counts the pairs
under each hash, the first of their places, their deployers and their spellings. `NAdds` says that `AddHash` makes
the table of one pair more out of the table of a set. The collector's function (`NCollects`) and the watcher's
(`NTails`) are then equal at every index to the table of the pairs up to it, by the least index at which they would
not be; so both are the same table, though one is made of strings and the other of rows of hashes. A position holds
at most one value of a launch, so the pairs under a ticker, a shape or a recipient are as many as the launches that
have it (`NPlaces`), and the published entry, the page's verdict and the rules' threshold are sums and comparisons
of such numbers.

Only model-checked:

* the types of the components whose types no theorem states (`TypesOK` joins the types of all parts);
* every liveness property (`IntentsResolve`, `LinesGetThrough`, `TradesAreSeen`, `PassesSettle`, `IsAnswered`,
  `BuysAreHeard`, `CallsSettle`): fairness and ENABLED are out of the provers' reach.

## 5. Not modelled, and the plan

Left out for good, because nothing else acts between their steps or they keep no state: texts and cards, parsing,
encodings, cryptography and signatures, the pure functions of the core bot (`keccak.js`, `secp256k1.js`,
`engine.js`), `site/chain.js` and the pages that render what they are given, `fee-policy.mjs` (a configuration
check), the build, and the operator's scripts (`telegram-bootstrap.mjs`, `production-smoke.mjs`,
`rpc-acceptance.mjs`). `RpcPool.healthCheck` and the circuit of a provider only decide whether a call is tried.
`IdentityCounts` leaves out logo and name, which are counted as ticker and link are. The decoding of swaps, logs
and call data is one read that gives the right answer or fails, except where a property is about it
(`Collection`, `CurveBuys`).

What would come next: the composition of `SourceTrades`, `CurveBuys` and `CopyIntents`, with the dispatcher's cooldown
between them, and of `Submissions` with `CopyIntents` in place of its environment.
