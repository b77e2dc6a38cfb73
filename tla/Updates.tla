------------------------------- MODULE Updates -----------------------------
(***************************************************************************)
(* The webhook of the bot.  Telegram posts an update and posts it again    *)
(* until it is answered with 200; the requests may overlap, and each may   *)
(* die at any await.  The Watch object claims the update once, lets one    *)
(* request at a time render it, keeps the rendered actions, and leases one *)
(* action at a time to whoever sends it.                                   *)
(*                                                                         *)
(* A lease is how long it has left and who holds it: leaseUntil names one  *)
(* grant, because a lease is granted again only when it has run out.  An   *)
(* update is forgotten after Telegram has stopped repeating it.            *)
(***************************************************************************)
EXTENDS Integers, Sequences

CONSTANTS
  Ids,      \* update ids
  Class,    \* Class[u]: "metered", "unmetered" or "unknown": telegramCommandClaimOf
  Actions,  \* Actions[u]: the kinds of the actions its handler renders
  Words,    \* what one rendering and the next may say differently
  Requests, \* requests in flight
  LeaseMs,  \* TELEGRAM_RENDER_LEASE_MS, in ticks
  Limit,    \* commands a user has in one window
  Nobody

VARIABLES
  ledger,  \* telegram_response and telegram_render of each update, and its telegram_effect
  taken,   \* telegram_command_bucket: places taken in this window
  req,     \* each request: its step, its update, the action it is at and the words it rendered
  answered,\* updates answered with 200
  changed, \* history: how often an update's command changed anything
  posted,  \* history: whether each action reached Telegram, excused once its lease ran out or was given back
  said     \* history: the words that reached Telegram for each update

vars == <<ledger, taken, req, answered, changed, posted, said>>
past == <<answered, changed, posted, said>>

Kinds == {"message", "photo", "callback"}
Steps == {"idle", "render", "store", "claim", "send", "release", "advance"}
Entry == [row: {"unseen", "closed", "rendering", "sending"}, words: Words \cup {Nobody}, next: Nat,
          left: 0 .. LeaseMs, by: Requests \cup {Nobody}, effect: BOOLEAN]

TypeOK ==
  /\ ledger \in [Ids -> Entry] /\ taken \in 0 .. Limit
  /\ req \in [Requests -> [at: Steps, id: Ids, index: Nat, words: Words]]
  /\ answered \subseteq Ids /\ said \in [Ids -> SUBSET Words]

Init ==
  /\ ledger = [u \in Ids |-> [row |-> "unseen", words |-> Nobody, next |-> 1, left |-> 0, by |-> Nobody, effect |-> FALSE]]
  /\ taken = 0
  /\ req = [r \in Requests |-> [at |-> "idle", id |-> CHOOSE u \in Ids : TRUE, index |-> 1, words |-> CHOOSE w \in Words : TRUE]]
  /\ answered = {} /\ changed = [u \in Ids |-> 0] /\ said = [u \in Ids |-> {}]
  /\ posted = [u \in Ids |-> [i \in DOMAIN Actions[u] |-> "no"]]

-----------------------------------------------------------------------------
\* Time: every lease has less left.  A send takes far less than a lease.
Tick ==
  /\ \E u \in Ids : ledger[u].left > 0
  /\ \A r \in Requests : req[r].at \notin {"send", "release", "advance"}
  /\ ledger' = [u \in Ids |-> [ledger[u] EXCEPT !.left = IF @ = 0 THEN 0 ELSE @ - 1]]
  /\ UNCHANGED <<taken, req, past>>

BucketExpires == taken > 0 /\ taken' = 0 /\ UNCHANGED <<ledger, req, past>>

\* The request ends with 503: Telegram will repeat the update.
Fail(r) == req' = [req EXCEPT ![r].at = "idle"]
Goto(r, step) == req' = [req EXCEPT ![r].at = step]

Lease(u, r) == [ledger EXCEPT ![u].left = LeaseMs, ![u].by = r]
Pending(u)  == ledger[u].row \in {"rendering", "sending"}
Allowed(u)  == Class[u] = "unmetered" \/ (Class[u] = "metered" /\ taken < Limit)

\* claimTelegramUpdate for an update seen for the first time.
ClaimFresh(r, u) ==
  /\ ledger[u].row = "unseen"
  /\ IF Allowed(u)
       THEN /\ ledger' = [ledger EXCEPT ![u].row = "rendering", ![u].left = LeaseMs, ![u].by = r]
            /\ taken' = IF Class[u] = "metered" THEN taken + 1 ELSE taken
            /\ req' = [req EXCEPT ![r].at = "render", ![r].id = u]
            /\ UNCHANGED answered
       ELSE /\ ledger' = [ledger EXCEPT ![u].row = "closed"]
            /\ answered' = answered \cup {u}
            /\ UNCHANGED <<taken, req>>

\* ... and for one seen before: done, to be rendered again once the lease has run out, or to be
\* sent from the action it stands at.
ClaimAgain(r, u) ==
  /\ ledger[u].row # "unseen" /\ UNCHANGED taken
  /\ \/ ~Pending(u) /\ answered' = answered \cup {u} /\ UNCHANGED <<ledger, req>>
     \/ /\ ledger[u].row = "rendering" /\ ledger[u].left = 0
        /\ ledger' = Lease(u, r)
        /\ req' = [req EXCEPT ![r].at = "render", ![r].id = u]
        /\ UNCHANGED answered
     \/ /\ ledger[u].row = "sending"
        /\ req' = [req EXCEPT ![r].at = "claim", ![r].id = u, ![r].index = ledger[u].next]
        /\ UNCHANGED <<ledger, answered>>

\* Telegram posts an update that was not answered yet.
Post(r, u) ==
  /\ req[r].at = "idle" /\ u \notin answered
  /\ ClaimFresh(r, u) \/ ClaimAgain(r, u)
  /\ UNCHANGED <<changed, posted, said>>

\* Faulty variant: a handler that runs again changes things again.
EffectAgain(u) == changed' = [changed EXCEPT ![u] = @ + 1]

\* telegramEffectOnce: the first result is kept, and replayed to a handler that runs again.
EffectOnce(u) == changed' = IF ledger[u].effect THEN changed ELSE [changed EXCEPT ![u] = @ + 1]

\* The handler makes its change and renders its answer, or throws and keeps the lease.  Once a
\* rendering was stored, the change is refused.
Render(r) ==
  LET u == req[r].id
  IN  /\ req[r].at = "render"
      /\ IF ledger[u].row = "rendering"
           THEN EffectOnce(u) /\ ledger' = [ledger EXCEPT ![u].effect = TRUE]
           ELSE UNCHANGED <<changed, ledger>>
      /\ \/ \E w \in Words : req' = [req EXCEPT ![r].at = "store", ![r].words = w]
         \/ Fail(r)
      /\ UNCHANGED <<taken, answered, posted, said>>

\* A second rendering is stored only if it says the same.
Storable(u, w) == ledger[u].row = "rendering" \/ (ledger[u].row = "sending" /\ ledger[u].words = w)

\* Storing the same words again gives back the lease of whoever sends them by now.
Store(r) ==
  LET u == req[r].id  w == req[r].words
  IN  /\ req[r].at = "store"
      /\ posted' = IF Storable(u, w) /\ ledger[u].row = "sending" THEN [posted EXCEPT ![u][ledger[u].next] = "excused"] ELSE posted
      /\ IF ~Storable(u, w) THEN Fail(r) /\ UNCHANGED <<ledger, answered>>
         ELSE IF Actions[u] = <<>>
           THEN /\ ledger' = [ledger EXCEPT ![u].row = "closed", ![u].effect = FALSE]
                /\ answered' = answered \cup {u} /\ Fail(r)
           ELSE /\ ledger' = [ledger EXCEPT ![u].row = "sending", ![u].words = w, ![u].left = 0, ![u].by = Nobody, ![u].effect = FALSE]
                /\ req' = [req EXCEPT ![r].at = "claim", ![r].index = ledger[u].next]
                /\ UNCHANGED answered
      /\ UNCHANGED <<taken, changed, said>>

\* Faulty variant: a lease lasts until it is given back.
FreeWhenGivenBack(u) == ledger[u].by = Nobody

\* Nobody is at the next action of the update: its lease ran out or was given back.
Free(u) == ledger[u].left = 0

\* claimTelegramAction: a lease that has not run out sends the request away.
ClaimAction(r) ==
  LET u == req[r].id  i == req[r].index
  IN  /\ req[r].at = "claim"
      /\ IF ledger[u].row = "sending" /\ ledger[u].next = i /\ Free(u)
           THEN /\ ledger' = Lease(u, r) /\ Goto(r, "send")
                /\ posted' = [posted EXCEPT ![u][i] = IF ledger[u].by # Nobody /\ @ = "once" THEN "excused" ELSE @]
           ELSE Fail(r) /\ UNCHANGED <<ledger, posted>>
      /\ UNCHANGED <<taken, answered, changed, said>>

\* botApiCallResult: Telegram took the message, refused it, or nobody can say.
Outcomes == {"accepted", "refused", "uncertain"}

\* What becomes of an action: an uncertain message or photo keeps its lease, a refused message
\* gives it back, an answer to a callback gives it back unless it is final.
After(kind, outcome) ==
  CASE outcome = "accepted"                        -> "advance"
    [] outcome = "refused" /\ kind # "message"     -> "advance"
    [] outcome = "uncertain" /\ kind # "callback"  -> "idle"
    [] OTHER                                       -> "release"

Send(r, outcome) ==
  LET u == req[r].id  i == req[r].index
  IN  /\ req[r].at = "send"
      /\ \E reached \in IF outcome = "uncertain" THEN BOOLEAN ELSE {outcome = "accepted"} :
           /\ posted' = [posted EXCEPT ![u][i] = IF ~reached \/ @ = "excused" THEN @ ELSE IF @ = "once" THEN "twice" ELSE "once"]
           /\ said' = [said EXCEPT ![u] = IF reached THEN @ \cup {ledger[u].words} ELSE @]
      /\ Goto(r, After(Actions[u][i], outcome))
      /\ UNCHANGED <<ledger, taken, answered, changed>>

Holds(r) ==
  LET u == req[r].id IN ledger[u].row = "sending" /\ ledger[u].next = req[r].index /\ ledger[u].by = r

Release(r) ==
  /\ req[r].at = "release" /\ Fail(r)
  /\ ledger' = IF Holds(r) THEN [ledger EXCEPT ![req[r].id].left = 0, ![req[r].id].by = Nobody] ELSE ledger
  /\ UNCHANGED <<taken, past>>

\* advanceTelegramResponse: the last action closes the update.
Advance(r) ==
  LET u == req[r].id  i == req[r].index
  IN  /\ req[r].at = "advance"
      /\ IF ~Holds(r) THEN Fail(r) /\ UNCHANGED <<ledger, answered>>
         ELSE IF i = Len(Actions[u])
           THEN /\ ledger' = [ledger EXCEPT ![u].row = "closed", ![u].left = 0]
                /\ answered' = answered \cup {u} /\ Fail(r)
           ELSE /\ ledger' = [ledger EXCEPT ![u].next = i + 1, ![u].left = 0, ![u].by = Nobody]
                /\ req' = [req EXCEPT ![r].at = "claim", ![r].index = i + 1]
                /\ UNCHANGED answered
      /\ UNCHANGED <<taken, changed, posted, said>>

\* The isolate dies, or an answer of the Watch object is lost.
Die(r) == req[r].at # "idle" /\ Fail(r) /\ UNCHANGED <<ledger, taken, past>>

-----------------------------------------------------------------------------
Goes(r) ==
  \/ \E outcome \in Outcomes : Send(r, outcome)
  \/ Render(r) \/ Store(r) \/ ClaimAction(r) \/ Release(r) \/ Advance(r)

Next ==
  \/ Tick \/ BucketExpires
  \/ \E r \in Requests :
       \/ \E u \in Ids : Post(r, u)
       \/ Goes(r) \/ Die(r)

Spec == Init /\ [][Next]_vars

\* Telegram repeats what was not answered, leases run out, no request hangs, and each step of an update that is
\* tried again and again goes well in the end.
Fairness ==
  /\ WF_vars(Tick) /\ WF_vars(BucketExpires) /\ \A r \in Requests : WF_vars(Goes(r) \/ Die(r))
  /\ \A u \in Ids :
       /\ SF_vars(\E r \in Requests : Post(r, u))
       /\ SF_vars(\E r \in Requests : req[r].id = u /\ Render(r) /\ req'[r].at = "store")
       /\ SF_vars(\E r \in Requests : req[r].id = u /\ Store(r) /\ ledger' # ledger)
       /\ SF_vars(\E r \in Requests : req[r].id = u /\ ClaimAction(r) /\ ledger' # ledger)
       /\ SF_vars(\E r \in Requests : req[r].id = u /\ Send(r, "accepted"))
       /\ SF_vars(\E r \in Requests : req[r].id = u /\ Advance(r))

FairSpec == Spec /\ Fairness

-----------------------------------------------------------------------------
\* A command changes what it changes once, however often its update is delivered.
ChangedOnce == \A u \in Ids : changed[u] <= 1

\* A message is posted a second time only after the lease of whoever sent it ran out unrecorded
\* or was given back by a late rendering of the same words, and no action is sent before those
\* ahead of it are over.
PostedOnce ==
  \A u \in Ids : \A i \in DOMAIN Actions[u] :
    /\ Actions[u][i] # "callback" => posted[u][i] # "twice"
    /\ posted[u][i] # "no" => ledger[u].next >= i

\* Nobody sends an action while another request is at it under a lease that has not run out.
OneSender ==
  \A q, r \in Requests : req[q].at = "send" /\ req[r].at = "send" /\ req[q].id = req[r].id => q = r

\* All that is said in answer to an update comes from one rendering.
OneRendering == \A u \in Ids : \A v, w \in said[u] : v = w

\* However often and by however many requests an update is delivered, it changes things once, each
\* of its messages is posted once, and they are all of one rendering.
AnsweredOnce == ChangedOnce /\ PostedOnce /\ OneRendering

\* Every update Telegram delivers is answered in the end: no lease, refusal or dead request keeps
\* it from being taken up again.  (An update that was taken up stays so, and so does an answer.)
IsAnswered == <>[](\A u \in Ids : ledger[u].row = "unseen" \/ u \in answered)
=============================================================================
