------------------------------ MODULE BuyGates -----------------------------
(***************************************************************************)
(* The gates an automatic buy passes before the executor is called: the    *)
(* kill switches an operator sets, the mode and pause a user sets from     *)
(* Telegram, and the delegation.  All of them live in D1 and change while  *)
(* a buy is on its way.                                                    *)
(*                                                                         *)
(* The kill switches are read once per request, when its runtime is built, *)
(* and an operator's request writes back everything it read with one       *)
(* change applied.  Requests of operators do not wait for one another, and *)
(* nothing orders them with the buys.                                      *)
(***************************************************************************)
EXTENDS FiniteSets

CONSTANTS
  Users,     \* users whose trades are bought automatically
  WalletOf,  \* WalletOf[u]: the wallet of u
  Admins,    \* operator requests that may be in flight at a time
  Asked      \* bound: what operators ask for

Wallets  == {WalletOf[u] : u \in Users}
Subjects == Users \cup Wallets
Switches == {"GLOBAL"} \cup Subjects

ASSUME SwitchesAssumption ==
  Users \cap Wallets = {} /\ "GLOBAL" \notin Subjects /\ WalletOf \in [Users -> Wallets]

Asks == [what: Switches, act: {"PAUSE", "RESUME"}]

ASSUME AskedAssumption == Asked \subseteq Asks

VARIABLES
  stored,     \* copy_kill_switches: was GLOBAL ever written, and which switches are paused
  admin,      \* each operator request: its snapshot and what it asks for
  user,       \* copy_users: mode and pause flag
  delegated,  \* the users with an active delegation
  buy,        \* the automatic buy of each user: its step and its runtime's snapshot
  opened,     \* history: an operator has resumed GLOBAL
  chose,      \* history: the users who have switched automatic buying on
  firm        \* history: the switches whose pause was written while no other request was in
              \* flight, and that no request has resumed since; a turn keeps those it began under

vars == <<stored, admin, user, delegated, buy, opened, chose, firm>>

Steps == {"idle", "queued", "authorize", "simulate", "recheck", "pending"}

TypeOK ==
  /\ stored \in [written: BOOLEAN, paused: SUBSET Switches]
  /\ admin \in [Admins -> [busy: BOOLEAN, paused: SUBSET Switches, ask: Asks]]
  /\ user \in [Users -> [mode: {"NOTIFY_ONLY", "AUTO_BUY", "CONFIRM_EACH"}, paused: BOOLEAN]]
  /\ delegated \in SUBSET Users
  /\ buy \in [Users -> [pc: Steps, paused: SUBSET Switches, firm: SUBSET Switches]]
  /\ opened \in BOOLEAN
  /\ chose \in SUBSET Users
  /\ firm \in SUBSET Switches

NoAsk == [what |-> "GLOBAL", act |-> "PAUSE"]
NoBuy == [pc |-> "idle", paused |-> {}, firm |-> {}]

Init ==
  /\ stored = [written |-> FALSE, paused |-> {}]
  /\ admin = [a \in Admins |-> [busy |-> FALSE, paused |-> {}, ask |-> NoAsk]]
  /\ user = [u \in Users |-> [mode |-> "NOTIFY_ONLY", paused |-> TRUE]]
  /\ delegated = {}
  /\ buy = [u \in Users |-> NoBuy]
  /\ opened = FALSE
  /\ chose = {}
  /\ firm = {}

-----------------------------------------------------------------------------
(***************************************************************************)
(* Kill switches.                                                          *)
(***************************************************************************)

\* Faulty variant: a table without a GLOBAL row means open.
LoadRows == stored.paused

\* KillSwitches.load: a table without a GLOBAL row means paused.
Load == IF stored.written THEN stored.paused ELSE stored.paused \cup {"GLOBAL"}

Blocks(paused, u) == {"GLOBAL", u, WalletOf[u]} \cap paused # {}

AdminBegin(a) ==
  /\ ~admin[a].busy
  /\ \E ask \in Asked : admin' = [admin EXCEPT ![a] = [busy |-> TRUE, paused |-> Load, ask |-> ask]]
  /\ UNCHANGED <<stored, user, delegated, buy, opened, chose, firm>>

\* Faulty variant: opening GLOBAL opens everything.
ApplyAndClear(paused, ask) ==
  IF ask.act = "PAUSE" THEN paused \cup {ask.what}
  ELSE IF ask.what = "GLOBAL" THEN {} ELSE paused \ {ask.what}

Apply(paused, ask) ==
  IF ask.act = "PAUSE" THEN paused \cup {ask.what} ELSE paused \ {ask.what}

EndRequest(a) == admin' = [admin EXCEPT ![a] = [busy |-> FALSE, paused |-> {}, ask |-> NoAsk]]

Uncontested(a) == \A b \in Admins \ {a} : ~admin[b].busy

\* persist writes GLOBAL, clears every USER and WALLET row, and sets those of the snapshot.
AdminPersist(a) ==
  /\ admin[a].busy
  /\ stored' = [written |-> TRUE, paused |-> Apply(admin[a].paused, admin[a].ask)]
  /\ EndRequest(a)
  /\ firm' = IF admin[a].ask.act = "PAUSE"
                THEN firm \cup {s \in {admin[a].ask.what} : Uncontested(a)}
                ELSE firm \ {admin[a].ask.what}
  /\ opened' = (opened \/ admin[a].ask = [what |-> "GLOBAL", act |-> "RESUME"])
  /\ UNCHANGED <<user, delegated, buy, chose>>

\* The batch is refused, or the request dies before it.
AdminFails(a) ==
  /\ admin[a].busy
  /\ EndRequest(a)
  /\ UNCHANGED <<stored, user, delegated, buy, opened, chose, firm>>

-----------------------------------------------------------------------------
(***************************************************************************)
(* The user's own controls, from the Telegram surface.                     *)
(***************************************************************************)
ChooseAutoBuy(u) ==
  /\ u \in delegated
  /\ user' = [user EXCEPT ![u].mode = "AUTO_BUY"]
  /\ chose' = chose \cup {u}
  /\ UNCHANGED <<stored, admin, delegated, buy, opened, firm>>

ChooseOther(u) ==
  /\ \E m \in {"NOTIFY_ONLY", "CONFIRM_EACH"} : user' = [user EXCEPT ![u].mode = m]
  /\ UNCHANGED <<stored, admin, delegated, buy, opened, chose, firm>>

SetPause(u) ==
  /\ \E p \in BOOLEAN : user' = [user EXCEPT ![u].paused = p]
  /\ UNCHANGED <<stored, admin, delegated, buy, opened, chose, firm>>

\* A delegation is put, revoked, or runs out.
ChangeDelegation(u) ==
  /\ delegated' = IF u \in delegated THEN delegated \ {u} ELSE delegated \cup {u}
  /\ UNCHANGED <<stored, admin, user, buy, opened, chose, firm>>

-----------------------------------------------------------------------------
(***************************************************************************)
(* An automatic buy.                                                       *)
(***************************************************************************)
Advance(u, to) == buy' = [buy EXCEPT ![u].pc = to]
Refuse(u)      == buy' = [buy EXCEPT ![u] = NoBuy]

\* The /auto-buy route: the user row is read here and never again.
Admit(u) ==
  /\ buy[u].pc = "idle"
  /\ user[u].mode = "AUTO_BUY"
  /\ ~user[u].paused
  /\ Advance(u, "queued")
  /\ UNCHANGED <<stored, admin, user, delegated, opened, chose, firm>>

\* The coordinator builds a runtime, which reads the switches; then the delegation is read.
Start(u) ==
  /\ buy[u].pc = "queued"
  /\ IF u \in delegated
       THEN buy' = [buy EXCEPT ![u] = [pc |-> "authorize", paused |-> Load, firm |-> firm]]
       ELSE Refuse(u)
  /\ UNCHANGED <<stored, admin, user, delegated, opened, chose, firm>>

\* authorize, and the check after the simulation, both ask the runtime's snapshot.
CheckSwitches(u, from, to) ==
  /\ buy[u].pc = from
  /\ IF Blocks(buy[u].paused, u) THEN Refuse(u) ELSE Advance(u, to)
  /\ UNCHANGED <<stored, admin, user, delegated, opened, chose, firm>>

Authorize(u)       == CheckSwitches(u, "authorize", "simulate")
RecheckSwitches(u) == CheckSwitches(u, "simulate", "recheck")

\* The delegation is read from D1 a second time.
RecheckDelegation(u) ==
  /\ buy[u].pc = "recheck"
  /\ IF u \in delegated THEN Advance(u, "pending") ELSE Refuse(u)
  /\ UNCHANGED <<stored, admin, user, delegated, opened, chose, firm>>

CallExecutor(u) ==
  /\ buy[u].pc = "pending"
  /\ Refuse(u)
  /\ UNCHANGED <<stored, admin, user, delegated, opened, chose, firm>>

\* Any other refusal on the way: a cap, the simulation, the replay key, the clock.
GiveUp(u) ==
  /\ buy[u].pc # "idle"
  /\ Refuse(u)
  /\ UNCHANGED <<stored, admin, user, delegated, opened, chose, firm>>

-----------------------------------------------------------------------------
Next ==
  \/ \E a \in Admins : AdminBegin(a) \/ AdminPersist(a) \/ AdminFails(a)
  \/ \E u \in Users :
       \/ ChooseAutoBuy(u) \/ ChooseOther(u) \/ SetPause(u) \/ ChangeDelegation(u)
       \/ Admit(u) \/ Start(u) \/ Authorize(u) \/ RecheckSwitches(u)
       \/ RecheckDelegation(u) \/ CallExecutor(u) \/ GiveUp(u)

Spec == Init /\ [][Next]_vars

-----------------------------------------------------------------------------
\* No buy goes to the executor before an operator has resumed GLOBAL and the user, holding a
\* delegation, has switched automatic buying on: a fresh deployment and a fresh user are
\* paused, and no other request can open either by what it writes back.
NothingBeforeConsent ==
  \A u \in Users : buy[u].pc = "pending" => opened /\ u \in chose

\* A pause written while no other operator request was in flight stops every buy whose turn
\* begins before an operator resumes that switch: the requests that come after it, one by one or
\* side by side and whatever they were asked for, write it back with what they read.  A pause
\* written while another request is in flight is not in this: that request undoes it when it
\* writes back the snapshot it read before.
PauseHolds ==
  \A u \in Users : buy[u].pc = "pending" => ~Blocks(buy[u].firm, u)
=============================================================================
