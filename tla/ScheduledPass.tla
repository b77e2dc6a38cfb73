--------------------------- MODULE ScheduledPass ---------------------------
(***************************************************************************)
(* The scheduled pass of the Copy service: once a minute it expires what   *)
(* is stale and then reconciles what is pending, one call after another    *)
(* to the coordinator of each row's user.  Passes may overlap.             *)
(*                                                                         *)
(* An intent here is what the pass sees of it: open until it is expired,   *)
(* then gone; submitted until it is reconciled for good, then settled.     *)
(***************************************************************************)
EXTENDS Naturals, FiniteSets

CONSTANTS
  Intents,  \* intents of any user, numbered by their updated_at
  Stuck,    \* submitted intents whose reconciliation stays pending for ever
  Limit,    \* the rows a listing of submitted intents returns
  Passes    \* the passes that may run at a time

VARIABLES
  state, \* "new", "open", "submitted", or "done"
  pass   \* each pass: its step and the rows of its listing it has yet to call for

vars == <<state, pass>>

TypeOK ==
  /\ state \in [Intents -> {"new", "open", "submitted", "done"}]
  /\ pass \in [Passes -> [at: {"idle", "expire", "list", "reconcile"}, todo: SUBSET Intents]]

Init ==
  /\ state = [i \in Intents |-> "new"]
  /\ pass = [p \in Passes |-> [at |-> "idle", todo |-> {}]]

-----------------------------------------------------------------------------
In(s) == {i \in Intents : state[i] = s}

\* The user's own calls: an intent is created, and its transaction reported before it expires.
Create(i) ==
  /\ state[i] = "new" /\ \A j \in Intents : j < i => state[j] # "new"
  /\ state' = [state EXCEPT ![i] = "open"]
  /\ UNCHANGED pass

Report(i) ==
  /\ state[i] = "open"
  /\ state' = [state EXCEPT ![i] = "submitted"]
  /\ UNCHANGED pass

\* expireStale lists every open row: its limit is out of reach here.
StartPass(p) ==
  /\ pass[p].at = "idle"
  /\ pass' = [pass EXCEPT ![p] = [at |-> "expire", todo |-> In("open")]]
  /\ UNCHANGED state

\* The rows are called for in the order of their updated_at.
Foremost(todo) == {i \in todo : \A j \in todo : i <= j}

\* A row that is no longer open, or not due, is left as it is.
Expire(p, i) ==
  /\ pass[p].at = "expire" /\ i \in Foremost(pass[p].todo)
  /\ \/ state[i] = "open" /\ state' = [state EXCEPT ![i] = "done"]
     \/ UNCHANGED state
  /\ pass' = [pass EXCEPT ![p].todo = @ \ {i}]

\* A call that throws ends the whole pass, the reconciliation included.
ExpireThrows(p, i) ==
  /\ pass[p].at = "expire" /\ i \in Foremost(pass[p].todo)
  /\ pass' = [pass EXCEPT ![p] = [at |-> "idle", todo |-> {}]]
  /\ UNCHANGED state

Expired(p) ==
  /\ pass[p].at = "expire" /\ pass[p].todo = {}
  /\ pass' = [pass EXCEPT ![p].at = "list"]
  /\ UNCHANGED state

\* A reconciliation that stays pending saves its row without a new updated_at.
Oldest(S) == {i \in S : Cardinality({j \in S : j < i}) < Limit}

ListPending(p) ==
  /\ pass[p].at = "list"
  /\ pass' = [pass EXCEPT ![p] = [at |-> "reconcile", todo |-> Oldest(In("submitted"))]]
  /\ UNCHANGED state

Settle(i) ==
  \/ state[i] = "submitted" /\ i \notin Stuck /\ state' = [state EXCEPT ![i] = "done"]
  \/ UNCHANGED state

\* Faulty variant: a reconciliation that throws ends the pass.
ReconcileOrEnd(p, i) ==
  /\ pass[p].at = "reconcile" /\ i \in Foremost(pass[p].todo)
  /\ Settle(i)
  /\ pass' = [pass EXCEPT ![p].todo = IF i \in Stuck THEN {} ELSE @ \ {i}]

\* A call that throws, or stays pending, leaves the row to the next pass.
Reconcile(p, i) ==
  /\ pass[p].at = "reconcile" /\ i \in Foremost(pass[p].todo)
  /\ Settle(i)
  /\ pass' = [pass EXCEPT ![p].todo = @ \ {i}]

Finish(p) ==
  /\ pass[p].at = "reconcile" /\ pass[p].todo = {}
  /\ pass' = [pass EXCEPT ![p].at = "idle"]
  /\ UNCHANGED state

-----------------------------------------------------------------------------
Step(p) ==
  \/ StartPass(p) \/ Expired(p) \/ ListPending(p) \/ Finish(p)
  \/ \E i \in Intents : Expire(p, i) \/ ExpireThrows(p, i) \/ Reconcile(p, i)

Next == (\E i \in Intents : Create(i) \/ Report(i)) \/ \E p \in Passes : Step(p)

Spec == Init /\ [][Next]_vars

\* The schedule keeps starting passes and a pass goes on; a coordinator may fail now and then,
\* but a row it is called for again and again is one day served.
Fairness ==
  /\ \A p \in Passes : WF_vars(Step(p))
  /\ \A i \in Intents : SF_vars((\E p \in Passes : Expire(p, i) \/ Reconcile(p, i)) /\ state'[i] = "done")

FairSpec == Spec /\ Fairness

-----------------------------------------------------------------------------
\* Whatever is open or submitted comes to an end, unless its own transaction stays pending: as
\* long as fewer transactions stay pending than a listing returns, they keep nobody waiting, and
\* neither does a coordinator that fails now and then.  No row comes back from "done", so that
\* <>[] says this of every one of them.
PassesSettle == <>[](\A i \in Intents \ Stuck : state[i] \notin {"open", "submitted"})
=============================================================================
