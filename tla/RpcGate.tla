-------------------------------- MODULE RpcGate --------------------------------
(***************************************************************************)
(* The one gate every read of the chain goes through (bot/src/rpc.js): a   *)
(* queue, a few requests in flight, a pause between two starts, and after  *)
(* a refusal or a broken answer a cooldown that doubles.  Times are what   *)
(* is left of them; they run down together.                                *)
(***************************************************************************)
EXTENDS Naturals, Sequences

CONSTANTS
  Calls,       \* reads asked of the gate
  Logs,        \* those that read logs, which are spaced wider
  InFlight, MaxRetries, Spacing, LogsSpacing, Cooldown, MaxCooldown

VARIABLES
  gate,  \* queue, requests in flight, what is left of the spacing, of the cooldown and, plus one, of the timer (0: none set)
  backoff,
  call   \* each call: its state and how often it was sent

vars == <<gate, backoff, call>>

TypeOK ==
  /\ gate.queue \in Seq(Calls) /\ gate.active \in 0..InFlight
  /\ gate.next \in 0..LogsSpacing /\ gate.cool \in 0..MaxCooldown /\ gate.timer \in 0..(MaxCooldown + LogsSpacing + 1)
  /\ backoff \in Cooldown..MaxCooldown
  /\ call \in [Calls -> [is : {"new", "waiting", "flying", "resolved", "rejected"}, tries : 0..(MaxRetries + 1)]]

Init ==
  /\ gate = [queue |-> <<>>, active |-> 0, next |-> 0, cool |-> 0, timer |-> 0]
  /\ backoff = Cooldown
  /\ call = [c \in Calls |-> [is |-> "new", tries |-> 0]]

Larger(a, b)  == IF a < b THEN b ELSE a
Smaller(a, b) == IF a < b THEN a ELSE b

\* pump: nothing while a timer is set; when it is too early, a timer; else one request more.
Pumped(g) ==
  LET wait == Larger(g.next, g.cool)
  IN  IF g.timer > 0 \/ g.active >= InFlight \/ g.queue = <<>> THEN g
      ELSE IF wait > 0 THEN [g EXCEPT !.timer = wait + 1]
      ELSE [g EXCEPT !.queue = Tail(@), !.active = @ + 1, !.next = IF Head(g.queue) \in Logs THEN LogsSpacing ELSE Spacing]

\* It calls itself until one of them stops it: at most InFlight requests start at once.
Pump(g) == Pumped(Pumped(Pumped(g)))

\* The calls that left the queue are on their way.
Sent(before, after, c) ==
  [x \in Calls |-> IF (\E n \in DOMAIN before : before[n] = x) /\ ~\E n \in DOMAIN after : after[n] = x
                     THEN [c[x] EXCEPT !.is = "flying"] ELSE c[x]]

\* The gate goes on from g, with the calls as in c.
Goes(g, c) == gate' = Pump(g) /\ call' = Sent(g.queue, Pump(g).queue, c)

-----------------------------------------------------------------------------
Call(c) ==
  /\ call[c].is = "new"
  /\ Goes([gate EXCEPT !.queue = Append(@, c)], [call EXCEPT ![c].is = "waiting"])
  /\ UNCHANGED backoff

\* Time passes.
Tick ==
  /\ gate.next > 0 \/ gate.cool > 0 \/ gate.timer > 1
  /\ gate' = [gate EXCEPT !.next = IF @ > 0 THEN @ - 1 ELSE 0, !.cool = IF @ > 0 THEN @ - 1 ELSE 0, !.timer = IF @ > 1 THEN @ - 1 ELSE @]
  /\ UNCHANGED <<backoff, call>>

\* The timer may be late: it was set for the longer of the two times of then.
Fire ==
  /\ gate.timer = 1
  /\ Goes([gate EXCEPT !.timer = 0], call)
  /\ UNCHANGED backoff

\* Faulty variant: a request that ends leaves the queue to the timer.
LeftToTimer(g, c) == gate' = g /\ call' = c

\* The finally of a request: its place is free, and the queue goes on.
Finally(g, c) == Goes(g, c)

Ended(g) == [g EXCEPT !.active = @ - 1]

\* A result: the wait starts small again.
Resolve(c) ==
  /\ call[c].is = "flying"
  /\ backoff' = Cooldown
  /\ Finally(Ended(gate), [call EXCEPT ![c].is = "resolved"])

\* An error the endpoint reports is the caller's.
Reject(c) ==
  /\ call[c].is = "flying"
  /\ UNCHANGED backoff
  /\ Finally(Ended(gate), [call EXCEPT ![c].is = "rejected"])

Doubled(c) == Smaller(2 * backoff, MaxCooldown)

\* A 429, a deadline, a status, a body or an envelope that will not do: a cooldown, and the call goes to the
\* head of the queue again, or is given up.
Fails(c) ==
  LET tries == call[c].tries + 1
      g     == [Ended(gate) EXCEPT !.cool = backoff]
  IN  /\ call[c].is = "flying"
      /\ backoff' = Doubled(c)
      /\ IF tries > MaxRetries
           THEN Finally(g, [call EXCEPT ![c] = [is |-> "rejected", tries |-> tries]])
           ELSE Finally([g EXCEPT !.queue = <<c>> \o @], [call EXCEPT ![c] = [is |-> "waiting", tries |-> tries]])

Next == Tick \/ Fire \/ \E c \in Calls : Call(c) \/ Resolve(c) \/ Reject(c) \/ Fails(c)

Spec == Init /\ [][Next]_vars

\* Time goes on, a timer that is due fires, and a request ends: its deadline sees to that.
Fairness == WF_vars(Tick) /\ WF_vars(Fire) /\ \A c \in Calls : WF_vars(Resolve(c) \/ Reject(c) \/ Fails(c))

FairSpec == Spec /\ Fairness

-----------------------------------------------------------------------------
(* Properties.                                                             *)

\* Every call comes back, with a result or an error, whatever the others meet.  A call that has
\* come back is never made again, so that this says the gate is empty in the end.
CallsSettle == <>[](\A c \in Calls : call[c].is \notin {"waiting", "flying"})
=============================================================================
