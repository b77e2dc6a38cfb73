---------------------------- MODULE SignedCalls ----------------------------
(***************************************************************************)
(* Signed envelopes between Core and Copy.  The receiver checks the        *)
(* signature, the age of the envelope and a replay mark in D1, and acts.   *)
(* The network may deliver an envelope late, more than once and to several *)
(* isolates at a time, and the two clocks differ.                          *)
(***************************************************************************)
EXTENDS Integers

CONSTANTS
  Envelopes, \* signed envelopes: an update id, or a request id of a schema
  MaxAge,    \* maxAgeSeconds
  Skew,      \* how far ahead of the receiver's clock the sender's may be
  Latency,   \* bound: seconds a verification may take, its D1 calls included
  Isolates,  \* the receivers
  Horizon    \* bound: the last second

VARIABLES
  now,    \* the receiver's clock
  issued, \* issuedAt of each envelope, by the sender's clock; -1 before it is sent
  marks,  \* copy_gateway_replays: when each mark expires, 0 without one
  call,   \* each isolate: the envelope it verifies, the second it began, and its step
  acted   \* history: how often each envelope was acted upon

vars == <<now, issued, marks, call, acted>>

TypeOK ==
  /\ now \in 0 .. Horizon
  /\ issued \in [Envelopes -> -1 .. Horizon + Skew]
  /\ marks \in [Envelopes -> Nat]
  /\ call \in [Isolates -> [at: {"idle", "swept", "fresh"}, env: Envelopes, began: 0 .. Horizon]]
  /\ acted \in [Envelopes -> Nat]

Init ==
  /\ now = 0
  /\ issued = [e \in Envelopes |-> -1]
  /\ marks = [e \in Envelopes |-> 0]
  /\ call = [i \in Isolates |-> [at |-> "idle", env |-> CHOOSE e \in Envelopes : TRUE, began |-> 0]]
  /\ acted = [e \in Envelopes |-> 0]

-----------------------------------------------------------------------------
Tick ==
  /\ now < Horizon /\ now' = now + 1
  /\ \A i \in Isolates : call[i].at = "idle" \/ now' - call[i].began <= Latency
  /\ UNCHANGED <<issued, marks, call, acted>>

Issue(e) ==
  /\ issued[e] = -1
  /\ issued' = [issued EXCEPT ![e] = now + Skew]
  /\ UNCHANGED <<now, marks, call, acted>>

Age(e) == IF now >= issued[e] THEN now - issued[e] ELSE issued[e] - now

\* claim() begins by deleting the marks that have expired.
Sweep(i, e) ==
  /\ call[i].at = "idle" /\ issued[e] # -1
  /\ Age(e) <= MaxAge
  /\ marks' = [f \in Envelopes |-> IF marks[f] <= now THEN 0 ELSE marks[f]]
  /\ call' = [call EXCEPT ![i] = [at |-> "swept", env |-> e, began |-> now]]
  /\ UNCHANGED <<now, issued, acted>>

KeptUntil(second) == second + MaxAge * 2

\* INSERT OR IGNORE: the mark of somebody else ends the call.
Claim(i) ==
  LET e == call[i].env
  IN  /\ call[i].at = "swept"
      /\ IF marks[e] = 0
           THEN /\ marks' = [marks EXCEPT ![e] = KeptUntil(call[i].began)]
                /\ call' = [call EXCEPT ![i].at = "fresh"]
           ELSE UNCHANGED marks /\ call' = [call EXCEPT ![i].at = "idle"]
      /\ UNCHANGED <<now, issued, acted>>

Act(i) ==
  /\ call[i].at = "fresh"
  /\ acted' = [acted EXCEPT ![call[i].env] = @ + 1]
  /\ call' = [call EXCEPT ![i].at = "idle"]
  /\ UNCHANGED <<now, issued, marks>>

-----------------------------------------------------------------------------
Next ==
  \/ Tick
  \/ \E e \in Envelopes : Issue(e)
  \/ \E i \in Isolates : Claim(i) \/ Act(i) \/ \E e \in Envelopes : Sweep(i, e)

Spec == Init /\ [][Next]_vars

-----------------------------------------------------------------------------
\* However often and however late an envelope is delivered, it is acted upon once, as long as
\* the clocks and the latency together stay below the freshness window (Skew + Latency < MaxAge).
ActedOnce == \A e \in Envelopes : acted[e] <= 1
=============================================================================
