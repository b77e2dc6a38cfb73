-------------------------- MODULE Handovers_proofs -------------------------
(***************************************************************************)
(* Proofs about Outbox, SignedCalls and Submissions, and about Handovers,  *)
(* which puts them side by side: for any number of rows, drains,           *)
(* envelopes, isolates, intents and calls.  Names that begin with O, C or  *)
(* D belong to the component that Handovers calls so.                      *)
(***************************************************************************)
EXTENDS Handovers, FiniteSums, TLAPS

(***************************************************************************)
(* Outbox.                                                                 *)
(***************************************************************************)
DrainType ==
  [at: {"idle", "claim", "send", "report", "ack", "discard"}, asked: Nat,
   todo: SUBSET Lines, held: SUBSET Lines, ack: SUBSET Lines, fail: SUBSET Lines]

OShape ==
  /\ now \in Nat
  /\ row \in [Lines -> [state: {"NONE", "PENDING", "SENT", "DEAD"}, attempts: Nat, until: Nat]]
  /\ drain \in [Drains -> DrainType]

\* A row a drain holds is leased until that drain's lease has run out at least.
OHeldInv ==
  \A d \in Drains :
    /\ drain[d].asked <= now
    /\ drain[d].held # {} => drain[d].at \in {"claim", "send"}
    /\ \A r \in drain[d].held : drain[d].asked + Lease <= row[r].until

OAckInv == \A d \in Drains : drain[d].ack \subseteq accepted

OInv == OShape /\ OHeldInv /\ OAckInv /\ O!OneHolder /\ O!SentWasAccepted

-----------------------------------------------------------------------------
LEMMA MinIsIn ==
  ASSUME NEW S, S \subseteq Lines, S # {}
  PROVE  O!Min(S) \in S
<1>1. \E n \in S : \A m \in S : n <= m
  BY LeastElement, LeaseAssumption
<1> QED
  BY <1>1 DEF O!Min

LEMMA OInitInv ==
  ASSUME O!Init
  PROVE  OInv
<1>1. /\ now = 0 /\ row = [r \in Lines |-> [state |-> "NONE", attempts |-> 0, until |-> 0]]
      /\ drain = [d \in Drains |-> O!Resting] /\ accepted = {}
  BY DEF O!Init
<1>2. O!Resting \in DrainType /\ O!Resting.asked = 0 /\ O!Resting.held = {} /\ O!Resting.ack = {}
  BY DEF O!Resting, DrainType
<1>3. OShape
  BY <1>1, <1>2 DEF OShape
<1>4. \A d \in Drains : drain[d].asked = 0 /\ drain[d].held = {} /\ drain[d].ack = {}
  BY <1>1, <1>2
<1>5. OHeldInv /\ OAckInv /\ O!OneHolder
  BY <1>1, <1>4 DEF OHeldInv, OAckInv, O!OneHolder
<1>6. O!SentWasAccepted
  BY <1>1 DEF O!SentWasAccepted
<1> QED
  BY <1>3, <1>5, <1>6 DEF OInv

\* What a drain may do while it leaves the rows alone: it may give up what it holds, or hold it on under
\* the lease it asked for, and reports only what was accepted.
Carries(d, next) ==
  /\ next \in DrainType /\ next.asked <= now
  /\ next.held # {} => next.at \in {"claim", "send"} /\ next.asked = drain[d].asked
  /\ next.held \subseteq drain[d].held
  /\ next.ack \subseteq accepted'

LEMMA CarriesOn ==
  ASSUME OInv, NEW d \in Drains, NEW next, Carries(d, next),
         drain' = [drain EXCEPT ![d] = next], UNCHANGED <<now, row>>, accepted \subseteq accepted'
  PROVE  OInv'
<1>1. /\ drain' \in [Drains -> DrainType] /\ drain'[d] = next
      /\ \A c \in Drains : c # d => drain'[c] = drain[c]
  BY DEF OInv, OShape, Carries
<1>2. OShape'
  BY <1>1 DEF OInv, OShape
<1>3. OHeldInv'
  BY <1>1 DEF OInv, OHeldInv, Carries
<1>4. OAckInv'
  BY <1>1 DEF OInv, OAckInv, Carries
<1>5. O!OneHolder'
  BY <1>1 DEF OInv, O!OneHolder, Carries
<1>6. O!SentWasAccepted'
  BY DEF OInv, O!SentWasAccepted
<1> QED
  BY <1>2, <1>3, <1>4, <1>5, <1>6 DEF OInv

LEMMA OTickInv ==
  ASSUME OInv, O!Tick
  PROVE  OInv'
<1>1. now' = now + 1 /\ now \in Nat /\ UNCHANGED <<row, drain, accepted>>
  BY DEF O!Tick, OInv, OShape
<1>2. OShape' /\ OAckInv' /\ O!SentWasAccepted'
  BY <1>1 DEF OInv, OShape, OAckInv, O!SentWasAccepted
<1>3. \A d \in Drains : drain[d].asked \in Nat
  BY DEF OInv, OShape, DrainType
<1>4. OHeldInv'
  BY <1>1, <1>3 DEF OInv, OHeldInv
<1>5. O!OneHolder'
  BY <1>1, <1>3, LeaseAssumption DEF OInv, O!OneHolder
<1> QED
  BY <1>2, <1>4, <1>5 DEF OInv

\* A step that writes rows: the drains hold nothing more, no lease gets shorter, and only what was
\* accepted is SENT.
HoldsNoMore(d) ==
  /\ drain'[d].asked <= now /\ drain'[d].ack \subseteq accepted
  /\ \/ drain'[d].held = {}
     \/ drain'[d].held = drain[d].held /\ drain'[d].at = drain[d].at /\ drain'[d].asked = drain[d].asked

LeasedOn(r) ==
  /\ row'[r].until >= row[r].until
  /\ row'[r].state = "SENT" => row[r].state = "SENT" \/ r \in accepted

LEMMA RowsMove ==
  ASSUME OInv, OShape', UNCHANGED <<now, accepted>>,
         \A d \in Drains : HoldsNoMore(d), \A r \in Lines : LeasedOn(r)
  PROVE  OInv'
<1>0. \A d \in Drains : /\ drain'[d].asked <= now /\ drain'[d].ack \subseteq accepted
                        /\ \/ drain'[d].held = {}
                           \/ /\ drain'[d].held = drain[d].held /\ drain'[d].at = drain[d].at
                              /\ drain'[d].asked = drain[d].asked
  BY DEF HoldsNoMore
<1>1. \A d \in Drains : drain[d].asked \in Nat /\ drain[d].held \subseteq Lines
  BY DEF OInv, OShape, DrainType
<1>2. \A r \in Lines : row[r].until \in Nat /\ row'[r].until \in Nat
  BY DEF OInv, OShape
<1>3. OHeldInv'
  <2> SUFFICES ASSUME NEW d \in Drains
               PROVE  /\ drain'[d].asked <= now
                      /\ drain'[d].held # {} => drain'[d].at \in {"claim", "send"}
                      /\ \A r \in drain'[d].held : drain'[d].asked + Lease <= row'[r].until
    BY DEF OHeldInv
  <2>1. CASE drain'[d].held = {}
    BY <1>0, <2>1
  <2>2. CASE drain'[d].held = drain[d].held /\ drain'[d].at = drain[d].at /\ drain'[d].asked = drain[d].asked
    <3>1. /\ drain[d].asked <= now /\ (drain[d].held # {} => drain[d].at \in {"claim", "send"})
          /\ \A r \in drain[d].held : drain[d].asked + Lease <= row[r].until
      BY DEF OInv, OHeldInv
    <3>2. ASSUME NEW r \in drain[d].held
          PROVE  drain[d].asked + Lease <= row'[r].until
      <4>1. r \in Lines /\ drain[d].asked + Lease <= row[r].until /\ row'[r].until >= row[r].until
        BY <1>1, <3>1 DEF LeasedOn
      <4> QED
        BY <1>1, <1>2, <4>1, LeaseAssumption
    <3> QED
      BY <2>2, <3>1, <3>2
  <2> QED
    BY <1>0, <2>1, <2>2
<1>4. OAckInv'
  BY <1>0 DEF OAckInv
<1>5. O!OneHolder'
  BY <1>0 DEF OInv, O!OneHolder
<1>6. O!SentWasAccepted'
  BY DEF OInv, O!SentWasAccepted, LeasedOn
<1> QED
  BY <1>3, <1>4, <1>5, <1>6 DEF OInv

LEMMA EnqueueInv ==
  ASSUME OInv, NEW r \in Lines, O!Enqueue(r)
  PROVE  OInv'
<1>1. row' = [row EXCEPT ![r].state = "PENDING"] /\ UNCHANGED <<now, drain, accepted>>
  BY DEF O!Enqueue
<1>2. OShape'
  BY <1>1 DEF OInv, OShape
<1>3. \A q \in Lines : row'[q].until = row[q].until /\ (row'[q].state = "SENT" => row[q].state = "SENT")
  BY <1>1 DEF OInv, OShape
<1>4. \A q \in Lines : row[q].until \in Nat
  BY DEF OInv, OShape
<1>5. \A d \in Drains : drain[d].asked <= now /\ drain[d].ack \subseteq accepted
  BY DEF OInv, OHeldInv, OAckInv
<1>6. \A q \in Lines : LeasedOn(q)
  BY <1>3, <1>4 DEF LeasedOn
<1>7. \A d \in Drains : HoldsNoMore(d)
  BY <1>1, <1>5 DEF HoldsNoMore
<1> QED
  BY <1>1, <1>2, <1>6, <1>7, RowsMove

LEMMA AckAndFailInv ==
  ASSUME OInv, NEW d \in Drains, O!AckAndFail(d)
  PROVE  OInv'
<1>0. /\ drain[d] \in DrainType /\ drain[d].at = "report" /\ drain[d].held = {} /\ drain[d].asked <= now
      /\ drain[d].ack \subseteq accepted /\ UNCHANGED <<now, accepted>> /\ now \in Nat
  BY DEF O!AckAndFail, OInv, OShape, OHeldInv, OAckInv
<1>1. CASE UNCHANGED row /\ drain' = [drain EXCEPT ![d] = O!Resting]
  <2>1. Carries(d, O!Resting)
    BY <1>0 DEF Carries, O!Resting, DrainType
  <2> QED
    BY <1>0, <1>1, <2>1, CarriesOn
<1>2. CASE /\ row' = [r \in Lines |->
                 IF r \in drain[d].fail
                   THEN [row[r] EXCEPT !.state = IF row[r].attempts >= Budget THEN "DEAD" ELSE @]
                   ELSE IF r \in drain[d].ack THEN [row[r] EXCEPT !.state = "SENT"] ELSE row[r]]
           /\ drain' = [drain EXCEPT ![d].at = "ack", ![d].asked = now]
  <2>1. \A r \in Lines : LeasedOn(r)
    <3> SUFFICES ASSUME NEW r \in Lines
                 PROVE  LeasedOn(r)
      OBVIOUS
    <3>1. /\ row'[r].until = row[r].until /\ row[r].until \in Nat
          /\ row'[r].state = "SENT" => row[r].state = "SENT" \/ r \in accepted
      BY <1>0, <1>2 DEF OInv, OShape
    <3> QED
      BY <3>1 DEF LeasedOn
  <2>2. row' \in [Lines -> [state: {"NONE", "PENDING", "SENT", "DEAD"}, attempts: Nat, until: Nat]]
    BY <1>2 DEF OInv, OShape
  <2>3. /\ drain' \in [Drains -> DrainType]
        /\ drain'[d].held = {} /\ drain'[d].asked = now /\ drain'[d].ack = drain[d].ack
        /\ \A c \in Drains : c # d => drain'[c] = drain[c]
    BY <1>0, <1>2 DEF OInv, OShape, DrainType
  <2>4. OShape'
    BY <1>0, <2>2, <2>3 DEF OShape
  <2>5. \A c \in Drains : drain[c].asked <= now /\ drain[c].ack \subseteq accepted
    BY DEF OInv, OHeldInv, OAckInv
  <2>6. ASSUME NEW c \in Drains
        PROVE  HoldsNoMore(c)
    <3>1. CASE c = d
      <4>1. drain'[c].asked = now /\ drain'[c].held = {} /\ drain'[c].ack \subseteq accepted
        BY <1>0, <2>3, <3>1
      <4>2. drain'[c].asked <= now
        BY <1>0, <4>1
      <4> QED
        BY <4>1, <4>2 DEF HoldsNoMore
    <3>2. CASE c # d
      <4>1. drain'[c] = drain[c]
        BY <2>3, <3>2
      <4> QED
        BY <2>5, <4>1 DEF HoldsNoMore
    <3> QED
      BY <3>1, <3>2
  <2> QED
    BY <1>0, <2>1, <2>4, <2>6, RowsMove
<1> QED
  BY <1>1, <1>2 DEF O!AckAndFail

\* A row is claimed when its last lease is over, by the clock the claiming drain began with.
LEMMA ClaimNextInv ==
  ASSUME OInv, NEW d \in Drains, O!ClaimNext(d)
  PROVE  OInv'
<1> DEFINE r == O!Min(drain[d].todo)
<1>0. /\ drain[d] \in DrainType /\ drain[d].at \in {"claim", "discard"} /\ drain[d].todo # {}
      /\ drain[d].asked <= now /\ drain[d].asked \in Nat /\ now \in Nat /\ UNCHANGED <<now, accepted>>
  BY DEF O!ClaimNext, OInv, OShape, OHeldInv, DrainType
<1>1. r \in Lines
  BY <1>0, MinIsIn DEF DrainType
<1>2. \A c \in Drains : drain[c].asked \in Nat /\ drain[c].held \subseteq Lines /\ drain[c].asked <= now
  BY DEF OInv, OShape, OHeldInv, DrainType
<1>3. CASE ~O!Claimable(r, drain[d].asked)
  <2> DEFINE next == [drain[d] EXCEPT !.todo = @ \ {r}]
  <2>1. UNCHANGED row /\ drain' = [drain EXCEPT ![d].todo = @ \ {r}]
    BY <1>3 DEF O!ClaimNext
  <2>2. next \in DrainType /\ next.asked = drain[d].asked /\ next.held = drain[d].held /\ next.ack = drain[d].ack /\ next.at = drain[d].at
    BY <1>0 DEF DrainType
  <2>3. drain' = [drain EXCEPT ![d] = next]
    BY <2>1 DEF OInv, OShape
  <2>4. Carries(d, next)
    BY <1>0, <2>2 DEF Carries, OInv, OHeldInv, OAckInv
  <2> HIDE DEF next
  <2> QED
    BY <1>0, <2>1, <2>3, <2>4, CarriesOn
<1>4. CASE O!Claimable(r, drain[d].asked)
  <2> DEFINE holds == IF drain[d].at = "claim" THEN drain[d].held \cup {r} ELSE drain[d].held
             next  == [drain[d] EXCEPT !.todo = @ \ {r}, !.held = holds]
  <2>1. /\ row[r].until <= drain[d].asked
        /\ row' = [row EXCEPT ![r].until = drain[d].asked + Lease, ![r].attempts = @ + 1]
        /\ drain' = [drain EXCEPT ![d].todo = @ \ {r}, ![d].held = IF drain[d].at = "claim" THEN @ \cup {r} ELSE @]
    BY <1>4 DEF O!ClaimNext, O!Claimable
  <2>2. /\ next \in DrainType /\ next.at = drain[d].at /\ next.asked = drain[d].asked /\ next.held = holds /\ next.ack = drain[d].ack
    BY <1>0, <1>1 DEF DrainType
  <2>3. drain' = [drain EXCEPT ![d] = next]
    BY <2>1 DEF OInv, OShape, DrainType
  <2>4. /\ drain' \in [Drains -> DrainType] /\ drain'[d] = next
        /\ \A c \in Drains : c # d => drain'[c] = drain[c]
    BY <2>2, <2>3 DEF OInv, OShape
  <2>5. /\ row' \in [Lines -> [state: {"NONE", "PENDING", "SENT", "DEAD"}, attempts: Nat, until: Nat]]
        /\ row'[r].until = drain[d].asked + Lease /\ \A q \in Lines : row'[q].state = row[q].state
        /\ \A q \in Lines : q # r => row'[q].until = row[q].until
    BY <1>0, <1>1, <2>1, LeaseAssumption DEF OInv, OShape
  <2>6. \A q \in Lines : row[q].until \in Nat /\ row'[q].until >= row[q].until
    BY <1>0, <1>1, <2>1, <2>5, LeaseAssumption, SMTT(30) DEF OInv, OShape
  <2>7. holds # {} => drain[d].at \in {"claim", "send"}
    BY <1>0 DEF OInv, OHeldInv
  <2> HIDE DEF next
  <2>8. OShape'
    BY <1>0, <2>4, <2>5 DEF OShape
  <2>9. OHeldInv'
    <3>1. ASSUME NEW c \in Drains, NEW q \in drain[c].held
          PROVE  drain[c].asked + Lease <= row'[q].until
      <4>1. q \in Lines /\ drain[c].asked + Lease <= row[q].until
        BY <1>2 DEF OInv, OHeldInv
      <4>2. row[q].until \in Nat /\ row'[q].until >= row[q].until /\ row'[q].until \in Nat
        BY <2>6, <2>5, <4>1
      <4> QED
        BY <1>2, <4>1, <4>2, LeaseAssumption
    <3>2. \A q \in holds : drain[d].asked + Lease <= row'[q].until
      BY <1>0, <2>5, <3>1, LeaseAssumption
    <3>3. /\ drain'[d].asked <= now' /\ (drain'[d].held # {} => drain'[d].at \in {"claim", "send"})
          /\ \A q \in drain'[d].held : drain'[d].asked + Lease <= row'[q].until
      BY <1>0, <2>2, <2>4, <2>7, <3>2
    <3>4. ASSUME NEW c \in Drains, c # d
          PROVE  /\ drain'[c].asked <= now' /\ (drain'[c].held # {} => drain'[c].at \in {"claim", "send"})
                 /\ \A q \in drain'[c].held : drain'[c].asked + Lease <= row'[q].until
      BY <1>0, <2>4, <3>1, <3>4 DEF OInv, OHeldInv
    <3> QED
      BY <3>3, <3>4 DEF OHeldInv
  <2>10. OAckInv'
    BY <1>0, <2>2, <2>4 DEF OInv, OAckInv
  <2>11. \A c \in Drains : c # d /\ r \in drain[c].held => drain[c].asked + Lease <= now
    BY <1>0, <1>1, <1>2, <2>1, <2>6, LeaseAssumption, SMTT(30) DEF OInv, OHeldInv
  <2>12. O!OneHolder'
    <3> SUFFICES ASSUME NEW b \in Drains, NEW c \in Drains, NEW q \in drain'[b].held \cap drain'[c].held, b # c
                 PROVE  drain'[b].asked + Lease <= now' \/ drain'[c].asked + Lease <= now'
      BY DEF O!OneHolder
    <3>1. drain'[b].asked = drain[b].asked /\ drain'[c].asked = drain[c].asked /\ now' = now
      BY <1>0, <2>2, <2>4
    <3>2. q \in drain[b].held \/ (b = d /\ q = r)
      BY <2>2, <2>4
    <3>3. q \in drain[c].held \/ (c = d /\ q = r)
      BY <2>2, <2>4
    <3> QED
      BY <2>11, <3>1, <3>2, <3>3 DEF OInv, O!OneHolder
  <2>13. O!SentWasAccepted'
    BY <1>0, <2>5 DEF OInv, O!SentWasAccepted
  <2> QED
    BY <2>8, <2>9, <2>10, <2>12, <2>13 DEF OInv
<1> QED
  BY <1>3, <1>4

LEMMA SendStepInv ==
  ASSUME OInv, NEW d \in Drains, O!Send(d)
  PROVE  OInv'
<1> DEFINE r == O!Min(drain[d].held)
<1>0. /\ drain[d] \in DrainType /\ drain[d].at = "send" /\ drain[d].held # {} /\ drain[d].asked <= now
      /\ drain[d].ack \subseteq accepted /\ UNCHANGED <<now, row>>
  BY DEF O!Send, OInv, OShape, OHeldInv, OAckInv
<1>1. r \in Lines
  BY <1>0, MinIsIn DEF DrainType
<1>2. PICK outcome \in {"accepted", "refused", "retryable"} :
        /\ drain' = [drain EXCEPT ![d].held = @ \ {r},
                       ![d].ack  = IF O!Reports(outcome) = "ack" THEN @ \cup {r} ELSE @,
                       ![d].fail = IF O!Reports(outcome) = "fail" THEN @ \cup {r} ELSE @]
        /\ accepted' = IF outcome = "accepted" THEN accepted \cup {r} ELSE accepted
  BY DEF O!Send
<1> DEFINE acks  == IF O!Reports(outcome) = "ack" THEN drain[d].ack \cup {r} ELSE drain[d].ack
           fails == IF O!Reports(outcome) = "fail" THEN drain[d].fail \cup {r} ELSE drain[d].fail
           next  == [drain[d] EXCEPT !.held = @ \ {r}, !.ack = acks, !.fail = fails]
<1>3. O!Reports(outcome) = "ack" => outcome = "accepted"
  BY DEF O!Reports
<1>4. acks \subseteq accepted' /\ accepted \subseteq accepted'
  BY <1>0, <1>2, <1>3
<1>5. acks \subseteq Lines /\ fails \subseteq Lines
  BY <1>0, <1>1 DEF DrainType
<1>6. /\ next \in DrainType /\ next.asked = drain[d].asked /\ next.held \subseteq drain[d].held /\ next.ack = acks /\ next.at = "send"
  BY <1>0, <1>5 DEF DrainType
<1>7. drain' = [drain EXCEPT ![d] = next]
  BY <1>2 DEF OInv, OShape
<1>8. Carries(d, next)
  BY <1>0, <1>4, <1>6 DEF Carries
<1> HIDE DEF next
<1> QED
  BY <1>0, <1>4, <1>7, <1>8, CarriesOn

\* The steps that touch neither rows nor what was accepted.
LEMMA QuietInv ==
  ASSUME OInv, NEW d \in Drains,
         O!Select(d) \/ O!Answer(d) \/ O!Report(d) \/ O!LeaseAgain(d) \/ O!Discard(d) \/ O!Die(d)
  PROVE  OInv'
<1>0. /\ drain[d] \in DrainType /\ drain[d].asked <= now /\ now \in Nat /\ drain[d].ack \subseteq accepted
      /\ drain[d].held # {} => drain[d].at \in {"claim", "send"}
  BY DEF OInv, OShape, OHeldInv, OAckInv
<1>1. UNCHANGED <<now, row, accepted>>
  BY DEF O!Select, O!Answer, O!Report, O!LeaseAgain, O!Discard, O!Die
<1>2. \A second, n : O!First(O!Due(second), n) \subseteq Lines
  BY DEF O!First, O!Due
<1>3. Carries(d, O!Resting)
  BY <1>0, <1>1 DEF Carries, O!Resting, DrainType
<1>4. CASE drain' = [drain EXCEPT ![d] = O!Resting]
  BY <1>1, <1>3, <1>4, CarriesOn
<1>5. CASE O!Select(d)
  <2> DEFINE first == O!First(O!Due(now), Limit)
             next  == [O!Resting EXCEPT !.at = "claim", !.asked = now, !.todo = first]
  <2>1. drain' = [drain EXCEPT ![d] = next]
    BY <1>5 DEF O!Select
  <2>2. first \subseteq Lines
    BY <1>2
  <2> HIDE DEF first
  <2>3. /\ next \in DrainType /\ next.asked = now /\ next.held = {} /\ next.ack = {}
    BY <1>0, <2>2 DEF O!Resting, DrainType
  <2>4. Carries(d, next)
    BY <1>0, <2>3 DEF Carries
  <2> HIDE DEF next
  <2> QED
    BY <1>1, <2>1, <2>4, CarriesOn
<1>6. CASE O!Answer(d) /\ drain' = [drain EXCEPT ![d].at = "send"]
  <2> DEFINE next == [drain[d] EXCEPT !.at = "send"]
  <2>1. drain' = [drain EXCEPT ![d] = next]
    BY <1>6 DEF OInv, OShape
  <2>2. Carries(d, next)
    BY <1>0, <1>1 DEF Carries, DrainType
  <2> HIDE DEF next
  <2> QED
    BY <1>1, <2>1, <2>2, CarriesOn
<1>7. CASE O!Report(d)
  <2> DEFINE next == [drain[d] EXCEPT !.at = "report"]
  <2>1. drain[d].held = {}
    BY <1>7 DEF O!Report
  <2>2. drain' = [drain EXCEPT ![d] = next] \/ drain' = [drain EXCEPT ![d] = O!Resting]
    BY <1>7 DEF O!Report, OInv, OShape
  <2>3. Carries(d, next)
    BY <1>0, <1>1, <2>1 DEF Carries, DrainType
  <2> HIDE DEF next
  <2> QED
    BY <1>1, <1>3, <2>2, <2>3, CarriesOn
<1>8. CASE O!LeaseAgain(d)
  <2> DEFINE first == O!First(O!Due(drain[d].asked), Limit)
             next  == [drain[d] EXCEPT !.at = "discard", !.todo = first]
  <2>1. drain' = [drain EXCEPT ![d] = next] /\ drain[d].at = "ack"
    BY <1>8 DEF O!LeaseAgain, OInv, OShape
  <2>2. drain[d].held = {}
    BY <1>0, <2>1
  <2>3. Carries(d, next)
    BY <1>0, <1>1, <1>2, <2>2 DEF Carries, DrainType
  <2> HIDE DEF next
  <2> QED
    BY <1>1, <2>1, <2>3, CarriesOn
<1> QED
  BY <1>4, <1>5, <1>6, <1>7, <1>8 DEF O!Answer, O!Discard, O!Die

LEMMA ONextInv ==
  ASSUME OInv, [O!Next]_(O!vars)
  PROVE  OInv'
<1>1. CASE UNCHANGED O!vars
  <2>1. UNCHANGED <<now, row, drain, accepted>>
    BY <1>1 DEF O!vars
  <2> QED
    BY <2>1 DEF OInv, OShape, OHeldInv, OAckInv, O!OneHolder, O!SentWasAccepted
<1>2. CASE O!Next
  BY <1>2, OTickInv, EnqueueInv, AckAndFailInv, ClaimNextInv, SendStepInv, QuietInv DEF O!Next
<1> QED
  BY <1>1, <1>2

\* Two drains hold one row together only when the lease of one of them is over, and a row is SENT only
\* after the Bot API accepted it: for any number of rows and drains, with drains that outlive their
\* leases, calls that are lost and reports that come late.
THEOREM LinesAreHeldOnce == O!Spec => [](O!OneHolder /\ O!SentWasAccepted)
<1>1. O!Init => OInv
  BY OInitInv
<1>2. OInv /\ [O!Next]_(O!vars) => OInv'
  BY ONextInv
<1>3. OInv => O!OneHolder /\ O!SentWasAccepted
  BY DEF OInv
<1> QED
  BY <1>1, <1>2, <1>3, PTL DEF O!Spec

-----------------------------------------------------------------------------
(***************************************************************************)
(* SignedCalls.                                                            *)
(***************************************************************************)
\* What the promise rests on: the sender's clock and the time of a verification together stay below
\* the age at which an envelope is refused.
Bounds ==
  /\ MaxAge \in Nat /\ Skew \in Nat /\ Latency \in Nat /\ LastVerified \in Nat
  /\ Skew + Latency < MaxAge

CShape ==
  /\ now \in Nat
  /\ issued \in [Envelopes -> Int]
  /\ marks \in [Envelopes -> Nat]
  /\ acted \in [Envelopes -> Nat]
  /\ call \in [Isolates -> [at: {"idle", "swept", "fresh"},
                            env: Envelopes \cup {CHOOSE e \in Envelopes : TRUE}, began: Nat]]

\* An envelope is issued at most Skew ahead of the receiver's clock.
CIssueInv == \A e \in Envelopes : issued[e] = -1 \/ (issued[e] >= Skew /\ issued[e] <= now + Skew)

\* A verification under way began within Latency, and with an envelope that was fresh then.
CCallInv ==
  \A i \in Isolates : call[i].at # "idle" =>
    /\ call[i].env \in Envelopes /\ issued[call[i].env] # -1
    /\ call[i].began <= now /\ now <= call[i].began + Latency
    /\ issued[call[i].env] <= call[i].began + Skew
    /\ call[i].began <= issued[call[i].env] + MaxAge

\* The first second at which the mark of an envelope may have expired.
CKept(e) == issued[e] - Skew + 2 * MaxAge

CTaken(e) == acted[e] = 1 \/ \E i \in Isolates : call[i].at = "fresh" /\ call[i].env = e

\* A claimed envelope is marked for as long as anybody may still verify it.
CMarkInv == \A e \in Envelopes : CTaken(e) => issued[e] # -1 /\ (marks[e] >= CKept(e) \/ now >= CKept(e))

\* One isolate at a time holds an envelope, and none once it was acted upon.
CTakenInv ==
  /\ C!ActedOnce
  /\ \A i \in Isolates : call[i].at = "fresh" =>
       /\ acted[call[i].env] = 0
       /\ \A j \in Isolates : j # i /\ call[j].at = "fresh" => call[j].env # call[i].env

CInv == CShape /\ CIssueInv /\ CCallInv /\ CMarkInv /\ CTakenInv

-----------------------------------------------------------------------------
LEMMA CInitInv ==
  ASSUME Bounds, C!Init
  PROVE  CInv
<1>1. /\ now = 0 /\ issued = [e \in Envelopes |-> -1] /\ marks = [e \in Envelopes |-> 0]
      /\ acted = [e \in Envelopes |-> 0]
      /\ call = [i \in Isolates |-> [at |-> "idle", env |-> CHOOSE e \in Envelopes : TRUE, began |-> 0]]
  BY DEF C!Init
<1>2. CShape
  BY <1>1 DEF CShape
<1>3. \A e \in Envelopes : issued[e] = -1 /\ acted[e] = 0
  BY <1>1
<1>4. \A i \in Isolates : call[i].at = "idle"
  BY <1>1
<1>5. CIssueInv /\ CCallInv
  BY <1>3, <1>4 DEF CIssueInv, CCallInv
<1>6. \A e \in Envelopes : ~CTaken(e)
  <2>0. 0 # 1
    OBVIOUS
  <2>1. \A e \in Envelopes : ~(acted[e] = 1)
    BY <1>3, <2>0
  <2>2. \A i \in Isolates : ~(call[i].at = "fresh")
    BY <1>4
  <2> QED
    BY <2>1, <2>2 DEF CTaken
<1>7. CMarkInv /\ CTakenInv
  BY <1>3, <1>4, <1>6 DEF CMarkInv, CTakenInv, C!ActedOnce
<1> QED
  BY <1>2, <1>5, <1>7 DEF CInv

LEMMA CTickInv ==
  ASSUME Bounds, CInv, C!Tick
  PROVE  CInv'
<1>1. now \in Nat /\ now' = now + 1 /\ UNCHANGED <<issued, marks, call, acted>>
  BY DEF CInv, CShape, C!Tick
<1>2. CShape'
  BY <1>1 DEF CInv, CShape
<1>3. CIssueInv'
  BY <1>1 DEF CInv, CShape, CIssueInv, Bounds
<1>4. CCallInv'
  <2> SUFFICES ASSUME NEW i \in Isolates, call[i].at # "idle"
               PROVE  /\ call[i].env \in Envelopes /\ issued[call[i].env] # -1
                      /\ call[i].began <= now' /\ now' <= call[i].began + Latency
                      /\ issued[call[i].env] <= call[i].began + Skew
                      /\ call[i].began <= issued[call[i].env] + MaxAge
    BY <1>1 DEF CCallInv
  <2>1. call[i].began \in Nat /\ call[i].began <= now
    BY DEF CInv, CShape, CCallInv
  <2>2. now' - call[i].began <= Latency
    BY DEF C!Tick
  <2>3. now' <= call[i].began + Latency /\ call[i].began <= now'
    BY <1>1, <2>1, <2>2 DEF Bounds
  <2> QED
    BY <2>3 DEF CInv, CCallInv
<1>5. CMarkInv'
  <2> SUFFICES ASSUME NEW e \in Envelopes, CTaken(e)'
               PROVE  (issued[e] # -1 /\ (marks[e] >= CKept(e) \/ now >= CKept(e)))'
    BY DEF CMarkInv
  <2>1. CTaken(e)
    BY <1>1 DEF CTaken
  <2>2. issued[e] # -1 /\ (marks[e] >= CKept(e) \/ now >= CKept(e)) /\ issued[e] \in Int
    BY <2>1 DEF CInv, CMarkInv, CShape
  <2>3. CKept(e)' = CKept(e) /\ CKept(e) \in Int
    BY <1>1, <2>2 DEF CKept, Bounds
  <2> QED
    BY <1>1, <2>2, <2>3
<1>6. CTakenInv'
  BY <1>1 DEF CInv, CTakenInv, C!ActedOnce
<1> QED
  BY <1>2, <1>3, <1>4, <1>5, <1>6 DEF CInv

LEMMA CIssueStepInv ==
  ASSUME Bounds, CInv, NEW e \in Envelopes, C!Issue(e)
  PROVE  CInv'
<1>1. /\ issued[e] = -1 /\ issued' = [issued EXCEPT ![e] = now + Skew]
      /\ UNCHANGED <<now, marks, call, acted>>
  BY DEF C!Issue
<1>2. /\ issued' \in [Envelopes -> Int] /\ issued'[e] = now + Skew /\ now \in Nat
      /\ \A f \in Envelopes : f # e => issued'[f] = issued[f]
  BY <1>1 DEF CInv, CShape, Bounds
<1>3. CShape'
  BY <1>1, <1>2 DEF CInv, CShape
<1>4. CIssueInv'
  BY <1>1, <1>2 DEF CInv, CIssueInv, Bounds
<1>5. ~CTaken(e)
  BY <1>1 DEF CInv, CMarkInv
<1>6. \A i \in Isolates : call[i].at # "idle" => call[i].env # e
  BY <1>1 DEF CInv, CCallInv
<1>7. CCallInv'
  BY <1>1, <1>2, <1>6 DEF CInv, CCallInv
<1>8. CMarkInv'
  BY <1>1, <1>2, <1>5 DEF CInv, CMarkInv, CTaken, CKept
<1>9. CTakenInv'
  BY <1>1 DEF CInv, CTakenInv, C!ActedOnce
<1> QED
  BY <1>3, <1>4, <1>7, <1>8, <1>9 DEF CInv

LEMMA CSweepInv ==
  ASSUME Bounds, CInv, NEW i \in Isolates, NEW e \in Envelopes, C!Sweep(i, e)
  PROVE  CInv'
<1>1. /\ call[i].at = "idle" /\ issued[e] # -1 /\ C!Age(e) <= MaxAge
      /\ marks' = [f \in Envelopes |-> IF marks[f] <= now THEN 0 ELSE marks[f]]
      /\ call' = [call EXCEPT ![i] = [at |-> "swept", env |-> e, began |-> now]]
      /\ UNCHANGED <<now, issued, acted>>
  BY DEF C!Sweep
<1>2. /\ call'[i] = [at |-> "swept", env |-> e, began |-> now]
      /\ \A j \in Isolates : j # i => call'[j] = call[j]
  BY <1>1 DEF CInv, CShape
<1>3. CShape'
  BY <1>1 DEF CInv, CShape
<1>4. issued[e] \in Int /\ now \in Nat /\ issued[e] <= now + Skew /\ now <= issued[e] + MaxAge
  BY <1>1 DEF CInv, CShape, CIssueInv, C!Age, Bounds
<1>5. CIssueInv'
  BY <1>1 DEF CInv, CIssueInv
<1>6. CCallInv'
  BY <1>1, <1>2, <1>4 DEF CInv, CCallInv, Bounds
<1>7. CMarkInv'
  <2> SUFFICES ASSUME NEW f \in Envelopes, CTaken(f)'
               PROVE  (issued[f] # -1 /\ (marks[f] >= CKept(f) \/ now >= CKept(f)))'
    BY DEF CMarkInv
  <2>1. CTaken(f)
    BY <1>1, <1>2 DEF CTaken
  <2>2. issued[f] # -1 /\ (marks[f] >= CKept(f) \/ now >= CKept(f)) /\ issued[f] \in Int /\ marks[f] \in Nat
    BY <2>1 DEF CInv, CMarkInv, CShape
  <2>3. CKept(f)' = CKept(f) /\ CKept(f) \in Int
    BY <1>1, <2>2 DEF CKept, Bounds
  <2>4. marks'[f] = IF marks[f] <= now THEN 0 ELSE marks[f]
    BY <1>1
  <2> QED
    BY <1>1, <1>4, <2>2, <2>3, <2>4
<1>8. CTakenInv'
  BY <1>1, <1>2 DEF CInv, CTakenInv, C!ActedOnce
<1> QED
  BY <1>3, <1>5, <1>6, <1>7, <1>8 DEF CInv

\* Whoever finds no mark is the first to claim: the mark of an earlier claim outlives every verification.
LEMMA CUnmarkedIsFree ==
  ASSUME Bounds, CInv, NEW i \in Isolates, call[i].at = "swept", marks[call[i].env] = 0
  PROVE  ~CTaken(call[i].env)
<1> DEFINE e == call[i].env
<1>1. /\ e \in Envelopes /\ issued[e] # -1 /\ issued[e] \in Int /\ now \in Nat /\ call[i].began \in Nat
      /\ now <= call[i].began + Latency /\ call[i].began <= issued[e] + MaxAge /\ issued[e] >= Skew
  BY DEF CInv, CShape, CCallInv, CIssueInv
<1>2. CKept(e) > 0 /\ now < CKept(e)
  BY <1>1 DEF CKept, Bounds
<1>3. marks[e] < CKept(e) /\ ~(marks[e] >= CKept(e)) /\ ~(now >= CKept(e))
  BY <1>1, <1>2 DEF CKept, Bounds
<1> QED
  BY <1>1, <1>3 DEF CInv, CMarkInv

LEMMA CClaimInv ==
  ASSUME Bounds, CInv, NEW i \in Isolates, C!Claim(i)
  PROVE  CInv'
<1> DEFINE e == call[i].env
<1>1. /\ call[i].at = "swept" /\ e \in Envelopes /\ UNCHANGED <<now, issued, acted>>
      /\ issued[e] # -1 /\ issued[e] \in Int /\ call[i].began \in Nat /\ issued[e] <= call[i].began + Skew
  BY DEF CInv, CShape, CCallInv, C!Claim
<1>2. CASE marks[e] = 0
  <2>1. /\ marks' = [marks EXCEPT ![e] = call[i].began + MaxAge * 2]
        /\ call' = [call EXCEPT ![i].at = "fresh"]
    BY <1>2 DEF C!Claim, C!KeptUntil
  <2>2. /\ call'[i].at = "fresh" /\ call'[i].env = e /\ call'[i].began = call[i].began
        /\ \A j \in Isolates : j # i => call'[j] = call[j]
    BY <2>1 DEF CInv, CShape
  <2>3. /\ marks' \in [Envelopes -> Nat] /\ marks'[e] = call[i].began + MaxAge * 2
        /\ \A f \in Envelopes : f # e => marks'[f] = marks[f]
    BY <1>1, <2>1 DEF CInv, CShape, Bounds
  <2>4. CShape'
    BY <1>1, <2>1, <2>3 DEF CInv, CShape
  <2>5. CIssueInv'
    BY <1>1 DEF CInv, CIssueInv
  <2>6. CCallInv'
    BY <1>1, <2>2 DEF CInv, CCallInv
  <2>7. ~CTaken(e)
    BY <1>1, <1>2, CUnmarkedIsFree
  <2>8. CMarkInv'
    <3> SUFFICES ASSUME NEW f \in Envelopes, CTaken(f)'
                 PROVE  (issued[f] # -1 /\ (marks[f] >= CKept(f) \/ now >= CKept(f)))'
      BY DEF CMarkInv
    <3>1. CASE f = e
      <4>1. CKept(f)' = CKept(f) /\ marks'[f] = call[i].began + MaxAge * 2
        BY <1>1, <2>3, <3>1 DEF CKept
      <4>2. call[i].began + MaxAge * 2 >= CKept(f)
        BY <1>1, <3>1 DEF CKept, Bounds
      <4> QED
        BY <1>1, <3>1, <4>1, <4>2
    <3>2. CASE f # e
      <4>1. CTaken(f)
        BY <1>1, <2>2, <3>2 DEF CTaken
      <4> QED
        BY <1>1, <2>3, <3>2, <4>1 DEF CInv, CMarkInv, CKept
    <3> QED
      BY <3>1, <3>2
  <2>9. CTakenInv'
    <3>1. acted[e] = 0 /\ \A j \in Isolates : call[j].at = "fresh" => call[j].env # e
      <4>1. acted[e] \in Nat /\ acted[e] <= 1 /\ acted[e] # 1
        BY <1>1, <2>7 DEF CInv, CShape, CTakenInv, C!ActedOnce, CTaken
      <4> QED
        BY <2>7, <4>1 DEF CTaken
    <3> QED
      BY <1>1, <2>2, <3>1 DEF CInv, CTakenInv, C!ActedOnce
  <2> QED
    BY <2>4, <2>5, <2>6, <2>8, <2>9 DEF CInv
<1>3. CASE marks[e] # 0
  <2>1. UNCHANGED marks /\ call' = [call EXCEPT ![i].at = "idle"]
    BY <1>3 DEF C!Claim
  <2>2. /\ call'[i].at = "idle"
        /\ \A j \in Isolates : j # i => call'[j] = call[j]
    BY <2>1 DEF CInv, CShape
  <2>3. CShape' /\ CIssueInv' /\ CCallInv'
    BY <1>1, <2>1, <2>2 DEF CInv, CShape, CIssueInv, CCallInv
  <2>4. \A f \in Envelopes : CTaken(f)' => CTaken(f)
    BY <1>1, <2>2 DEF CTaken
  <2>5. CMarkInv'
    BY <1>1, <2>1, <2>4 DEF CInv, CMarkInv, CKept
  <2>6. CTakenInv'
    BY <1>1, <2>2 DEF CInv, CTakenInv, C!ActedOnce
  <2> QED
    BY <2>3, <2>5, <2>6 DEF CInv
<1> QED
  BY <1>2, <1>3

LEMMA CActInv ==
  ASSUME Bounds, CInv, NEW i \in Isolates, C!Act(i)
  PROVE  CInv'
<1> DEFINE e == call[i].env
<1>1. /\ call[i].at = "fresh" /\ e \in Envelopes /\ UNCHANGED <<now, issued, marks>> /\ acted[e] = 0
      /\ acted' = [acted EXCEPT ![e] = @ + 1] /\ call' = [call EXCEPT ![i].at = "idle"]
  BY DEF CInv, CShape, CCallInv, CTakenInv, C!Act
<1>2. /\ call'[i].at = "idle"
      /\ \A j \in Isolates : j # i => call'[j] = call[j]
  BY <1>1 DEF CInv, CShape
<1>3. acted' \in [Envelopes -> Nat] /\ acted'[e] = 1 /\ \A f \in Envelopes : f # e => acted'[f] = acted[f]
  BY <1>1 DEF CInv, CShape
<1>4. CShape' /\ CIssueInv' /\ CCallInv'
  BY <1>1, <1>2, <1>3 DEF CInv, CShape, CIssueInv, CCallInv
<1>5. \A f \in Envelopes : CTaken(f)' => CTaken(f)
  BY <1>1, <1>2, <1>3 DEF CTaken
<1>6. CMarkInv'
  BY <1>1, <1>5 DEF CInv, CMarkInv, CKept
<1>7. \A j \in Isolates : call'[j].at = "fresh" => j # i /\ call[j].at = "fresh" /\ call[j].env # e /\ call[j].env \in Envelopes
  BY <1>1, <1>2 DEF CInv, CTakenInv, CCallInv
<1>8. C!ActedOnce'
  BY <1>3 DEF CInv, CTakenInv, C!ActedOnce
<1>9. CTakenInv'
  BY <1>2, <1>3, <1>7, <1>8 DEF CInv, CTakenInv
<1> QED
  BY <1>4, <1>6, <1>9 DEF CInv

LEMMA CNextInv ==
  ASSUME Bounds, CInv, [C!Next]_(C!vars)
  PROVE  CInv'
<1>1. CASE UNCHANGED C!vars
  <2>1. UNCHANGED <<now, issued, marks, call, acted>>
    BY <1>1 DEF C!vars
  <2> QED
    BY <2>1 DEF CInv, CShape, CIssueInv, CCallInv, CMarkInv, CTakenInv, C!ActedOnce, CTaken, CKept
<1>2. CASE C!Next
  BY <1>2, CTickInv, CIssueStepInv, CSweepInv, CClaimInv, CActInv DEF C!Next
<1> QED
  BY <1>1, <1>2

\* An envelope is acted upon once, however late, often and widely it is delivered, as long as the
\* skew of the clocks and the time of a verification stay below the freshness window together.
THEOREM CallsActOnce ==
  ASSUME Bounds
  PROVE  C!Spec => []C!ActedOnce
<1>1. C!Init => CInv
  BY CInitInv
<1>2. CInv /\ [C!Next]_(C!vars) => CInv'
  BY CNextInv
<1>3. CInv => C!ActedOnce
  BY DEF CInv, CTakenInv
<1> QED
  BY <1>1, <1>2, <1>3, PTL DEF C!Spec

-----------------------------------------------------------------------------
(***************************************************************************)
(* Submissions.                                                            *)
(***************************************************************************)
\* What a call that is not idle stands at once it has won the row of its intent.
DWinning == {"claimed", "sent", "failed"}

\* A call that never began has no intent to speak of.
DCallType ==
  [Submitters -> [at: {"idle", "checked", "claimed", "denied", "sent", "failed"},
             intent: Intents \cup {CHOOSE i \in Intents : TRUE}, told: D!Answers]]

\* The parts of the state a send depends on.
DShape ==
  /\ row \in [Intents -> {"NONE", "PENDING", "SUBMITTED", "UNCERTAIN"}]
  /\ sent \in [Intents -> Nat]
  /\ call \in DCallType
  /\ \A c \in Submitters : call[c].at # "idle" \/ call[c].told = "hash" => call[c].intent \in Intents

\* The row of an intent knows more than its sends: no row, no send; a submitted one was sent.
DRowInv ==
  \A i \in Intents :
    /\ sent[i] <= 1
    /\ row[i] = "NONE" => sent[i] = 0
    /\ row[i] = "SUBMITTED" => sent[i] = 1

\* A call that won finds its row pending until it marks it itself, and is the only one at its intent.
DCallInv ==
  \A c \in Submitters :
    /\ call[c].at \in DWinning => row[call[c].intent] = "PENDING"
    /\ call[c].at = "claimed" => sent[call[c].intent] = 0
    /\ call[c].at = "sent" => sent[call[c].intent] = 1
    /\ call[c].told = "hash" => row[call[c].intent] = "SUBMITTED"
    /\ \A d \in Submitters : c # d /\ call[c].at \in DWinning /\ call[d].at \in DWinning => call[c].intent # call[d].intent

DInv == DShape /\ DRowInv /\ DCallInv

-----------------------------------------------------------------------------
LEMMA DInitInv == D!Init => DInv
<1> SUFFICES ASSUME D!Init
             PROVE  DInv
  OBVIOUS
<1>1. DShape
  BY DEF D!Init, DShape, DCallType, D!Answers
<1>2. DRowInv
  <2>1. row = [i \in Intents |-> "NONE"] /\ sent = [i \in Intents |-> 0]
    BY DEF D!Init
  <2>2. \A i \in Intents : row[i] = "NONE" /\ sent[i] = 0
    BY <2>1
  <2>3. 0 \in Nat /\ 0 <= 1 /\ "SUBMITTED" # "NONE"
    OBVIOUS
  <2> QED
    BY <2>2, <2>3 DEF DRowInv
<1>3. DCallInv
  BY DEF D!Init, DCallInv, DWinning
<1> QED
  BY <1>1, <1>2, <1>3 DEF DInv

LEMMA DStutterInv ==
  ASSUME DInv, UNCHANGED <<row, call, sent>>
  PROVE  DInv'
BY DEF DInv, DShape, DRowInv, DCallInv

LEMMA DSubmitInv ==
  ASSUME DInv, NEW c \in Submitters, NEW i \in Intents, D!Submit(c, i)
  PROVE  DInv'
<1>1. UNCHANGED <<row, sent>> /\ call' \in DCallType
  BY DEF DInv, DShape, DCallType, D!Submit, D!Answers
<1>2. \A d \in Submitters : d # c => call'[d] = call[d]
  BY DEF DInv, DShape, DCallType, D!Submit
<1>3. call'[c].at \in {"idle", "checked"} /\ call'[c].intent = i /\ call'[c].told # "hash"
  BY DEF DInv, DShape, DCallType, D!Submit
<1>4. DShape'
  BY <1>1, <1>2, <1>3 DEF DInv, DShape
<1>5. DCallInv'
  BY <1>1, <1>2, <1>3 DEF DInv, DCallInv, DWinning
<1> QED
  BY <1>1, <1>4, <1>5 DEF DInv, DRowInv

\* What a step of a call that has begun does to the calls: its own moves on, with its intent.
DMoves(c, at, told) ==
  /\ call'[c].at = at /\ call'[c].intent = call[c].intent /\ call'[c].told = told
  /\ \A d \in Submitters : d # c => call'[d] = call[d]

LEMMA DGotoMoves ==
  ASSUME DShape, NEW c \in Submitters, NEW from \in {"checked", "claimed", "sent"},
         NEW to \in {"claimed", "denied", "sent", "failed"}, D!Goto(c, from, to)
  PROVE  /\ DMoves(c, to, call[c].told) /\ call[c].intent \in Intents
         /\ call' \in DCallType
BY DEF DShape, DCallType, D!Goto, DMoves

LEMMA DTellMoves ==
  ASSUME DShape, NEW c \in Submitters, NEW answer \in D!Answers, call[c].at # "idle", D!Tell(c, answer)
  PROVE  /\ DMoves(c, "idle", answer) /\ call[c].intent \in Intents
         /\ call' \in DCallType
<1> DEFINE ended == [call EXCEPT ![c].at = "idle"]
<1>1. call \in DCallType /\ call[c].intent \in Intents
  BY DEF DShape
<1>2. /\ ended \in DCallType /\ ended[c].at = "idle" /\ ended[c].intent = call[c].intent
      /\ \A d \in Submitters : d # c => ended[d] = call[d]
  BY <1>1 DEF DCallType
<1>3. call' = [ended EXCEPT ![c].told = answer]
  BY <1>1 DEF DCallType, D!Tell
<1> HIDE DEF ended
<1>4. /\ call' \in DCallType /\ call'[c].at = ended[c].at /\ call'[c].intent = ended[c].intent
      /\ call'[c].told = answer /\ \A d \in Submitters : d # c => call'[d] = ended[d]
  BY <1>2, <1>3 DEF DCallType
<1> QED
  BY <1>1, <1>2, <1>4 DEF DMoves

LEMMA DClaimInv ==
  ASSUME DInv, NEW c \in Submitters, D!Claim(c)
  PROVE  DInv'
<1> DEFINE i == call[c].intent
<1>0. DShape /\ call[c].at = "checked" /\ i \in Intents /\ UNCHANGED sent
  BY DEF DInv, DShape, D!Claim, D!Goto
<1>1. CASE D!Claimable(i)
  <2>1. D!Goto(c, "checked", "claimed") /\ row' = [row EXCEPT ![i] = "PENDING"] /\ row[i] = "NONE"
    BY <1>1 DEF D!Claim, D!Claimable
  <2>2. DMoves(c, "claimed", call[c].told) /\ call' \in DCallType
    BY <1>0, <2>1, DGotoMoves
  <2>3. DShape'
    BY <1>0, <2>1, <2>2 DEF DShape, DMoves
  <2>4. DRowInv'
    BY <1>0, <2>1 DEF DInv, DRowInv, DShape
  <2>5. DCallInv'
    BY <1>0, <2>1, <2>2 DEF DInv, DRowInv, DCallInv, DShape, DMoves, DWinning
  <2> QED
    BY <2>3, <2>4, <2>5 DEF DInv
<1>2. CASE ~D!Claimable(i)
  <2>1. D!Goto(c, "checked", "denied") /\ UNCHANGED row
    BY <1>2 DEF D!Claim
  <2>2. DMoves(c, "denied", call[c].told) /\ call' \in DCallType
    BY <1>0, <2>1, DGotoMoves
  <2>3. DShape'
    BY <1>0, <2>1, <2>2 DEF DShape, DMoves
  <2>4. DCallInv'
    BY <1>0, <2>1, <2>2 DEF DInv, DCallInv, DMoves, DWinning
  <2> QED
    BY <1>0, <2>1, <2>3, <2>4 DEF DInv, DRowInv
<1> QED
  BY <1>1, <1>2

\* A call that ends says a hash only of a row that is submitted, and leaves the rows alone.
LEMMA DEndInv ==
  ASSUME DInv, NEW c \in Submitters, NEW answer \in D!Answers, call[c].at # "idle", D!Tell(c, answer),
         answer = "hash" => row[call[c].intent] = "SUBMITTED", UNCHANGED <<row, sent>>
  PROVE  DInv'
<1>1. DMoves(c, "idle", answer) /\ call[c].intent \in Intents
      /\ call' \in DCallType
  BY DTellMoves DEF DInv
<1>2. DShape'
  BY <1>1 DEF DInv, DShape, DMoves
<1>3. DCallInv'
  BY <1>1 DEF DInv, DCallInv, DMoves, DWinning
<1> QED
  BY <1>2, <1>3 DEF DInv, DRowInv

LEMMA DDeniedInv ==
  ASSUME DInv, NEW c \in Submitters, D!Denied(c)
  PROVE  DInv'
<1> DEFINE answer == IF row[call[c].intent] = "SUBMITTED" THEN "hash" ELSE "reconcile"
<1>1. answer \in D!Answers /\ (answer = "hash" => row[call[c].intent] = "SUBMITTED")
  BY DEF D!Answers
<1>2. call[c].at # "idle" /\ D!Tell(c, answer) /\ UNCHANGED <<row, sent>>
  BY DEF D!Denied
<1> HIDE DEF answer
<1> QED
  BY <1>1, <1>2, DEndInv

LEMMA DDieInv ==
  ASSUME DInv, NEW c \in Submitters, D!Die(c)
  PROVE  DInv'
<1>1. "none" \in D!Answers /\ call[c].at # "idle" /\ D!Tell(c, "none") /\ UNCHANGED <<row, sent>>
  BY DEF D!Die, D!Answers
<1> QED
  BY <1>1, DEndInv

LEMMA DSendInv ==
  ASSUME DInv, NEW c \in Submitters, D!Send(c)
  PROVE  DInv'
<1> DEFINE i == call[c].intent
<1>1. /\ DShape /\ call[c].at = "claimed" /\ i \in Intents /\ UNCHANGED row
      /\ sent[i] = 0 /\ row[i] = "PENDING"
  BY DEF DInv, DShape, DCallInv, DWinning, D!Send, D!Goto
<1>2. PICK to \in {"sent", "failed"} :
        /\ D!Goto(c, "claimed", to)
        /\ sent' \in {sent, [sent EXCEPT ![i] = @ + 1]}
        /\ to = "sent" => sent' = [sent EXCEPT ![i] = @ + 1]
  BY DEF D!Send
<1>3. DMoves(c, to, call[c].told) /\ call' \in DCallType
  BY <1>1, <1>2, DGotoMoves
<1>4. /\ sent' \in [Intents -> Nat] /\ sent'[i] \in {0, 1} /\ (to = "sent" => sent'[i] = 1)
      /\ \A j \in Intents : j # i => sent'[j] = sent[j]
  BY <1>1, <1>2 DEF DShape
<1>5. DShape'
  BY <1>1, <1>3, <1>4 DEF DShape, DMoves
<1>6. DRowInv'
  BY <1>1, <1>4 DEF DInv, DRowInv
<1>7. DCallInv'
  BY <1>1, <1>2, <1>3, <1>4 DEF DInv, DCallInv, DRowInv, DShape, DMoves, DWinning
<1> QED
  BY <1>5, <1>6, <1>7 DEF DInv

LEMMA DMarkSubmittedInv ==
  ASSUME DInv, NEW c \in Submitters, D!MarkSubmitted(c)
  PROVE  DInv'
<1> DEFINE i == call[c].intent
<1>1. /\ DShape /\ call[c].at = "sent" /\ i \in Intents /\ UNCHANGED sent
      /\ sent[i] = 1 /\ row[i] = "PENDING"
  BY DEF DInv, DShape, DCallInv, DWinning, D!MarkSubmitted
<1>2. CASE D!Tell(c, "hash") /\ row' = [row EXCEPT ![i] = IF @ = "PENDING" THEN "SUBMITTED" ELSE @]
  <2>1. DMoves(c, "idle", "hash") /\ call' \in DCallType
    BY <1>1, <1>2, DTellMoves DEF D!Answers
  <2>2. row' = [row EXCEPT ![i] = "SUBMITTED"]
    BY <1>1, <1>2 DEF DShape
  <2>3. DShape'
    BY <1>1, <2>1, <2>2 DEF DShape, DMoves
  <2>4. DRowInv'
    BY <1>1, <2>2 DEF DInv, DRowInv, DShape
  <2>5. DCallInv'
    BY <1>1, <2>1, <2>2 DEF DInv, DCallInv, DShape, DMoves, DWinning
  <2> QED
    BY <2>3, <2>4, <2>5 DEF DInv
<1>3. CASE D!Goto(c, "sent", "failed") /\ UNCHANGED row
  <2>1. DMoves(c, "failed", call[c].told) /\ call' \in DCallType
    BY <1>1, <1>3, DGotoMoves
  <2>2. DShape'
    BY <1>1, <1>3, <2>1 DEF DShape, DMoves
  <2>3. DCallInv'
    BY <1>1, <1>3, <2>1 DEF DInv, DCallInv, DMoves, DWinning
  <2> QED
    BY <1>1, <1>3, <2>2, <2>3 DEF DInv, DRowInv
<1> QED
  BY <1>2, <1>3 DEF D!MarkSubmitted

LEMMA DMarkUncertainInv ==
  ASSUME DInv, NEW c \in Submitters, D!MarkUncertain(c)
  PROVE  DInv'
<1> DEFINE i == call[c].intent
<1>1. /\ DShape /\ call[c].at = "failed" /\ i \in Intents /\ UNCHANGED sent /\ row[i] = "PENDING"
  BY DEF DInv, DShape, DCallInv, DWinning, D!MarkUncertain
<1>2. DMoves(c, "idle", "uncertain") /\ call' \in DCallType
  BY <1>1, DTellMoves DEF D!MarkUncertain, D!Answers
<1>3. row' = [row EXCEPT ![i] = "UNCERTAIN"]
  BY <1>1 DEF DShape, D!MarkUncertain
<1>4. DShape'
  BY <1>1, <1>2, <1>3 DEF DShape, DMoves
<1>5. DRowInv'
  BY <1>1, <1>3 DEF DInv, DRowInv, DShape
<1>6. DCallInv'
  BY <1>1, <1>2, <1>3 DEF DInv, DCallInv, DShape, DMoves, DWinning
<1> QED
  BY <1>4, <1>5, <1>6 DEF DInv

LEMMA DNextInv == DInv /\ [D!Next]_(D!vars) => DInv'
<1> SUFFICES ASSUME DInv, [D!Next]_(D!vars)
             PROVE  DInv'
  OBVIOUS
<1>1. CASE UNCHANGED D!vars
  BY <1>1, DStutterInv DEF D!vars
<1>2. CASE D!Tick \/ D!Configure
  BY <1>2, DStutterInv DEF D!Tick, D!Configure
<1>3. ASSUME NEW c \in Submitters, NEW i \in Intents, D!Submit(c, i)
      PROVE  DInv'
  BY <1>3, DSubmitInv
<1>4. ASSUME NEW c \in Submitters,
             D!Claim(c) \/ D!Denied(c) \/ D!Send(c) \/ D!MarkSubmitted(c) \/ D!MarkUncertain(c) \/ D!Die(c)
      PROVE  DInv'
  BY <1>4, DClaimInv, DDeniedInv, DSendInv, DMarkSubmittedInv, DMarkUncertainInv, DDieInv
<1> QED
  BY <1>1, <1>2, <1>3, <1>4 DEF D!Next

LEMMA DInvSentOnce == DInv => D!SentOnce
BY DEF DInv, DShape, DRowInv, DCallInv, D!SentOnce

\* A transaction is sent once for its intent, and a caller that is given a hash is given that of a
\* transaction that was sent and stored: however many calls there are, wherever they die, and
\* however often the executor is paused.
THEOREM SubmissionsSendOnce == D!Spec => []D!SentOnce
<1>1. D!Init => DInv
  BY DInitInv
<1>2. DInv /\ [D!Next]_(D!vars) => DInv'
  BY DNextInv
<1>3. DInv => D!SentOnce
  BY DInvSentOnce
<1> QED
  BY <1>1, <1>2, <1>3, PTL DEF D!Spec

-----------------------------------------------------------------------------
(***************************************************************************)
(* Handovers.                                                              *)
(***************************************************************************)
HandoversInv ==
  /\ part = "outbox" => OInv
  /\ part = "calls" => CInv
  /\ part = "submissions" => DInv

LEMMA HandoversNextInv ==
  ASSUME Bounds, HandoversInv, [HandoversNext]_HandoversVars
  PROVE  HandoversInv'
<1>1. part' = part
  BY DEF HandoversNext, HandoversVars
<1>2. ASSUME part = "outbox"
      PROVE  OInv'
  <2>1. [O!Next]_(O!vars)
    BY <1>2 DEF HandoversNext, HandoversVars, O!vars
  <2> QED
    BY <1>2, <2>1, ONextInv DEF HandoversInv
<1>3. ASSUME part = "calls"
      PROVE  CInv'
  <2>1. [C!Next]_(C!vars)
    BY <1>3 DEF HandoversNext, HandoversVars, C!vars
  <2> QED
    BY <1>3, <2>1, CNextInv DEF HandoversInv
<1>4. ASSUME part = "submissions"
      PROVE  DInv'
  <2>1. [D!Next]_(D!vars)
    BY <1>4 DEF HandoversNext, HandoversVars, D!vars
  <2> QED
    BY <1>4, <2>1, DNextInv DEF HandoversInv
<1> QED
  BY <1>1, <1>2, <1>3, <1>4 DEF HandoversInv

\* What one service hands another has its effect once: a line is held by one drain and SENT only when it
\* was accepted, a signed call is acted on once, a transaction is sent once.
THEOREM Safe ==
  ASSUME Bounds
  PROVE  HandoversSpec => []HandoversAreSafe
<1>1. HandoversInit => HandoversInv
  BY OInitInv, CInitInv, DInitInv DEF HandoversInit, HandoversInv
<1>2. HandoversInv /\ [HandoversNext]_HandoversVars => HandoversInv'
  BY HandoversNextInv
<1>3. HandoversInv => HandoversAreSafe
  BY DInvSentOnce DEF HandoversInv, HandoversAreSafe, OInv, CInv, CTakenInv
<1> QED
  BY <1>1, <1>2, <1>3, PTL DEF HandoversSpec
=============================================================================
