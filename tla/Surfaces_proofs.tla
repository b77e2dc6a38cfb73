--------------------------- MODULE Surfaces_proofs ---------------------------
(***************************************************************************)
(* Theorems about Surfaces, and about each of the components it is made of: *)
(* first what a component keeps (a typed state, the facts one step hands to *)
(* the next), then that every action of it keeps that, then the theorem.   *)
(***************************************************************************)
EXTENDS Surfaces, FiniteSets, FiniteSetTheorems, TLAPS

-----------------------------------------------------------------------------
(***************************************************************************)
(* SecureSheet.                                                            *)
(***************************************************************************)
XShape ==
  /\ offer \in [Offers -> X!Rows]
  /\ pass \in [Screens -> [Offers -> X!Steps]]
  /\ sent \in [Offers -> Nat]
  /\ view \in [Screens -> X!Views]
  /\ card \in [Screens -> Offers \cup {Absent}]
  /\ armed \in [Screens -> Offers \cup {Absent}]

\* The passes that were given the opening of their intent.
XHolding == {"opened", "confirm", "rejected", "declined", "overdue", "wallet", "orphan", "report"}

\* One pass at most holds the opening of an intent, and nobody before it is opened or after it was
\* cancelled; until its pass reports, nothing was sent.
XOffer(i) ==
  /\ sent[i] \in {0, 1}
  /\ offer[i] \in {"awaiting", "cancelled"} => sent[i] = 0 /\ \A s \in Screens : pass[s][i] \notin XHolding
  /\ \A s \in Screens : pass[s][i] \in XHolding \ {"report"} => sent[i] = 0
  /\ \A s, t \in Screens : pass[s][i] \in XHolding /\ pass[t][i] \in XHolding => s = t

XOfferInv == \A i \in Offers : XOffer(i)

\* The card in the review is that of the buttons.
XCardInv == \A s \in Screens : view[s] = "review" => card[s] = armed[s]

XInv == XShape /\ XOfferInv /\ XCardInv

-----------------------------------------------------------------------------
LEMMA XInitInv == X!Init => XInv
<1> SUFFICES ASSUME X!Init PROVE XInv
  OBVIOUS
<1>1. XShape
  BY DEF X!Init, XShape, X!Rows, X!Steps, X!Views
<1>2. XOfferInv
  BY DEF X!Init, XOfferInv, XOffer, XHolding
<1>3. XCardInv
  BY DEF X!Init, XCardInv
<1> QED
  BY <1>1, <1>2, <1>3 DEF XInv

\* One pass takes a step.
XMoves(s, i, to) ==
  /\ pass' \in [Screens -> [Offers -> X!Steps]]
  /\ pass'[s][i] = to
  /\ \A t \in Screens, j \in Offers : t # s \/ j # i => pass'[t][j] = pass[t][j]

LEMMA XStepMoves ==
  ASSUME XShape, NEW s \in Screens, NEW i \in Offers, NEW to \in X!Steps, X!Step(s, i, to)
  PROVE  XMoves(s, i, to)
BY DEF XShape, X!Step, XMoves

LEMMA XStepNames ==
  /\ \A to \in XHolding : to \in X!Steps
  /\ "none" \in X!Steps /\ "read" \in X!Steps /\ "begin" \in X!Steps
BY DEF XHolding, X!Steps

\* The screen is left as it is, or shows how a pass ended.
XSheetStays == UNCHANGED <<view, card, armed>>
XSheetEnds(s) ==
  /\ view' \in [Screens -> X!Views] /\ view'[s] # "review" /\ \A t \in Screens : t # s => view'[t] = view[t]
  /\ card' \in [Screens -> Offers \cup {Absent}] /\ \A t \in Screens : t # s => card'[t] = card[t]
  /\ UNCHANGED armed

XEnds == {"error", "CANCELLED", "EXPIRED", "WALLET_ERROR", "SUBMITTED"}

LEMMA XFinished ==
  ASSUME XShape, NEW s \in Screens, NEW i \in Offers, NEW how \in XEnds, X!Finished(s, i, how)
  PROVE  XMoves(s, i, "none") /\ XSheetEnds(s)
<1>1. XMoves(s, i, "none")
  BY XStepMoves, XStepNames DEF X!Finished
<1>2. /\ view' = [view EXCEPT ![s] = how] /\ card' = [card EXCEPT ![s] = Absent] /\ UNCHANGED armed
      /\ how \in X!Views /\ how # "review"
  BY DEF X!Finished, XEnds, X!Views
<1> QED
  BY <1>1, <1>2 DEF XShape, XSheetEnds

LEMMA XScreens ==
  ASSUME XInv, XSheetStays \/ \E s \in Screens : XSheetEnds(s)
  PROVE  /\ XCardInv' /\ view' \in [Screens -> X!Views]
         /\ card' \in [Screens -> Offers \cup {Absent}] /\ armed' \in [Screens -> Offers \cup {Absent}]
BY DEF XInv, XShape, XCardInv, XSheetStays, XSheetEnds

\* Intents that a step does not concern.
LEMMA XElsewhere ==
  ASSUME XOfferInv, NEW i \in Offers, offer'[i] = offer[i], sent'[i] = sent[i],
         \A s \in Screens : pass'[s][i] = pass[s][i]
  PROVE  XOffer(i)'
BY DEF XOfferInv, XOffer

\* The intent of a pass that ends: its row is as it was, was opened by that pass, or is past that.
LEMMA XEnded ==
  ASSUME XInv, NEW s \in Screens, NEW i \in Offers, XMoves(s, i, "none"), sent'[i] = sent[i],
         \/ offer'[i] = offer[i]
         \/ offer'[i] \notin {"awaiting", "cancelled"}
         \/ pass[s][i] \in XHolding \ {"report"}
  PROVE  XOffer(i)'
<1>1. XOffer(i)
  BY DEF XInv, XOfferInv
<1>2. /\ pass'[s][i] \notin XHolding
      /\ \A t \in Screens : t # s => pass'[t][i] = pass[t][i]
  BY DEF XMoves, XHolding
<1>3. ASSUME offer'[i] \in {"awaiting", "cancelled"}
      PROVE  sent'[i] = 0 /\ \A t \in Screens : pass'[t][i] \notin XHolding
  <2>1. CASE offer'[i] = offer[i]
    BY <1>1, <1>2, <1>3, <2>1 DEF XOffer
  <2>2. CASE pass[s][i] \in XHolding \ {"report"}
    BY <1>1, <1>2, <2>2 DEF XOffer
  <2> QED
    BY <1>3, <2>1, <2>2
<1> QED
  BY <1>1, <1>2, <1>3 DEF XOffer

\* A pass that ends, or goes on with what it holds, while row and history stay.
LEMMA XPassInv ==
  ASSUME XInv, NEW s \in Screens, NEW i \in Offers, NEW to \in X!Steps, XMoves(s, i, to),
         XSheetStays \/ XSheetEnds(s), UNCHANGED <<offer, sent>>,
         to \in XHolding => pass[s][i] \in XHolding \ {"report"}
  PROVE  XInv'
<1>1. XShape' /\ XCardInv'
  BY XScreens DEF XInv, XShape, XMoves
<1>2. XOffer(i)'
  BY DEF XInv, XOfferInv, XOffer, XMoves
<1>3. ASSUME NEW j \in Offers, j # i PROVE XOffer(j)'
  BY <1>3, XElsewhere DEF XInv, XMoves
<1> QED
  BY <1>1, <1>2, <1>3 DEF XInv, XOfferInv

\* A row that moves on without being opened: it is not awaiting any more, and only a pass that holds
\* the opening cancels.
LEMMA XRowInv ==
  ASSUME XInv, NEW i \in Offers, NEW to \in X!Rows \ {"awaiting", "cancelled"}, offer' = [offer EXCEPT ![i] = to],
         UNCHANGED <<sent, pass>>, XSheetStays
  PROVE  XInv'
<1>1. XShape' /\ XCardInv'
  BY XScreens DEF XInv, XShape
<1>2. XOffer(i)'
  BY DEF XInv, XShape, XOfferInv, XOffer
<1>3. ASSUME NEW j \in Offers, j # i PROVE XOffer(j)'
  BY <1>3, XElsewhere DEF XInv, XShape
<1> QED
  BY <1>1, <1>2, <1>3 DEF XInv, XOfferInv

-----------------------------------------------------------------------------
LEMMA XTimeInv ==
  ASSUME XInv, NEW i \in Offers, X!Tick(i) \/ X!Expire(i)
  PROVE  XInv'
<1>1. CASE X!Tick(i)
  <2>1. UNCHANGED <<offer, view, card, armed, pass, sent>>
    BY <1>1 DEF X!Tick, X!sheet
  <2> QED
    BY <2>1 DEF XInv, XShape, XOfferInv, XOffer, XCardInv
<1>2. CASE X!Expire(i)
  <2>1. offer' = [offer EXCEPT ![i] = "expired"] /\ UNCHANGED <<pass, sent>> /\ XSheetStays
    BY <1>2 DEF X!Expire, X!sheet, XSheetStays
  <2> QED
    BY <2>1, XRowInv DEF X!Rows
<1> QED
  BY <1>1, <1>2

LEMMA XHomeInv ==
  ASSUME XInv, NEW s \in Screens, X!Home(s)
  PROVE  XInv'
<1>1. /\ \E to \in {"home", "error"} : view' = [view EXCEPT ![s] = to]
      /\ UNCHANGED <<offer, card, armed, pass, sent>>
  BY DEF X!Home
<1>2. XShape'
  BY <1>1 DEF XInv, XShape, X!Views
<1>3. XCardInv'
  BY <1>1 DEF XInv, XShape, XCardInv
<1>4. XOfferInv'
  BY <1>1 DEF XInv, XOfferInv, XOffer
<1> QED
  BY <1>2, <1>3, <1>4 DEF XInv

\* A closed screen forgets what it held, except for the prompt of the wallet.
LEMMA XCloseInv ==
  ASSUME XInv, NEW s \in Screens, X!Close(s)
  PROVE  XInv'
<1>1. /\ view' = [view EXCEPT ![s] = "closed"] /\ card' = [card EXCEPT ![s] = Absent]
      /\ armed' = [armed EXCEPT ![s] = Absent] /\ UNCHANGED <<offer, sent>>
      /\ pass' = [pass EXCEPT ![s] = [i \in Offers |-> IF pass[s][i] \in {"wallet", "orphan"} THEN "orphan" ELSE "none"]]
  BY DEF X!Close
<1>2. pass' \in [Screens -> [Offers -> X!Steps]]
  BY <1>1 DEF XInv, XShape, X!Steps
<1>3. XShape' /\ XCardInv'
  BY <1>1, <1>2 DEF XInv, XShape, XCardInv, X!Views
<1>4. ASSUME NEW i \in Offers
      PROVE  /\ \A t \in Screens : pass'[t][i] \in XHolding => pass[t][i] \in XHolding
             /\ \A t \in Screens : pass'[t][i] \in XHolding \ {"report"} => pass[t][i] \in XHolding \ {"report"}
  BY <1>1 DEF XInv, XShape, XHolding
<1>5. XOfferInv'
  BY <1>1, <1>4 DEF XInv, XOfferInv, XOffer
<1> QED
  BY <1>3, <1>5 DEF XInv

\* The opening is given to one pass, of an intent nobody had opened.
LEMMA XBeginInv ==
  ASSUME XInv, NEW s \in Screens, NEW i \in Offers, X!BeginSecureSheetConfirmation(s, i)
  PROVE  XInv'
<1>1. /\ XShape /\ pass[s][i] = "begin" /\ UNCHANGED sent
      /\ \/ /\ offer[i] = "awaiting" /\ offer' = [offer EXCEPT ![i] = "confirming"]
            /\ \/ X!Step(s, i, "opened") /\ UNCHANGED X!sheet
               \/ X!Finished(s, i, "error")
         \/ /\ offer' = [offer EXCEPT ![i] = "expired"] \/ UNCHANGED offer
            /\ X!Finished(s, i, "error")
  BY DEF X!BeginSecureSheetConfirmation, X!FirstOpening, XInv
<1>2. \/ XMoves(s, i, "none") /\ XSheetEnds(s)
      \/ XMoves(s, i, "opened") /\ XSheetStays /\ offer[i] = "awaiting" /\ offer' = [offer EXCEPT ![i] = "confirming"]
  BY <1>1, XFinished, XStepMoves, XStepNames DEF XEnds, XHolding, X!sheet, XSheetStays
<1>3. \/ UNCHANGED offer
      \/ \E to \in {"confirming", "expired"} : offer' = [offer EXCEPT ![i] = to]
  BY <1>1
<1>4. offer' \in [Offers -> X!Rows] /\ pass' \in [Screens -> [Offers -> X!Steps]]
  BY <1>1, <1>2, <1>3 DEF XShape, X!Rows, XMoves
<1>5. XShape' /\ XCardInv'
  BY <1>1, <1>2, <1>4, XScreens DEF XShape
<1>6. XOffer(i)'
  <2>1. offer'[i] \in {offer[i], "confirming", "expired"} /\ sent'[i] = sent[i]
    BY <1>1, <1>3 DEF XShape
  <2>2. CASE XMoves(s, i, "none")
    BY <2>1, <2>2, XEnded
  <2>3. CASE XMoves(s, i, "opened") /\ offer[i] = "awaiting" /\ offer' = [offer EXCEPT ![i] = "confirming"]
    <3>1. offer'[i] = "confirming" /\ sent[i] = 0 /\ \A t \in Screens : pass[t][i] \notin XHolding
      BY <1>1, <2>3 DEF XInv, XShape, XOfferInv, XOffer
    <3>2. \A t \in Screens : t # s => pass'[t][i] \notin XHolding
      BY <2>3, <3>1 DEF XMoves
    <3> QED
      BY <2>1, <3>1, <3>2 DEF XOffer
  <2> QED
    BY <1>2, <2>2, <2>3
<1>7. ASSUME NEW j \in Offers, j # i PROVE XOffer(j)'
  BY <1>1, <1>2, <1>3, <1>7, XElsewhere DEF XInv, XShape, XMoves
<1> QED
  BY <1>5, <1>6, <1>7 DEF XInv, XOfferInv

LEMMA XReadInv ==
  ASSUME XInv, NEW s \in Screens, NEW i \in Offers, X!Review(s, i) \/ X!Read(s, i)
  PROVE  XInv'
<1>1. UNCHANGED <<offer, sent>> /\ XShape
  BY DEF X!Review, X!Read, XInv
<1>2. \/ \E to \in {"read", "begin"} : X!Step(s, i, to) /\ UNCHANGED X!sheet
      \/ X!Finished(s, i, "error")
  BY DEF X!Review, X!Read
<1>3. CASE X!Finished(s, i, "error")
  BY <1>1, <1>3, XFinished, XPassInv, XStepNames DEF XEnds, XHolding
<1>4. ASSUME NEW to \in {"read", "begin"}, X!Step(s, i, to), UNCHANGED X!sheet
      PROVE  XInv'
  BY <1>1, <1>4, XStepMoves, XPassInv, XStepNames DEF X!sheet, XSheetStays, XHolding
<1> QED
  BY <1>2, <1>3, <1>4

\* The card and its buttons come together.
LEMMA XShowCardInv ==
  ASSUME XInv, NEW s \in Screens, NEW i \in Offers, X!ShowCard(s, i)
  PROVE  XInv'
<1>1. /\ XShape /\ UNCHANGED <<offer, sent>> /\ pass[s][i] = "opened"
      /\ \/ /\ X!Step(s, i, "confirm") /\ view' = [view EXCEPT ![s] = "review"]
            /\ card' = [card EXCEPT ![s] = i] /\ armed' = [armed EXCEPT ![s] = i]
         \/ X!Finished(s, i, "error")
  BY DEF X!ShowCard, X!Buttons, XInv
<1>2. CASE X!Finished(s, i, "error")
  BY <1>1, <1>2, XFinished, XPassInv, XStepNames DEF XEnds, XHolding
<1>3. CASE /\ X!Step(s, i, "confirm") /\ view' = [view EXCEPT ![s] = "review"]
           /\ card' = [card EXCEPT ![s] = i] /\ armed' = [armed EXCEPT ![s] = i]
  <2>1. XMoves(s, i, "confirm")
    BY <1>1, <1>3, XStepMoves, XStepNames DEF XHolding
  <2>2. XShape'
    BY <1>1, <1>3, <2>1 DEF XShape, XMoves, X!Views
  <2>3. XCardInv'
    BY <1>1, <1>3 DEF XInv, XShape, XCardInv
  <2>4. XOffer(i)'
    BY <1>1, <2>1 DEF XInv, XOfferInv, XOffer, XMoves, XHolding
  <2>5. ASSUME NEW j \in Offers, j # i PROVE XOffer(j)'
    BY <1>1, <2>1, <2>5, XElsewhere DEF XInv, XMoves
  <2> QED
    BY <2>2, <2>3, <2>4, <2>5 DEF XInv, XOfferInv
<1> QED
  BY <1>1, <1>2, <1>3

LEMMA XClickInv ==
  ASSUME XInv, NEW s \in Screens, X!ClickConfirm(s) \/ X!ClickCancel(s)
  PROVE  XInv'
<1> DEFINE i == armed[s]
<1>1. XShape /\ i \in Offers /\ UNCHANGED <<offer, sent>> /\ XSheetStays /\ pass[s][i] = "confirm"
  BY DEF XInv, XShape, X!ClickConfirm, X!ClickCancel, X!sheet, XSheetStays
<1>2. PICK to \in {"wallet", "overdue", "declined"} : X!Step(s, i, to)
  BY DEF X!ClickConfirm, X!ClickCancel
<1>3. to \in XHolding \ {"report"} /\ pass[s][i] \in XHolding \ {"report"}
  BY <1>1 DEF XHolding
<1>4. XMoves(s, i, to)
  BY <1>1, <1>2, <1>3, XStepMoves, XStepNames
<1> HIDE DEF i
<1> QED
  BY <1>1, <1>3, <1>4, XPassInv, XStepNames

\* What is cancelled was opened by the pass that cancels it, and by nobody else.
LEMMA XCancelInv ==
  ASSUME XInv, NEW s \in Screens, NEW i \in Offers, X!Cancel(s, i)
  PROVE  XInv'
<1>1. /\ XShape /\ UNCHANGED sent /\ pass[s][i] \in {"declined", "overdue", "rejected"}
      /\ UNCHANGED offer \/ offer' = [offer EXCEPT ![i] = "cancelled"]
      /\ X!Finished(s, i, X!Told(pass[s][i])) /\ X!Told(pass[s][i]) \in XEnds
  BY DEF X!Cancel, X!Told, XEnds, XInv
<1>2. XMoves(s, i, "none") /\ XSheetEnds(s)
  BY <1>1, XFinished
<1>3. CASE UNCHANGED offer
  BY <1>1, <1>2, <1>3, XPassInv, XStepNames DEF XHolding
<1>4. CASE offer' = [offer EXCEPT ![i] = "cancelled"]
  <2>1. XShape' /\ XCardInv'
    <3>1. offer' \in [Offers -> X!Rows] /\ pass' \in [Screens -> [Offers -> X!Steps]]
      BY <1>1, <1>2, <1>4 DEF XShape, X!Rows, XMoves
    <3> QED
      BY <1>1, <1>2, <3>1, XScreens DEF XShape
  <2>2. XOffer(i)'
    BY <1>1, <1>2, XEnded DEF XHolding
  <2>3. ASSUME NEW j \in Offers, j # i PROVE XOffer(j)'
    BY <1>1, <1>2, <1>4, <2>3, XElsewhere DEF XInv, XShape, XMoves
  <2> QED
    BY <2>1, <2>2, <2>3 DEF XInv, XOfferInv
<1> QED
  BY <1>1, <1>3, <1>4

LEMMA XRefusesInv ==
  ASSUME XInv, NEW s \in Screens, NEW i \in Offers, X!WalletRefuses(s, i)
  PROVE  XInv'
<1>1. XShape /\ UNCHANGED <<offer, sent>>
  BY DEF X!WalletRefuses, XInv
<1>2. CASE pass[s][i] = "wallet" /\ X!Step(s, i, "rejected") /\ UNCHANGED X!sheet
  BY <1>1, <1>2, XStepMoves, XPassInv, XStepNames DEF X!sheet, XSheetStays, XHolding
<1>3. CASE X!Finished(s, i, "WALLET_ERROR")
  BY <1>1, <1>3, XFinished, XPassInv, XStepNames DEF XEnds, XHolding
<1>4. CASE X!Step(s, i, "none") /\ UNCHANGED X!sheet
  BY <1>1, <1>4, XStepMoves, XPassInv, XStepNames DEF X!sheet, XSheetStays, XHolding
<1> QED
  BY <1>2, <1>3, <1>4 DEF X!WalletRefuses

\* The wallet was asked by the pass that holds the opening, and is not asked again.
LEMMA XSendsInv ==
  ASSUME XInv, NEW s \in Screens, NEW i \in Offers, X!WalletSends(s, i)
  PROVE  XInv'
<1>1. /\ XShape /\ UNCHANGED offer /\ sent' = [sent EXCEPT ![i] = @ + 1] /\ pass[s][i] \in {"wallet", "orphan"}
      /\ \/ \E to \in {"report", "none"} : X!Step(s, i, to) /\ UNCHANGED X!sheet
         \/ X!Finished(s, i, "WALLET_ERROR")
  BY DEF X!WalletSends, X!AfterAmbiguous, XInv
<1>2. sent[i] = 0
  BY <1>1 DEF XInv, XOfferInv, XOffer, XHolding
<1>3. /\ \E to \in {"report", "none"} : XMoves(s, i, to)
      /\ XSheetStays \/ XSheetEnds(s)
  BY <1>1, XFinished, XStepMoves, XStepNames DEF XEnds, XHolding, X!sheet, XSheetStays
<1>4. sent' \in [Offers -> Nat] /\ sent'[i] = 1 /\ \A j \in Offers : j # i => sent'[j] = sent[j]
  BY <1>1, <1>2 DEF XShape
<1>5. XShape' /\ XCardInv'
  <2>1. pass' \in [Screens -> [Offers -> X!Steps]]
    BY <1>3 DEF XMoves
  <2> QED
    BY <1>1, <1>3, <1>4, <2>1, XScreens DEF XShape
<1>6. XOffer(i)'
  BY <1>1, <1>3, <1>4 DEF XInv, XOfferInv, XOffer, XMoves, XHolding
<1>7. ASSUME NEW j \in Offers, j # i PROVE XOffer(j)'
  BY <1>1, <1>3, <1>4, <1>7, XElsewhere DEF XInv, XMoves
<1> QED
  BY <1>5, <1>6, <1>7 DEF XInv, XOfferInv

LEMMA XReportInv ==
  ASSUME XInv, NEW s \in Screens, NEW i \in Offers, X!Report(s, i)
  PROVE  XInv'
<1>1. /\ XShape /\ UNCHANGED sent
      /\ \E how \in XEnds : X!Finished(s, i, how)
      /\ UNCHANGED offer \/ \E to \in {"submitted", "review"} : offer' = [offer EXCEPT ![i] = to]
  BY DEF X!Report, XEnds, XInv
<1>2. XMoves(s, i, "none") /\ XSheetEnds(s)
  BY <1>1, XFinished
<1>3. XShape' /\ XCardInv'
  <2>1. offer' \in [Offers -> X!Rows] /\ pass' \in [Screens -> [Offers -> X!Steps]]
    BY <1>1, <1>2 DEF XShape, X!Rows, XMoves
  <2> QED
    BY <1>1, <1>2, <2>1, XScreens DEF XShape
<1>4. XOffer(i)'
  <2>1. offer'[i] = offer[i] \/ offer'[i] \in {"submitted", "review"}
    BY <1>1 DEF XShape
  <2> QED
    BY <1>1, <1>2, <2>1, XEnded
<1>5. ASSUME NEW j \in Offers, j # i PROVE XOffer(j)'
  BY <1>1, <1>2, <1>5, XElsewhere DEF XInv, XShape, XMoves
<1> QED
  BY <1>3, <1>4, <1>5 DEF XInv, XOfferInv

LEMMA XNextInv ==
  ASSUME XInv, [X!Next]_(X!vars)
  PROVE  XInv'
<1>1. CASE UNCHANGED X!vars
  BY <1>1 DEF X!vars, XInv, XShape, XOfferInv, XOffer, XCardInv
<1>2. CASE X!Next
  BY <1>2, XTimeInv, XHomeInv, XCloseInv, XClickInv, XReadInv, XBeginInv, XShowCardInv, XCancelInv,
     XRefusesInv, XSendsInv, XReportInv
     DEF X!Next
<1> QED
  BY <1>1, <1>2

LEMMA XSafe == XInv => X!AskedOnce /\ X!CancelledWasNotSent
<1> SUFFICES ASSUME XInv PROVE X!AskedOnce /\ X!CancelledWasNotSent
  OBVIOUS
<1>1. X!CancelledWasNotSent
  BY DEF XInv, XOfferInv, XOffer, X!CancelledWasNotSent, XHolding
<1>2. ASSUME NEW i \in Offers
      PROVE  sent[i] + Cardinality({s \in Screens : pass[s][i] \in {"wallet", "orphan"}}) <= 1
  <2> DEFINE S == {s \in Screens : pass[s][i] \in {"wallet", "orphan"}}
  <2>1. CASE S = {}
    <3>1. Cardinality(S) = 0
      BY <2>1, FS_EmptySet
    <3> QED
      BY <3>1 DEF XInv, XOfferInv, XOffer
  <2>2. CASE S # {}
    <3>1. PICK s \in Screens : S = {s}
      BY <2>2 DEF XInv, XOfferInv, XOffer, XHolding
    <3>2. Cardinality(S) = 1
      BY <3>1, FS_Singleton
    <3>3. sent[i] = 0
      BY <3>1 DEF XInv, XOfferInv, XOffer, XHolding
    <3> QED
      BY <3>2, <3>3
  <2> QED
    BY <2>1, <2>2
<1>3. \A S : X!Cardinality(S) = Cardinality(S)
  BY DEF X!Cardinality, Cardinality
<1> QED
  BY <1>1, <1>2, <1>3 DEF X!AskedOnce

\* A click is on the card in the review.
LEMMA XTakes ==
  ASSUME XInv, [X!Next]_(X!vars)
  PROVE  X!TakesWhatIsShown
<1> SUFFICES ASSUME NEW s \in Screens, NEW i \in Offers, pass[s][i] = "confirm", pass'[s][i] = "wallet"
             PROVE  card[s] = i
  BY DEF X!TakesWhatIsShown
<1>1. XShape
  BY DEF XInv
<1>2. ASSUME NEW t \in Screens, NEW j \in Offers, NEW to \in X!Steps, X!Step(t, j, to), to # "wallet"
      PROVE  FALSE
  <2>1. XMoves(t, j, to)
    BY <1>1, <1>2, XStepMoves
  <2> QED
    BY <1>2, <2>1 DEF XMoves
<1>3. CASE X!ClickConfirm(s) \/ \E t \in Screens : X!ClickConfirm(t)
  <2>1. PICK t \in Screens : X!ClickConfirm(t)
    BY <1>3
  <2>2. armed[t] \in Offers /\ view[t] = "review" /\ \E to \in {"wallet", "overdue"} : X!Step(t, armed[t], to)
    BY <1>1, <2>1 DEF X!ClickConfirm, XShape
  <2>3. t = s /\ armed[t] = i
    BY <1>1, <2>2, XStepMoves, XStepNames DEF XMoves, XHolding
  <2> QED
    BY <2>2, <2>3 DEF XInv, XCardInv
<1>4. CASE UNCHANGED pass
  BY <1>4
<1>5. ASSUME NEW t \in Screens, X!Close(t)
      PROVE  FALSE
  <2>1. pass'[s][i] \in {pass[s][i], "orphan", "none"}
    BY <1>1, <1>5 DEF X!Close, XShape
  <2> QED
    BY <2>1
<1>6. ASSUME NEW t \in Screens, NEW j \in Offers,
             \/ X!Review(t, j) \/ X!Read(t, j) \/ X!BeginSecureSheetConfirmation(t, j) \/ X!ShowCard(t, j)
             \/ X!Cancel(t, j) \/ X!WalletRefuses(t, j) \/ X!WalletSends(t, j) \/ X!Report(t, j)
      PROVE  FALSE
  <2>1. \E to \in {"none", "read", "begin", "opened", "confirm", "rejected", "report"} : X!Step(t, j, to)
    BY <1>6
    DEF X!Review, X!Read, X!BeginSecureSheetConfirmation, X!ShowCard, X!Cancel, X!WalletRefuses,
        X!WalletSends, X!AfterAmbiguous, X!Report, X!Finished
  <2> QED
    BY <1>2, <2>1, XStepNames DEF XHolding
<1>7. ASSUME NEW t \in Screens, X!ClickCancel(t)
      PROVE  FALSE
  <2>1. armed[t] \in Offers /\ X!Step(t, armed[t], "declined")
    BY <1>1, <1>7 DEF X!ClickCancel, XShape
  <2> QED
    BY <1>2, <2>1, XStepNames DEF XHolding
<1>8. ASSUME NEW j \in Offers, X!Tick(j) \/ X!Expire(j)
      PROVE  UNCHANGED pass
  BY <1>8 DEF X!Tick, X!Expire
<1>9. ASSUME NEW t \in Screens, X!Home(t)
      PROVE  UNCHANGED pass
  BY <1>9 DEF X!Home
<1> QED
  BY <1>3, <1>4, <1>5, <1>6, <1>7, <1>8, <1>9 DEF X!Next, X!vars

\* What the invariant leaves out.
XRestInv == late \in [Offers -> 0 .. 2] /\ list \in [Screens -> SUBSET Offers]

LEMMA XRestStep ==
  ASSUME XRestInv, [X!Next]_(X!vars)
  PROVE  XRestInv'
<1>1. CASE UNCHANGED <<late, list>>
  BY <1>1 DEF XRestInv
<1>2. ASSUME NEW i \in Offers, X!Tick(i)
      PROVE  XRestInv'
  BY <1>2 DEF X!Tick, X!sheet, XRestInv
<1>3. ASSUME NEW i \in Offers, X!Expire(i)
      PROVE  UNCHANGED <<late, list>>
  BY <1>3 DEF X!Expire, X!sheet
<1>4. ASSUME NEW s \in Screens, X!Home(s)
      PROVE  XRestInv'
  <2>1. {i \in Offers : offer[i] = "awaiting"} \in SUBSET Offers
    OBVIOUS
  <2>2. PICK open \in SUBSET Offers : list' = [list EXCEPT ![s] = open] \/ UNCHANGED list
    BY <1>4, <2>1 DEF X!Home
  <2> QED
    BY <1>4, <2>2 DEF X!Home, XRestInv
<1>5. ASSUME NEW s \in Screens, X!Close(s)
      PROVE  XRestInv'
  BY <1>5 DEF X!Close, XRestInv
<1>6. ASSUME NEW s \in Screens, X!ClickConfirm(s) \/ X!ClickCancel(s)
      PROVE  UNCHANGED <<late, list>>
  BY <1>6 DEF X!ClickConfirm, X!ClickCancel, X!sheet
<1>7. ASSUME NEW s \in Screens, NEW i \in Offers,
             \/ X!Review(s, i) \/ X!Read(s, i) \/ X!BeginSecureSheetConfirmation(s, i) \/ X!ShowCard(s, i)
             \/ X!Cancel(s, i) \/ X!WalletRefuses(s, i) \/ X!WalletSends(s, i) \/ X!Report(s, i)
      PROVE  UNCHANGED <<late, list>>
  <2>1. UNCHANGED late
    BY <1>7
    DEF X!Review, X!Read, X!BeginSecureSheetConfirmation, X!ShowCard, X!Cancel, X!WalletRefuses,
        X!WalletSends, X!Report
  <2>2. UNCHANGED list
    BY <1>7
    DEF X!Review, X!Read, X!BeginSecureSheetConfirmation, X!ShowCard, X!Cancel, X!WalletRefuses,
        X!WalletSends, X!Report, X!AfterAmbiguous, X!Finished, X!sheet
  <2> QED
    BY <2>1, <2>2
<1> QED
  BY <1>1, <1>2, <1>3, <1>4, <1>5, <1>6, <1>7 DEF X!Next, X!vars

LEMMA XTyped ==
  ASSUME ScreensAssumption, XInv, XRestInv
  PROVE  X!TypeOK
<1>1. Cardinality(Screens) \in Nat /\ Cardinality(Screens) # 0
  BY FS_CardinalityType, FS_EmptySet DEF ScreensAssumption
<1>2. X!Cardinality(Screens) \in Nat /\ X!Cardinality(Screens) # 0
  BY <1>1 DEF X!Cardinality, Cardinality
<1>3. {0, 1} \subseteq 0 .. X!Cardinality(Screens)
  BY <1>2
<1>4. sent \in [Offers -> {0, 1}]
  BY DEF XInv, XShape, XOfferInv, XOffer
<1> QED
  BY <1>3, <1>4 DEF XInv, XShape, XRestInv, X!TypeOK

\* However many screens are open and however often they are closed, an intent goes to the wallet once,
\* and one that was cancelled never does.
THEOREM SheetsHold == X!Spec => [](X!AskedOnce /\ X!CancelledWasNotSent)
<1>1. X!Init => XInv
  BY XInitInv
<1>2. XInv /\ [X!Next]_(X!vars) => XInv'
  BY XNextInv
<1>3. XInv => X!AskedOnce /\ X!CancelledWasNotSent
  BY XSafe
<1> QED
  BY <1>1, <1>2, <1>3, PTL DEF X!Spec

-----------------------------------------------------------------------------
(***************************************************************************)
(* LocalWallet.                                                            *)
(***************************************************************************)
WFlows == [kind : W!Kinds, at : W!Steps, address : Addresses \cup {Absent}, holds : BOOLEAN, end : W!Ends]

\* Only an operation of another kind than "send" touches the screen, and only one whose record is stored
\* tells the service.
WFlow(f) ==
  /\ flow[f].at \in {"prepare", "account", "backup", "store", "register", "close", "show"} => flow[f].kind # "send"
  /\ flow[f].at # "idle" => flow[f].address \in Addresses
  /\ flow[f].at = "register" => flow[f].address \in vault

\* An operation that will still clear the screen.
WShows(f) == flow[f].kind # "send" /\ flow[f].at \in {"backup", "store", "register", "close", "clear"}

WScreen == display # Absent => \E f \in Flows : WShows(f)

WInv ==
  /\ W!TypeOK
  /\ registered \subseteq vault
  /\ \A f \in Flows : WFlow(f)
  /\ WScreen

-----------------------------------------------------------------------------
LEMMA WInitInv == W!Init => WInv
BY DEF W!Init, W!Idle, W!Kinds, W!Steps, W!Ends, W!TypeOK, WInv, WFlow, WScreen

\* One operation takes a step.  The screen is cleared, or the operation has it to clear, or never did.
WMoves(f) ==
  /\ flow' \in [Flows -> WFlows]
  /\ \A g \in Flows : g # f => flow'[g] = flow[g]
  /\ vault \subseteq vault' /\ vault' \subseteq Addresses
  /\ registered' \subseteq vault'
  /\ WFlow(f)'
  /\ display' \in Addresses \cup {Absent}
  /\ \/ display' = Absent
     \/ WShows(f)'
     \/ display' = display /\ ~WShows(f)

LEMMA WMovesInv ==
  ASSUME WInv, NEW f \in Flows, WMoves(f)
  PROVE  WInv'
<1>1. W!TypeOK' /\ (registered \subseteq vault)'
  BY DEF WMoves, WFlows, W!TypeOK
<1>2. \A g \in Flows : WFlow(g)'
  BY DEF WInv, WMoves, WFlow
<1>3. WScreen'
  <2>1. CASE display' = Absent \/ WShows(f)'
    BY <2>1 DEF WScreen
  <2>2. CASE display' = display /\ ~WShows(f)
    BY <2>2 DEF WInv, WScreen, WShows, WMoves
  <2> QED
    BY <2>1, <2>2 DEF WMoves
<1> QED
  BY <1>1, <1>2, <1>3 DEF WInv

\* One operation goes on to another step.
WGoes(f, step) ==
  /\ flow' \in [Flows -> WFlows]
  /\ \A g \in Flows : g # f => flow'[g] = flow[g]
  /\ flow'[f].kind = flow[f].kind /\ flow'[f].address = flow[f].address /\ flow'[f].at = step

LEMMA WGoing ==
  ASSUME W!TypeOK, NEW f \in Flows, NEW step \in W!Steps, W!Goto(f, step)
  PROVE  WGoes(f, step)
BY DEF W!TypeOK, W!Goto, WGoes, WFlows

LEMMA WLeaving ==
  ASSUME W!TypeOK, NEW f \in Flows, NEW how \in W!Ends, W!Leave(f, how)
  PROVE  WGoes(f, "clear")
<1>1. "clear" \in W!Steps
  BY DEF W!Steps
<1> QED
  BY <1>1 DEF W!TypeOK, W!Leave, WGoes, WFlows

LEMMA WQuitting ==
  ASSUME W!TypeOK, NEW f \in Flows, NEW how \in W!Ends, W!Quit(f, how)
  PROVE  WGoes(f, "idle")
<1>1. "idle" \in W!Steps
  BY DEF W!Steps
<1> QED
  BY <1>1 DEF W!TypeOK, W!Quit, WGoes, WFlows

LEMMA WNames ==
  /\ {"unavailable", "refused", "failed", "sent", "ok", "none"} \subseteq W!Ends
  /\ {"idle", "prepare", "authenticate", "account", "backup", "store"} \subseteq W!Steps
  /\ {"register", "close", "show", "sign", "clear"} \subseteq W!Steps
BY DEF W!Ends, W!Steps

\* ... and nothing else changes.
LEMMA WGoesInv ==
  ASSUME WInv, NEW f \in Flows, NEW step, WGoes(f, step), UNCHANGED <<vault, registered, display>>,
         step \in {"prepare", "account", "backup", "store", "register", "close", "show"} => flow[f].kind # "send",
         step # "idle" => flow[f].at # "idle",
         step = "register" => flow[f].address \in vault,
         WShows(f) => step \in {"backup", "store", "register", "close", "clear"}
  PROVE  WInv'
<1>1. WFlow(f)' /\ (WShows(f) => WShows(f)')
  BY DEF WInv, WGoes, WFlow, WShows
<1>2. WMoves(f)
  BY <1>1 DEF WInv, W!TypeOK, WGoes, WMoves
<1> QED
  BY <1>2, WMovesInv

-----------------------------------------------------------------------------
LEMMA WStartInv ==
  ASSUME WInv, NEW f \in Flows, NEW kind \in W!Kinds, NEW a \in Addresses, W!Start(f, kind, a)
  PROVE  WInv'
<1> DEFINE r == [kind |-> kind, at |-> IF kind = "send" THEN "authenticate" ELSE "prepare", address |-> a,
                 holds |-> FALSE, end |-> "none"]
<1>1. r \in WFlows
  BY DEF WFlows, W!Steps, W!Ends
<1>2. flow[f].at = "idle" /\ flow' = [flow EXCEPT ![f] = r] /\ UNCHANGED <<vault, registered, display>>
  BY DEF W!Start
<1>3. flow'[f] = r
  BY <1>2 DEF WInv, W!TypeOK
<1>4. WFlow(f)' /\ ~WShows(f)
  BY <1>2, <1>3 DEF WFlow, WShows
<1>5. /\ flow' \in [Flows -> WFlows]
      /\ \A g \in Flows : g # f => flow'[g] = flow[g]
  <2> HIDE DEF r
  <2> QED
    BY <1>1, <1>2 DEF WInv, W!TypeOK, WFlows
<1>6. WMoves(f)
  BY <1>2, <1>4, <1>5 DEF WInv, W!TypeOK, WMoves
<1> QED
  BY <1>6, WMovesInv

LEMMA WPrepareInv ==
  ASSUME WInv, NEW f \in Flows, W!Prepare(f)
  PROVE  WInv'
<1>1. flow[f].at = "prepare" /\ UNCHANGED <<vault, registered, display>>
  BY DEF W!Prepare
<1>2. WGoes(f, "authenticate") \/ WGoes(f, "idle")
  BY WGoing, WQuitting, WNames DEF W!Prepare, WInv
<1> QED
  BY <1>1, <1>2, WGoesInv DEF WShows

LEMMA WAuthenticateInv ==
  ASSUME WInv, NEW f \in Flows, W!Authenticate(f)
  PROVE  WInv'
<1>1. flow[f].at = "authenticate" /\ UNCHANGED <<vault, registered, display>>
  BY DEF W!Authenticate
<1>2. \/ WGoes(f, "show") /\ flow[f].kind = "reveal"
      \/ WGoes(f, "sign")
      \/ WGoes(f, "account") /\ flow[f].kind # "send"
      \/ WGoes(f, "idle")
  BY WGoing, WQuitting, WNames DEF W!Authenticate, WInv
<1> QED
  BY <1>1, <1>2, WGoesInv DEF WShows

LEMMA WAccountInv ==
  ASSUME WInv, NEW f \in Flows, W!Account(f)
  PROVE  WInv'
<1>1. flow[f].at = "account" /\ UNCHANGED <<vault, registered, display>>
  BY DEF W!Account
<1>2. flow[f].kind # "send"
  BY <1>1 DEF WInv, WFlow
<1>3. WGoes(f, "backup") \/ WGoes(f, "store") \/ WGoes(f, "clear")
  <2>1. CASE W!Leave(f, "failed")
    BY <2>1, WLeaving, WNames DEF WInv
  <2>2. CASE flow' = [flow EXCEPT ![f].holds = TRUE, ![f].at = IF flow[f].kind = "create" THEN "backup" ELSE "store"]
    BY <2>2, WNames DEF WInv, W!TypeOK, WGoes, WFlows
  <2> QED
    BY <2>1, <2>2 DEF W!Account
<1> QED
  BY <1>1, <1>2, <1>3, WGoesInv DEF WShows

LEMMA WBackupInv ==
  ASSUME WInv, NEW f \in Flows, W!ShowBackup(f) \/ W!ConfirmBackup(f)
  PROVE  WInv'
<1>1. flow[f].at = "backup" /\ flow[f].kind # "send" /\ flow[f].address \in Addresses
  BY DEF WInv, WFlow, W!ShowBackup, W!ConfirmBackup
<1>2. CASE W!ShowBackup(f)
  <2>1. WMoves(f)
    BY <1>1, <1>2 DEF W!ShowBackup, WInv, W!TypeOK, WFlows, WFlow, WMoves, WShows
  <2> QED
    BY <2>1, WMovesInv
<1>3. CASE W!ConfirmBackup(f)
  <2>1. WGoes(f, "store") \/ WGoes(f, "clear")
    BY <1>3, WGoing, WLeaving, WNames DEF W!ConfirmBackup, WInv
  <2> QED
    BY <1>1, <1>3, <2>1, WGoesInv DEF W!ConfirmBackup
<1> QED
  BY <1>2, <1>3

\* First the record, then the address.
LEMMA WPersistInv ==
  ASSUME WInv, NEW f \in Flows, NEW n \in {1, 2}, W!Persist(f, n)
  PROVE  WInv'
<1>1. /\ flow[f].at = IF n = 1 THEN "store" ELSE "register"
      /\ flow[f].kind # "send" /\ flow[f].address \in Addresses
  BY DEF WInv, WFlow, W!Persist
<1>2. CASE W!Leave(f, "failed") /\ UNCHANGED <<vault, registered>>
  <2>1. WGoes(f, "clear") /\ UNCHANGED <<vault, registered, display>>
    BY <1>2, WLeaving, WNames DEF WInv, W!Persist
  <2> QED
    BY <1>1, <2>1, WGoesInv
<1>3. CASE n = 1 /\ vault' = vault \cup {flow[f].address} /\ UNCHANGED <<registered, display>> /\ W!Goto(f, "register")
  <2>1. WGoes(f, "register")
    BY <1>3, WGoing, WNames DEF WInv
  <2>2. WFlow(f)' /\ WShows(f)'
    BY <1>1, <1>3, <2>1 DEF WFlow, WShows, WGoes
  <2>3. WMoves(f)
    BY <1>1, <1>3, <2>1, <2>2 DEF WInv, W!TypeOK, WMoves, WGoes
  <2> QED
    BY <2>3, WMovesInv
<1>4. CASE n = 2 /\ registered' = registered \cup {flow[f].address} /\ UNCHANGED <<vault, display>> /\ W!Goto(f, "close")
  <2>1. WGoes(f, "close") /\ flow[f].address \in vault
    BY <1>1, <1>4, WGoing, WNames DEF WInv, WFlow
  <2>2. WFlow(f)' /\ WShows(f)'
    BY <1>1, <1>4, <2>1 DEF WFlow, WShows, WGoes
  <2>3. WMoves(f)
    BY <1>1, <1>4, <2>1, <2>2 DEF WInv, W!TypeOK, WMoves, WGoes
  <2> QED
    BY <2>3, WMovesInv
<1> QED
  BY <1>2, <1>3, <1>4 DEF W!Persist, W!PersistOrder

LEMMA WCloseInv ==
  ASSUME WInv, NEW f \in Flows, W!CloseSheet(f) \/ W!Sign(f)
  PROVE  WInv'
<1>1. flow[f].at \in {"close", "sign"} /\ UNCHANGED <<vault, registered, display>>
  BY DEF W!CloseSheet, W!Sign
<1>2. WGoes(f, "clear")
  BY WLeaving, WNames DEF W!CloseSheet, W!Sign, WInv
<1> QED
  BY <1>1, <1>2, WGoesInv

LEMMA WShowInv ==
  ASSUME WInv, NEW f \in Flows, W!Show(f)
  PROVE  WInv'
<1>1. flow[f].at = "show" /\ flow[f].kind # "send" /\ flow[f].address \in Addresses /\ UNCHANGED <<vault, registered>>
  BY DEF WInv, WFlow, W!Show
<1>2. CASE W!Leave(f, "failed") /\ UNCHANGED display
  <2>1. WGoes(f, "clear")
    BY <1>2, WLeaving, WNames DEF WInv
  <2> QED
    BY <1>1, <1>2, <2>1, WGoesInv
<1>3. CASE /\ display' = flow[f].address
           /\ flow' = [flow EXCEPT ![f].at = "clear", ![f].holds = TRUE, ![f].end = "ok"]
  <2>1. WGoes(f, "clear")
    BY <1>3, WNames DEF WInv, W!TypeOK, WGoes, WFlows
  <2>2. WFlow(f)' /\ WShows(f)'
    BY <1>1, <2>1 DEF WFlow, WShows, WGoes
  <2>3. WMoves(f)
    BY <1>1, <1>3, <2>1, <2>2 DEF WInv, W!TypeOK, WMoves, WGoes
  <2> QED
    BY <2>3, WMovesInv
<1> QED
  BY <1>2, <1>3 DEF W!Show

LEMMA WClearInv ==
  ASSUME WInv, NEW f \in Flows, W!Clear(f)
  PROVE  WInv'
<1>1. flow[f].at = "clear" /\ UNCHANGED <<vault, registered>>
  BY DEF W!Clear
<1>2. WGoes(f, "idle")
  BY WNames DEF W!Clear, WInv, W!TypeOK, WGoes, WFlows
<1>3. WFlow(f)'
  BY <1>2 DEF WFlow, WGoes
<1>4. display' = Absent \/ (display' = display /\ ~WShows(f))
  BY DEF W!Clear, W!Cleared, WShows
<1>5. WMoves(f)
  BY <1>1, <1>2, <1>3, <1>4 DEF WInv, W!TypeOK, WMoves, WGoes
<1> QED
  BY <1>5, WMovesInv

LEMMA WKillInv ==
  ASSUME WInv, W!Kill
  PROVE  WInv'
BY DEF WInv, W!TypeOK, W!Kill, W!Idle, W!Kinds, W!Steps, W!Ends, WFlow, WScreen

LEMMA WNextInv ==
  ASSUME WInv, [W!Next]_(W!vars)
  PROVE  WInv'
<1>1. CASE UNCHANGED W!vars
  BY <1>1 DEF W!vars, WInv, W!TypeOK, WFlow, WScreen, WShows
<1>2. ASSUME NEW f \in Flows, W!Persist(f, 1) \/ W!Persist(f, 2)
      PROVE  WInv'
  BY <1>2, WPersistInv
<1> QED
  BY <1>1, <1>2, WStartInv, WPrepareInv, WAuthenticateInv, WAccountInv, WBackupInv, WCloseInv,
     WShowInv, WClearInv, WKillInv DEF W!Next

LEMMA WSafe ==
  ASSUME WInv
  PROVE  W!WalletsAreKept
BY DEF WInv, WScreen, WShows, W!WalletsAreKept

\* The service knows no local wallet that the device has no record of, and the screen shows no secret
\* once every operation is over: for any wallets, and however the operations overlap, fail or are killed.
THEOREM WalletsHold == W!Spec => [](W!TypeOK /\ W!WalletsAreKept)
<1>1. W!Init => WInv
  BY WInitInv
<1>2. WInv /\ [W!Next]_(W!vars) => WInv'
  BY WNextInv
<1>3. WInv => W!TypeOK /\ W!WalletsAreKept
  BY WSafe DEF WInv
<1> QED
  BY <1>1, <1>2, <1>3, PTL DEF W!Spec

-----------------------------------------------------------------------------
(***************************************************************************)
(* Holders.                                                                *)
(***************************************************************************)
HCheck == [at: {"new", "told", "read", "done"}, mark: Marks, claimed: Wallets, signer: Wallets, id: People \cup {Absent}]
HEdit  == [at: {"new", "read", "done"}, id: People, wallet: Wallets, add: BOOLEAN, saw: SUBSET Wallets]

\* Checks that were told whose mark they carry, and have not given it a session yet.
HHolds(c, m) == check[c].at \in {"told", "read"} /\ check[c].mark = m

\* A mark is gone once a check was told its owner; that check alone is, and the mark earns a session
\* when the check is over.
HMark(m) ==
  /\ mark[m].state # "gone" => granted[m] = {} /\ \A c \in Checks : ~HHolds(c, m)
  /\ \A c \in Checks : HHolds(c, m) => granted[m] = {} /\ check[c].id = mark[m].owner /\ check[c].id \in People
  /\ \A c, d \in Checks : HHolds(c, m) /\ HHolds(d, m) => c = d
  /\ \A g, h \in granted[m] : g = h
  /\ \A g \in granted[m] : g[1] = mark[m].owner /\ HolderTokens[g[2]] >= Threshold

\* A check goes on to the session when its signer holds enough.
HRead == \A c \in Checks : check[c].at = "read" => HolderTokens[check[c].signer] >= Threshold

HEarned == \A p \in People : session[p] # Absent => \E m \in Marks : \E g \in granted[m] : g[1] = p /\ g[2] = session[p]

\* A list that fits.
HFits(wallets) == IsFiniteSet(wallets) /\ Cardinality(wallets) <= MaxWatched

\* Every list, what a cache holds of it and what an edit read of it.
HListInv ==
  /\ \A p \in People : HFits(list[p].now) /\ HFits(list[p].before)
  /\ \A e \in Edits : edit[e].at = "read" => HFits(edit[e].saw)

HInv == H!TypeOK /\ (\A m \in Marks : HMark(m)) /\ HRead /\ HEarned /\ HListInv

-----------------------------------------------------------------------------
LEMMA HCardinality == \A S : H!Cardinality(S) = Cardinality(S)
BY DEF H!Cardinality, Cardinality

LEMMA HEmptyFits ==
  ASSUME HoldersAssumption
  PROVE  HFits({})
BY FS_EmptySet DEF HoldersAssumption, HFits

LEMMA HInitInv ==
  ASSUME HoldersAssumption, H!Init
  PROVE  HInv
<1>1. /\ (CHOOSE m \in Marks : TRUE) \in Marks
      /\ (CHOOSE w \in Wallets : TRUE) \in Wallets
      /\ (CHOOSE p \in People : TRUE) \in People
  BY DEF HoldersAssumption
<1>2. H!TypeOK
  BY <1>1 DEF H!Init, H!TypeOK, H!Row
<1>3. \A m \in Marks : HMark(m)
  BY DEF H!Init, HMark, HHolds
<1>4. HRead /\ HEarned
  BY DEF H!Init, HRead, HEarned
<1>5. HListInv
  BY HEmptyFits DEF H!Init, HListInv
<1> QED
  BY <1>2, <1>3, <1>4, <1>5 DEF HInv

-----------------------------------------------------------------------------
\* Marks.
LEMMA HMarksInv ==
  ASSUME HInv, \/ H!PruneNonces
               \/ \E m \in Marks : H!MarkExpires(m)
               \/ \E m \in Marks, p \in People : H!PutNonce(p, m)
  PROVE  HInv'
<1>1. UNCHANGED <<session, list, check, edit, granted>>
  BY DEF H!PruneNonces, H!MarkExpires, H!PutNonce
<1>2. mark' \in [Marks -> H!Row] /\ \A m \in Marks : mark'[m] = mark[m] \/ mark[m].state # "gone"
  <2>1. CASE H!PruneNonces
    <3>1. mark' = [m \in Marks |-> IF mark[m].state = "expired"
                                    THEN [owner |-> mark[m].owner, state |-> "gone"] ELSE mark[m]]
      BY <2>1 DEF H!PruneNonces, HInv, H!TypeOK, H!Row
    <3> QED
      BY <3>1 DEF HInv, H!TypeOK, H!Row
  <2>2. CASE \E m \in Marks : H!MarkExpires(m)
    BY <2>2, SMTT(30) DEF H!MarkExpires, HInv, H!TypeOK, H!Row
  <2>3. CASE \E m \in Marks, p \in People : H!PutNonce(p, m)
    BY <2>3 DEF H!PutNonce, HInv, H!TypeOK, H!Row
  <2> QED
    BY <2>1, <2>2, <2>3
<1>4. H!TypeOK'
  BY <1>1, <1>2 DEF HInv, H!TypeOK
<1>5. \A m \in Marks : HMark(m)'
  BY <1>1, <1>2 DEF HInv, HMark, HHolds
<1>6. HRead' /\ HEarned' /\ HListInv'
  BY <1>1 DEF HInv, HRead, HEarned, HListInv, HFits
<1> QED
  BY <1>4, <1>5, <1>6 DEF HInv

\* A mark is given to one check at most: it is gone with the answer.
LEMMA HSpendInv ==
  ASSUME HInv, NEW c \in Checks, NEW m \in Marks, NEW a \in Wallets, NEW s \in Wallets, H!SpendNonce(c, m, a, s)
  PROVE  HInv'
<1> DEFINE k == [at |-> IF H!Owner(m) = Absent \/ s # a THEN "done" ELSE "told",
                 mark |-> m, claimed |-> a, signer |-> s, id |-> H!Owner(m)]
<1>1. UNCHANGED <<session, list, edit, granted>> /\ check[c].at = "new"
  BY DEF H!SpendNonce
<1>2. check' = [check EXCEPT ![c] = k] /\ mark' = H!Taken(m)
  BY DEF H!SpendNonce
<1>3. /\ mark' \in [Marks -> H!Row]
      /\ \A n \in Marks : mark'[n].owner = mark[n].owner
      /\ \A n \in Marks : n # m => mark'[n] = mark[n]
      /\ mark[m].state # "unused" => mark'[m].state = "gone"
      /\ mark[m].state = "unused" => mark'[m] = mark[m]
  BY <1>2 DEF HInv, H!TypeOK, H!Row, H!Taken
<1>4. H!Owner(m) \in People \cup {Absent} /\ k \in HCheck
  BY DEF HInv, H!TypeOK, H!Row, H!Owner, HCheck
<1>5. /\ k.at \in {"done", "told"} /\ k.mark = m /\ k.id = H!Owner(m)
      /\ k.at = "told" => mark[m].state = "live" /\ H!Owner(m) = mark[m].owner /\ H!Owner(m) \in People
  BY <1>4 DEF H!Owner
<1> HIDE DEF k
<1>6. check' \in [Checks -> HCheck] /\ check'[c] = k /\ \A d \in Checks : d # c => check'[d] = check[d]
  BY <1>2, <1>4 DEF HInv, H!TypeOK, HCheck
<1>7. H!TypeOK'
  BY <1>1, <1>3, <1>6 DEF HInv, H!TypeOK, HCheck
<1>8. ASSUME NEW n \in Marks, n # m PROVE HMark(n)'
  BY <1>1, <1>3, <1>5, <1>6, <1>8 DEF HInv, HMark, HHolds
<1>9. HMark(m)'
  <2>1. HMark(m)
    BY DEF HInv
  <2>2. CASE k.at = "told"
    <3>1. mark'[m].state = "gone" /\ granted[m] = {} /\ \A d \in Checks : ~HHolds(d, m)
      BY <1>3, <1>5, <2>1, <2>2 DEF HMark
    <3>2. \A d \in Checks : HHolds(d, m)' => d = c
      BY <1>6, <3>1 DEF HHolds
    <3> QED
      BY <1>1, <1>3, <1>5, <1>6, <2>2, <3>1, <3>2 DEF HMark, HHolds
  <2>3. CASE k.at = "done"
    <3>1. /\ ~HHolds(c, m)' /\ ~HHolds(c, m)
          /\ \A d \in Checks : d # c => (HHolds(d, m)' <=> HHolds(d, m)) /\ check'[d] = check[d]
      BY <1>1, <1>6, <2>3 DEF HHolds
    <3> QED
      BY <1>1, <1>3, <2>1, <3>1 DEF HMark
  <2> QED
    BY <1>5, <2>2, <2>3
<1>10. HRead'
  BY <1>5, <1>6 DEF HInv, HRead
<1>11. HEarned' /\ HListInv'
  BY <1>1 DEF HInv, HEarned, HListInv, HFits
<1> QED
  BY <1>7, <1>8, <1>9, <1>10, <1>11 DEF HInv

LEMMA HReadInv ==
  ASSUME HInv, NEW c \in Checks, H!ReadBalance(c)
  PROVE  HInv'
<1>1. UNCHANGED <<mark, session, list, edit, granted>> /\ check[c].at = "told"
  BY DEF H!ReadBalance
<1>2. /\ check' \in [Checks -> HCheck]
      /\ \A d \in Checks : d # c => check'[d] = check[d]
      /\ check'[c].mark = check[c].mark /\ check'[c].id = check[c].id /\ check'[c].signer = check[c].signer
      /\ check'[c].at = "done" \/ (check'[c].at = "read" /\ HolderTokens[check[c].signer] >= Threshold)
  <2>1. PICK step \in {"done", "read"} : /\ check' = [check EXCEPT ![c].at = step]
                                         /\ step = "read" => HolderTokens[check[c].signer] >= Threshold
    BY DEF H!ReadBalance, H!Answered
  <2> QED
    BY <2>1 DEF HInv, H!TypeOK, HCheck
<1>3. H!TypeOK'
  BY <1>1, <1>2 DEF HInv, H!TypeOK, HCheck
<1>4. ASSUME NEW n \in Marks PROVE HMark(n)'
  <2>1. \A d \in Checks : (HHolds(d, n)' => HHolds(d, n)) /\ check'[d].id = check[d].id
    BY <1>1, <1>2 DEF HHolds
  <2> QED
    BY <1>1, <2>1 DEF HInv, HMark
<1>5. HRead'
  BY <1>2 DEF HInv, HRead
<1>6. HEarned' /\ HListInv'
  BY <1>1 DEF HInv, HEarned, HListInv, HFits
<1> QED
  BY <1>3, <1>4, <1>5, <1>6 DEF HInv

LEMMA HSessionInv ==
  ASSUME HInv, NEW c \in Checks, H!PutSession(c)
  PROVE  HInv'
<1>1. PICK m \in Marks, g \in People \X Wallets \X Checks :
        /\ m = check[c].mark /\ g = <<check[c].id, check[c].signer, c>>
        /\ UNCHANGED <<mark, list, edit>> /\ check[c].at = "read" /\ check[c].signer \in Wallets
  <2>1. /\ UNCHANGED <<mark, list, edit>> /\ check[c].at = "read"
        /\ check[c].mark \in Marks /\ check[c].signer \in Wallets
    BY DEF H!PutSession, HInv, H!TypeOK
  <2>2. check[c].id \in People
    BY <2>1 DEF HInv, HMark, HHolds
  <2>3. <<check[c].id, check[c].signer, c>> \in People \X Wallets \X Checks
    BY <2>1, <2>2
  <2> QED
    BY <2>1, <2>3
<1>2. HHolds(c, m) /\ HMark(m)
  BY <1>1 DEF HHolds, HInv
<1>3. /\ granted[m] = {} /\ check[c].id = mark[m].owner /\ check[c].id \in People
      /\ \A d \in Checks : HHolds(d, m) => d = c
  BY <1>2 DEF HMark
<1>4. /\ check' \in [Checks -> HCheck]
      /\ \A d \in Checks : d # c => check'[d] = check[d]
      /\ check'[c].at = "done"
  <2>1. PICK step \in {"done"} : check' = [check EXCEPT ![c].at = step]
    BY DEF H!PutSession, H!Answered
  <2>2. check \in [Checks -> HCheck]
    BY DEF HInv, H!TypeOK, HCheck
  <2> QED
    BY <2>1, <2>2 DEF HCheck
<1>5. /\ session' \in [People -> Wallets \cup {Absent}]
      /\ session'[check[c].id] = check[c].signer
      /\ \A p \in People : p # check[c].id => session'[p] = session[p]
  BY <1>1, <1>3 DEF H!PutSession, HInv, H!TypeOK
<1>6. g[1] = check[c].id /\ g[2] = check[c].signer
  BY <1>1
<1>7. granted' = [granted EXCEPT ![m] = @ \cup {g}]
  BY <1>1 DEF H!PutSession
<1>8. /\ granted' \in [Marks -> SUBSET (People \X Wallets \X Checks)]
      /\ granted'[m] = {g} /\ \A n \in Marks : n # m => granted'[n] = granted[n]
      /\ \A n \in Marks : granted[n] \subseteq granted'[n]
  BY <1>1, <1>3, <1>6, <1>7 DEF HInv, H!TypeOK
<1>9. H!TypeOK'
  BY <1>1, <1>4, <1>5, <1>8 DEF HInv, H!TypeOK, HCheck
<1>10. HolderTokens[check[c].signer] >= Threshold
  BY <1>1 DEF HInv, HRead
<1>11. ASSUME NEW n \in Marks PROVE HMark(n)'
  <2>1. /\ ~HHolds(c, n)'
        /\ \A d \in Checks : d # c => (HHolds(d, n)' <=> HHolds(d, n)) /\ check'[d] = check[d]
    BY <1>4 DEF HHolds
  <2>2. CASE n = m
    <3>1. mark[m].state = "gone"
      BY <1>2 DEF HMark
    <3>2. \A d \in Checks : ~HHolds(d, m)'
      BY <1>3, <2>1, <2>2
    <3>3. g[1] = mark[m].owner /\ HolderTokens[g[2]] >= Threshold /\ granted'[m] = {g}
      BY <1>3, <1>6, <1>8, <1>10
    <3> QED
      BY <1>1, <2>2, <3>1, <3>2, <3>3 DEF HMark
  <2>3. CASE n # m
    BY <1>1, <1>8, <2>1, <2>3 DEF HInv, HMark
  <2> QED
    BY <2>2, <2>3
<1>12. HRead'
  BY <1>4 DEF HInv, HRead
<1>13. HEarned'
  <2> SUFFICES ASSUME NEW p \in People, session'[p] # Absent
               PROVE  \E n \in Marks : \E h \in granted'[n] : h[1] = p /\ h[2] = session'[p]
    BY DEF HEarned
  <2>1. CASE p = check[c].id
    BY <1>1, <1>5, <1>6, <1>8, <2>1
  <2>2. CASE p # check[c].id
    BY <1>5, <1>8, <2>2 DEF HInv, HEarned
  <2> QED
    BY <2>1, <2>2
<1>14. HListInv'
  BY <1>1 DEF HInv, HListInv, HFits
<1> QED
  BY <1>9, <1>11, <1>12, <1>13, <1>14 DEF HInv

-----------------------------------------------------------------------------
\* A session ends, a person is forgotten, a list becomes what everybody reads: marks and checks stay.
LEMMA HKeepsInv ==
  ASSUME HInv, UNCHANGED <<mark, check, granted>>,
         session' \in [People -> Wallets \cup {Absent}],
         \A p \in People : session'[p] = session[p] \/ session'[p] = Absent,
         list' \in [People -> [now: SUBSET Wallets, before: SUBSET Wallets]],
         edit' \in [Edits -> HEdit],
         HListInv'
  PROVE  HInv'
<1>1. H!TypeOK'
  BY DEF HInv, H!TypeOK, HEdit
<1>2. (\A m \in Marks : HMark(m)') /\ HRead'
  BY DEF HInv, HMark, HHolds, HRead
<1>3. HEarned'
  BY DEF HInv, HEarned
<1> QED
  BY <1>1, <1>2, <1>3 DEF HInv

\* What is put where a person's list was fits, and the cache may serve what was there.
LEMMA HPutFits ==
  ASSUME HInv, NEW p \in People, NEW wallets \in SUBSET Wallets, HFits(wallets), list' = H!Put(p, wallets)
  PROVE  /\ list' \in [People -> [now: SUBSET Wallets, before: SUBSET Wallets]]
         /\ \A q \in People : HFits(list'[q].now) /\ HFits(list'[q].before)
<1>1. /\ list'[p] = [now |-> wallets, before |-> list[p].now]
      /\ \A q \in People : q # p => list'[q] = list[q]
      /\ list' \in [People -> [now: SUBSET Wallets, before: SUBSET Wallets]]
  BY DEF H!Put, HInv, H!TypeOK
<1> QED
  BY <1>1 DEF HInv, HListInv

LEMMA HPersonInv ==
  ASSUME HoldersAssumption, HInv, NEW p \in People, H!SessionExpires(p) \/ H!Forget(p) \/ H!Settles(p)
  PROVE  HInv'
<1>1. UNCHANGED <<mark, check, edit, granted>> /\ edit' \in [Edits -> HEdit]
  BY DEF H!SessionExpires, H!Forget, H!Settles, HInv, H!TypeOK, HEdit
<1>2. /\ session' \in [People -> Wallets \cup {Absent}]
      /\ \A q \in People : session'[q] = session[q] \/ session'[q] = Absent
  BY DEF H!SessionExpires, H!Forget, H!Settles, HInv, H!TypeOK
<1>3. /\ list' \in [People -> [now: SUBSET Wallets, before: SUBSET Wallets]]
      /\ \A q \in People : HFits(list'[q].now) /\ HFits(list'[q].before)
  <2>1. CASE UNCHANGED list
    BY <2>1 DEF HInv, H!TypeOK, HListInv, HFits
  <2>2. CASE list' = H!Put(p, {})
    BY <2>2, HEmptyFits, HPutFits
  <2>3. CASE H!Settles(p)
    BY <2>3 DEF H!Settles, HInv, H!TypeOK, HListInv
  <2> QED
    BY <2>1, <2>2, <2>3 DEF H!SessionExpires, H!Forget
<1>4. HListInv'
  BY <1>1, <1>3 DEF HInv, HListInv, HFits
<1> QED
  BY <1>1, <1>2, <1>3, <1>4, HKeepsInv

LEMMA HReadListInv ==
  ASSUME HInv, NEW e \in Edits, NEW p \in People, NEW w \in Wallets, NEW add \in BOOLEAN, H!ReadList(e, p, w, add)
  PROVE  HInv'
<1>1. UNCHANGED <<mark, session, list, check, granted>>
  BY DEF H!ReadList
<1>2. PICK saw \in {list[p].now, list[p].before} :
        edit' = [edit EXCEPT ![e] = [at |-> "read", id |-> p, wallet |-> w, add |-> add, saw |-> saw]]
  BY DEF H!ReadList
<1>3. saw \in SUBSET Wallets /\ HFits(saw)
  BY DEF HInv, H!TypeOK, HListInv
<1>4. /\ edit' \in [Edits -> HEdit] /\ edit'[e].saw = saw
      /\ \A d \in Edits : d # e => edit'[d] = edit[d]
  BY <1>2, <1>3 DEF HInv, H!TypeOK, HEdit
<1>5. HListInv'
  BY <1>1, <1>3, <1>4 DEF HInv, HListInv, HFits
<1> QED
  BY <1>1, <1>4, <1>5, HKeepsInv DEF HInv, H!TypeOK

LEMMA HWriteListInv ==
  ASSUME HoldersAssumption, HInv, NEW e \in Edits, H!WriteList(e)
  PROVE  HInv'
<1> DEFINE k == edit[e]
<1>1. UNCHANGED <<mark, session, check, granted>> /\ k.at = "read"
  BY DEF H!WriteList
<1>2. k \in HEdit /\ HFits(k.saw)
  BY <1>1 DEF HInv, H!TypeOK, HEdit, HListInv
<1>3. /\ edit' \in [Edits -> HEdit]
      /\ edit'[e].at = "done" /\ \A d \in Edits : d # e => edit'[d] = edit[d]
  BY ZenonT(60) DEF H!WriteList, HInv, H!TypeOK, HEdit
<1>4. /\ list' \in [People -> [now: SUBSET Wallets, before: SUBSET Wallets]]
      /\ \A q \in People : HFits(list'[q].now) /\ HFits(list'[q].before)
  <2> HIDE DEF k
  <2>1. CASE UNCHANGED list
    BY <2>1 DEF HInv, H!TypeOK, HListInv, HFits
  <2>2. CASE k.wallet \notin k.saw /\ H!Room(k.saw) /\ list' = H!Put(k.id, k.saw \cup {k.wallet})
    <3>1. HFits(k.saw \cup {k.wallet})
      <4>1. Cardinality(k.saw) < MaxWatched /\ Cardinality(k.saw) \in Nat
        BY <1>2, <2>2, FS_CardinalityType, HCardinality DEF HFits, H!Room
      <4>2. IsFiniteSet(k.saw \cup {k.wallet}) /\ Cardinality(k.saw \cup {k.wallet}) = Cardinality(k.saw) + 1
        BY <1>2, <2>2, FS_AddElement DEF HFits
      <4> QED
        BY <4>1, <4>2 DEF HFits, HoldersAssumption
    <3> QED
      BY <1>2, <2>2, <3>1, HPutFits DEF HEdit
  <2>3. CASE k.wallet \in k.saw /\ list' = H!Put(k.id, k.saw \ {k.wallet})
    <3>1. HFits(k.saw \ {k.wallet})
      <4>1. Cardinality(k.saw) <= MaxWatched /\ Cardinality(k.saw) \in Nat
        BY <1>2, FS_CardinalityType DEF HFits
      <4>2. /\ IsFiniteSet(k.saw \ {k.wallet})
            /\ Cardinality(k.saw \ {k.wallet}) = Cardinality(k.saw) - 1
        BY <1>2, <2>3, FS_RemoveElement DEF HFits
      <4> QED
        BY <4>1, <4>2 DEF HFits, HoldersAssumption
    <3> QED
      BY <1>2, <2>3, <3>1, HPutFits DEF HEdit
  <2> QED
    BY <2>1, <2>2, <2>3 DEF H!WriteList, k
<1>5. HListInv'
  BY <1>3, <1>4 DEF HInv, HListInv, HFits
<1> QED
  BY <1>1, <1>3, <1>4, <1>5, HKeepsInv DEF HInv, H!TypeOK

LEMMA HNextInv ==
  ASSUME HoldersAssumption, HInv, [H!Next]_(H!vars)
  PROVE  HInv'
<1>1. CASE UNCHANGED H!vars
  BY <1>1 DEF H!vars, HInv, H!TypeOK, HMark, HHolds, HRead, HEarned, HListInv, HFits
<1> QED
  BY <1>1, HMarksInv, HSpendInv, HReadInv, HSessionInv, HPersonInv, HReadListInv, HWriteListInv
  DEF H!Next

LEMMA HSafe ==
  ASSUME HInv
  PROVE  H!OneSessionPerMark /\ H!ListStaysReadable
<1>1. ASSUME NEW m \in Marks
      PROVE  H!Cardinality(granted[m]) <= 1
  <2>1. CASE granted[m] = {}
    BY <2>1, FS_EmptySet, HCardinality
  <2>2. CASE granted[m] # {}
    <3>1. PICK g \in granted[m] : granted[m] = {g}
      BY <2>2 DEF HInv, HMark
    <3> QED
      BY <3>1, FS_Singleton, HCardinality
  <2> QED
    BY <2>1, <2>2
<1>2. H!OneSessionPerMark
  BY <1>1 DEF HInv, HMark, HEarned, H!OneSessionPerMark
<1>3. H!ListStaysReadable
  BY HCardinality DEF HInv, HListInv, HFits, H!ListStaysReadable
<1> QED
  BY <1>2, <1>3

\* A mark earns its owner one session at most, and a list of watched wallets never outgrows its limit:
\* for any people, marks, wallets, checks and edits, however these overlap and whatever a cache still serves.
THEOREM HoldersHold ==
  ASSUME HoldersAssumption
  PROVE  H!Spec => [](H!TypeOK /\ H!OneSessionPerMark /\ H!ListStaysReadable)
<1>1. H!Init => HInv
  BY HInitInv
<1>2. HInv /\ [H!Next]_(H!vars) => HInv'
  BY HNextInv
<1>3. HInv => H!TypeOK /\ H!OneSessionPerMark /\ H!ListStaysReadable
  BY HSafe DEF HInv
<1> QED
  BY <1>1, <1>2, <1>3, PTL DEF H!Spec

-----------------------------------------------------------------------------
(***************************************************************************)
(* PublishedBundle.                                                        *)
(***************************************************************************)
UPiece == [at : U!Steps, bound : U!Gens, got : U!Gens]
UAsk   == [at : {"new", "manifest", "index", "answered"}, state : U!Gens,
           answer : {"none", "shape", "rate_limited", "corpus_unavailable", "ok"}]

\* What was read is what the manifest named.
UGotInv == \A p \in U!Parts : pieces[p].got \in {0, pieces[p].bound}

\* The two reads of a check wait for the same record, or were given the same, unless the numbers were not asked for.
UPair(c) ==
  LET i == pieces[<<c, "index">>]
      n == pieces[<<c, "numbers">>]
  IN  \/ n.at = "idle"
      \/ i.at = "manifest" /\ n.at = "manifest"
      \/ i.at \in {"read", "fetch", "done"} /\ n.at \in {"read", "fetch", "done"} /\ i.bound = n.bound

UInv == U!TypeOK /\ UGotInv /\ \A c \in RuleChecks : UPair(c)

-----------------------------------------------------------------------------
LEMMA UGens ==
  ASSUME ReadersAssumption
  PROVE  /\ 0 \in U!Gens /\ 1 \in U!Gens
         /\ \A g \in U!Gens : g \in Nat /\ (g < Generations => g + 1 \in U!Gens) /\ 1 .. g \subseteq U!Gens
BY DEF ReadersAssumption, U!Gens

LEMMA UParts ==
  ASSUME ReadersAssumption
  PROVE  /\ \A c \in RuleChecks : <<c, "index">> \in U!Parts /\ <<c, "numbers">> \in U!Parts
         /\ \A a \in Asks : <<a, "index">> \in U!Parts /\ \A c \in RuleChecks : a # c
         /\ \A p \in U!Parts : p[2] \in U!Files
BY DEF ReadersAssumption, U!Parts, U!Files

LEMMA UServed ==
  ASSUME ReadersAssumption, U!TypeOK, NEW f \in U!Files
  PROVE  U!Served(f) \subseteq U!Gens
BY UGens DEF U!TypeOK, U!Served, U!Nothing

LEMMA UInitInv ==
  ASSUME ReadersAssumption, U!Init
  PROVE  UInv
<1>1. U!TypeOK
  BY UGens DEF U!Init, U!TypeOK, U!Kept, U!Steps, U!Idle, U!NoRead
<1>2. UGotInv
  BY DEF U!Init, U!Idle, UGotInv
<1>3. \A c \in RuleChecks : UPair(c)
  BY UParts DEF U!Init, U!Idle, UPair
<1> QED
  BY <1>1, <1>2, <1>3 DEF UInv

-----------------------------------------------------------------------------
\* No read of a piece goes on.
LEMMA UQuietInv ==
  ASSUME UInv, UNCHANGED pieces, U!TypeOK'
  PROVE  UInv'
BY DEF UInv, UGotInv, UPair

LEMMA UWorldInv ==
  ASSUME ReadersAssumption, UInv, NEW f \in U!Files, U!Upload(f) \/ U!Expire(f)
  PROVE  UInv'
<1>1. CASE U!Upload(f)
  <2>1. site[f] + 1 \in U!Gens
    BY <1>1, UGens DEF U!Upload, UInv, U!TypeOK
  <2>2. U!TypeOK'
    BY <1>1, <2>1 DEF U!Upload, UInv, U!TypeOK
  <2> QED
    BY <1>1, <2>2, UQuietInv DEF U!Upload
<1>2. CASE U!Expire(f)
  <2>1. U!TypeOK'
    BY <1>2 DEF U!Expire, UInv, U!TypeOK, U!Kept
  <2> QED
    BY <1>2, <2>1, UQuietInv DEF U!Expire
<1> QED
  BY <1>1, <1>2

LEMMA UFetchedInv ==
  ASSUME ReadersAssumption, UInv, U!Fetched
  PROVE  UInv'
<1>1. PICK g \in U!Served("manifest") : flight' = [flight EXCEPT !.got = g]
  BY DEF U!Fetched
<1>2. "manifest" \in U!Files
  BY DEF U!Files
<1>3. g \in U!Gens
  BY <1>2, UServed DEF UInv
<1>4. U!TypeOK' /\ UNCHANGED pieces
  BY <1>1, <1>3 DEF U!Fetched, UInv, U!TypeOK
<1> QED
  BY <1>4, UQuietInv

\* Everyone who waits is given the same.
LEMMA USettledInv ==
  ASSUME ReadersAssumption, UInv, NEW g \in U!Gens, U!Settled(g), cache' \in [U!Files -> U!Kept]
  PROVE  UInv'
<1> DEFINE told == [at |-> IF g = U!Nothing THEN "done" ELSE "read", bound |-> g, got |-> 0]
<1>1. told \in UPiece /\ told.at \in {"read", "done"} /\ told.bound = g /\ told.got = 0
  BY UGens DEF UPiece, U!Steps
<1>2. pieces' = [p \in U!Parts |-> IF pieces[p].at # "manifest" THEN pieces[p] ELSE told]
  BY DEF U!Settled
<1> HIDE DEF told
<1>3. /\ pieces' \in [U!Parts -> UPiece]
      /\ \A p \in U!Parts : pieces[p].at = "manifest" => pieces'[p] = told
      /\ \A p \in U!Parts : pieces[p].at # "manifest" => pieces'[p] = pieces[p]
  BY <1>1, <1>2 DEF UInv, U!TypeOK, UPiece
<1>4. ask' \in [Asks -> UAsk]
  <2>1. \A a \in Asks : ask[a] \in UAsk
    BY DEF UInv, U!TypeOK, UAsk
  <2>2. \A a \in Asks : [ask[a] EXCEPT !.state = g] \in UAsk
    BY <2>1 DEF UAsk
  <2>3. [at |-> "answered", state |-> 0, answer |-> "corpus_unavailable"] \in UAsk
    BY UGens DEF UAsk
  <2> QED
    BY <2>1, <2>2, <2>3 DEF U!Settled
<1>5. flight' \in [open : BOOLEAN, got : U!Gens] /\ UNCHANGED site
  BY UGens DEF U!Settled, U!NoRead
<1>6. U!TypeOK'
  BY <1>3, <1>4, <1>5 DEF UInv, U!TypeOK, UPiece, UAsk
<1>7. UGotInv'
  BY <1>1, <1>3 DEF UInv, UGotInv
<1>8. \A c \in RuleChecks : UPair(c)'
  BY <1>1, <1>3, UParts DEF UInv, UPair
<1> QED
  BY <1>6, <1>7, <1>8 DEF UInv

LEMMA UManifestInv ==
  ASSUME ReadersAssumption, UInv, U!ManifestRead \/ U!ManifestFailed
  PROVE  UInv'
<1>1. CASE U!ManifestFailed
  BY <1>1, USettledInv, UGens DEF U!ManifestFailed, U!Nothing, UInv, U!TypeOK
<1>2. CASE U!ManifestRead
  <2>1. flight.got \in U!Gens
    BY DEF UInv, U!TypeOK
  <2>2. cache' \in [U!Files -> U!Kept]
    <3>1. \A f \in U!Files : cache[f] \in U!Kept
      BY DEF UInv, U!TypeOK
    <3>2. [gen |-> flight.got, fresh |-> TRUE] \in U!Kept /\ [gen |-> 0, fresh |-> FALSE] \in U!Kept
      BY <2>1, UGens DEF U!Kept
    <3> QED
      BY <1>2, <3>1, <3>2 DEF U!ManifestRead, U!Remembered
  <2> QED
    BY <1>2, <2>1, <2>2, USettledInv DEF U!ManifestRead
<1> QED
  BY <1>1, <1>2

-----------------------------------------------------------------------------
\* One read goes on, with the record it was given.
UMoves(p) ==
  /\ pieces' \in [U!Parts -> UPiece]
  /\ \A q \in U!Parts : q # p => pieces'[q] = pieces[q]
  /\ pieces[p].at \in {"read", "fetch"} /\ pieces'[p].at \in {"fetch", "done"}
  /\ pieces'[p].bound = pieces[p].bound /\ pieces'[p].got \in {0, pieces[p].bound}

LEMMA UMovesInv ==
  ASSUME ReadersAssumption, UInv, NEW p \in U!Parts, UMoves(p),
         UNCHANGED <<site, flight, ask>>, cache' \in [U!Files -> U!Kept]
  PROVE  UInv'
<1>1. U!TypeOK'
  BY DEF UInv, U!TypeOK, UMoves, UPiece
<1>2. UGotInv'
  BY DEF UInv, UGotInv, UMoves
<1>3. ASSUME NEW c \in RuleChecks PROVE UPair(c)'
  <2>1. UPair(c) /\ <<c, "index">> \in U!Parts /\ <<c, "numbers">> \in U!Parts
    BY UParts DEF UInv
  <2> QED
    BY <2>1 DEF UPair, UMoves
<1> QED
  BY <1>1, <1>2, <1>3 DEF UInv

LEMMA UFetchInv ==
  ASSUME ReadersAssumption, UInv, NEW p \in U!Parts, U!Fetch(p)
  PROVE  UInv'
<1>1. pieces[p] \in UPiece /\ pieces[p].at = "read" /\ UNCHANGED <<site, cache, flight, ask>>
  BY DEF U!Fetch, UInv, U!TypeOK, UPiece
<1>2. PICK step \in {"done", "fetch"}, g \in {0, pieces[p].bound} :
        pieces' = [pieces EXCEPT ![p] = [at |-> step, bound |-> pieces[p].bound, got |-> g]]
  BY DEF U!Fetch, U!Nothing
<1>3. [at |-> step, bound |-> pieces[p].bound, got |-> g] \in UPiece
  BY <1>1, UGens DEF UPiece, U!Steps
<1>4. UMoves(p)
  BY <1>1, <1>2, <1>3 DEF UMoves, UInv, U!TypeOK, UPiece
<1> QED
  BY <1>1, <1>4, UMovesInv DEF UInv, U!TypeOK

LEMMA UTakeInv ==
  ASSUME ReadersAssumption, UInv, NEW p \in U!Parts, U!Take(p)
  PROVE  UInv'
<1>1. pieces[p] \in UPiece /\ pieces[p].at = "fetch" /\ p[2] \in U!Files /\ UNCHANGED <<site, flight, ask>>
  BY UParts DEF U!Take, UInv, U!TypeOK, UPiece
<1>2. "done" \in U!Steps
  BY DEF U!Steps
<1>3. PICK bytes \in U!Served(p[2]) :
        \/ /\ bytes = pieces[p].bound
           /\ pieces' = [pieces EXCEPT ![p].at = "done", ![p].got = bytes]
           /\ cache' \in {cache, [cache EXCEPT ![p[2]] = [gen |-> bytes, fresh |-> TRUE]]}
        \/ pieces' = [pieces EXCEPT ![p].at = "done"] /\ UNCHANGED cache
  BY DEF U!Take, U!Accepts
<1>4. bytes \in U!Gens
  BY <1>1, UServed DEF UInv
<1>5. cache' \in [U!Files -> U!Kept]
  <2>1. [gen |-> bytes, fresh |-> TRUE] \in U!Kept
    BY <1>4 DEF U!Kept
  <2> QED
    BY <1>1, <1>3, <2>1 DEF UInv, U!TypeOK
<1>6. UMoves(p)
  <2>1. pieces \in [U!Parts -> UPiece] /\ pieces[p].got \in {0, pieces[p].bound}
    BY DEF UInv, U!TypeOK, UPiece, UGotInv
  <2>2. CASE bytes = pieces[p].bound /\ pieces' = [pieces EXCEPT ![p].at = "done", ![p].got = bytes]
    BY <1>1, <1>2, <1>4, <2>1, <2>2 DEF UMoves, UPiece
  <2>3. CASE pieces' = [pieces EXCEPT ![p].at = "done"]
    BY <1>1, <1>2, <2>1, <2>3 DEF UMoves, UPiece
  <2> QED
    BY <1>3, <2>2, <2>3
<1> QED
  BY <1>1, <1>5, <1>6, UMovesInv

-----------------------------------------------------------------------------
LEMMA UAsked ==
  ASSUME ReadersAssumption, UInv
  PROVE  /\ U!Asked \in UPiece /\ U!Asked.got = 0 /\ U!Asked.at \in {"read", "manifest"}
         /\ U!Idle \in UPiece /\ U!Idle.at = "idle" /\ U!Idle.got = 0
         /\ U!StartsRead => flight' \in [open : BOOLEAN, got : U!Gens]
<1>1. "manifest" \in U!Files
  BY DEF U!Files
<1>2. cache["manifest"].gen \in U!Gens /\ flight \in [open : BOOLEAN, got : U!Gens]
  BY <1>1 DEF UInv, U!TypeOK, U!Kept
<1> QED
  BY <1>2, UGens DEF U!Asked, U!Idle, UPiece, U!Steps, U!StartsRead

\* A check asks for both in one breath.
LEMMA UCheckInv ==
  ASSUME ReadersAssumption, UInv, NEW c \in RuleChecks, U!Check(c)
  PROVE  UInv'
<1>1. UNCHANGED <<site, cache, ask>> /\ U!StartsRead
  BY DEF U!Check
<1>2. PICK both \in BOOLEAN :
        pieces' = [p \in U!Parts |-> IF p[1] # c THEN pieces[p] ELSE IF p[2] = "index" \/ both THEN U!Asked ELSE U!Idle]
  BY DEF U!Check
<1>3. /\ pieces' \in [U!Parts -> UPiece]
      /\ \A p \in U!Parts : p[1] # c => pieces'[p] = pieces[p]
      /\ \A p \in U!Parts : p[1] = c => pieces'[p] \in {U!Asked, U!Idle}
      /\ pieces'[<<c, "index">>] = U!Asked
  BY <1>2, UAsked, UParts DEF UInv, U!TypeOK, UPiece
<1>4. U!TypeOK'
  BY <1>1, <1>3, UAsked DEF UInv, U!TypeOK, UPiece
<1>5. UGotInv'
  BY <1>3, UAsked DEF UInv, UGotInv
<1>6. ASSUME NEW d \in RuleChecks PROVE UPair(d)'
  <2>1. CASE d = c
    BY <1>3, <2>1, UAsked, UParts DEF UPair
  <2>2. CASE d # c
    BY <1>3, <2>2, UParts DEF UInv, UPair
  <2> QED
    BY <2>1, <2>2
<1> QED
  BY <1>4, <1>5, <1>6 DEF UInv

LEMMA UAskInv ==
  ASSUME ReadersAssumption, UInv, NEW a \in Asks, U!Turned(a) \/ U!Identity(a) \/ U!Answer(a)
  PROVE  UInv'
<1>1. UNCHANGED <<site, cache, pieces>>
  BY DEF U!Turned, U!Identity, U!Answer
<1>2. "manifest" \in U!Files
  BY DEF U!Files
<1>3. cache["manifest"].gen \in U!Gens /\ ask[a] \in UAsk /\ ask \in [Asks -> UAsk]
  BY <1>2 DEF UInv, U!TypeOK, U!Kept, UAsk
<1>4. flight' \in [open : BOOLEAN, got : U!Gens]
  BY UAsked DEF U!Turned, U!Identity, U!Answer, UInv, U!TypeOK
<1>5. ask' \in [Asks -> UAsk]
  BY <1>3, UGens DEF U!Turned, U!Identity, U!Answer, UAsk
<1>6. U!TypeOK'
  BY <1>1, <1>4, <1>5 DEF UInv, U!TypeOK, UAsk
<1> QED
  BY <1>1, <1>6, UQuietInv

\* A request for an identity is no check.
LEMMA UAskPieceInv ==
  ASSUME ReadersAssumption, UInv, NEW a \in Asks, U!IdentityIndex(a) \/ U!Again(a)
  PROVE  UInv'
<1>1. UNCHANGED <<site, cache>>
  BY DEF U!IdentityIndex, U!Again
<1>2. PICK k \in {U!Asked, U!Idle} : pieces' = [pieces EXCEPT ![<<a, "index">>] = k]
  BY DEF U!IdentityIndex, U!Again
<1>3. k \in UPiece /\ k.got = 0
  BY UAsked
<1>4. /\ pieces' \in [U!Parts -> UPiece] /\ pieces'[<<a, "index">>] = k
      /\ \A p \in U!Parts : p # <<a, "index">> => pieces'[p] = pieces[p]
  BY <1>2, <1>3, UParts DEF UInv, U!TypeOK, UPiece
<1>5. flight' \in [open : BOOLEAN, got : U!Gens]
  BY UAsked DEF U!IdentityIndex, U!Again, UInv, U!TypeOK
<1>6. ask' \in [Asks -> UAsk]
  <2>1. ask \in [Asks -> UAsk] /\ ask[a] \in UAsk
    BY DEF UInv, U!TypeOK, UAsk
  <2>2. CASE U!IdentityIndex(a)
    <3>1. ask' = [ask EXCEPT ![a] = [ask[a] EXCEPT !.at = "index"]]
      BY <2>2 DEF U!IdentityIndex
    <3>2. [ask[a] EXCEPT !.at = "index"] \in UAsk
      BY <2>1 DEF UAsk
    <3> QED
      BY <2>1, <3>1, <3>2
  <2>3. CASE U!Again(a)
    <3>1. [at |-> "new", state |-> 0, answer |-> "none"] \in UAsk
      BY UGens DEF UAsk
    <3> QED
      BY <2>1, <2>3, <3>1 DEF U!Again
  <2> QED
    BY <2>2, <2>3
<1>7. U!TypeOK'
  BY <1>1, <1>4, <1>5, <1>6 DEF UInv, U!TypeOK, UPiece, UAsk
<1>8. UGotInv'
  BY <1>3, <1>4 DEF UInv, UGotInv
<1>9. ASSUME NEW c \in RuleChecks PROVE UPair(c)'
  <2>1. pieces'[<<c, "index">>] = pieces[<<c, "index">>] /\ pieces'[<<c, "numbers">>] = pieces[<<c, "numbers">>]
    BY <1>4, UParts
  <2> QED
    BY <2>1 DEF UInv, UPair
<1> QED
  BY <1>7, <1>8, <1>9 DEF UInv

LEMMA UNextInv ==
  ASSUME ReadersAssumption, UInv, [U!Next]_(U!vars)
  PROVE  UInv'
<1>1. CASE UNCHANGED U!vars
  BY <1>1 DEF U!vars, UInv, U!TypeOK, UGotInv, UPair
<1> QED
  BY <1>1, UWorldInv, UFetchedInv, UManifestInv, UFetchInv, UTakeInv, UCheckInv, UAskInv,
     UAskPieceInv DEF U!Next

LEMMA USafe ==
  ASSUME ReadersAssumption, UInv
  PROVE  U!PairIsOne
<1> SUFFICES ASSUME NEW c \in RuleChecks,
                    pieces[<<c, "index">>].at = "done", pieces[<<c, "numbers">>].at = "done",
                    pieces[<<c, "index">>].got # 0, pieces[<<c, "numbers">>].got # 0
             PROVE  pieces[<<c, "index">>].got = pieces[<<c, "numbers">>].got
  BY DEF U!PairIsOne
<1> QED
  BY UParts DEF UInv, UGotInv, UPair

\* A check of the rules reads an index and numbers of one bundle: for any number of bundles, checks and
\* requests, and however uploads, expiries and failures fall between the reads.
THEOREM PairsHold ==
  ASSUME ReadersAssumption
  PROVE  U!Spec => [](U!TypeOK /\ U!PairIsOne)
<1>1. U!Init => UInv
  BY UInitInv
<1>2. UInv /\ [U!Next]_(U!vars) => UInv'
  BY UNextInv
<1>3. UInv => U!TypeOK /\ U!PairIsOne
  BY USafe DEF UInv
<1> QED
  BY <1>1, <1>2, <1>3, PTL DEF U!Spec

-----------------------------------------------------------------------------
(***************************************************************************)
(* Surfaces.                                                               *)
(***************************************************************************)
XPart == part = "sheets" => XInv

LEMMA XPartStep ==
  ASSUME XPart, [SurfacesNext]_SurfacesVars
  PROVE  XPart'
<1> SUFFICES ASSUME part' = "sheets"
             PROVE  XInv'
  BY DEF XPart
<1>1. part = "sheets"
  BY DEF SurfacesNext, SurfacesVars
<1>2. [X!Next]_(X!vars)
  BY <1>1 DEF SurfacesNext, SurfacesVars, X!vars
<1> QED
  BY <1>1, <1>2, XNextInv DEF XPart

\* An intent goes to the wallet once, and never after it was cancelled.
THEOREM SheetsAreSafeAlways == SurfacesSpec => []SheetsAreSafe
<1>1. SurfacesInit => XPart
  BY XInitInv DEF SurfacesInit, XPart
<1>2. XPart /\ [SurfacesNext]_SurfacesVars => XPart'
  BY XPartStep
<1>3. XPart => SheetsAreSafe
  BY XSafe DEF XPart, SheetsAreSafe
<1> QED
  BY <1>1, <1>2, <1>3, PTL DEF SurfacesSpec

\* A pass goes to the wallet with the intent whose card is on its screen, whatever became of the screen
\* since that card was put there.
THEOREM ConfirmedIsShownAlways == SurfacesSpec => ConfirmedIsShown
<1>1. SurfacesInit => XPart
  BY XInitInv DEF SurfacesInit, XPart
<1>2. XPart /\ [SurfacesNext]_SurfacesVars => XPart'
  BY XPartStep
<1>3. XPart /\ [SurfacesNext]_SurfacesVars
        => [part = "sheets" => X!TakesWhatIsShown]_<<part, offer, late, view, list, card, armed, pass, sent>>
  <2> SUFFICES ASSUME XPart, [SurfacesNext]_SurfacesVars, part = "sheets"
               PROVE  X!TakesWhatIsShown
    OBVIOUS
  <2>1. [X!Next]_(X!vars)
    BY DEF SurfacesNext, SurfacesVars, X!vars
  <2> QED
    BY <2>1, XTakes DEF XPart
<1> QED
  BY <1>1, <1>2, <1>3, PTL DEF SurfacesSpec, ConfirmedIsShown

WPart == part = "wallet" => WInv

LEMMA WPartStep ==
  ASSUME WPart, [SurfacesNext]_SurfacesVars
  PROVE  WPart'
<1> SUFFICES ASSUME part' = "wallet"
             PROVE  WInv'
  BY DEF WPart
<1>1. part = "wallet"
  BY DEF SurfacesNext, SurfacesVars
<1>2. [W!Next]_(W!vars)
  BY <1>1 DEF SurfacesNext, SurfacesVars, W!vars
<1> QED
  BY <1>1, <1>2, WNextInv DEF WPart

\* What the service is told of can be signed with, and a screen nobody looks at shows no secret.
THEOREM WalletsAreKeptAlways == SurfacesSpec => []WalletsAreKept
<1>1. SurfacesInit => WPart
  BY WInitInv DEF SurfacesInit, WPart
<1>2. WPart /\ [SurfacesNext]_SurfacesVars => WPart'
  BY WPartStep
<1>3. WPart => WalletsAreKept
  BY WSafe DEF WPart, WalletsAreKept
<1> QED
  BY <1>1, <1>2, <1>3, PTL DEF SurfacesSpec

HPart == part = "holders" => HInv

LEMMA HPartStep ==
  ASSUME HoldersAssumption, HPart, [SurfacesNext]_SurfacesVars
  PROVE  HPart'
<1> SUFFICES ASSUME part' = "holders"
             PROVE  HInv'
  BY DEF HPart
<1>1. part = "holders"
  BY DEF SurfacesNext, SurfacesVars
<1>2. [H!Next]_(H!vars)
  BY <1>1 DEF SurfacesNext, SurfacesVars, H!vars
<1> QED
  BY <1>1, <1>2, HNextInv DEF HPart

\* One mark, one session, of its owner; and no list of watched wallets beyond its limit.
THEOREM HoldersAreSafeAlways ==
  ASSUME HoldersAssumption
  PROVE  SurfacesSpec => []HoldersAreSafe
<1>1. SurfacesInit => HPart
  BY HInitInv DEF SurfacesInit, HPart
<1>2. HPart /\ [SurfacesNext]_SurfacesVars => HPart'
  BY HPartStep
<1>3. HPart => HoldersAreSafe
  BY HSafe DEF HPart, HoldersAreSafe
<1> QED
  BY <1>1, <1>2, <1>3, PTL DEF SurfacesSpec

UPart == part = "bundle" => UInv

LEMMA UPartStep ==
  ASSUME ReadersAssumption, UPart, [SurfacesNext]_SurfacesVars
  PROVE  UPart'
<1> SUFFICES ASSUME part' = "bundle"
             PROVE  UInv'
  BY DEF UPart
<1>1. part = "bundle"
  BY DEF SurfacesNext, SurfacesVars
<1>2. [U!Next]_(U!vars)
  BY <1>1 DEF SurfacesNext, SurfacesVars, U!vars
<1> QED
  BY <1>1, <1>2, UNextInv DEF UPart

\* An index and the numbers of another bundle never answer one check.
THEOREM PairIsOneAlways ==
  ASSUME ReadersAssumption
  PROVE  SurfacesSpec => []PairIsOne
<1>1. SurfacesInit => UPart
  BY UInitInv DEF SurfacesInit, UPart
<1>2. UPart /\ [SurfacesNext]_SurfacesVars => UPart'
  BY UPartStep
<1>3. UPart => PairIsOne
  BY USafe DEF UPart, PairIsOne
<1> QED
  BY <1>1, <1>2, <1>3, PTL DEF SurfacesSpec

XRestPart == part = "sheets" => XRestInv

\* The four are typed, whichever runs.
THEOREM SurfacesTypeCorrect ==
  ASSUME ScreensAssumption, HoldersAssumption, ReadersAssumption
  PROVE  SurfacesSpec => []SurfacesTypeOK
<1> DEFINE Parts == part \in {"sheets", "wallet", "holders", "bundle"}
           All == Parts /\ XPart /\ XRestPart /\ WPart /\ HPart /\ UPart
<1>1. SurfacesInit => All
  <2>1. SurfacesInit => Parts /\ XPart /\ WPart /\ HPart /\ UPart
    BY XInitInv, WInitInv, HInitInv, UInitInv DEF SurfacesInit, XPart, WPart, HPart, UPart
  <2>2. SurfacesInit => XRestPart
    BY DEF SurfacesInit, XRestPart, XRestInv, X!Init
  <2> QED
    BY <2>1, <2>2
<1>2. All /\ [SurfacesNext]_SurfacesVars => All'
  <2> SUFFICES ASSUME All, [SurfacesNext]_SurfacesVars
               PROVE  All'
    OBVIOUS
  <2>1. Parts'
    BY DEF SurfacesNext, SurfacesVars
  <2>2. XRestPart'
    <3> SUFFICES ASSUME part' = "sheets"
                 PROVE  XRestInv'
      BY DEF XRestPart
    <3>1. part = "sheets"
      BY DEF SurfacesNext, SurfacesVars
    <3>2. [X!Next]_(X!vars)
      BY <3>1 DEF SurfacesNext, SurfacesVars, X!vars
    <3> QED
      BY <3>1, <3>2, XRestStep DEF XRestPart
  <2> QED
    BY <2>1, <2>2, XPartStep, WPartStep, HPartStep, UPartStep
<1>3. All => SurfacesTypeOK
  <2>1. XPart /\ XRestPart => (part = "sheets" => X!TypeOK)
    BY XTyped DEF XPart, XRestPart
  <2>2. WPart => (part = "wallet" => W!TypeOK)
    BY DEF WPart, WInv
  <2>3. HPart => (part = "holders" => H!TypeOK)
    BY DEF HPart, HInv
  <2>4. UPart => (part = "bundle" => U!TypeOK)
    BY DEF UPart, UInv
  <2> QED
    BY <2>1, <2>2, <2>3, <2>4 DEF SurfacesTypeOK
<1> HIDE DEF All
<1> QED
  BY <1>1, <1>2, <1>3, PTL DEF SurfacesSpec
=============================================================================
