------------------------------ MODULE SecureSheet ------------------------------
(***************************************************************************)
(* One person's confirm-each trades, from the review to the report of the  *)
(* hash: the Mini App on several screens, the wallet it asks, and the part *)
(* of the Copy service that it calls.  The service handles the calls of    *)
(* one user one after another; every call of a sheet and every prompt of   *)
(* the wallet takes its time, and each of them may fail.                   *)
(***************************************************************************)
EXTENDS Naturals, FiniteSets

CONSTANTS
  Sheets,  \* Mini Apps the person has open, on any device
  Intents, \* intents that were put up for confirmation
  Forged,  \* those whose card does not agree with their transaction
  None

VARIABLES
  row,   \* the service's row of each intent
  late,  \* 0 before its expiry, 1 past it, 2 past the grace for a report as well
  view, list, card, armed, \* of each sheet: the view, the open reviews it lists, the card it shows, whose buttons these are
  pass,  \* ConfirmEachSheetController.execute of a sheet and an intent
  sent   \* how often the wallet broadcast an intent's transaction

vars == <<row, late, view, list, card, armed, pass, sent>>

sheet == <<view, list, card, armed>>

Rows  == {"awaiting", "confirming", "submitted", "review", "cancelled", "expired"}
Views == {"closed", "home", "review", "CANCELLED", "EXPIRED", "WALLET_ERROR", "SUBMITTED", "error"}
Steps == {"none", "read", "begin", "opened", "confirm", "rejected", "declined", "overdue", "wallet", "orphan", "report"}

TypeOK ==
  /\ row \in [Intents -> Rows] /\ late \in [Intents -> 0..2]
  /\ view \in [Sheets -> Views] /\ list \in [Sheets -> SUBSET Intents]
  /\ card \in [Sheets -> Intents \cup {None}] /\ armed \in [Sheets -> Intents \cup {None}]
  /\ pass \in [Sheets -> [Intents -> Steps]]
  /\ sent \in [Intents -> 0..Cardinality(Sheets)]

Init ==
  /\ row = [i \in Intents |-> "awaiting"] /\ late = [i \in Intents |-> 0]
  /\ view = [s \in Sheets |-> "closed"] /\ list = [s \in Sheets |-> {}]
  /\ card = [s \in Sheets |-> None] /\ armed = [s \in Sheets |-> None]
  /\ pass = [s \in Sheets |-> [i \in Intents |-> "none"]]
  /\ sent = [i \in Intents |-> 0]

Open == {"awaiting", "confirming"}
Step(s, i, to) == pass' = [pass EXCEPT ![s][i] = to]

-----------------------------------------------------------------------------
(* Time, and the service on its own.                                       *)

Tick(i) == late[i] < 2 /\ late' = [late EXCEPT ![i] = @ + 1] /\ UNCHANGED <<row, sheet, pass, sent>>

\* expireIntent: an intent in a sheet's hands is given the grace.
Expire(i) ==
  /\ \/ row[i] = "awaiting" /\ late[i] >= 1
     \/ row[i] = "confirming" /\ late[i] = 2
  /\ row' = [row EXCEPT ![i] = "expired"]
  /\ UNCHANGED <<late, sheet, pass, sent>>

-----------------------------------------------------------------------------
(* The sheet, up to the wallet.                                            *)

\* A pass ends: whatever card is on the screen is wiped, and the sheet shows how this one went.
Finished(s, i, how) ==
  /\ Step(s, i, "none")
  /\ view' = [view EXCEPT ![s] = how] /\ card' = [card EXCEPT ![s] = None]
  /\ UNCHANGED <<list, armed>>

\* home: what the service lists as awaiting by now.  The button is there after a result; from an error
\* the app is opened again.
Home(s) ==
  /\ view[s] \in {"closed", "CANCELLED", "EXPIRED", "WALLET_ERROR", "SUBMITTED"}
  /\ \/ view' = [view EXCEPT ![s] = "home"] /\ list' = [list EXCEPT ![s] = {i \in Intents : row[i] = "awaiting"}]
     \/ view' = [view EXCEPT ![s] = "error"] /\ UNCHANGED list
  /\ UNCHANGED <<row, late, card, armed, pass, sent>>

\* The app is closed.  The wallet keeps the prompt it was given, and nobody hears of it any more.
Close(s) ==
  /\ view[s] # "closed"
  /\ view' = [view EXCEPT ![s] = "closed"] /\ list' = [list EXCEPT ![s] = {}]
  /\ card' = [card EXCEPT ![s] = None] /\ armed' = [armed EXCEPT ![s] = None]
  /\ pass' = [pass EXCEPT ![s] = [i \in Intents |-> IF pass[s][i] \in {"wallet", "orphan"} THEN "orphan" ELSE "none"]]
  /\ UNCHANGED <<row, late, sent>>

\* A click on Review, or the link that names the intent.
Review(s, i) ==
  /\ view[s] = "home" /\ i \in list[s] /\ pass[s][i] = "none"
  /\ Step(s, i, "read")
  /\ UNCHANGED <<row, late, sheet, sent>>

\* The intent is read for its token and revision.
Read(s, i) ==
  /\ pass[s][i] = "read"
  /\ \/ Step(s, i, "begin") /\ UNCHANGED sheet
     \/ Finished(s, i, "error")
  /\ UNCHANGED <<row, late, sent>>

\* Faulty variant: a sheet that was closed may open its review again.
FirstOrAgain(i) == row[i] \in Open

\* A revision is opened once.
FirstOpening(i) == row[i] = "awaiting"

\* beginSecureSheetConfirmation: past its time an open intent expires, an opened one is not opened again;
\* the answer may get lost.
BeginSecureSheetConfirmation(s, i) ==
  /\ pass[s][i] = "begin"
  /\ IF late[i] = 0 /\ FirstOpening(i)
       THEN /\ row' = [row EXCEPT ![i] = "confirming"]
            /\ (Step(s, i, "opened") /\ UNCHANGED sheet) \/ Finished(s, i, "error")
       ELSE /\ row' = IF late[i] > 0 /\ row[i] \in Open THEN [row EXCEPT ![i] = "expired"] ELSE row
            /\ Finished(s, i, "error")
  /\ UNCHANGED <<late, sent>>

\* Faulty variant: the buttons stay with the card they were first given to.
FirstCard(s, i) == IF armed[s] = None THEN i ELSE armed[s]

\* localConfirm gives the two buttons to this pass.
Buttons(s, i) == i

\* assertReviewMatchesTransaction, and the clock again; then the card and its buttons.
ShowCard(s, i) ==
  /\ pass[s][i] = "opened"
  /\ IF late[i] = 0 /\ i \notin Forged
       THEN /\ Step(s, i, "confirm")
            /\ view' = [view EXCEPT ![s] = "review"] /\ card' = [card EXCEPT ![s] = i]
            /\ armed' = [armed EXCEPT ![s] = Buttons(s, i)]
            /\ UNCHANGED list
       ELSE Finished(s, i, "error")
  /\ UNCHANGED <<row, late, sent>>

\* The person clicks; the time of the review may be over by then.
ClickConfirm(s) ==
  LET i == armed[s]
  IN  /\ view[s] = "review" /\ i # None /\ pass[s][i] = "confirm"
      /\ Step(s, i, IF late[i] = 0 THEN "wallet" ELSE "overdue")
      /\ UNCHANGED <<row, late, sheet, sent>>

ClickCancel(s) ==
  LET i == armed[s]
  IN  /\ view[s] = "review" /\ i # None /\ pass[s][i] = "confirm"
      /\ Step(s, i, "declined")
      /\ UNCHANGED <<row, late, sheet, sent>>

Told(step) == IF step = "overdue" THEN "EXPIRED" ELSE "CANCELLED"

\* cancelIntent, called after a refusal of the person, of the clock or of the wallet; its failure is ignored.
Cancel(s, i) ==
  /\ pass[s][i] \in {"declined", "overdue", "rejected"}
  /\ row' \in {row, IF row[i] \in Open THEN [row EXCEPT ![i] = "cancelled"] ELSE row}
  /\ Finished(s, i, Told(pass[s][i]))
  /\ UNCHANGED <<late, sent>>

-----------------------------------------------------------------------------
(* The wallet, and the report.                                             *)

\* Another account, another chain, no connection, or the person declines: 4001 alone says that nothing was sent
\* and that the intent may be cancelled.
WalletRefuses(s, i) ==
  /\ \/ pass[s][i] = "wallet" /\ Step(s, i, "rejected") /\ UNCHANGED sheet
     \/ pass[s][i] = "wallet" /\ Finished(s, i, "WALLET_ERROR")
     \/ pass[s][i] = "orphan" /\ Step(s, i, "none") /\ UNCHANGED sheet
  /\ UNCHANGED <<row, late, sent>>

\* An error that does not say whether the transaction went out: nothing is reported, nothing cancelled.
AfterAmbiguous(s, i) == Finished(s, i, "WALLET_ERROR")

\* eth_sendTransaction: the transaction is out, and the hash is handed to the sheet, or lost on the way.
WalletSends(s, i) ==
  /\ sent' = [sent EXCEPT ![i] = @ + 1]
  /\ \/ pass[s][i] = "wallet" /\ Step(s, i, "report") /\ UNCHANGED sheet
     \/ pass[s][i] = "wallet" /\ AfterAmbiguous(s, i)
     \/ pass[s][i] = "orphan" /\ Step(s, i, "none") /\ UNCHANGED sheet
  /\ UNCHANGED <<row, late>>

\* recordClientSubmission: in time, or after the sweep for a manual review; else, and when the call fails,
\* the pass ends in an error and the hash is forgotten.
Report(s, i) ==
  /\ pass[s][i] = "report"
  /\ \/ /\ row[i] = "confirming" /\ late[i] < 2 /\ row' = [row EXCEPT ![i] = "submitted"]
        /\ Finished(s, i, "SUBMITTED") \/ Finished(s, i, "error")
     \/ /\ row[i] = "expired" /\ row' = [row EXCEPT ![i] = "review"]
        /\ Finished(s, i, "SUBMITTED") \/ Finished(s, i, "error")
     \/ UNCHANGED row /\ Finished(s, i, "error")
  /\ UNCHANGED <<late, sent>>

Next ==
  \/ \E i \in Intents : Tick(i) \/ Expire(i)
  \/ \E s \in Sheets : Home(s) \/ Close(s) \/ ClickConfirm(s) \/ ClickCancel(s)
  \/ \E s \in Sheets, i \in Intents :
       \/ Review(s, i) \/ Read(s, i) \/ BeginSecureSheetConfirmation(s, i) \/ ShowCard(s, i) \/ Cancel(s, i)
       \/ WalletRefuses(s, i) \/ WalletSends(s, i) \/ Report(s, i)

Spec == Init /\ [][Next]_vars

-----------------------------------------------------------------------------
(* Properties.                                                             *)

\* However many screens the person has open and however often they are closed and opened, an intent goes to
\* the wallet once.
AskedOnce ==
  \A i \in Intents : sent[i] + Cardinality({s \in Sheets : pass[s][i] \in {"wallet", "orphan"}}) <= 1

\* What the person confirms is the card on the screen.
TakesWhatIsShown == \A s \in Sheets, i \in Intents : pass[s][i] = "confirm" /\ pass'[s][i] = "wallet" => card[s] = i
ConfirmedIsShown == [][TakesWhatIsShown]_vars

\* An intent that was cancelled was not sent and never will be: its reservation is free for the next trade.
CancelledWasNotSent ==
  \A i \in Intents : row[i] = "cancelled" => sent[i] = 0 /\ \A s \in Sheets : pass[s][i] \notin {"wallet", "orphan"}

\* "Nothing was signed or submitted", the error view says.
ErrorSaysTruth ==
  [][\A s \in Sheets, i \in Intents : view'[s] = "error" /\ pass[s][i] # "none" /\ pass'[s][i] = "none" => sent[i] = 0]_vars
=============================================================================
