------------------------------ MODULE Surfaces ------------------------------
(***************************************************************************)
(* What faces a person, side by side: the review and signing of trades     *)
(* (SecureSheet), the wallets kept on the device (LocalWallet), what the   *)
(* bot keeps of a holder (Holders), and the published corpus that answers  *)
(* are made of (PublishedBundle).  They share no state: part says whose    *)
(* behaviour this is, and never changes.                                   *)
(***************************************************************************)
EXTENDS Parts, Naturals, FiniteSets

CONSTANTS
  Absent,
  Screens, Offers, Forged,                     \* of SecureSheet: its Sheets and Intents, and the forged ones
  Addresses, Flows,                            \* of LocalWallet
  People, Wallets, Marks, Checks, Edits,       \* of Holders
  HolderTokens, Threshold, MaxWatched,               \* with its Holding
  Generations, RuleChecks, Asks                \* of PublishedBundle, with its Checks

ASSUME ScreensAssumption == IsFiniteSet(Screens) /\ Screens # {}
ASSUME HoldersAssumption == MaxWatched \in Nat /\ People # {} /\ Wallets # {} /\ Marks # {}
\* A check of the rules is no request for an identity.
ASSUME ReadersAssumption == Generations \in Nat \ {0} /\ RuleChecks \cap Asks = {}

VARIABLES
  offer, late, view, list, card, armed, pass,     \* of SecureSheet, with its row and sent
  vault, registered, display, flow,               \* of LocalWallet
  mark, session, check, edit, granted,            \* of Holders, with list
  site, cache, flight, pieces, ask                \* of PublishedBundle, with its part

X == INSTANCE SecureSheet WITH Sheets <- Screens, Intents <- Offers, None <- Absent, row <- offer
W == INSTANCE LocalWallet WITH None <- Absent
H == INSTANCE Holders WITH Holding <- HolderTokens, None <- Absent
U == INSTANCE PublishedBundle WITH Checks <- RuleChecks, part <- pieces

SurfacesInit ==
  \/ part = "sheets" /\ X!Init
  \/ part = "wallet" /\ W!Init
  \/ part = "holders" /\ H!Init
  \/ part = "bundle" /\ U!Init

SurfacesNext ==
  /\ UNCHANGED part
  /\ \/ part = "sheets" /\ X!Next
     \/ part = "wallet" /\ W!Next
     \/ part = "holders" /\ H!Next
     \/ part = "bundle" /\ U!Next

SurfacesVars ==
  <<part, offer, late, view, list, card, armed, pass, sent, vault, registered, display, flow,
    mark, session, check, edit, granted, site, cache, flight, pieces, ask>>

SurfacesSpec == SurfacesInit /\ [][SurfacesNext]_SurfacesVars

-----------------------------------------------------------------------------
\* The type invariants of the components.
SurfacesTypeOK ==
  CASE part = "sheets" -> X!TypeOK
    [] part = "wallet" -> W!TypeOK
    [] part = "holders" -> H!TypeOK
    [] part = "bundle" -> U!TypeOK

\* SecureSheet.AskedOnce and CancelledWasNotSent.
SheetsAreSafe == part = "sheets" => X!AskedOnce /\ X!CancelledWasNotSent

\* SecureSheet.ConfirmedIsShown.
ConfirmedIsShown == [][part = "sheets" => X!TakesWhatIsShown]_<<part, offer, late, view, list, card, armed, pass, sent>>

\* LocalWallet.WalletsAreKept.
WalletsAreKept == part = "wallet" => W!WalletsAreKept

\* Holders.OneSessionPerMark and ListStaysReadable.
HoldersAreSafe == part = "holders" => H!OneSessionPerMark /\ H!ListStaysReadable

\* PublishedBundle.PairIsOne.
PairIsOne == part = "bundle" => U!PairIsOne
=============================================================================
