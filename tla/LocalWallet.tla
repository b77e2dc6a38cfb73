------------------------------ MODULE LocalWallet ------------------------------
(***************************************************************************)
(* The wallets kept on the device: made or imported in the secure sheet,   *)
(* put into the device's storage, registered with the service by their     *)
(* public address, shown again to their owner, and used to sign.  Every    *)
(* call to the device, to the person and to the service may fail, the app  *)
(* may be killed between any two, and several operations may be under way. *)
(***************************************************************************)
EXTENDS Naturals

CONSTANTS
  Addresses, \* accounts that can be generated or imported
  Flows,     \* operations of the sheet
  None

VARIABLES
  vault,      \* SecureStorage: the addresses whose record it holds
  registered, \* the local wallets the service was told of
  display,    \* whose secret is on the screen (None: nobody's)
  flow        \* of each operation: its kind, its step, its address, whether it holds the secret, how it ended

vars == <<vault, registered, display, flow>>

Kinds == {"create", "import", "reveal", "send"}
Steps == {"idle", "prepare", "authenticate", "account", "backup", "store", "register", "close", "show", "sign", "clear"}
Ends  == {"none", "ok", "unavailable", "refused", "failed", "sent"}
Idle  == [kind |-> "create", at |-> "idle", address |-> None, holds |-> FALSE, end |-> "none"]

TypeOK ==
  /\ vault \subseteq Addresses /\ registered \subseteq Addresses /\ display \in Addresses \cup {None}
  /\ flow \in [Flows -> [kind : Kinds, at : Steps, address : Addresses \cup {None}, holds : BOOLEAN, end : Ends]]

Init == vault = {} /\ registered = {} /\ display = None /\ flow = [f \in Flows |-> Idle]

Goto(f, step) == flow' = [flow EXCEPT ![f].at = step]
\* What is still to be cleared is cleared in the step after.
Leave(f, how) == flow' = [flow EXCEPT ![f].at = "clear", ![f].end = how]
\* Nothing sensitive was touched yet.
Quit(f, how)  == flow' = [flow EXCEPT ![f].at = "idle", ![f].end = how]

-----------------------------------------------------------------------------
\* A wallet is made or imported, shown to its owner, or asked to sign a confirmed transaction.
Start(f, kind, a) ==
  /\ flow[f].at = "idle"
  /\ kind = "send" => a \in registered
  /\ flow' = [flow EXCEPT ![f] = [kind |-> kind, at |-> IF kind = "send" THEN "authenticate" ELSE "prepare", address |-> a,
                                  holds |-> FALSE, end |-> "none"]]
  /\ UNCHANGED <<vault, registered, display>>

\* prepareSecureSheet: storage and biometry, asked for access if need be.
Prepare(f) ==
  /\ flow[f].at = "prepare"
  /\ Goto(f, "authenticate") \/ Quit(f, "unavailable")
  /\ UNCHANGED <<vault, registered, display>>

Authenticate(f) ==
  /\ flow[f].at = "authenticate"
  /\ Goto(f, CASE flow[f].kind = "reveal" -> "show" [] flow[f].kind = "send" -> "sign" [] OTHER -> "account") \/ Quit(f, "refused")
  /\ UNCHANGED <<vault, registered, display>>

\* generateAccount, whose words the owner is then asked for; importAccount, which may find the phrase invalid.
Account(f) ==
  /\ flow[f].at = "account"
  /\ \/ flow' = [flow EXCEPT ![f].holds = TRUE, ![f].at = IF flow[f].kind = "create" THEN "backup" ELSE "store"]
     \/ Leave(f, "failed")
  /\ UNCHANGED <<vault, registered, display>>

\* The words are on the screen until some of them are given back.
ShowBackup(f) ==
  /\ flow[f].at = "backup" /\ display # flow[f].address
  /\ display' = flow[f].address
  /\ UNCHANGED <<vault, registered, flow>>

ConfirmBackup(f) ==
  /\ flow[f].at = "backup" /\ display = flow[f].address
  /\ Goto(f, "store") \/ Leave(f, "refused")
  /\ UNCHANGED <<vault, registered, display>>

\* Faulty variant: the service hears of the wallet before the device has it.
RegisteredFirst == <<"register", "store">>

\* persistAndRegister: the record first, the address second.
PersistOrder == <<"store", "register">>

\* The step at place n of the order is done, or fails.
Persist(f, n) ==
  /\ flow[f].at = <<"store", "register">>[n]
  /\ \/ /\ IF PersistOrder[n] = "store" THEN vault' = vault \cup {flow[f].address} /\ UNCHANGED registered
                                        ELSE registered' = registered \cup {flow[f].address} /\ UNCHANGED vault
        /\ Goto(f, IF n = 1 THEN "register" ELSE "close")
     \/ Leave(f, "failed") /\ UNCHANGED <<vault, registered>>
  /\ UNCHANGED display

CloseSheet(f) ==
  /\ flow[f].at = "close"
  /\ Leave(f, "ok") \/ Leave(f, "failed")
  /\ UNCHANGED <<vault, registered, display>>

\* revealRecovery: the record is read and decoded, and its words shown.
Show(f) ==
  LET a == flow[f].address
  IN  /\ flow[f].at = "show"
      /\ \/ a \in vault /\ display' = a /\ flow' = [flow EXCEPT ![f].at = "clear", ![f].holds = TRUE, ![f].end = "ok"]
         \/ Leave(f, "failed") /\ UNCHANGED display
      /\ UNCHANGED <<vault, registered>>

\* LocalVaultWalletAdapter.sendConfirmed: no record, no signature; only a hash leaves.
Sign(f) ==
  /\ flow[f].at = "sign"
  /\ \/ flow[f].address \in vault /\ Leave(f, "sent")
     \/ flow[f].address \notin vault /\ Leave(f, "unavailable")
     \/ Leave(f, "failed")
  /\ UNCHANGED <<vault, registered, display>>

\* The finally: challenge, account and screen.
Cleared(f) == None

Clear(f) ==
  /\ flow[f].at = "clear"
  /\ display' = IF flow[f].kind = "send" THEN display ELSE Cleared(f)
  /\ flow' = [flow EXCEPT ![f].at = "idle", ![f].holds = FALSE]
  /\ UNCHANGED <<vault, registered>>

\* The app is killed, and its memory and screen with it.
Kill == display' = None /\ flow' = [f \in Flows |-> Idle] /\ UNCHANGED <<vault, registered>>

Next ==
  \/ \E f \in Flows, kind \in Kinds, a \in Addresses : Start(f, kind, a)
  \/ \E f \in Flows : \/ Prepare(f) \/ Authenticate(f) \/ Account(f) \/ ShowBackup(f) \/ ConfirmBackup(f) \/ Persist(f, 1) \/ Persist(f, 2)
                      \/ CloseSheet(f) \/ Show(f) \/ Sign(f) \/ Clear(f)
  \/ Kill

Spec == Init /\ [][Next]_vars

-----------------------------------------------------------------------------
(* Properties.                                                             *)

\* A wallet the service trades for can be signed with on the device, and no secret is on the screen once
\* nobody is looking at it.
WalletsAreKept ==
  /\ registered \subseteq vault
  /\ (\A f \in Flows : flow[f].at = "idle") => display = None
=============================================================================
