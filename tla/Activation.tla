------------------------------ MODULE Activation ------------------------------
(***************************************************************************)
(* tools/activate-token: the address of the token is proved against the    *)
(* chain, a complete copy of the repository is built with it, and only     *)
(* then token.json and the line of the README are replaced and the pages   *)
(* built in place; a failure of any of these puts every touched file back. *)
(* The disk may refuse any single operation, the process may die between   *)
(* two of them, and other people edit the README and the sources the pages *)
(* are built from at any time: nothing keeps them out.                     *)
(***************************************************************************)
EXTENDS Naturals, FiniteSets

CONSTANTS
  Addresses, Venues,     \* token addresses, and the pons URLs of one of them
  Pages,                 \* what the build writes
  Genuine,               \* the addresses the chain proves
  MaxEdits,              \* bound on the edits of the README and on those of the sources
  None, Missing, Torn    \* no address or venue, no file, a file cut short

VARIABLES
  disk, backups, \* the files, and those of which a backup was left beside them
  source, text,  \* how often the sources and the README were edited by others
  run            \* activateToken: its step, what it wants and what it read

vars == <<disk, backups, source, text, run>>

\* tokenConfigOf: a venue only beside an address.
Blank  == [address |-> None, pons |-> None]
Config == {Blank} \cup [address : Addresses, pons : Venues \cup {None}]
Files  == {"token", "readme"} \cup Pages
Readme == [line : Addresses \cup {None}, text : SUBSET (1..MaxEdits)]   \* text: the edits of others it holds
Page   == [of : Config, from : 0..MaxEdits]

NoLine == [line |-> None, text |-> {}]

Quiet == [at |-> "idle", goal |-> Blank, token |-> Blank, readme |-> NoLine, proposed |-> Torn,
          snapshot |-> Missing, aside |-> Missing, todo |-> {}, failed |-> FALSE]

Ends  == {"idle", "refused", "done", "unread", "failed", "torn", "killed"}
Steps == Ends \cup {"prove", "preflight", "guard", "token", "readme", "build", "verify", "compare", "restore"}

TypeOK ==
  /\ disk["token"] \in Config \cup {Missing}
  /\ disk["readme"] \in Readme \cup {Missing}
  /\ \A p \in Pages : disk[p] \in Page \cup {Missing, Torn}
  /\ backups \subseteq Files
  /\ source \in 0..MaxEdits /\ text \in 0..MaxEdits
  /\ run.at \in Steps /\ run.goal \in Config /\ run.todo \subseteq Files

Rendered(config) == [of |-> config, from |-> source]

Init ==
  /\ source = 0 /\ text = 0 /\ run = Quiet
  /\ disk = [f \in Files |-> CASE f = "token" -> Blank
                               [] f = "readme" -> NoLine
                               [] OTHER -> Rendered(Blank)]
  /\ backups = {}

Goto(step)     == run' = [run EXCEPT !.at = step]
Refuse         == run' = [Quiet EXCEPT !.at = "refused"]
RollBack       == run' = [run EXCEPT !.at = "restore", !.todo = Files, !.aside = Missing]

-----------------------------------------------------------------------------
(* Others at work on the tree.                                             *)

\* An edit needs the file: between the two renames of a replacement there is none.
EditReadme ==
  /\ text < MaxEdits /\ disk["readme"] # Missing
  /\ text' = text + 1
  /\ disk' = [disk EXCEPT !["readme"].text = @ \cup {text + 1}]
  /\ UNCHANGED <<backups, source, run>>

EditSource == source < MaxEdits /\ source' = source + 1 /\ UNCHANGED <<disk, backups, text, run>>

-----------------------------------------------------------------------------
(* The run.                                                                *)

\* activationInput: one address, and a venue that names it.
Wanted == Config \ {Blank}

\* The tree carries no token yet, or this one with no other venue.
Compatible(old, new) == old.address # None => old.address = new.address /\ old.pons \in {None, new.pons}

\* nextReadme: the placeholder gives way to the line; the line of this address stays.
HasLine(readme, address) == readme.line \in {None, address}
NextReadme == [run.readme EXCEPT !.line = run.goal.address]

\* readActivation fails on a tree whose token.json is gone.
Start(config) ==
  LET old == disk["token"]  readme == disk["readme"]
  IN  /\ run.at \in Ends
      /\ IF old # Missing /\ readme # Missing /\ Compatible(old, config) /\ HasLine(readme, config.address)
           THEN run' = [Quiet EXCEPT !.at = "prove", !.goal = config, !.token = old, !.readme = readme]
           ELSE run' = [Quiet EXCEPT !.at = "refused", !.goal = config]
      /\ UNCHANGED <<disk, backups, source, text>>

\* proveFinalizedState: chain, code, factory record, symbol, decimals and supply, all at one finalized block.
Prove ==
  /\ run.at = "prove"
  /\ \/ run.goal.address \in Genuine /\ Goto("preflight")
     \/ Refuse
  /\ UNCHANGED <<disk, backups, source, text>>

\* tempPreflight: a copy of the tree, the new documents, the build, its check and the test.
Preflight ==
  /\ run.at = "preflight"
  /\ \/ run' = [run EXCEPT !.at = "guard", !.proposed = Rendered(run.goal)]
     \/ Refuse
  /\ UNCHANGED <<disk, backups, source, text>>

\* Faulty variant: what was read at the start is taken to be there still.
UnchangedInputs == TRUE

\* Neither document changed while the copy was built.  What is edited from here on, nobody looks at.
SameInputs == disk["token"] = run.token /\ disk["readme"] = run.readme

Guard ==
  /\ run.at = "guard"
  /\ \/ SameInputs /\ run' = [run EXCEPT !.at = "token", !.snapshot = disk]
     \/ Refuse
  /\ UNCHANGED <<disk, backups, source, text>>

-----------------------------------------------------------------------------
\* atomicReplace: the old file goes aside, the new one takes its place, the backup is removed.
Aside(f) ==
  /\ run.aside = Missing
  /\ disk' = [disk EXCEPT ![f] = Missing]
  /\ run' = [run EXCEPT !.aside = disk[f]]

\* An operation is refused: the old file comes back, unless that is refused as well.
Undone(f) ==
  /\ \/ disk' = [disk EXCEPT ![f] = IF run.aside = Missing THEN @ ELSE run.aside] /\ UNCHANGED backups
     \/ run.aside # Missing /\ UNCHANGED disk /\ backups' = backups \cup {f}
  /\ RollBack

Replace(f, value, next) ==
  /\ run.at = f
  /\ \/ Aside(f) /\ UNCHANGED backups
     \/ /\ run.aside # Missing
        /\ disk' = [disk EXCEPT ![f] = value]
        /\ run' = [run EXCEPT !.at = next, !.aside = Missing, !.todo = IF next = "build" THEN Pages ELSE {}]
        /\ UNCHANGED backups
     \/ Undone(f)
  /\ UNCHANGED <<source, text>>

ReplaceToken  == Replace("token", run.goal, "readme")
ReplaceReadme == Replace("readme", NextReadme, "build")

\* runNode(build): the pages are written one after another from what the tree holds by now.
Build ==
  /\ run.at = "build"
  /\ \/ \E p \in run.todo : /\ disk' = [disk EXCEPT ![p] = Rendered(disk["token"])]
                            /\ run' = [run EXCEPT !.todo = @ \ {p}]
     \/ run.todo = {} /\ Goto("verify") /\ UNCHANGED disk
     \/ /\ disk' \in {disk} \cup {[disk EXCEPT ![p] = Torn] : p \in run.todo}
        /\ RollBack
  /\ UNCHANGED <<backups, source, text>>

\* verifyRendered, and the pages are those the copy had.
AsProposed ==
  /\ disk["token"] = run.goal /\ NextReadme.line = run.goal.address
  /\ \A p \in Pages : disk[p] = run.proposed

Verify ==
  /\ run.at = "verify"
  /\ \/ AsProposed /\ Goto("compare")
     \/ RollBack
  /\ UNCHANGED <<disk, backups, source, text>>

\* Was anything changed?  When both documents were as wanted before, the pages are read once more, and there is
\* no way back any longer: a refused read is reported as a failure of a run that is complete.
Compare ==
  /\ run.at = "compare"
  /\ \/ Goto("done")
     \/ run.token = run.goal /\ run.readme = NextReadme /\ Goto("unread")
  /\ UNCHANGED <<disk, backups, source, text>>

\* restore: atomicReplace, or atomicCreate where the file is gone.
PutBack(f) == run.snapshot[f]

InTurn(f) == f \in run.todo /\ ("token" \in run.todo => f = "token") /\ ("readme" \in run.todo => f \notin Pages)

Restore(f) ==
  /\ run.at = "restore" /\ InTurn(f)
  /\ \/ disk' = [disk EXCEPT ![f] = PutBack(f)] /\ run' = [run EXCEPT !.todo = @ \ {f}] /\ UNCHANGED backups
     \/ /\ \/ UNCHANGED <<disk, backups>>
           \/ disk' = [disk EXCEPT ![f] = Missing] /\ backups' = backups \cup {f}
        /\ run' = [run EXCEPT !.todo = @ \ {f}, !.failed = TRUE]
  /\ UNCHANGED <<source, text>>

Restored ==
  /\ run.at = "restore" /\ run.todo = {}
  /\ Goto(IF run.failed THEN "torn" ELSE "failed")
  /\ UNCHANGED <<disk, backups, source, text>>

\* The process dies; the tree stays as it is, with what was aside still aside.
Die ==
  /\ run.at \notin Ends
  /\ run' = [Quiet EXCEPT !.at = "killed"]
  /\ backups' = IF run.aside = Missing THEN backups ELSE backups \cup {run.at}
  /\ UNCHANGED <<disk, source, text>>

Next ==
  \/ EditReadme \/ EditSource \/ Die
  \/ \E c \in Wanted : Start(c)
  \/ Prove \/ Preflight \/ Guard \/ ReplaceToken \/ ReplaceReadme \/ Build \/ Verify \/ Compare
  \/ (\E f \in Files : Restore(f)) \/ Restored

Spec == Init /\ [][Next]_vars

-----------------------------------------------------------------------------
(* Properties.                                                             *)

\* The README is there with a line, and with every edit a run had found in it; later ones may be in it as well.
ReadmeKeeps(line, edits) ==
  disk["readme"] # Missing /\ disk["readme"].line = line /\ edits \subseteq disk["readme"].text

\* A run that rolled back without a failure leaves every file as its snapshot has it, and one that ends
\* otherwise leaves the token, the line and every page of one address, whether it reports success or
\* (unread) a failure of its last reads.  No edit of the README that came before the snapshot is lost either
\* way; one that comes between the snapshot and the replacement, or before a restore, may be.
AllOrNothing ==
  /\ run.at = "failed" => /\ \A f \in Files \ {"readme"} : disk[f] = run.snapshot[f]
                          /\ ReadmeKeeps(run.snapshot["readme"].line, run.snapshot["readme"].text)
  /\ run.at \in {"done", "unread"} => /\ disk["token"] = run.goal
                                      /\ ReadmeKeeps(run.goal.address, run.snapshot["readme"].text)
                                      /\ \A p \in Pages : disk[p] = run.proposed /\ disk[p].of = run.goal
=============================================================================
