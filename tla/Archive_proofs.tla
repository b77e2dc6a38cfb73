--------------------------- MODULE Archive_proofs ---------------------------
(***************************************************************************)
(* Proofs about what is recorded and published: the audit log, for any     *)
(* number of runtimes; the activation of the token's page, for any pages,  *)
(* addresses and number of edits; the pages of the launch watch's rows,    *)
(* for any chain, any sizes of a round and of a page, and any requests;    *)
(* the live wall and the page that shows it, for any chain, any snapshots  *)
(* and any number of requests; the report on all launches and the guard,   *)
(* for any chain, any pages and any rule by which launches are left out;   *)
(* the counts of what launches say of themselves, for any launches.        *)
(***************************************************************************)
EXTENDS Archive, FiniteSums, TLAPS

-----------------------------------------------------------------------------
(* AuditLog.                                                               *)

LEMMA GenesisType == Genesis \in Hashes
BY DEF Genesis, Hashes

LEMMA HashType ==
  ASSUME TypeOK, NEW s \in 0 .. length
  PROVE  HashOf(s) \in Hashes
<1>1. CASE s = 0
  BY <1>1, GenesisType DEF HashOf
<1>2. CASE s # 0
  <2>1. s \in 1 .. length /\ log[s] \in Records
    BY <1>2 DEF TypeOK
  <2> QED
    BY <1>2, <2>1 DEF HashOf, Hashes, Records
<1> QED
  BY <1>1, <1>2

LEMMA TypeFacts ==
  ASSUME TypeOK
  PROVE  /\ length \in Nat
         /\ \A r \in Runtimes : rt[r].sequence \in Nat /\ rt[r].previous.seq \in Nat
BY DEF TypeOK, Runtime, Hashes

\* The record a successful INSERT adds leaves the stored ones as they are.
LEMMA WriteAdds ==
  ASSUME TypeOK, NEW r \in Runtimes, Write(r)
  PROVE  /\ length \in Nat /\ length' = length + 1
         /\ log'[length + 1].by = r /\ log'[length + 1].previous = rt[r].previous
         /\ \A s \in 1 .. length : log'[s] = log[s]
         /\ rt'[r].sequence = length + 1 /\ rt'[r].previous = [seq |-> length + 1, by |-> r]
         /\ \A q \in Runtimes \ {r} : rt'[q] = rt[q]
<1>1. length \in Nat /\ rt[r].sequence = length /\ length' = length + 1
  BY TypeFacts DEF Write
<1>2. log' = [n \in 1 .. length + 1 |-> IF n = length + 1 THEN [by |-> r, previous |-> rt[r].previous]
                                        ELSE log[n]]
  BY <1>1 DEF Write
<1>3. length + 1 \in 1 .. length + 1 /\ \A s \in 1 .. length : s \in 1 .. length + 1 /\ s # length + 1
  BY <1>1
<1>4. log'[length + 1] = [by |-> r, previous |-> rt[r].previous]
  BY <1>2, <1>3
<1>5. \A s \in 1 .. length : log'[s] = log[s]
  BY <1>2, <1>3
<1>6. rt' = [rt EXCEPT ![r] = [pc |-> "done", sequence |-> length + 1,
                               previous |-> [seq |-> length + 1, by |-> r]]]
  BY <1>1 DEF Write
<1>7. /\ rt'[r].sequence = length + 1 /\ rt'[r].previous = [seq |-> length + 1, by |-> r]
      /\ \A q \in Runtimes \ {r} : rt'[q] = rt[q]
  BY <1>6 DEF TypeOK
<1> QED
  BY <1>1, <1>4, <1>5, <1>7

LEMMA WriteType ==
  ASSUME TypeOK, NEW r \in Runtimes, Write(r)
  PROVE  TypeOK'
<1>1. rt[r] \in Runtime /\ length \in Nat
  BY DEF TypeOK
<1>2. rt[r].sequence = length /\ length' = length + 1
  BY <1>1 DEF Write, Runtime
<1>3. log' = [n \in 1 .. length + 1 |-> IF n = length + 1 THEN [by |-> r, previous |-> rt[r].previous]
                                        ELSE log[n]]
  BY <1>2 DEF Write
<1>4. [by |-> r, previous |-> rt[r].previous] \in Records
  BY <1>1 DEF Runtime, Records
<1>5. \A n \in 1 .. length + 1 : n # length + 1 => n \in 1 .. length /\ log[n] \in Records
  BY <1>1 DEF TypeOK
<1>6. log' \in [1 .. length' -> Records]
  BY <1>2, <1>3, <1>4, <1>5
<1>7. [pc |-> "done", sequence |-> length + 1, previous |-> [seq |-> length + 1, by |-> r]] \in Runtime
  BY <1>1 DEF Runtime, Hashes
<1>8. rt' = [rt EXCEPT ![r] = [pc |-> "done", sequence |-> length + 1,
                               previous |-> [seq |-> length + 1, by |-> r]]]
  BY <1>2 DEF Write
<1>9. rt' \in [Runtimes -> Runtime]
  BY <1>7, <1>8 DEF TypeOK
<1> QED
  BY <1>1, <1>2, <1>6, <1>9 DEF TypeOK

LEMMA TypeStep == TypeOK /\ [Next]_vars => TypeOK'
<1> SUFFICES ASSUME TypeOK, [Next]_vars PROVE TypeOK'
  OBVIOUS
<1>1. ASSUME NEW r \in Runtimes, Resume(r) PROVE TypeOK'
  <2>1. HashOf(length) \in Hashes
    BY HashType DEF TypeOK
  <2>2. [pc |-> "first", sequence |-> length, previous |-> HashOf(length)] \in Runtime
    BY <2>1 DEF TypeOK, Runtime
  <2> QED
    BY <1>1, <2>2 DEF Resume, TypeOK
<1>2. ASSUME NEW r \in Runtimes, Write(r) PROVE TypeOK'
  BY <1>2, WriteType
<1>3. ASSUME NEW r \in Runtimes, Collide(r) PROVE TypeOK'
  <2> DEFINE pc == IF rt[r].pc = "first" /\ r \in Retrying THEN "second" ELSE "done"
             t == [rt[r] EXCEPT !.sequence = rt[r].sequence + 1, !.pc = pc]
  <2>1. t \in Runtime
    <3>1. rt[r] \in Runtime /\ pc \in {"second", "done"}
      BY DEF TypeOK
    <3>2. rt[r].sequence + 1 \in Nat
      BY <3>1 DEF Runtime
    <3> HIDE DEF pc
    <3> QED
      BY <3>1, <3>2 DEF Runtime
  <2>2. rt' = [rt EXCEPT ![r] = t]
    BY <1>3 DEF Collide, TypeOK, Runtime
  <2> QED
    BY <1>3, <2>1, <2>2 DEF Collide, TypeOK
<1>4. CASE UNCHANGED vars
  BY <1>4 DEF vars, TypeOK
<1> QED
  BY <1>1, <1>2, <1>3, <1>4 DEF Next, AppendRecord, AllDone

\* Every variable of the log stays in its type.
THEOREM Typing == Spec => []TypeOK
<1>1. Init => TypeOK
  BY GenesisType DEF Init, TypeOK, Runtime
<1> QED
  BY <1>1, TypeStep, PTL DEF Spec

-----------------------------------------------------------------------------
(***************************************************************************)
(* A previous hash is always that of a stored record.  What makes it so is *)
(* that a runtime remembers a hash only after it was stored, and that a    *)
(* stored record is never replaced.                                        *)
(***************************************************************************)
Stored(p) == p.seq \in 0 .. length /\ p = HashOf(p.seq)

StoredInv ==
  /\ \A r \in Runtimes : Stored(rt[r].previous) /\ rt[r].previous.seq <= rt[r].sequence
  /\ \A s \in 1 .. length : Stored(log[s].previous) /\ log[s].previous.seq < s

LEMMA StoredStays ==
  ASSUME TypeOK, NEW r \in Runtimes, Write(r), NEW p, Stored(p)
  PROVE  Stored(p)'
<1>1. length \in Nat /\ length' = length + 1 /\ p.seq \in 0 .. length
  BY TypeFacts, WriteAdds DEF Stored
<1>2. ASSUME NEW s \in 0 .. length, s # 0 PROVE log'[s] = log[s]
  <2>1. s \in 1 .. length
    BY <1>1, <1>2
  <2> QED
    BY <2>1, WriteAdds
<1>3. p.seq \in 0 .. length'
  BY <1>1
<1> QED
  BY <1>1, <1>2, <1>3 DEF Stored, HashOf

LEMMA StoredStep ==
  ASSUME TypeOK, StoredInv, [Next]_vars
  PROVE  StoredInv'
<1> USE TypeFacts
<1>1. ASSUME NEW r \in Runtimes, Resume(r) PROVE StoredInv'
  <2> DEFINE h == HashOf(length)
  <2>1. h.seq = length /\ Stored(h)
    BY DEF HashOf, Genesis, Stored
  <2>2. rt'[r].previous = h /\ rt'[r].sequence = length /\ \A q \in Runtimes \ {r} : rt'[q] = rt[q]
    BY <1>1 DEF Resume, TypeOK
  <2>3. UNCHANGED <<log, length>>
    BY <1>1 DEF Resume
  <2> HIDE DEF h
  <2>4. \A p : Stored(p) => Stored(p)'
    BY <2>3 DEF Stored, HashOf
  <2>5. ASSUME NEW q \in Runtimes PROVE Stored(rt'[q].previous) /\ rt'[q].previous.seq <= rt'[q].sequence
    <3>1. CASE q = r
      BY <2>1, <2>2, <3>1
    <3>2. CASE q # r
      BY <2>2, <2>5, <3>2 DEF StoredInv
    <3> QED
      BY <3>1, <3>2
  <2>6. \A s \in 1 .. length' : Stored(log'[s].previous) /\ log'[s].previous.seq < s
    BY <2>3 DEF StoredInv
  <2> QED
    BY <2>4, <2>5, <2>6 DEF StoredInv
<1>2. ASSUME NEW r \in Runtimes, Write(r) PROVE StoredInv'
  <2>1. ASSUME NEW p, p = [seq |-> length + 1, by |-> r] PROVE Stored(p)'
    BY <1>2, <2>1, WriteAdds DEF Stored, HashOf
  <2>2. ASSUME NEW q \in Runtimes, NEW p, p = rt'[q].previous PROVE Stored(p)' /\ p.seq <= rt'[q].sequence
    <3>1. CASE q = r
      <4>1. p = [seq |-> length + 1, by |-> r] /\ rt'[q].sequence = length + 1 /\ length + 1 \in Nat
        BY <1>2, <2>2, <3>1, WriteAdds
      <4>2. p.seq = length + 1
        BY <4>1
      <4>3. Stored(p)'
        BY <2>1, <4>1
      <4> QED
        BY <4>1, <4>2, <4>3
    <3>2. CASE q # r
      <4>1. rt'[q] = rt[q]
        <5>1. \A t \in Runtimes \ {r} : rt'[t] = rt[t]
          BY <1>2, WriteAdds
        <5> QED
          BY <3>2, <5>1
      <4> QED
        BY <1>2, <2>2, <4>1, StoredStays DEF StoredInv
    <3> QED
      BY <3>1, <3>2
  <2>3. ASSUME NEW s \in 1 .. length', NEW p, p = log'[s].previous PROVE Stored(p)' /\ p.seq < s
    <3>1. CASE s = length + 1
      <4>1. p = rt[r].previous
        BY <1>2, <2>3, <3>1, WriteAdds
      <4>2. Stored(p)
        BY <4>1 DEF StoredInv
      <4> QED
        BY <1>2, <3>1, <4>2, StoredStays DEF Stored
    <3>2. CASE s # length + 1
      <4>1. length' = length + 1
        BY <1>2, WriteAdds
      <4>2. s \in 1 .. length
        BY <2>3, <3>2, <4>1
      <4>3. p = log[s].previous
        BY <1>2, <2>3, <4>2, WriteAdds
      <4>4. Stored(p) /\ p.seq < s
        BY <4>2, <4>3 DEF StoredInv
      <4> QED
        BY <1>2, <4>4, StoredStays
    <3> QED
      BY <3>1, <3>2
  <2> QED
    BY <2>2, <2>3 DEF StoredInv
<1>3. ASSUME NEW r \in Runtimes, Collide(r) PROVE StoredInv'
  <2>1. /\ rt'[r].previous = rt[r].previous /\ rt'[r].sequence = rt[r].sequence + 1
        /\ \A q \in Runtimes \ {r} : rt'[q] = rt[q]
        /\ UNCHANGED <<log, length>>
    BY <1>3 DEF Collide, TypeOK, Runtime
  <2>2. rt[r].sequence \in Nat /\ rt[r].previous.seq \in Nat
    BY DEF TypeOK, Runtime, Hashes
  <2> QED
    BY <2>1, <2>2 DEF StoredInv, Stored, HashOf
<1>4. CASE UNCHANGED vars
  BY <1>4 DEF vars, StoredInv, Stored, HashOf
<1> QED
  BY <1>1, <1>2, <1>3, <1>4 DEF Next, AppendRecord, AllDone

\* Whatever the runtimes race for, every record points at an older record that is still stored.
THEOREM NeverIntoTheVoid == Spec => []PreviousIsStored
<1>1. Init => StoredInv
  BY DEF Init, StoredInv, Stored, HashOf, Genesis
<1>2. StoredInv => PreviousIsStored
  BY DEF StoredInv, Stored, PreviousIsStored
<1> QED
  BY <1>1, <1>2, Typing, StoredStep, PTL DEF Spec

-----------------------------------------------------------------------------
(* Activation.                                                             *)

\* What a file of each kind may hold.
Content(f) ==
  IF f = "token" THEN T!Config \cup {NoFile}
  ELSE IF f = "readme" THEN T!Readme \cup {NoFile}
  ELSE T!Page \cup {NoFile, Torn}
Holds(d) == d = [f \in T!Files |-> d[f]] /\ \A f \in T!Files : d[f] \in Content(f)

\* The steps of a run that has a snapshot of the tree.
AChanging == {"token", "readme", "build", "verify", "compare", "restore"}

RunRecord ==
  [at : T!Steps, goal : T!Config, token : T!Config, readme : T!Readme, proposed : T!Page \cup {Torn},
   snapshot : {run.snapshot}, aside : {run.aside}, todo : SUBSET T!Files, failed : BOOLEAN]

AShape ==
  /\ Holds(disk) /\ backups \subseteq T!Files
  /\ source \in 0 .. MaxEdits /\ text \in 0 .. MaxEdits
  /\ run \in RunRecord
  /\ run.at \in AChanging => Holds(run.snapshot)
  /\ run.at \in {"token", "readme"} => run.aside \in Content(run.at)
  /\ run.at \notin {"token", "readme"} => run.aside = NoFile

\* From the guard on, the README in the snapshot is the one the new line is written into.
AWords == run.at \in AChanging => run.snapshot["readme"] = run.readme

\* The documents and the pages while a run changes them.  The README on the disk may hold more edits.
AReadme ==
  /\ run.at \in {"readme", "build", "verify", "compare"} => disk["token"] = run.goal
  /\ run.at \in {"build", "verify", "compare"} => T!ReadmeKeeps(run.goal.address, run.readme.text)
  /\ run.at = "build" => run.todo \subseteq Pages
  /\ run.at = "compare" => \A p \in Pages : disk[p] = run.proposed

\* The copy was built for the address that was asked for.
AProposed ==
  run.at \in {"guard", "token", "readme", "build", "verify", "compare", "done", "unread"} => run.proposed.of = run.goal

\* What restore has passed without a failure is as it was.
ARestored == run.at = "restore" /\ ~ run.failed =>
  /\ \A f \in T!Files \ (run.todo \cup {"readme"}) : disk[f] = run.snapshot[f]
  /\ "readme" \notin run.todo => T!ReadmeKeeps(run.readme.line, run.readme.text)

AInv == AShape /\ AWords /\ AReadme /\ AProposed /\ ARestored /\ T!AllOrNothing

-----------------------------------------------------------------------------
LEMMA FileNames == "token" \in T!Files /\ "readme" \in T!Files /\ "token" \notin Pages /\ "readme" \notin Pages
                   /\ T!Files = {"token", "readme"} \cup Pages
BY FilesAssumption DEF T!Files

LEMMA ReadmeFacts ==
  ASSUME NEW r \in T!Readme
  PROVE  /\ r # NoFile
         /\ \A n \in 1 .. MaxEdits : /\ [r EXCEPT !.text = @ \cup {n}] \in T!Readme
                                    /\ [r EXCEPT !.text = @ \cup {n}].text = r.text \cup {n}
                                    /\ [r EXCEPT !.text = @ \cup {n}].line = r.line
         /\ \A a \in TokenAddresses \cup {Unset} :
              /\ [r EXCEPT !.line = a] \in T!Readme
              /\ [r EXCEPT !.line = a] = [line |-> a, text |-> r.text]
BY FilesAssumption DEF T!Readme

LEMMA ConfigFacts ==
  /\ T!Blank \in T!Config
  /\ \A c \in T!Config : c.address \in TokenAddresses \cup {Unset}
BY DEF T!Config, T!Blank

LEMMA PageFacts ==
  ASSUME NEW c \in T!Config, source \in 0 .. MaxEdits
  PROVE  T!Rendered(c) \in T!Page /\ T!Rendered(c).of = c
BY DEF T!Rendered, T!Page

\* What writing one file does.
LEMMA FileWritten ==
  ASSUME Holds(disk), NEW f \in T!Files, NEW v \in Content(f), disk' = [disk EXCEPT ![f] = v]
  PROVE  Holds(disk)' /\ disk'[f] = v /\ \A g \in T!Files \ {f} : disk'[g] = disk[g]
<1>1. disk = [g \in T!Files |-> disk[g]] /\ \A g \in T!Files : disk[g] \in Content(g)
  BY DEF Holds
<1>2. disk'[f] = v /\ \A g \in T!Files \ {f} : disk'[g] = disk[g]
  BY <1>1
<1>3. disk' = [g \in T!Files |-> disk'[g]]
  BY <1>1
<1>4. \A g \in T!Files : disk'[g] \in Content(g)
  BY <1>1, <1>2
<1> QED
  BY <1>2, <1>3, <1>4 DEF Holds

\* A run that begins, or is over and forgotten.
LEMMA QuietRun ==
  ASSUME NEW step \in T!Steps, NEW c \in T!Config, NEW t \in T!Config, NEW r \in T!Readme,
         run' = [at |-> step, goal |-> c, token |-> t, readme |-> r, proposed |-> Torn, snapshot |-> NoFile,
                 aside |-> NoFile, todo |-> {}, failed |-> FALSE]
  PROVE  run' \in RunRecord' /\ run'.at = step /\ run'.aside = NoFile
<1>1. run'.snapshot = NoFile /\ run'.aside = NoFile /\ run'.at = step
  OBVIOUS
<1>2. run' \in RunRecord'
  BY <1>1 DEF RunRecord
<1> QED
  BY <1>1, <1>2

\* A run at its next step, with what it keeps.
AtStep(step, p, s, a, d) ==
  [at |-> step, goal |-> run.goal, token |-> run.token, readme |-> run.readme, proposed |-> p, snapshot |-> s,
   aside |-> a, todo |-> d, failed |-> run.failed]

LEMMA RunMoved ==
  ASSUME run \in RunRecord, NEW step \in T!Steps, NEW p \in T!Page \cup {Torn}, NEW s, NEW a,
         NEW d \in SUBSET T!Files, run' = AtStep(step, p, s, a, d)
  PROVE  /\ run' \in RunRecord'
         /\ run'.at = step /\ run'.proposed = p /\ run'.snapshot = s /\ run'.aside = a /\ run'.todo = d
         /\ run'.failed = run.failed /\ run'.goal = run.goal /\ run'.token = run.token /\ run'.readme = run.readme
<1>1. run.goal \in T!Config /\ run.token \in T!Config /\ run.readme \in T!Readme
  BY DEF RunRecord
<1> QED
  BY <1>1 DEF RunRecord, AtStep

\* Somebody edits the README, whatever a run is about.
LEMMA ReadmeEdited == AInv /\ T!EditReadme => AInv'
<1> SUFFICES ASSUME AInv, T!EditReadme PROVE AInv'
  OBVIOUS
<1>1. /\ disk["readme"] # NoFile /\ text < MaxEdits /\ text' = text + 1
      /\ disk' = [disk EXCEPT !["readme"].text = @ \cup {text + 1}]
      /\ UNCHANGED <<backups, source, run>>
  BY DEF T!EditReadme
<1>2. Holds(disk) /\ text \in 0 .. MaxEdits /\ MaxEdits \in Nat
  BY FilesAssumption DEF AInv, AShape
<1>3. disk["readme"] \in T!Readme
  BY <1>1, <1>2, FileNames DEF Holds, Content
<1>4. text' \in 0 .. MaxEdits /\ text + 1 \in 1 .. MaxEdits
  BY <1>1, <1>2
<1> DEFINE new == [disk["readme"] EXCEPT !.text = @ \cup {text + 1}]
<1>5. new \in T!Readme /\ new.text = disk["readme"].text \cup {text + 1} /\ new.line = disk["readme"].line
  BY <1>3, <1>4, ReadmeFacts
<1>6. new \in Content("readme") /\ new # NoFile
  BY <1>5, ReadmeFacts DEF Content
<1>7. disk' = [disk EXCEPT !["readme"] = new]
  BY <1>1
<1> HIDE DEF new
<1>8. Holds(disk)' /\ disk'["readme"] = new /\ \A g \in T!Files \ {"readme"} : disk'[g] = disk[g]
  BY <1>2, <1>6, <1>7, FileWritten, FileNames
<1>9. disk'["readme"] # NoFile /\ disk'["readme"].line = disk["readme"].line
      /\ disk["readme"].text \subseteq disk'["readme"].text
  BY <1>5, <1>6, <1>8
<1>10. \A line, edits : T!ReadmeKeeps(line, edits) => T!ReadmeKeeps(line, edits)'
  BY <1>9 DEF T!ReadmeKeeps
<1>11. disk'["token"] = disk["token"] /\ \A p \in Pages : disk'[p] = disk[p]
  BY <1>8, FileNames
<1>12. AShape'
  BY <1>1, <1>4, <1>8 DEF AInv, AShape, AChanging, RunRecord
<1>13. AWords' /\ AProposed'
  BY <1>1 DEF AInv, AWords, AChanging, AProposed
<1>14. AReadme'
  BY <1>1, <1>10, <1>11 DEF AInv, AReadme
<1>15. ARestored'
  BY <1>1, <1>8, <1>10 DEF AInv, ARestored
<1>16. T!AllOrNothing'
  BY <1>1, <1>8, <1>10, <1>11 DEF AInv, T!AllOrNothing
<1> QED
  BY <1>12, <1>13, <1>14, <1>15, <1>16 DEF AInv

\* A run without a snapshot.
LEMMA BeforeTheSnapshot ==
  ASSUME AInv, UNCHANGED <<disk, source, text>>, backups' \subseteq T!Files,
         run' \in RunRecord', run'.at \notin AChanging \cup {"failed", "done", "unread"}, run'.aside = NoFile,
         run'.at = "guard" => run'.proposed.of = run'.goal
  PROVE  AInv'
<1>1. AShape'
  BY DEF AInv, AShape, AChanging, Holds
<1>2. AWords' /\ AReadme' /\ AProposed' /\ ARestored' /\ T!AllOrNothing'
  BY DEF AInv, AWords, AChanging, AReadme, AProposed, ARestored, T!AllOrNothing
<1> QED
  BY <1>1, <1>2 DEF AInv

LEMMA RunRefused ==
  ASSUME T!Refuse
  PROVE  run' \in RunRecord' /\ run'.at = "refused" /\ run'.aside = NoFile
<1> DEFINE r == [line |-> Unset, text |-> {}]
<1>1. run' = [at |-> "refused", goal |-> T!Blank, token |-> T!Blank, readme |-> r, proposed |-> Torn, snapshot |-> NoFile,
              aside |-> NoFile, todo |-> {}, failed |-> FALSE]
  BY DEF T!Refuse, T!Quiet, T!NoLine
<1>2. r \in T!Readme
  BY FilesAssumption DEF T!Readme
<1>3. "refused" \in T!Steps
  BY DEF T!Steps, T!Ends
<1> QED
  BY <1>1, <1>2, <1>3, ConfigFacts, QuietRun

LEMMA Started == AInv /\ (\E c \in T!Wanted : T!Start(c)) => AInv'
<1> SUFFICES ASSUME AInv, NEW c \in T!Wanted, T!Start(c) PROVE AInv'
  OBVIOUS
<1>1. UNCHANGED <<disk, backups, source, text>> /\ backups \subseteq T!Files
  BY DEF T!Start, AInv, AShape
<1>2. c \in T!Config
  BY DEF T!Wanted
<1>3. PICK step \in {"prove", "refused"}, t \in T!Config, r \in T!Readme :
        run' = [at |-> step, goal |-> c, token |-> t, readme |-> r, proposed |-> Torn, snapshot |-> NoFile,
                aside |-> NoFile, todo |-> {}, failed |-> FALSE]
  <2>1. CASE run' = [T!Quiet EXCEPT !.at = "prove", !.goal = c, !.token = disk["token"], !.readme = disk["readme"]]
             /\ disk["token"] # NoFile /\ disk["readme"] # NoFile
    <3>1. disk["token"] \in T!Config /\ disk["readme"] \in T!Readme
      BY <2>1, FileNames DEF AInv, AShape, Holds, Content
    <3>2. run' = [at |-> "prove", goal |-> c, token |-> disk["token"], readme |-> disk["readme"], proposed |-> Torn,
                  snapshot |-> NoFile, aside |-> NoFile, todo |-> {}, failed |-> FALSE]
      BY <2>1 DEF T!Quiet, T!NoLine
    <3> QED
      BY <3>1, <3>2
  <2>2. CASE run' = [T!Quiet EXCEPT !.at = "refused", !.goal = c]
    <3> DEFINE r == [line |-> Unset, text |-> {}]
    <3>1. r \in T!Readme /\ T!Blank \in T!Config
      BY FilesAssumption, ConfigFacts DEF T!Readme
    <3>2. run' = [at |-> "refused", goal |-> c, token |-> T!Blank, readme |-> r, proposed |-> Torn,
                  snapshot |-> NoFile, aside |-> NoFile, todo |-> {}, failed |-> FALSE]
      BY <2>2 DEF T!Quiet, T!NoLine
    <3> QED
      BY <3>1, <3>2
  <2> QED
    BY <2>1, <2>2 DEF T!Start
<1>4. step \in T!Steps
  BY DEF T!Steps, T!Ends
<1>5. run' \in RunRecord' /\ run'.at = step /\ run'.aside = NoFile
  BY <1>2, <1>3, <1>4, QuietRun
<1> QED
  BY <1>1, <1>5, BeforeTheSnapshot DEF AChanging

LEMMA ProvedAndPrepared == AInv /\ (T!Prove \/ T!Preflight) => AInv'
<1> SUFFICES ASSUME AInv, T!Prove \/ T!Preflight PROVE AInv'
  OBVIOUS
<1>1. UNCHANGED <<disk, backups, source, text>> /\ backups \subseteq T!Files /\ run \in RunRecord
  BY DEF T!Prove, T!Preflight, AInv, AShape
<1>2. CASE T!Refuse
  BY <1>1, <1>2, RunRefused, BeforeTheSnapshot DEF AChanging
<1>3. run.at \in {"prove", "preflight"} /\ run.aside = NoFile /\ run.todo \in SUBSET T!Files /\ run.failed \in BOOLEAN
      /\ run.proposed \in T!Page \cup {Torn} /\ run.goal \in T!Config /\ source \in 0 .. MaxEdits
  BY <1>1 DEF T!Prove, T!Preflight, AInv, AShape, RunRecord
<1>4. CASE T!Goto("preflight")
  <2>1. run' = AtStep("preflight", run.proposed, run.snapshot, run.aside, run.todo)
    BY <1>1, <1>4 DEF T!Goto, RunRecord, AtStep
  <2>2. "preflight" \in T!Steps
    BY DEF T!Steps
  <2>3. run' \in RunRecord' /\ run'.at = "preflight" /\ run'.aside = NoFile
    BY <1>1, <1>3, <2>1, <2>2, RunMoved
  <2> QED
    BY <1>1, <2>3, BeforeTheSnapshot DEF AChanging
<1>5. CASE run' = [run EXCEPT !.at = "guard", !.proposed = T!Rendered(run.goal)]
  <2>1. run' = AtStep("guard", T!Rendered(run.goal), run.snapshot, run.aside, run.todo)
    BY <1>1, <1>5 DEF RunRecord, AtStep
  <2>2. "guard" \in T!Steps /\ T!Rendered(run.goal) \in T!Page /\ T!Rendered(run.goal).of = run.goal
    BY <1>3, PageFacts DEF T!Steps
  <2>3. run' \in RunRecord' /\ run'.at = "guard" /\ run'.aside = NoFile /\ run'.proposed.of = run'.goal
    BY <1>1, <1>3, <2>1, <2>2, RunMoved
  <2> QED
    BY <1>1, <2>3, BeforeTheSnapshot DEF AChanging
<1> QED
  BY <1>2, <1>4, <1>5 DEF T!Prove, T!Preflight

-----------------------------------------------------------------------------
(* The steps of a run that changes the tree.                               *)

LEMMA Shaped ==
  ASSUME AInv
  PROVE  /\ run \in RunRecord /\ run.at \in T!Steps /\ run.goal \in T!Config /\ run.readme \in T!Readme
         /\ run.proposed \in T!Page \cup {Torn} /\ run.todo \in SUBSET T!Files
         /\ Holds(disk) /\ backups \subseteq T!Files /\ source \in 0 .. MaxEdits /\ text \in 0 .. MaxEdits
BY DEF AInv, AShape, RunRecord

LEMMA RolledBack ==
  ASSUME AInv, run.at \in AChanging, T!RollBack, Holds(disk)', UNCHANGED <<source, text>>, backups' \subseteq T!Files
  PROVE  AInv'
<1>1. run' = AtStep("restore", run.proposed, run.snapshot, NoFile, T!Files)
  BY Shaped DEF T!RollBack, AtStep, RunRecord
<1>2. "restore" \in T!Steps
  BY DEF T!Steps
<1>3. /\ run' \in RunRecord' /\ run'.at = "restore" /\ run'.aside = NoFile /\ run'.todo = T!Files
      /\ run'.snapshot = run.snapshot /\ run'.readme = run.readme
  BY <1>1, <1>2, Shaped, RunMoved
<1>4. AShape'
  BY <1>3, Shaped DEF AInv, AShape, AChanging, Holds
<1>5. AWords'
  BY <1>3 DEF AInv, AWords, AChanging
<1>6. AReadme' /\ AProposed' /\ ARestored' /\ T!AllOrNothing'
  BY <1>3, FileNames DEF AReadme, AProposed, ARestored, T!AllOrNothing
<1> QED
  BY <1>4, <1>5, <1>6 DEF AInv

LEMMA Guarded == AInv /\ T!Guard => AInv'
<1> SUFFICES ASSUME AInv, T!Guard PROVE AInv'
  OBVIOUS
<1>1. run.at = "guard" /\ UNCHANGED <<disk, backups, source, text>>
  BY DEF T!Guard
<1>2. CASE T!Refuse
  BY <1>1, <1>2, Shaped, RunRefused, BeforeTheSnapshot DEF AChanging
<1>3. CASE T!SameInputs /\ run' = [run EXCEPT !.at = "token", !.snapshot = disk]
  <2>1. run' = AtStep("token", run.proposed, disk, run.aside, run.todo)
    BY <1>3, Shaped DEF AtStep, RunRecord
  <2>2. "token" \in T!Steps /\ run.aside = NoFile
    BY <1>1 DEF T!Steps, AInv, AShape
  <2>3. /\ run' \in RunRecord' /\ run'.at = "token" /\ run'.aside = NoFile /\ run'.snapshot = disk
        /\ run'.readme = run.readme /\ run'.goal = run.goal /\ run'.proposed = run.proposed
    BY <2>1, <2>2, Shaped, RunMoved
  <2>4. disk["readme"] = run.readme
    BY <1>3 DEF T!SameInputs
  <2>5. AShape'
    BY <1>1, <2>3, Shaped DEF AShape, AChanging, Holds, Content
  <2>6. AWords' /\ AReadme' /\ AProposed' /\ ARestored' /\ T!AllOrNothing'
    BY <1>1, <2>3, <2>4 DEF AInv, AWords, AChanging, AReadme, AProposed, ARestored, T!AllOrNothing
  <2> QED
    BY <2>5, <2>6 DEF AInv
<1> QED
  BY <1>2, <1>3 DEF T!Guard

\* A refused operation: the old file comes back or stays aside, and everything is rolled back.
LEMMA UndoneStep ==
  ASSUME AInv, NEW f \in {"token", "readme"}, run.at = f, T!Undone(f), UNCHANGED <<source, text>>
  PROVE  AInv'
<1>1. f \in T!Files /\ run.at \in AChanging /\ T!RollBack /\ run.aside \in Content(f)
  BY FileNames DEF T!Undone, AChanging, AInv, AShape
<1>2. backups' \subseteq T!Files
  BY <1>1, Shaped DEF T!Undone
<1>3. PICK v \in Content(f) : disk' = [disk EXCEPT ![f] = v] /\ v \in {disk[f], run.aside}
                              /\ (run.aside = NoFile => v = disk[f])
  <2>1. disk[f] \in Content(f) /\ disk = [disk EXCEPT ![f] = disk[f]]
    BY <1>1, Shaped DEF Holds
  <2>2. CASE UNCHANGED disk
    BY <2>1, <2>2
  <2>3. CASE disk' = [disk EXCEPT ![f] = IF run.aside = NoFile THEN @ ELSE run.aside]
    BY <2>1, <2>3, <1>1
  <2> QED
    BY <2>2, <2>3 DEF T!Undone
<1>4. Holds(disk)' /\ disk'[f] = v /\ \A g \in T!Files \ {f} : disk'[g] = disk[g]
  BY <1>1, <1>3, Shaped, FileWritten
<1> QED
  BY <1>1, <1>2, <1>4, RolledBack

LEMMA TokenReplaced == AInv /\ T!ReplaceToken => AInv'
<1> SUFFICES ASSUME AInv, T!ReplaceToken PROVE AInv'
  OBVIOUS
<1>1. run.at = "token" /\ UNCHANGED <<source, text>>
  BY DEF T!ReplaceToken, T!Replace
<1>2. run.snapshot["readme"] = run.readme /\ Holds(run.snapshot) /\ run.proposed.of = run.goal
  BY <1>1 DEF AInv, AReadme, AWords, AChanging, AShape, AProposed
<1>3. CASE T!Undone("token")
  BY <1>1, <1>3, UndoneStep
<1>4. ASSUME NEW step \in {"token", "readme"}, NEW v \in Content("token"), NEW a, NEW d \in SUBSET T!Files,
             a \in Content("token") /\ (step = "readme" => a = NoFile /\ v = run.goal), UNCHANGED backups,
             disk' = [disk EXCEPT !["token"] = v], run' = AtStep(step, run.proposed, run.snapshot, a, d)
      PROVE  AInv'
  <2>1. Holds(disk)' /\ disk'["readme"] = disk["readme"] /\ disk'["token"] = v
    <3>1. Holds(disk)
      BY Shaped
    <3>2. "token" \in T!Files /\ "readme" \in T!Files
      BY FileNames
    <3>3. disk' = [disk EXCEPT !["token"] = v]
      BY <1>4
    <3> QED
      BY <3>3, <3>1, <3>2, FileWritten
  <2>2. step \in T!Steps
    BY DEF T!Steps
  <2>3. /\ run' \in RunRecord' /\ run'.at = step /\ run'.aside = a /\ run'.snapshot = run.snapshot
        /\ run'.readme = run.readme /\ run'.goal = run.goal /\ run'.proposed = run.proposed
    BY <1>4, <2>2, Shaped, RunMoved
  <2>4. AShape'
    BY <1>1, <1>2, <1>4, <2>1, <2>3, Shaped DEF AShape, AChanging, Holds, Content
  <2>5. AWords' /\ AReadme' /\ AProposed' /\ ARestored' /\ T!AllOrNothing'
    BY <1>1, <1>2, <1>4, <2>1, <2>3 DEF AWords, AChanging, AReadme, AProposed, ARestored, T!AllOrNothing
  <2> QED
    BY <2>4, <2>5 DEF AInv
<1>5. CASE T!Aside("token") /\ UNCHANGED backups
  <2>1. disk' = [disk EXCEPT !["token"] = NoFile] /\ NoFile \in Content("token") /\ disk["token"] \in Content("token")
    BY <1>5, Shaped, FileNames DEF T!Aside, Holds, Content
  <2>2. run' = AtStep("token", run.proposed, run.snapshot, disk["token"], run.todo)
    BY <1>1, <1>5, Shaped DEF T!Aside, RunRecord, AtStep
  <2> QED
    BY <1>4, <1>5, <2>1, <2>2, Shaped
<1>6. CASE /\ disk' = [disk EXCEPT !["token"] = run.goal]
           /\ run' = [run EXCEPT !.at = "readme", !.aside = NoFile, !.todo = IF "readme" = "build" THEN Pages ELSE {}]
           /\ UNCHANGED backups
  <2>1. run.goal \in Content("token") /\ NoFile \in Content("token")
    BY Shaped DEF Content
  <2>2. run' = AtStep("readme", run.proposed, run.snapshot, NoFile, {})
    BY <1>6, Shaped DEF RunRecord, AtStep
  <2> QED
    BY <1>4, <1>6, <2>1, <2>2
<1> QED
  BY <1>3, <1>5, <1>6 DEF T!ReplaceToken, T!Replace

LEMMA NextReadmeIs ==
  ASSUME run.goal \in T!Config, run.readme \in T!Readme
  PROVE  /\ T!NextReadme \in T!Readme /\ T!NextReadme.text = run.readme.text
         /\ T!NextReadme = [line |-> run.goal.address, text |-> run.readme.text]
<1>1. run.goal.address \in TokenAddresses \cup {Unset}
  BY ConfigFacts
<1>2. T!NextReadme \in T!Readme /\ T!NextReadme = [line |-> run.goal.address, text |-> run.readme.text]
  BY <1>1, ReadmeFacts DEF T!NextReadme
<1> QED
  BY <1>2

LEMMA ReadmeReplaced == AInv /\ T!ReplaceReadme => AInv'
<1> SUFFICES ASSUME AInv, T!ReplaceReadme PROVE AInv'
  OBVIOUS
<1>1. run.at = "readme" /\ UNCHANGED <<source, text>>
  BY DEF T!ReplaceReadme, T!Replace
<1>2. /\ run.snapshot["readme"] = run.readme /\ Holds(run.snapshot) /\ run.proposed.of = run.goal
      /\ disk["token"] = run.goal
  BY <1>1 DEF AInv, AReadme, AWords, AChanging, AShape, AProposed
<1>3. CASE T!Undone("readme")
  BY <1>1, <1>3, UndoneStep
<1>4. CASE T!Aside("readme") /\ UNCHANGED backups
  <2>1. /\ disk' = [disk EXCEPT !["readme"] = NoFile] /\ NoFile \in Content("readme")
        /\ disk["readme"] \in Content("readme")
    BY <1>4, Shaped, FileNames DEF T!Aside, Holds, Content
  <2>2. run' = AtStep("readme", run.proposed, run.snapshot, disk["readme"], run.todo)
    BY <1>1, <1>4, Shaped DEF T!Aside, RunRecord, AtStep
  <2>3. Holds(disk)' /\ disk'["readme"] = NoFile /\ disk'["token"] = disk["token"]
    <3>1. Holds(disk)
      BY Shaped
    <3>2. "token" \in T!Files /\ "readme" \in T!Files
      BY FileNames
    <3> QED
      BY <2>1, <3>1, <3>2, FileWritten
  <2>4. "readme" \in T!Steps
    BY DEF T!Steps
  <2>5. /\ run' \in RunRecord' /\ run'.at = "readme" /\ run'.aside = disk["readme"] /\ run'.snapshot = run.snapshot
        /\ run'.readme = run.readme /\ run'.goal = run.goal /\ run'.proposed = run.proposed
    BY <2>1, <2>2, <2>4, Shaped, RunMoved
  <2>6. AShape'
    BY <1>1, <1>2, <1>4, <2>1, <2>3, <2>5, Shaped DEF AShape, AChanging, Holds, Content
  <2>7. AWords' /\ AReadme' /\ AProposed' /\ ARestored' /\ T!AllOrNothing'
    BY <1>1, <1>2, <2>3, <2>4, <2>5 DEF AWords, AChanging, AReadme, AProposed, ARestored, T!AllOrNothing
  <2> QED
    BY <2>6, <2>7 DEF AInv
<1>5. CASE /\ disk' = [disk EXCEPT !["readme"] = T!NextReadme]
           /\ run' = [run EXCEPT !.at = "build", !.aside = NoFile, !.todo = IF "build" = "build" THEN Pages ELSE {}]
           /\ UNCHANGED backups
  <2>1. /\ T!NextReadme \in T!Readme /\ T!NextReadme.text = run.readme.text
        /\ T!NextReadme \in Content("readme") /\ Pages \in SUBSET T!Files /\ "build" \in T!Steps
    BY Shaped, NextReadmeIs, FileNames DEF Content, T!Steps
  <2>2. run' = AtStep("build", run.proposed, run.snapshot, NoFile, Pages)
    BY <1>5, Shaped DEF RunRecord, AtStep
  <2>3. Holds(disk)' /\ disk'["readme"] = T!NextReadme /\ disk'["token"] = disk["token"]
    <3>1. Holds(disk)
      BY Shaped
    <3>2. "token" \in T!Files /\ "readme" \in T!Files
      BY FileNames
    <3>3. disk' = [disk EXCEPT !["readme"] = T!NextReadme]
      BY <1>5
    <3> QED
      BY <2>1, <3>3, <3>1, <3>2, FileWritten
  <2>4. /\ run' \in RunRecord' /\ run'.at = "build" /\ run'.aside = NoFile /\ run'.todo = Pages /\ run'.snapshot = run.snapshot
        /\ run'.readme = run.readme /\ run'.goal = run.goal /\ run'.proposed = run.proposed
    BY <2>1, <2>2, Shaped, RunMoved
  <2>5. AShape'
    BY <1>1, <1>2, <1>5, <2>3, <2>4, Shaped DEF AShape, AChanging, Holds
  <2>6. T!ReadmeKeeps(run.goal.address, run.readme.text)'
    BY <2>1, <2>3, <2>4, Shaped, NextReadmeIs, ReadmeFacts DEF T!ReadmeKeeps
  <2>7. AWords' /\ AReadme' /\ AProposed' /\ ARestored' /\ T!AllOrNothing'
    BY <1>1, <1>2, <2>1, <2>3, <2>4, <2>6 DEF AWords, AChanging, AReadme, AProposed, ARestored, T!AllOrNothing
  <2> QED
    BY <2>5, <2>7 DEF AInv
<1> QED
  BY <1>3, <1>4, <1>5 DEF T!ReplaceReadme, T!Replace

LEMMA Built == AInv /\ T!Build => AInv'
<1> SUFFICES ASSUME AInv, T!Build PROVE AInv'
  OBVIOUS
<1>1. run.at = "build" /\ UNCHANGED <<backups, source, text>>
  BY DEF T!Build
<1>2. /\ run.snapshot["readme"] = run.readme /\ T!ReadmeKeeps(run.goal.address, run.readme.text)
      /\ Holds(run.snapshot) /\ run.proposed.of = run.goal /\ run.aside = NoFile
      /\ disk["token"] = run.goal /\ run.todo \subseteq Pages
  BY <1>1 DEF AInv, AReadme, AWords, AChanging, AShape, AProposed
<1>3. ASSUME NEW p \in Pages, NEW v \in T!Page \cup {Torn}, disk' = [disk EXCEPT ![p] = v]
      PROVE  Holds(disk)' /\ disk'["readme"] = disk["readme"] /\ disk'["token"] = disk["token"]
  <2>1. p \in T!Files /\ p # "readme" /\ p # "token" /\ v \in Content(p)
    BY FileNames DEF Content
  <2>2. Holds(disk) /\ disk' = [disk EXCEPT ![p] = v]
    BY <1>3, Shaped
  <2>3. Holds(disk)' /\ \A g \in T!Files \ {p} : disk'[g] = disk[g]
    BY <2>1, <2>2, FileWritten
  <2> QED
    BY <2>1, <2>3, FileNames
<1>4. ASSUME NEW step \in {"build", "verify"}, NEW d \in SUBSET Pages, Holds(disk)',
             disk'["readme"] = disk["readme"], disk'["token"] = disk["token"],
             run' = AtStep(step, run.proposed, run.snapshot, NoFile, d)
      PROVE  AInv'
  <2>1. step \in T!Steps /\ d \in SUBSET T!Files
    BY FileNames DEF T!Steps
  <2>2. /\ run' \in RunRecord' /\ run'.at = step /\ run'.aside = NoFile /\ run'.snapshot = run.snapshot
        /\ run'.readme = run.readme /\ run'.goal = run.goal /\ run'.proposed = run.proposed /\ run'.todo = d
    BY <1>4, <2>1, Shaped, RunMoved
  <2>3. AShape'
    BY <1>1, <1>2, <1>4, <2>2, Shaped DEF AShape, AChanging, Holds
  <2>4. T!ReadmeKeeps(run.goal.address, run.readme.text)'
    BY <1>2, <1>4, <2>2 DEF T!ReadmeKeeps
  <2>5. AWords' /\ AReadme' /\ AProposed' /\ ARestored' /\ T!AllOrNothing'
    BY <1>1, <1>2, <1>4, <2>2, <2>4
    DEF AWords, AChanging, AReadme, AProposed, ARestored, T!AllOrNothing
  <2> QED
    BY <2>3, <2>5 DEF AInv
<1>5. ASSUME NEW p \in run.todo, disk' = [disk EXCEPT ![p] = T!Rendered(disk["token"])],
             run' = [run EXCEPT !.todo = @ \ {p}]
      PROVE  AInv'
  <2>1. p \in Pages /\ T!Rendered(disk["token"]) \in T!Page /\ run.todo \ {p} \in SUBSET Pages
    BY <1>2, Shaped, PageFacts
  <2>2. Holds(disk)' /\ disk'["readme"] = disk["readme"] /\ disk'["token"] = disk["token"]
    BY <1>3, <1>5, <2>1
  <2>3. run' = AtStep("build", run.proposed, run.snapshot, NoFile, run.todo \ {p})
    BY <1>1, <1>2, <1>5, Shaped DEF RunRecord, AtStep
  <2> QED
    BY <1>4, <2>1, <2>2, <2>3
<1>6. CASE T!Goto("verify") /\ UNCHANGED disk
  <2>1. run' = AtStep("verify", run.proposed, run.snapshot, NoFile, run.todo)
    BY <1>2, <1>6, Shaped DEF T!Goto, RunRecord, AtStep
  <2>2. Holds(disk)'
    BY <1>6, Shaped DEF Holds
  <2> QED
    BY <1>2, <1>4, <1>6, <2>1, <2>2
<1>7. CASE T!RollBack /\ disk' \in {disk} \cup {[disk EXCEPT ![p] = Torn] : p \in run.todo}
  <2>1. Holds(disk)'
    <3>1. CASE disk' = disk
      BY <3>1, Shaped DEF Holds
    <3>2. CASE \E p \in run.todo : disk' = [disk EXCEPT ![p] = Torn]
      BY <1>2, <1>3, <3>2
    <3> QED
      BY <1>7, <3>1, <3>2
  <2> QED
    BY <1>1, <1>7, <2>1, Shaped, RolledBack DEF AChanging
<1> QED
  BY <1>5, <1>6, <1>7 DEF T!Build

\* A step that leaves the tree alone and goes on, or ends.
LEMMA Gone ==
  ASSUME AInv, NEW step \in T!Steps, T!Goto(step), run.aside = NoFile, UNCHANGED <<disk, backups, source, text>>
  PROVE  /\ run' \in RunRecord' /\ run'.at = step /\ run'.aside = NoFile /\ run'.snapshot = run.snapshot
         /\ run'.goal = run.goal /\ run'.readme = run.readme /\ run'.proposed = run.proposed
         /\ Holds(disk)' /\ backups' \subseteq T!Files /\ source' \in 0 .. MaxEdits /\ text' \in 0 .. MaxEdits
<1>1. run' = AtStep(step, run.proposed, run.snapshot, NoFile, run.todo)
  BY Shaped DEF T!Goto, RunRecord, AtStep
<1>2. /\ run' \in RunRecord' /\ run'.at = step /\ run'.aside = NoFile /\ run'.snapshot = run.snapshot
      /\ run'.goal = run.goal /\ run'.readme = run.readme /\ run'.proposed = run.proposed
  BY <1>1, Shaped, RunMoved
<1> QED
  BY <1>2, Shaped DEF Holds

LEMMA Verified == AInv /\ T!Verify => AInv'
<1> SUFFICES ASSUME AInv, T!Verify PROVE AInv'
  OBVIOUS
<1>1. run.at = "verify" /\ UNCHANGED <<disk, backups, source, text>>
  BY DEF T!Verify
<1>2. /\ run.proposed.of = run.goal /\ run.aside = NoFile /\ disk["token"] = run.goal
      /\ run.snapshot["readme"] = run.readme /\ Holds(run.snapshot)
      /\ T!ReadmeKeeps(run.goal.address, run.readme.text)
  BY <1>1 DEF AInv, AReadme, AWords, AChanging, AShape, AProposed
<1>3. CASE T!RollBack
  <2>1. Holds(disk)' /\ backups' \subseteq T!Files
    BY <1>1, Shaped DEF Holds
  <2> QED
    BY <1>1, <1>3, <2>1, RolledBack DEF AChanging
<1>4. CASE T!AsProposed /\ T!Goto("compare")
  <2>1. "compare" \in T!Steps
    BY DEF T!Steps
  <2>2. /\ run' \in RunRecord' /\ run'.at = "compare" /\ run'.aside = NoFile /\ run'.snapshot = run.snapshot
        /\ run'.goal = run.goal /\ run'.readme = run.readme /\ run'.proposed = run.proposed
        /\ Holds(disk)' /\ backups' \subseteq T!Files /\ source' \in 0 .. MaxEdits /\ text' \in 0 .. MaxEdits
    BY <1>1, <1>2, <1>4, <2>1, Gone
  <2>3. AShape'
    BY <1>2, <2>2 DEF AShape, AChanging, Holds
  <2>4. T!ReadmeKeeps(run.goal.address, run.readme.text)'
    BY <1>1, <1>2, <2>2 DEF T!ReadmeKeeps
  <2>5. AWords' /\ AReadme' /\ AProposed' /\ ARestored' /\ T!AllOrNothing'
    BY <1>1, <1>2, <1>4, <2>2, <2>4
    DEF AWords, AChanging, AReadme, AProposed, ARestored, T!AllOrNothing, T!AsProposed
  <2> QED
    BY <2>3, <2>5 DEF AInv
<1> QED
  BY <1>3, <1>4 DEF T!Verify

LEMMA Compared == AInv /\ T!Compare => AInv'
<1> SUFFICES ASSUME AInv, T!Compare PROVE AInv'
  OBVIOUS
<1>1. run.at = "compare" /\ UNCHANGED <<disk, backups, source, text>>
  BY DEF T!Compare
<1>2. PICK step \in {"done", "unread"} : T!Goto(step)
  BY DEF T!Compare
<1>3. /\ run.proposed.of = run.goal /\ run.aside = NoFile /\ disk["token"] = run.goal
      /\ run.snapshot["readme"] = run.readme /\ T!ReadmeKeeps(run.goal.address, run.readme.text)
      /\ \A p \in Pages : disk[p] = run.proposed
  BY <1>1 DEF AInv, AReadme, AWords, AChanging, AShape, AProposed
<1>4. step \in T!Steps
  BY DEF T!Steps, T!Ends
<1>5. /\ run' \in RunRecord' /\ run'.at = step /\ run'.aside = NoFile /\ run'.snapshot = run.snapshot
      /\ run'.goal = run.goal /\ run'.readme = run.readme /\ run'.proposed = run.proposed
      /\ Holds(disk)' /\ backups' \subseteq T!Files /\ source' \in 0 .. MaxEdits /\ text' \in 0 .. MaxEdits
  BY <1>1, <1>2, <1>3, <1>4, Gone
<1>6. AShape'
  BY <1>5 DEF AShape, AChanging, Holds
<1>7. T!ReadmeKeeps(run.goal.address, run.readme.text)'
  BY <1>1, <1>3, <1>5 DEF T!ReadmeKeeps
<1>8. T!AllOrNothing'
  BY <1>1, <1>3, <1>5, <1>7 DEF T!AllOrNothing
<1>9. AWords' /\ AReadme' /\ AProposed' /\ ARestored'
  BY <1>3, <1>5 DEF AWords, AChanging, AReadme, AProposed, ARestored
<1> QED
  BY <1>6, <1>8, <1>9 DEF AInv

-----------------------------------------------------------------------------
LEMMA PutBackStep == AInv /\ (\E f \in T!Files : T!Restore(f)) => AInv'
<1> SUFFICES ASSUME AInv, NEW f \in T!Files, T!Restore(f) PROVE AInv'
  OBVIOUS
<1>1. run.at = "restore" /\ UNCHANGED <<source, text>> /\ f \in run.todo
  BY DEF T!Restore, T!InTurn
<1>2. /\ run.snapshot["readme"] = run.readme /\ Holds(run.snapshot) /\ run.aside = NoFile
      /\ (~ run.failed => /\ \A g \in T!Files \ (run.todo \cup {"readme"}) : disk[g] = run.snapshot[g]
                          /\ "readme" \notin run.todo => T!ReadmeKeeps(run.readme.line, run.readme.text))
  BY <1>1 DEF AInv, AWords, AChanging, AShape, ARestored
<1>3. /\ run.snapshot[f] \in Content(f) /\ disk[f] \in Content(f) /\ NoFile \in Content(f)
      /\ disk = [disk EXCEPT ![f] = disk[f]]
  BY <1>2, Shaped DEF Holds, Content
<1>4. /\ run' \in RunRecord' /\ run'.at = "restore" /\ run'.aside = NoFile /\ run'.snapshot = run.snapshot
      /\ run'.readme = run.readme /\ run'.todo = run.todo \ {f}
      /\ (~ run'.failed => ~ run.failed /\ disk' = [disk EXCEPT ![f] = run.snapshot[f]])
  <2>1. CASE run' = [run EXCEPT !.todo = @ \ {f}] /\ disk' = [disk EXCEPT ![f] = run.snapshot[f]]
    <3>1. run' = AtStep("restore", run.proposed, run.snapshot, NoFile, run.todo \ {f})
      BY <1>1, <1>2, <2>1, Shaped DEF RunRecord, AtStep
    <3>2. run.todo \ {f} \in SUBSET T!Files
      BY Shaped
    <3>3. "restore" \in T!Steps
      BY DEF T!Steps
    <3>4. /\ run' \in RunRecord' /\ run'.at = "restore" /\ run'.aside = NoFile /\ run'.snapshot = run.snapshot
          /\ run'.readme = run.readme /\ run'.todo = run.todo \ {f} /\ run'.failed = run.failed
      <4>1. run.proposed \in T!Page \cup {Torn} /\ run.goal \in T!Config /\ run.readme \in T!Readme
        BY Shaped
      <4>2. run.token \in T!Config /\ run.failed \in BOOLEAN
        BY Shaped DEF RunRecord
      <4> QED
        BY <3>1, <3>2, <3>3, <4>1, <4>2 DEF RunRecord, AtStep
    <3> QED
      BY <2>1, <3>4
  <2>2. CASE run' = [run EXCEPT !.todo = @ \ {f}, !.failed = TRUE]
    <3>1. run' = [at |-> "restore", goal |-> run.goal, token |-> run.token, readme |-> run.readme,
                  proposed |-> run.proposed, snapshot |-> run.snapshot, aside |-> NoFile, todo |-> run.todo \ {f},
                  failed |-> TRUE]
      BY <1>1, <1>2, <2>2, Shaped DEF RunRecord
    <3>2. /\ run'.at = "restore" /\ run'.aside = NoFile /\ run'.snapshot = run.snapshot
          /\ run'.readme = run.readme /\ run'.todo = run.todo \ {f} /\ run'.failed
      BY <3>1
    <3>3. "restore" \in T!Steps /\ run.token \in T!Config /\ run.todo \ {f} \in SUBSET T!Files
      BY Shaped DEF T!Steps, RunRecord
    <3>4. run' \in RunRecord'
      BY <3>1, <3>2, <3>3, Shaped DEF RunRecord
    <3> QED
      BY <3>2, <3>4
  <2> QED
    BY <2>1, <2>2 DEF T!Restore, T!PutBack
<1>5. PICK v \in Content(f) : disk' = [disk EXCEPT ![f] = v] /\ v \in {disk[f], run.snapshot[f], NoFile}
  BY <1>3 DEF T!Restore, T!PutBack
<1>6. Holds(disk)' /\ disk'[f] = v /\ \A g \in T!Files \ {f} : disk'[g] = disk[g]
  BY <1>5, Shaped, FileWritten
<1>7. AShape'
  <2>1. backups' \subseteq T!Files
    BY Shaped DEF T!Restore
  <2> QED
    BY <1>1, <1>2, <1>4, <1>6, <2>1, Shaped DEF AShape, AChanging, Holds
<1>8. AWords'
  BY <1>2, <1>4 DEF AWords, AChanging
<1>9. ARestored'
  <2> SUFFICES ASSUME ~ run'.failed
               PROVE  /\ \A g \in T!Files \ (run'.todo \cup {"readme"}) : disk'[g] = run'.snapshot[g]
                      /\ "readme" \notin run'.todo => T!ReadmeKeeps(run.readme.line, run.readme.text)'
    BY DEF ARestored, T!ReadmeKeeps
  <2>1. disk'[f] = run.snapshot[f] /\ \A g \in T!Files \ {f} : disk'[g] = disk[g]
    <3>1. disk = [h \in T!Files |-> disk[h]]
      BY Shaped DEF Holds
    <3> QED
      BY <1>4, <3>1
  <2>2. ASSUME NEW g \in T!Files \ (run'.todo \cup {"readme"}) PROVE disk'[g] = run'.snapshot[g]
    BY <1>2, <1>4, <2>1, <2>2
  <2>3. ASSUME "readme" \notin run'.todo PROVE T!ReadmeKeeps(run.readme.line, run.readme.text)'
    <3>1. CASE f = "readme"
      <4>1. disk'["readme"] = run'.readme /\ run'.readme \in T!Readme
        BY <1>2, <1>4, <2>1, <3>1, Shaped
      <4>2. run'.readme # NoFile
        BY <4>1, ReadmeFacts
      <4> QED
        BY <4>1, <4>2 DEF T!ReadmeKeeps
    <3>2. CASE f # "readme"
      <4>1. disk'["readme"] = disk["readme"] /\ "readme" \notin run.todo
        BY <1>4, <2>1, <2>3, <3>2, FileNames
      <4> QED
        BY <1>2, <1>4, <4>1 DEF T!ReadmeKeeps
    <3> QED
      BY <3>1, <3>2
  <2> QED
    BY <2>2, <2>3
<1>10. AReadme' /\ AProposed' /\ T!AllOrNothing'
  BY <1>4 DEF AReadme, AProposed, T!AllOrNothing
<1> QED
  BY <1>7, <1>8, <1>9, <1>10 DEF AInv

LEMMA RestoredStep == AInv /\ T!Restored => AInv'
<1> SUFFICES ASSUME AInv, T!Restored PROVE AInv'
  OBVIOUS
<1>1. run.at = "restore" /\ run.todo = {} /\ UNCHANGED <<disk, backups, source, text>>
  BY DEF T!Restored
<1>2. /\ Holds(run.snapshot) /\ run.aside = NoFile /\ run.snapshot["readme"] = run.readme
      /\ (~ run.failed => /\ \A g \in T!Files \ {"readme"} : disk[g] = run.snapshot[g]
                          /\ T!ReadmeKeeps(run.readme.line, run.readme.text))
  BY <1>1 DEF AInv, AChanging, AShape, ARestored, AWords
<1>3. PICK step \in {"torn", "failed"} : run' = [run EXCEPT !.at = step] /\ (step = "failed" => ~ run.failed)
  BY DEF T!Restored, T!Goto
<1>4. run' = AtStep(step, run.proposed, run.snapshot, NoFile, run.todo)
  BY <1>2, <1>3, Shaped DEF RunRecord, AtStep
<1>5. step \in T!Steps
  BY DEF T!Steps, T!Ends
<1>6. /\ run' \in RunRecord' /\ run'.at = step /\ run'.aside = NoFile /\ run'.snapshot = run.snapshot
  BY <1>4, <1>5, Shaped, RunMoved
<1>7. AShape'
  BY <1>1, <1>6, Shaped DEF AShape, AChanging, Holds
<1>8. T!AllOrNothing'
  <2>1. T!ReadmeKeeps(run.readme.line, run.readme.text) => T!ReadmeKeeps(run.readme.line, run.readme.text)'
    BY <1>1, <1>4 DEF T!ReadmeKeeps, AtStep
  <2> QED
    BY <1>1, <1>2, <1>3, <1>6, <2>1 DEF T!AllOrNothing, T!ReadmeKeeps
<1>9. AWords' /\ AReadme' /\ AProposed' /\ ARestored'
  BY <1>1, <1>6 DEF AInv, AWords, AChanging, AReadme, AProposed, ARestored
<1> QED
  BY <1>7, <1>8, <1>9 DEF AInv

LEMMA Killed == AInv /\ T!Die => AInv'
<1> SUFFICES ASSUME AInv, T!Die PROVE AInv'
  OBVIOUS
<1> DEFINE r == [line |-> Unset, text |-> {}]
<1>1. run' = [at |-> "killed", goal |-> T!Blank, token |-> T!Blank, readme |-> r, proposed |-> Torn, snapshot |-> NoFile,
              aside |-> NoFile, todo |-> {}, failed |-> FALSE]
  BY DEF T!Die, T!Quiet, T!NoLine
<1>2. r \in T!Readme /\ "killed" \in T!Steps
  BY FilesAssumption DEF T!Readme, T!Steps, T!Ends
<1>3. run' \in RunRecord' /\ run'.at = "killed" /\ run'.aside = NoFile
  BY <1>1, <1>2, ConfigFacts, QuietRun
<1>4. backups' \subseteq T!Files /\ UNCHANGED <<disk, source, text>>
  BY Shaped, FileNames DEF T!Die, AInv, AShape
<1> QED
  BY <1>3, <1>4, BeforeTheSnapshot DEF AChanging

LEMMA SourceEdited == AInv /\ T!EditSource => AInv'
<1> SUFFICES ASSUME AInv, T!EditSource PROVE AInv'
  OBVIOUS
<1>1. source' \in 0 .. MaxEdits /\ UNCHANGED <<disk, backups, text, run>>
  BY Shaped, FilesAssumption DEF T!EditSource
<1>2. AShape' /\ AWords' /\ AReadme' /\ AProposed' /\ ARestored' /\ T!AllOrNothing'
  BY <1>1 DEF AInv, AShape, RunRecord, AWords, AReadme, AProposed, ARestored, T!AllOrNothing, T!ReadmeKeeps, Holds, AChanging
<1> QED
  BY <1>2 DEF AInv

LEMMA AStart == T!Init => AInv
<1> SUFFICES ASSUME T!Init PROVE AInv
  OBVIOUS
<1> DEFINE r == [line |-> Unset, text |-> {}]
<1>1. /\ source = 0 /\ text = 0 /\ backups = {} /\ run = T!Quiet
      /\ disk = [f \in T!Files |-> CASE f = "token" -> T!Blank [] f = "readme" -> r [] OTHER -> T!Rendered(T!Blank)]
  BY DEF T!Init, T!NoLine
<1>2. r \in T!Readme /\ 0 \in 0 .. MaxEdits /\ T!Rendered(T!Blank) \in T!Page
  BY <1>1, FilesAssumption, ConfigFacts, PageFacts DEF T!Readme
<1>3. disk["readme"] = r /\ Holds(disk)
  BY <1>1, <1>2, ConfigFacts, FileNames DEF Holds, Content
<1>4. run.at = "idle" /\ run.aside = NoFile
  BY <1>1 DEF T!Quiet, T!NoLine
<1>5. run \in RunRecord
  <2>1. run = [at |-> "idle", goal |-> T!Blank, token |-> T!Blank, readme |-> r, proposed |-> Torn, snapshot |-> NoFile,
               aside |-> NoFile, todo |-> {}, failed |-> FALSE]
    BY <1>1 DEF T!Quiet, T!NoLine
  <2>2. run.snapshot = NoFile /\ "idle" \in T!Steps
    BY <2>1 DEF T!Steps, T!Ends
  <2> QED
    BY <1>2, <1>4, <2>1, <2>2, ConfigFacts DEF RunRecord
<1>6. AShape
  BY <1>1, <1>2, <1>3, <1>4, <1>5 DEF AShape, AChanging
<1>7. AWords /\ AReadme /\ AProposed /\ ARestored /\ T!AllOrNothing
  BY <1>1, <1>3, <1>4 DEF AWords, AChanging, AReadme, AProposed, ARestored, T!AllOrNothing
<1> QED
  BY <1>6, <1>7 DEF AInv

LEMMA AStep == AInv /\ [T!Next]_(T!vars) => AInv'
<1> SUFFICES ASSUME AInv, [T!Next]_(T!vars) PROVE AInv'
  OBVIOUS
<1>1. CASE UNCHANGED T!vars
  BY <1>1 DEF T!vars, AInv, AShape, RunRecord, AWords, AReadme, AProposed, ARestored, T!AllOrNothing,
                T!ReadmeKeeps, Holds, AChanging
<1>2. CASE T!Next
  BY <1>2, ReadmeEdited, SourceEdited, Killed, Started, ProvedAndPrepared, Guarded, TokenReplaced, ReadmeReplaced,
     Built, Verified, Compared, PutBackStep, RestoredStep DEF T!Next
<1> QED
  BY <1>1, <1>2

\* A run of activate-token that rolled back without a failure leaves every file as its snapshot has it, and one
\* that ends otherwise documents and pages of the address it was asked for, also when its last reads fail and a
\* failure is reported; for any pages, addresses and edits at any time.
THEOREM AllOrNothingAlways == T!Spec => [](T!TypeOK /\ AllOrNothing)
<1>1. AInv => T!TypeOK
  <2> SUFFICES ASSUME AInv PROVE T!TypeOK
    OBVIOUS
  <2>1. AShape
    BY DEF AInv
  <2>2. disk["token"] \in Content("token") /\ disk["readme"] \in Content("readme")
        /\ \A p \in Pages : disk[p] \in Content(p) /\ p # "token" /\ p # "readme"
    BY <2>1, FileNames DEF AShape, Holds
  <2>3. disk["token"] \in T!Config \cup {NoFile} /\ disk["readme"] \in T!Readme \cup {NoFile}
        /\ \A p \in Pages : disk[p] \in T!Page \cup {NoFile, Torn}
    BY <2>2 DEF Content
  <2>4. run.at \in T!Steps /\ run.goal \in T!Config /\ run.todo \subseteq T!Files
    BY <2>1 DEF AShape, RunRecord
  <2> QED
    BY <2>1, <2>3, <2>4 DEF AShape, T!TypeOK
<1>2. AInv => AllOrNothing
  BY DEF AInv, AllOrNothing
<1> QED
  BY <1>1, <1>2, AStart, AStep, PTL DEF T!Spec

-----------------------------------------------------------------------------
(* PublicPages.                                                            *)

Cursors == [snapshot : Nat \cup {Unset}, from : Nat, upper : Nat, next : Nat, before : SUBSET Launched]

\* A cursor carries what the chain holds from the block its first page started at.
CursorIsTrue(c) ==
  c \in Cursors /\ c.from <= c.next /\ c.next <= c.upper /\ c.before = P!OnChain(c.from, c.next - 1)

\* A page holds what the chain holds, and so do the pages before it.
PageIsTrue(b) ==
  /\ b.from \in Nat /\ b.to \in Int /\ b.upper \in Nat /\ b.coverage \in Nat /\ b.coverage <= b.from
  /\ b.launches = P!OnChain(b.from, b.to)
  /\ b.before = P!OnChain(b.coverage, b.from - 1)
  /\ b.total = Cardinality(P!OnChain(b.coverage, b.upper))
  /\ IF b.next = Unset THEN b.to = b.upper /\ (b.from <= b.upper \/ b.from = b.coverage)
     ELSE CursorIsTrue(b.next)

\* A history as it was read: of the rows it was made of, those of its blocks are those of the chain; rows
\* of a round that was given up may follow them.
HistoryIsRead(b) ==
  /\ b.from \in Nat /\ b.to \in Nat
  /\ \E rows \in SUBSET Launched :
       /\ \A l \in rows : b.from <= BlockOf[l]
       /\ P!In(rows, b.from, b.to) = {l \in P!OnChain(b.from, b.to) : CreatorOf[l] = b.address}
       /\ b.seen = Cardinality(rows) /\ b.launches = P!Newest(rows, RowsListed)

HistoryIsTrue(b) ==
  LET all == {l \in P!OnChain(b.from, b.to) : CreatorOf[l] = b.address}
  IN  b.seen = Cardinality(all) /\ b.launches = P!Newest(all, RowsListed)

-----------------------------------------------------------------------------
PShape ==
  /\ read \in FirstBlock .. LastBlock /\ observed \in 0 .. LastBlock
  /\ tail \subseteq Launched /\ wall \subseteq Launched
  /\ gap \in 0 .. (read + RoundBlocks) /\ broken \in 0 .. LastBlock /\ pruned \in 0 .. LastBlock
  /\ snapshot \in (1 .. LastBlock) \cup {Unset}
  /\ round \in [todo : SUBSET Launched, upto : 0 .. LastBlock]
  /\ round # P!Resting => read <= round.upto /\ round.upto <= read + RoundBlocks
  /\ current \in Requests \cup {Unset}

\* A row that is not kept has a reason the object states: it could not be read, or be put on the wall, or
\* it was pruned.
Excused(l) == BlockOf[l] <= gap \/ BlockOf[l] <= pruned \/ BlockOf[l] <= broken
PRows == \A l \in Launched \ tail : FirstBlock < BlockOf[l] /\ BlockOf[l] <= read => Excused(l)

\* So does a row of the round in progress, unless it is still to be recorded; the last one that could not be
\* put on the wall comes before whatever is.
PRound ==
  round # P!Resting =>
    /\ \A l \in round.todo : read < BlockOf[l]
    /\ \A l \in Launched \ (tail \cup round.todo) :
         read < BlockOf[l] /\ BlockOf[l] <= round.upto =>
           BlockOf[l] <= gap \/ (BlockOf[l] <= broken /\ \A m \in round.todo : l <= m)

PWalk ==
  /\ walk = [at |-> walk.at, cursor |-> walk.cursor, stamp |-> walk.stamp, body |-> walk.body]
  /\ walk.cursor = Unset \/ CursorIsTrue(walk.cursor)
  /\ walk.at = "hashed" => PageIsTrue(walk.body)
  /\ page = Unset \/ PageIsTrue(page)
  /\ kept = Unset \/ PageIsTrue(kept.body)

PAsk ==
  /\ asked = [a \in Requests |-> [at |-> asked[a].at, address |-> asked[a].address,
                                  stamp |-> asked[a].stamp, body |-> asked[a].body]]
  /\ \A a \in Requests : /\ asked[a].at = "hashed" => HistoryIsRead(asked[a].body)
                         /\ asked[a].at = "digest" => HistoryIsTrue(asked[a].body)
  /\ shown = Unset \/ HistoryIsTrue(shown)

PInv == PShape /\ PRows /\ PRound /\ PWalk /\ PAsk

-----------------------------------------------------------------------------
(* Launches and their order.                                               *)

LEMMA LaunchFacts ==
  /\ Launched \subseteq Nat /\ IsFiniteSet(Launched)
  /\ LastBlock \in Nat /\ FirstBlock \in Nat /\ FirstBlock <= LastBlock /\ RoundBlocks \in Nat
  /\ \A l \in Launched : BlockOf[l] \in Nat /\ 1 <= BlockOf[l] /\ BlockOf[l] <= LastBlock
  /\ \A l, m \in Launched : l <= m => BlockOf[l] <= BlockOf[m]
  /\ RowsPerPage \in Nat /\ RowsListed \in Nat /\ RowsListed >= 1
BY LaunchesAssumption

LEMMA Counted ==
  ASSUME NEW S \in SUBSET Launched
  PROVE  IsFiniteSet(S) /\ Cardinality(S) \in Nat
BY LaunchFacts, FS_Subset, FS_CardinalityType

LEMMA SameCount == \A S : P!Cardinality(S) = Cardinality(S)
BY DEF P!Cardinality, Cardinality

LEMMA SmallestIs ==
  ASSUME NEW S \in SUBSET Int, NEW m \in S, \A x \in S : m <= x
  PROVE  P!Min(S) = m
<1>1. P!Min(S) \in S /\ \A x \in S : P!Min(S) <= x
  BY DEF P!Min
<1>2. PICK n \in S : n = P!Min(S)
  BY <1>1
<1>3. \A x \in S : n <= x
  BY <1>1, <1>2
<1>4. n = m
  BY <1>3
<1> QED
  BY <1>2, <1>4

LEMMA GreatestIs ==
  ASSUME NEW S \in SUBSET Int, NEW m \in S, \A x \in S : m >= x
  PROVE  P!Max(S) = m
<1>1. P!Max(S) \in S /\ \A x \in S : P!Max(S) >= x
  BY DEF P!Max
<1>2. PICK n \in S : n = P!Max(S)
  BY <1>1
<1>3. \A x \in S : n >= x
  BY <1>1, <1>2
<1>4. n = m
  BY <1>3
<1> QED
  BY <1>2, <1>4

\* Of some launches one is the first and one the last.
LEMMA FirstOf ==
  ASSUME NEW S \in SUBSET Launched, S # {}
  PROVE  P!Min(S) \in S /\ \A l \in S : P!Min(S) <= l
<1>1. S \subseteq Nat
  BY LaunchFacts
<1>2. PICK m \in S : \A l \in S : m <= l
  BY <1>1, LeastElement
<1> QED
  BY <1>1, <1>2, SmallestIs

LEMMA LastOf ==
  ASSUME NEW S \in SUBSET Launched, S # {}
  PROVE  \E m \in S : \A l \in S : l <= m
<1> DEFINE after(l) == {m \in S : m > l}
<1>1. \A l \in S : IsFiniteSet(after(l)) /\ Cardinality(after(l)) \in Nat
  BY Counted
<1> DEFINE counts == {Cardinality(after(l)) : l \in S}
<1>2. counts \subseteq Nat /\ counts # {}
  BY <1>1
<1>3. PICK n \in counts : \A k \in counts : n <= k
  BY <1>2, LeastElement
<1>4. PICK last \in S : Cardinality(after(last)) = n
  BY <1>3
<1>5. \A l \in S : l <= last
  <2> SUFFICES ASSUME NEW l \in S, ~ (l <= last) PROVE FALSE
    OBVIOUS
  <2>1. S \subseteq Nat
    BY LaunchFacts
  <2>2. after(l) \subseteq after(last) /\ l \in after(last) /\ l \notin after(l)
    <3>1. \A m \in S : m > l => m > last
      BY <2>1
    <3>2. l > last /\ ~ (l > l)
      BY <2>1
    <3> QED
      BY <3>1, <3>2
  <2>3. Cardinality(after(l)) <= Cardinality(after(last)) /\ Cardinality(after(l)) # Cardinality(after(last))
    BY <1>1, <2>2, FS_Subset
  <2>4. Cardinality(after(last)) <= Cardinality(after(l))
    BY <1>3, <1>4
  <2> QED
    BY <1>1, <2>3, <2>4
<1> QED
  BY <1>5

\* Where fewer than n launches come before each of them, the newest n are all of them.
LEMMA AllAreNewest ==
  ASSUME NEW S \in SUBSET Launched, NEW H \in SUBSET S, NEW n \in Nat,
         \A l \in H : Cardinality({m \in S : m < l}) < n
  PROVE  P!Newest(H, n) = H
<1> SUFFICES ASSUME NEW l \in H PROVE Cardinality({m \in H : m > l}) < n
  BY SameCount DEF P!Newest
<1>1. S \subseteq Nat /\ H \subseteq Nat
  BY LaunchFacts
<1> DEFINE after == {m \in H : m > l}
<1>2. IsFiniteSet(after) /\ Cardinality(after) \in Nat
  BY Counted
<1>3. PICK last \in H : \A m \in H : m <= last
  BY LastOf
<1> DEFINE before == {m \in S : m < last}
<1>4. IsFiniteSet(before) /\ Cardinality(before) \in Nat /\ Cardinality(before) < n
  BY Counted
<1>5. CASE l = last
  <2>1. \A m \in H : ~ (m > l)
    BY <1>1, <1>3, <1>5
  <2> QED
    <3>1. after = {}
      BY <2>1
    <3>2. Cardinality(after) = 0
      BY <3>1, FS_EmptySet
    <3> QED
      BY <1>4, <3>2
<1>6. CASE l # last
  <2>1. last \in after /\ l \notin after
    BY <1>1, <1>3, <1>6
  <2> DEFINE moved == (after \ {last}) \cup {l}
  <2>2. IsFiniteSet(after \ {last}) /\ Cardinality(after \ {last}) = Cardinality(after) - 1 /\ l \notin after \ {last}
    BY <1>2, <2>1, FS_RemoveElement
  <2>3. Cardinality(moved) = Cardinality(after)
    <3>1. Cardinality((after \ {last}) \cup {l}) = Cardinality(after \ {last}) + 1
      BY <2>2, FS_AddElement
    <3> QED
      BY <1>2, <2>2, <3>1
  <2>4. moved \subseteq before
    <3>1. l < last /\ \A m \in H : m # last => m < last
      BY <1>1, <1>3, <1>6
    <3> QED
      BY <3>1
  <2>5. Cardinality(moved) <= Cardinality(before)
    BY <1>4, <2>4, FS_Subset
  <2> QED
    BY <1>2, <1>4, <2>3, <2>5
<1> QED
  BY <1>5, <1>6

\* The last of some launches is among the newest.
LEMMA NewestHasLast ==
  ASSUME NEW S \in SUBSET Launched, NEW n \in Nat, n >= 1, NEW last \in S, \A l \in S : l <= last
  PROVE  last \in P!Newest(S, n)
<1>1. \A m \in S : ~ (m > last)
  BY LaunchFacts
<1>2. {m \in S : m > last} = {}
  BY <1>1
<1>3. Cardinality({m \in S : m > last}) < n
  BY <1>2, FS_EmptySet
<1> QED
  BY <1>3, SameCount DEF P!Newest

\* Two ranges of blocks that meet make one.
LEMMA RangesMeet ==
  ASSUME NEW a \in Int, NEW b \in Int, NEW c \in Int, a <= b + 1, b <= c
  PROVE  P!OnChain(a, c) = P!OnChain(a, b) \cup P!OnChain(b + 1, c)
<1>1. \A l \in Launched : (a <= BlockOf[l] /\ BlockOf[l] <= c)
                            <=> (a <= BlockOf[l] /\ BlockOf[l] <= b) \/ (b + 1 <= BlockOf[l] /\ BlockOf[l] <= c)
  BY LaunchFacts
<1> QED
  BY <1>1 DEF P!OnChain, P!In

LEMMA NoBlocks ==
  ASSUME NEW a \in Int, NEW b \in Int, b < a
  PROVE  P!OnChain(a, b) = {}
<1>1. \A l \in Launched : ~ (a <= BlockOf[l] /\ BlockOf[l] <= b)
  BY LaunchFacts
<1> QED
  BY <1>1 DEF P!OnChain, P!In

LEMMA RangeIsOfLaunches ==
  ASSUME NEW S \in SUBSET Launched, NEW a, NEW b
  PROVE  P!In(S, a, b) \in SUBSET Launched /\ P!OnChain(a, b) \in SUBSET Launched
BY DEF P!In, P!OnChain

LEMMA PTypes ==
  ASSUME PShape
  PROVE  /\ read \in Nat /\ gap \in Nat /\ pruned \in Nat /\ broken \in Nat /\ FirstBlock <= read /\ read <= LastBlock
         /\ tail \in SUBSET Launched /\ wall \in SUBSET Launched
         /\ round.todo \in SUBSET Launched /\ round.upto \in Nat /\ round.upto <= LastBlock
BY LaunchFacts DEF PShape

\* The coverage starts right after the last thing that ends it.
LEMMA CoverageIs ==
  ASSUME PShape
  PROVE  /\ P!CoverageFrom \in Nat
         /\ FirstBlock < P!CoverageFrom /\ gap < P!CoverageFrom /\ pruned < P!CoverageFrom /\ broken < P!CoverageFrom
         /\ P!CoverageFrom \in {FirstBlock + 1, gap + 1, pruned + 1, broken + 1}
<1> DEFINE ends == {FirstBlock + 1, gap + 1, pruned + 1, broken + 1}
<1>1. ends \subseteq Int /\ FirstBlock \in Nat /\ gap \in Nat /\ pruned \in Nat /\ broken \in Nat
  BY PTypes, LaunchFacts
<1>2. \E m \in ends : m >= FirstBlock + 1 /\ m >= gap + 1 /\ m >= pruned + 1 /\ m >= broken + 1
  BY <1>1
<1>3. PICK m \in ends : m >= FirstBlock + 1 /\ m >= gap + 1 /\ m >= pruned + 1 /\ m >= broken + 1
  BY <1>2
<1>4. \A x \in ends : m >= x
  BY <1>3
<1>5. P!CoverageFrom = m
  BY <1>1, <1>4, GreatestIs DEF P!CoverageFrom
<1> QED
  BY <1>1, <1>3, <1>5

\* Within the coverage the tail is the chain.
LEMMA TailIsChain ==
  ASSUME PShape, PRows, NEW a \in Int, NEW b \in Int, P!CoverageFrom <= a, b <= read
  PROVE  P!In(tail, a, b) = P!OnChain(a, b)
<1>1. \A l \in Launched : a <= BlockOf[l] /\ BlockOf[l] <= b => l \in tail
  BY LaunchFacts, PTypes, CoverageIs DEF PRows, Excused
<1> QED
  BY <1>1, PTypes DEF P!In, P!OnChain

\* The boundary of a history, where nothing else ends the coverage.
LEMMA BoundaryIs ==
  ASSUME PShape
  PROVE  P!Boundary \in Nat /\ FirstBlock <= P!Boundary /\ pruned <= P!Boundary
<1> DEFINE ends == {FirstBlock, pruned}
<1>1. ends \subseteq Int /\ FirstBlock \in Nat /\ pruned \in Nat
  BY PTypes, LaunchFacts
<1>2. PICK m \in ends : m >= FirstBlock /\ m >= pruned
  BY <1>1
<1>3. P!Boundary = m
  BY <1>1, <1>2, GreatestIs DEF P!Boundary
<1> QED
  BY <1>1, <1>2, <1>3

-----------------------------------------------------------------------------
(* A page and a history, as they are read.                                 *)

\* A page ends before the block of the first row that does not fit, and so holds few enough to list.
LEMMA PageEnds ==
  ASSUME PShape, NEW from \in Nat, NEW upper \in Nat
  PROVE  LET to == P!PageTo(from, upper)  held == P!In(tail, from, to)
         IN  /\ to \in Int /\ to <= upper
             /\ upper < from => to = upper
             /\ P!Newest(held, RowsPerPage) = held
<1> DEFINE to == P!PageTo(from, upper)
           held == P!In(tail, from, to)
           S == P!In(tail, from, upper)
           over == {l \in S : Cardinality({m \in S : m < l}) >= RowsPerPage}
<1>1. tail \in SUBSET Launched /\ S \in SUBSET Launched /\ over \in SUBSET Launched
  BY PTypes, RangeIsOfLaunches
<1>2. to = IF over = {} THEN upper ELSE BlockOf[P!Min(over)] - 1
  BY SameCount DEF P!PageTo
<1>3. \A l \in S : from <= BlockOf[l] /\ BlockOf[l] <= upper /\ BlockOf[l] \in Nat
  BY <1>1, LaunchFacts DEF P!In
<1>4. \A l \in S : Cardinality({m \in S : m < l}) \in Nat
  BY <1>1, Counted
<1>5. to \in Int /\ to <= upper /\ (upper < from => to = upper)
  <2>1. CASE over = {}
    BY <1>2, <2>1
  <2>2. CASE over # {}
    <3>1. P!Min(over) \in S
      BY <1>1, <2>2, FirstOf
    <3> QED
      BY <1>2, <1>3, <2>2, <3>1
  <2> QED
    BY <2>1, <2>2
<1>6. held \in SUBSET S
  <2>1. \A l \in held : l \in tail /\ from <= BlockOf[l] /\ BlockOf[l] <= to /\ BlockOf[l] \in Nat
    BY <1>1, LaunchFacts DEF P!In
  <2> QED
    BY <1>5, <2>1 DEF P!In
<1>7. \A l \in held : l \notin over
  <2> SUFFICES ASSUME NEW l \in held, l \in over PROVE FALSE
    OBVIOUS
  <2>1. P!Min(over) \in over /\ P!Min(over) <= l
    BY <1>1, FirstOf
  <2>2. P!Min(over) \in Launched /\ l \in Launched
    BY <1>1, <2>1
  <2>3. BlockOf[P!Min(over)] <= BlockOf[l] /\ BlockOf[P!Min(over)] \in Nat /\ BlockOf[l] \in Nat
    BY <2>1, <2>2, LaunchFacts
  <2>4. BlockOf[l] <= to
    BY DEF P!In
  <2> QED
    BY <1>2, <2>3, <2>4
<1>8. \A l \in held : Cardinality({m \in S : m < l}) < RowsPerPage
  BY <1>4, <1>6, <1>7, LaunchFacts
<1>9. P!Newest(held, RowsPerPage) = held
  BY <1>1, <1>6, <1>8, AllAreNewest, LaunchFacts
<1> QED
  BY <1>5, <1>9

\* Where the page starts, every block before it in the coverage has been handed out.
LEMMA PositionIs ==
  ASSUME PShape, NEW cursor, cursor = Unset \/ CursorIsTrue(cursor), NEW s, P!Stands(cursor, s)
  PROVE  LET at == P!Position(cursor)
         IN  /\ at.from \in Nat /\ at.upper \in Nat /\ P!CoverageFrom <= at.from /\ at.upper <= read
             /\ at.before = P!OnChain(P!CoverageFrom, at.from - 1)
             /\ at.from <= at.upper \/ at.from = P!CoverageFrom
<1>1. P!CoverageFrom \in Nat /\ read \in Nat
  BY PTypes, CoverageIs
<1>2. CASE cursor = Unset
  <2>1. P!Position(cursor) = [from |-> P!CoverageFrom, upper |-> read, before |-> {}]
    BY <1>2 DEF P!Position
  <2>2. P!OnChain(P!CoverageFrom, P!CoverageFrom - 1) = {}
    BY <1>1, NoBlocks
  <2> QED
    BY <1>1, <2>1, <2>2
<1>3. CASE cursor # Unset
  <2>1. P!Position(cursor) = [from |-> cursor.next, upper |-> cursor.upper, before |-> cursor.before]
    BY <1>3 DEF P!Position
  <2>2. /\ cursor.next \in Nat /\ cursor.upper \in Nat
        /\ cursor.before = P!OnChain(cursor.from, cursor.next - 1)
    BY <1>3 DEF CursorIsTrue, Cursors
  <2>3. cursor.from = P!CoverageFrom /\ cursor.upper <= read /\ cursor.next >= P!CoverageFrom /\ cursor.next <= cursor.upper
    BY <1>3 DEF P!Stands
  <2> QED
    BY <1>1, <2>1, <2>2, <2>3
<1> QED
  BY <1>2, <1>3

LEMMA PageIsRead ==
  ASSUME PShape, PRows, NEW cursor, cursor = Unset \/ CursorIsTrue(cursor), NEW s \in {snapshot, Unset},
         P!Stands(cursor, s), ~ P!Full(cursor)
  PROVE  PageIsTrue(P!Page(cursor, s))
<1> DEFINE at == P!Position(cursor)
           from == at.from
           upper == at.upper
           C == P!CoverageFrom
           to == P!PageTo(from, upper)
           held == P!In(tail, from, to)
           more == from <= upper /\ to < upper
           next == [snapshot |-> s, from |-> C, upper |-> upper, next |-> to + 1, before |-> at.before \cup held]
           b == P!Page(cursor, s)
<1>1. /\ from \in Nat /\ upper \in Nat /\ C \in Nat /\ C <= from /\ upper <= read /\ read \in Nat
      /\ at.before = P!OnChain(C, from - 1) /\ (from <= upper \/ from = C)
  BY PositionIs, CoverageIs, PTypes
<1>2. to \in Int /\ to <= upper /\ (upper < from => to = upper) /\ P!Newest(held, RowsPerPage) = held
  BY <1>1, PageEnds
<1>3. from <= upper => from <= to
  BY <1>1, <1>2 DEF P!Full
<1> HIDE DEF to, C
<1>4. held = P!OnChain(from, to) /\ P!In(tail, C, upper) = P!OnChain(C, upper)
  BY <1>1, <1>2, TailIsChain DEF C
<1>5. b = [from |-> from, to |-> to, upper |-> upper, coverage |-> C, total |-> Cardinality(P!In(tail, C, upper)),
           launches |-> P!Newest(held, RowsPerPage), before |-> at.before, next |-> IF more THEN next ELSE Unset]
  BY SameCount DEF P!Page, to, C
<1>6. /\ b.from = from /\ b.to = to /\ b.upper = upper /\ b.coverage = C /\ b.before = at.before
      /\ b.total = Cardinality(P!OnChain(C, upper)) /\ b.launches = P!OnChain(from, to)
      /\ b.next = IF more THEN next ELSE Unset
  BY <1>2, <1>4, <1>5
<1>7. CASE ~ more
  <2>1. b.next = Unset /\ to = upper
    BY <1>1, <1>2, <1>6, <1>7
  <2> QED
    BY <1>1, <1>2, <1>6, <2>1 DEF PageIsTrue
<1>8. CASE more
  <2>1. s \in Nat \cup {Unset}
    BY LaunchFacts DEF PShape
  <2>2. at.before \cup held = P!OnChain(C, to)
    <3>1. P!OnChain(C, to) = P!OnChain(C, from - 1) \cup P!OnChain(from - 1 + 1, to)
      BY <1>1, <1>2, <1>3, <1>8, RangesMeet
    <3>2. from - 1 + 1 = from
      BY <1>1
    <3> QED
      BY <1>1, <1>4, <3>1, <3>2
  <2>3. P!OnChain(C, to) \in SUBSET Launched
    BY RangeIsOfLaunches
  <2>4. to + 1 \in Nat /\ C <= to + 1 /\ to + 1 <= upper /\ to + 1 - 1 = to
    BY <1>1, <1>2, <1>3, <1>8
  <2>5. next \in Cursors
    BY <1>1, <2>1, <2>2, <2>3, <2>4 DEF Cursors
  <2>6. next # Unset
    BY <2>5, UnsetAssumption DEF Cursors
  <2>7. CursorIsTrue(next)
    <3>1. next.from = C /\ next.upper = upper /\ next.next = to + 1 /\ next.before = at.before \cup held
      OBVIOUS
    <3>2. PICK n \in Nat : n = to + 1
      BY <2>4
    <3>3. n - 1 = to /\ C <= n /\ n <= upper
      BY <1>1, <1>2, <2>4, <3>2
    <3> HIDE DEF next
    <3>4. next.next = n /\ next.from <= next.next /\ next.next <= next.upper
      BY <3>1, <3>2, <3>3
    <3>5. next.before = P!OnChain(next.from, next.next - 1)
      BY <2>2, <3>1, <3>3, <3>4
    <3> QED
      BY <2>5, <3>4, <3>5 DEF CursorIsTrue
  <2> QED
    BY <1>1, <1>2, <1>6, <1>8, <2>6, <2>7 DEF PageIsTrue
<1> QED
  BY <1>7, <1>8

\* A true page satisfies what is promised of the last page.
LEMMA TruePageIsWhole ==
  ASSUME page # Unset => PageIsTrue(page)
  PROVE  P!WalkIsWhole
<1> SUFFICES ASSUME PageIsTrue(page), page.next = Unset
             PROVE  /\ page.before \cup page.launches = P!OnChain(page.coverage, page.upper)
                    /\ Cardinality(page.before \cup page.launches) = page.total
  BY SameCount DEF P!WalkIsWhole, PageIsTrue
<1>1. /\ page.from \in Nat /\ page.upper \in Nat /\ page.coverage \in Nat /\ page.coverage <= page.from
      /\ page.to = page.upper /\ (page.from <= page.upper \/ page.from = page.coverage)
      /\ page.launches = P!OnChain(page.from, page.to) /\ page.before = P!OnChain(page.coverage, page.from - 1)
      /\ page.total = Cardinality(P!OnChain(page.coverage, page.upper))
  BY DEF PageIsTrue
<1>2. page.before \cup page.launches = P!OnChain(page.coverage, page.upper)
  <2>1. CASE page.from <= page.upper
    <3>1. P!OnChain(page.coverage, page.upper)
            = P!OnChain(page.coverage, page.from - 1) \cup P!OnChain(page.from - 1 + 1, page.upper)
      BY <1>1, <2>1, RangesMeet
    <3>2. page.from - 1 + 1 = page.from
      BY <1>1
    <3> QED
      BY <1>1, <3>1, <3>2
  <2>2. CASE page.from = page.coverage
    <3>1. page.before = {}
      BY <1>1, <2>2, NoBlocks
    <3> QED
      BY <1>1, <2>2, <3>1
  <2> QED
    BY <1>1, <2>1, <2>2
<1> QED
  BY <1>1, <1>2

\* A history is read of all the rows after its boundary.
LEMMA HistoryIsReadOfRows ==
  ASSUME PShape, PRows, P!HistoryReady, NEW d
  PROVE  HistoryIsRead(P!History(d))
<1> DEFINE B == P!Boundary
           all == {l \in tail : CreatorOf[l] = d /\ BlockOf[l] > B}
           b == P!History(d)
<1>1. /\ B \in Nat /\ FirstBlock <= B /\ pruned <= B /\ gap <= B /\ broken <= B
      /\ read \in Nat /\ gap \in Nat /\ broken \in Nat /\ pruned \in Nat /\ FirstBlock \in Nat
  BY BoundaryIs, PTypes, LaunchFacts DEF P!HistoryReady
<1> HIDE DEF B
<1>2. b = [address |-> d, from |-> B + 1, to |-> read, seen |-> Cardinality(all), launches |-> P!Newest(all, RowsListed)]
  BY SameCount DEF P!History, B
<1>3. /\ b.address = d /\ b.from = B + 1 /\ b.to = read /\ b.seen = Cardinality(all)
      /\ b.launches = P!Newest(all, RowsListed)
  BY <1>2
<1>4. all \in SUBSET Launched /\ \A l \in all : B + 1 <= BlockOf[l]
  <2>1. all \in SUBSET Launched
    BY PTypes
  <2>2. \A l \in all : BlockOf[l] > B /\ BlockOf[l] \in Nat
    BY <2>1, LaunchFacts
  <2> QED
    BY <1>1, <2>1, <2>2
<1>5. P!In(all, B + 1, read) = {l \in P!OnChain(B + 1, read) : CreatorOf[l] = d}
  <2>1. \A l \in Launched : B + 1 <= BlockOf[l] /\ BlockOf[l] <= read => l \in tail /\ BlockOf[l] > B
    BY <1>1, LaunchFacts DEF PRows, Excused
  <2>2. \A l : l \in P!In(all, B + 1, read)
                 <=> l \in all /\ B + 1 <= BlockOf[l] /\ BlockOf[l] <= read
    BY DEF P!In
  <2>3. \A l : l \in P!OnChain(B + 1, read) <=> l \in Launched /\ B + 1 <= BlockOf[l] /\ BlockOf[l] <= read
    BY DEF P!OnChain, P!In
  <2> QED
    BY <1>4, <2>1, <2>2, <2>3
<1>6. B + 1 \in Nat
  BY <1>1
<1> HIDE DEF all, b
<1>7. HistoryIsRead(b)
  BY <1>1, <1>3, <1>4, <1>5, <1>6 DEF HistoryIsRead
<1> QED
  BY <1>7 DEF b

\* One that lists rows of its own blocks only is whole: rows that followed would be the newest.
LEMMA ValidHistoryIsTrue ==
  ASSUME NEW b, HistoryIsRead(b), P!Valid(b)
  PROVE  HistoryIsTrue(b)
<1>1. b.from \in Nat /\ b.to \in Nat
  BY DEF HistoryIsRead
<1>2. PICK rows \in SUBSET Launched :
        /\ \A l \in rows : b.from <= BlockOf[l]
        /\ P!In(rows, b.from, b.to) = {l \in P!OnChain(b.from, b.to) : CreatorOf[l] = b.address}
        /\ b.seen = Cardinality(rows) /\ b.launches = P!Newest(rows, RowsListed)
  BY DEF HistoryIsRead
<1>3. \A l \in rows : BlockOf[l] <= b.to
  <2> SUFFICES ASSUME NEW l \in rows PROVE BlockOf[l] <= b.to
    OBVIOUS
  <2>1. PICK last \in rows : \A m \in rows : m <= last
    BY LastOf
  <2>2. last \in P!Newest(rows, RowsListed)
    BY <2>1, NewestHasLast, LaunchFacts
  <2>3. BlockOf[last] <= b.to
    BY <1>2, <2>2 DEF P!Valid
  <2>4. BlockOf[l] <= BlockOf[last] /\ BlockOf[l] \in Nat /\ BlockOf[last] \in Nat
    BY <2>1, LaunchFacts
  <2> QED
    BY <1>1, <2>3, <2>4
<1>4. P!In(rows, b.from, b.to) = rows
  BY <1>2, <1>3 DEF P!In
<1> QED
  BY <1>2, <1>4 DEF HistoryIsTrue

-----------------------------------------------------------------------------
(* The steps of the watcher.                                               *)

LEMMA PWalkKept == PWalk /\ UNCHANGED <<walk, page>> /\ kept' \in {kept, Unset} => PWalk'
BY DEF PWalk

LEMMA PAskKept == PAsk /\ UNCHANGED <<asked, shown>> => PAsk'
BY DEF PAsk

LEMMA PRowsKept == PShape /\ PRows /\ PRound /\ UNCHANGED <<P!rows, current>> => PShape' /\ PRows' /\ PRound'
BY DEF P!rows, PShape, PRows, PRound, Excused, P!Resting

LEMMA Published == PInv /\ P!Publish => PInv'
<1> SUFFICES ASSUME PInv, P!Publish PROVE PInv'
  OBVIOUS
<1>1. UNCHANGED <<read, observed, tail, wall, gap, pruned, broken, round, walk, page, kept, asked, current, shown>>
  BY DEF P!Publish, P!walks, P!asks
<1>2. snapshot' \in 1 .. LastBlock
  BY LaunchFacts DEF P!Publish, PInv, PShape
<1>3. PShape' /\ PRows' /\ PRound'
  BY <1>1, <1>2 DEF PInv, PShape, PRows, PRound, Excused, P!Resting
<1> QED
  BY <1>1, <1>3, PWalkKept, PAskKept DEF PInv

\* The gap of a round: the last of the blocks it could not read, or the gap there was.
LEMMA GapIs ==
  ASSUME PShape, NEW bad \in SUBSET Launched
  PROVE  LET new == P!Max({gap} \cup {BlockOf[l] : l \in bad})
         IN  /\ new \in Nat /\ gap <= new /\ \A l \in bad : BlockOf[l] <= new
             /\ new = gap \/ \E l \in bad : new = BlockOf[l]
<1> DEFINE all == {gap} \cup {BlockOf[l] : l \in bad}
<1>1. gap \in Nat /\ all \subseteq Nat
  BY PTypes, LaunchFacts
<1>2. \E m \in all : \A x \in all : m >= x
  <2>1. CASE bad = {}
    BY <1>1, <2>1
  <2>2. CASE bad # {}
    <3>1. PICK last \in bad : \A l \in bad : l <= last
      BY <2>2, LastOf
    <3>2. BlockOf[last] \in Nat /\ \A l \in bad : BlockOf[l] \in Nat /\ BlockOf[l] <= BlockOf[last]
      BY <3>1, LaunchFacts
    <3>3. CASE gap <= BlockOf[last]
      <4>1. \A x \in all : BlockOf[last] >= x
        BY <1>1, <3>2, <3>3
      <4> QED
        BY <4>1
    <3>4. CASE BlockOf[last] <= gap
      <4>1. \A x \in all : gap >= x
        BY <1>1, <3>2, <3>4
      <4> QED
        BY <4>1
    <3> QED
      BY <1>1, <3>2, <3>3, <3>4
  <2> QED
    BY <2>1, <2>2
<1>3. PICK m \in all : \A x \in all : m >= x
  BY <1>2
<1>4. P!Max(all) = m
  BY <1>1, <1>3, GreatestIs
<1>5. gap <= m /\ \A l \in bad : BlockOf[l] <= m
  BY <1>1, <1>3
<1> QED
  BY <1>1, <1>3, <1>4, <1>5

LEMMA Began ==
  ASSUME PInv, NEW head \in FirstBlock .. LastBlock, P!Begin(head)
  PROVE  PInv'
<1> DEFINE upto == P!Min({head, read + RoundBlocks})
           list == P!OnChain(read + 1, upto)
<1>1. /\ round = P!Resting /\ observed' = head
      /\ UNCHANGED <<read, tail, wall, pruned, broken, snapshot, walk, page, kept, asked, current, shown>>
  BY DEF P!Begin, P!walks, P!asks
<1>2. PWalk' /\ PAsk'
  BY <1>1, PWalkKept, PAskKept DEF PInv
<1>3. head \in 0 .. LastBlock /\ head \in Nat /\ read \in Nat /\ RoundBlocks \in Nat /\ PShape /\ gap \in Nat
  BY LaunchFacts, PTypes DEF PInv
<1>4. CASE head <= read
  <2>1. UNCHANGED <<gap, round>>
    BY <1>4 DEF P!Begin
  <2>2. PShape' /\ PRows' /\ PRound'
    BY <1>1, <1>3, <2>1 DEF PInv, PShape, PRows, PRound, Excused, P!Resting
  <2> QED
    BY <1>2, <2>2 DEF PInv
<1>5. CASE ~ (head <= read)
  <2>1. upto \in Nat /\ upto <= head /\ upto <= read + RoundBlocks /\ read <= upto
    <3>1. CASE head <= read + RoundBlocks
      <4>1. upto = head
        BY <1>3, <3>1, SmallestIs
      <4> QED
        BY <1>3, <1>5, <3>1, <4>1
    <3>2. CASE read + RoundBlocks <= head
      <4>1. upto = read + RoundBlocks
        BY <1>3, <3>2, SmallestIs
      <4> QED
        BY <1>3, <1>5, <3>2, <4>1
    <3> QED
      BY <1>3, <3>1, <3>2
  <2>2. PICK bad \in SUBSET list : /\ gap' = P!Max({gap} \cup {BlockOf[l] : l \in bad})
                                   /\ round' = [todo |-> list \ bad, upto |-> upto]
    BY <1>5 DEF P!Begin
  <2> HIDE DEF upto
  <2>3. list \in SUBSET Launched /\ \A l \in Launched : l \in list <=> read + 1 <= BlockOf[l] /\ BlockOf[l] <= upto
    BY DEF P!OnChain, P!In
  <2>4. /\ gap' \in Nat /\ gap <= gap' /\ \A l \in bad : BlockOf[l] <= gap'
        /\ gap' = gap \/ \E l \in bad : gap' = BlockOf[l]
    BY <1>3, <2>2, <2>3, GapIs
  <2>5. round'.todo = list \ bad /\ round'.upto = upto /\ round' \in [todo : SUBSET Launched, upto : 0 .. LastBlock]
    <3>1. upto \in 0 .. LastBlock
      BY <1>3, <2>1, LaunchFacts
    <3>2. list \ bad \in SUBSET Launched
      BY <2>3
    <3> HIDE DEF list
    <3> QED
      BY <2>2, <3>1, <3>2
  <2>6. gap' <= read + RoundBlocks
    <3>1. gap <= read + RoundBlocks
      BY DEF PInv, PShape
    <3>2. \A l \in bad : BlockOf[l] <= upto /\ BlockOf[l] \in Nat
      BY <2>3, LaunchFacts
    <3> QED
      BY <1>3, <2>1, <2>4, <3>1, <3>2
  <2>7. PShape'
    BY <1>1, <1>3, <2>1, <2>4, <2>5, <2>6 DEF PInv, PShape
  <2>8. PRows'
    BY <1>1, <1>3, <2>4, LaunchFacts DEF PInv, PRows, Excused
  <2>9. PRound'
    <3>1. \A l \in round'.todo : read' < BlockOf[l]
      BY <1>1, <1>3, <2>3, <2>5, LaunchFacts
    <3>2. ASSUME NEW l \in Launched \ (tail' \cup round'.todo), read' < BlockOf[l], BlockOf[l] <= round'.upto
          PROVE  BlockOf[l] <= gap'
      <4>1. l \in list /\ l \in bad
        BY <1>1, <1>3, <2>3, <2>5, <3>2, LaunchFacts
      <4> QED
        BY <2>4, <4>1
    <3> QED
      BY <3>1, <3>2 DEF PRound
  <2> QED
    BY <1>2, <2>7, <2>8, <2>9 DEF PInv
<1> QED
  BY <1>4, <1>5

LEMMA Recorded ==
  ASSUME PInv, NEW l \in Launched, P!Record(l)
  PROVE  PInv'
<1>1. /\ l \in round.todo /\ (\A m \in round.todo : l <= m)
      /\ round' = [round EXCEPT !.todo = @ \ {l}]
      /\ UNCHANGED <<read, observed, gap, pruned, snapshot, walk, page, kept, asked, current, shown>>
  BY DEF P!Record, P!walks, P!asks
<1>2. PWalk' /\ PAsk'
  BY <1>1, PWalkKept, PAskKept DEF PInv
<1>3. /\ round \in [todo : SUBSET Launched, upto : 0 .. LastBlock]
      /\ round # P!Resting /\ read \in Nat /\ gap \in Nat /\ pruned \in Nat /\ broken \in Nat
  BY <1>1, PTypes DEF PInv, PShape, P!Resting
<1>4. round'.todo = round.todo \ {l} /\ round'.upto = round.upto /\ round' \in [todo : SUBSET Launched, upto : 0 .. LastBlock]
  BY <1>1, <1>3
<1>5. /\ BlockOf[l] \in Nat /\ BlockOf[l] \in 0 .. LastBlock /\ read < BlockOf[l]
      /\ tail \subseteq Launched /\ wall \subseteq Launched
  BY <1>1, <1>3, LaunchFacts DEF PInv, PRound, PShape
<1>6. /\ tail \subseteq tail' /\ tail' \subseteq tail \cup {l} /\ wall' \subseteq wall \cup {l}
      /\ (broken' = broken /\ l \in tail') \/ broken' = BlockOf[l]
  BY DEF P!Record
<1>7. PShape'
  BY <1>1, <1>3, <1>4, <1>5, <1>6 DEF PInv, PShape
<1>8. PRows'
  <2> SUFFICES ASSUME NEW k \in Launched \ tail', FirstBlock < BlockOf[k], BlockOf[k] <= read PROVE Excused(k)'
    BY <1>1 DEF PRows
  <2>1. Excused(k)
    BY <1>6 DEF PInv, PRows
  <2>2. BlockOf[k] \in Nat
    BY LaunchFacts
  <2> QED
    BY <1>1, <1>3, <1>5, <1>6, <2>1, <2>2 DEF Excused
<1>9. PRound'
  <2>1. \A m \in round'.todo : read' < BlockOf[m]
    BY <1>1, <1>3, <1>4 DEF PInv, PRound
  <2>2. ASSUME NEW k \in Launched \ (tail' \cup round'.todo), read' < BlockOf[k], BlockOf[k] <= round'.upto
        PROVE  BlockOf[k] <= gap' \/ (BlockOf[k] <= broken' /\ \A m \in round'.todo : k <= m)
    <3>1. CASE k = l
      BY <1>1, <1>4, <1>5, <1>6, <2>2, <3>1
    <3>2. CASE k # l
      <4>1. k \notin tail \cup round.todo
        BY <1>4, <1>6, <2>2, <3>2
      <4>2. BlockOf[k] <= gap \/ (BlockOf[k] <= broken /\ \A m \in round.todo : k <= m)
        BY <1>1, <1>3, <1>4, <2>2, <4>1 DEF PInv, PRound
      <4>3. k <= l => BlockOf[k] <= BlockOf[l]
        BY LaunchFacts
      <4> QED
        BY <1>1, <1>4, <1>6, <4>2, <4>3
    <3> QED
      BY <3>1, <3>2
  <2> QED
    BY <2>1, <2>2 DEF PRound
<1> QED
  BY <1>2, <1>7, <1>8, <1>9 DEF PInv

LEMMA Retreated == PInv /\ P!Retreat => PInv'
<1> SUFFICES ASSUME PInv, P!Retreat PROVE PInv'
  OBVIOUS
<1>1. /\ round' = P!Resting
      /\ UNCHANGED <<read, observed, tail, wall, gap, pruned, broken, snapshot, walk, page, kept, asked, current, shown>>
  BY DEF P!Retreat, P!walks, P!asks
<1>2. round' \in [todo : SUBSET Launched, upto : 0 .. LastBlock]
  BY <1>1, LaunchFacts DEF P!Resting
<1>3. PShape' /\ PRows' /\ PRound'
  BY <1>1, <1>2 DEF PInv, PShape, PRows, PRound, Excused
<1> QED
  BY <1>1, <1>3, PWalkKept, PAskKept DEF PInv

LEMMA Committed == PInv /\ P!Commit => PInv'
<1> SUFFICES ASSUME PInv, P!Commit PROVE PInv'
  OBVIOUS
<1>1. PICK age \in 0 .. LastBlock, b \in {snapshot, Unset} :
        LET doomed == IF b = Unset THEN {} ELSE P!In(tail, 0, P!Min({age, b}))
        IN  /\ round # P!Resting /\ round.todo = {}
            /\ tail' = tail \ doomed /\ wall' = wall \ doomed
            /\ pruned' = IF doomed = {} THEN pruned ELSE P!Max({pruned, b})
            /\ read' = round.upto /\ round' = P!Resting /\ kept' = Unset
            /\ UNCHANGED <<observed, gap, broken, snapshot, walk, page, asked, current, shown>>
  BY DEF P!Commit, P!asks
<1> DEFINE doomed == IF b = Unset THEN {} ELSE P!In(tail, 0, P!Min({age, b}))
<1>2. /\ round # P!Resting /\ round.todo = {}
      /\ tail' = tail \ doomed /\ wall' = wall \ doomed
      /\ pruned' = (IF doomed = {} THEN pruned ELSE P!Max({pruned, b}))
      /\ read' = round.upto /\ round' = P!Resting /\ kept' = Unset
      /\ UNCHANGED <<observed, gap, broken, snapshot, walk, page, asked, current, shown>>
  BY <1>1
<1>3. /\ read \in Nat /\ gap \in Nat /\ pruned \in Nat /\ broken \in Nat /\ pruned <= LastBlock
      /\ tail \subseteq Launched /\ wall \subseteq Launched /\ round.upto \in Nat
      /\ read <= round.upto /\ round.upto <= LastBlock /\ FirstBlock <= read /\ LastBlock \in Nat
  BY <1>2, PTypes, LaunchFacts DEF PInv, PShape
<1>4. /\ pruned' \in Nat /\ pruned <= pruned' /\ pruned' <= LastBlock
      /\ \A l \in doomed : BlockOf[l] <= pruned'
  <2>1. CASE b = Unset \/ doomed = {}
    BY <1>2, <1>3, <2>1
  <2>2. CASE b # Unset /\ doomed # {}
    <3>1. b \in Nat /\ b <= LastBlock /\ age \in Nat
      BY <1>3, <2>2 DEF PInv, PShape
    <3>2. PICK least \in {age, b} : least <= age /\ least <= b
      BY <3>1
    <3>3. P!Min({age, b}) = least
      BY <3>1, <3>2, SmallestIs
    <3>4. PICK most \in {pruned, b} : most >= pruned /\ most >= b
      BY <1>3, <3>1
    <3>5. pruned' = most
      <4>1. {pruned, b} \in SUBSET Int /\ \A x \in {pruned, b} : most >= x
        BY <1>3, <3>1, <3>4
      <4>2. P!Max({pruned, b}) = most
        BY <3>4, <4>1, GreatestIs
      <4> QED
        BY <1>2, <2>2, <4>2
    <3>6. \A l \in doomed : BlockOf[l] <= least /\ BlockOf[l] \in Nat
      BY <1>3, <2>2, <3>3, LaunchFacts DEF P!In
    <3> QED
      BY <1>3, <3>1, <3>2, <3>4, <3>5, <3>6
  <2> QED
    BY <2>1, <2>2
<1>5. round' \in [todo : SUBSET Launched, upto : 0 .. LastBlock]
  BY <1>2, LaunchFacts DEF P!Resting
<1> HIDE DEF doomed
<1>6. PShape'
  <2>1. gap <= read + RoundBlocks /\ RoundBlocks \in Nat
    BY LaunchFacts DEF PInv, PShape
  <2> QED
    <3>1. gap' \in 0 .. (read' + RoundBlocks)
      BY <1>2, <1>3, <2>1
    <3>2. pruned' \in 0 .. LastBlock /\ read' \in FirstBlock .. LastBlock
      BY <1>2, <1>3, <1>4, LaunchFacts
    <3>3. tail' \subseteq Launched /\ wall' \subseteq Launched
      BY <1>2, <1>3
    <3> QED
      BY <1>2, <1>5, <3>1, <3>2, <3>3 DEF PInv, PShape
<1>7. PRows'
  <2> SUFFICES ASSUME NEW l \in Launched \ tail', FirstBlock < BlockOf[l], BlockOf[l] <= round.upto PROVE Excused(l)'
    BY <1>2 DEF PRows
  <2>1. BlockOf[l] \in Nat
    BY LaunchFacts
  <2>2. CASE l \in doomed
    BY <1>4, <2>2 DEF Excused
  <2>3. CASE l \notin tail /\ BlockOf[l] <= read
    <3>1. Excused(l)
      BY <2>3 DEF PInv, PRows
    <3> QED
      BY <1>2, <1>3, <1>4, <2>1, <3>1 DEF Excused
  <2>4. CASE l \notin tail /\ read < BlockOf[l]
    BY <1>2, <2>4 DEF PInv, PRound, Excused
  <2> QED
    BY <1>2, <1>3, <2>1, <2>2, <2>3, <2>4
<1>8. PRound' /\ PWalk' /\ PAsk'
  BY <1>2, PWalkKept, PAskKept DEF PRound, PInv
<1> QED
  BY <1>6, <1>7, <1>8 DEF PInv

-----------------------------------------------------------------------------
(* The reader of the tail, and the requests for a history.                 *)

LEMMA RestKept == PInv /\ UNCHANGED <<P!rows, P!asks>> => PShape' /\ PRows' /\ PRound' /\ PAsk'
<1> SUFFICES ASSUME PInv, UNCHANGED <<P!rows, P!asks>> PROVE PShape' /\ PRows' /\ PRound' /\ PAsk'
  OBVIOUS
<1>1. UNCHANGED <<P!rows, current>> /\ UNCHANGED <<asked, shown>>
  BY DEF P!asks
<1> QED
  BY <1>1, PRowsKept, PAskKept DEF PInv

\* The reader at a cursor, with nothing under way.
LEMMA WalkAt ==
  ASSUME NEW c, c = Unset \/ CursorIsTrue(c), walk' = [P!NoWalk EXCEPT !.cursor = c],
         page' = Unset \/ PageIsTrue(page'), kept' = Unset \/ PageIsTrue(kept'.body)
  PROVE  PWalk'
<1>1. walk' = [at |-> "idle", cursor |-> c, stamp |-> Unset, body |-> Unset]
  BY DEF P!NoWalk
<1>2. walk'.at = "idle" /\ walk'.cursor = c /\ walk'.stamp = Unset /\ walk'.body = Unset
  BY <1>1
<1> QED
  BY <1>1, <1>2 DEF PWalk

LEMMA RefusedWalk ==
  ASSUME PWalk, NEW reset \in BOOLEAN, P!Refused(reset)
  PROVE  PWalk'
<1>1. PICK c : (c = Unset \/ CursorIsTrue(c)) /\ walk' = [P!NoWalk EXCEPT !.cursor = c]
  <2>1. CASE reset
    <3>1. walk' = [P!NoWalk EXCEPT !.cursor = Unset]
      BY <2>1 DEF P!Refused
    <3> QED
      BY <3>1
  <2>2. CASE ~ reset
    <3>1. walk' = [P!NoWalk EXCEPT !.cursor = walk.cursor] /\ (walk.cursor = Unset \/ CursorIsTrue(walk.cursor))
      BY <2>2 DEF P!Refused, PWalk
    <3> QED
      BY <3>1
  <2> QED
    BY <2>1, <2>2
<1>2. UNCHANGED <<page, kept>>
  BY DEF P!Refused
<1> QED
  BY <1>1, <1>2, WalkAt DEF PWalk

LEMMA GivenWalk ==
  ASSUME NEW body, PageIsTrue(body), P!Given(body), kept' = Unset \/ PageIsTrue(kept'.body)
  PROVE  PWalk'
<1>1. body.next = Unset \/ CursorIsTrue(body.next)
  BY DEF PageIsTrue
<1>2. walk' = [P!NoWalk EXCEPT !.cursor = body.next] /\ page' = body
  BY DEF P!Given
<1> QED
  BY <1>1, <1>2, WalkAt

LEMMA TailServed == PInv /\ P!Tails => PInv'
<1> SUFFICES ASSUME PInv, P!Tails PROVE PInv'
  OBVIOUS
<1>1. UNCHANGED <<P!rows, P!asks>>
  BY DEF P!Tails, P!FromKept, P!AskTail, P!ReadTail, P!GiveTail, P!DropTail
<1>2. PWalk /\ PShape /\ PRows
  BY DEF PInv
<1>3. CASE P!FromKept
  <2>1. PageIsTrue(kept.body) /\ P!Given(kept.body) /\ UNCHANGED kept
    BY <1>2, <1>3 DEF P!FromKept, PWalk
  <2>2. PWalk'
    BY <2>1, GivenWalk
  <2> QED
    BY <1>1, <2>2, RestKept DEF PInv
<1>4. CASE P!AskTail
  <2>1. walk' = [walk EXCEPT !.at = "numbers"] /\ UNCHANGED <<page, kept>>
    BY <1>4 DEF P!AskTail
  <2>2. walk' = [at |-> "numbers", cursor |-> walk.cursor, stamp |-> walk.stamp, body |-> walk.body]
    BY <1>2, <2>1 DEF PWalk
  <2>3. PWalk'
    BY <1>2, <2>1, <2>2 DEF PWalk
  <2> QED
    BY <1>1, <2>3, RestKept DEF PInv
<1>5. CASE P!ReadTail
  <2>1. PICK s \in {snapshot, Unset} :
          \/ \E reset \in BOOLEAN : P!Refused(reset)
          \/ /\ P!Stands(walk.cursor, s) /\ ~ P!Full(walk.cursor)
             /\ walk' = [walk EXCEPT !.at = "hashed", !.stamp = P!TailStamp, !.body = P!Page(walk.cursor, s)]
             /\ UNCHANGED <<page, kept>>
    BY <1>5 DEF P!ReadTail
  <2>2. CASE \E reset \in BOOLEAN : P!Refused(reset)
    <3>1. PWalk'
      BY <1>2, <2>2, RefusedWalk
    <3> QED
      BY <1>1, <3>1, RestKept DEF PInv
  <2>3. CASE /\ P!Stands(walk.cursor, s) /\ ~ P!Full(walk.cursor)
             /\ walk' = [walk EXCEPT !.at = "hashed", !.stamp = P!TailStamp, !.body = P!Page(walk.cursor, s)]
             /\ UNCHANGED <<page, kept>>
    <3>1. PageIsTrue(P!Page(walk.cursor, s))
      BY <1>2, <2>3, PageIsRead DEF PWalk
    <3> DEFINE body == P!Page(walk.cursor, s)
               stamp == P!TailStamp
    <3>2. walk' = [at |-> "hashed", cursor |-> walk.cursor, stamp |-> stamp, body |-> body]
      BY <1>2, <2>3 DEF PWalk
    <3> HIDE DEF body, stamp
    <3>3. walk'.cursor = walk.cursor /\ walk'.body = body /\ walk'.stamp = stamp /\ walk'.at = "hashed"
      BY <3>2
    <3>4. PageIsTrue(body)
      BY <3>1 DEF body
    <3>5. PWalk'
      BY <1>2, <2>3, <3>2, <3>3, <3>4 DEF PWalk
    <3> QED
      BY <1>1, <3>5, RestKept DEF PInv
  <2> QED
    BY <2>1, <2>2, <2>3
<1>6. CASE P!GiveTail
  <2>1. CASE P!Refused(FALSE)
    <3>1. PWalk'
      BY <1>2, <2>1, RefusedWalk
    <3> QED
      BY <1>1, <3>1, RestKept DEF PInv
  <2>2. CASE /\ kept' = [key |-> walk.cursor, stamp |-> walk.stamp, body |-> walk.body] /\ P!Given(walk.body)
    <3>1. PageIsTrue(walk.body) /\ kept'.body = walk.body
      BY <1>2, <1>6, <2>2 DEF P!GiveTail, PWalk
    <3>2. PWalk'
      BY <2>2, <3>1, GivenWalk
    <3> QED
      BY <1>1, <3>2, RestKept DEF PInv
  <2> QED
    BY <1>6, <2>1, <2>2 DEF P!GiveTail
<1>7. CASE P!DropTail
  <2>1. PWalk'
    BY <1>2, <1>7, RefusedWalk DEF P!DropTail
  <2> QED
    BY <1>1, <2>1, RestKept DEF PInv
<1> QED
  BY <1>3, <1>4, <1>5, <1>6, <1>7 DEF P!Tails

\* A request, and the requests after a step of one of them.
Ask(at, address, stamp, body) == [at |-> at, address |-> address, stamp |-> stamp, body |-> body]

LEMMA AskFields ==
  ASSUME NEW at, NEW address, NEW stamp, NEW body
  PROVE  LET q == Ask(at, address, stamp, body) IN
         /\ q.at = at /\ q.body = body
         /\ q = [at |-> q.at, address |-> q.address, stamp |-> q.stamp, body |-> q.body]
BY DEF Ask

LEMMA AskMoved ==
  ASSUME PAsk, NEW a \in Requests, NEW q, q = [at |-> q.at, address |-> q.address, stamp |-> q.stamp, body |-> q.body],
         asked' = [asked EXCEPT ![a] = q],
         q.at = "hashed" => HistoryIsRead(q.body), q.at = "digest" => HistoryIsTrue(q.body),
         shown' = Unset \/ HistoryIsTrue(shown')
  PROVE  PAsk'
<1>1. asked = [b \in Requests |-> asked[b]]
  <2> DEFINE form(b) == [at |-> asked[b].at, address |-> asked[b].address, stamp |-> asked[b].stamp, body |-> asked[b].body]
  <2>1. asked = [b \in Requests |-> form(b)]
    BY DEF PAsk
  <2> HIDE DEF form
  <2>2. \A b \in Requests : asked[b] = form(b)
    BY <2>1
  <2> QED
    BY <2>1, <2>2
<1>2. /\ asked'[a] = q
      /\ \A b \in Requests \ {a} : asked'[b] = asked[b]
      /\ asked' = [b \in Requests |-> asked'[b]]
  BY <1>1
<1>3. \A b \in Requests : asked'[b] = [at |-> asked'[b].at, address |-> asked'[b].address,
                                       stamp |-> asked'[b].stamp, body |-> asked'[b].body]
  <2>1. \A b \in Requests \ {a} : asked[b] = [at |-> asked[b].at, address |-> asked[b].address,
                                              stamp |-> asked[b].stamp, body |-> asked[b].body]
    BY DEF PAsk
  <2> QED
    BY <1>2, <2>1
<1>4. asked' = [b \in Requests |-> [at |-> asked'[b].at, address |-> asked'[b].address,
                                    stamp |-> asked'[b].stamp, body |-> asked'[b].body]]
  BY <1>2, <1>3
<1>5. \A b \in Requests : /\ asked'[b].at = "hashed" => HistoryIsRead(asked'[b].body)
                          /\ asked'[b].at = "digest" => HistoryIsTrue(asked'[b].body)
  BY <1>2 DEF PAsk
<1> QED
  BY <1>4, <1>5 DEF PAsk

LEMMA AskFailed ==
  ASSUME PAsk, NEW a \in Requests, P!Failed(a)
  PROVE  PAsk'
<1> DEFINE q == Ask("idle", Unset, Unset, Unset)
<1>1. asked' = [asked EXCEPT ![a] = q] /\ shown' = Unset
  BY DEF P!Failed, P!NoAsk, Ask
<1>2. q.at = "idle" /\ q = [at |-> q.at, address |-> q.address, stamp |-> q.stamp, body |-> q.body]
  BY AskFields
<1> HIDE DEF q
<1> QED
  BY <1>1, <1>2, AskMoved

\* A step that changes one field of a request.
LEMMA AskAdvanced ==
  ASSUME PAsk, NEW a \in Requests, NEW at
  PROVE  [asked EXCEPT ![a].at = at] = [asked EXCEPT ![a] = Ask(at, asked[a].address, asked[a].stamp, asked[a].body)]
<1>1. \A b \in Requests : asked[b] = [at |-> asked[b].at, address |-> asked[b].address,
                                     stamp |-> asked[b].stamp, body |-> asked[b].body]
  BY DEF PAsk
<1>2. PICK p, q, r, s : asked[a] = [at |-> p, address |-> q, stamp |-> r, body |-> s]
  BY <1>1
<1>3. asked[a].address = q /\ asked[a].stamp = r /\ asked[a].body = s
  BY <1>2
<1>4. PICK e : e = [[at |-> p, address |-> q, stamp |-> r, body |-> s] EXCEPT !.at = at]
  OBVIOUS
<1>5. e = Ask(at, q, r, s)
  BY <1>4 DEF Ask
<1>6. [asked EXCEPT ![a].at = at] = [asked EXCEPT ![a] = e]
  BY <1>2, <1>4
<1> QED
  BY <1>3, <1>5, <1>6

LEMMA HistoryServed == PInv /\ P!Histories => PInv'
<1> SUFFICES ASSUME PInv, P!Histories PROVE PInv'
  OBVIOUS
<1>1. PICK a \in Requests : P!ReadHistory(a) \/ P!Receive(a) \/ P!Show(a) \/ P!Deny(a)
                            \/ \E l \in Launched : P!Submit(a, CreatorOf[l])
  BY DEF P!Histories
<1>2. UNCHANGED <<P!rows, P!walks>> /\ PAsk
  BY <1>1 DEF P!ReadHistory, P!Receive, P!Show, P!Deny, P!Submit, PInv
<1>3. PRows' /\ PRound' /\ PWalk'
  BY <1>2, PWalkKept DEF P!rows, P!walks, PInv, PRows, PRound, Excused, P!Resting
<1>4. current' \in Requests \cup {Unset}
  BY <1>1 DEF P!ReadHistory, P!Receive, P!Show, P!Deny, P!Submit, P!Failed, PInv, PShape
<1>5. PShape'
  BY <1>2, <1>4 DEF P!rows, PInv, PShape, P!Resting
<1>7. CASE P!Failed(a)
  <2>1. PAsk'
    BY <1>2, <1>7, AskFailed
  <2> QED
    BY <1>3, <1>5, <2>1 DEF PInv
<1>8. CASE P!ReadHistory(a) /\ ~ P!Failed(a)
  <2> DEFINE body == P!History(asked[a].address)
             stamp == P!HistoryStamp
  <2>1. P!HistoryReady /\ UNCHANGED shown
        /\ asked' = [asked EXCEPT ![a].at = "hashed", ![a].stamp = stamp, ![a].body = body]
    BY <1>8 DEF P!ReadHistory
  <2>2. HistoryIsRead(body)
    BY <2>1, HistoryIsReadOfRows DEF PInv
  <2> HIDE DEF body, stamp
  <2> DEFINE q == Ask("hashed", asked[a].address, stamp, body)
  <2>3. asked' = [asked EXCEPT ![a] = q]
    <3>1. \A c \in Requests : asked[c] = [at |-> asked[c].at, address |-> asked[c].address,
                                         stamp |-> asked[c].stamp, body |-> asked[c].body]
      BY <1>2 DEF PAsk
    <3>2. PICK x, y, z, w : asked[a] = [at |-> x, address |-> y, stamp |-> z, body |-> w]
      BY <3>1
    <3>3. PICK e : e = [[at |-> x, address |-> y, stamp |-> z, body |-> w] EXCEPT !.at = "hashed", !.stamp = stamp, !.body = body]
      OBVIOUS
    <3>4. e.at = "hashed" /\ e.address = y /\ e.stamp = stamp /\ e.body = body
      BY <3>3
    <3>5. e = q
      BY <3>2, <3>3, <3>4 DEF Ask
    <3>6. asked' = [asked EXCEPT ![a] = e]
      BY <2>1, <3>2, <3>3
    <3> QED
      BY <3>5, <3>6
  <2>4. q.at = "hashed" /\ q.body = body /\ q = [at |-> q.at, address |-> q.address, stamp |-> q.stamp, body |-> q.body]
    BY AskFields
  <2> HIDE DEF q
  <2>5. PAsk'
    BY <1>2, <2>1, <2>2, <2>3, <2>4, AskMoved DEF PAsk
  <2> QED
    BY <1>3, <1>5, <2>5 DEF PInv
<1>9. CASE P!Receive(a) /\ ~ P!Failed(a)
  <2>1. /\ asked[a].at = "hashed" /\ P!Valid(asked[a].body) /\ UNCHANGED shown
        /\ asked' = [asked EXCEPT ![a].at = "digest"]
    BY <1>9 DEF P!Receive
  <2>2. HistoryIsTrue(asked[a].body)
    BY <1>2, <2>1, ValidHistoryIsTrue DEF PAsk
  <2> DEFINE q == Ask("digest", asked[a].address, asked[a].stamp, asked[a].body)
  <2>3. asked' = [asked EXCEPT ![a] = q]
    BY <1>2, <2>1, AskAdvanced
  <2>4. q.at = "digest" /\ q.body = asked[a].body
        /\ q = [at |-> q.at, address |-> q.address, stamp |-> q.stamp, body |-> q.body]
    BY AskFields
  <2> HIDE DEF q
  <2>5. PAsk'
    BY <1>2, <2>1, <2>2, <2>3, <2>4, AskMoved DEF PAsk
  <2> QED
    BY <1>3, <1>5, <2>5 DEF PInv
<1>10. CASE P!Show(a)
  <2> DEFINE q == Ask("idle", Unset, Unset, Unset)
  <2>1. asked[a].at = "digest" /\ shown' = asked[a].body /\ asked' = [asked EXCEPT ![a] = q]
    BY <1>10 DEF P!Show, P!NoAsk, Ask
  <2>2. HistoryIsTrue(shown')
    BY <1>2, <2>1 DEF PAsk
  <2>3. q.at = "idle" /\ q = [at |-> q.at, address |-> q.address, stamp |-> q.stamp, body |-> q.body]
    BY AskFields
  <2> HIDE DEF q
  <2>4. PAsk'
    BY <1>2, <2>1, <2>2, <2>3, AskMoved
  <2> QED
    BY <1>3, <1>5, <2>4 DEF PInv
<1>11. CASE \E l \in Launched : P!Submit(a, CreatorOf[l])
  <2>1. PICK d :
          /\ asked' = [b \in Requests |-> IF b = a THEN [P!NoAsk EXCEPT !.at = "sent", !.address = d]
                                          ELSE IF asked[b].at = "digest" THEN asked[b] ELSE P!NoAsk]
          /\ shown' = Unset
    BY <1>11 DEF P!Submit
  <2>2. /\ \A b \in Requests : \/ asked'[b] = [at |-> "sent", address |-> d, stamp |-> Unset, body |-> Unset]
                               \/ asked'[b] = asked[b]
                               \/ asked'[b] = [at |-> "idle", address |-> Unset, stamp |-> Unset, body |-> Unset]
        /\ asked' = [b \in Requests |-> asked'[b]]
    BY <2>1 DEF P!NoAsk
  <2>3. \A b \in Requests : /\ asked'[b] = [at |-> asked'[b].at, address |-> asked'[b].address,
                                            stamp |-> asked'[b].stamp, body |-> asked'[b].body]
                            /\ asked'[b].at = "hashed" => HistoryIsRead(asked'[b].body)
                            /\ asked'[b].at = "digest" => HistoryIsTrue(asked'[b].body)
    <3> SUFFICES ASSUME NEW b \in Requests
                 PROVE  /\ asked'[b] = [at |-> asked'[b].at, address |-> asked'[b].address,
                                        stamp |-> asked'[b].stamp, body |-> asked'[b].body]
                        /\ asked'[b].at = "hashed" => HistoryIsRead(asked'[b].body)
                        /\ asked'[b].at = "digest" => HistoryIsTrue(asked'[b].body)
      OBVIOUS
    <3>1. CASE asked'[b] = asked[b]
      BY <1>2, <3>1 DEF PAsk
    <3>2. CASE asked'[b] = [at |-> "sent", address |-> d, stamp |-> Unset, body |-> Unset]
      BY <3>2
    <3>3. CASE asked'[b] = [at |-> "idle", address |-> Unset, stamp |-> Unset, body |-> Unset]
      BY <3>3
    <3> QED
      BY <2>2, <3>1, <3>2, <3>3
  <2>4. asked' = [b \in Requests |-> [at |-> asked'[b].at, address |-> asked'[b].address,
                                      stamp |-> asked'[b].stamp, body |-> asked'[b].body]]
    BY <2>2, <2>3
  <2>5. PAsk'
    BY <2>1, <2>3, <2>4 DEF PAsk
  <2> QED
    BY <1>3, <1>5, <2>5 DEF PInv
<1> QED
  BY <1>1, <1>7, <1>8, <1>9, <1>10, <1>11 DEF P!Deny

-----------------------------------------------------------------------------
LEMMA PStart == P!Init => PInv
<1> SUFFICES ASSUME P!Init PROVE PInv
  OBVIOUS
<1>1. /\ read = FirstBlock /\ observed = FirstBlock /\ tail = {} /\ wall = {} /\ gap = 0 /\ pruned = 0 /\ broken = 0
      /\ round = P!Resting /\ snapshot = Unset /\ walk = P!NoWalk /\ page = Unset /\ kept = Unset
      /\ asked = [a \in Requests |-> P!NoAsk] /\ current = Unset /\ shown = Unset
  BY DEF P!Init
<1>2. P!Resting \in [todo : SUBSET Launched, upto : 0 .. LastBlock]
  BY LaunchFacts DEF P!Resting
<1>3. PShape
  BY <1>1, <1>2, LaunchFacts DEF PShape
<1>4. PRows /\ PRound
  BY <1>1, LaunchFacts DEF PRows, PRound, Excused
<1>5. PWalk
  BY <1>1 DEF PWalk, P!NoWalk
<1>6. PAsk
  BY <1>1 DEF PAsk, P!NoAsk
<1> QED
  BY <1>3, <1>4, <1>5, <1>6 DEF PInv

LEMMA PStep == PInv /\ [P!Next]_(P!vars) => PInv'
<1> SUFFICES ASSUME PInv, [P!Next]_(P!vars) PROVE PInv'
  OBVIOUS
<1>1. CASE UNCHANGED P!vars
  <2>1. UNCHANGED <<P!rows, P!asks>> /\ UNCHANGED <<walk, page, kept>>
    BY <1>1 DEF P!vars, P!walks
  <2>2. PWalk'
    BY <2>1, PWalkKept DEF PInv
  <2> QED
    BY <2>1, <2>2, RestKept DEF PInv
<1>2. CASE P!Watcher
  BY <1>2, Published, Retreated, Committed, Recorded, Began DEF P!Watcher
<1> QED
  BY <1>1, <1>2, TailServed, HistoryServed DEF P!Next

\* The pages of the tail and the history on display hold every launch of the blocks they state, for any
\* chain, any sizes of a round and of a page, and any number of requests.
THEOREM PagesAreWholeAlways == P!Spec => [](P!TypeOK /\ PagesAreWhole)
<1>1. PInv => P!TypeOK /\ PagesAreWhole
  <2> SUFFICES ASSUME PInv PROVE P!TypeOK /\ PagesAreWhole
    OBVIOUS
  <2>1. P!TypeOK
    <3>1. PShape
      BY DEF PInv
    <3>2. gap \in Nat /\ read \in 0 .. LastBlock /\ gap <= read + RoundBlocks
      BY <3>1, PTypes, LaunchFacts DEF PShape
    <3> QED
      BY <3>1, <3>2, PTypes DEF PShape, P!TypeOK
  <2>2. P!WalkIsWhole
    BY TruePageIsWhole DEF PInv, PWalk
  <2>3. P!HistoryIsWhole
    BY SameCount DEF PInv, PAsk, HistoryIsTrue, P!HistoryIsWhole
  <2> QED
    BY <2>1, <2>2, <2>3 DEF PagesAreWhole
<1> QED
  BY <1>1, PStart, PStep, PTL DEF P!Spec

-----------------------------------------------------------------------------
(* Wall.  Nothing is said of a request until the object has answered it;   *)
(* then its answer is true of the chain, and stays so, and a delta that    *)
(* waits for its hash is compared with what it makes of the page it was    *)
(* given to, whatever becomes of that page.                                *)

WBlocks == 0 .. LastBlock
WCursor == [role : {"none", "live", "history"}, snap : WBlocks, at : Nat]
WModes  == {"latest", "before", "after"}
WBody   == [mode : WModes, snap : WBlocks, to : WBlocks, older : WCursor, live : WCursor,
            rows : Seq(Launched), view : Seq(Launched)]
WWhys   == {"", "behind", "backlog", "snapshot_regressed", "unreadable", "migrating", "cursor", "reset_required",
            "state_changed", "network", "invalid"}
WStages == {"asked", "boundary", "read", "cut", "hashing", "comparing"}
WPage   == [mode : {"none", "live", "history"}, snap : Int, older : WCursor, live : WCursor, rows : Seq(Launched),
            to : WBlocks, why : WWhys, mixed : BOOLEAN]
WAsk    == [stage : WStages, mode : WModes, cursor : WCursor, snap : WBlocks, why : WWhys,
            body : WBody \cup {[mode |-> "none"]}, moved : BOOLEAN, current : BOOLEAN, view : Seq(Launched), base : WPage]
WPolls  == [Flights -> WAsk \cup {L!None}]

WShape ==
  /\ board \in [at : WBlocks, head : WBlocks, hole : WBlocks, pruned : WBlocks, bare : SUBSET Launched]
  /\ edition \in WBlocks
  /\ browser \in WPage
  /\ reader \in [paused : BOOLEAN, hidden : BOOLEAN, due : BOOLEAN]

\* What an answer says holds of the chain, whatever the object does after it: the newest rows up to a block, a
\* view of them, or rows without a hole up to the last of them.
WUpTo(snap, to, rows) == {l \in L!Between(snap, to) : rows # <<>> /\ l <= rows[Len(rows)]}
WTrue(b) ==
  /\ b.mode = "latest" => b.rows = L!Newest(L!Rows(b.snap, b.to))
  /\ b.mode = "before" => b.rows = L!Newest(L!InOrder(WUpTo(b.snap, b.to, b.rows)))
  /\ b.mode = "after"  => b.view = L!Newest(L!Rows(b.snap, b.to))

WAnswer(r) ==
  (r.stage = "read" /\ r.why = "") \/ r.stage \in {"hashing", "comparing"} => r.body \in WBody /\ WTrue(r.body)

\* A delta is compared with what it makes of a live page of its snapshot.
WCompares(r) ==
  r.stage = "comparing" =>
    /\ r.body.mode = "after" /\ r.view = L!Newest(r.base.rows \o r.body.rows)
    /\ r.base.mode = "live" /\ r.base.snap = r.body.snap

\* The requests: each as it is said above.
WOk(fl) == fl \in WPolls /\ \A f \in Flights : WAnswer(fl[f]) /\ WCompares(fl[f])

WShown(p) ==
  /\ p.mode = "live" /\ ~p.mixed => p.rows = L!Newest(L!Rows(p.snap, p.to))
  /\ p.mode = "history" /\ ~p.mixed => p.rows = L!Newest(L!InOrder(WUpTo(p.snap, p.to, p.rows)))

WInv == WShape /\ WOk(polls) /\ WShown(browser)

-----------------------------------------------------------------------------
LEMMA WFacts ==
  /\ LastBlock \in Nat /\ Launched \subseteq Nat /\ IsFiniteSet(Launched) /\ Publishable \subseteq Launched
  /\ WallRows \in Nat /\ WallRows >= 1 /\ Flights # {}
  /\ \A l \in Launched : BlockOf[l] \in Nat
BY LaunchesAssumption, WallAssumption

LEMMA WOrder ==
  ASSUME NEW S \in SUBSET Launched
  PROVE  /\ L!InOrder(S) \in Seq(Launched)
         /\ \A i, j \in 1 .. Len(L!InOrder(S)) : i < j => L!InOrder(S)[i] < L!InOrder(S)[j]
         /\ \A i \in 1 .. Len(L!InOrder(S)) : L!InOrder(S)[i] \in S
         /\ \A x \in S : \E i \in 1 .. Len(L!InOrder(S)) : L!InOrder(S)[i] = x
<1>1. L!InOrder(S) = InOrder(S)
  BY DEF L!InOrder, InOrder, L!Cardinality, Cardinality
<1>2. S \subseteq Nat /\ IsFiniteSet(S)
  BY WFacts, FS_Subset
<1>3. PICK o : o = InOrder(S)
  OBVIOUS
<1>4. /\ o \in Seq(S) /\ Len(o) = Cardinality(S)
      /\ \A i, j \in 1 .. Cardinality(S) : i < j => o[i] < o[j]
      /\ \A x \in S : \E i \in 1 .. Cardinality(S) : o[i] = x
  BY <1>2, <1>3, OrderIs
<1>5. o \in Seq(Launched) /\ \A i \in 1 .. Len(o) : o[i] \in S
  BY <1>4
<1> QED
  BY <1>1, <1>3, <1>4, <1>5

LEMMA WNewest ==
  ASSUME NEW q \in Seq(Launched)
  PROVE  /\ L!Newest(q) \in Seq(Launched)
         /\ q # <<>> => L!Newest(q) # <<>> /\ L!Newest(q)[Len(L!Newest(q))] = q[Len(q)]
         /\ q = <<>> => L!Newest(q) = <<>>
         /\ Len(q) > WallRows => L!Newest(q)[1] \in Launched
<1>1. Len(q) \in Nat /\ (q # <<>> => Len(q) >= 1) /\ \A i \in 1 .. Len(q) : q[i] \in Launched
  OBVIOUS
<1>2. CASE Len(q) > WallRows
  <2> DEFINE m == Len(q) - WallRows + 1
             t == SubSeq(q, m, Len(q))
  <2>1. m \in 1 .. Len(q) /\ m \in Int
    BY <1>1, <1>2, WFacts
  <2>2. t \in Seq(Launched) /\ Len(t) = WallRows /\ \A i \in 1 .. WallRows : t[i] = q[m + i - 1]
    <3>1. \A i \in m .. Len(q) : q[i] \in Launched
      BY <1>1, <2>1
    <3>2. m <= Len(q) + 1 /\ m \in 1 .. Len(q) + 1
      BY <1>1, <2>1
    <3>3. t \in Seq(Launched) /\ Len(t) = Len(q) - m + 1 /\ \A i \in 1 .. Len(q) - m + 1 : t[i] = q[m + i - 1]
      <4> HIDE DEF m
      <4> QED
        BY <1>1, <2>1, <3>1, <3>2
    <3>4. Len(q) - m + 1 = WallRows
      BY <1>1, WFacts
    <3> QED
      BY <3>3, <3>4
  <2>3. L!Newest(q) = t
    BY <1>2 DEF L!Newest
  <2>4. t # <<>> /\ t[Len(t)] = q[Len(q)] /\ t[1] \in Launched
    <3>1. m + WallRows - 1 = Len(q) /\ 1 \in 1 .. WallRows /\ WallRows \in 1 .. WallRows
      BY <1>1, WFacts
    <3>2. t[1] \in Launched
      <4> HIDE DEF t, m
      <4> QED
        BY <2>2, <3>1
    <3>3. t[WallRows] = q[m + WallRows - 1]
      BY <2>2, <3>1
    <3> HIDE DEF t, m
    <3>4. t[Len(t)] = q[Len(q)]
      BY <2>2, <3>1, <3>3
    <3> QED
      BY <2>2, <3>2, <3>4, WFacts
  <2> QED
    BY <1>2, <2>2, <2>3, <2>4, WFacts
<1>3. CASE ~ (Len(q) > WallRows)
  BY <1>3 DEF L!Newest
<1> QED
  BY <1>2, <1>3

LEMMA WBetween == \A s, t : L!Between(s, t) \in SUBSET Launched
BY WFacts DEF L!Between

\* The rows before a launch are all the rows up to the last of them.
LEMMA WHistory ==
  ASSUME NEW s, NEW t, NEW c \in Nat, NEW rows,
         rows = L!Newest(L!InOrder({l \in L!Between(s, t) : l < c}))
  PROVE  rows = L!Newest(L!InOrder(WUpTo(s, t, rows)))
<1> DEFINE B == {l \in L!Between(s, t) : l < c}
<1>1. PICK q : q = L!InOrder(B)
  OBVIOUS
<1>2. /\ q \in Seq(Launched) /\ \A i, j \in 1 .. Len(q) : i < j => q[i] < q[j]
      /\ \A i \in 1 .. Len(q) : q[i] \in B
      /\ \A x \in B : \E i \in 1 .. Len(q) : q[i] = x
  BY <1>1, WOrder, WBetween
<1>3. rows = L!Newest(q)
  BY <1>1
<1>4. B = WUpTo(s, t, rows)
  <2>1. CASE q = <<>>
    <3>1. B = {}
      BY <1>2, <2>1
    <3>2. rows = <<>>
      BY <1>2, <1>3, <2>1, WNewest
    <3> QED
      BY <3>1, <3>2 DEF WUpTo
  <2>2. CASE q # <<>>
    <3> DEFINE last == q[Len(q)]
    <3>1. Len(q) \in Nat /\ Len(q) >= 1 /\ last \in B /\ rows # <<>> /\ rows[Len(rows)] = last
      BY <1>2, <1>3, <2>2, WNewest
    <3>2. ASSUME NEW x \in B PROVE x <= last
      <4>1. PICK i \in 1 .. Len(q) : q[i] = x
        BY <1>2
      <4>2. x \in Nat /\ last \in Nat
        BY <3>1, WFacts, WBetween
      <4>3. i = Len(q) \/ (i < Len(q) /\ x < last)
        BY <1>2, <3>1, <4>1
      <4> QED
        BY <4>1, <4>2, <4>3
    <3>3. ASSUME NEW x \in L!Between(s, t), x <= last PROVE x < c
      <4>1. x \in Nat /\ last \in Nat /\ last < c
        BY <3>1, WFacts, WBetween
      <4> QED
        BY <3>3, <4>1
    <3> QED
      BY <3>1, <3>2, <3>3 DEF WUpTo
  <2> QED
    BY <2>1, <2>2
<1> QED
  BY <1>4

LEMMA WNone == L!None.stage = "none" /\ L!None = [stage |-> "none"]
BY DEF L!None

LEMMA WCursorless == L!NoCursor \in WCursor
BY WFacts DEF L!NoCursor, WCursor, WBlocks

\* A request that is none, is new, or has what it had but for its owner.
WKeeps(new, old) ==
  \/ new.stage \in {"none", "asked", "cut"}
  \/ new.stage = old.stage /\ new.why = old.why /\ new.body = old.body /\ new.view = old.view /\ new.base = old.base

LEMMA WCalm ==
  ASSUME NEW old, NEW new \in WPolls, WOk(old), \A f \in Flights : WKeeps(new[f], old[f])
  PROVE  WOk(new)
<1>1. ASSUME NEW f \in Flights PROVE WAnswer(new[f]) /\ WCompares(new[f])
  <2>1. WAnswer(old[f]) /\ WCompares(old[f]) /\ WKeeps(new[f], old[f])
    BY DEF WOk
  <2> QED
    BY <2>1 DEF WKeeps, WAnswer, WCompares
<1> QED
  BY <1>1 DEF WOk

LEMMA WStage ==
  ASSUME NEW fl \in WPolls, NEW f \in Flights
  PROVE  /\ fl[f].stage # "none" => fl[f] \in WAsk /\ fl[f].stage \in WStages
         /\ fl[f].stage = "none" => fl[f] = L!None
<1>1. fl[f] \in WAsk \cup {L!None}
  BY DEF WPolls
<1>2. fl[f] \in WAsk => fl[f].stage \in WStages
  BY DEF WAsk
<1>3. "none" \notin WStages
  BY DEF WStages
<1> QED
  BY <1>1, <1>2, <1>3, WNone

LEMMA WOwnerless ==
  ASSUME NEW r \in WAsk
  PROVE  [r EXCEPT !.current = FALSE] \in WAsk /\ WKeeps([r EXCEPT !.current = FALSE], r)
BY DEF WAsk, WKeeps

LEMMA WMarked ==
  ASSUME NEW r \in WAsk
  PROVE  [r EXCEPT !.moved = TRUE] \in WAsk /\ WKeeps([r EXCEPT !.moved = TRUE], r)
BY DEF WAsk, WKeeps

LEMMA WUntouched == \A r : WKeeps(r, r)
BY DEF WKeeps

LEMMA WGone == \A r : WKeeps(L!None, r)
BY WNone DEF WKeeps

\* A request whose answer is cut off.
LEMMA WCut ==
  ASSUME NEW r \in WAsk
  PROVE  [r EXCEPT !.stage = "cut", !.current = FALSE] \in WAsk /\ [r EXCEPT !.stage = "cut", !.current = FALSE].stage = "cut"
BY DEF WAsk, WStages

LEMMA WCancels ==
  ASSUME WOk(polls), NEW reading \in BOOLEAN
  PROVE  WOk(L!Cancelled(reading))
<1>1. polls \in WPolls
  BY DEF WOk
<1>2. ASSUME NEW f \in Flights
      PROVE  L!Cancelled(reading)[f] \in WAsk \cup {L!None} /\ WKeeps(L!Cancelled(reading)[f], polls[f])
  <2>1. polls[f] \in WAsk \cup {L!None} /\ (polls[f].stage # "none" => polls[f] \in WAsk)
    BY <1>1, WStage DEF WPolls
  <2>2. \/ L!Cancelled(reading)[f] = polls[f]
        \/ polls[f].stage # "none" /\ L!Cancelled(reading)[f] = [polls[f] EXCEPT !.current = FALSE]
        \/ polls[f].stage # "none" /\ L!Cancelled(reading)[f] = [polls[f] EXCEPT !.stage = "cut", !.current = FALSE]
        \/ L!Cancelled(reading)[f] = L!None
    <3>1. CASE polls[f].stage = "none" \/ ~polls[f].current
      BY <3>1 DEF L!Cancelled
    <3>2. CASE ~(polls[f].stage = "none" \/ ~polls[f].current) /\ L!InAccept(f)
      BY <3>2 DEF L!Cancelled
    <3>3. CASE ~(polls[f].stage = "none" \/ ~polls[f].current) /\ ~L!InAccept(f) /\ polls[f].stage = "read" /\ reading
      BY <3>3 DEF L!Cancelled
    <3>4. CASE ~(polls[f].stage = "none" \/ ~polls[f].current) /\ ~L!InAccept(f) /\ ~(polls[f].stage = "read" /\ reading)
      BY <3>4 DEF L!Cancelled
    <3> QED
      BY <3>1, <3>2, <3>3, <3>4
  <2>3. \A r \in WAsk : WKeeps([r EXCEPT !.stage = "cut", !.current = FALSE], r)
    BY WCut DEF WKeeps
  <2> QED
    BY <2>1, <2>2, <2>3, WCut, WOwnerless, WUntouched, WGone
<1>3. L!Cancelled(reading) \in WPolls
  BY <1>2 DEF WPolls, L!Cancelled
<1> QED
  BY <1>2, <1>3, WCalm

LEMMA WDisowns ==
  ASSUME NEW fl, WOk(fl)
  PROVE  WOk(L!Disowned(fl))
<1>1. fl \in WPolls
  BY DEF WOk
<1>2. ASSUME NEW f \in Flights
      PROVE  L!Disowned(fl)[f] \in WAsk \cup {L!None} /\ WKeeps(L!Disowned(fl)[f], fl[f])
  <2>1. fl[f] \in WAsk \cup {L!None} /\ (fl[f].stage # "none" => fl[f] \in WAsk)
    BY <1>1, WStage DEF WPolls
  <2>2. \/ L!Disowned(fl)[f] = fl[f]
        \/ fl[f].stage # "none" /\ L!Disowned(fl)[f] = [fl[f] EXCEPT !.current = FALSE]
    BY DEF L!Disowned
  <2> QED
    BY <2>1, <2>2, WOwnerless, WUntouched
<1>3. L!Disowned(fl) \in WPolls
  BY <1>2 DEF WPolls, L!Disowned
<1> QED
  BY <1>2, <1>3, WCalm

LEMMA WMoves ==
  ASSUME WOk(polls)
  PROVE  WOk(L!Moved)
<1>1. polls \in WPolls
  BY DEF WOk
<1>2. ASSUME NEW f \in Flights
      PROVE  L!Moved[f] \in WAsk \cup {L!None} /\ WKeeps(L!Moved[f], polls[f])
  <2>1. polls[f] \in WAsk \cup {L!None} /\ (polls[f].stage # "none" => polls[f] \in WAsk)
    BY <1>1, WStage DEF WPolls
  <2>2. \/ L!Moved[f] = polls[f]
        \/ polls[f].stage = "read" /\ L!Moved[f] = [polls[f] EXCEPT !.moved = TRUE]
    BY DEF L!Moved
  <2> QED
    BY <2>1, <2>2, WMarked, WUntouched
<1>3. L!Moved \in WPolls
  BY <1>2 DEF WPolls, L!Moved
<1> QED
  BY <1>2, <1>3, WCalm

\* One request is replaced by another.
LEMMA WReplaced ==
  ASSUME NEW fl, WOk(fl), NEW f \in Flights, NEW r \in WAsk \cup {L!None}, WKeeps(r, fl[f])
  PROVE  WOk([fl EXCEPT ![f] = r])
<1>1. fl \in WPolls
  BY DEF WOk
<1>2. [fl EXCEPT ![f] = r] \in WPolls
  BY <1>1 DEF WPolls
<1>3. \A g \in Flights : WKeeps([fl EXCEPT ![f] = r][g], fl[g])
  BY <1>1, WUntouched DEF WPolls
<1> QED
  BY <1>2, <1>3, WCalm

\* A page is its fields.
LEMMA WPageIs ==
  ASSUME NEW mode \in {"none", "live", "history"}, NEW snap \in Int, NEW older \in WCursor, NEW live \in WCursor,
         NEW rows \in Seq(Launched), NEW to \in WBlocks, NEW why \in WWhys, NEW mixed \in BOOLEAN
  PROVE  [mode |-> mode, snap |-> snap, older |-> older, live |-> live, rows |-> rows, to |-> to, why |-> why,
          mixed |-> mixed] \in WPage
BY DEF WPage

LEMMA WForgets ==
  ASSUME browser \in WPage
  PROVE  L!Forgotten \in WPage /\ WShown(L!Forgotten)
<1>1. PICK p : p = L!Forgotten
  OBVIOUS
<1>2. p = [browser EXCEPT !.mode = "none", !.snap = -1, !.live = L!NoCursor]
  BY <1>1 DEF L!Forgotten
<1>3. p.mode = "none" /\ p \in WPage
  <2>1. p = [mode |-> "none", snap |-> -1, older |-> browser.older, live |-> L!NoCursor, rows |-> browser.rows,
             to |-> browser.to, why |-> browser.why, mixed |-> browser.mixed]
    BY <1>2 DEF WPage
  <2>2. browser.older \in WCursor /\ browser.rows \in Seq(Launched) /\ browser.to \in WBlocks /\ browser.why \in WWhys
        /\ browser.mixed \in BOOLEAN
    BY DEF WPage
  <2>3. -1 \in Int
    OBVIOUS
  <2>4. p \in WPage
    BY <2>1, <2>2, <2>3, WCursorless, WPageIs
  <2> QED
    BY <2>1, <2>4
<1> QED
  BY <1>1, <1>3 DEF WShown

LEMMA WFails ==
  ASSUME NEW why \in WWhys
  PROVE  L!Failed(why) \in WPage /\ WShown(L!Failed(why)) /\ L!Failed(why).mode = "none"
<1>1. PICK p : p = L!Failed(why)
  OBVIOUS
<1>2. PICK n : n = L!NoPage
  OBVIOUS
<1>3. PICK c : c = L!NoCursor
  OBVIOUS
<1>4. n = [mode |-> "none", snap |-> -1, older |-> c, live |-> c, rows |-> <<>>, to |-> 0, why |-> "",
            mixed |-> FALSE]
  BY <1>2, <1>3 DEF L!NoPage
<1>5. p = [n EXCEPT !.why = why]
  BY <1>1, <1>2 DEF L!Failed
<1>6. 0 \in WBlocks /\ <<>> \in Seq(Launched) /\ c \in WCursor
  BY <1>3, WFacts, WCursorless DEF WBlocks
<1>8. p = [mode |-> "none", snap |-> -1, older |-> c, live |-> c, rows |-> <<>>, to |-> 0, why |-> why,
            mixed |-> FALSE]
  BY <1>4, <1>5
<1>9. -1 \in Int
  OBVIOUS
<1>7. p \in WPage /\ p.mode = "none"
  BY <1>8, <1>6, <1>9, WPageIs
<1> QED
  BY <1>1, <1>7 DEF WShown

LEMMA WNoPage == L!NoPage \in WPage /\ WShown(L!NoPage)
<1>3. PICK c : c = L!NoCursor
  OBVIOUS
<1>4. PICK n : n = [mode |-> "none", snap |-> -1, older |-> c, live |-> c, rows |-> <<>>, to |-> 0, why |-> "",
            mixed |-> FALSE]
  OBVIOUS
<1>5. n = L!NoPage
  BY <1>3, <1>4 DEF L!NoPage
<1>6. 0 \in WBlocks /\ <<>> \in Seq(Launched) /\ c \in WCursor /\ "" \in WWhys
  BY <1>3, WFacts, WCursorless DEF WBlocks, WWhys
<1>9. -1 \in Int
  OBVIOUS
<1>7. n \in WPage /\ n.mode = "none"
  BY <1>4, <1>6, <1>9, WPageIs
<1> QED
  BY <1>5, <1>7 DEF WShown

LEMMA WAsks ==
  ASSUME NEW fl, WOk(fl), L!HasRoom(fl), NEW mode \in WModes, NEW cursor \in WCursor
  PROVE  WOk(L!Asked(fl, mode, cursor))
<1> DEFINE r == [stage |-> "asked", mode |-> mode, cursor |-> cursor, snap |-> 0, why |-> "", body |-> [mode |-> "none"],
                 moved |-> FALSE, current |-> TRUE, view |-> <<>>, base |-> L!NoPage]
<1>1. PICK free : free = CHOOSE f \in Flights : fl[f].stage = "none"
  OBVIOUS
<1>2. free \in Flights
  BY <1>1 DEF L!HasRoom
<1>3. 0 \in WBlocks /\ <<>> \in Seq(Launched)
  BY WFacts DEF WBlocks
<1>4. r \in WAsk
  <2>1. PICK b : b = [mode |-> "none"]
    OBVIOUS
  <2>6. PICK n : n = L!NoPage
    OBVIOUS
  <2>7. n \in WPage
    BY <2>6, WNoPage
  <2>3. r = [stage |-> "asked", mode |-> mode, cursor |-> cursor, snap |-> 0, why |-> "", body |-> b,
             moved |-> FALSE, current |-> TRUE, view |-> <<>>, base |-> n]
    BY <2>1, <2>6
  <2>4. b \in WBody \cup {[mode |-> "none"]} /\ "asked" \in WStages
    BY <2>1 DEF WStages
  <2>5. "" \in WWhys
    BY DEF WWhys
  <2> QED
    BY <1>3, <2>3, <2>4, <2>5, <2>7 DEF WAsk
<1>5. r.stage = "asked"
  OBVIOUS
<1>6. WKeeps(r, fl[free])
  BY <1>5 DEF WKeeps
<1>7. L!Asked(fl, mode, cursor) = [fl EXCEPT ![free] = r]
  BY <1>1 DEF L!Asked
<1>8. WOk([fl EXCEPT ![free] = r])
  <2> HIDE DEF r
  <2>1. r \in WAsk \cup {L!None}
    BY <1>4
  <2> QED
    BY <1>2, <1>6, <2>1, WReplaced
<1> QED
  BY <1>7, <1>8

LEMMA WInit == L!Init => WInv
<1> SUFFICES ASSUME L!Init PROVE WInv
  OBVIOUS
<1>1. 0 \in WBlocks /\ "latest" \in WModes
  BY WFacts DEF WBlocks, WModes
<1>2. WShape
  BY <1>1, WNoPage, WallAssumption DEF L!Init, WShape
<1> DEFINE fl == [f \in Flights |-> L!None]
<1>3. fl \in WPolls /\ \A f \in Flights : fl[f].stage = "none"
  BY WNone DEF WPolls
<1>4. WOk(fl)
  BY <1>3 DEF WOk, WAnswer, WCompares
<1>5. L!HasRoom(fl)
  BY <1>3, WFacts DEF L!HasRoom
<1>6. WOk(L!Asked(fl, "latest", L!NoCursor))
  <2> HIDE DEF fl
  <2> QED
    BY <1>1, <1>4, <1>5, WCursorless, WAsks
<1> QED
  BY <1>2, <1>6, WNoPage DEF L!Init, WInv

\* What the object answers with is true.
LEMMA WRows ==
  ASSUME NEW s, NEW t
  PROVE  L!Rows(s, t) \in Seq(Launched) /\ L!Newest(L!Rows(s, t)) \in Seq(Launched)
BY WBetween, WOrder, WNewest DEF L!Rows

LEMMA WOlder ==
  ASSUME NEW all \in Seq(Launched), NEW s \in WBlocks
  PROVE  L!Older(all, s) \in WCursor
<1>1. CASE Len(all) > WallRows
  <2>1. PICK x : x = L!Newest(all)[1]
    OBVIOUS
  <2>2. x \in Nat
    BY <1>1, <2>1, WNewest, WFacts
  <2>3. L!Older(all, s) = [role |-> "history", snap |-> s, at |-> x]
    BY <1>1, <2>1 DEF L!Older
  <2> QED
    BY <2>2, <2>3 DEF WCursor
<1>2. CASE ~ (Len(all) > WallRows)
  BY <1>2, WCursorless DEF L!Older
<1> QED
  BY <1>1, <1>2

LEMMA WBodyIs ==
  ASSUME WShape, NEW m \in WModes, NEW c \in WCursor, NEW s \in WBlocks
  PROVE  L!Body(m, c, s) \in WBody /\ WTrue(L!Body(m, c, s))
<1>1. board.at \in WBlocks /\ board.at \in Nat /\ c.at \in Nat
  BY WFacts DEF WShape, WBlocks, WCursor
<1>2. PICK at : at = board.at
  OBVIOUS
<1>3. PICK all : all = L!Rows(s, at)
  OBVIOUS
<1>4. PICK before : before = L!InOrder({l \in L!Between(s, at) : l < c.at})
  OBVIOUS
<1>5. all \in Seq(Launched) /\ before \in Seq(Launched)
  BY <1>3, <1>4, WRows, WOrder, WBetween
<1>6. L!Newest(all) \in Seq(Launched) /\ L!Newest(before) \in Seq(Launched)
  BY <1>5, WNewest
<1>7. L!Older(all, s) \in WCursor /\ L!Older(before, s) \in WCursor
  BY <1>5, WOlder
<1>8. PICK live : live = L!Live(s)
  OBVIOUS
<1>9. live \in WCursor
  BY <1>1, <1>8 DEF L!Live, WCursor
<1>10. PICK b : b = L!Body(m, c, s)
  OBVIOUS
<1>11. CASE m = "latest"
  <2>1. b = [mode |-> m, snap |-> s, to |-> at, older |-> L!Older(all, s), live |-> live,
             rows |-> L!Newest(all), view |-> L!Newest(all)]
    BY <1>2, <1>3, <1>8, <1>10, <1>11 DEF L!Body
  <2>2. b \in WBody
    BY <1>1, <1>2, <1>6, <1>7, <1>9, <2>1 DEF WBody
  <2>3. WTrue(b)
    BY <1>3, <1>11, <2>1 DEF WTrue
  <2> QED
    BY <1>10, <2>2, <2>3
<1>12. CASE m = "before"
  <2>1. PICK rows : rows = L!Newest(before)
    OBVIOUS
  <2>2. b = [mode |-> m, snap |-> s, to |-> at, older |-> L!Older(before, s), live |-> L!NoCursor,
             rows |-> rows, view |-> rows]
    BY <1>2, <1>4, <1>10, <1>12, <2>1 DEF L!Body
  <2>3. b \in WBody
    BY <1>1, <1>2, <1>6, <1>7, WCursorless, <2>1, <2>2 DEF WBody
  <2>4. rows = L!Newest(L!InOrder(WUpTo(s, at, rows)))
    BY <1>1, <1>4, <2>1, WHistory
  <2>5. WTrue(b)
    BY <1>12, <2>2, <2>4 DEF WTrue
  <2> QED
    BY <1>10, <2>3, <2>5
<1>13. CASE m = "after"
  <2>1. PICK rows : rows = L!Rows(c.at, at)
    OBVIOUS
  <2>2. b = [mode |-> m, snap |-> s, to |-> at, older |-> L!NoCursor, live |-> live,
             rows |-> rows, view |-> L!Newest(all)]
    BY <1>2, <1>3, <1>8, <1>10, <1>13, <2>1 DEF L!Body
  <2>3. b \in WBody
    BY <1>1, <1>2, <1>6, <1>9, WCursorless, WRows, <2>1, <2>2 DEF WBody
  <2>4. WTrue(b)
    BY <1>3, <1>13, <2>2 DEF WTrue
  <2> QED
    BY <1>10, <2>3, <2>4
<1> QED
  BY <1>11, <1>12, <1>13 DEF WModes

LEMMA WGreatest ==
  ASSUME NEW G \in SUBSET WBlocks, G # {}
  PROVE  (CHOOSE b \in G : \A o \in G : o <= b) \in WBlocks
<1> DEFINE R == {LastBlock - b : b \in G}
<1>1. G \subseteq Int /\ \A b \in G : b <= LastBlock
  BY WFacts DEF WBlocks
<1>2. R \in SUBSET Nat /\ R # {}
  <2>1. \A b \in WBlocks : LastBlock - b \in Nat
    BY WFacts DEF WBlocks
  <2>2. \A b \in G : LastBlock - b \in Nat
    BY <2>1
  <2> QED
    BY <2>2
<1>3. PICK r \in R : \A q \in R : r <= q
  <2> HIDE DEF R
  <2> QED
    BY <1>2, LeastElement
<1>4. PICK b \in G : r = LastBlock - b
  BY <1>3
<1>5. \A o \in G : o <= b
  <2>1. ASSUME NEW o \in G PROVE o <= b
    <3>1. LastBlock - b <= LastBlock - o
      BY <1>3, <1>4
    <3> QED
      BY <1>1, <3>1, WFacts
  <2> QED
    BY <2>1
<1> QED
  BY <1>4, <1>5

-----------------------------------------------------------------------------
\* The steps.
LEMMA WRound == WInv /\ L!Round => WInv'
<1> SUFFICES ASSUME WInv, L!Round PROVE WInv'
  OBVIOUS
<1>1. PICK at \in board.at .. LastBlock, head \in L!Blocks : 
        LET gaps == {b \in Holes : board.at < b /\ b <= at}
        IN  board' = [board EXCEPT !.at = at, !.head = head,
                        !.hole = IF gaps = {} THEN @ ELSE CHOOSE b \in gaps : \A o \in gaps : o <= b]
  BY DEF L!Round
<1> DEFINE gaps == {b \in Holes : board.at < b /\ b <= at}
<1>2. PICK hole : hole = IF gaps = {} THEN board.hole ELSE CHOOSE b \in gaps : \A o \in gaps : o <= b
  OBVIOUS
<1>3. board.at \in WBlocks /\ board.hole \in WBlocks
  BY DEF WInv, WShape
<1>4. gaps \in SUBSET WBlocks
  BY WallAssumption DEF WBlocks
<1>5. hole \in WBlocks
  <2> HIDE DEF gaps
  <2> QED
    BY <1>2, <1>3, <1>4, WGreatest
<1>6. at \in WBlocks /\ head \in WBlocks
  BY <1>3, WFacts DEF WBlocks, L!Blocks
<1>7. board' = [board EXCEPT !.at = at, !.head = head, !.hole = hole]
  BY <1>1, <1>2
<1>8. WShape'
  BY <1>5, <1>6, <1>7 DEF WInv, WShape, L!Round
<1>9. WOk(polls)' /\ WShown(browser')
  <2>1. polls' = L!Moved /\ browser' = browser
    BY DEF L!Round
  <2> QED
    BY <2>1, WMoves DEF WInv
<1> QED
  BY <1>8, <1>9 DEF WInv

LEMMA WPrune == WInv /\ L!Prune => WInv'
<1> SUFFICES ASSUME WInv, L!Prune PROVE WInv'
  OBVIOUS
<1>1. board' = [board EXCEPT !.pruned = edition] /\ polls' = L!Moved /\ browser' = browser
      /\ reader' = reader /\ edition' = edition
  BY DEF L!Prune
<1>2. WShape'
  BY <1>1 DEF WInv, WShape
<1>3. WOk(polls)' /\ WShown(browser')
  BY <1>1, WMoves DEF WInv
<1> QED
  BY <1>2, <1>3 DEF WInv

LEMMA WPublish == WInv /\ (\E b \in Snaps : L!Publish(b)) => WInv'
<1> SUFFICES ASSUME WInv, NEW b \in Snaps, L!Publish(b) PROVE WInv'
  OBVIOUS
<1>1. b \in WBlocks
  BY WallAssumption DEF WBlocks
<1>2. edition' = b /\ board' = board /\ polls' = polls /\ browser' = browser /\ reader' = reader
  BY DEF L!Publish
<1> QED
  BY <1>1, <1>2 DEF WInv, WShape

\* The reader's flags.
LEMMA WClock ==
  ASSUME NEW r \in [paused : BOOLEAN, hidden : BOOLEAN, due : BOOLEAN], NEW b \in BOOLEAN
  PROVE  /\ [r EXCEPT !.due = b] \in [paused : BOOLEAN, hidden : BOOLEAN, due : BOOLEAN]
         /\ [r EXCEPT !.paused = b, !.due = FALSE] \in [paused : BOOLEAN, hidden : BOOLEAN, due : BOOLEAN]
         /\ [r EXCEPT !.hidden = b, !.due = FALSE] \in [paused : BOOLEAN, hidden : BOOLEAN, due : BOOLEAN]
         /\ [r EXCEPT !.hidden = b] \in [paused : BOOLEAN, hidden : BOOLEAN, due : BOOLEAN]
OBVIOUS

\* The object's reading.
LEMMA WBoundary == \A f \in Flights : WInv /\ L!ReadBoundary(f) => WInv'
<1> SUFFICES ASSUME NEW f \in Flights, WInv, L!ReadBoundary(f) PROVE WInv'
  OBVIOUS
<1>1. polls \in WPolls /\ WOk(polls) /\ edition \in WBlocks
  BY DEF WInv, WOk, WShape
<1>2. polls[f] \in WAsk /\ polls[f].stage = "asked"
  BY <1>1, WStage DEF L!ReadBoundary
<1>3. PICK r : r = [polls[f] EXCEPT !.stage = "boundary", !.snap = edition]
  OBVIOUS
<1>4. polls' = [polls EXCEPT ![f] = r]
  BY <1>1, <1>3 DEF L!ReadBoundary, WPolls
<1>5. r \in WAsk /\ r.stage = "boundary"
  BY <1>1, <1>2, <1>3 DEF WAsk, WStages
<1>6. polls' \in WPolls
  BY <1>1, <1>4, <1>5 DEF WPolls
<1>7. WOk(polls)'
  <2>1. ASSUME NEW g \in Flights
        PROVE  WAnswer(polls'[g]) /\ WCompares(polls'[g])
    <3>1. polls'[g] = polls[g] \/ polls'[g].stage = "boundary"
      BY <1>1, <1>4, <1>5 DEF WPolls
    <3> QED
      BY <1>1, <3>1 DEF WOk, WAnswer, WCompares
  <2> QED
    BY <1>1, <1>6, <2>1 DEF WOk
<1>8. board' = board /\ edition' = edition /\ browser' = browser /\ reader' = reader
  BY DEF L!ReadBoundary
<1> QED
  BY <1>7, <1>8 DEF WInv, WShape

LEMMA WRead == \A f \in Flights : WInv /\ L!ReadRows(f) => WInv'
<1> SUFFICES ASSUME NEW f \in Flights, WInv, L!ReadRows(f) PROVE WInv'
  OBVIOUS
<1>1. polls \in WPolls /\ WOk(polls) /\ WShape
  BY DEF WInv, WOk
<1>2. polls[f] \in WAsk /\ polls[f].stage = "boundary"
  BY <1>1, WStage DEF L!ReadRows
<1>3. PICK s : s = polls[f].snap
  OBVIOUS
<1>4. PICK why : why = L!Refusal(polls[f].mode, polls[f].cursor, s)
  OBVIOUS
<1>5. PICK none : none = [mode |-> "none"]
  OBVIOUS
<1>6. PICK body : body = IF why = "" THEN L!Body(polls[f].mode, polls[f].cursor, s) ELSE none
  OBVIOUS
<1>7. PICK r : r = [polls[f] EXCEPT !.stage = "read", !.why = why, !.body = body]
  OBVIOUS
<1>8. polls' = [polls EXCEPT ![f] = r]
  BY <1>1, <1>3, <1>4, <1>5, <1>6, <1>7 DEF L!ReadRows, WPolls
<1>9. polls[f].mode \in WModes /\ polls[f].cursor \in WCursor /\ s \in WBlocks
  BY <1>2, <1>3 DEF WAsk
<1>10. why \in WWhys
  BY <1>4 DEF L!Refusal, WWhys
<1>11. why = "" => body \in WBody /\ WTrue(body)
  BY <1>1, <1>6, <1>9, WBodyIs
<1>12. body \in WBody \cup {[mode |-> "none"]}
  BY <1>5, <1>6, <1>11
<1>13. r \in WAsk /\ r.stage = "read" /\ r.why = why /\ r.body = body
  BY <1>2, <1>7, <1>10, <1>12 DEF WAsk, WStages
<1>14. polls' \in WPolls
  BY <1>1, <1>8, <1>13 DEF WPolls
<1>15. WOk(polls)'
  <2>1. ASSUME NEW g \in Flights
        PROVE  WAnswer(polls'[g]) /\ WCompares(polls'[g])
    <3>1. polls'[g] = polls[g] \/ polls'[g] = r
      BY <1>1, <1>8 DEF WPolls
    <3> QED
      BY <1>1, <1>11, <1>13, <3>1 DEF WOk, WAnswer, WCompares
  <2> QED
    BY <1>1, <1>14, <2>1 DEF WOk
<1>16. board' \in [at : WBlocks, head : WBlocks, hole : WBlocks, pruned : WBlocks, bare : SUBSET Launched]
  <2>1. PICK left : left = board.bare \ L!Migrated(s)
    OBVIOUS
  <2>2. left \in SUBSET Launched
    BY <1>1, <2>1 DEF WShape
  <2>3. board' = board \/ board' = [board EXCEPT !.bare = left]
    BY <1>3, <2>1 DEF L!ReadRows
  <2> QED
    BY <1>1, <2>2, <2>3 DEF WShape
<1>17. edition' = edition /\ browser' = browser /\ reader' = reader
  BY DEF L!ReadRows
<1> QED
  BY <1>15, <1>16, <1>17 DEF WInv, WShape

\* The last of a request, and a page in its place.
LEMMA WEnds ==
  ASSUME WInv, NEW f \in Flights, NEW after \in WPage, WShown(after), L!Ends(f, after),
         UNCHANGED <<board, edition>>
  PROVE  WInv'
<1>1. browser' = after /\ board' = board /\ edition' = edition
  BY DEF L!Ends
<1>2. polls \in WPolls /\ WOk(polls)
  BY DEF WInv, WOk
<1>3. polls' = [polls EXCEPT ![f] = L!None]
  BY DEF L!Ends
<1>4. WOk(polls)'
  BY <1>2, <1>3, WGone, WReplaced
<1>7. reader' \in [paused : BOOLEAN, hidden : BOOLEAN, due : BOOLEAN]
  <2>1. PICK d : d = (reader.due \/ L!Polls(f, after.mode))
    OBVIOUS
  <2>2. d \in BOOLEAN /\ reader \in [paused : BOOLEAN, hidden : BOOLEAN, due : BOOLEAN]
    BY <2>1 DEF WInv, WShape
  <2>3. reader' = [reader EXCEPT !.due = d]
    BY <2>1 DEF L!Ends
  <2> QED
    BY <2>2, <2>3, WClock
<1> QED
  BY <1>1, <1>4, <1>7 DEF WInv, WShape

\* A new request after the ones before it were taken back.
LEMMA WRequests ==
  ASSUME WInv, NEW fl, WOk(fl), NEW mode \in WModes, NEW cursor \in WCursor,
         L!Request(fl, mode, cursor), UNCHANGED <<board, edition, browser>>
  PROVE  WInv'
<1>1. L!HasRoom(fl) /\ polls' = L!Asked(fl, mode, cursor) /\ reader' = [reader EXCEPT !.due = FALSE]
  BY DEF L!Request
<1>2. WOk(polls)'
  BY <1>1, WAsks
<1>3. reader' \in [paused : BOOLEAN, hidden : BOOLEAN, due : BOOLEAN]
  BY <1>1, WClock DEF WInv, WShape
<1> QED
  BY <1>2, <1>3 DEF WInv, WShape

LEMMA WResets ==
  ASSUME WInv, NEW f \in Flights, L!Resets(f), UNCHANGED <<board, edition>>
  PROVE  WInv'
<1>1. WOk(polls) /\ polls \in WPolls
  BY DEF WInv, WOk
<1>2. WOk([polls EXCEPT ![f] = L!None])
  BY <1>1, WGone, WReplaced
<1>3. PICK fl : fl = L!Disowned([polls EXCEPT ![f] = L!None])
  OBVIOUS
<1>4. WOk(fl)
  BY <1>2, <1>3, WDisowns
<1>5. L!Request(fl, "latest", L!NoCursor) /\ UNCHANGED browser
  BY <1>3 DEF L!Resets
<1>6. "latest" \in WModes
  BY DEF WModes
<1> QED
  BY <1>4, <1>5, <1>6, WCursorless, WRequests

LEMMA WUnanswered == ASSUME NEW f \in Flights, WInv, L!Unanswered(f) PROVE WInv'
<1>1. "network" \in WWhys
  BY DEF WWhys
<1>2. L!Failed("network") \in WPage /\ WShown(L!Failed("network"))
  BY <1>1, WFails
<1> QED
  BY <1>2, WEnds DEF L!Unanswered

LEMMA WArrive == ASSUME NEW f \in Flights, WInv, L!Arrive(f) PROVE WInv'
<1>1. polls \in WPolls /\ WOk(polls) /\ polls[f].stage = "read" /\ polls[f] \in WAsk
  BY WStage DEF WInv, WOk, L!Arrive
<1>3. UNCHANGED <<board, edition>>
  BY DEF L!Arrive
<1>4. polls[f].why \in WWhys
  BY <1>1 DEF WAsk
<1>5. CASE L!Outcome(f) = "" /\ polls' = [polls EXCEPT ![f].stage = "hashing"] /\ UNCHANGED <<browser, reader>>
  <2>1. PICK r : r = [polls[f] EXCEPT !.stage = "hashing"]
    OBVIOUS
  <2>2. polls' = [polls EXCEPT ![f] = r]
    BY <1>1, <1>5, <2>1 DEF WPolls
  <2>3. r \in WAsk /\ r.stage = "hashing" /\ r.body = polls[f].body
    BY <1>1, <2>1 DEF WAsk, WStages
  <2>4. polls[f].why = ""
    BY <1>5 DEF L!Outcome
  <2>5. r.body \in WBody /\ WTrue(r.body)
    BY <1>1, <2>3, <2>4 DEF WOk, WAnswer
  <2>6. polls' \in WPolls
    BY <1>1, <2>2, <2>3 DEF WPolls
  <2>7. ASSUME NEW g \in Flights
        PROVE  WAnswer(polls'[g]) /\ WCompares(polls'[g])
    <3>1. CASE g = f
      <4>1. polls'[g] = r
        BY <1>1, <2>2, <3>1 DEF WPolls
      <4> QED
        BY <2>3, <2>5, <3>1, <4>1 DEF WAnswer, WCompares
    <3>2. CASE g # f
      <4>1. polls'[g] = polls[g]
        BY <1>1, <2>2, <3>2 DEF WPolls
      <4> QED
        BY <1>1, <4>1 DEF WOk
    <3> QED
      BY <3>1, <3>2
  <2>8. WOk(polls)'
    BY <2>6, <2>7 DEF WOk
  <2> QED
    BY <1>3, <1>5, <2>8 DEF WInv, WShape
<1>6. CASE L!Outcome(f) = "reset_required" /\ L!Resets(f)
  BY <1>3, <1>6, WResets
<1>7. CASE L!Outcome(f) \notin {"", "reset_required"} /\ L!Ends(f, L!Failed(L!Outcome(f)))
  <2>1. L!Outcome(f) \in WWhys
    BY <1>4 DEF L!Outcome, WWhys
  <2>2. L!Failed(L!Outcome(f)) \in WPage /\ WShown(L!Failed(L!Outcome(f)))
    BY <2>1, WFails
  <2> QED
    BY <1>3, <1>7, <2>2, WEnds
<1> QED
  BY <1>5, <1>6, <1>7 DEF L!Arrive

LEMMA WJoined ==
  ASSUME NEW a \in Seq(Launched), NEW b \in Seq(Launched)
  PROVE  L!Newest(a \o b) \in Seq(Launched)
<1>1. PICK q : q = a \o b
  OBVIOUS
<1>2. q \in Seq(Launched)
  BY <1>1
<1> QED
  BY <1>1, <1>2, WNewest

LEMMA WHashed == ASSUME NEW f \in Flights, WInv, L!Hashed(f) PROVE WInv'
<1>1. polls \in WPolls /\ WOk(polls) /\ polls[f].stage = "hashing" /\ polls[f] \in WAsk /\ browser \in WPage
  BY WStage DEF WInv, WOk, WShape, L!Hashed
<1>2. PICK body : body = polls[f].body
  OBVIOUS
<1>3. body \in WBody /\ WTrue(body)
  BY <1>1, <1>2 DEF WOk, WAnswer
<1>5. UNCHANGED <<board, edition>>
  BY DEF L!Hashed
<1>6. CASE L!Resets(f)
  BY <1>5, <1>6, WResets
<1>7. CASE /\ ~L!Resets(f) /\ body.mode = "after" /\ browser.mode = "live" /\ browser.snap = body.snap
           /\ polls' = [polls EXCEPT ![f].stage = "comparing", ![f].view = L!Newest(browser.rows \o body.rows),
                                     ![f].base = browser]
           /\ UNCHANGED <<browser, reader>>
  <2>1. PICK view : view = L!Newest(browser.rows \o body.rows)
    OBVIOUS
  <2>2. browser.rows \in Seq(Launched) /\ body.rows \in Seq(Launched)
    BY <1>1, <1>3 DEF WPage, WBody
  <2>3. view \in Seq(Launched)
    BY <2>1, <2>2, WJoined
  <2>4. PICK r : r = [polls[f] EXCEPT !.stage = "comparing", !.view = view, !.base = browser]
    OBVIOUS
  <2>5. polls' = [polls EXCEPT ![f] = r]
    BY <1>1, <1>7, <2>1, <2>4 DEF WPolls
  <2>6. r \in WAsk /\ r.stage = "comparing" /\ r.body = body /\ r.view = view /\ r.base = browser
    BY <1>1, <1>2, <2>3, <2>4 DEF WAsk, WStages
  <2>7. polls' \in WPolls
    BY <1>1, <2>5, <2>6 DEF WPolls
  <2>8. WAnswer(r) /\ WCompares(r)
    BY <1>3, <1>7, <2>1, <2>6 DEF WAnswer, WCompares
  <2>9. ASSUME NEW g \in Flights
        PROVE  WAnswer(polls'[g]) /\ WCompares(polls'[g])
    <3>1. CASE g = f
      <4>1. polls'[g] = r
        BY <1>1, <2>5, <3>1 DEF WPolls
      <4> QED
        BY <2>8, <3>1, <4>1
    <3>2. CASE g # f
      <4>1. polls'[g] = polls[g]
        BY <1>1, <2>5, <3>2 DEF WPolls
      <4> QED
        BY <1>1, <3>2, <4>1 DEF WOk
    <3> QED
      BY <3>1, <3>2
  <2>10. WOk(polls)'
    BY <2>7, <2>9 DEF WOk
  <2> QED
    BY <1>5, <1>7, <2>10 DEF WInv, WShape
<1>8. CASE /\ body.mode # "after"
           /\ browser' = L!Shown(body) /\ polls' = [polls EXCEPT ![f] = L!None]
           /\ reader' = [reader EXCEPT !.paused = @ \/ body.mode = "before",
                                       !.due = @ \/ L!Polls(f, L!Shown(body).mode)]
  <2>1. PICK mode : mode = IF body.mode = "before" THEN "history" ELSE "live"
    OBVIOUS
  <2>2. PICK p : p = L!Shown(body)
    OBVIOUS
  <2>3. p = [mode |-> mode, snap |-> body.snap, older |-> body.older, live |-> body.live, rows |-> body.rows,
             to |-> body.to, why |-> "", mixed |-> FALSE]
    BY <2>1, <2>2 DEF L!Shown
  <2>4. /\ mode \in {"none", "live", "history"} /\ body.snap \in Int /\ body.older \in WCursor /\ body.live \in WCursor
        /\ body.rows \in Seq(Launched) /\ body.to \in WBlocks /\ "" \in WWhys
    BY <1>3, <2>1, WFacts DEF WBody, WBlocks, WWhys
  <2>5. p \in WPage
    BY <2>3, <2>4, WPageIs
  <2>6. WShown(p)
    BY <1>3, <1>8, <2>1, <2>3 DEF WShown, WTrue, WBody, WModes
  <2>7. WOk(polls)'
    BY <1>1, <1>8, WGone, WReplaced
  <2>10. reader' \in [paused : BOOLEAN, hidden : BOOLEAN, due : BOOLEAN]
    <3>1. PICK a : a = (reader.paused \/ body.mode = "before")
      OBVIOUS
    <3>2. PICK d : d = (reader.due \/ L!Polls(f, L!Shown(body).mode))
      OBVIOUS
    <3>3. a \in BOOLEAN /\ d \in BOOLEAN /\ reader \in [paused : BOOLEAN, hidden : BOOLEAN, due : BOOLEAN]
      BY <3>1, <3>2 DEF WInv, WShape
    <3>4. reader' = [reader EXCEPT !.paused = a, !.due = d]
      BY <1>8, <3>1, <3>2
    <3> QED
      BY <3>3, <3>4
  <2> QED
    BY <1>5, <1>8, <2>2, <2>5, <2>6, <2>7, <2>10 DEF WInv, WShape
<1> QED
  BY <1>2, <1>6, <1>7, <1>8 DEF L!Hashed

LEMMA WCompared == ASSUME NEW f \in Flights, WInv, L!Compared(f) PROVE WInv'
<1>1. polls \in WPolls /\ WOk(polls) /\ polls[f].stage = "comparing" /\ polls[f] \in WAsk /\ browser \in WPage
  BY WStage DEF WInv, WOk, WShape, L!Compared
<1>2. PICK body : body = polls[f].body
  OBVIOUS
<1>3. body \in WBody /\ WTrue(body) /\ WCompares(polls[f])
  BY <1>1, <1>2 DEF WOk, WAnswer
<1>5. UNCHANGED <<board, edition>>
  BY DEF L!Compared
<1>6. CASE polls[f].view = body.view
  <2>1. PICK rows : rows = L!Newest(browser.rows \o body.rows)
    OBVIOUS
  <2>2. PICK base : base = polls[f].base
    OBVIOUS
  <2>3. PICK p : p = L!Appended(body, base)
    OBVIOUS
  <2>4. PICK mixed : mixed = (browser # base)
    OBVIOUS
  <2>5. p = [browser EXCEPT !.rows = rows, !.live = body.live, !.to = body.to, !.why = "", !.mixed = mixed]
    BY <2>1, <2>3, <2>4 DEF L!Appended
  <2>6. p = [mode |-> browser.mode, snap |-> browser.snap, older |-> browser.older, live |-> body.live, rows |-> rows,
             to |-> body.to, why |-> "", mixed |-> mixed]
    BY <1>1, <2>5 DEF WPage
  <2>7. browser.rows \in Seq(Launched) /\ body.rows \in Seq(Launched) /\ body.live \in WCursor /\ body.to \in WBlocks
        /\ browser.mode \in {"none", "live", "history"} /\ browser.snap \in Int /\ browser.older \in WCursor
    BY <1>1, <1>3 DEF WPage, WBody
  <2>8. rows \in Seq(Launched) /\ "" \in WWhys /\ mixed \in BOOLEAN
    BY <2>1, <2>4, <2>7, WJoined DEF WWhys
  <2>9. p \in WPage
    BY <2>6, <2>7, <2>8, WPageIs
  <2>10. ASSUME ~mixed
         PROVE  browser.mode = "live" /\ rows = L!Newest(L!Rows(browser.snap, body.to))
    <3>1. browser = base /\ body.mode = "after" /\ polls[f].view = L!Newest(base.rows \o body.rows)
          /\ base.mode = "live" /\ base.snap = body.snap
      BY <1>1, <1>2, <1>3, <2>2, <2>4, <2>10 DEF WCompares
    <3>2. rows = body.view
      BY <1>6, <2>1, <3>1
    <3> QED
      BY <1>3, <3>1, <3>2 DEF WTrue
  <2>11. WShown(p)
    BY <2>6, <2>10 DEF WShown
  <2>12. L!Ends(f, p)
    BY <1>2, <1>6, <2>2, <2>3 DEF L!Compared
  <2> QED
    BY <1>5, <2>9, <2>11, <2>12, WEnds
<1>7. CASE polls[f].view # body.view
  <2>1. "invalid" \in WWhys
    BY DEF WWhys
  <2>2. L!Failed("invalid") \in WPage /\ WShown(L!Failed("invalid"))
    BY <2>1, WFails
  <2>3. L!Ends(f, L!Failed("invalid"))
    BY <1>2, <1>7 DEF L!Compared
  <2> QED
    BY <1>5, <2>2, <2>3, WEnds
<1> QED
  BY <1>6, <1>7

LEMMA WPoll == WInv /\ L!Poll => WInv'
<1> SUFFICES ASSUME WInv, L!Poll PROVE WInv'
  OBVIOUS
<1>1. PICK reading \in BOOLEAN :
        L!Request(L!Cancelled(reading), "after", browser.live) \/ L!Request(L!Cancelled(reading), "latest", L!NoCursor)
  BY DEF L!Poll
<1>2. PICK fl : fl = L!Cancelled(reading)
  OBVIOUS
<1>3. WOk(fl)
  BY <1>2, WCancels DEF WInv
<1>4. "after" \in WModes /\ "latest" \in WModes /\ browser.live \in WCursor
  BY DEF WModes, WInv, WShape, WPage
<1>5. UNCHANGED <<board, edition, browser>>
  BY DEF L!Poll
<1>6. L!Request(fl, "after", browser.live) \/ L!Request(fl, "latest", L!NoCursor)
  BY <1>1, <1>2
<1> QED
  BY <1>3, <1>4, <1>5, <1>6, WCursorless, WRequests

\* A request after a click, with what the click leaves of the page.
LEMMA WAsksAgain ==
  ASSUME WInv, NEW mode \in WModes, NEW cursor \in WCursor,
         \E reading \in BOOLEAN :
           L!HasRoom(L!Cancelled(reading)) /\ polls' = L!Asked(L!Cancelled(reading), mode, cursor),
         UNCHANGED <<board, edition>>, browser' \in {browser, L!Forgotten},
         reader' \in [paused : BOOLEAN, hidden : BOOLEAN, due : BOOLEAN]
  PROVE  WInv'
<1>1. PICK reading \in BOOLEAN : L!HasRoom(L!Cancelled(reading)) /\ polls' = L!Asked(L!Cancelled(reading), mode, cursor)
  OBVIOUS
<1>2. PICK fl : fl = L!Cancelled(reading)
  OBVIOUS
<1>3. WOk(fl) /\ browser \in WPage /\ WShown(browser)
  BY <1>2, WCancels DEF WInv, WShape
<1>4. WOk(polls)'
  BY <1>1, <1>2, <1>3, WAsks
<1>5. browser' \in WPage /\ WShown(browser')
  BY <1>3, WForgets
<1> QED
  BY <1>4, <1>5 DEF WInv, WShape

LEMMA WStops ==
  ASSUME WInv, \E reading \in BOOLEAN : polls' = L!Cancelled(reading), UNCHANGED <<board, edition, browser>>,
         reader' \in [paused : BOOLEAN, hidden : BOOLEAN, due : BOOLEAN]
  PROVE  WInv'
<1>1. WOk(polls)'
  BY WCancels DEF WInv
<1> QED
  BY <1>1 DEF WInv, WShape

LEMMA WNewestAsked ==
  ASSUME WInv, NEW clicked \in [paused : BOOLEAN, hidden : BOOLEAN, due : BOOLEAN], L!AskNewest(clicked),
         UNCHANGED <<board, edition>>
  PROVE  WInv'
<1>1. reader' \in [paused : BOOLEAN, hidden : BOOLEAN, due : BOOLEAN]
  BY WClock DEF L!AskNewest
<1>2. "latest" \in WModes
  BY DEF WModes
<1> QED
  BY <1>1, <1>2, WCursorless, WAsksAgain DEF L!AskNewest

LEMMA WClicks == WInv /\ L!Clicks => WInv'
<1> SUFFICES ASSUME WInv, L!Clicks PROVE WInv'
  OBVIOUS
<1>1. /\ reader \in [paused : BOOLEAN, hidden : BOOLEAN, due : BOOLEAN]
      /\ [reader EXCEPT !.paused = FALSE] \in [paused : BOOLEAN, hidden : BOOLEAN, due : BOOLEAN]
  BY DEF WInv, WShape
<1>2. CASE L!Pause
  <2>1. reader' = [reader EXCEPT !.paused = TRUE, !.due = FALSE] /\ UNCHANGED <<board, edition, browser>>
        /\ \E reading \in BOOLEAN : polls' = L!Cancelled(reading)
    BY <1>2 DEF L!Pause
  <2>2. reader' \in [paused : BOOLEAN, hidden : BOOLEAN, due : BOOLEAN]
    BY <1>1, <2>1, WClock
  <2> QED
    BY <2>1, <2>2, WStops
<1>3. CASE L!Hide
  <2>1. reader' = [reader EXCEPT !.hidden = TRUE, !.due = FALSE] /\ UNCHANGED <<board, edition, browser>>
        /\ \E reading \in BOOLEAN : polls' = L!Cancelled(reading)
    BY <1>3 DEF L!Hide
  <2>2. reader' \in [paused : BOOLEAN, hidden : BOOLEAN, due : BOOLEAN]
    BY <1>1, <2>1, WClock
  <2> QED
    BY <2>1, <2>2, WStops
<1>4. CASE L!Resume
  BY <1>1, <1>4, WNewestAsked DEF L!Resume
<1>5. CASE L!Retry
  BY <1>1, <1>5, WNewestAsked DEF L!Retry
<1>6. CASE L!Show
  <2>1. CASE reader.paused
    <3>1. reader' = [reader EXCEPT !.hidden = FALSE] /\ UNCHANGED <<board, edition, polls, browser>>
      BY <1>6, <2>1 DEF L!Show
    <3> QED
      BY <1>1, <3>1, WClock DEF WInv, WShape
  <2>2. CASE ~reader.paused
    <3>1. L!AskNewest([reader EXCEPT !.hidden = FALSE]) /\ UNCHANGED <<board, edition>>
      BY <1>6, <2>2 DEF L!Show
    <3> QED
      BY <1>1, <3>1, WClock, WNewestAsked
  <2> QED
    BY <2>1, <2>2
<1>7. CASE L!LoadOlder
  <2>1. reader' = [reader EXCEPT !.paused = TRUE, !.due = FALSE] /\ UNCHANGED <<board, edition, browser>>
    BY <1>7 DEF L!LoadOlder
  <2>2. "before" \in WModes /\ browser.older \in WCursor
    BY DEF WModes, WInv, WShape, WPage
  <2>3. reader' \in [paused : BOOLEAN, hidden : BOOLEAN, due : BOOLEAN]
    BY <1>1, <2>1, WClock
  <2> QED
    BY <1>7, <2>1, <2>2, <2>3, WAsksAgain DEF L!LoadOlder
<1> QED
  BY <1>2, <1>3, <1>4, <1>5, <1>6, <1>7 DEF L!Clicks

LEMMA WStep == WInv /\ [L!Next]_(L!vars) => WInv'
<1> SUFFICES ASSUME WInv, [L!Next]_(L!vars) PROVE WInv'
  OBVIOUS
<1>1. CASE UNCHANGED L!vars
  BY <1>1 DEF L!vars, WInv, WShape
<1>2. ASSUME NEW f \in Flights, L!Serves(f) \/ L!Accepts(f) \/ L!Unanswered(f) PROVE WInv'
  BY <1>2, WBoundary, WRead, WArrive, WHashed, WCompared, WUnanswered DEF L!Serves, L!Accepts
<1> QED
  BY <1>1, <1>2, WRound, WPrune, WPublish, WPoll, WClicks DEF L!Next

LEMMA WType == WInv => L!TypeOK /\ ShownIsWall
<1> SUFFICES ASSUME WInv PROVE L!TypeOK /\ ShownIsWall
  OBVIOUS
<1>1. \A f \in Flights : polls[f].stage \in {"none", "asked", "boundary", "read", "cut", "hashing", "comparing"}
  BY WStage DEF WInv, WOk, WStages
<1>2. L!TypeOK
  BY <1>1 DEF L!TypeOK, L!Blocks, WInv, WShape, WPage, WBlocks
<1>3. ShownIsWall
  BY DEF WInv, WShown, WUpTo, ShownIsWall, L!ShownIsWall
<1> QED
  BY <1>2, <1>3

\* A live page is the newest rows of the wall up to the block it names, none missing and none twice, and a page
\* of history is a run of rows without a hole, for any chain, any snapshots, any size of a page and any number
\* of requests that overtake each other; except while it shows a delta that was compared with another page.
THEOREM ShownIsWallAlways == L!Spec => [](L!TypeOK /\ ShownIsWall)
<1>1. L!Init => WInv
  BY WInit
<1>2. WInv /\ [L!Next]_(L!vars) => WInv'
  BY WStep
<1>3. WInv => L!TypeOK /\ ShownIsWall
  BY WType
<1> QED
  BY <1>1, <1>2, <1>3, PTL DEF L!Spec

-----------------------------------------------------------------------------
(* Collection: the report on all launches, and the guard.  The pages of    *)
(* its two readings begin and end apart, so what one reading leaves out    *)
(* the other finds.                                                        *)

\* Where a page begins, of the layout whose first page is w blocks long.
KStart(f, w, s) == s = f \/ \E k \in Nat : s = f + w + k * K!Size

\* The pages of the layout that begins with w blocks, for blocks f to t.
KPage(f, t, w, s, e) ==
  /\ KStart(f, w, s)
  /\ LET last == s + (IF s = f THEN w ELSE K!Size) - 1 IN e = IF last < t THEN last ELSE t

LEMMA KSizes ==
  /\ K!Size \in Nat /\ K!Shift \in Nat /\ K!Overlap \in Nat
  /\ 1 <= K!Shift /\ K!Shift < K!Size /\ K!Overlap = K!Size - K!Shift /\ K!Shift <= K!Overlap
<1>1. PageBlocks \in Nat /\ PageBlocks >= 4
  BY CollectionAssumption
<1>2. PageBlocks \div 2 \in Nat /\ PageBlocks \div 2 >= 2
  BY <1>1
<1>3. K!Size \in Nat /\ K!Size >= 2
  BY <1>2 DEF K!Size
<1>4. K!Size \div 2 \in Nat /\ 1 <= K!Size \div 2 /\ 2 * (K!Size \div 2) <= K!Size
  BY <1>3
<1>5. K!Shift = K!Size \div 2
  BY <1>4 DEF K!Shift
<1> QED
  BY <1>3, <1>4, <1>5 DEF K!Overlap

\* Multiples of a number.
LEMMA KTimes ==
  ASSUME NEW z \in Nat, NEW j \in Nat, NEW k \in Nat
  PROVE  /\ j * z \in Nat /\ (j + 1) * z = j * z + z
         /\ j <= k => j * z <= k * z
         /\ j > k => j * z >= k * z + z
<1>1. ASSUME NEW i \in Nat, NEW d \in Nat
      PROVE  (i + d) * z = i * z + d * z /\ i * z \in Nat /\ d * z \in Nat
  OBVIOUS
<1>2. ASSUME NEW d \in Nat, d >= 1 PROVE d * z >= z
  <2>1. d - 1 \in Nat
    BY <1>2
  <2>2. ((d - 1) + 1) * z = (d - 1) * z + 1 * z /\ (d - 1) * z \in Nat
    BY <1>1, <2>1
  <2> QED
    BY <2>2
<1>3. CASE j <= k
  <2>1. k - j \in Nat /\ j + (k - j) = k
    BY <1>3
  <2>2. k * z = j * z + (k - j) * z /\ (k - j) * z \in Nat
    BY <1>1, <2>1
  <2> QED
    BY <1>1, <1>3, <2>2
<1>4. CASE j > k
  <2>1. j - k \in Nat /\ j - k >= 1 /\ k + (j - k) = j
    BY <1>4
  <2>2. j * z = k * z + (j - k) * z /\ (j - k) * z >= z
    BY <1>1, <1>2, <2>1
  <2> QED
    BY <1>1, <1>4, <2>2
<1> QED
  BY <1>3, <1>4

\* A block in a page of each layout: the pages begin apart, unless both begin with the window, and end apart, unless
\* both end with it; and the block is close to the beginning of one.
LEMMA KLayouts ==
  ASSUME NEW f \in Int, NEW t \in Int, NEW b \in Int, NEW s \in Int, NEW e \in Int, NEW u \in Int, NEW v \in Int,
         KPage(f, t, K!Size, s, e), KPage(f, t, K!Shift, u, v), s <= b, b <= e, u <= b, b <= v
  PROVE  /\ s = u => s = f
         /\ e = v => e = t
         /\ b < s + K!Overlap \/ b < u + K!Overlap
         /\ f <= s /\ e <= t /\ f <= u /\ v <= t
<1>1. /\ K!Size \in Nat /\ K!Shift \in Nat /\ K!Overlap \in Nat
      /\ 1 <= K!Shift /\ K!Shift < K!Size /\ K!Overlap = K!Size - K!Shift /\ K!Shift <= K!Overlap
  BY KSizes
<1>2. PICK k \in Nat : s = f + k * K!Size
  <2>1. CASE s = f
    <3>1. 0 * K!Size = 0
      BY <1>1
    <3> QED
      BY <2>1, <3>1
  <2>2. CASE s # f
    <3>1. PICK j \in Nat : s = f + K!Size + j * K!Size
      BY <2>2 DEF KPage, KStart
    <3>2. j * K!Size \in Nat /\ (j + 1) * K!Size = j * K!Size + K!Size /\ j + 1 \in Nat
      BY <1>1, KTimes
    <3>3. s = f + (j + 1) * K!Size
      BY <1>1, <3>1, <3>2
    <3> QED
      BY <3>2, <3>3
  <2> QED
    BY <2>1, <2>2
<1>3. k * K!Size \in Nat
  BY <1>1, KTimes
<1>4. e <= s + K!Size - 1 /\ e <= t /\ (e = s + K!Size - 1 \/ e = t) /\ v <= t
  BY <1>1 DEF KPage
<1>5. CASE u = f
  <2>1. v <= f + K!Shift - 1 /\ (v = f + K!Shift - 1 \/ v = t)
    BY <1>1, <1>5 DEF KPage
  <2>2. b < u + K!Overlap /\ (e = v => e = t)
    BY <1>1, <1>2, <1>3, <1>4, <1>5, <2>1
  <2> QED
    BY <1>1, <1>2, <1>3, <1>4, <1>5, <2>2
<1>6. CASE u # f
  <2>1. PICK j \in Nat : u = f + K!Shift + j * K!Size
    BY <1>6 DEF KPage, KStart
  <2>2. v <= u + K!Size - 1 /\ (v = u + K!Size - 1 \/ v = t)
    BY <1>1, <1>6 DEF KPage
  <2>3. /\ j * K!Size \in Nat
        /\ j <= k => j * K!Size <= k * K!Size
        /\ j > k => j * K!Size >= k * K!Size + K!Size
        /\ k <= j => k * K!Size <= j * K!Size
        /\ k > j => k * K!Size >= j * K!Size + K!Size
    BY <1>1, KTimes
  <2> DEFINE p == k * K!Size  q == j * K!Size
  <2>4. /\ p \in Nat /\ q \in Nat /\ s = f + p /\ u = f + K!Shift + q
        /\ p <= q \/ p >= q + K!Size
    BY <1>2, <1>3, <2>1, <2>3
  <2> HIDE DEF p, q
  <2>5. s # u
    BY <1>1, <2>4
  <2>6. e = v => e = t
    BY <1>1, <1>4, <2>2, <2>4
  <2>7. b < s + K!Overlap \/ b < u + K!Overlap
    BY <1>1, <1>4, <2>2, <2>4
  <2> QED
    BY <1>1, <1>4, <2>4, <2>5, <2>6, <2>7
<1> QED
  BY <1>5, <1>6

LEMMA KCard == \A B : K!Cardinality(B) = Cardinality(B)
BY DEF K!Cardinality, Cardinality

\* The chain, as the endpoint has it.
KChain == quirk \in K!Rules /\ placed \in [ToCollect -> K!Blocks] /\ K!Ordered(placed)

\* The window of the report.
KWindow == <<report.from, report.to, report.state>> \in WindowsAsked

LEMMA KWindowIs ==
  ASSUME KWindow
  PROVE  /\ report.from \in K!Blocks /\ report.to \in K!Blocks /\ report.state \in K!Blocks
         /\ report.from <= report.to /\ report.to <= report.state
         /\ ChainEnd \in Nat /\ K!Blocks = 0 .. ChainEnd
<1> DEFINE w == <<report.from, report.to, report.state>>
<1>1. w \in (0 .. ChainEnd) \X (0 .. ChainEnd) \X (0 .. ChainEnd) /\ w[1] <= w[2] /\ w[2] <= w[3] /\ ChainEnd \in Nat
  BY CollectionAssumption DEF KWindow
<1> QED
  BY <1>1 DEF K!Blocks

\* A page that leaves a launch out though its block is close to where the page begins holds too many before it.
LEMMA KTruncated ==
  ASSUME KChain, KWindow, NEW l \in K!InWindow, NEW x \in Int, NEW y \in Int,
         report.from <= x, x <= placed[l], placed[l] <= y, placed[l] < x + K!Overlap,
         ~ (K!Cardinality({m \in K!LaunchedIn(K!Branch, x, y) : m < l}) < AnswerLimit)
  PROVE  ~ (K!Cardinality({m \in K!InWindow : placed[m] \in x .. (x + K!Overlap - 1)}) <= AnswerLimit)
<1> DEFINE before == {m \in K!LaunchedIn(K!Branch, x, y) : m < l}
           near == {m \in K!InWindow : placed[m] \in x .. (x + K!Overlap - 1)}
<1>1. /\ ToCollect \subseteq Nat /\ IsFiniteSet(ToCollect) /\ AnswerLimit \in Nat
  BY CollectionAssumption
<1>2. /\ \A m \in ToCollect : placed[m] \in K!Blocks
      /\ \A m, n \in ToCollect : m < n => placed[m] <= placed[n]
  BY DEF KChain, K!Ordered
<1>3. K!Blocks \subseteq Int /\ report.from \in Int /\ report.to \in Int /\ K!Overlap \in Nat
  BY KWindowIs, KSizes
<1>4. /\ \A m : m \in K!InWindow <=> m \in K!Chain(K!Branch) /\ placed[m] \in report.from .. report.to
      /\ \A m : m \in K!LaunchedIn(K!Branch, x, y) <=> m \in K!Chain(K!Branch) /\ placed[m] \in x .. y
      /\ \A m : m \in K!Chain(K!Branch) => m \in ToCollect
  BY DEF K!InWindow, K!LaunchedIn, K!Chain
<1>5. l \in ToCollect /\ placed[l] \in Int /\ placed[l] <= report.to
  BY <1>2, <1>3, <1>4
<1>6. ASSUME NEW m \in before PROVE m \in near /\ m # l
  <2>1. m \in ToCollect /\ m < l /\ m \in K!Chain(K!Branch) /\ placed[m] \in x .. y
    BY <1>4
  <2>2. placed[m] <= placed[l] /\ placed[m] \in Int
    BY <1>2, <1>3, <1>5, <2>1
  <2>3. placed[m] \in report.from .. report.to /\ placed[m] \in x .. (x + K!Overlap - 1)
    BY <1>3, <1>5, <2>1, <2>2
  <2>4. m # l
    BY <1>1, <1>5, <2>1
  <2> QED
    BY <1>4, <2>1, <2>3, <2>4
<1>7. l \in near
  BY <1>3, <1>5
<1>8. IsFiniteSet(near) /\ IsFiniteSet(before) /\ Cardinality(before) \in Nat /\ Cardinality(near) \in Nat
  <2>1. near \subseteq ToCollect /\ before \subseteq ToCollect
    BY <1>4
  <2> QED
    BY <1>1, <2>1, FS_Subset, FS_CardinalityType
<1>9. Cardinality(before \cup {l}) = Cardinality(before) + 1
  <2>1. l \notin before
    BY <1>6
  <2> QED
    BY <1>8, <2>1, FS_AddElement
<1>10. Cardinality(before \cup {l}) <= Cardinality(near)
  <2>1. before \cup {l} \subseteq near
    BY <1>6, <1>7
  <2> QED
    BY <1>8, <2>1, FS_Subset
<1>11. ~ (Cardinality(before) < AnswerLimit)
  BY KCard
<1> HIDE DEF before, near
<1>12. ~ (Cardinality(near) <= AnswerLimit)
  BY <1>1, <1>8, <1>9, <1>10, <1>11
<1> QED
  BY <1>12, KCard DEF near

\* What two readings in different pages both leave out was not to be found.
LEMMA KFound ==
  ASSUME KChain, KWindow, NEW l \in K!InWindow, K!Findable(l), NEW logs,
         NEW s \in Int, NEW e \in Int, NEW u \in Int, NEW v \in Int,
         KPage(report.from, report.to, K!Size, s, e), KPage(report.from, report.to, K!Shift, u, v),
         s <= placed[l], placed[l] <= e, u <= placed[l], placed[l] <= v,
         K!PageIn(K!Branch, s, e) \subseteq logs, K!PageIn(K!Branch, u, v) \subseteq logs
  PROVE  <<l, K!Hash(placed[l], K!Branch)>> \in logs
<1> SUFFICES ASSUME <<l, K!Hash(placed[l], K!Branch)>> \notin logs PROVE FALSE
  OBVIOUS
<1> DEFINE b == placed[l]
<1>1. K!Blocks \subseteq Int /\ report.from \in Int /\ report.to \in Int /\ report.from >= 0 /\ K!Overlap \in Nat
      /\ ChainEnd \in Nat /\ K!Blocks = 0 .. ChainEnd
  BY KWindowIs, KSizes
<1>2. l \in K!Chain(K!Branch) /\ b \in report.from .. report.to /\ l \in ToCollect /\ b \in K!Blocks /\ b \in Int
  <2>1. l \in K!LaunchedIn(K!Branch, report.from, report.to)
    BY DEF K!InWindow
  <2>2. l \in K!Chain(K!Branch) /\ b \in report.from .. report.to
    BY <2>1 DEF K!LaunchedIn
  <2>3. l \in ToCollect
    BY <2>2 DEF K!Chain
  <2>4. b \in K!Blocks
    BY <2>3 DEF KChain
  <2> QED
    BY <1>1, <2>2, <2>3, <2>4
<1>3. /\ s = u => s = report.from
      /\ e = v => e = report.to
      /\ b < s + K!Overlap \/ b < u + K!Overlap
      /\ report.from <= s /\ report.from <= u
  BY <1>1, <1>2, KLayouts, SMTT(30)
<1>4. ASSUME NEW x \in Int, NEW y \in Int, x <= b, b <= y, K!PageIn(K!Branch, x, y) \subseteq logs
      PROVE  l \in K!LaunchedIn(K!Branch, x, y) /\ l \notin K!Kept(K!LaunchedIn(K!Branch, x, y), x, y)
  <2>1. l \in K!LaunchedIn(K!Branch, x, y)
    BY <1>2, <1>4 DEF K!LaunchedIn
  <2> QED
    BY <1>4, <2>1 DEF K!PageIn
<1>5. /\ l \in K!LaunchedIn(K!Branch, s, e) /\ l \notin K!Kept(K!LaunchedIn(K!Branch, s, e), s, e)
      /\ l \in K!LaunchedIn(K!Branch, u, v) /\ l \notin K!Kept(K!LaunchedIn(K!Branch, u, v), u, v)
  BY <1>4
<1>6. quirk \in {"none", "truncates", "drops first", "drops last"}
  BY DEF KChain, K!Rules
<1>7. CASE quirk = "none"
  BY <1>5, <1>7 DEF K!Kept
<1>8. CASE quirk = "drops first"
  <2>1. b = s /\ b = u
    BY <1>5, <1>8 DEF K!Kept
  <2>2. b # report.from
    BY <1>8 DEF K!Findable
  <2> QED
    BY <1>3, <2>1, <2>2
<1>9. CASE quirk = "drops last"
  <2>1. b = e /\ b = v
    BY <1>5, <1>9 DEF K!Kept
  <2>2. b # report.to
    BY <1>9 DEF K!Findable
  <2> QED
    BY <1>3, <2>1, <2>2
<1>10. CASE quirk = "truncates"
  <2>1. ASSUME NEW x \in Int, NEW y \in Int, report.from <= x, x <= b, b <= y, b < x + K!Overlap,
               l \in K!LaunchedIn(K!Branch, x, y), l \notin K!Kept(K!LaunchedIn(K!Branch, x, y), x, y)
        PROVE  FALSE
    <3>1. ~ (K!Cardinality({m \in K!LaunchedIn(K!Branch, x, y) : m < l}) < AnswerLimit)
      BY <1>10, <2>1 DEF K!Kept
    <3>2. ~ (K!Cardinality({m \in K!InWindow : placed[m] \in x .. (x + K!Overlap - 1)}) <= AnswerLimit)
      BY <2>1, <3>1, KTruncated
    <3>3. x \in K!Blocks
      BY <1>1, <1>2, <2>1
    <3> QED
      BY <1>10, <3>2, <3>3 DEF K!Findable
  <2> QED
    BY <1>3, <1>5, <2>1
<1> QED
  BY <1>6, <1>7, <1>8, <1>9, <1>10

-----------------------------------------------------------------------------
(* The dates of a report: bisection finds the first block at or after a    *)
(* time, so the midnights a block has passed are those before its time.    *)

\* The first block of a range that is at or after a time, and what bisection makes of a range.
KFirstIn(m, lo, hi, c) ==
  c \in lo .. hi /\ (c = hi \/ TimeOf[c] >= m) /\ \A d \in lo .. hi : d < c => TimeOf[d] < m
KFirst(m, lo, hi) == IF lo >= hi THEN lo ELSE CHOOSE c \in lo .. hi : KFirstIn(m, lo, hi, c)

LEMMA KTimesGrow ==
  /\ ChainEnd \in Nat /\ K!Blocks = 0 .. ChainEnd
  /\ \A b \in K!Blocks : TimeOf[b] \in Nat
  /\ \A b, c \in K!Blocks : b <= c => TimeOf[b] <= TimeOf[c]
BY CollectionAssumption DEF K!Blocks

LEMMA KFirstIs ==
  ASSUME NEW m \in Nat, NEW lo \in K!Blocks, NEW hi \in K!Blocks, lo <= hi
  PROVE  /\ KFirstIn(m, lo, hi, KFirst(m, lo, hi))
         /\ \A c : KFirstIn(m, lo, hi, c) => c = KFirst(m, lo, hi)
<1>1. /\ K!Blocks = 0 .. ChainEnd /\ ChainEnd \in Nat /\ \A b \in K!Blocks : TimeOf[b] \in Nat
  BY KTimesGrow
<1>2. \A b \in lo .. hi : b \in K!Blocks /\ b \in Nat
  BY <1>1
<1> DEFINE late == {c \in lo .. hi : c = hi \/ TimeOf[c] >= m}
<1>3. PICK c \in late : \A d \in late : c <= d
  <2>1. hi \in late /\ late \subseteq Nat
    BY <1>1, <1>2
  <2> QED
    BY <2>1, LeastElement
<1>4. KFirstIn(m, lo, hi, c)
  <2>1. ASSUME NEW d \in lo .. hi, d < c PROVE TimeOf[d] < m
    <3>1. d \notin late /\ TimeOf[d] \in Nat
      BY <1>1, <1>2, <1>3, <2>1
    <3> QED
      BY <3>1, <2>1
  <2> QED
    BY <1>3, <2>1 DEF KFirstIn
<1>5. ASSUME NEW x, NEW y, KFirstIn(m, lo, hi, x), KFirstIn(m, lo, hi, y), x < y PROVE FALSE
  <2>1. x \in lo .. hi /\ y \in lo .. hi /\ TimeOf[x] < m /\ TimeOf[x] \in Nat /\ (x = hi \/ TimeOf[x] >= m)
    BY <1>1, <1>2, <1>5 DEF KFirstIn
  <2> QED
    BY <1>1, <1>5, <2>1
<1>6. ASSUME NEW x, NEW y, KFirstIn(m, lo, hi, x), KFirstIn(m, lo, hi, y) PROVE x = y
  <2>1. x \in Nat /\ y \in Nat
    BY <1>2, <1>6 DEF KFirstIn
  <2>2. ~ (x < y) /\ ~ (y < x)
    BY <1>5, <1>6
  <2> QED
    BY <2>1, <2>2
<1>7. KFirstIn(m, lo, hi, KFirst(m, lo, hi))
  <2>1. CASE lo >= hi
    <3>1. c = lo
      BY <1>1, <1>3, <2>1
    <3> QED
      BY <1>4, <2>1, <3>1 DEF KFirst
  <2>2. CASE ~ (lo >= hi)
    <3>1. c \in lo .. hi
      BY <1>3
    <3> QED
      BY <1>4, <2>2, <3>1 DEF KFirst
  <2> QED
    BY <2>1, <2>2
<1> QED
  BY <1>6, <1>7

\* Halving the range keeps its first block.
LEMMA KHalves ==
  ASSUME NEW m \in Nat, NEW lo \in K!Blocks, NEW hi \in K!Blocks, lo < hi
  PROVE  LET mid == (lo + hi) \div 2
         IN  /\ mid \in K!Blocks /\ mid + 1 \in K!Blocks /\ lo <= mid /\ mid < hi
             /\ KFirst(m, lo, hi) = IF TimeOf[mid] < m THEN KFirst(m, mid + 1, hi) ELSE KFirst(m, lo, mid)
<1> DEFINE mid == (lo + hi) \div 2
<1>1. /\ K!Blocks = 0 .. ChainEnd /\ ChainEnd \in Nat /\ \A b \in K!Blocks : TimeOf[b] \in Nat
      /\ \A b, c \in K!Blocks : b <= c => TimeOf[b] <= TimeOf[c]
  BY KTimesGrow
<1>2. lo \in Nat /\ hi \in Nat
  BY <1>1
<1>3. mid \in Nat /\ lo <= mid /\ mid < hi
  BY <1>2
<1> HIDE DEF mid
<1>4. mid \in K!Blocks /\ mid + 1 \in K!Blocks /\ mid + 1 <= hi
  BY <1>1, <1>2, <1>3
<1>5. CASE TimeOf[mid] < m
  <2>1. PICK c : c = KFirst(m, mid + 1, hi)
    OBVIOUS
  <2>2. KFirstIn(m, mid + 1, hi, c)
    BY <1>4, <2>1, KFirstIs
  <2>3. ASSUME NEW d \in lo .. hi, d < c PROVE TimeOf[d] < m
    <3>1. d \in K!Blocks /\ d \in Nat
      BY <1>1, <1>2
    <3>2. CASE d <= mid
      <4>1. TimeOf[d] <= TimeOf[mid] /\ TimeOf[d] \in Nat /\ TimeOf[mid] \in Nat
        BY <1>1, <1>4, <3>1, <3>2
      <4> QED
        BY <1>5, <4>1
    <3>3. CASE d > mid
      <4>1. d \in (mid + 1) .. hi
        BY <1>3, <3>1, <3>3
      <4> QED
        BY <2>2, <2>3, <4>1 DEF KFirstIn
    <3> QED
      BY <1>3, <3>1, <3>2, <3>3
  <2>4. c \in lo .. hi /\ (c = hi \/ TimeOf[c] >= m)
    BY <1>2, <1>3, <2>2 DEF KFirstIn
  <2>5. KFirstIn(m, lo, hi, c)
    BY <2>3, <2>4 DEF KFirstIn
  <2>6. c = KFirst(m, lo, hi)
    BY <1>2, <2>5, KFirstIs
  <2> QED
    BY <1>3, <1>4, <1>5, <2>1, <2>6 DEF mid
<1>6. CASE ~ (TimeOf[mid] < m)
  <2>1. PICK c : c = KFirst(m, lo, mid)
    OBVIOUS
  <2>2. KFirstIn(m, lo, mid, c)
    BY <1>3, <1>4, <2>1, KFirstIs
  <2>3. TimeOf[mid] \in Nat /\ TimeOf[mid] >= m
    BY <1>1, <1>4, <1>6
  <2>4. c \in lo .. mid /\ TimeOf[c] >= m
    BY <2>2, <2>3 DEF KFirstIn
  <2>5. ASSUME NEW d \in lo .. hi, d < c PROVE TimeOf[d] < m
    <3>1. d \in lo .. mid
      BY <1>2, <1>3, <2>4, <2>5
    <3> QED
      BY <2>2, <2>5, <3>1 DEF KFirstIn
  <2>6. c \in lo .. hi
    BY <1>2, <1>3, <2>4
  <2>7. KFirstIn(m, lo, hi, c)
    BY <2>4, <2>5, <2>6 DEF KFirstIn
  <2>8. c = KFirst(m, lo, hi)
    BY <1>2, <2>7, KFirstIs
  <2> QED
    BY <1>3, <1>4, <1>6, <2>1, <2>8 DEF mid
<1> QED
  BY <1>5, <1>6

KBisection(g, m) ==
  [r \in K!Blocks \X K!Blocks |->
     LET mid == (r[1] + r[2]) \div 2
     IN  IF r[1] >= r[2] THEN r[1] ELSE IF TimeOf[mid] < m THEN g[<<mid + 1, r[2]>>] ELSE g[<<r[1], mid>>]]

\* Bisection stops, at the first block of its range that is late enough.
LEMMA KBisects ==
  ASSUME NEW m \in Nat, NEW lo \in K!Blocks, NEW hi \in K!Blocks, lo <= hi
  PROVE  K!FirstAtOrAfter(m, lo, hi) = KFirst(m, lo, hi)
<1>1. K!Blocks \subseteq Nat
  BY KTimesGrow
<1> DEFINE G == [r \in K!Blocks \X K!Blocks |-> KFirst(m, r[1], r[2])]
<1>2. G = KBisection(G, m)
  <2>1. ASSUME NEW r \in K!Blocks \X K!Blocks PROVE G[r] = KBisection(G, m)[r]
    <3> DEFINE mid == (r[1] + r[2]) \div 2
    <3>1. r[1] \in K!Blocks /\ r[2] \in K!Blocks /\ r[1] \in Nat /\ r[2] \in Nat /\ G[r] = KFirst(m, r[1], r[2])
      BY <1>1
    <3>2. CASE r[1] < r[2]
      <4>1. /\ mid \in K!Blocks /\ mid + 1 \in K!Blocks
            /\ KFirst(m, r[1], r[2]) = IF TimeOf[mid] < m THEN KFirst(m, mid + 1, r[2]) ELSE KFirst(m, r[1], mid)
        BY <3>1, <3>2, KHalves
      <4>2. G[<<mid + 1, r[2]>>] = KFirst(m, mid + 1, r[2]) /\ G[<<r[1], mid>>] = KFirst(m, r[1], mid)
        BY <3>1, <4>1
      <4>3. KBisection(G, m)[r] = IF TimeOf[mid] < m THEN G[<<mid + 1, r[2]>>] ELSE G[<<r[1], mid>>]
        BY <3>1, <3>2 DEF KBisection
      <4> QED
        BY <3>1, <4>1, <4>2, <4>3
    <3>3. CASE r[1] >= r[2]
      BY <3>1, <3>3 DEF KBisection, KFirst
    <3> QED
      BY <3>1, <3>2, <3>3
  <2> QED
    BY <2>1 DEF KBisection
<1> HIDE DEF G
<1> DEFINE H == CHOOSE g : g = KBisection(g, m)
<1>3. H = KBisection(H, m)
  BY <1>2
<1>4. K!FirstAtOrAfter(m, lo, hi) = H[<<lo, hi>>]
  BY DEF K!FirstAtOrAfter, KBisection
<1> HIDE DEF H
<1> DEFINE Bad == {n \in Nat : \E a, b \in K!Blocks : a <= b /\ n = b - a /\ H[<<a, b>>] # KFirst(m, a, b)}
<1>5. ASSUME Bad # {} PROVE FALSE
  <2>1. PICK n \in Bad : \A k \in Bad : n <= k
    BY <1>5, LeastElement
  <2>2. PICK a \in K!Blocks, b \in K!Blocks : a <= b /\ n = b - a /\ H[<<a, b>>] # KFirst(m, a, b)
    BY <2>1
  <2>3. a \in Nat /\ b \in Nat
    BY <1>1
  <2> DEFINE mid == (a + b) \div 2
  <2>4. a < b
    <3>1. CASE a >= b
      BY <1>3, <2>2, <3>1 DEF KBisection, KFirst
    <3> QED
      BY <2>3, <3>1
  <2>5. /\ mid \in K!Blocks /\ mid + 1 \in K!Blocks /\ a <= mid /\ mid < b
        /\ KFirst(m, a, b) = IF TimeOf[mid] < m THEN KFirst(m, mid + 1, b) ELSE KFirst(m, a, mid)
    BY <2>4, KHalves
  <2>6. H[<<a, b>>] = IF TimeOf[mid] < m THEN H[<<mid + 1, b>>] ELSE H[<<a, mid>>]
    <3>1. <<a, b>> \in K!Blocks \X K!Blocks /\ ~ (a >= b)
      BY <2>3, <2>4
    <3> QED
      BY <1>3, <3>1 DEF KBisection
  <2> HIDE DEF mid
  <2>7. ASSUME NEW x \in K!Blocks, NEW y \in K!Blocks, x <= y, y - x < b - a PROVE H[<<x, y>>] = KFirst(m, x, y)
    <3>1. x \in Nat /\ y \in Nat /\ b - a \in Nat /\ n = b - a
      BY <1>1, <2>2, <2>3
    <3>2. y - x \in Nat /\ ~ (n <= y - x)
      BY <2>7, <3>1
    <3>3. y - x \notin Bad
      BY <2>1, <3>2
    <3> QED
      BY <2>7, <3>2, <3>3
  <2>8. mid \in Nat
    BY <1>1, <2>5
  <2>9. mid + 1 <= b /\ b - (mid + 1) < b - a /\ mid - a < b - a
    BY <2>3, <2>5, <2>8
  <2>10. H[<<mid + 1, b>>] = KFirst(m, mid + 1, b) /\ H[<<a, mid>>] = KFirst(m, a, mid)
    BY <2>5, <2>7, <2>9
  <2> QED
    BY <2>2, <2>5, <2>6, <2>10
<1>6. hi - lo \in Nat
  BY <1>1
<1>7. H[<<lo, hi>>] = KFirst(m, lo, hi)
  BY <1>5, <1>6
<1> QED
  BY <1>4, <1>7

\* The quotient and the rest, from a multiple that is near.
LEMMA KQuotient ==
  ASSUME NEW z \in Nat \ {0}, NEW x \in Nat, NEW q \in Nat, q * z <= x, x < q * z + z
  PROVE  x \div z = q /\ x % z = x - q * z
<1>1. x \div z = q
  OBVIOUS
<1>2. q * z \in Nat
  BY KTimes
<1> DEFINE rest == x - q * z
<1>3. rest \in Nat /\ rest < z /\ x = q * z + rest
  BY <1>2
<1> HIDE DEF rest
<1>4. x % z = rest
  BY <1>3
<1> QED
  BY <1>1, <1>4 DEF rest

LEMMA KDivides ==
  ASSUME NEW z \in Nat \ {0}, NEW x \in Nat
  PROVE  \E q \in Nat : q * z <= x /\ x < q * z + z
<1> DEFINE above == {q \in Nat : x < q * z + z}
<1>1. x \in above
  <2>1. x * z >= x
    <3>1. z >= 1 /\ z - 1 \in Nat
      OBVIOUS
    <3>2. x * z = x * (z - 1) + x /\ x * (z - 1) \in Nat
      BY <3>1
    <3> QED
      BY <3>2
  <2>2. x * z \in Nat
    OBVIOUS
  <2> QED
    BY <2>1, <2>2
<1>2. PICK q \in above : \A k \in above : q <= k
  BY <1>1, LeastElement
<1>3. q \in Nat /\ x < q * z + z
  BY <1>2
<1>4. CASE q = 0
  <2>1. q * z = 0
    BY <1>4
  <2> QED
    BY <1>3, <2>1
<1>5. CASE q # 0
  <2>1. q - 1 \in Nat /\ ~ (q <= q - 1)
    BY <1>3, <1>5
  <2>2. q - 1 \notin above
    BY <1>2, <2>1
  <2>3. ((q - 1) + 1) * z = (q - 1) * z + z /\ (q - 1) * z \in Nat
    BY <2>1, KTimes
  <2>4. q * z = (q - 1) * z + z
    BY <1>3, <2>3
  <2>5. ~ (x < (q - 1) * z + z)
    BY <2>1, <2>2
  <2>6. q * z <= x
    BY <2>3, <2>4, <2>5
  <2> QED
    BY <1>3, <2>6
<1> QED
  BY <1>4, <1>5

\* The date of a block of the window, found by its midnights, is that of its time.
LEMMA KDates ==
  ASSUME NEW f \in K!Blocks, NEW t \in K!Blocks, NEW b \in K!Blocks, f <= b, b <= t
  PROVE  K!DateOf(b, f, t) = TimeOf[b] \div DayLength
<1> DEFINE z == DayLength
           at == TimeOf[b]
           passed == {m \in K!Midnights(f, t) : b >= K!FirstAtOrAfter(m, f, t)}
<1>1. /\ K!Blocks = 0 .. ChainEnd /\ ChainEnd \in Nat /\ z \in Nat \ {0}
      /\ \A c \in K!Blocks : TimeOf[c] \in Nat
      /\ \A c, d \in K!Blocks : c <= d => TimeOf[c] <= TimeOf[d]
  BY KTimesGrow, CollectionAssumption
<1>2. /\ f \in Nat /\ t \in Nat /\ b \in Nat /\ ChainEnd \in K!Blocks /\ at \in Nat
      /\ TimeOf[f] \in Nat /\ TimeOf[t] \in Nat /\ TimeOf[ChainEnd] \in Nat
      /\ TimeOf[f] <= at /\ at <= TimeOf[t] /\ TimeOf[t] <= TimeOf[ChainEnd]
  <2>1. f \in Nat /\ t \in Nat /\ b \in Nat /\ ChainEnd \in K!Blocks /\ t <= ChainEnd
    BY <1>1
  <2> QED
    BY <1>1, <2>1
<1>3. \A m : m \in passed <=> m \in Nat /\ m >= 1 /\ m % z = 0 /\ TimeOf[f] <= m /\ m <= at
  <2>1. ASSUME NEW m \in Nat, m <= TimeOf[t] PROVE b >= K!FirstAtOrAfter(m, f, t) <=> m <= at
    <3>1. PICK c : c = KFirst(m, f, t) /\ KFirstIn(m, f, t, c) /\ c = K!FirstAtOrAfter(m, f, t)
      <4>1. f <= t
        BY <1>2
      <4> QED
        BY <4>1, KFirstIs, KBisects
    <3>2. c \in f .. t /\ (c = t \/ TimeOf[c] >= m) /\ \A d \in f .. t : d < c => TimeOf[d] < m
      BY <3>1 DEF KFirstIn
    <3>3. c \in K!Blocks /\ c \in Nat /\ TimeOf[c] \in Nat /\ TimeOf[c] >= m
      BY <1>1, <1>2, <2>1, <3>2
    <3>4. CASE b >= c
      <4>1. TimeOf[c] <= at
        BY <1>1, <3>3, <3>4
      <4> QED
        BY <1>2, <3>1, <3>3, <3>4, <4>1
    <3>5. CASE b < c
      <4>1. at < m
        BY <1>2, <3>2, <3>5
      <4> QED
        BY <1>2, <3>1, <3>3, <3>5, <4>1
    <3> QED
      BY <1>2, <3>3, <3>4, <3>5
  <2>2. \A m : m \in K!Midnights(f, t)
               <=> m \in 1 .. TimeOf[ChainEnd] /\ m % z = 0 /\ TimeOf[f] <= m /\ m <= TimeOf[t]
    BY DEF K!Midnights
  <2>3. \A m : m \in 1 .. TimeOf[ChainEnd] /\ m <= TimeOf[t] <=> m \in Nat /\ m >= 1 /\ m <= TimeOf[t]
    BY <1>2
  <2>4. \A m : m \in passed => m \in Nat /\ m >= 1 /\ m % z = 0 /\ TimeOf[f] <= m /\ m <= at
    BY <2>1, <2>2, <2>3
  <2>5. ASSUME NEW m \in Nat, m >= 1, m % z = 0, TimeOf[f] <= m, m <= at PROVE m \in passed
    <3>1. m <= TimeOf[t]
      BY <1>2, <2>5
    <3> QED
      BY <2>1, <2>2, <2>3, <2>5, <3>1
  <2> QED
    BY <2>4, <2>5
<1>4. PICK q \in Nat : q * z <= at /\ at < q * z + z
  BY <1>1, <1>2, KDivides
<1>5. at \div z = q /\ q * z \in Nat
  BY <1>1, <1>2, <1>4, KQuotient, KTimes
<1>6. ASSUME NEW m \in passed PROVE m <= q * z
  <2>1. m \in Nat /\ m % z = 0 /\ m <= at
    BY <1>3, <1>6
  <2>2. PICK k \in Nat : k * z <= m /\ m < k * z + z
    BY <1>1, <2>1, KDivides
  <2>3. m = k * z
    <3>1. m % z = m - k * z /\ k * z \in Nat
      BY <1>1, <2>1, <2>2, KQuotient, KTimes
    <3> QED
      BY <2>1, <3>1
  <2>4. /\ k <= q => k * z <= q * z
        /\ k > q => k * z >= q * z + z
        /\ k * z \in Nat
    BY <1>1, KTimes
  <2> DEFINE p == k * z  r == q * z
  <2>5. p \in Nat /\ r \in Nat /\ m = p /\ (p <= r \/ p >= r + z) /\ m <= at /\ at < r + z
    BY <1>4, <1>5, <2>1, <2>3, <2>4
  <2> HIDE DEF p, r
  <2>6. p <= r
    BY <1>1, <1>2, <2>5
  <2> QED
    BY <2>5, <2>6 DEF r
<1>7. K!DateOf(b, f, t) = IF passed = {} THEN TimeOf[f] \div z ELSE K!Max(passed) \div z
  BY DEF K!DateOf
<1> HIDE DEF passed, z, at
<1>8. CASE q * z >= 1 /\ TimeOf[f] <= q * z
  <2>1. (q * z) % z = 0
    <3> DEFINE p == q * z
    <3>1. p \in Nat /\ p <= p /\ p < p + z
      BY <1>1, <1>5
    <3>2. p % z = p - p
      BY <1>1, <3>1, KQuotient
    <3> QED
      BY <3>1, <3>2
  <2>2. q * z \in passed
    BY <1>3, <1>4, <1>5, <1>8, <2>1
  <2>3. K!Max(passed) = q * z
    <3>1. PICK x : x = K!Max(passed)
      OBVIOUS
    <3>2. x \in passed /\ \A y \in passed : x >= y
      <4>1. \E w \in passed : \A y \in passed : w >= y
        BY <1>3, <1>5, <1>6, <2>2
      <4> QED
        BY <3>1, <4>1 DEF K!Max
    <3>3. x <= q * z /\ x >= q * z /\ x \in Nat
      BY <1>3, <1>6, <2>2, <3>2
    <3> QED
      BY <1>5, <3>1, <3>3
  <2>4. (q * z) \div z = q
    <3> DEFINE p == q * z
    <3>1. p \in Nat /\ p <= p /\ p < p + z
      BY <1>1, <1>5
    <3> QED
      BY <1>1, <3>1, KQuotient
  <2> QED
    BY <1>5, <1>7, <2>2, <2>3, <2>4 DEF at, z
<1>9. CASE ~ (q * z >= 1 /\ TimeOf[f] <= q * z)
  <2>1. passed = {}
    <3>1. ASSUME NEW m \in passed PROVE FALSE
      <4>1. m <= q * z /\ m \in Nat /\ m >= 1 /\ TimeOf[f] <= m
        BY <1>3, <1>6
      <4> QED
        BY <1>2, <1>5, <1>9, <4>1
    <3> QED
      BY <3>1
  <2>2. q * z <= TimeOf[f] /\ TimeOf[f] < q * z + z
    BY <1>1, <1>2, <1>4, <1>5, <1>9
  <2>3. TimeOf[f] \div z = q
    BY <1>1, <1>2, <2>2, KQuotient
  <2> QED
    BY <1>5, <1>7, <2>1, <2>3 DEF at, z
<1> QED
  BY <1>8, <1>9

-----------------------------------------------------------------------------
(* What is counted, of the launches that were read.                       *)

\* The rows of a table, as they are counted and as they should be.
KCounted(rd, v) ==
  LET rows == {r \in rd : r[2] = v}
  IN  [value |-> v, n |-> K!Cardinality(rows),
       first |-> K!Min({K!DateOf(placed[r[1]], report.from, report.to) : r \in rows}),
       d |-> K!Cardinality({LaunchedBy[r[1]] : r \in rows})]
KReferred(ls, v) ==
  LET those == {l \in ls : TokenSays[report.hash][l] = v}
  IN  [value |-> v, n |-> K!Cardinality(those), first |-> K!Min({TimeOf[placed[l]] \div DayLength : l \in those}),
       d |-> K!Cardinality({LaunchedBy[l] : l \in those})]

\* What is counted of readings that are true is what should be counted of their launches.
LEMMA KCounts ==
  ASSUME KChain, KWindow, NEW ls \in SUBSET K!InWindow, NEW rd,
         rd = {<<l, TokenSays[report.hash][l]>> : l \in ls}
  PROVE  K!Count(rd, report.from, report.to) = K!Reference(ls)
<1> DEFINE says(l) == TokenSays[report.hash][l]
<1>1. ls \subseteq ToCollect /\ IsFiniteSet(ls)
  <2>1. ls \subseteq ToCollect
    BY DEF K!InWindow, K!LaunchedIn, K!Chain
  <2> QED
    BY <2>1, CollectionAssumption, FS_Subset
<1>2. \A l \in ls : K!DateOf(placed[l], report.from, report.to) = TimeOf[placed[l]] \div DayLength
  <2> TAKE l \in ls
  <2>1. placed[l] \in report.from .. report.to
    BY DEF K!InWindow, K!LaunchedIn
  <2>2. /\ report.from \in K!Blocks /\ report.to \in K!Blocks /\ placed[l] \in K!Blocks
        /\ report.from <= placed[l] /\ placed[l] <= report.to
    BY <1>1, <2>1, KWindowIs DEF KChain
  <2> QED
    BY <2>2, KDates
<1>3. ASSUME NEW v PROVE KCounted(rd, v) = KReferred(ls, v)
  <2> DEFINE rows == {r \in rd : r[2] = v}  those == {l \in ls : says(l) = v}
  <2>1. /\ \A r \in rows : r[1] \in those /\ r = <<r[1], v>>
        /\ \A l \in those : <<l, v>> \in rows /\ <<l, v>>[1] = l
    OBVIOUS
  <2>2. Cardinality(rows) = Cardinality(those)
    <3> DEFINE h == [l \in those |-> <<l, v>>]
    <3>1. IsFiniteSet(those)
      BY <1>1, FS_Subset
    <3>2. h \in Bijection(those, rows)
      <4>1. h \in [those -> rows]
        BY <2>1
      <4>2. \A l, m \in those : h[l] = h[m] => l = m
        OBVIOUS
      <4>3. \A r \in rows : \E l \in those : h[l] = r
        BY <2>1
      <4> QED
        BY <4>1, <4>2, <4>3 DEF Bijection, Injection, Surjection, IsInjective
    <3> QED
      BY <3>1, <3>2, FS_Bijection DEF ExistsBijection
  <2>3. {LaunchedBy[r[1]] : r \in rows} = {LaunchedBy[l] : l \in those}
    BY <2>1
  <2>4. {K!DateOf(placed[r[1]], report.from, report.to) : r \in rows} = {TimeOf[placed[l]] \div DayLength : l \in those}
    <3> DEFINE date(l) == K!DateOf(placed[l], report.from, report.to)
    <3>1. {date(r[1]) : r \in rows} = {date(l) : l \in those}
      <4> HIDE DEF date, rows, those
      <4> QED
        BY <2>1
    <3>2. \A l \in those : date(l) = TimeOf[placed[l]] \div DayLength
      BY <1>2
    <3> QED
      BY <3>1, <3>2
  <2> QED
    BY <2>2, <2>3, <2>4, KCard DEF KCounted, KReferred
<1>4. {r[2] : r \in rd} = {says(l) : l \in ls}
  <2>1. \A r \in rd : \E l \in ls : r[2] = says(l)
    OBVIOUS
  <2>2. \A l \in ls : \E r \in rd : r[2] = says(l)
    <3> TAKE l \in ls
    <3>1. <<l, says(l)>> \in rd /\ <<l, says(l)>>[2] = says(l)
      OBVIOUS
    <3> QED
      BY <3>1
  <2> HIDE DEF says
  <2> QED
    BY <2>1, <2>2
<1>5. K!Count(rd, report.from, report.to) = {KCounted(rd, v) : v \in {r[2] : r \in rd}}
  BY DEF K!Count, KCounted
<1>6. K!Reference(ls) = {KReferred(ls, v) : v \in {says(l) : l \in ls}}
  BY DEF K!Reference, KReferred
<1> HIDE DEF says
<1> QED
  BY <1>3, <1>4, <1>5, <1>6

-----------------------------------------------------------------------------
(* The guard: what it has read when it accepts.                            *)

KBefore == {"pages", "tokens", "after"}
KGuards == {"aligned", "shifted", "headers", "identities", "recheck", "transactions"}

\* What tokens may be said to be.
KSaid == {TokenSays[h][l] : h \in K!Hashes, l \in ToCollect} \cup {"unreadable"}

KPrograms ==
  [at : {"idle"} \cup KBefore \cup KGuards, from : Int, to : Int, state : Int, hash : K!Hashes, page : Int,
   logs : SUBSET (ToCollect \X K!Hashes), read : SUBSET (ToCollect \X KSaid), tries : 0 .. HeaderTries]

KShape ==
  /\ KChain /\ endpoint \in [is : K!Branches, left : 0 .. BranchFlips]
  /\ program \in KPrograms /\ verdict \in {"none", "refused", "accepted"}

\* A window that was asked for, and a hash its state had in one of the branches.
KAsked(f, t, s, h) == <<f, t, s>> \in WindowsAsked /\ h \in {K!Hash(s, g) : g \in K!Branches}

KReported == report.made => KAsked(report.from, report.to, report.state, report.hash)
KCollects == program.at \in KBefore => KAsked(program.from, program.to, program.state, program.hash)

\* A block is in a page of the layout that begins with w blocks whose launches were read.
KCovered(logs, w, b) ==
  \E s, e \in Int : KPage(report.from, report.to, w, s, e) /\ s <= b /\ b <= e /\ K!PageIn(K!Branch, s, e) \subseteq logs

\* What the guard has read so far is of the branch the report is about.
KRead(r) ==
  /\ r.logs \subseteq {<<l, K!Hash(placed[l], K!Branch)>> : l \in K!InWindow}
  /\ \A b \in report.from .. (IF r.at = "aligned" THEN r.page - 1 ELSE report.to) : KCovered(r.logs, K!Size, b)
  /\ r.at # "aligned" =>
       \A b \in report.from .. (IF r.at = "shifted" THEN r.page - 1 ELSE report.to) : KCovered(r.logs, K!Shift, b)
  /\ r.read \subseteq {<<l, TokenSays[report.hash][l]>> : l \in K!Tokens(r.logs)}
  /\ r.at \in {"recheck", "transactions"} => K!Tokens(r.logs) \subseteq {x[1] : x \in r.read}

\* The page it reads next begins where its layout says.
KTurns(r) ==
  /\ r.at = "aligned" => r.page <= report.to /\ KStart(report.from, K!Size, r.page)
  /\ r.at = "shifted" => r.page <= report.to /\ KStart(report.from, K!Shift, r.page)

KMatches == K!Hash(report.state, endpoint.is) = report.hash

\* Either the endpoint still has the report's state, or it has changed its branch for the last time and the guard will
\* notice.
KGuarded ==
  program.at \in KGuards =>
    /\ report.made /\ verdict = "none"
    /\ program.from = report.from /\ program.to = report.to /\ program.state = report.state /\ program.hash = report.hash
    /\ KTurns(program)
    /\ IF program.at = "transactions" THEN KRead(program)
       ELSE (KMatches /\ KRead(program)) \/ (~ KMatches /\ endpoint.left = 0)

KInv == KShape /\ KReported /\ KCollects /\ KGuarded /\ AcceptedIsChain

-----------------------------------------------------------------------------
LEMMA KWindowOf ==
  ASSUME KReported, report.made
  PROVE  KWindow /\ report.hash \in {K!Hash(report.state, g) : g \in K!Branches}
BY DEF KReported, KAsked, KWindow

\* The endpoint answers for the branch of the report while it has that branch's state.
LEMMA KSamePage ==
  ASSUME KChain, KReported, report.made, KMatches, endpoint.is \in K!Branches,
         NEW s \in Int, NEW e \in Int, e <= report.to
  PROVE  K!Page(s, e) = K!PageIn(K!Branch, s, e)
<1>1. /\ KWindow /\ report.to \in Int /\ report.state \in Int /\ report.to <= report.state /\ K!Blocks \subseteq Int
  BY KWindowOf, KWindowIs
<1>2. CASE report.hash = "common"
  <2>1. ForkedAt \in Int /\ report.state < ForkedAt /\ K!Branch = "a"
    <3>1. K!Hash(report.state, endpoint.is) = "common" /\ endpoint.is # "common"
      BY <1>2 DEF KMatches, K!Branches
    <3> QED
      BY <1>2, <3>1, CollectionAssumption DEF K!Hash, K!Branch
  <2>2. \A l \in ToCollect : placed[l] \in s .. e => placed[l] < ForkedAt
    BY <1>1, <2>1 DEF KChain
  <2>3. \A f, l : l \in K!LaunchedIn(f, s, e) <=> l \in ToCollect /\ placed[l] \in s .. e
    BY <2>2 DEF K!LaunchedIn, K!Chain
  <2>4. K!LaunchedIn(endpoint.is, s, e) = K!LaunchedIn(K!Branch, s, e)
    BY <2>3
  <2>5. PICK left : left = K!Kept(K!LaunchedIn(K!Branch, s, e), s, e)
    OBVIOUS
  <2>6. \A l \in left : l \in ToCollect /\ placed[l] \in s .. e
    BY <2>3, <2>5 DEF K!Kept, KChain, K!Rules
  <2>7. \A f : \A l \in left : K!Hash(placed[l], f) = "common"
    BY <2>2, <2>6 DEF K!Hash
  <2>8. K!Page(s, e) = {<<l, K!Hash(placed[l], endpoint.is)>> : l \in left}
    BY <2>4, <2>5 DEF K!Page, K!PageIn
  <2>9. K!PageIn(K!Branch, s, e) = {<<l, K!Hash(placed[l], K!Branch)>> : l \in left}
    BY <2>5 DEF K!PageIn
  <2> QED
    BY <2>7, <2>8, <2>9
<1>3. CASE report.hash # "common"
  <2>1. endpoint.is = report.hash
    BY <1>3 DEF KMatches, K!Hash
  <2>2. K!Branch = endpoint.is
    BY <1>3, <2>1 DEF K!Branch
  <2> QED
    BY <2>2 DEF K!Page
<1> QED
  BY <1>2, <1>3

\* Nothing that was read depends on more than the chain and the report.
LEMMA KSame ==
  ASSUME UNCHANGED <<quirk, placed, report>>
  PROVE  /\ KChain' = KChain /\ K!Branch' = K!Branch /\ K!InWindow' = K!InWindow
         /\ \A f, s, e : K!PageIn(f, s, e)' = K!PageIn(f, s, e)
         /\ \A r : KRead(r)' = KRead(r) /\ KTurns(r)' = KTurns(r)
         /\ \A l : K!Findable(l)' = K!Findable(l)
         /\ \A ls : K!Reference(ls)' = K!Reference(ls)
<1>1. quirk' = quirk /\ placed' = placed /\ report' = report
  OBVIOUS
<1>2. KChain' = KChain /\ K!Branch' = K!Branch
  BY <1>1 DEF KChain, K!Branch, K!Ordered
<1>3. \A f : K!Chain(f)' = K!Chain(f)
  BY <1>1 DEF K!Chain
<1>4. \A f, s, e : K!LaunchedIn(f, s, e)' = K!LaunchedIn(f, s, e)
  BY <1>1, <1>3 DEF K!LaunchedIn
<1>5. K!InWindow' = K!InWindow
  BY <1>1, <1>2, <1>4 DEF K!InWindow
<1>6. \A all, s, e : K!Kept(all, s, e)' = K!Kept(all, s, e)
  BY <1>1 DEF K!Kept
<1>7. \A f, s, e : K!PageIn(f, s, e)' = K!PageIn(f, s, e)
  BY <1>1, <1>4, <1>6 DEF K!PageIn
<1>8. \A logs, w, b : KCovered(logs, w, b)' = KCovered(logs, w, b)
  BY <1>1, <1>2, <1>7 DEF KCovered
<1>9. \A r : KRead(r)' = KRead(r)
  BY <1>1, <1>2, <1>5, <1>8 DEF KRead
<1>10. \A r : KTurns(r)' = KTurns(r)
  BY <1>1 DEF KTurns
<1>11. \A l : K!Findable(l)' = K!Findable(l)
  BY <1>1, <1>5 DEF K!Findable
<1>12. \A ls : K!Reference(ls)' = K!Reference(ls)
  BY <1>1 DEF K!Reference
<1> QED
  BY <1>2, <1>5, <1>7, <1>9, <1>10, <1>11, <1>12

\* What is accepted is the chain.
LEMMA KAccepts ==
  ASSUME KChain, KReported, report.made, KRead(program), program.at = "transactions",
         K!Count(program.read, report.from, report.to) = report.tables
  PROVE  \E counted \in SUBSET K!InWindow :
           /\ {l \in K!InWindow : K!Findable(l)} \subseteq counted
           /\ report.tables = K!Reference(counted)
<1>1. KWindow
  BY KWindowOf
<1>2. PICK logs, rd : logs = program.logs /\ rd = program.read
  OBVIOUS
<1>3. /\ logs \subseteq {<<l, K!Hash(placed[l], K!Branch)>> : l \in K!InWindow}
      /\ \A b \in report.from .. report.to : KCovered(logs, K!Size, b) /\ KCovered(logs, K!Shift, b)
      /\ rd \subseteq {<<l, TokenSays[report.hash][l]>> : l \in K!Tokens(logs)}
      /\ K!Tokens(logs) \subseteq {x[1] : x \in rd}
  BY <1>2 DEF KRead
<1> DEFINE counted == K!Tokens(logs)
<1>4. \A l : l \in counted <=> \E x \in logs : x[1] = l
  BY DEF K!Tokens
<1>5. counted \subseteq K!InWindow
  BY <1>3, <1>4
<1>6. ASSUME NEW l \in K!InWindow, K!Findable(l) PROVE l \in counted
  <2>1. placed[l] \in report.from .. report.to
    BY DEF K!InWindow, K!LaunchedIn
  <2>2. KCovered(logs, K!Size, placed[l]) /\ KCovered(logs, K!Shift, placed[l])
    BY <1>3, <2>1
  <2>3. PICK s \in Int, e \in Int : /\ KPage(report.from, report.to, K!Size, s, e) /\ s <= placed[l] /\ placed[l] <= e
                                    /\ K!PageIn(K!Branch, s, e) \subseteq logs
    BY <2>2 DEF KCovered
  <2>4. PICK u \in Int, v \in Int : /\ KPage(report.from, report.to, K!Shift, u, v) /\ u <= placed[l] /\ placed[l] <= v
                                    /\ K!PageIn(K!Branch, u, v) \subseteq logs
    BY <2>2 DEF KCovered
  <2>5. <<l, K!Hash(placed[l], K!Branch)>> \in logs
    BY <1>1, <1>6, <2>3, <2>4, KFound
  <2>6. <<l, K!Hash(placed[l], K!Branch)>>[1] = l
    OBVIOUS
  <2> QED
    BY <1>4, <2>5, <2>6
<1>7. rd = {<<l, TokenSays[report.hash][l]>> : l \in counted}
  <2>1. ASSUME NEW l \in counted PROVE <<l, TokenSays[report.hash][l]>> \in rd
    <3>1. PICK x \in rd : x[1] = l
      BY <1>3, <2>1
    <3>2. PICK m \in counted : x = <<m, TokenSays[report.hash][m]>>
      BY <1>3
    <3>3. m = l
      BY <3>1, <3>2
    <3> QED
      BY <3>1, <3>2, <3>3
  <2> HIDE DEF counted
  <2>2. rd \subseteq {<<l, TokenSays[report.hash][l]>> : l \in counted}
    BY <1>3 DEF counted
  <2> QED
    BY <2>1, <2>2
<1> HIDE DEF counted
<1>8. K!Count(rd, report.from, report.to) = K!Reference(counted)
  BY <1>1, <1>5, <1>7, KCounts
<1> QED
  BY <1>2, <1>5, <1>6, <1>8

-----------------------------------------------------------------------------
LEMMA KPageType ==
  ASSUME NEW f \in K!Branches, NEW s, NEW e, KChain
  PROVE  K!PageIn(f, s, e) \in SUBSET (ToCollect \X K!Hashes)
<1>1. \A l : l \in K!Kept(K!LaunchedIn(f, s, e), s, e) => l \in ToCollect
  BY DEF K!Kept, K!LaunchedIn, K!Chain, KChain, K!Rules
<1>2. \A b : K!Hash(b, f) \in K!Hashes
  BY DEF K!Hash, K!Hashes
<1> QED
  BY <1>1, <1>2 DEF K!PageIn

\* A batch reads tokens of the launches that were found.
LEMMA KBatch ==
  ASSUME KShape, K!ReadBatch
  PROVE  \E batch \in SUBSET ToCollect :
           /\ batch \subseteq K!Unread
           /\ program' = [program EXCEPT !.read = @ \cup {<<l, K!Says(l)>> : l \in batch}]
           /\ program' \in KPrograms
<1> DEFINE batch == {l \in K!Unread : K!Cardinality({m \in K!Unread : m < l}) < CallTokens}
<1>1. K!Unread \subseteq ToCollect
  BY DEF KShape, KPrograms, K!Unread, K!Tokens
<1>2. \A l \in ToCollect : K!Says(l) \in KSaid
  <2>1. K!Hash(program.state, endpoint.is) \in K!Hashes
    BY DEF KShape, K!Hash, K!Hashes
  <2> QED
    BY <2>1 DEF K!Says, KSaid
<1>3. program' = [program EXCEPT !.read = @ \cup {<<l, K!Says(l)>> : l \in batch}]
  BY DEF K!ReadBatch
<1>4. batch \in SUBSET ToCollect /\ batch \subseteq K!Unread
  BY <1>1
<1> HIDE DEF batch
<1>5. {<<l, K!Says(l)>> : l \in batch} \in SUBSET (ToCollect \X KSaid)
  BY <1>2, <1>4
<1>6. PICK more \in SUBSET (ToCollect \X KSaid) : more = {<<l, K!Says(l)>> : l \in batch}
  BY <1>5
<1>7. program' \in KPrograms
  BY <1>3, <1>6 DEF KShape, KPrograms
<1> QED
  BY <1>3, <1>4, <1>7

LEMMA KIdle ==
  ASSUME HeaderTries \in Nat
  PROVE K!Idle \in KPrograms /\ K!Idle.at = "idle"
BY DEF K!Idle, KPrograms, K!Hashes, K!Branches

LEMMA KIdles == K!Idle \in KPrograms /\ K!Idle.at = "idle"
BY KIdle, CollectionAssumption

LEMMA KInitInv == K!Init => KInv
<1> SUFFICES ASSUME K!Init PROVE KInv
  OBVIOUS
<1>1. program = K!Idle /\ verdict = "none" /\ report.made = FALSE
  BY DEF K!Init, K!NoReport
<1>2. KChain
  BY DEF K!Init, KChain
<1>3. endpoint \in [is : K!Branches, left : 0 .. BranchFlips]
  <2>1. BranchFlips \in 0 .. BranchFlips
    BY CollectionAssumption
  <2> QED
    BY <2>1 DEF K!Init, K!Branches
<1>4. program.at \notin KBefore /\ program.at \notin KGuards
  BY <1>1, KIdles DEF KBefore, KGuards
<1> QED
  BY <1>1, <1>2, <1>3, <1>4, KIdles DEF KInv, KShape, KReported, KCollects, KGuarded, K!AcceptedIsChain, AcceptedIsChain

-----------------------------------------------------------------------------
(* The steps that leave the chain, the endpoint and the report as they     *)
(* are.                                                                    *)
KStays == quirk' = quirk /\ placed' = placed /\ endpoint' = endpoint /\ report' = report

LEMMA KStaying ==
  ASSUME KInv, KStays
  PROVE  /\ KChain' /\ endpoint' \in [is : K!Branches, left : 0 .. BranchFlips]
         /\ KReported' /\ (KMatches' <=> KMatches)
         /\ verdict' \in {"none", "refused"} \/ verdict' = verdict => AcceptedIsChain'
<1>1. KChain'
  BY KSame DEF KInv, KShape, KStays
<1>2. endpoint' \in [is : K!Branches, left : 0 .. BranchFlips] /\ (KMatches' <=> KMatches) /\ KReported'
  BY DEF KInv, KShape, KStays, KMatches, KReported, KAsked
<1>3. ASSUME verdict' = verdict PROVE AcceptedIsChain'
  <2>1. SUFFICES ASSUME verdict = "accepted"
                 PROVE  \E counted \in SUBSET K!InWindow' :
                          /\ {l \in K!InWindow' : K!Findable(l)'} \subseteq counted
                          /\ report'.tables = K!Reference(counted)'
    BY <1>3 DEF AcceptedIsChain, K!AcceptedIsChain
  <2>2. PICK counted \in SUBSET K!InWindow :
               /\ {l \in K!InWindow : K!Findable(l)} \subseteq counted
               /\ report.tables = K!Reference(counted)
    BY <2>1 DEF KInv, AcceptedIsChain, K!AcceptedIsChain
  <2>3. /\ K!InWindow' = K!InWindow /\ report' = report
        /\ \A l : K!Findable(l)' = K!Findable(l)
        /\ \A ls : K!Reference(ls)' = K!Reference(ls)
    BY KSame DEF KStays
  <2> QED
    BY <2>2, <2>3
<1>4. ASSUME verdict' \in {"none", "refused"} PROVE AcceptedIsChain'
  BY <1>4 DEF AcceptedIsChain, K!AcceptedIsChain
<1> QED
  BY <1>1, <1>2, <1>3, <1>4

\* A run that ends, with nothing accepted by it.
LEMMA KStops ==
  ASSUME KInv, KStays, program' = K!Idle, verdict' \in {"none", "refused"} \/ verdict' = verdict
  PROVE  KInv'
<1>1. program' \in KPrograms /\ program'.at \notin KBefore /\ program'.at \notin KGuards
  BY KIdles DEF KBefore, KGuards
<1>2. verdict' \in {"none", "refused", "accepted"}
  BY DEF KInv, KShape
<1> QED
  BY <1>1, <1>2, KStaying DEF KInv, KShape, KCollects, KGuarded

\* A step of the collector on its way.
LEMMA KCollecting ==
  ASSUME KInv, KStays, verdict' = verdict, program' \in KPrograms, program'.at \in KBefore,
         KAsked(program'.from, program'.to, program'.state, program'.hash)
  PROVE  KInv'
<1>1. program'.at \notin KGuards
  BY DEF KBefore, KGuards
<1>2. KCollects'
  BY DEF KCollects, KAsked
<1> QED
  BY <1>1, <1>2, KStaying DEF KInv, KShape, KGuarded

LEMMA KCaptureInv ==
  ASSUME KInv, NEW w \in WindowsAsked, K!Capture(w[1], w[2], w[3]), quirk' = quirk, placed' = placed, endpoint' = endpoint
  PROVE  KInv'
<1>1. /\ w \in (0 .. ChainEnd) \X (0 .. ChainEnd) \X (0 .. ChainEnd) /\ ChainEnd \in Nat
  BY CollectionAssumption
<1>2. /\ w = <<w[1], w[2], w[3]>> /\ w[1] \in Int /\ w[2] \in Int /\ w[3] \in Int
  BY <1>1
<1>3. K!Hash(w[3], endpoint.is) \in K!Hashes /\ endpoint.is \in K!Branches
  BY DEF KInv, KShape, K!Hash, K!Hashes
<1>4. PICK f, t, s, h : f = w[1] /\ t = w[2] /\ s = w[3] /\ h = K!Hash(w[3], endpoint.is)
  OBVIOUS
<1>5. /\ program' = [K!Idle EXCEPT !.at = "pages", !.from = f, !.to = t, !.state = s, !.hash = h, !.page = f]
      /\ report' = report /\ verdict' = verdict
  BY <1>4 DEF K!Capture
<1>6. program' \in KPrograms
  <2>1. f \in Int /\ t \in Int /\ s \in Int /\ h \in K!Hashes /\ "pages" \in KBefore
    BY <1>2, <1>3, <1>4 DEF KBefore
  <2> QED
    BY <1>5, <2>1, KIdles DEF KPrograms
<1>7. /\ program'.at = "pages" /\ program'.from = f /\ program'.to = t /\ program'.state = s /\ program'.hash = h
  BY <1>5, KIdles DEF KPrograms
<1>8. KAsked(f, t, s, h)
  BY <1>2, <1>3, <1>4 DEF KAsked
<1> QED
  BY <1>5, <1>6, <1>7, <1>8, KCollecting DEF KStays, KBefore

LEMMA KReadLogsInv ==
  ASSUME KInv, K!ReadLogs, quirk' = quirk, placed' = placed, endpoint' = endpoint
  PROVE  KInv'
<1>1. /\ program \in KPrograms /\ program.at = "pages" /\ endpoint.is \in K!Branches /\ KChain
      /\ KAsked(program.from, program.to, program.state, program.hash)
  BY DEF KInv, KShape, KCollects, KBefore, K!ReadLogs
<1>2. PICK end : /\ end = IF program.page + PageBlocks - 1 < program.to THEN program.page + PageBlocks - 1 ELSE program.to
                 /\ program' = [program EXCEPT !.logs = @ \cup K!Page(program.page, end), !.page = end + 1,
                                               !.at = IF end = program.to THEN "tokens" ELSE "pages"]
                 /\ report' = report /\ verdict' = verdict
  BY DEF K!ReadLogs
<1>3. PICK next : next = (IF end = program.to THEN "tokens" ELSE "pages") /\ next \in KBefore
  BY DEF KBefore
<1>4. PICK found \in SUBSET (ToCollect \X K!Hashes) : found = K!Page(program.page, end)
  BY <1>1, KPageType DEF K!Page
<1>5. end + 1 \in Int
  BY <1>1, <1>2, CollectionAssumption DEF KPrograms
<1>6. program' = [program EXCEPT !.logs = @ \cup found, !.page = end + 1, !.at = next]
  BY <1>2, <1>3, <1>4
<1>7. program' \in KPrograms
  BY <1>1, <1>3, <1>5, <1>6 DEF KPrograms
<1>8. /\ program'.at = next /\ program'.from = program.from /\ program'.to = program.to
      /\ program'.state = program.state /\ program'.hash = program.hash
  BY <1>1, <1>6 DEF KPrograms
<1> QED
  BY <1>1, <1>2, <1>3, <1>7, <1>8, KCollecting DEF KStays

LEMMA KReadTokensInv ==
  ASSUME KInv, K!ReadTokens, quirk' = quirk, placed' = placed, endpoint' = endpoint
  PROVE  KInv'
<1>1. /\ program \in KPrograms /\ program.at = "tokens" /\ KShape
      /\ KAsked(program.from, program.to, program.state, program.hash)
      /\ report' = report /\ verdict' = verdict
  BY DEF KInv, KShape, KCollects, KBefore, K!ReadTokens
<1>2. /\ program' \in KPrograms /\ program'.at \in KBefore /\ program'.from = program.from /\ program'.to = program.to
      /\ program'.state = program.state /\ program'.hash = program.hash
  <2>1. CASE K!ReadBatch
    <3>1. PICK batch \in SUBSET ToCollect :
                 /\ program' = [program EXCEPT !.read = @ \cup {<<l, K!Says(l)>> : l \in batch}]
                 /\ program' \in KPrograms
      BY <1>1, <2>1, KBatch
    <3> QED
      BY <1>1, <3>1 DEF KPrograms, KBefore
  <2>2. CASE program' = [program EXCEPT !.at = "after"]
    BY <1>1, <2>2 DEF KPrograms, KBefore
  <2> QED
    BY <2>1, <2>2 DEF K!ReadTokens
<1> QED
  BY <1>1, <1>2, KCollecting DEF KStays

LEMMA KReportInv ==
  ASSUME KInv, K!Report, quirk' = quirk, placed' = placed, endpoint' = endpoint
  PROVE  KInv'
<1>1. /\ program.at = "after" /\ program' = K!Idle /\ KChain /\ endpoint \in [is : K!Branches, left : 0 .. BranchFlips]
      /\ KAsked(program.from, program.to, program.state, program.hash)
  BY DEF KInv, KShape, KCollects, KBefore, K!Report, K!Stops
<1>2. CASE report' = report /\ verdict' = verdict
  BY <1>1, <1>2, KStops DEF KStays
<1>3. CASE ~ (report' = report /\ verdict' = verdict)
  <2>1. /\ verdict' = "none" /\ report'.made
        /\ report'.from = program.from /\ report'.to = program.to
        /\ report'.state = program.state /\ report'.hash = program.hash
    BY <1>3 DEF K!Report
  <2>2. KReported' /\ AcceptedIsChain'
    BY <1>1, <2>1 DEF KReported, KAsked, AcceptedIsChain, K!AcceptedIsChain, K!Hash
  <2>3. KShape'
    BY <1>1, <2>1, KIdles DEF KShape, KChain, K!Ordered
  <2>4. program'.at \notin KBefore /\ program'.at \notin KGuards
    BY <1>1, KIdles DEF KBefore, KGuards
  <2> QED
    BY <2>2, <2>3, <2>4 DEF KInv, KCollects, KGuarded
<1> QED
  BY <1>2, <1>3

-----------------------------------------------------------------------------
(* The steps of the guard.                                                 *)

\* Where the guard is, and what it is about.
LEMMA KOnGuard ==
  ASSUME KInv, program.at \in KGuards
  PROVE  /\ KChain /\ KReported /\ report.made /\ verdict = "none" /\ program \in KPrograms
         /\ program.from = report.from /\ program.to = report.to
         /\ program.state = report.state /\ program.hash = report.hash
         /\ report.from \in Int /\ report.to \in Int /\ report.from <= report.to
         /\ endpoint.is \in K!Branches /\ K!Branch \in K!Branches
         /\ KTurns(program)
         /\ program.at # "transactions" => (KMatches => KRead(program)) /\ (~ KMatches => endpoint.left = 0)
<1>1. /\ KChain /\ KReported /\ report.made /\ verdict = "none" /\ program \in KPrograms
      /\ program.from = report.from /\ program.to = report.to
      /\ program.state = report.state /\ program.hash = report.hash
      /\ endpoint.is \in K!Branches /\ KTurns(program)
      /\ program.at # "transactions" => (KMatches => KRead(program)) /\ (~ KMatches => endpoint.left = 0)
  BY DEF KInv, KShape, KGuarded
<1>2. KWindow /\ report.hash \in {K!Hash(report.state, g) : g \in K!Branches}
  BY <1>1, KWindowOf
<1>3. report.from \in Int /\ report.to \in Int /\ report.from <= report.to
  BY <1>2, KWindowIs
<1>4. K!Branch \in K!Branches
  BY <1>2 DEF K!Branch, K!Branches, K!Hash
<1> QED
  BY <1>1, <1>3, <1>4

\* A step of the guard on its way.
LEMMA KGuarding ==
  ASSUME KInv, KStays, verdict = "none", verdict' = "none", report.made, program' \in KPrograms, program'.at \in KGuards,
         program'.from = report.from, program'.to = report.to, program'.state = report.state,
         program'.hash = report.hash, KTurns(program'),
         KMatches => KRead(program'),
         ~ KMatches => program'.at # "transactions" /\ endpoint.left = 0
  PROVE  KInv'
<1>1. program'.at \notin KBefore
  BY DEF KBefore, KGuards
<1>2. UNCHANGED <<quirk, placed, report>>
  BY DEF KStays
<1>3. \A r : KRead(r)' = KRead(r) /\ KTurns(r)' = KTurns(r)
  BY <1>2, KSame
<1>4. PICK p : p = program'
  OBVIOUS
<1>5. (KRead(p)' <=> KRead(p)) /\ (KTurns(p)' <=> KTurns(p))
  BY <1>3
<1>6. (KRead(program)' <=> KRead(p)') /\ (KTurns(program)' <=> KTurns(p)')
  BY <1>4 DEF KRead, KTurns
<1>7. (KRead(program') <=> KRead(p)) /\ (KTurns(program') <=> KTurns(p))
  BY <1>4
<1>8. KGuarded'
  BY <1>5, <1>6, <1>7, KStaying DEF KGuarded, KStays
<1> QED
  BY <1>1, <1>8, KStaying DEF KInv, KShape, KCollects

\* The next page of a layout, and where the one after it begins.
LEMMA KNext ==
  ASSUME NEW f \in Int, NEW t \in Int, NEW w \in {K!Size, K!Shift}, NEW s \in Int, KStart(f, w, s), s <= t, NEW e,
         LET last == s + (IF s = f THEN w ELSE K!Size) - 1 IN e = IF last < t THEN last ELSE t
  PROVE  /\ KPage(f, t, w, s, e) /\ e \in Int /\ f <= s /\ s <= e /\ e <= t
         /\ e # t => e + 1 <= t /\ KStart(f, w, e + 1)
<1>1. K!Size \in Nat /\ w \in Nat /\ 1 <= w /\ w <= K!Size
  BY KSizes
<1>2. KPage(f, t, w, s, e)
  BY DEF KPage
<1>3. CASE s = f
  <2>1. e = IF s + w - 1 < t THEN s + w - 1 ELSE t
    BY <1>3
  <2>2. e \in Int /\ s <= e /\ e <= t /\ (e # t => e + 1 <= t /\ e + 1 = f + w)
    BY <1>1, <1>3, <2>1
  <2>3. f + w = f + w + 0 * K!Size /\ 0 \in Nat
    BY <1>1
  <2> QED
    BY <1>2, <1>3, <2>2, <2>3 DEF KStart
<1>4. CASE s # f
  <2>1. PICK k \in Nat : s = f + w + k * K!Size
    BY <1>4 DEF KStart
  <2>2. k * K!Size \in Nat /\ (k + 1) * K!Size = k * K!Size + K!Size /\ k + 1 \in Nat
    BY <1>1, KTimes
  <2>3. PICK q, q2 : q \in Nat /\ q = k * K!Size /\ q2 = (k + 1) * K!Size /\ q2 = q + K!Size
    BY <2>2
  <2>4. s = f + w + q /\ f <= s
    BY <1>1, <2>1, <2>3
  <2>5. e = IF s + K!Size - 1 < t THEN s + K!Size - 1 ELSE t
    BY <1>4
  <2>6. e \in Int /\ s <= e /\ e <= t /\ (e # t => e + 1 <= t /\ e + 1 = f + w + q2)
    BY <1>1, <2>3, <2>4, <2>5
  <2>7. e # t => KStart(f, w, e + 1)
    BY <2>2, <2>3, <2>6 DEF KStart
  <2> QED
    BY <1>2, <2>4, <2>6, <2>7
<1> QED
  BY <1>3, <1>4

\* A page of the window holds launches of the window.
LEMMA KPageOf ==
  ASSUME KChain, NEW s \in Int, NEW e \in Int, report.from \in Int, report.to \in Int, report.from <= s, e <= report.to
  PROVE  K!PageIn(K!Branch, s, e) \subseteq {<<l, K!Hash(placed[l], K!Branch)>> : l \in K!InWindow}
<1>1. K!Blocks \subseteq Int
  BY CollectionAssumption DEF K!Blocks
<1>2. ASSUME NEW l \in K!Kept(K!LaunchedIn(K!Branch, s, e), s, e) PROVE l \in K!InWindow
  <2>1. l \in K!LaunchedIn(K!Branch, s, e)
    BY DEF K!Kept, KChain, K!Rules
  <2>2. l \in K!Chain(K!Branch) /\ placed[l] \in s .. e
    BY <2>1 DEF K!LaunchedIn
  <2> QED
    BY <2>2 DEF K!InWindow, K!LaunchedIn
<1> QED
  BY <1>2 DEF K!PageIn

\* One page more is read, of a layout of which the pages before it were.
LEMMA KCovers ==
  ASSUME NEW w, NEW s \in Int, NEW e \in Int, NEW logs, NEW more, report.from \in Int,
         \A b \in report.from .. s - 1 : KCovered(logs, w, b),
         logs \subseteq more, KPage(report.from, report.to, w, s, e), K!PageIn(K!Branch, s, e) \subseteq more
  PROVE  \A b \in report.from .. e : KCovered(more, w, b)
<1> SUFFICES ASSUME NEW b \in report.from .. e PROVE KCovered(more, w, b)
  OBVIOUS
<1>1. CASE b < s
  <2>1. KCovered(logs, w, b)
    BY <1>1
  <2> QED
    BY <2>1 DEF KCovered
<1>2. CASE s <= b
  BY <1>2 DEF KCovered
<1> QED
  BY <1>1, <1>2

-----------------------------------------------------------------------------
LEMMA KRefuses ==
  ASSUME KInv, KStays, K!Refuse
  PROVE  KInv'
BY KStops DEF K!Refuse, K!Stops

LEMMA KAnchorInv ==
  ASSUME KInv, K!Anchor, quirk' = quirk, placed' = placed, endpoint' = endpoint
  PROVE  KInv'
<1>1. KStays /\ verdict = "none" /\ report.made /\ KReported
  BY DEF K!Anchor, KStays, KInv
<1>2. CASE K!Refuse
  BY <1>1, <1>2, KRefuses
<1>3. CASE ~ K!Refuse
  <2>1. /\ KMatches /\ verdict' = "none"
        /\ program' = [K!Idle EXCEPT !.at = "aligned", !.from = report.from, !.to = report.to, !.state = report.state,
                                     !.hash = report.hash, !.page = report.from]
    BY <1>1, <1>3 DEF K!Anchor, KMatches
  <2>2. KWindow /\ report.hash \in {K!Hash(report.state, g) : g \in K!Branches}
    BY <1>1, KWindowOf
  <2>3. report.from \in Int /\ report.to \in Int /\ report.state \in Int /\ report.from <= report.to
    BY <2>2, KWindowIs
  <2>4. report.hash \in K!Hashes
    BY <2>2 DEF K!Hash, K!Hashes
  <2>5. program' \in KPrograms
    BY <2>1, <2>3, <2>4, KIdles DEF KPrograms, KGuards
  <2>6. /\ program'.at = "aligned" /\ program'.from = report.from /\ program'.to = report.to
        /\ program'.state = report.state /\ program'.hash = report.hash /\ program'.page = report.from
        /\ program'.logs = {} /\ program'.read = {}
    BY <2>1 DEF K!Idle
  <2>7. PICK p : p = program'
    OBVIOUS
  <2>8. KTurns(p)
    BY <2>3, <2>6, <2>7 DEF KTurns, KStart
  <2>9. KRead(p)
    BY <2>3, <2>6, <2>7 DEF KRead
  <2> QED
    BY <1>1, <2>1, <2>5, <2>6, <2>7, <2>8, <2>9, KGuarding DEF KGuards
<1> QED
  BY <1>2, <1>3

LEMMA KReadAlignedInv ==
  ASSUME KInv, K!ReadAligned, quirk' = quirk, placed' = placed, endpoint' = endpoint
  PROVE  KInv'
<1>1. KStays /\ program.at = "aligned" /\ program.at \in KGuards
  BY DEF K!ReadAligned, KStays, KGuards
<1>2. /\ KChain /\ KReported /\ report.made /\ verdict = "none" /\ program \in KPrograms
      /\ program.from = report.from /\ program.to = report.to
      /\ program.state = report.state /\ program.hash = report.hash
      /\ report.from \in Int /\ report.to \in Int /\ report.from <= report.to
      /\ endpoint.is \in K!Branches /\ K!Branch \in K!Branches
      /\ program.page <= report.to /\ KStart(report.from, K!Size, program.page)
      /\ (KMatches => KRead(program)) /\ (~ KMatches => endpoint.left = 0)
  BY <1>1, KOnGuard DEF KTurns
<1>3. CASE K!Refuse
  BY <1>1, <1>3, KRefuses
<1>4. CASE ~ K!Refuse
  <2>1. PICK s, e : s \in Int /\ s = program.page /\ e = K!PageEnd(K!Size)
    BY <1>2 DEF KPrograms
  <2>2. LET last == s + (IF s = report.from THEN K!Size ELSE K!Size) - 1
        IN  e = IF last < report.to THEN last ELSE report.to
    BY <1>2, <2>1 DEF K!PageEnd, K!EndOf
  <2>3. /\ KPage(report.from, report.to, K!Size, s, e) /\ e \in Int /\ report.from <= s /\ s <= e /\ e <= report.to
        /\ e # report.to => e + 1 <= report.to /\ KStart(report.from, K!Size, e + 1)
    BY <1>2, <2>1, <2>2, KNext
  <2>4. PICK found \in SUBSET (ToCollect \X K!Hashes) : found = K!Page(s, e)
    BY <1>2, KPageType DEF K!Page
  <2>5. PICK next, stage : /\ next = IF e = report.to THEN report.from ELSE e + 1
                           /\ stage = IF e = report.to THEN "shifted" ELSE "aligned"
    OBVIOUS
  <2>6. program' = [program EXCEPT !.logs = program.logs \cup found, !.page = next, !.at = stage] /\ verdict' = "none"
    BY <1>2, <1>4, <2>1, <2>4, <2>5 DEF K!ReadAligned
  <2>7. next \in Int /\ stage \in KGuards
    BY <1>2, <2>3, <2>5 DEF KGuards
  <2>8. PICK p : p = program'
    OBVIOUS
  <2>9. /\ p \in KPrograms /\ p.at = stage /\ p.page = next /\ p.logs = program.logs \cup found
        /\ p.from = program.from /\ p.to = program.to /\ p.state = program.state /\ p.hash = program.hash
        /\ p.read = program.read
    BY <1>2, <2>6, <2>7, <2>8 DEF KPrograms
  <2>10. KTurns(p)
    BY <1>2, <2>3, <2>5, <2>9 DEF KTurns, KStart
  <2>11. ASSUME KMatches PROVE KRead(p)
    <3>1. found = K!PageIn(K!Branch, s, e)
      BY <1>2, <2>1, <2>3, <2>4, <2>11, KSamePage
    <3>2. KRead(program)
      BY <1>2, <2>11
    <3>3. \A b \in report.from .. s - 1 : KCovered(program.logs, K!Size, b)
      BY <1>1, <2>1, <3>2 DEF KRead
    <3>4. \A b \in report.from .. e : KCovered(p.logs, K!Size, b)
      BY <1>2, <2>1, <2>3, <2>9, <3>1, <3>3, KCovers
    <3>5. p.logs \subseteq {<<l, K!Hash(placed[l], K!Branch)>> : l \in K!InWindow}
      <4>1. found \subseteq {<<l, K!Hash(placed[l], K!Branch)>> : l \in K!InWindow}
        BY <1>2, <2>1, <2>3, <3>1, KPageOf
      <4> QED
        BY <2>9, <3>2, <4>1 DEF KRead
    <3>6. p.read \subseteq {<<l, TokenSays[report.hash][l]>> : l \in K!Tokens(p.logs)}
      <4>1. K!Tokens(program.logs) \subseteq K!Tokens(p.logs)
        BY <2>9 DEF K!Tokens
      <4>2. p.read \subseteq {<<l, TokenSays[report.hash][l]>> : l \in K!Tokens(program.logs)}
        BY <2>9, <3>2 DEF KRead
      <4> QED
        BY <4>1, <4>2
    <3>7. CASE e = report.to
      <4>1. p.at = "shifted" /\ p.page = report.from
        BY <2>5, <2>9, <3>7
      <4>2. \A b \in report.from .. report.from - 1 : KCovered(p.logs, K!Shift, b)
        BY <1>2
      <4> QED
        BY <3>4, <3>5, <3>6, <3>7, <4>1, <4>2 DEF KRead
    <3>8. CASE e # report.to
      <4>1. p.at = "aligned" /\ p.page - 1 = e
        BY <2>3, <2>5, <2>9, <3>8
      <4> QED
        BY <3>4, <3>5, <3>6, <4>1 DEF KRead
    <3> QED
      BY <3>7, <3>8
  <2>12. p.at # "transactions"
    BY <2>5, <2>9
  <2> QED
    BY <1>1, <1>2, <2>6, <2>7, <2>8, <2>9, <2>10, <2>11, <2>12, KGuarding
<1> QED
  BY <1>3, <1>4

LEMMA KReadShiftedInv ==
  ASSUME KInv, K!ReadShifted, quirk' = quirk, placed' = placed, endpoint' = endpoint
  PROVE  KInv'
<1>1. KStays /\ program.at = "shifted" /\ program.at \in KGuards
  BY DEF K!ReadShifted, KStays, KGuards
<1>2. /\ KChain /\ KReported /\ report.made /\ verdict = "none" /\ program \in KPrograms
      /\ program.from = report.from /\ program.to = report.to
      /\ program.state = report.state /\ program.hash = report.hash
      /\ report.from \in Int /\ report.to \in Int /\ report.from <= report.to
      /\ endpoint.is \in K!Branches /\ K!Branch \in K!Branches
      /\ program.page <= report.to /\ KStart(report.from, K!Shift, program.page)
      /\ (KMatches => KRead(program)) /\ (~ KMatches => endpoint.left = 0)
  BY <1>1, KOnGuard DEF KTurns
<1>3. CASE K!Refuse
  BY <1>1, <1>3, KRefuses
<1>4. CASE ~ K!Refuse
  <2>1. PICK s, e : s \in Int /\ s = program.page /\ e = K!PageEnd(K!Shift)
    BY <1>2 DEF KPrograms
  <2>2. LET last == s + (IF s = report.from THEN K!Shift ELSE K!Size) - 1
        IN  e = IF last < report.to THEN last ELSE report.to
    BY <1>2, <2>1 DEF K!PageEnd, K!EndOf
  <2>3. /\ KPage(report.from, report.to, K!Shift, s, e) /\ e \in Int /\ report.from <= s /\ s <= e /\ e <= report.to
        /\ e # report.to => e + 1 <= report.to /\ KStart(report.from, K!Shift, e + 1)
    BY <1>2, <2>1, <2>2, KNext
  <2>4. PICK stage : stage = IF e = report.to THEN "headers" ELSE "shifted"
    OBVIOUS
  <2>5. /\ program' = [program EXCEPT !.page = e + 1, !.at = stage] /\ verdict' = "none"
        /\ K!Page(s, e) = {l \in program.logs : placed[l[1]] \in s .. e}
    BY <1>2, <1>4, <2>1, <2>4 DEF K!ReadShifted
  <2>6. stage \in KGuards
    BY <2>4 DEF KGuards
  <2>7. PICK p : p = program'
    OBVIOUS
  <2>8. /\ p \in KPrograms /\ p.at = stage /\ p.page = e + 1 /\ p.logs = program.logs
        /\ p.from = program.from /\ p.to = program.to /\ p.state = program.state /\ p.hash = program.hash
        /\ p.read = program.read
    <3>1. PICK next \in Int : next = e + 1
      BY <2>3
    <3>2. p = [program EXCEPT !.page = next, !.at = stage]
      BY <2>5, <2>7, <3>1
    <3>3. p \in KPrograms
      BY <1>2, <2>6, <3>2 DEF KPrograms
    <3> QED
      BY <1>2, <3>1, <3>2, <3>3 DEF KPrograms
  <2>9. KTurns(p)
    BY <1>2, <2>3, <2>4, <2>8 DEF KTurns
  <2>10. ASSUME KMatches PROVE KRead(p)
    <3>1. K!PageIn(K!Branch, s, e) \subseteq p.logs
      BY <1>2, <2>1, <2>3, <2>5, <2>8, <2>10, KSamePage
    <3>2. KRead(program)
      BY <1>2, <2>10
    <3>3. \A b \in report.from .. s - 1 : KCovered(program.logs, K!Shift, b)
      BY <1>1, <2>1, <3>2 DEF KRead
    <3>4. \A b \in report.from .. e : KCovered(p.logs, K!Shift, b)
      BY <1>2, <2>1, <2>3, <2>8, <3>1, <3>3, KCovers
    <3>5. /\ p.logs \subseteq {<<l, K!Hash(placed[l], K!Branch)>> : l \in K!InWindow}
          /\ p.read \subseteq {<<l, TokenSays[report.hash][l]>> : l \in K!Tokens(p.logs)}
          /\ \A b \in report.from .. report.to : KCovered(p.logs, K!Size, b)
      BY <1>1, <2>8, <3>2 DEF KRead
    <3>6. CASE e = report.to
      <4>1. p.at = "headers"
        BY <2>4, <2>8, <3>6
      <4> QED
        BY <3>4, <3>5, <3>6, <4>1 DEF KRead
    <3>7. CASE e # report.to
      <4>1. p.at = "shifted" /\ p.page - 1 = e
        BY <2>3, <2>4, <2>8, <3>7
      <4> QED
        BY <3>4, <3>5, <4>1 DEF KRead
    <3> QED
      BY <3>6, <3>7
  <2>11. p.at # "transactions"
    BY <2>4, <2>8
  <2> QED
    BY <1>1, <1>2, <2>5, <2>6, <2>7, <2>8, <2>9, <2>10, <2>11, KGuarding
<1> QED
  BY <1>3, <1>4

-----------------------------------------------------------------------------
\* All pages of both layouts are read.
KPaged == {"headers", "identities", "recheck", "transactions"}

\* A step of the guard after its pages, with what it has read of them.
LEMMA KLater ==
  ASSUME KInv, KStays, program.at \in KPaged \ {"transactions"}, verdict' = verdict, NEW p, program' = p,
         p \in KPrograms, p.at \in KPaged, p.logs = program.logs,
         p.from = program.from, p.to = program.to, p.state = program.state, p.hash = program.hash,
         \/ p.read = program.read
         \/ KMatches => p.read \subseteq {<<l, TokenSays[report.hash][l]>> : l \in K!Tokens(p.logs)},
         p.at = "transactions" => KMatches,
         p.at \in {"recheck", "transactions"} => (KMatches => K!Tokens(p.logs) \subseteq {x[1] : x \in p.read})
  PROVE  KInv'
<1>1. program.at \in KGuards /\ p.at \in KGuards /\ program.at \notin {"aligned", "shifted", "transactions"}
      /\ p.at \notin {"aligned", "shifted"}
  BY DEF KPaged, KGuards
<1>2. /\ report.made /\ verdict = "none"
      /\ program.from = report.from /\ program.to = report.to
      /\ program.state = report.state /\ program.hash = report.hash
      /\ (KMatches => KRead(program)) /\ (~ KMatches => endpoint.left = 0)
  BY <1>1, KOnGuard
<1>3. KTurns(p)
  BY <1>1 DEF KTurns
<1>4. KMatches => KRead(p)
  BY <1>1, <1>2 DEF KRead
<1> QED
  BY <1>1, <1>2, <1>3, <1>4, KGuarding

\* Where the guard goes on after its pages.
LEMMA KMoves ==
  ASSUME program \in KPrograms, NEW stage \in KPaged, program' = [program EXCEPT !.at = stage]
  PROVE  /\ program' \in KPrograms /\ program'.at = stage /\ program'.logs = program.logs /\ program'.read = program.read
         /\ program'.from = program.from /\ program'.to = program.to
         /\ program'.state = program.state /\ program'.hash = program.hash
BY DEF KPrograms, KPaged, KGuards

LEMMA KReadHeadersInv ==
  ASSUME KInv, K!ReadHeaders, quirk' = quirk, placed' = placed, endpoint' = endpoint
  PROVE  KInv'
<1>1. KStays /\ program.at = "headers" /\ program \in KPrograms /\ program.at \in KPaged \ {"transactions"}
  BY DEF K!ReadHeaders, KStays, KPaged, KInv, KShape
<1>2. CASE K!Refuse
  BY <1>1, <1>2, KRefuses
<1>3. CASE program' = [program EXCEPT !.at = "identities"] /\ verdict' = verdict
  <2>1. "identities" \in KPaged /\ "identities" \notin {"recheck", "transactions"}
    BY DEF KPaged
  <2> QED
    BY <1>1, <1>3, <2>1, KMoves, KLater
<1>4. CASE program.tries < HeaderTries /\ program' = [program EXCEPT !.tries = @ + 1] /\ verdict' = verdict
  <2>1. program.tries + 1 \in 0 .. HeaderTries
    BY <1>1, <1>4, CollectionAssumption DEF KPrograms
  <2>2. /\ program' \in KPrograms /\ program'.at = "headers"
        /\ program'.logs = program.logs /\ program'.read = program.read
        /\ program'.from = program.from /\ program'.to = program.to
        /\ program'.state = program.state /\ program'.hash = program.hash
    BY <1>1, <1>4, <2>1 DEF KPrograms
  <2>3. "headers" \in KPaged /\ "headers" \notin {"recheck", "transactions"}
    BY DEF KPaged
  <2> QED
    BY <1>1, <1>4, <2>2, <2>3, KLater
<1> QED
  BY <1>2, <1>3, <1>4 DEF K!ReadHeaders, K!Check

LEMMA KReadIdentitiesInv ==
  ASSUME KInv, K!ReadIdentities, quirk' = quirk, placed' = placed, endpoint' = endpoint
  PROVE  KInv'
<1>1. KStays /\ program.at = "identities" /\ program \in KPrograms /\ program.at \in KPaged \ {"transactions"} /\ KShape
      /\ program.at \in KGuards
  BY DEF K!ReadIdentities, KStays, KPaged, KGuards, KInv, KShape
<1>2. CASE K!Refuse
  BY <1>1, <1>2, KRefuses
<1>3. CASE K!Unread = {} /\ program' = [program EXCEPT !.at = "recheck"] /\ verdict' = verdict
  <2>1. "recheck" \in KPaged /\ "recheck" # "transactions"
    BY DEF KPaged
  <2>2. K!Tokens(program.logs) \subseteq {x[1] : x \in program.read}
    BY <1>3 DEF K!Unread
  <2> QED
    BY <1>1, <1>3, <2>1, <2>2, KMoves, KLater
<1>4. CASE (\A l \in K!Unread : K!Answers(l)) /\ K!ReadBatch /\ verdict' = verdict
  <2>1. PICK batch \in SUBSET ToCollect :
               /\ batch \subseteq K!Unread
               /\ program' = [program EXCEPT !.read = @ \cup {<<l, K!Says(l)>> : l \in batch}]
               /\ program' \in KPrograms
    BY <1>1, <1>4, KBatch
  <2>2. PICK p : p = program'
    OBVIOUS
  <2>3. /\ p.at = "identities" /\ p.logs = program.logs /\ p.read = program.read \cup {<<l, K!Says(l)>> : l \in batch}
        /\ p.from = program.from /\ p.to = program.to /\ p.state = program.state /\ p.hash = program.hash
    BY <1>1, <2>1, <2>2 DEF KPrograms
  <2>4. ASSUME KMatches PROVE p.read \subseteq {<<l, TokenSays[report.hash][l]>> : l \in K!Tokens(p.logs)}
    <3>1. KRead(program) /\ program.state = report.state
      BY <1>1, <2>4, KOnGuard
    <3>2. \A l \in batch : K!Says(l) = TokenSays[report.hash][l] /\ l \in K!Tokens(p.logs)
      <4>1. K!Hash(program.state, endpoint.is) = report.hash
        BY <2>4, <3>1 DEF KMatches
      <4> QED
        BY <1>4, <2>1, <2>3, <4>1 DEF K!Says, K!Unread
    <3>3. program.read \subseteq {<<l, TokenSays[report.hash][l]>> : l \in K!Tokens(p.logs)}
      BY <2>3, <3>1 DEF KRead
    <3> QED
      BY <2>3, <3>2, <3>3
  <2>5. "identities" \in KPaged /\ "identities" \notin {"recheck", "transactions"}
    BY DEF KPaged
  <2> QED
    BY <1>1, <1>4, <2>1, <2>2, <2>3, <2>4, <2>5, KLater
<1> QED
  BY <1>2, <1>3, <1>4 DEF K!ReadIdentities, K!Check

LEMMA KRecheckInv ==
  ASSUME KInv, K!Recheck, quirk' = quirk, placed' = placed, endpoint' = endpoint
  PROVE  KInv'
<1>1. KStays /\ program.at = "recheck" /\ program \in KPrograms /\ program.at \in KPaged \ {"transactions"}
      /\ program.at \in KGuards
  BY DEF K!Recheck, KStays, KPaged, KGuards, KInv, KShape
<1>2. CASE K!Refuse
  BY <1>1, <1>2, KRefuses
<1>3. CASE /\ K!Hash(program.state, endpoint.is) = program.hash
           /\ program' = [program EXCEPT !.at = "transactions"] /\ verdict' = verdict
  <2>1. KMatches /\ KRead(program)
    BY <1>1, <1>3, KOnGuard DEF KMatches
  <2>2. K!Tokens(program.logs) \subseteq {x[1] : x \in program.read}
    BY <1>1, <2>1 DEF KRead
  <2>3. "transactions" \in KPaged
    BY DEF KPaged
  <2> QED
    BY <1>1, <1>3, <2>1, <2>2, <2>3, KMoves, KLater
<1> QED
  BY <1>2, <1>3 DEF K!Recheck, K!Check

LEMMA KJudgeReportInv ==
  ASSUME KInv, K!JudgeReport, quirk' = quirk, placed' = placed, endpoint' = endpoint
  PROVE  KInv'
<1>1. KStays /\ program.at = "transactions" /\ program.at \in KGuards /\ program' = K!Idle
      /\ verdict' \in {"refused", "accepted"}
  BY DEF K!JudgeReport, K!Stops, KStays, KGuards
<1>2. CASE verdict' = "refused"
  BY <1>1, <1>2, KStops
<1>3. CASE verdict' = "accepted"
  <2>1. K!Agrees
    BY <1>3 DEF K!JudgeReport
  <2>2. KChain /\ KReported /\ report.made /\ program.from = report.from /\ program.to = report.to
    BY <1>1, KOnGuard
  <2>3. KRead(program)
    BY <1>1 DEF KInv, KGuarded
  <2>4. PICK counted \in SUBSET K!InWindow :
               /\ {l \in K!InWindow : K!Findable(l)} \subseteq counted
               /\ report.tables = K!Reference(counted)
    BY <1>1, <2>1, <2>2, <2>3, KAccepts DEF K!Agrees
  <2>5. /\ K!InWindow' = K!InWindow /\ report' = report
        /\ \A l : K!Findable(l)' = K!Findable(l)
        /\ \A ls : K!Reference(ls)' = K!Reference(ls)
    BY <1>1, KSame DEF KStays
  <2>6. \E c \in SUBSET K!InWindow' :
          /\ {l \in K!InWindow' : K!Findable(l)'} \subseteq c
          /\ report'.tables = K!Reference(c)'
    BY <2>4, <2>5
  <2>7. AcceptedIsChain'
    BY <2>6 DEF AcceptedIsChain, K!AcceptedIsChain
  <2>8. program' \in KPrograms /\ program'.at \notin KBefore /\ program'.at \notin KGuards
    BY <1>1, KIdles DEF KBefore, KGuards
  <2> QED
    BY <1>1, <1>3, <2>7, <2>8, KStaying DEF KInv, KShape, KCollects, KGuarded
<1> QED
  BY <1>1, <1>2, <1>3

LEMMA KCallFailsInv ==
  ASSUME KInv, K!CallFails, quirk' = quirk, placed' = placed, endpoint' = endpoint
  PROVE  KInv'
BY KStops DEF K!CallFails, K!Stops, KStays

-----------------------------------------------------------------------------
\* Where nothing is done but the endpoint may take the other branch, for the last time.
LEMMA KFlipInv ==
  ASSUME KInv, quirk' = quirk, placed' = placed, program' = program, report' = report, verdict' = verdict,
         endpoint' = endpoint \/ (endpoint.left > 0 /\ endpoint'.left = 0),
         endpoint' \in [is : K!Branches, left : 0 .. BranchFlips]
  PROVE  KInv'
<1>1. UNCHANGED <<quirk, placed, report>>
  OBVIOUS
<1>2. /\ KChain' = KChain /\ K!InWindow' = K!InWindow
      /\ \A r : KRead(r)' = KRead(r) /\ KTurns(r)' = KTurns(r)
      /\ \A l : K!Findable(l)' = K!Findable(l)
      /\ \A ls : K!Reference(ls)' = K!Reference(ls)
  BY <1>1, KSame
<1>3. KShape' /\ KReported' /\ KCollects'
  BY <1>2 DEF KInv, KShape, KReported, KCollects, KAsked
<1>4. AcceptedIsChain'
  <2>1. SUFFICES ASSUME verdict = "accepted"
                 PROVE  \E counted \in SUBSET K!InWindow' :
                          /\ {l \in K!InWindow' : K!Findable(l)'} \subseteq counted
                          /\ report'.tables = K!Reference(counted)'
    BY DEF AcceptedIsChain, K!AcceptedIsChain
  <2>2. PICK counted \in SUBSET K!InWindow :
               /\ {l \in K!InWindow : K!Findable(l)} \subseteq counted
               /\ report.tables = K!Reference(counted)
    BY <2>1 DEF KInv, AcceptedIsChain, K!AcceptedIsChain
  <2> QED
    BY <1>2, <2>2
<1>5. KGuarded'
  <2>1. SUFFICES ASSUME program.at \in KGuards PROVE KGuarded'
    BY DEF KGuarded
  <2>2. PICK p : p = program
    OBVIOUS
  <2>3. p = program'
    BY <2>2
  <2>4. (KRead(p)' <=> KRead(p)) /\ (KTurns(p)' <=> KTurns(p))
    BY <1>2
  <2>5. (KRead(program) <=> KRead(p)) /\ (KTurns(program) <=> KTurns(p))
    BY <2>2
  <2>6. (KRead(program)' <=> KRead(p)') /\ (KTurns(program)' <=> KTurns(p)')
    BY <2>3 DEF KRead, KTurns
  <2>7. CASE endpoint' = endpoint
    <3>1. KMatches' <=> KMatches
      BY <2>7 DEF KMatches
    <3> QED
      BY <2>4, <2>5, <2>6, <2>7, <3>1 DEF KInv, KGuarded
  <2>8. CASE endpoint.left > 0 /\ endpoint'.left = 0
    <3>1. endpoint.left # 0
      BY <2>8 DEF KInv, KShape
    <3> QED
      BY <2>1, <2>4, <2>5, <2>6, <2>8, <3>1 DEF KInv, KGuarded
  <2> QED
    BY <2>7, <2>8
<1> QED
  BY <1>3, <1>4, <1>5 DEF KInv

LEMMA KFlips ==
  ASSUME KInv, BranchFlips <= 1, K!Flip
  PROVE  KInv'
<1>1. endpoint \in [is : K!Branches, left : 0 .. BranchFlips] /\ BranchFlips \in Nat
  BY CollectionAssumption DEF KInv, KShape
<1>2. PICK g : g = (IF endpoint.is = "a" THEN "b" ELSE "a") /\ g \in K!Branches
  BY DEF K!Branches
<1>3. endpoint.left > 0 /\ endpoint.left = 1 /\ endpoint.left - 1 = 0
  BY <1>1 DEF K!Flip
<1>4. endpoint' = [is |-> g, left |-> 0]
  BY <1>2, <1>3 DEF K!Flip
<1>5. endpoint' \in [is : K!Branches, left : 0 .. BranchFlips] /\ endpoint'.left = 0
  BY <1>1, <1>2, <1>4
<1> QED
  BY <1>3, <1>5, KFlipInv DEF K!Flip

\* Every step keeps what the guard relies on.
LEMMA KNextInv ==
  ASSUME KInv, BranchFlips <= 1, [K!Next]_(K!vars)
  PROVE  KInv'
<1>1. CASE K!Works
  <2>1. quirk' = quirk /\ placed' = placed /\ endpoint' = endpoint
    BY <1>1 DEF K!Works
  <2>2. ASSUME NEW w \in WindowsAsked, K!Capture(w[1], w[2], w[3]) PROVE KInv'
    BY <2>1, <2>2, KCaptureInv
  <2>3. CASE K!ReadLogs \/ K!ReadTokens \/ K!Report
    BY <2>1, <2>3, KReadLogsInv, KReadTokensInv, KReportInv
  <2>4. CASE K!Anchor \/ K!ReadAligned \/ K!ReadShifted \/ K!ReadHeaders
    BY <2>1, <2>4, KAnchorInv, KReadAlignedInv, KReadShiftedInv, KReadHeadersInv
  <2>5. CASE K!ReadIdentities \/ K!Recheck \/ K!JudgeReport \/ K!CallFails
    BY <2>1, <2>5, KReadIdentitiesInv, KRecheckInv, KJudgeReportInv, KCallFailsInv
  <2> QED
    BY <1>1, <2>2, <2>3, <2>4, <2>5 DEF K!Works
<1>2. CASE K!Flip
  BY <1>2, KFlips
<1>3. CASE UNCHANGED K!vars
  <2>1. /\ quirk' = quirk /\ placed' = placed /\ program' = program /\ report' = report /\ verdict' = verdict
        /\ endpoint' = endpoint
    BY <1>3 DEF K!vars
  <2> QED
    BY <2>1, KFlipInv DEF KInv, KShape
<1> QED
  BY <1>1, <1>2, <1>3 DEF K!Next

LEMMA KTypes == KInv => K!TypeOK
BY DEF KInv, KShape, KChain, KPrograms, KBefore, KGuards, K!TypeOK

\* A report the guard accepts counts every launch of its window that could be found, each with the value, date and
\* deployer it has in the branch of the recorded state, and no other, for any chain and fork, any windows, any size
\* of a page of at least four blocks and any rule by which the endpoint leaves launches out, where the endpoint
\* changes its branch once at most.
THEOREM AcceptedIsChainAlways ==
  ASSUME BranchFlips <= 1
  PROVE  K!Spec => [](K!TypeOK /\ AcceptedIsChain)
<1>1. K!Init => KInv
  BY KInitInv
<1>2. KInv /\ [K!Next]_(K!vars) => KInv'
  BY KNextInv
<1>3. KInv => K!TypeOK /\ AcceptedIsChain
  BY KTypes DEF KInv
<1> QED
  BY <1>1, <1>2, <1>3, PTL DEF K!Spec

-----------------------------------------------------------------------------
(* IdentityCounts.  A table is that of the values counted so far: pairs of *)
(* a launch's place and a position among its values.                       *)

NValue(q) == N!ValuesOf(announced[q[1]])[q[2]]

\* The pairs with a value, what a table says of them, and the table of some pairs.
NWith(C, ns, h) == {q \in C : NValue(q).ns = ns /\ NValue(q).value = h}
NFirst(Q, i)    == (\E q \in Q : q[1] = i) /\ \A q \in Q : i <= q[1]
NEntry(ns, Q)   ==
  [n |-> Cardinality(Q), first |-> CHOOSE i : NFirst(Q, i), by |-> {announced[q[1]].by : q \in Q},
   spelt |-> IF ns = "ticker_skeleton" THEN {NValue(q).spelling : q \in Q} \ {Unset} ELSE {}]
NHashes(C, ns)  == {h \in {NValue(q).value : q \in C} : h # Unset /\ NWith(C, ns, h) # {}}
NTable(C)       == [ns \in N!Namespaces |-> [h \in NHashes(C, ns) |-> NEntry(ns, NWith(C, ns, h))]]

NPairs(C) == C \subseteq Nat \X Nat /\ IsFiniteSet(C)

LEMMA NCard == \A B : N!Cardinality(B) = Cardinality(B)
BY DEF N!Cardinality, Cardinality

LEMMA NHashesAre ==
  \A C, ns, h : h \in NHashes(C, ns) <=> h # Unset /\ NWith(C, ns, h) # {}
BY DEF NHashes, NWith

\* There is one first of some pairs.
LEMMA NFirstIs ==
  ASSUME NEW C, NPairs(C), C # {}
  PROVE  /\ NFirst(C, CHOOSE i : NFirst(C, i)) /\ (CHOOSE i : NFirst(C, i)) \in Nat
         /\ \A i : NFirst(C, i) => i = CHOOSE j : NFirst(C, j)
<1> DEFINE places == {q[1] : q \in C}
<1>1. places \subseteq Nat /\ places # {}
  BY DEF NPairs
<1>2. PICK i \in places : \A j \in places : i <= j
  BY <1>1, LeastElement
<1>3. NFirst(C, i)
  BY <1>2 DEF NFirst
<1>4. ASSUME NEW j, NEW k, NFirst(C, j), NFirst(C, k) PROVE j = k /\ j \in Nat
  <2>1. j \in Nat /\ k \in Nat /\ j <= k /\ k <= j
    BY <1>1, <1>4 DEF NFirst, NPairs
  <2> QED
    BY <2>1
<1>5. NFirst(C, CHOOSE j : NFirst(C, j))
  BY <1>3
<1> QED
  BY <1>4, <1>5

\* One more pair with a value.
LEMMA NEntryAdds ==
  ASSUME NEW C, NPairs(C), NEW q \in Nat \X Nat, q \notin C, NEW ns
  PROVE  NEntry(ns, C \cup {q}) =
           LET e == IF C # {} THEN NEntry(ns, C) ELSE [n |-> 0, first |-> q[1], by |-> {}, spelt |-> {}]
           IN  [n |-> e.n + 1, first |-> N!Earlier(q[1], e.first), by |-> e.by \cup {announced[q[1]].by},
                spelt |-> e.spelt \cup {x \in {NValue(q).spelling} : ns \in N!Skeletons /\ x # Unset}]
<1> DEFINE R == C \cup {q}
           e == IF C # {} THEN NEntry(ns, C) ELSE [n |-> 0, first |-> q[1], by |-> {}, spelt |-> {}]
<1>1. NPairs(R) /\ R # {}
  BY FS_AddElement DEF NPairs
<1>2. Cardinality(R) = e.n + 1
  <2>1. Cardinality(R) = Cardinality(C) + 1
    BY FS_AddElement DEF NPairs
  <2>2. C = {} => Cardinality(C) = 0
    BY FS_EmptySet
  <2> QED
    BY <2>1, <2>2 DEF NEntry
<1>3. (CHOOSE i : NFirst(R, i)) = N!Earlier(q[1], e.first)
  <2>1. NFirst(R, N!Earlier(q[1], e.first))
    <3>1. CASE C = {}
      <4>1. q[1] \in Nat
        OBVIOUS
      <4> QED
        BY <3>1, <4>1 DEF NFirst, N!Earlier
    <3>2. CASE C # {}
      <4>1. PICK i : i = e.first
        OBVIOUS
      <4>2. NFirst(C, i) /\ i \in Nat
        BY <3>2, <4>1, NFirstIs DEF NEntry
      <4>3. q[1] \in Nat /\ \A p \in C : p[1] \in Nat
        BY DEF NPairs
      <4>4. NFirst(R, IF q[1] < i THEN q[1] ELSE i)
        BY <4>2, <4>3 DEF NFirst
      <4> QED
        BY <4>1, <4>4 DEF N!Earlier
    <3> QED
      BY <3>1, <3>2
  <2> QED
    BY <1>1, <2>1, NFirstIs
<1>4. {announced[p[1]].by : p \in R} = e.by \cup {announced[q[1]].by}
  BY DEF NEntry
<1>5. (IF ns = "ticker_skeleton" THEN {NValue(p).spelling : p \in R} \ {Unset} ELSE {})
        = e.spelt \cup {x \in {NValue(q).spelling} : ns \in N!Skeletons /\ x # Unset}
  <2>1. e.spelt = IF ns = "ticker_skeleton" THEN {NValue(p).spelling : p \in C} \ {Unset} ELSE {}
    BY DEF NEntry
  <2> HIDE DEF e
  <2> QED
    BY <2>1 DEF N!Skeletons
<1>6. NEntry(ns, R) = [n |-> Cardinality(R), first |-> CHOOSE i : NFirst(R, i), by |-> {announced[p[1]].by : p \in R},
                       spelt |-> IF ns = "ticker_skeleton" THEN {NValue(p).spelling : p \in R} \ {Unset} ELSE {}]
  BY DEF NEntry
<1> HIDE DEF e, R
<1>7. NEntry(ns, R) = [n |-> e.n + 1, first |-> N!Earlier(q[1], e.first), by |-> e.by \cup {announced[q[1]].by},
                spelt |-> e.spelt \cup {x \in {NValue(q).spelling} : ns \in N!Skeletons /\ x # Unset}]
  BY <1>2, <1>3, <1>4, <1>5, <1>6
<1> QED
  BY <1>7 DEF e, R

LEMMA NHashesSame ==
  ASSUME NEW C, NEW R, NEW ns, \A h : NWith(R, ns, h) # {} /\ h # Unset <=> NWith(C, ns, h) # {} /\ h # Unset
  PROVE  NHashes(R, ns) = NHashes(C, ns)
<1>1. \A h : h \in NHashes(R, ns) <=> h \in NHashes(C, ns)
  BY NHashesAre
<1> QED
  BY <1>1

LEMMA NAddNothing == \A t, ns, date, by, sp : N!AddHash(t, ns, Unset, date, by, sp) = t
BY DEF N!AddHash

LEMMA NAddSomething ==
  ASSUME NEW t, NEW ns, NEW v, v # Unset, NEW date, NEW by, NEW sp, NEW e,
         e = IF v \in DOMAIN t[ns] THEN t[ns][v] ELSE [n |-> 0, first |-> date, by |-> {}, spelt |-> {}]
  PROVE  N!AddHash(t, ns, v, date, by, sp) =
           N!WithEntry(t, ns, v, [n |-> e.n + 1, first |-> N!Earlier(date, e.first), by |-> e.by \cup {by},
                                  spelt |-> e.spelt \cup {x \in {sp} : ns \in N!Skeletons /\ x # Unset}])
<1>1. N!AddHash(t, ns, v, date, by, sp) = N!WithEntry(t, ns, v, N!Grown(N!EntryOf(t, ns, v, date), ns, date, by, sp))
  BY DEF N!AddHash
<1>2. N!EntryOf(t, ns, v, date) = e
  BY DEF N!EntryOf
<1>3. N!Grown(e, ns, date, by, sp) = [n |-> e.n + 1, first |-> N!Earlier(date, e.first), by |-> e.by \cup {by},
                                      spelt |-> e.spelt \cup {x \in {sp} : ns \in N!Skeletons /\ x # Unset}]
  BY DEF N!Grown
<1> QED
  BY <1>1, <1>2, <1>3

\* AddHash counts one pair more.
LEMMA NAdds ==
  ASSUME NEW C, NPairs(C), NEW q \in Nat \X Nat, q \notin C, NValue(q).ns \in N!Namespaces
  PROVE  N!AddHash(NTable(C), NValue(q).ns, NValue(q).value, q[1], announced[q[1]].by, NValue(q).spelling) = NTable(C \cup {q})
<1> DEFINE R == C \cup {q}
<1>1. PICK ns, v, sp, by : ns = NValue(q).ns /\ v = NValue(q).value /\ sp = NValue(q).spelling /\ by = announced[q[1]].by
  OBVIOUS
<1>2. \A m, h : NWith(R, m, h) = IF m = ns /\ h = v THEN NWith(C, m, h) \cup {q} ELSE NWith(C, m, h)
  BY <1>1 DEF NWith
<1>3. CASE v = Unset
  <2>1. \A m : NHashes(R, m) = NHashes(C, m)
    <3> SUFFICES ASSUME NEW m PROVE NHashes(R, m) = NHashes(C, m)
      OBVIOUS
    <3>1. \A h : h # Unset => NWith(R, m, h) = NWith(C, m, h)
      BY <1>2, <1>3
    <3> HIDE DEF R
    <3>2. \A h : NWith(R, m, h) # {} /\ h # Unset <=> NWith(C, m, h) # {} /\ h # Unset
      BY <3>1
    <3> QED
      BY <3>2, NHashesSame
  <2>2. \A m \in N!Namespaces : \A h \in NHashes(C, m) : NWith(R, m, h) = NWith(C, m, h)
    <3>1. \A m, h : h \in NHashes(C, m) => h # Unset
      BY NHashesAre
    <3> HIDE DEF R
    <3> QED
      BY <1>2, <1>3, <3>1
  <2>3. NTable(R) = NTable(C)
    BY <2>1, <2>2 DEF NTable
  <2> QED
    BY <1>1, <1>3, <2>3, NAddNothing
<1>4. CASE v # Unset
  <2> DEFINE t == NTable(C)
             e == IF v \in DOMAIN t[ns] THEN t[ns][v] ELSE [n |-> 0, first |-> q[1], by |-> {}, spelt |-> {}]
             new == [n |-> e.n + 1, first |-> N!Earlier(q[1], e.first), by |-> e.by \cup {by},
                     spelt |-> e.spelt \cup {x \in {sp} : ns \in N!Skeletons /\ x # Unset}]
  <2>1. \A m \in N!Namespaces : t[m] = [h \in NHashes(C, m) |-> NEntry(m, NWith(C, m, h))]
    BY DEF NTable
  <2>2. DOMAIN t[ns] = NHashes(C, ns)
    BY <1>1, <2>1
  <2>3. v \in NHashes(C, ns) <=> NWith(C, ns, v) # {}
    BY <1>4, NHashesAre
  <2>4. NWith(C, ns, v) # {} => t[ns][v] = NEntry(ns, NWith(C, ns, v))
    BY <1>1, <2>1, <2>3
  <2>5. NPairs(NWith(C, ns, v)) /\ q \notin NWith(C, ns, v)
    BY FS_Subset DEF NPairs, NWith
  <2>6. new = NEntry(ns, NWith(C, ns, v) \cup {q})
    <3> DEFINE d == IF NWith(C, ns, v) # {} THEN NEntry(ns, NWith(C, ns, v)) ELSE [n |-> 0, first |-> q[1], by |-> {}, spelt |-> {}]
    <3>1. e = d
      BY <2>2, <2>3, <2>4
    <3>2. NEntry(ns, NWith(C, ns, v) \cup {q}) = [n |-> d.n + 1, first |-> N!Earlier(q[1], d.first), by |-> d.by \cup {by},
                     spelt |-> d.spelt \cup {x \in {sp} : ns \in N!Skeletons /\ x # Unset}]
      BY <1>1, <2>5, NEntryAdds
    <3> HIDE DEF e, d
    <3> QED
      BY <3>1, <3>2
  <2>7. N!AddHash(t, ns, v, q[1], by, sp) = N!WithEntry(t, ns, v, new)
    <3> PICK f : f = e
      OBVIOUS
    <3> HIDE DEF e, t
    <3> QED
      BY <1>4, NAddSomething DEF e
  <2> HIDE DEF new
  <2>8. PICK row : row = [x \in DOMAIN t[ns] \cup {v} |-> IF x = v THEN new ELSE t[ns][x]]
    OBVIOUS
  <2>9. N!WithEntry(t, ns, v, new) = [t EXCEPT ![ns] = row]
    BY <2>8 DEF N!WithEntry
  <2>10. row = [h \in NHashes(R, ns) |-> NEntry(ns, NWith(R, ns, h))]
    <3>1. NHashes(R, ns) = NHashes(C, ns) \cup {v}
      <4>1. \A h : h \in NHashes(R, ns) <=> h \in NHashes(C, ns) \cup {v}
        <5> SUFFICES ASSUME NEW h PROVE h \in NHashes(R, ns) <=> h \in NHashes(C, ns) \/ h = v
          OBVIOUS
        <5>1. NWith(R, ns, h) = IF h = v THEN NWith(C, ns, h) \cup {q} ELSE NWith(C, ns, h)
          BY <1>2
        <5>2. NWith(R, ns, h) # {} <=> NWith(C, ns, h) # {} \/ h = v
          BY <5>1
        <5> HIDE DEF R
        <5> QED
          BY <1>4, <5>2, NHashesAre
      <4> HIDE DEF R
      <4> QED
        BY <4>1
    <3>2. NEntry(ns, NWith(R, ns, v)) = new
      BY <1>2, <2>6
    <3>3. \A h \in NHashes(C, ns) : h # v => NEntry(ns, NWith(R, ns, h)) = t[ns][h]
      <4> SUFFICES ASSUME NEW h \in NHashes(C, ns), h # v PROVE NEntry(ns, NWith(R, ns, h)) = t[ns][h]
        OBVIOUS
      <4>1. NWith(R, ns, h) = NWith(C, ns, h)
        BY <1>2
      <4>2. t[ns] = [x \in NHashes(C, ns) |-> NEntry(ns, NWith(C, ns, x))]
        BY <1>1, <2>1
      <4> HIDE DEF t, R
      <4> QED
        BY <4>1, <4>2
    <3> HIDE DEF t, R
    <3> QED
      BY <2>2, <2>8, <3>1, <3>2, <3>3
  <2>11. \A m \in N!Namespaces : m # ns => t[m] = [h \in NHashes(R, m) |-> NEntry(m, NWith(R, m, h))]
    <3> SUFFICES ASSUME NEW m \in N!Namespaces, m # ns PROVE t[m] = [h \in NHashes(R, m) |-> NEntry(m, NWith(R, m, h))]
      OBVIOUS
    <3>1. \A h : NWith(R, m, h) = NWith(C, m, h)
      BY <1>2
    <3>2. NHashes(R, m) = NHashes(C, m)
      <4> HIDE DEF t, e, R
      <4>1. \A h : NWith(R, m, h) # {} /\ h # Unset <=> NWith(C, m, h) # {} /\ h # Unset
        BY <3>1
      <4> QED
        BY <4>1, NHashesSame
    <3>3. t[m] = [h \in NHashes(C, m) |-> NEntry(m, NWith(C, m, h))]
      BY <2>1
    <3> HIDE DEF t, R
    <3> QED
      BY <3>1, <3>2, <3>3
  <2>12. t = [m \in N!Namespaces |-> t[m]] /\ DOMAIN t = N!Namespaces
    BY DEF NTable
  <2>13. NTable(R) = [m \in N!Namespaces |-> [h \in NHashes(R, m) |-> NEntry(m, NWith(R, m, h))]]
    BY DEF NTable
  <2> HIDE DEF t, R
  <2>14. [t EXCEPT ![ns] = row] = NTable(R)
    BY <1>1, <2>10, <2>11, <2>12, <2>13
  <2> QED
    BY <1>1, <2>7, <2>9, <2>14 DEF t, R
<1> QED
  BY <1>3, <1>4

\* The values of a launch: one of each link field, its recipient, its description, its ticker and the look of it.
NLinks == Len(LinkFields)
NSaid  == NLinks + 4

LEMMA NLinksAre == NLinks \in Nat /\ DOMAIN LinkFields = 1 .. NLinks
BY IdentityAssumption DEF NLinks

LEMMA NValues ==
  \A l : LET v == N!ValuesOf(l)
             r == N!RowOf(l)
         IN  /\ Len(v) = NSaid
             /\ Len(r.links) = NLinks
             /\ \A k \in 1 .. NLinks : r.links[k] = N!Link(l.links[k], LinkFields[k]) /\ v[k] = N!Value("link", r.links[k], Unset)
             /\ v[NLinks + 1] = N!Value("recipient", r.recipient, Unset)
             /\ v[NLinks + 2] = N!Value("description", r.description, Unset)
             /\ v[NLinks + 3] = N!Value("ticker", r.ticker, Unset)
             /\ v[NLinks + 4] = N!Value("ticker_skeleton", r.ticker_skeleton, r.ticker)
<1> SUFFICES ASSUME NEW l
             PROVE  LET v == N!ValuesOf(l)
                        r == N!RowOf(l)
                    IN  /\ Len(v) = NSaid
                        /\ Len(r.links) = NLinks
                        /\ \A k \in 1 .. NLinks : r.links[k] = N!Link(l.links[k], LinkFields[k]) /\ v[k] = N!Value("link", r.links[k], Unset)
                        /\ v[NLinks + 1] = N!Value("recipient", r.recipient, Unset)
                        /\ v[NLinks + 2] = N!Value("description", r.description, Unset)
                        /\ v[NLinks + 3] = N!Value("ticker", r.ticker, Unset)
                        /\ v[NLinks + 4] = N!Value("ticker_skeleton", r.ticker_skeleton, r.ticker)
  OBVIOUS
<1> DEFINE r == N!RowOf(l)
<1>1. PICK links : links = [k \in DOMAIN LinkFields |-> N!Link(l.links[k], LinkFields[k])]
  BY ZenonT(60)
<1>2. PICK f : f = [k \in DOMAIN LinkFields |-> N!Value("link", N!Link(l.links[k], LinkFields[k]), Unset)]
  OBVIOUS
<1>3. PICK g : g = << N!Value("recipient", r.recipient, Unset), N!Value("description", r.description, Unset),
                      N!Value("ticker", r.ticker, Unset), N!Value("ticker_skeleton", r.ticker_skeleton, r.ticker) >>
  OBVIOUS
<1>4. r.links = links /\ N!ValuesOf(l) = f \o g
  BY <1>1, <1>2, <1>3 DEF N!ValuesOf, N!RowOf
<1> DEFINE S == {f[k] : k \in 1 .. NLinks} \cup {g[k] : k \in 1 .. 4}
<1> HIDE DEF r
<1>5. f \in Seq(S) /\ Len(f) = NLinks
  <2>1. f \in [1 .. NLinks -> S]
    BY <1>2, NLinksAre
  <2> HIDE DEF S
  <2> QED
    BY <2>1, NLinksAre
<1>6. g \in Seq(S) /\ Len(g) = 4
  BY <1>3
<1> HIDE DEF S
<1>7. Len(f \o g) = NSaid /\ \A k \in 1 .. NSaid : (f \o g)[k] = IF k <= NLinks THEN f[k] ELSE g[k - NLinks]
  <2>1. Len(f \o g) = Len(f) + Len(g) /\ \A k \in 1 .. Len(f) + Len(g) : (f \o g)[k] = IF k <= Len(f) THEN f[k] ELSE g[k - Len(f)]
    BY <1>5, <1>6, ConcatProperties
  <2> QED
    BY <1>5, <1>6, <2>1 DEF NSaid
<1>8. \A k \in 1 .. NLinks : links[k] = N!Link(l.links[k], LinkFields[k]) /\ (f \o g)[k] = N!Value("link", links[k], Unset)
  <2> SUFFICES ASSUME NEW k \in 1 .. NLinks
               PROVE  links[k] = N!Link(l.links[k], LinkFields[k]) /\ (f \o g)[k] = N!Value("link", links[k], Unset)
    OBVIOUS
  <2>1. k \in 1 .. NSaid /\ k <= NLinks
    BY NLinksAre DEF NSaid
  <2> QED
    BY <1>1, <1>2, <1>7, <2>1, NLinksAre
<1>9. Len(links) = NLinks
  BY <1>1, NLinksAre
<1>10. /\ (f \o g)[NLinks + 1] = g[1] /\ (f \o g)[NLinks + 2] = g[2]
       /\ (f \o g)[NLinks + 3] = g[3] /\ (f \o g)[NLinks + 4] = g[4]
  <2>1. \A j \in 1 .. 4 : NLinks + j \in 1 .. NSaid /\ ~ (NLinks + j <= NLinks) /\ (NLinks + j) - NLinks = j
    BY NLinksAre DEF NSaid
  <2> QED
    BY <1>7, <2>1
<1> QED
  BY <1>3, <1>4, <1>7, <1>8, <1>9, <1>10 DEF r

\* A pair of some launch, and the pairs of the first values of one.
NUpTo(C, i, k) == C \cup {<<i, j>> : j \in 1 .. k}

LEMMA NUpToIs ==
  ASSUME NEW C, NPairs(C), NEW i \in Nat, \A k : <<i, k>> \notin C
  PROVE  /\ NUpTo(C, i, 0) = C
         /\ \A k \in Nat : NPairs(NUpTo(C, i, k)) /\ <<i, k + 1>> \notin NUpTo(C, i, k)
                          /\ NUpTo(C, i, k + 1) = NUpTo(C, i, k) \cup {<<i, k + 1>>}
<1>1. NUpTo(C, i, 0) = C
  BY DEF NUpTo
<1>2. ASSUME NEW k \in Nat PROVE NPairs(NUpTo(C, i, k))
  <2>1. IsFiniteSet({i} \X (1 .. k))
    <3>1. IsFiniteSet({i}) /\ IsFiniteSet(1 .. k)
      BY FS_Singleton, FS_Interval
    <3> QED
      BY <3>1, FS_Product
  <2>2. {<<i, j>> : j \in 1 .. k} = {i} \X (1 .. k)
    OBVIOUS
  <2>3. IsFiniteSet(NUpTo(C, i, k))
    BY <2>1, <2>2, FS_Union DEF NUpTo, NPairs
  <2>4. NUpTo(C, i, k) \subseteq Nat \X Nat
    BY DEF NUpTo, NPairs
  <2> QED
    BY <2>3, <2>4 DEF NPairs
<1>3. ASSUME NEW k \in Nat PROVE <<i, k + 1>> \notin NUpTo(C, i, k)
  <2>1. \A j \in 1 .. k : <<i, j>> # <<i, k + 1>>
    OBVIOUS
  <2> QED
    BY <2>1 DEF NUpTo
<1>4. ASSUME NEW k \in Nat PROVE NUpTo(C, i, k + 1) = NUpTo(C, i, k) \cup {<<i, k + 1>>}
  <2>1. 1 .. k + 1 = (1 .. k) \cup {k + 1}
    OBVIOUS
  <2> QED
    BY <2>1 DEF NUpTo
<1> QED
  BY <1>1, <1>2, <1>3, <1>4

\* The values of a launch are added one by one.
LEMMA NValueAdds ==
  ASSUME NEW C, NPairs(C), NEW i \in Nat, \A k : <<i, k>> \notin C, NEW k \in 1 .. NSaid
  PROVE  LET v == N!ValuesOf(announced[i])[k]
         IN  N!AddHash(NTable(NUpTo(C, i, k - 1)), v.ns, v.value, i, announced[i].by, v.spelling) = NTable(NUpTo(C, i, k))
<1>1. PICK v : v = N!ValuesOf(announced[i])[k]
  OBVIOUS
<1>2. PICK q : q = <<i, k>>
  OBVIOUS
<1>3. k \in Nat /\ k - 1 \in Nat /\ (k - 1) + 1 = k
  BY NLinksAre DEF NSaid
<1>4. q \in Nat \X Nat /\ q[1] = i /\ NValue(q) = v
  BY <1>1, <1>2, <1>3 DEF NValue
<1>5. v.ns \in N!Namespaces
  <2>1. k \in 1 .. NLinks \/ k = NLinks + 1 \/ k = NLinks + 2 \/ k = NLinks + 3 \/ k = NLinks + 4
    BY NLinksAre DEF NSaid
  <2>2. v.ns \in {"link", "recipient", "description", "ticker", "ticker_skeleton"}
    <3>1. PICK w, r : w = N!ValuesOf(announced[i]) /\ r = N!RowOf(announced[i])
      OBVIOUS
    <3>2. /\ \A j \in 1 .. NLinks : w[j] = N!Value("link", r.links[j], Unset)
          /\ w[NLinks + 1] = N!Value("recipient", r.recipient, Unset)
          /\ w[NLinks + 2] = N!Value("description", r.description, Unset)
          /\ w[NLinks + 3] = N!Value("ticker", r.ticker, Unset)
          /\ w[NLinks + 4] = N!Value("ticker_skeleton", r.ticker_skeleton, r.ticker)
      BY <3>1, NValues
    <3>3. \A m, x, y : N!Value(m, x, y).ns = m
      BY DEF N!Value
    <3>4. v = w[k]
      BY <1>1, <3>1
    <3> QED
      BY <2>1, <3>2, <3>3, <3>4
  <2> QED
    BY <2>2 DEF N!Namespaces
<1> DEFINE R == NUpTo(C, i, k - 1)
<1>6. NPairs(R) /\ q \notin R /\ NUpTo(C, i, k) = R \cup {q}
  BY <1>2, <1>3, NUpToIs
<1> HIDE DEF R
<1>7. N!AddHash(NTable(R), NValue(q).ns, NValue(q).value, q[1], announced[q[1]].by, NValue(q).spelling) = NTable(R \cup {q})
  BY <1>4, <1>5, <1>6, NAdds
<1>8. N!AddHash(NTable(R), v.ns, v.value, i, announced[i].by, v.spelling) = NTable(R \cup {q})
  BY <1>4, <1>7
<1> QED
  BY <1>1, <1>6, <1>8 DEF R

\* What the collector and the watcher go through for a launch, and what they arrive at.
NAdded(g, t, i) ==
  [k \in 0 .. Len(N!ValuesOf(announced[i])) |->
     IF k = 0 THEN t
     ELSE N!AddHash(g[k - 1], N!ValuesOf(announced[i])[k].ns, N!ValuesOf(announced[i])[k].value, i, announced[i].by,
                    N!ValuesOf(announced[i])[k].spelling)]
NLinked(g, t, r, i, d) ==
  [k \in 0 .. Len(r.links) |-> IF k = 0 THEN t ELSE N!AddHash(g[k - 1], "link", r.links[k], i, d, Unset)]

LEMMA NLaunchAdds ==
  ASSUME NEW C, NPairs(C), NEW i \in Nat, \A k : <<i, k>> \notin C
  PROVE  N!AddLaunch(NTable(C), i) = NTable(NUpTo(C, i, NSaid))
<1>1. NSaid \in Nat /\ Len(N!ValuesOf(announced[i])) = NSaid
  BY NLinksAre, NValues DEF NSaid
<1> DEFINE G == [k \in 0 .. NSaid |-> NTable(NUpTo(C, i, k))]
           t == NTable(C)
<1>2. G = NAdded(G, t, i)
  <2>1. ASSUME NEW k \in 0 .. NSaid PROVE G[k] = NAdded(G, t, i)[k]
    <3>1. CASE k = 0
      <4>1. G[k] = t
        BY <1>1, <3>1, NUpToIs
      <4>2. NAdded(G, t, i)[k] = t
        BY <1>1, <3>1 DEF NAdded
      <4> QED
        BY <4>1, <4>2
    <3>2. CASE k # 0
      <4>1. k \in 1 .. NSaid /\ k - 1 \in 0 .. NSaid
        BY <1>1, <3>2
      <4>2. G[k - 1] = NTable(NUpTo(C, i, k - 1))
        BY <4>1
      <4>3. NAdded(G, t, i)[k] = N!AddHash(G[k - 1], N!ValuesOf(announced[i])[k].ns, N!ValuesOf(announced[i])[k].value, i,
                                          announced[i].by, N!ValuesOf(announced[i])[k].spelling)
        BY <1>1, <3>2 DEF NAdded
      <4> QED
        BY <4>1, <4>2, <4>3, NValueAdds
    <3> QED
      BY <3>1, <3>2
  <2> QED
    BY <1>1, <2>1 DEF NAdded
<1> HIDE DEF G, t
<1> DEFINE H == CHOOSE g : g = NAdded(g, t, i)
<1>3. H = NAdded(H, t, i)
  BY <1>2
<1>4. N!AddLaunch(t, i) = H[Len(N!ValuesOf(announced[i]))]
  BY DEF N!AddLaunch, NAdded
<1> HIDE DEF H
<1> DEFINE Bad == {k \in Nat : k <= NSaid /\ H[k] # G[k]}
<1>5. ASSUME Bad # {} PROVE FALSE
  <2>1. PICK k \in Bad : \A m \in Bad : k <= m
    BY <1>5, LeastElement
  <2>2. k \in 0 .. NSaid
    BY <1>1, <2>1
  <2>3. CASE k = 0
    BY <1>1, <1>2, <1>3, <2>1, <2>2, <2>3 DEF NAdded
  <2>4. CASE k # 0
    <3>1. k - 1 \in Nat /\ k - 1 <= NSaid /\ ~ (k <= k - 1)
      BY <1>1, <2>1, <2>4
    <3>2. H[k - 1] = G[k - 1]
      BY <2>1, <3>1
    <3>3. NAdded(H, t, i)[k] = NAdded(G, t, i)[k]
      BY <1>1, <2>2, <2>4, <3>2 DEF NAdded
    <3> QED
      BY <1>2, <1>3, <2>1, <3>3
  <2> QED
    BY <2>3, <2>4
<1>6. H[NSaid] = G[NSaid]
  BY <1>1, <1>5
<1>7. G[NSaid] = NTable(NUpTo(C, i, NSaid))
  BY <1>1 DEF G
<1> QED
  BY <1>1, <1>4, <1>6, <1>7 DEF t

LEMMA NRowAdds ==
  ASSUME NEW C, NPairs(C), NEW i \in Nat, \A k : <<i, k>> \notin C
  PROVE  N!AddRow(NTable(C), N!RowOf(announced[i]), i, announced[i].by) = NTable(NUpTo(C, i, NSaid))
<1>1. PICK r, d, w : r = N!RowOf(announced[i]) /\ d = announced[i].by /\ w = N!ValuesOf(announced[i])
  OBVIOUS
<1>2. /\ NLinks \in Nat /\ Len(r.links) = NLinks
      /\ \A j \in 1 .. NLinks : w[j] = N!Value("link", r.links[j], Unset)
      /\ w[NLinks + 1] = N!Value("recipient", r.recipient, Unset)
      /\ w[NLinks + 2] = N!Value("description", r.description, Unset)
      /\ w[NLinks + 3] = N!Value("ticker", r.ticker, Unset)
      /\ w[NLinks + 4] = N!Value("ticker_skeleton", r.ticker_skeleton, r.ticker)
  BY <1>1, NLinksAre, NValues
<1>3. \A m, x, y : N!Value(m, x, y).ns = m /\ N!Value(m, x, y).value = x /\ N!Value(m, x, y).spelling = y
  BY DEF N!Value
<1>4. ASSUME NEW k \in 1 .. NSaid
      PROVE  N!AddHash(NTable(NUpTo(C, i, k - 1)), w[k].ns, w[k].value, i, d, w[k].spelling) = NTable(NUpTo(C, i, k))
  BY <1>1, NValueAdds
<1> DEFINE G == [k \in 0 .. NLinks |-> NTable(NUpTo(C, i, k))]
           t == NTable(C)
<1>5. G = NLinked(G, t, r, i, d)
  <2>1. ASSUME NEW k \in 0 .. NLinks PROVE G[k] = NLinked(G, t, r, i, d)[k]
    <3>1. CASE k = 0
      <4>1. G[k] = t
        BY <1>2, <3>1, NUpToIs
      <4>2. NLinked(G, t, r, i, d)[k] = t
        BY <1>2, <3>1 DEF NLinked
      <4> QED
        BY <4>1, <4>2
    <3>2. CASE k # 0
      <4>1. k \in 1 .. NLinks /\ k \in 1 .. NSaid /\ k - 1 \in 0 .. NLinks
        BY <1>2, <3>2 DEF NSaid
      <4>2. G[k - 1] = NTable(NUpTo(C, i, k - 1)) /\ G[k] = NTable(NUpTo(C, i, k))
        BY <4>1
      <4>3. NLinked(G, t, r, i, d)[k] = N!AddHash(G[k - 1], "link", r.links[k], i, d, Unset)
        BY <1>2, <3>2 DEF NLinked
      <4>4. w[k].ns = "link" /\ w[k].value = r.links[k] /\ w[k].spelling = Unset
        BY <1>2, <1>3, <4>1
      <4> HIDE DEF G, t
      <4> QED
        BY <1>4, <4>1, <4>2, <4>3, <4>4
    <3> QED
      BY <3>1, <3>2
  <2> QED
    BY <1>2, <2>1 DEF NLinked
<1> HIDE DEF G, t
<1> DEFINE H == CHOOSE g : g = NLinked(g, t, r, i, d)
<1>6. H = NLinked(H, t, r, i, d)
  BY <1>5
<1> DEFINE b == N!AddHash(H[NLinks], "recipient", r.recipient, i, d, Unset)
           c == N!AddHash(b, "description", r.description, i, d, Unset)
           e == N!AddHash(c, "ticker", r.ticker, i, d, Unset)
<1>7. N!AddRow(t, r, i, d) = N!AddHash(e, "ticker_skeleton", r.ticker_skeleton, i, d, r.ticker)
  <2>1. N!AddRow(t, r, i, d) =
          LET f == CHOOSE g : g = NLinked(g, t, r, i, d)
              x == N!AddHash(f[Len(r.links)], "recipient", r.recipient, i, d, Unset)
              y == N!AddHash(x, "description", r.description, i, d, Unset)
              z == N!AddHash(y, "ticker", r.ticker, i, d, Unset)
          IN  N!AddHash(z, "ticker_skeleton", r.ticker_skeleton, i, d, r.ticker)
    BY DEF N!AddRow, NLinked
  <2> QED
    BY <1>2, <2>1
<1> HIDE DEF H
<1> DEFINE Bad == {k \in Nat : k <= NLinks /\ H[k] # G[k]}
<1>8. ASSUME Bad # {} PROVE FALSE
  <2>1. PICK k \in Bad : \A m \in Bad : k <= m
    BY <1>8, LeastElement
  <2>2. k \in 0 .. NLinks
    BY <1>2, <2>1
  <2>3. CASE k = 0
    BY <1>2, <1>5, <1>6, <2>1, <2>2, <2>3 DEF NLinked
  <2>4. CASE k # 0
    <3>1. k - 1 \in Nat /\ k - 1 <= NLinks /\ ~ (k <= k - 1)
      BY <1>2, <2>1, <2>4
    <3>2. H[k - 1] = G[k - 1]
      BY <2>1, <3>1
    <3>3. NLinked(H, t, r, i, d)[k] = NLinked(G, t, r, i, d)[k]
      BY <1>2, <2>2, <2>4, <3>2 DEF NLinked
    <3> QED
      BY <1>5, <1>6, <2>1, <3>3
  <2> QED
    BY <2>3, <2>4
<1>9. H[NLinks] = NTable(NUpTo(C, i, NLinks))
  <2>1. H[NLinks] = G[NLinks]
    BY <1>2, <1>8
  <2> QED
    BY <1>2, <2>1 DEF G
<1> HIDE DEF Bad
<1>10. /\ NLinks + 1 \in 1 .. NSaid /\ (NLinks + 1) - 1 = NLinks
       /\ NLinks + 2 \in 1 .. NSaid /\ (NLinks + 2) - 1 = NLinks + 1
       /\ NLinks + 3 \in 1 .. NSaid /\ (NLinks + 3) - 1 = NLinks + 2
       /\ NLinks + 4 \in 1 .. NSaid /\ (NLinks + 4) - 1 = NLinks + 3 /\ NLinks + 4 = NSaid
  BY <1>2 DEF NSaid
<1>11. b = NTable(NUpTo(C, i, NLinks + 1))
  BY <1>2, <1>3, <1>4, <1>9, <1>10
<1> HIDE DEF b
<1>12. c = NTable(NUpTo(C, i, NLinks + 2))
  BY <1>2, <1>3, <1>4, <1>10, <1>11
<1> HIDE DEF c
<1>13. e = NTable(NUpTo(C, i, NLinks + 3))
  BY <1>2, <1>3, <1>4, <1>10, <1>12
<1> HIDE DEF e
<1>14. N!AddHash(e, "ticker_skeleton", r.ticker_skeleton, i, d, r.ticker) = NTable(NUpTo(C, i, NLinks + 4))
  BY <1>2, <1>3, <1>4, <1>10, <1>13
<1> QED
  BY <1>1, <1>7, <1>10, <1>14 DEF t

\* The pairs of the launches from one place to another.
NBetween(a, b) == (a .. b) \X (1 .. NSaid)

LEMMA NBetweenIs ==
  ASSUME NEW a \in Nat \ {0}, NEW b \in Nat
  PROVE  /\ NPairs(NBetween(a, b))
         /\ b < a => NBetween(a, b) = {}
         /\ b >= a => /\ b - 1 \in Nat /\ \A k : <<b, k>> \notin NBetween(a, b - 1)
                      /\ NUpTo(NBetween(a, b - 1), b, NSaid) = NBetween(a, b)
<1>1. NSaid \in Nat
  BY NLinksAre DEF NSaid
<1>2. NPairs(NBetween(a, b))
  <2>1. IsFiniteSet(a .. b) /\ IsFiniteSet(1 .. NSaid)
    BY <1>1, FS_Interval
  <2>2. IsFiniteSet(NBetween(a, b))
    BY <2>1, FS_Product DEF NBetween
  <2> QED
    BY <1>1, <2>2 DEF NBetween, NPairs
<1>3. b < a => NBetween(a, b) = {}
  BY DEF NBetween
<1>4. ASSUME b >= a
      PROVE  /\ b - 1 \in Nat /\ \A k : <<b, k>> \notin NBetween(a, b - 1)
             /\ NUpTo(NBetween(a, b - 1), b, NSaid) = NBetween(a, b)
  <2>1. b - 1 \in Nat /\ b \notin a .. b - 1 /\ a .. b = (a .. b - 1) \cup {b}
    BY <1>4
  <2>2. \A k : <<b, k>> \notin NBetween(a, b - 1)
    BY <2>1 DEF NBetween
  <2>3. NUpTo(NBetween(a, b - 1), b, NSaid) = NBetween(a, b)
    BY <2>1 DEF NBetween, NUpTo
  <2> QED
    BY <2>1, <2>2, <2>3
<1> QED
  BY <1>2, <1>3, <1>4

LEMMA NNothing == NTable({}) = N!NoCounts
<1>1. \A ns, h : NWith({}, ns, h) = {}
  BY DEF NWith
<1>2. \A ns : NHashes({}, ns) = {}
  BY <1>1, NHashesAre
<1>3. \A ns \in N!Namespaces : [h \in NHashes({}, ns) |-> NEntry(ns, NWith({}, ns, h))] = [h \in {} |-> Unset]
  BY <1>2
<1> QED
  BY <1>3 DEF NTable, N!NoCounts

NCollected(g, a, b) == [i \in 0 .. b |-> IF i < a THEN N!NoCounts ELSE N!AddLaunch(g[i - 1], i)]
NTailed(g, a, b) ==
  [i \in 0 .. b |-> IF i < a THEN N!NoCounts ELSE N!AddRow(g[i - 1], N!RowOf(announced[i]), i, announced[i].by)]

LEMMA NStep ==
  ASSUME NEW a \in Nat \ {0}, NEW i \in Nat
  PROVE  /\ i < a => NTable(NBetween(a, i)) = N!NoCounts
         /\ ~ (i < a) => /\ i - 1 \in Nat
                         /\ N!AddLaunch(NTable(NBetween(a, i - 1)), i) = NTable(NBetween(a, i))
                         /\ N!AddRow(NTable(NBetween(a, i - 1)), N!RowOf(announced[i]), i, announced[i].by) = NTable(NBetween(a, i))
<1>1. CASE i < a
  BY <1>1, NBetweenIs, NNothing
<1>2. CASE ~ (i < a)
  <2>1. /\ i - 1 \in Nat /\ \A k : <<i, k>> \notin NBetween(a, i - 1)
        /\ NUpTo(NBetween(a, i - 1), i, NSaid) = NBetween(a, i)
    BY <1>2, NBetweenIs
  <2>2. NPairs(NBetween(a, i - 1))
    BY <2>1, NBetweenIs
  <2> QED
    BY <1>2, <2>1, <2>2, NLaunchAdds, NRowAdds
<1> QED
  BY <1>1, <1>2

\* The collector's table of some launches is that of their pairs ...
LEMMA NCollects ==
  ASSUME NEW a \in Nat \ {0}, NEW b \in Nat
  PROVE  N!Collected(a, b) = NTable(NBetween(a, b))
<1> DEFINE G == [i \in 0 .. b |-> NTable(NBetween(a, i))]
<1>1. G = NCollected(G, a, b)
  <2>1. ASSUME NEW i \in 0 .. b PROVE G[i] = NCollected(G, a, b)[i]
    <3>1. i \in Nat /\ G[i] = NTable(NBetween(a, i))
      OBVIOUS
    <3>2. ~ (i < a) => i - 1 \in 0 .. b /\ G[i - 1] = NTable(NBetween(a, i - 1))
      OBVIOUS
    <3>3. NCollected(G, a, b)[i] = IF i < a THEN N!NoCounts ELSE N!AddLaunch(G[i - 1], i)
      BY DEF NCollected
    <3> HIDE DEF G
    <3> QED
      BY <3>1, <3>2, <3>3, NStep
  <2> QED
    BY <2>1 DEF NCollected
<1> HIDE DEF G
<1> DEFINE H == CHOOSE g : g = NCollected(g, a, b)
<1>2. H = NCollected(H, a, b)
  BY <1>1
<1>3. N!Collected(a, b) = H[b]
  BY DEF N!Collected, NCollected
<1> HIDE DEF H
<1> DEFINE Bad == {i \in Nat : i <= b /\ H[i] # G[i]}
<1>4. ASSUME Bad # {} PROVE FALSE
  <2>1. PICK i \in Bad : \A m \in Bad : i <= m
    BY <1>4, LeastElement
  <2>2. i \in 0 .. b
    BY <2>1
  <2>3. CASE i < a
    BY <1>1, <1>2, <2>1, <2>2, <2>3 DEF NCollected
  <2>4. CASE ~ (i < a)
    <3>1. i - 1 \in Nat /\ i - 1 <= b /\ ~ (i <= i - 1)
      BY <2>1, <2>4
    <3>2. H[i - 1] = G[i - 1]
      BY <2>1, <3>1
    <3>3. NCollected(H, a, b)[i] = NCollected(G, a, b)[i]
      BY <2>2, <2>4, <3>2 DEF NCollected
    <3> QED
      BY <1>1, <1>2, <2>1, <3>3
  <2> QED
    BY <2>3, <2>4
<1>5. H[b] = G[b]
  BY <1>4
<1>6. G[b] = NTable(NBetween(a, b))
  BY DEF G
<1> QED
  BY <1>3, <1>5, <1>6

\* ... and so is the one made of the rows of the tail.
LEMMA NTails ==
  ASSUME NEW a \in Nat \ {0}, NEW b \in Nat
  PROVE  N!Tailed(a, b) = NTable(NBetween(a, b))
<1> DEFINE G == [i \in 0 .. b |-> NTable(NBetween(a, i))]
<1>1. G = NTailed(G, a, b)
  <2>1. ASSUME NEW i \in 0 .. b PROVE G[i] = NTailed(G, a, b)[i]
    <3>1. i \in Nat /\ G[i] = NTable(NBetween(a, i))
      OBVIOUS
    <3>2. ~ (i < a) => i - 1 \in 0 .. b /\ G[i - 1] = NTable(NBetween(a, i - 1))
      OBVIOUS
    <3>3. NTailed(G, a, b)[i] = IF i < a THEN N!NoCounts ELSE N!AddRow(G[i - 1], N!RowOf(announced[i]), i, announced[i].by)
      BY DEF NTailed
    <3> HIDE DEF G
    <3> QED
      BY <3>1, <3>2, <3>3, NStep
  <2> QED
    BY <2>1 DEF NTailed
<1> HIDE DEF G
<1> DEFINE H == CHOOSE g : g = NTailed(g, a, b)
<1>2. H = NTailed(H, a, b)
  BY <1>1
<1>3. N!Tailed(a, b) = H[b]
  BY DEF N!Tailed, NTailed
<1> HIDE DEF H
<1> DEFINE Bad == {i \in Nat : i <= b /\ H[i] # G[i]}
<1>4. ASSUME Bad # {} PROVE FALSE
  <2>1. PICK i \in Bad : \A m \in Bad : i <= m
    BY <1>4, LeastElement
  <2>2. i \in 0 .. b
    BY <2>1
  <2>3. CASE i < a
    BY <1>1, <1>2, <2>1, <2>2, <2>3 DEF NTailed
  <2>4. CASE ~ (i < a)
    <3>1. i - 1 \in Nat /\ i - 1 <= b /\ ~ (i <= i - 1)
      BY <2>1, <2>4
    <3>2. H[i - 1] = G[i - 1]
      BY <2>1, <3>1
    <3>3. NTailed(H, a, b)[i] = NTailed(G, a, b)[i]
      BY <2>2, <2>4, <3>2 DEF NTailed
    <3> QED
      BY <1>1, <1>2, <2>1, <3>3
  <2> QED
    BY <2>3, <2>4
<1>5. H[b] = G[b]
  BY <1>4
<1>6. G[b] = NTable(NBetween(a, b))
  BY DEF G
<1> QED
  BY <1>3, <1>5, <1>6

\* A namespace with one value of each launch is a column of the pairs.
NColumn(ns, p) == p \in 1 .. NSaid /\ \A i : \A k \in 1 .. NSaid : NValue(<<i, k>>).ns = ns <=> k = p
NIn(w, p, h)   == {i \in 1 .. w : NValue(<<i, p>>).value = h}

LEMMA NColumns ==
  /\ NColumn("recipient", NLinks + 1)
  /\ NColumn("ticker", NLinks + 3)
  /\ NColumn("ticker_skeleton", NLinks + 4)
<1>1. NLinks \in Nat /\ NSaid = NLinks + 4
  BY NLinksAre DEF NSaid
<1>2. ASSUME NEW i
      PROVE  /\ \A k \in 1 .. NLinks : NValue(<<i, k>>).ns = "link"
             /\ NValue(<<i, NLinks + 1>>).ns = "recipient" /\ NValue(<<i, NLinks + 2>>).ns = "description"
             /\ NValue(<<i, NLinks + 3>>).ns = "ticker" /\ NValue(<<i, NLinks + 4>>).ns = "ticker_skeleton"
  <2>1. PICK w, r : w = N!ValuesOf(announced[i]) /\ r = N!RowOf(announced[i])
    OBVIOUS
  <2>2. /\ \A j \in 1 .. NLinks : w[j] = N!Value("link", r.links[j], Unset)
        /\ w[NLinks + 1] = N!Value("recipient", r.recipient, Unset)
        /\ w[NLinks + 2] = N!Value("description", r.description, Unset)
        /\ w[NLinks + 3] = N!Value("ticker", r.ticker, Unset)
        /\ w[NLinks + 4] = N!Value("ticker_skeleton", r.ticker_skeleton, r.ticker)
    BY <2>1, NValues
  <2>3. \A m, x, y : N!Value(m, x, y).ns = m
    BY DEF N!Value
  <2>4. \A k : NValue(<<i, k>>) = w[k]
    BY <2>1 DEF NValue
  <2> QED
    BY <2>2, <2>3, <2>4
<1>3. \A k \in 1 .. NSaid : k \in 1 .. NLinks \/ k = NLinks + 1 \/ k = NLinks + 2 \/ k = NLinks + 3 \/ k = NLinks + 4
  BY <1>1
<1>4. \A k \in 1 .. NLinks : k # NLinks + 1 /\ k # NLinks + 3 /\ k # NLinks + 4
  BY <1>1
<1>5. /\ NLinks + 1 \in 1 .. NSaid /\ NLinks + 3 \in 1 .. NSaid /\ NLinks + 4 \in 1 .. NSaid
      /\ NLinks + 1 # NLinks + 2 /\ NLinks + 1 # NLinks + 3 /\ NLinks + 1 # NLinks + 4
      /\ NLinks + 2 # NLinks + 3 /\ NLinks + 2 # NLinks + 4 /\ NLinks + 3 # NLinks + 4
  BY <1>1
<1>6. NColumn("recipient", NLinks + 1)
  BY <1>2, <1>3, <1>4, <1>5 DEF NColumn
<1>7. NColumn("ticker", NLinks + 3)
  BY <1>2, <1>3, <1>4, <1>5 DEF NColumn
<1>8. NColumn("ticker_skeleton", NLinks + 4)
  BY <1>2, <1>3, <1>4, <1>5 DEF NColumn
<1> QED
  BY <1>6, <1>7, <1>8

LEMMA NWithIs ==
  ASSUME NEW w \in Nat, NEW ns, NEW p, NColumn(ns, p), NEW h
  PROVE  LET Q == NWith(NBetween(1, w), ns, h)
             S == NIn(w, p, h)
         IN  /\ IsFiniteSet(S) /\ Cardinality(S) \in Nat /\ S \subseteq 1 .. w
             /\ Cardinality(Q) = Cardinality(S) /\ (Q = {} <=> S = {})
             /\ {announced[q[1]].by : q \in Q} = {announced[i].by : i \in S}
             /\ {NValue(q).spelling : q \in Q} = {NValue(<<i, p>>).spelling : i \in S}
             /\ \A j : NFirst(Q, j) <=> j \in S /\ \A i \in S : j <= i
<1> DEFINE Q == NWith(NBetween(1, w), ns, h)
           S == NIn(w, p, h)
<1>1. p \in 1 .. NSaid
  BY DEF NColumn
<1>2. \A q : q \in Q <=> \E i \in S : q = <<i, p>>
  <2>1. ASSUME NEW q \in Q PROVE \E i \in S : q = <<i, p>>
    <3>1. PICK i \in 1 .. w, k \in 1 .. NSaid : q = <<i, k>>
      BY DEF NWith, NBetween
    <3>2. k = p /\ NValue(q).value = h
      BY <3>1 DEF NWith, NColumn
    <3> QED
      BY <3>1, <3>2 DEF NIn
  <2>2. ASSUME NEW i \in S PROVE <<i, p>> \in Q
    <3>1. i \in 1 .. w /\ NValue(<<i, p>>).value = h
      BY DEF NIn
    <3>2. NValue(<<i, p>>).ns = ns
      BY <1>1 DEF NColumn
    <3>3. <<i, p>> \in NBetween(1, w)
      BY <1>1, <3>1 DEF NBetween
    <3> QED
      BY <3>1, <3>2, <3>3 DEF NWith
  <2> HIDE DEF Q, S
  <2> QED
    BY <2>1, <2>2
<1>3. S \subseteq 1 .. w /\ IsFiniteSet(1 .. w)
  BY FS_Interval DEF NIn
<1> HIDE DEF Q, S
<1>4. IsFiniteSet(S) /\ Cardinality(S) \in Nat
  BY <1>3, FS_Subset, FS_CardinalityType
<1>5. Cardinality(Q) = Cardinality(S)
  <2> DEFINE f == [i \in S |-> <<i, p>>]
  <2>1. f \in [S -> Q] /\ \A i, j \in S : f[i] = f[j] => i = j
    BY <1>2
  <2>2. \A q \in Q : \E i \in S : f[i] = q
    BY <1>2
  <2> HIDE DEF f
  <2>3. f \in Bijection(S, Q)
    BY <2>1, <2>2 DEF Bijection, Injection, Surjection, IsInjective
  <2>4. ExistsBijection(S, Q)
    BY <2>3 DEF ExistsBijection
  <2> QED
    BY <1>4, <2>4, FS_Bijection
<1>6. Q = {} <=> S = {}
  BY <1>2
<1>7. \A q \in Q : q[1] \in S /\ q = <<q[1], p>>
  BY <1>2
<1>8. \A i \in S : <<i, p>> \in Q /\ <<i, p>>[1] = i
  BY <1>2
<1>9. {announced[q[1]].by : q \in Q} = {announced[i].by : i \in S}
  BY <1>7, <1>8
<1>10. {NValue(q).spelling : q \in Q} = {NValue(<<i, p>>).spelling : i \in S}
  <2>1. \A q \in Q : \E i \in S : NValue(q).spelling = NValue(<<i, p>>).spelling
    BY <1>7
  <2>2. \A i \in S : \E q \in Q : NValue(q).spelling = NValue(<<i, p>>).spelling
    BY <1>8
  <2>3. \A x : x \in {NValue(q).spelling : q \in Q} <=> x \in {NValue(<<i, p>>).spelling : i \in S}
    <3> SUFFICES ASSUME NEW x PROVE (\E q \in Q : x = NValue(q).spelling) <=> (\E i \in S : x = NValue(<<i, p>>).spelling)
      OBVIOUS
    <3> QED
      BY <2>1, <2>2
  <2> QED
    BY <2>3
<1>11. \A j : NFirst(Q, j) <=> j \in S /\ \A i \in S : j <= i
  BY <1>7, <1>8 DEF NFirst
<1> QED
  BY <1>3, <1>4, <1>5, <1>6, <1>9, <1>10, <1>11 DEF Q, S

NLeast(S)      == CHOOSE j : j \in S /\ \A i \in S : j <= i
NBy(S)         == {announced[i].by : i \in S}
NSpelt(ns, p, S) == IF ns = "ticker_skeleton" THEN {NValue(<<i, p>>).spelling : i \in S} \ {Unset} ELSE {}

\* The published index, of one such namespace.
LEMMA NIndexIs ==
  ASSUME covered \in Nat, NEW ns \in N!Namespaces, NEW p, NColumn(ns, p), NEW h, h # Unset
  PROVE  LET S == NIn(covered, p, h)
         IN  /\ h \in DOMAIN N!Index[ns] <=> Cardinality(S) >= 2 /\ (ns = "recipient" => Cardinality(NBy(S)) >= 2)
             /\ h \in DOMAIN N!Index[ns] =>
                  /\ N!Index[ns][h].n = Cardinality(S) /\ N!Index[ns][h].d = Cardinality(NBy(S))
                  /\ N!Index[ns][h].v = Cardinality(NSpelt(ns, p, S)) /\ N!Index[ns][h].first = NLeast(S)
<1> DEFINE C == NBetween(1, covered)
           Q == NWith(C, ns, h)
           S == NIn(covered, p, h)
           d == Cardinality({announced[i].by : i \in S})
           v == IF ns = "ticker_skeleton" THEN {NValue(<<i, p>>).spelling : i \in S} \ {Unset} ELSE {}
<1>1. PICK t, e : t = NTable(C) /\ e = NEntry(ns, Q)
  OBVIOUS
<1>2. N!Index = N!BuildIndex(t)
  BY <1>1, NCollects DEF N!Index
<1>3. /\ Cardinality(Q) = Cardinality(S) /\ Cardinality(S) \in Nat /\ (Q = {} <=> S = {}) /\ IsFiniteSet(S)
      /\ {announced[q[1]].by : q \in Q} = {announced[i].by : i \in S}
      /\ {NValue(q).spelling : q \in Q} = {NValue(<<i, p>>).spelling : i \in S}
      /\ \A j : NFirst(Q, j) <=> j \in S /\ \A i \in S : j <= i
  BY NWithIs
<1>4. t[ns] = [x \in NHashes(C, ns) |-> NEntry(ns, NWith(C, ns, x))]
  BY <1>1 DEF NTable
<1>5. h \in DOMAIN t[ns] <=> Q # {}
  BY <1>4, NHashesAre
<1>6. h \in DOMAIN t[ns] => t[ns][h] = e
  BY <1>1, <1>4
<1>7. e.n = Cardinality(S) /\ e.by = {announced[i].by : i \in S} /\ e.spelt = v
      /\ e.first = CHOOSE j : j \in S /\ \A i \in S : j <= i
  <2>1. /\ e.n = Cardinality(Q) /\ e.by = {announced[q[1]].by : q \in Q}
        /\ e.spelt = IF ns = "ticker_skeleton" THEN {NValue(q).spelling : q \in Q} \ {Unset} ELSE {}
        /\ e.first = CHOOSE j : NFirst(Q, j)
    BY <1>1 DEF NEntry
  <2>2. (CHOOSE j : NFirst(Q, j)) = CHOOSE j : j \in S /\ \A i \in S : j <= i
    BY <1>3
  <2> HIDE DEF Q, S
  <2> QED
    BY <1>3, <2>1, <2>2
<1>8. N!Index[ns] =
        [x \in {y \in DOMAIN t[ns] : t[ns][y].n >= 2 /\ (ns = "recipient" => Cardinality(t[ns][y].by) >= 2)} |->
           [n |-> t[ns][x].n, d |-> Cardinality(t[ns][x].by), first |-> t[ns][x].first, v |-> Cardinality(t[ns][x].spelt)]]
  BY <1>2, NCard DEF N!BuildIndex, N!CountFloor
<1>9. Q = {} => Cardinality(S) = 0
  BY <1>3, FS_EmptySet
<1>Deployers. PICK by : by = {announced[i].by : i \in S}
  OBVIOUS
<1>By. e.by = by /\ d = Cardinality(by)
  BY <1>7, <1>Deployers
<1> HIDE DEF C, Q, S, v, d
<1>10. h \in DOMAIN N!Index[ns] <=> h \in DOMAIN t[ns] /\ t[ns][h].n >= 2 /\ (ns = "recipient" => Cardinality(t[ns][h].by) >= 2)
  BY <1>8
<1>11. h \in DOMAIN N!Index[ns] <=> Cardinality(S) >= 2 /\ (ns = "recipient" => d >= 2)
  <2>1. CASE Q = {}
    BY <1>5, <1>9, <1>10, <2>1
  <2>2. CASE Q # {}
    <3>1. t[ns][h] = e /\ e.n = Cardinality(S) /\ Cardinality(e.by) = d
      BY <1>5, <1>6, <1>7, <1>By, <2>2
    <3> QED
      BY <1>5, <1>10, <2>2, <3>1
  <2> QED
    BY <2>1, <2>2
<1>12. h \in DOMAIN N!Index[ns] =>
         N!Index[ns][h] = [n |-> e.n, d |-> Cardinality(e.by), first |-> e.first, v |-> Cardinality(e.spelt)]
  BY <1>6, <1>8, <1>10
<1> QED
  <2>1. h \in DOMAIN N!Index[ns] =>
          /\ N!Index[ns][h].n = Cardinality(S) /\ N!Index[ns][h].d = d /\ N!Index[ns][h].v = Cardinality(v)
          /\ N!Index[ns][h].first = CHOOSE j : j \in S /\ \A i \in S : j <= i
    <3> SUFFICES ASSUME h \in DOMAIN N!Index[ns]
                 PROVE  /\ N!Index[ns][h].n = Cardinality(S) /\ N!Index[ns][h].d = d /\ N!Index[ns][h].v = Cardinality(v)
                        /\ N!Index[ns][h].first = CHOOSE j : j \in S /\ \A i \in S : j <= i
      OBVIOUS
    <3>1. PICK x : x = N!Index[ns][h]
      OBVIOUS
    <3>2. x.n = e.n /\ x.d = Cardinality(e.by) /\ x.first = e.first /\ x.v = Cardinality(e.spelt)
      BY <1>12, <3>1
    <3>3. x.n = Cardinality(S) /\ x.d = d /\ x.v = Cardinality(v)
      BY <1>7, <1>By, <3>2
    <3>4. x.first = CHOOSE j : j \in S /\ \A i \in S : j <= i
      BY <1>7, <3>2
    <3> QED
      BY <3>1, <3>3, <3>4
  <2> QED
    BY <1>11, <2>1 DEF S, v, d, NLeast, NBy, NSpelt

LEMMA NTwo ==
  ASSUME NEW S, IsFiniteSet(S)
  PROVE  Cardinality(S) \in Nat /\ (Cardinality(S) >= 2 <=> \E x, y \in S : x # y)
<1>1. Cardinality(S) \in Nat
  BY FS_CardinalityType
<1>2. CASE Cardinality(S) = 0
  BY <1>2, FS_EmptySet
<1>3. CASE Cardinality(S) = 1
  <2>1. \E x : S = {x}
    BY <1>3, FS_Singleton
  <2> QED
    BY <1>3, <2>1
<1>4. CASE Cardinality(S) >= 2
  <2>1. S # {} /\ \A x : S # {x}
    BY <1>4, FS_EmptySet, FS_Singleton
  <2> QED
    BY <1>1, <1>4, <2>1
<1> QED
  BY <1>1, <1>2, <1>3, <1>4

LEMMA NImage ==
  ASSUME NEW S, IsFiniteSet(S), NEW f
  PROVE  IsFiniteSet({f[i] : i \in S})
<1> DEFINE image == {f[i] : i \in S}
           g == [i \in S |-> f[i]]
<1>1. g \in Surjection(S, image)
  BY DEF Surjection
<1> QED
  BY <1>1, FS_Surjection

\* What the columns of recipients, tickers and skeletons hold.
LEMMA NColumnsHold ==
  \A i : /\ NValue(<<i, NLinks + 1>>).value = N!Recipient(announced[i].recipient).value
         /\ NValue(<<i, NLinks + 3>>).value = N!Ticker(announced[i].ticker)
         /\ NValue(<<i, NLinks + 4>>).value = N!Skeleton(N!Ticker(announced[i].ticker))
         /\ NValue(<<i, NLinks + 4>>).spelling = N!Ticker(announced[i].ticker)
<1> SUFFICES ASSUME NEW i
             PROVE  /\ NValue(<<i, NLinks + 1>>).value = N!Recipient(announced[i].recipient).value
                    /\ NValue(<<i, NLinks + 3>>).value = N!Ticker(announced[i].ticker)
                    /\ NValue(<<i, NLinks + 4>>).value = N!Skeleton(N!Ticker(announced[i].ticker))
                    /\ NValue(<<i, NLinks + 4>>).spelling = N!Ticker(announced[i].ticker)
  OBVIOUS
<1>1. PICK w, r : w = N!ValuesOf(announced[i]) /\ r = N!RowOf(announced[i])
  OBVIOUS
<1>2. /\ w[NLinks + 1] = N!Value("recipient", r.recipient, Unset)
      /\ w[NLinks + 3] = N!Value("ticker", r.ticker, Unset)
      /\ w[NLinks + 4] = N!Value("ticker_skeleton", r.ticker_skeleton, r.ticker)
  BY <1>1, NValues
<1>3. \A m, x, y : N!Value(m, x, y).value = x /\ N!Value(m, x, y).spelling = y
  BY DEF N!Value
<1>4. \A k : NValue(<<i, k>>) = w[k]
  BY <1>1 DEF NValue
<1>5. /\ r.recipient = N!Recipient(announced[i].recipient).value
      /\ r.ticker = N!Ticker(announced[i].ticker)
      /\ r.ticker_skeleton = N!Skeleton(N!Ticker(announced[i].ticker))
  BY <1>1 DEF N!RowOf
<1> QED
  BY <1>2, <1>3, <1>4, <1>5

\* Nothing is spelt by what normalizes to nothing.
LEMMA NNormal ==
  /\ N!Ticker(Unset) = Unset /\ N!Skeleton(Unset) = Unset
  /\ N!TypeOK => /\ covered \in Nat /\ covered <= Len(announced) /\ Len(announced) \in Nat
                 /\ DOMAIN announced = 1 .. Len(announced)
                 /\ \A i \in 1 .. Len(announced) : announced[i] \in SaidShapes
<1>1. N!Ticker(Unset) = Unset /\ N!Skeleton(Unset) = Unset
  BY DEF N!Ticker, N!Skeleton
<1>2. ASSUME N!TypeOK
      PROVE  /\ covered \in Nat /\ covered <= Len(announced) /\ Len(announced) \in Nat
             /\ DOMAIN announced = 1 .. Len(announced)
             /\ \A i \in 1 .. Len(announced) : announced[i] \in SaidShapes
  BY <1>2 DEF N!TypeOK
<1> QED
  BY <1>1, <1>2

LEMMA NRecipients ==
  ASSUME NEW s, N!Recipient(s).state = "ok"
  PROVE  /\ s # Unset /\ N!Recipient(s).value = s
         /\ \A r : N!Recipient(r).value = s <=> r = s
<1>1. s \notin {Unset, "zero"} /\ s # "unreadable"
  <2>1. s \in {Unset, "zero"} \/ s = "unreadable" => N!Recipient(s).state \in {"empty", "not readable"}
    BY DEF N!Recipient
  <2> QED
    BY <2>1
<1>2. \A r : r \notin {Unset, "zero"} /\ r # "unreadable" => N!Recipient(r).value = r
  BY DEF N!Recipient
<1>3. \A r : r \in {Unset, "zero"} \/ r = "unreadable" => N!Recipient(r).value = Unset
  BY DEF N!Recipient
<1> QED
  BY <1>1, <1>2, <1>3

\* The places the property speaks of are those of the columns.
LEMMA NPlaces ==
  ASSUME N!TypeOK
  PROVE  /\ \A s : N!TickerPlaces(s) = NIn(covered, NLinks + 3, N!Ticker(s))
         /\ \A s : N!Skeleton(N!Ticker(s)) # Unset => N!LooksLike(s) = NIn(covered, NLinks + 4, N!Skeleton(N!Ticker(s)))
         /\ \A s : N!Recipient(s).state = "ok" => N!RecipientOf(s) = NIn(covered, NLinks + 1, s)
<1>1. ASSUME NEW s PROVE N!TickerPlaces(s) = NIn(covered, NLinks + 3, N!Ticker(s))
  BY NColumnsHold DEF N!TickerPlaces, N!Places, NIn
<1>2. ASSUME NEW s, N!Skeleton(N!Ticker(s)) # Unset
      PROVE  N!LooksLike(s) = NIn(covered, NLinks + 4, N!Skeleton(N!Ticker(s)))
  <2>1. \A i : N!Skeleton(N!Ticker(announced[i].ticker)) = N!Skeleton(N!Ticker(s)) => announced[i].ticker # Unset
    BY <1>2, NNormal
  <2> QED
    BY <2>1, NColumnsHold DEF N!LooksLike, N!Places, NIn
<1>3. ASSUME NEW s, N!Recipient(s).state = "ok" PROVE N!RecipientOf(s) = NIn(covered, NLinks + 1, s)
  <2>1. \A i : N!Recipient(announced[i].recipient).value = s <=> announced[i].recipient = s
    BY <1>3, NRecipients
  <2> QED
    BY <2>1, NColumnsHold DEF N!RecipientOf, N!Places, NIn
<1> QED
  BY <1>1, <1>2, <1>3

\* What the page says of a ticker.
LEMMA NExactIs ==
  ASSUME N!TypeOK, NEW s, N!Ticker(s) # Unset
  PROVE  LET S == N!TickerPlaces(s)
         IN  /\ IsFiniteSet(S) /\ Cardinality(S) \in Nat
             /\ N!Exact(N!Index, "ticker", N!Ticker(s)) =
                  IF Cardinality(S) < 2 THEN N!Unique
                  ELSE [state |-> "shared", n |-> Cardinality(S), d |-> Cardinality(N!Deployers(S)),
                        first |-> CHOOSE i \in S : \A j \in S : i <= j]
<1>1. PICK h : h = N!Ticker(s)
  OBVIOUS
<1>2. PICK S : S = N!TickerPlaces(s)
  OBVIOUS
<1>3. S = NIn(covered, NLinks + 3, h) /\ covered \in Nat
  BY <1>1, <1>2, NPlaces, NNormal
<1>4. "ticker" \in N!Namespaces /\ "ticker" # "recipient"
  BY DEF N!Namespaces
<1>5. IsFiniteSet(S) /\ Cardinality(S) \in Nat
  BY <1>3, NWithIs, NColumns
<1>6. h \in DOMAIN N!Index["ticker"] <=> Cardinality(S) >= 2
  BY <1>1, <1>3, <1>4, NIndexIs, NColumns
<1>7. h \in DOMAIN N!Index["ticker"] =>
        /\ N!Index["ticker"][h].n = Cardinality(S) /\ N!Index["ticker"][h].d = Cardinality({announced[i].by : i \in S})
        /\ N!Index["ticker"][h].first = CHOOSE j : j \in S /\ \A i \in S : j <= i
  <2>1. PICK p : p = NLinks + 3
    OBVIOUS
  <2>2. NColumn("ticker", p) /\ h # Unset /\ S = NIn(covered, p, h)
    BY <1>1, <1>3, <2>1, NColumns
  <2>3. h \in DOMAIN N!Index["ticker"] =>
          /\ N!Index["ticker"][h].n = Cardinality(NIn(covered, p, h))
          /\ N!Index["ticker"][h].d = Cardinality(NBy(NIn(covered, p, h)))
          /\ N!Index["ticker"][h].first = NLeast(NIn(covered, p, h))
    BY <1>3, <1>4, <2>2, NIndexIs
  <2> QED
    BY <2>2, <2>3 DEF NBy, NLeast
<1>8. N!Deployers(S) = {announced[i].by : i \in S}
  BY DEF N!Deployers
<1>9. (CHOOSE i \in S : \A j \in S : i <= j) = CHOOSE j : j \in S /\ \A i \in S : j <= i
  OBVIOUS
<1>10. CASE h \notin DOMAIN N!Index["ticker"]
  <2>1. N!Exact(N!Index, "ticker", h) = N!Unique
    BY <1>1, <1>10 DEF N!Exact
  <2> QED
    BY <1>1, <1>2, <1>5, <1>6, <1>10, <2>1
<1>11. CASE h \in DOMAIN N!Index["ticker"]
  <2>1. N!Exact(N!Index, "ticker", h) = [state |-> "shared", n |-> N!Index["ticker"][h].n, d |-> N!Index["ticker"][h].d,
                                         first |-> N!Index["ticker"][h].first]
    BY <1>1, <1>11 DEF N!Exact
  <2>2. N!Exact(N!Index, "ticker", h) = [state |-> "shared", n |-> Cardinality(S), d |-> Cardinality(N!Deployers(S)),
                        first |-> CHOOSE i \in S : \A j \in S : i <= j]
    BY <1>7, <1>8, <1>9, <1>11, <2>1
  <2>3. ~ (Cardinality(S) < 2)
    BY <1>5, <1>6, <1>11
  <2> QED
    BY <1>1, <1>2, <1>5, <2>2, <2>3
<1> QED
  BY <1>10, <1>11

\* A lookalike is said where two spellings of one shape are.
LEMMA NLookalikeIs ==
  ASSUME N!TypeOK, NEW s, N!Ticker(s) # Unset, N!Skeleton(N!Ticker(s)) # Unset
  PROVE  N!Lookalike(N!Index, N!Ticker(s)).state = "lookalike"
           <=> \E j, k \in N!LooksLike(s) : N!Ticker(announced[j].ticker) # N!Ticker(announced[k].ticker)
<1>1. PICK h : h = N!Skeleton(N!Ticker(s))
  OBVIOUS
<1>2. PICK S : S = N!LooksLike(s)
  OBVIOUS
<1>3. PICK p : p = NLinks + 4
  OBVIOUS
<1>4. S = NIn(covered, p, h) /\ covered \in Nat /\ NColumn("ticker_skeleton", p)
  BY <1>1, <1>2, <1>3, NPlaces, NNormal, NColumns
<1> DEFINE V == {NValue(<<i, p>>).spelling : i \in NIn(covered, p, h)}
<1>5. IsFiniteSet(S) /\ S \subseteq 1 .. covered
  BY <1>4, NWithIs
<1>6. \A i \in S : NValue(<<i, p>>).spelling = N!Ticker(announced[i].ticker) /\ N!Ticker(announced[i].ticker) # Unset
  <2>1. ASSUME NEW i \in S PROVE N!Ticker(announced[i].ticker) # Unset
    <3>1. N!Skeleton(N!Ticker(announced[i].ticker)) = h
      BY <1>3, <1>4, NColumnsHold DEF NIn
    <3> QED
      BY <1>1, <3>1, NNormal
  <2> QED
    BY <1>3, <2>1, NColumnsHold
<1>7. V \ {Unset} = {N!Ticker(announced[i].ticker) : i \in S}
  <2>1. \A x : x \in V \ {Unset} <=> \E i \in S : x = N!Ticker(announced[i].ticker)
    BY <1>4, <1>6
  <2> HIDE DEF V
  <2> QED
    BY <2>1
<1>8. PICK v : v = {N!Ticker(announced[i].ticker) : i \in S}
  OBVIOUS
<1>9. IsFiniteSet(v)
  <2> DEFINE f == [i \in S |-> N!Ticker(announced[i].ticker)]
  <2>1. IsFiniteSet({f[i] : i \in S})
    BY <1>5, NImage
  <2>2. {f[i] : i \in S} = v
    BY <1>8
  <2> QED
    BY <2>1, <2>2
<1>10. /\ h \in DOMAIN N!Index["ticker_skeleton"] <=> Cardinality(S) >= 2
       /\ h \in DOMAIN N!Index["ticker_skeleton"] => N!Index["ticker_skeleton"][h].v = Cardinality(v)
  <2>1. "ticker_skeleton" \in N!Namespaces /\ "ticker_skeleton" # "recipient" /\ h # Unset
    BY <1>1 DEF N!Namespaces
  <2>2. h \in DOMAIN N!Index["ticker_skeleton"] <=> Cardinality(NIn(covered, p, h)) >= 2
    BY <1>4, <2>1, NIndexIs
  <2>3. h \in DOMAIN N!Index["ticker_skeleton"] => N!Index["ticker_skeleton"][h].v = Cardinality(NSpelt("ticker_skeleton", p, NIn(covered, p, h)))
    BY <1>4, <2>1, NIndexIs
  <2>4. NSpelt("ticker_skeleton", p, NIn(covered, p, h)) = V \ {Unset}
    BY DEF NSpelt
  <2> HIDE DEF V
  <2> QED
    BY <1>4, <1>7, <1>8, <2>2, <2>3, <2>4
<1>11. Cardinality(v) >= 2 <=> \E j, k \in S : N!Ticker(announced[j].ticker) # N!Ticker(announced[k].ticker)
  <2>1. Cardinality(v) >= 2 <=> \E x, y \in v : x # y
    BY <1>9, NTwo
  <2> QED
    BY <1>8, <2>1
<1>12. Cardinality(v) >= 2 => Cardinality(S) >= 2
  <2>1. (\E j, k \in S : N!Ticker(announced[j].ticker) # N!Ticker(announced[k].ticker)) => \E j, k \in S : j # k
    OBVIOUS
  <2> QED
    BY <1>5, <1>11, <2>1, NTwo
<1>13. N!Lookalike(N!Index, N!Ticker(s)).state = "lookalike"
         <=> h \in DOMAIN N!Index["ticker_skeleton"] /\ N!Index["ticker_skeleton"][h].v >= 2
  BY <1>1 DEF N!Lookalike, N!Unique
<1> QED
  BY <1>2, <1>10, <1>11, <1>12, <1>13

\* A recipient is said to be shared where two deployers have it.
LEMMA NSharedIs ==
  ASSUME N!TypeOK, NEW s, N!Recipient(s).state = "ok"
  PROVE  N!Exact(N!Index, "recipient", N!Recipient(s).value).state = "shared" <=> Cardinality(N!Deployers(N!RecipientOf(s))) >= 2
<1>1. s # Unset /\ N!Recipient(s).value = s
  BY NRecipients
<1>2. PICK S, p : S = N!RecipientOf(s) /\ p = NLinks + 1
  OBVIOUS
<1>3. S = NIn(covered, p, s) /\ covered \in Nat /\ NColumn("recipient", p)
  BY <1>2, NPlaces, NNormal, NColumns
<1>4. IsFiniteSet(S)
  BY <1>3, NWithIs
<1>5. PICK d : d = {announced[i].by : i \in S}
  OBVIOUS
<1>6. s \in DOMAIN N!Index["recipient"] <=> Cardinality(S) >= 2 /\ Cardinality(d) >= 2
  <2>1. "recipient" \in N!Namespaces
    BY DEF N!Namespaces
  <2>2. s \in DOMAIN N!Index["recipient"] <=>
          Cardinality(NIn(covered, p, s)) >= 2 /\ Cardinality(NBy(NIn(covered, p, s))) >= 2
    BY <1>1, <1>3, <2>1, NIndexIs
  <2> QED
    BY <1>3, <1>5, <2>2 DEF NBy
<1>7. Cardinality(d) >= 2 => Cardinality(S) >= 2
  <2> DEFINE f == [i \in S |-> announced[i].by]
  <2>1. IsFiniteSet({f[i] : i \in S})
    BY <1>4, NImage
  <2>2. {f[i] : i \in S} = d
    BY <1>5
  <2>3. IsFiniteSet(d)
    BY <2>1, <2>2
  <2>4. Cardinality(d) >= 2 => \E x, y \in d : x # y
    BY <2>3, NTwo
  <2>5. (\E x, y \in d : x # y) => \E i, j \in S : i # j
    BY <1>5
  <2> QED
    BY <1>4, <2>4, <2>5, NTwo
<1>8. N!Exact(N!Index, "recipient", s).state = "shared" <=> s \in DOMAIN N!Index["recipient"]
  BY <1>1 DEF N!Exact, N!Empty, N!Unique
<1>9. N!Deployers(S) = d
  BY <1>5 DEF N!Deployers
<1> QED
  BY <1>1, <1>2, <1>6, <1>7, <1>8, <1>9

LEMMA NChecks == N!TypeOK => N!CheckIsTrue
<1> SUFFICES ASSUME N!TypeOK, NEW i \in DOMAIN announced
             PROVE  LET l    == announced[i]
                        said == N!Check(l, N!Index)
                        same == N!TickerPlaces(l.ticker)
                        like == N!LooksLike(l.ticker)
                        paid == N!RecipientOf(l.recipient)
                    IN  /\ l.ticker # Unset =>
                             /\ said.N1 = IF Cardinality(same) < 2 THEN N!Unique
                                          ELSE [state |-> "shared", n |-> Cardinality(same), d |-> Cardinality(N!Deployers(same)),
                                                first |-> CHOOSE first \in same : \A j \in same : first <= j]
                             /\ (said.N3.state = "lookalike") <=> \E j, k \in like : N!Ticker(announced[j].ticker) # N!Ticker(announced[k].ticker)
                        /\ N!Recipient(l.recipient).state = "ok" => ((said.I3.state = "shared") <=> Cardinality(N!Deployers(paid)) >= 2)
  BY NCard DEF N!CheckIsTrue
<1>1. PICK l : l = announced[i]
  OBVIOUS
<1>2. l \in SaidShapes
  BY <1>1, NNormal
<1>3. PICK said : said = N!Check(l, N!Index)
  OBVIOUS
<1>4. /\ said.N1 = N!Exact(N!Index, "ticker", N!Ticker(l.ticker)) /\ said.N3 = N!Lookalike(N!Index, N!Ticker(l.ticker))
      /\ N!Recipient(l.recipient).state = "ok" => said.I3 = N!Exact(N!Index, "recipient", N!Recipient(l.recipient).value)
  BY <1>3, ZenonT(60) DEF N!Check
<1>5. l.ticker # Unset => N!Ticker(l.ticker) # Unset /\ N!Skeleton(N!Ticker(l.ticker)) # Unset
  BY <1>2, IdentityAssumption
<1>6. l.ticker # Unset =>
        LET same == N!TickerPlaces(l.ticker)
        IN  said.N1 = IF Cardinality(same) < 2 THEN N!Unique
                      ELSE [state |-> "shared", n |-> Cardinality(same), d |-> Cardinality(N!Deployers(same)),
                            first |-> CHOOSE first \in same : \A j \in same : first <= j]
  BY <1>4, <1>5, NExactIs
<1>7. l.ticker # Unset =>
        ((said.N3.state = "lookalike")
           <=> \E j, k \in N!LooksLike(l.ticker) : N!Ticker(announced[j].ticker) # N!Ticker(announced[k].ticker))
  BY <1>4, <1>5, NLookalikeIs
<1>8. N!Recipient(l.recipient).state = "ok" =>
        ((said.I3.state = "shared") <=> Cardinality(N!Deployers(N!RecipientOf(l.recipient))) >= 2)
  BY <1>4, NSharedIs
<1> QED
  BY <1>1, <1>3, <1>6, <1>7, <1>8

LEMMA NTailsAgree == N!TypeOK => N!TailIsCollectors
<1> SUFFICES ASSUME N!TypeOK, NEW a \in 1 .. Len(announced), NEW b \in 1 .. Len(announced)
             PROVE  N!BuildIndex(N!Tailed(a, b)) = N!BuildIndex(N!Collected(a, b))
  BY DEF N!TailIsCollectors
<1>1. a \in Nat \ {0} /\ b \in Nat
  BY NNormal
<1>2. N!Tailed(a, b) = N!Collected(a, b)
  BY <1>1, NTails, NCollects
<1> QED
  BY <1>2

\* A string rule finds the launch it was made of.
LEMMA NStrings ==
  ASSUME NEW l \in SaidShapes, NEW s \in {l.ticker} \cup {l.links[k] : k \in DOMAIN LinkFields}, s # Unset
  PROVE  N!MatchString(N!RifleOf(s), N!RowOf(l))
<1>1. PICK rifle, r : rifle = N!RifleOf(s) /\ r = N!RowOf(l)
  OBVIOUS
<1>2. /\ rifle.ticker = N!Ticker(s) /\ \A k \in DOMAIN LinkFields : N!Link(s, LinkFields[k]) \in rifle.links
      /\ r.ticker = N!Ticker(l.ticker) /\ \A k \in DOMAIN LinkFields : r.links[k] = N!Link(l.links[k], LinkFields[k])
  BY <1>1 DEF N!RifleOf, N!RowOf
<1>3. CASE s = l.ticker
  <2>1. N!Ticker(s) # Unset
    BY <1>3, IdentityAssumption
  <2> QED
    BY <1>1, <1>2, <1>3, <2>1 DEF N!MatchString
<1>4. ASSUME NEW k \in DOMAIN LinkFields, s = l.links[k] PROVE N!MatchString(rifle, r)
  <2>1. N!Link(s, LinkFields[k]) # Unset
    BY <1>4, IdentityAssumption
  <2>2. r.links[k] # Unset /\ r.links[k] \in rifle.links
    BY <1>2, <1>4, <2>1
  <2> QED
    BY <2>2 DEF N!MatchString
<1> QED
  BY <1>1, <1>3, <1>4

\* The launches with a ticker are those of the window and those of the tail.
LEMMA NAllTickers ==
  ASSUME N!TypeOK, NEW s
  PROVE  LET all == {j \in 1 .. Len(announced) : N!Ticker(announced[j].ticker) = N!Ticker(s)}
         IN  /\ N!TailCount(N!Ticker(s)) \in Nat /\ Cardinality(N!TickerPlaces(s)) \in Nat
             /\ Cardinality(all) = Cardinality(N!TickerPlaces(s)) + N!TailCount(N!Ticker(s))
<1> DEFINE all  == {j \in 1 .. Len(announced) : N!Ticker(announced[j].ticker) = N!Ticker(s)}
           late == {j \in (covered + 1) .. Len(announced) : N!Ticker(announced[j].ticker) = N!Ticker(s)}
           early == {j \in 1 .. covered : N!Ticker(announced[j].ticker) = N!Ticker(s)}
<1>1. covered \in Nat /\ Len(announced) \in Nat /\ covered <= Len(announced)
  BY NNormal
<1>2. early = N!TickerPlaces(s) /\ N!TailCount(N!Ticker(s)) = Cardinality(late)
  BY NCard DEF N!TickerPlaces, N!Places, N!TailCount
<1>3. IsFiniteSet(early) /\ IsFiniteSet(late)
  <2>1. IsFiniteSet(1 .. covered) /\ IsFiniteSet((covered + 1) .. Len(announced))
    BY <1>1, FS_Interval
  <2>2. early \in SUBSET (1 .. covered) /\ late \in SUBSET ((covered + 1) .. Len(announced))
    OBVIOUS
  <2> HIDE DEF early, late
  <2> QED
    BY <2>1, <2>2, FS_Subset
<1>4. all = early \cup late /\ early \cap late = {}
  <2>1. 1 .. Len(announced) = (1 .. covered) \cup ((covered + 1) .. Len(announced))
    BY <1>1
  <2>2. (1 .. covered) \cap ((covered + 1) .. Len(announced)) = {}
    BY <1>1
  <2> QED
    BY <2>1, <2>2
<1> HIDE DEF all, late, early
<1>5. Cardinality(early) \in Nat /\ Cardinality(late) \in Nat
  BY <1>3, FS_CardinalityType
<1>6. Cardinality(all) = Cardinality(early) + Cardinality(late) - Cardinality(early \cap late)
  BY <1>3, <1>4, FS_Union
<1>7. Cardinality(early \cap late) = 0
  BY <1>4, FS_EmptySet
<1>8. Cardinality(all) = Cardinality(early) + Cardinality(late)
  BY <1>5, <1>6, <1>7
<1> QED
  BY <1>2, <1>5, <1>8 DEF all

LEMMA NRules == N!TypeOK => N!RulesAreRight
<1> SUFFICES ASSUME N!TypeOK, NEW i \in (covered + 1) .. Len(announced)
             PROVE  LET l == announced[i]
                    IN  /\ \A s \in {l.ticker} \cup {l.links[k] : k \in DOMAIN LinkFields} :
                             s # Unset => N!MatchString(N!RifleOf(s), N!RowOf(l))
                        /\ l.ticker # Unset => \A threshold \in N!MinShared .. MostLaunches :
                             LET all == Cardinality({j \in 1 .. Len(announced) : N!Ticker(announced[j].ticker) = N!Ticker(l.ticker)})
                                 hit == N!MatchShared(threshold, N!Exact(N!Index, "ticker", N!Ticker(l.ticker)), N!TailCount(N!Ticker(l.ticker)))
                             IN  /\ hit.exact => hit.count = all
                                 /\ hit # N!NoMatch => threshold <= hit.count /\ hit.count <= all
                                 /\ all > threshold => hit # N!NoMatch
  BY NCard DEF N!RulesAreRight
<1>1. PICK l : l = announced[i]
  OBVIOUS
<1>2. l \in SaidShapes
  BY <1>1, NNormal
<1>3. \A s \in {l.ticker} \cup {l.links[k] : k \in DOMAIN LinkFields} : s # Unset => N!MatchString(N!RifleOf(s), N!RowOf(l))
  BY <1>2, NStrings
<1>4. ASSUME l.ticker # Unset, NEW threshold \in N!MinShared .. MostLaunches
      PROVE  LET all == Cardinality({j \in 1 .. Len(announced) : N!Ticker(announced[j].ticker) = N!Ticker(l.ticker)})
                 hit == N!MatchShared(threshold, N!Exact(N!Index, "ticker", N!Ticker(l.ticker)), N!TailCount(N!Ticker(l.ticker)))
             IN  /\ hit.exact => hit.count = all
                 /\ hit # N!NoMatch => threshold <= hit.count /\ hit.count <= all
                 /\ all > threshold => hit # N!NoMatch
  <2>1. PICK all, n, late, said, hit :
          /\ all = Cardinality({j \in 1 .. Len(announced) : N!Ticker(announced[j].ticker) = N!Ticker(l.ticker)})
          /\ n = Cardinality(N!TickerPlaces(l.ticker)) /\ late = N!TailCount(N!Ticker(l.ticker))
          /\ said = N!Exact(N!Index, "ticker", N!Ticker(l.ticker)) /\ hit = N!MatchShared(threshold, said, late)
    OBVIOUS
  <2>2. n \in Nat /\ late \in Nat /\ all = n + late
    BY <2>1, NAllTickers
  <2>3. threshold \in Int /\ 2 <= threshold
    BY DEF N!MinShared
  <2>4. N!Ticker(l.ticker) # Unset
    BY <1>2, <1>4, IdentityAssumption
  <2>5. (n < 2 => said = N!Unique) /\ (~ (n < 2) => said.state = "shared" /\ said.n = n)
    BY <2>1, <2>4, NExactIs
  <2>6. CASE n < 2
    <3>1. said.state = "unique"
      BY <2>5, <2>6 DEF N!Unique
    <3>2. hit = IF late >= threshold THEN [exact |-> FALSE, count |-> late] ELSE N!NoMatch
      BY <2>1, <3>1 DEF N!MatchShared
    <3>3. ~ hit.exact
      BY <3>2 DEF N!NoMatch
    <3>4. hit # N!NoMatch => late >= threshold /\ hit.count = late
      BY <3>2
    <3>5. late >= threshold => hit # N!NoMatch
      <4>1. late # 0 \/ ~ (late >= threshold)
        BY <2>2, <2>3
      <4> QED
        BY <3>2, <4>1 DEF N!NoMatch
    <3>6. all > threshold => late >= threshold
      BY <2>2, <2>3, <2>6
    <3>7. hit # N!NoMatch => threshold <= hit.count /\ hit.count <= all
      BY <2>2, <2>3, <3>4
    <3> QED
      BY <2>1, <3>3, <3>5, <3>6, <3>7
  <2>7. CASE ~ (n < 2)
    <3>1. hit = IF n + late >= threshold THEN [exact |-> TRUE, count |-> n + late] ELSE N!NoMatch
      BY <2>1, <2>5, <2>7 DEF N!MatchShared
    <3>2. hit # N!NoMatch => all >= threshold /\ hit.count = all
      BY <2>2, <3>1
    <3>3. hit.exact => hit.count = all
      BY <2>2, <3>1 DEF N!NoMatch
    <3>4. all >= threshold => hit # N!NoMatch
      BY <2>2, <3>1 DEF N!NoMatch
    <3>5. all > threshold => all >= threshold
      BY <2>2, <2>3
    <3>6. hit # N!NoMatch => threshold <= hit.count /\ hit.count <= all
      BY <2>2, <2>3, <3>2
    <3> QED
      BY <2>1, <3>3, <3>4, <3>5, <3>6
  <2> QED
    BY <2>6, <2>7
<1> QED
  BY <1>1, <1>3, <1>4

LEMMA NKeepsType == (N!Init => N!TypeOK) /\ (N!TypeOK /\ [N!Next]_(N!vars) => N!TypeOK')
<1>1. N!Init => N!TypeOK
  BY DEF N!Init, N!TypeOK
<1>2. ASSUME N!TypeOK, [N!Next]_(N!vars) PROVE N!TypeOK'
  <2>1. announced \in Seq(SaidShapes) /\ covered \in 0 .. Len(announced)
    BY <1>2 DEF N!TypeOK
  <2>2. ASSUME NEW l \in SaidShapes, N!Launch(l) PROVE N!TypeOK'
    <3>1. announced' = Append(announced, l) /\ covered' = covered
      BY <2>2 DEF N!Launch
    <3>2. announced' \in Seq(SaidShapes) /\ Len(announced') = Len(announced) + 1
      BY <2>1, <3>1
    <3> QED
      BY <2>1, <3>1, <3>2 DEF N!TypeOK
  <2>3. ASSUME NEW w \in 1 .. MostLaunches, N!Publish(w) PROVE N!TypeOK'
    BY <2>1, <2>3 DEF N!Publish, N!TypeOK
  <2>4. CASE UNCHANGED N!vars
    BY <2>1, <2>4 DEF N!vars, N!TypeOK
  <2> QED
    BY <1>2, <2>2, <2>3, <2>4 DEF N!Next
<1> QED
  BY <1>1, <1>2

\* IdentityCounts: for any launches, any link fields, platforms and hosts, what the page says of a launch is what the
\* launches of the window hold, the tables of the tail are those of the collector, and the rules miss and overstate
\* nothing (launch-collect.mjs, launch-index.mjs, tally.js, site/launch.js, rules.js).
THEOREM CountsAreRightAlways == N!Spec => [](N!TypeOK /\ CountsAreRight)
<1>1. N!TypeOK => CountsAreRight
  BY NChecks, NTailsAgree, NRules DEF CountsAreRight
<1> QED
  BY <1>1, NKeepsType, PTL DEF N!Spec
=============================================================================
