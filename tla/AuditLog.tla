----------------------------- MODULE AuditLog ------------------------------
(***************************************************************************)
(* The hash-chained audit log.  Every operation runs in a runtime of its   *)
(* own, which reads the head of the chain once, when it is built, and      *)
(* counts on from there; the runtimes of different users run at the same   *)
(* time and share one table, whose primary key is the sequence number.     *)
(*                                                                         *)
(* A record's hash stands for the record: it is the pair of its sequence   *)
(* number and the runtime that wrote it.                                   *)
(***************************************************************************)
EXTENDS Naturals

CONSTANTS
  Runtimes,   \* the runtimes that will ever be built
  Retrying,   \* those whose operation appends a second record when the first append throws
  Nobody      \* the author of the genesis hash

ASSUME RuntimesAssumption == Retrying \subseteq Runtimes /\ Nobody \notin Runtimes

VARIABLES
  log,     \* copy_audit_log: the record at each sequence number
  length,  \* the highest sequence number stored
  rt       \* each runtime: where its operation is, and its sequence and previousHash

vars == <<log, length, rt>>

Hashes == [seq: Nat, by: Runtimes \cup {Nobody}]
Genesis == [seq |-> 0, by |-> Nobody]

Records == [by: Runtimes, previous: Hashes]
HashOf(s) == IF s = 0 THEN Genesis ELSE [seq |-> s, by |-> log[s].by]

Runtime == [pc: {"new", "first", "second", "done"}, sequence: Nat, previous: Hashes]

TypeOK ==
  /\ length \in Nat
  /\ log \in [1 .. length -> Records]
  /\ rt \in [Runtimes -> Runtime]

Init ==
  /\ length = 0
  /\ log = [s \in 1 .. 0 |-> Genesis]
  /\ rt = [r \in Runtimes |-> [pc |-> "new", sequence |-> 0, previous |-> Genesis]]

\* HashChainedAuditLog.resume, when the runtime is built.
Resume(r) ==
  /\ rt[r].pc = "new"
  /\ rt' = [rt EXCEPT ![r] = [pc |-> "first", sequence |-> length, previous |-> HashOf(length)]]
  /\ UNCHANGED <<log, length>>

\* The sequence number advances before the INSERT, the previous hash only after it.
Write(r) ==
  LET s == rt[r].sequence + 1
  IN  /\ s = length + 1
      /\ length' = s
      /\ log' = [n \in 1 .. s |-> IF n = s THEN [by |-> r, previous |-> rt[r].previous] ELSE log[n]]
      /\ rt' = [rt EXCEPT ![r] = [pc |-> "done", sequence |-> s, previous |-> [seq |-> s, by |-> r]]]

\* Faulty variant: the previous hash advances before the INSERT, like the sequence number.
CollideAndAdvance(r) ==
  LET s == rt[r].sequence + 1
  IN  /\ s \in 1 .. length
      /\ rt' = [rt EXCEPT ![r] = [pc |-> IF @.pc = "first" /\ r \in Retrying THEN "second" ELSE "done",
                                  sequence |-> s, previous |-> [seq |-> s, by |-> r]]]
      /\ UNCHANGED <<log, length>>

\* Another runtime has stored that sequence number: the INSERT throws.  The operations with a
\* catch append the rejection next; for the others the turn is over.
Collide(r) ==
  LET s == rt[r].sequence + 1
  IN  /\ s \in 1 .. length
      /\ rt' = [rt EXCEPT ![r].sequence = s,
                          ![r].pc = IF @ = "first" /\ r \in Retrying THEN "second" ELSE "done"]
      /\ UNCHANGED <<log, length>>

AppendRecord(r) ==
  /\ rt[r].pc \in {"first", "second"}
  /\ Write(r) \/ Collide(r)

\* Every runtime has finished its operation.
AllDone == (\A r \in Runtimes : rt[r].pc = "done") /\ UNCHANGED vars

Next == (\E r \in Runtimes : Resume(r) \/ AppendRecord(r)) \/ AllDone

Spec == Init /\ [][Next]_vars

-----------------------------------------------------------------------------
\* The incident record is one chain: each record carries the hash of the record before it.
ChainIntact == \A s \in 1 .. length : log[s].previous = HashOf(s - 1)

\* Whatever the runtimes race for, the hash a record carries is that of an older record that
\* is still stored: a broken chain forks, but it never points into the void.
PreviousIsStored ==
  \A s \in 1 .. length :
    LET p == log[s].previous IN p.seq < s /\ p = HashOf(p.seq)
=============================================================================
