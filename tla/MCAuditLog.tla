---------------------------- MODULE MCAuditLog -----------------------------
(***************************************************************************)
(* Small instances of AuditLog for TLC.                                     *)
(***************************************************************************)
EXTENDS AuditLog

CONSTANTS r1, r2, r3, r4

Four     == {r1, r2, r3, r4}
Two      == {r1, r2}
Nothing  == {}
=============================================================================
