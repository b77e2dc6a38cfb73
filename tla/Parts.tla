-------------------------------- MODULE Parts -------------------------------
(***************************************************************************)
(* Components that share no state are put side by side: part says whose    *)
(* behaviour this is, and never changes.  A variable belongs to the        *)
(* component of that part that has one of its name.                        *)
(***************************************************************************)
VARIABLES
  part,
  now,   \* a clock
  call,  \* the calls under way
  sent   \* history: what was sent
=============================================================================
