----------------------------- MODULE ScanRegister -----------------------------
(***************************************************************************)
(* What LiPkg promises to the code that polls it for scans: a register that *)
(* holds the newest scan of the running session.  A scan may be overwritten *)
(* before it is read, and it may be read again, but the reader never goes   *)
(* back to an older scan, never sees a scan of a session that was closed,   *)
(* and sees the newest one if it keeps polling.                             *)
(***************************************************************************)
EXTENDS Naturals

CONSTANT MaxFrame  \* bound: scans are numbered 1..MaxFrame

VARIABLES
  open,    \* a session is running
  latest,  \* the number of the newest scan in the register, 0 for none
  seen,    \* the number of the scan the reader got last, 0 for none
  fresh    \* latest was put in this session and not read since

vars == <<open, latest, seen, fresh>>

Init ==
  /\ open = FALSE
  /\ latest = 0
  /\ seen = 0
  /\ fresh = FALSE

\* A session begins: what an earlier one left unread is written off.
Open ==
  /\ ~open
  /\ open' = TRUE
  /\ fresh' = FALSE
  /\ UNCHANGED <<latest, seen>>

Close ==
  /\ open
  /\ open' = FALSE
  /\ UNCHANGED <<latest, seen, fresh>>

\* The session puts a newer scan, read or not read.
Put ==
  /\ open
  /\ \E n \in latest + 1 .. MaxFrame : latest' = n
  /\ fresh' = TRUE
  /\ UNCHANGED <<open, seen>>

Take ==
  /\ open
  /\ fresh
  /\ seen' = latest
  /\ fresh' = FALSE
  /\ UNCHANGED <<open, latest>>

Next == Open \/ Close \/ Put \/ Take

SafeSpec == Init /\ [][Next]_vars

Spec == SafeSpec /\ WF_vars(Take)
=============================================================================
