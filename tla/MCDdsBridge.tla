----------------------------- MODULE MCDdsBridge -----------------------------
(***************************************************************************)
(* DdsBridge with two scans: one from a publisher that is replaced and one  *)
(* from the next.  With a watchdog period of two seconds a silence can be   *)
(* noticed in the first check after it or only in the second.               *)
(***************************************************************************)
EXTENDS DdsBridge

=============================================================================
