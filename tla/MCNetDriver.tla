----------------------------- MODULE MCNetDriver -----------------------------
(***************************************************************************)
(* NetDriver with two peers, so that a second one can be heard, and two      *)
(* datagrams in the socket, so that one waits while another is parsed.      *)
(***************************************************************************)
EXTENDS NetDriver

=============================================================================
