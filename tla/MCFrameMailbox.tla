---------------------------- MODULE MCFrameMailbox ----------------------------
(* FrameMailbox with a handful of revolutions: see FrameMailbox*.cfg.          *)
EXTENDS FrameMailbox
=============================================================================
