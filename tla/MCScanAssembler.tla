--------------------------- MODULE MCScanAssembler ---------------------------
(***************************************************************************)
(* ScanAssembler with revolutions of three points: 0.4 revolutions more     *)
(* than one are five points, and seven without a wrap are dropped.  A read  *)
(* brings more than a revolution, and four packets of a standing motor and a*)
(* revolution before them are more than two revolutions without a wrap.     *)
(***************************************************************************)
EXTENDS ScanAssembler

=============================================================================
