----------------------------- MODULE MCLidarServer -----------------------------
(* LidarServer with as many publishers as can be referenced at once, and one.  *)
EXTENDS LidarServer
=============================================================================
