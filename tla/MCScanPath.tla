----------------------------- MODULE MCScanPath -----------------------------
(***************************************************************************)
(* ScanPath with five directions and four beams.  Points are neighbours if  *)
(* no direction between them is missing (AngleLimit is one and a half), a   *)
(* group of five is large and one of two is small.                          *)
(*                                                                          *)
(* The values lie on both sides of the limits of the two filters and of the *)
(* bridge: near points that belong together and not, dim, bright and very   *)
(* bright ones, far ones, the farthest that is shown and the nearest that is*)
(* not, and the sensor's "no distance, but some light".                     *)
(*                                                                          *)
(* Once the stamps tie by pairs, and once the clock is set back.            *)
(***************************************************************************)
EXTENDS ScanPath

V(distance, intensity) == [distance |-> distance, intensity |-> intensity]

MCValue(t) ==
  IF t = "LD_19"
  THEN {V(0, 100), V(1000, 5), V(1000, 230), V(1020, 100),
        V(11999, 5), V(12000, 5)}
  ELSE {V(100, 28), V(106, 40), V(111, 50), V(400, 28), V(1000, 25), V(12000, 5)}

MCStamps == {[s \in Slot |-> s \div 2], [s \in Slot |-> (s + 2) % 5]}

=============================================================================
