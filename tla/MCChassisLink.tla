---------------------------- MODULE MCChassisLink ---------------------------
(* Small instances of ChassisLink: straight ahead, turning on the spot and *)
(* one wheel at rest are the goals that differ in which modes are written. *)
EXTENDS ChassisLink

Wheels(l, r) == [m \in Motors |-> IF m = 2 THEN l ELSE r]
MCGoals == {Wheels(1, 1), Wheels(1, -1), Wheels(0, 1)}
=============================================================================
