---------------------------- MODULE MCMotorControl --------------------------
(* Targets on both sides of the origin for the runs of MotorControl.       *)
EXTENDS MotorControl

MCTargets == {-5, 0, 4}
=============================================================================
