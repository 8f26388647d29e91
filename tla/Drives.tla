------------------------------- MODULE Drives -------------------------------
(***************************************************************************)
(* What turns a motor and what watches over its power, side by side: the   *)
(* closed loops of the MotorDriver, the settings gugaPI keeps for it, the  *)
(* gimbal motor, the FOC experiment and its loops, the power guard and the *)
(* battery monitor.  They run on their own processors or in tasks of their *)
(* own and share no variable, so that a behaviour of all of them is a      *)
(* behaviour of each.                                                      *)
(***************************************************************************)
EXTENDS MotorControl, BoardConfig, DmGimbal, FocMotor, FocLoops, PowerGuard, Battery

DrivesConstants ==
    /\ ControlConstants /\ BoardConstants /\ GimbalConstants
    /\ FocConstants /\ LoopConstants /\ PowerConstants /\ BatteryConstants

DrivesSpec ==
    /\ ControlSpec /\ BoardSpec /\ DmSpec
    /\ FocSpec /\ LoopSpec /\ PowerSpec /\ BatterySpec

-----------------------------------------------------------------------------
(* Every part keeps its types and the bounds its module states.            *)
TypeOK ==
    /\ ControlTypeOK /\ BoardTypeOK /\ DmTypeOK
    /\ FocTypeOK /\ LoopTypeOK /\ PowerTypeOK /\ BatteryTypeOK

(* The power guard trips in time and releases late, whatever errors, poor  *)
(* readings and configurations come in between; the battery monitor counts *)
(* every charge (ina219_protection.cpp, battery_monitor.cpp).              *)
PowerWatched ==
    /\ [](\A f \in Measured : TripsInTime(f)) /\ [][ReleasesLateStep]_powerVars
    /\ [][ChargeKeptStep]_batteryVars
=============================================================================
