------------------------------ MODULE MCDrives ------------------------------
(***************************************************************************)
(* What turns the motors (Drives), one part at a time.  The parts have no  *)
(* step in common: "part" picks one of them for the whole behaviour, and   *)
(* the others stay in an initial state of theirs, so that the states of    *)
(* the parts add up instead of multiplying.                                *)
(***************************************************************************)
EXTENDS Drives

CONSTANT Parts   \* the parts that are looked at

VARIABLE part   \* the part that runs; it never changes

all == <<part, controlVars, boardVars, dmVars, focVars, loopVars, powerVars, batteryVars>>

-----------------------------------------------------------------------------
MCTargets == {-4, 0, 2}
MCCurrents == {-3, -1, 0, 2}

Guarding(trip, release, comm, latch) ==
    [trip |-> trip, release |-> release, comm |-> comm, latch |-> latch, inhibit |-> TRUE]
MCConfigs == {Guarding(2, 2, 2, TRUE), Guarding(1, 1, 2, FALSE)}

(* Of the initial states of a part that does not run, one is enough. *)
Init ==
    /\ part \in Parts
    /\ ControlInit
    /\ BoardInit /\ (part # "settings" =>
           params = [counts |-> 0, pid |-> BoardDefaults.pid, ramp |-> 0, pospid |-> 0,
                     posctl |-> 1, invert |-> {}])
    /\ DmInit /\ (part # "gimbal" => ~motor.enabled)
    /\ FocInit /\ (part # "foc" => sense = "ready")
    /\ LoopInit /\ (part # "loops" => shaft = 0)
    /\ PowerInit /\ (part # "power" => stored.latch)
    /\ BatteryInit

OnlyControl == UNCHANGED <<part, boardVars, dmVars, focVars, loopVars, powerVars,
                           batteryVars>>
OnlyBoard == UNCHANGED <<part, controlVars, dmVars, focVars, loopVars, powerVars,
                         batteryVars>>
OnlyGimbal == UNCHANGED <<part, controlVars, boardVars, focVars, loopVars, powerVars,
                          batteryVars>>
OnlyFoc == UNCHANGED <<part, controlVars, boardVars, dmVars, loopVars, powerVars,
                       batteryVars>>
OnlyLoops == UNCHANGED <<part, controlVars, boardVars, dmVars, focVars, powerVars,
                         batteryVars>>
OnlyPower == UNCHANGED <<part, controlVars, boardVars, dmVars, focVars, loopVars,
                         batteryVars>>
OnlyBattery == UNCHANGED <<part, controlVars, boardVars, dmVars, focVars, loopVars,
                           powerVars>>

Next ==
    \/ part = "control" /\ ControlNext /\ OnlyControl
    \/ part = "settings" /\ BoardNext /\ OnlyBoard
    \/ part = "gimbal" /\ DmNext /\ OnlyGimbal
    \/ part = "foc" /\ FocNext /\ OnlyFoc
    \/ part = "loops" /\ LoopNext /\ OnlyLoops
    \/ part = "power" /\ PowerNext /\ OnlyPower
    \/ part = "battery" /\ BatteryNext /\ OnlyBattery

Spec == Init /\ [][Next]_all

-----------------------------------------------------------------------------
ASSUME ConstantsAreLegal == DrivesConstants
=============================================================================
