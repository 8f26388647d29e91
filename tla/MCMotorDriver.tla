--------------------------- MODULE MCMotorDriver ---------------------------
(* A small instance of MotorDriver: two motors, one non-zero duty, the     *)
(* watchdog off or two ticks, one transaction waiting at most.  The target *)
(* speed does not gate the output, so one value of it is enough here.      *)
EXTENDS MotorDriver, TLC

MCWrites == {
    "M1_MODE" :> "RUN" @@ "M1_DUTY" :> 1,
    "M1_MODE" :> "SPEED",
    "M1_MODE" :> "POSITION",
    "M1_MODE" :> "BRAKE",
    "M2_MODE" :> "SPEED",
    "M2_MODE" :> "COAST",
    "ENABLE" :> FALSE,
    "ENABLE" :> TRUE,
    "WATCHDOG_TIMEOUT" :> 0 @@ "M1_TARGET_RPM" :> 0 @@ "M2_TARGET_RPM" :> 0,
    "WATCHDOG_TIMEOUT" :> 2,
    "FAULT" :> TRUE,
    "PARAM" :> 0,
    "M1_DUTY" :> 101 }
=============================================================================
