------------------------------- MODULE FocMotor ------------------------------
(* The FOC experiment (src/FOC): a console in the main loop starts and stops a    *)
(* motor that two interrupts watch over, the 20 kHz current loop and the nFAULT   *)
(* edge.  The main loop is cut where an interrupt that falls in between makes a   *)
(* difference; an interrupt runs whole.  One tick is one ADC sample.              *)
EXTENDS Integers

CONSTANTS Stale,          \* FOC_CFG_ENCODER_STALE_TICKS
          SamplePeriod, Timeout, \* of the fast encoder sampler
          TripSamples,    \* FOC_CFG_HARD_CURRENT_TRIP_SAMPLES
          MaxKeys,        \* bound: commands typed on the console
          MaxFaults,      \* bound: nFAULT edges
          MaxMisses       \* bound: samples in a row without a phase C

VARIABLES foc,     \* the statics of motor_open_loop.c
          phases,  \* INLA, INLB, INLC: the half bridges are on
          nfault,  \* the driver pulls nFAULT low, and the flags of the edge
          sense,   \* gCurrentSenseReady, and the calibration under way
          enc,     \* the fast encoder sampler
          main,    \* where the main loop is: in the loop, or inside a command
          missed, keys, faults

focVars == << foc, phases, nfault, sense, enc, main, missed, keys, faults >>

Console == << sense, enc, main, keys >>

Active == foc.state \in {"aligning", "running"}

DriverFault == nfault.low

Lowest(a, b) == IF a < b THEN a ELSE b

(* MOTOR_FOC_emergencyStop *)
EmergencyStop(reason) ==
    /\ phases' = FALSE
    /\ foc' = [foc EXCEPT !.state = "fault", !.reason = reason, !.ready = FALSE]

(* A sample trips on some count, and a bound of 0 never lets its events happen. *)
FocConstants ==
    /\ Stale \in Nat /\ SamplePeriod \in Nat /\ Timeout \in Nat /\ TripSamples \in Nat \ {0}
    /\ MaxKeys \in Nat /\ MaxFaults \in Nat /\ MaxMisses \in Nat

-----------------------------------------------------------------------------
(* GROUP1_IRQHandler: the falling edge of nFAULT. *)
FaultEdge ==
    /\ ~nfault.low /\ faults < MaxFaults
    /\ faults' = faults + 1
    /\ EmergencyStop("driver")
    /\ nfault' = [nfault EXCEPT !.low = TRUE, !.flagged = TRUE]
    /\ UNCHANGED << Console, missed >>

(* An overtemperature or an undervoltage goes by itself; a latched fault stays. *)
FaultGoes ==
    /\ nfault.low
    /\ nfault' = [nfault EXCEPT !.low = FALSE]
    /\ UNCHANGED << foc, phases, Console, missed, faults >>

Overcurrent(high) == IF high THEN foc.over + 1 ELSE 0

Tripped(high) == Overcurrent(high) >= TripSamples

StaleNow == foc.age + 1 > Stale

(* MOTOR_FOC_currentLoopISR; age is the sequence number since the last angle. *)
CurrentLoop(high) ==
    IF ~Active THEN foc' = [foc EXCEPT !.age = Lowest(@ + 1, Stale + 1)] /\ UNCHANGED phases
    ELSE IF Tripped(high) THEN EmergencyStop("overcurrent")
    ELSE IF foc.state = "running" /\ (~foc.ready \/ StaleNow)
         THEN EmergencyStop("encoder")
         ELSE /\ foc' = [foc EXCEPT !.over = Overcurrent(high),
                                    !.age = Lowest(@ + 1, Stale + 1)]
              /\ UNCHANGED phases

(* CURRENT_ADC0_INST_IRQHandler.  A missing phase C (gCurrentAdcPairMissCount) or a *)
(* calibration skips the loop, and with it the protection; the sequence goes on.    *)
AdcSample ==
    /\ \/ /\ missed < MaxMisses
          /\ missed' = missed + 1
          /\ foc' = [foc EXCEPT !.age = Lowest(@ + 1, Stale + 1 + MaxMisses)]
          /\ UNCHANGED << phases, sense >>
       \/ /\ missed' = 0
          /\ IF sense = "ready" THEN \E high \in BOOLEAN : CurrentLoop(high)
             ELSE UNCHANGED phases /\ foc' = [foc EXCEPT !.age = Lowest(@ + 1, Stale + 1)]
          /\ UNCHANGED sense
    /\ enc' = [enc EXCEPT !.due = IF @ > -SamplePeriod THEN @ - 1 ELSE @,
                          !.since = Lowest(@ + 1, Timeout + 1)]
    /\ UNCHANGED << nfault, main, keys, faults >>

-----------------------------------------------------------------------------
(* MOTOR_FOC_onEncoderSample with the motor running: its time, the angle follows. *)
Sampled == [foc EXCEPT !.age = 0]

Aborted == [enc EXCEPT !.state = "idle", !.due = SamplePeriod]

(* encoderFastComplete: the next period counts from the last one, unless it is gone. *)
Completed ==
    [enc EXCEPT !.state = "idle", !.due = IF @ + SamplePeriod <= 0 THEN SamplePeriod ELSE @ + SamplePeriod]

(* serviceEncoderFast; events is what the I2C controller shows this time. *)
EncoderService ==
    IF foc.state # "running"
    THEN enc' = [enc EXCEPT !.state = "idle"] /\ UNCHANGED foc
    ELSE IF enc.state = "idle"
    THEN /\ UNCHANGED foc
         /\ enc' \in IF enc.due > 0 THEN {enc}
                     ELSE {Aborted, [enc EXCEPT !.state = "tx", !.since = 0]}
    ELSE \E events \in {"none", "error", "done"} :
         IF events = "error" \/ enc.since > Timeout
         THEN enc' = Aborted /\ UNCHANGED foc
         ELSE CASE events = "none" -> UNCHANGED << enc, foc >>
                [] enc.state = "tx" /\ events = "done" ->
                       enc' = [enc EXCEPT !.state = "rx"] /\ UNCHANGED foc
                [] OTHER -> enc' = Completed /\ foc' = Sampled

Goto(p) == main' = [main EXCEPT !.at = p]

(* One pass of the main loop that finds no character. *)
Pass ==
    /\ main.at = "loop"
    /\ EncoderService
    /\ nfault' = [nfault EXCEPT !.reported = @ \/ nfault.flagged]
    /\ UNCHANGED << phases, sense, main, missed, keys, faults >>

StartChecked == sense = "ready" /\ ~Active

(* Mutant: offsets are measured whether or not the bridge is driven. *)
MayCalibrateAlways == TRUE

MayCalibrate == ~Active

(* processCommand: `s` and `p` begin a start, `z` a calibration, `x` and `c` a stop. *)
Key ==
    /\ main.at = "loop" /\ keys < MaxKeys
    /\ keys' = keys + 1
    /\ \E key \in {"s", "p", "v", "x", "c", "z"} :
         /\ main' = [main EXCEPT !.key = key, !.at =
                CASE key \in {"s", "p"} /\ StartChecked /\ ~DriverFault -> "check"
                  [] key = "p" /\ foc.state = "running" -> "position"
                  [] key = "v" /\ foc.state = "running" -> "speed"
                  [] key \in {"x", "c"} -> "stop"
                  [] key = "z" /\ MayCalibrate -> "calibrate"
                  [] OTHER -> "loop"]
         /\ sense' = IF key = "z" /\ MayCalibrate THEN "calibrating" ELSE sense
    /\ UNCHANGED << foc, phases, nfault, enc, missed, faults >>

(* calibrateCurrentOffsets: 64 samples within 100 ms, or none. *)
Calibrate ==
    /\ main.at = "calibrate"
    /\ sense' \in {"ready", "failed"}
    /\ Goto("loop")
    /\ UNCHANGED << foc, phases, nfault, enc, missed, keys, faults >>

(* readEncoderSample borrows the bus; startFocMotor and MOTOR_FOC_beginAlignment up *)
(* to enablePhases.                                                                  *)
Check ==
    /\ main.at = "check"
    /\ \E valid \in BOOLEAN :
         IF valid /\ foc.state = "stopped" /\ ~DriverFault
         THEN /\ foc' = [foc EXCEPT !.reason = "none", !.ready = FALSE, !.mode = "speed",
                                    !.over = 0]
              /\ Goto("enable")
         ELSE UNCHANGED foc /\ Goto("loop")
    /\ enc' = [enc EXCEPT !.state = "idle", !.due = SamplePeriod]
    /\ UNCHANGED << phases, nfault, sense, missed, keys, faults >>

Enable ==
    /\ main.at = "enable"
    /\ phases' = TRUE
    /\ Goto("align")
    /\ UNCHANGED << foc, nfault, sense, enc, missed, keys, faults >>

Align ==
    /\ main.at = "align"
    /\ foc' = [foc EXCEPT !.state = "aligning"]
    /\ Goto("wait")
    /\ UNCHANGED << phases, nfault, sense, enc, missed, keys, faults >>

(* The 500 ms of startFocMotor end with the second reading of the encoder. *)
Wait ==
    /\ main.at = "wait"
    /\ IF foc.state # "aligning"
       THEN Goto("loop") /\ UNCHANGED << foc, phases >>
       ELSE \/ Goto("finish") /\ UNCHANGED << foc, phases >>
            \/ EmergencyStop("encoder") /\ Goto("loop")
    /\ UNCHANGED << nfault, sense, enc, missed, keys, faults >>

(* MOTOR_FOC_finishAlignment up to gEncoderReady. *)
Finish ==
    /\ main.at = "finish"
    /\ IF foc.state # "aligning" \/ DriverFault
       THEN EmergencyStop("driver") /\ Goto("loop")
       ELSE /\ foc' = [foc EXCEPT !.ready = TRUE, !.age = 0, !.over = 0]
            /\ UNCHANGED phases
            /\ Goto("run")
    /\ UNCHANGED << nfault, sense, enc, missed, keys, faults >>

(* ... and from there: the state, the first sample, the timing of the sampler. *)
Run ==
    /\ main.at = "run"
    /\ foc' = [foc EXCEPT !.state = "running", !.age = 0]
    /\ enc' = [enc EXCEPT !.due = 0]
    /\ Goto(IF main.key = "p" THEN "position" ELSE "loop")
    /\ UNCHANGED << phases, nfault, sense, missed, keys, faults >>

(* MOTOR_FOC_enterPositionMode, MOTOR_FOC_enterSpeedMode *)
Mode ==
    /\ main.at \in {"position", "speed"}
    /\ foc' = IF main.at = "position" /\ (foc.state # "running" \/ ~foc.ready) THEN foc
              ELSE [foc EXCEPT !.mode = main.at]
    /\ Goto("loop")
    /\ UNCHANGED << phases, nfault, sense, enc, missed, keys, faults >>

(* MOTOR_FOC_stop; `c` goes on to DRV8323RS_clearFaults. *)
Stop ==
    /\ main.at = "stop"
    /\ phases' = FALSE
    /\ Goto("stopped")
    /\ UNCHANGED << foc, nfault, sense, enc, missed, keys, faults >>

StopDone ==
    /\ main.at = "stopped"
    /\ foc' = [foc EXCEPT !.state = "stopped", !.reason = "command", !.ready = FALSE,
                          !.mode = "speed", !.over = 0]
    /\ Goto(IF main.key = "c" THEN "clear" ELSE "loop")
    /\ UNCHANGED << phases, nfault, sense, enc, missed, keys, faults >>

(* The driver lets nFAULT go if its cause is gone; then MOTOR_FOC_clearStopReason. *)
Clear ==
    /\ main.at = "clear"
    /\ \/ /\ nfault' = [low |-> FALSE, flagged |-> FALSE, reported |-> FALSE]
          /\ foc' = [foc EXCEPT !.reason = "none",
                                !.state = IF @ = "fault" THEN "stopped" ELSE @]
       \/ nfault.low /\ UNCHANGED << nfault, foc >>
    /\ Goto("loop")
    /\ UNCHANGED << phases, sense, enc, missed, keys, faults >>

Command == Calibrate \/ Check \/ Enable \/ Align \/ Wait \/ Finish \/ Run \/ Mode \/ Stop
             \/ StopDone \/ Clear

(* main, up to the loop; the first calibration may have failed. *)
FocInit ==
    /\ foc = [state |-> "stopped", reason |-> "none", ready |-> FALSE, mode |-> "speed",
              over |-> 0, age |-> 0]
    /\ phases = FALSE
    /\ nfault = [low |-> FALSE, flagged |-> FALSE, reported |-> FALSE]
    /\ sense \in {"ready", "failed"}
    /\ enc = [state |-> "idle", due |-> 0, since |-> 0]
    /\ main = [at |-> "loop", key |-> "x"]
    /\ missed = 0 /\ keys = 0 /\ faults = 0

FocNext == FaultEdge \/ FaultGoes \/ AdcSample \/ Pass \/ Key \/ Command

FocSpec == FocInit /\ [][FocNext]_focVars /\ WF_focVars(Command) /\ WF_focVars(AdcSample)

-----------------------------------------------------------------------------
FocTypeOK ==
    /\ foc.state \in {"stopped", "aligning", "running", "fault"}
    /\ foc.reason \in {"none", "command", "driver", "encoder", "overcurrent"}
    /\ foc.mode \in {"speed", "position"}
    /\ foc.over \in 0 .. TripSamples - 1 /\ foc.age \in 0 .. Stale + 1 + MaxMisses
    /\ enc.state \in {"idle", "tx", "rx"} /\ enc.due \in -SamplePeriod .. SamplePeriod
    /\ missed \in 0 .. MaxMisses /\ keys \in 0 .. MaxKeys

(* The bridge is on only with the current protection at work: no start overtakes a *)
(* calibration, and a failed one keeps the motor off.                              *)
Protected == phases => sense = "ready"

(* No torque on an angle older than 5 ms, whatever the sampler, the bus and the main *)
(* loop are about; samples without a phase C put the stop off by as many.           *)
FreshAngle == foc.state = "running" /\ phases => foc.age <= Stale + missed

(* Whatever interrupt hits a start or a stop between its statements, the bridge is *)
(* never on in the states the console calls stopped and fault.                      *)
OffWhenStopped ==
    phases => Active \/ main.at \in {"align", "wait", "finish", "run", "stop"}

(* Whatever interrupt falls where, the motor is driven only with its protection at *)
(* work: the comparison of the current, a fresh angle, and a state that is watched.  *)
FocWatched == Protected /\ FreshAngle /\ OffWhenStopped

(* nFAULT is low and the bridge on only for the rest of an alignment. *)
FaultEndsDrive == []<>~(phases /\ nfault.low)

(* README.md: a low nFAULT immediately disables all three half bridges. *)
LowFaultCoasts == nfault.low => ~phases
=============================================================================
