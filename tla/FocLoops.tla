------------------------------- MODULE FocLoops ------------------------------
(* The speed and position loops of the FOC experiment (src/FOC/motor_open_loop.c) *)
(* while it runs: what a window of encoder samples and what the keys + - r p v     *)
(* make of the targets, the integral and the torque asked for.  The constants are  *)
(* those of foc_config.h, scaled down; the shaft turns as it likes.                *)
EXTENDS Integers

CONSTANTS Turn,          \* ENCODER_COUNTS_PER_REVOLUTION, an even number
          Fastest,       \* bound: counts the shaft turns in one speed window
          MaxTarget, TargetStep, PlaceStep,
          IqLimit, IntegralScale, Filter, ReleaseError,
          Zone, ErrorDivisor, Damping, DirectLimit, CountsPerRpm, SpeedLimit

VARIABLES shaft,      \* gEncoderRaw
          standing,   \* environment: the shaft is held
          measured,   \* gMeasuredRpm
          loop,       \* gControlMode
          wanted,     \* gTargetRpm
          place,      \* gTargetPositionRaw
          apart,      \* gPositionErrorCounts
          integral,   \* gSpeedIntegralQ6
          iq          \* gIqReferenceCounts

loopVars == << shaft, standing, measured, loop, wanted, place, apart, integral, iq >>

Size(v) == IF v < 0 THEN -v ELSE v
Clipped(v, most) == IF v > most THEN most ELSE IF v < -most THEN -most ELSE v
Truncated(a, d) == IF a < 0 THEN -((-a) \div d) ELSE a \div d
SignOf(v) == IF v > 0 THEN 1 ELSE -1

(* approachFilteredValue: a quotient that truncates to zero still moves by one. *)
Approached(current, goal) ==
    LET step == Truncated(goal - current, Filter) IN
    IF goal = current THEN current
    ELSE current + (IF step = 0 THEN SignOf(goal - current) ELSE step)

(* wrapEncoderError *)
Wrapped(error) ==
    IF error > Turn \div 2 - 1 THEN error - Turn
    ELSE IF error < -(Turn \div 2) THEN error + Turn ELSE error

(* What foc_config.h keeps: the limits of the position loop are those of the speed   *)
(* loop at most, and outside the zone the position loop never asks for less speed    *)
(* than the error that releases the integral.                                         *)
LoopConstants ==
    /\ Turn \in Nat /\ Turn > 0 /\ Turn % 2 = 0 /\ Fastest \in Nat
    /\ MaxTarget \in Nat /\ TargetStep \in 0 .. MaxTarget /\ PlaceStep \in Nat
    /\ IqLimit \in Nat /\ IntegralScale \in Nat \ {0} /\ Filter \in Nat \ {0}
    /\ Zone \in Nat /\ ErrorDivisor \in Nat \ {0} /\ Damping \in Nat
    /\ DirectLimit \in 0 .. IqLimit /\ CountsPerRpm \in Nat \ {0}
    /\ SpeedLimit \in 1 .. MaxTarget
    /\ ReleaseError \in Nat /\ ReleaseError <= SpeedLimit /\ ReleaseError <= (Zone + 1) \div CountsPerRpm

-----------------------------------------------------------------------------
(* updatePositionController: the error, and the speed it asks for. *)
PositionError(raw, target) == Wrapped(target - raw)

PositionSpeed(error) ==
    IF Size(error) <= Zone THEN 0
    ELSE LET speed == Truncated(error, CountsPerRpm) IN
         Clipped(IF speed = 0 THEN SignOf(error) ELSE speed, SpeedLimit)

(* updateSpeedController.  In the zone around the target position the torque comes *)
(* from the position error alone; a stop that is nearly one asks for none.          *)
DirectIq(error, rpm) ==
    Clipped(Truncated(error, ErrorDivisor) - rpm * Damping, DirectLimit)

(* Mutant: the integral keeps the sign it had. *)
ReleasedNever(mode, error, sum) == sum

Released(mode, error, sum) ==
    IF mode = "position" /\ ((error <= -ReleaseError /\ sum > 0) \/ (error >= ReleaseError /\ sum < 0))
    THEN 0 ELSE sum

(* Conditional integration: not further into the limit. *)
Integrated(error, sum) ==
    LET candidate == Clipped(sum + error, IqLimit * IntegralScale)
        output    == error + candidate \div IntegralScale
    IN  IF (output > IqLimit /\ error > 0) \/ (output < -IqLimit /\ error < 0)
        THEN sum ELSE candidate

Speed(mode, target, rpm, error, sum) ==
    IF mode = "position" /\ Size(error) <= Zone
    THEN integral' = 0 /\ iq' = DirectIq(error, rpm)
    ELSE IF mode = "speed" /\ target = 0 /\ Size(rpm) <= 1
    THEN integral' = 0 /\ iq' = 0
    ELSE LET next == Integrated(target - rpm, Released(mode, target - rpm, sum)) IN
         integral' = next /\ iq' = Clipped(target - rpm + next \div IntegralScale, IqLimit)

(* MOTOR_FOC_onEncoderSample at the end of a window, in which the shaft has turned. *)
Window(delta) ==
    LET raw == (shaft + delta) % Turn
        rpm == Approached(measured, delta)
        error == PositionError(raw, place)
    IN  /\ shaft' = raw
        /\ measured' = rpm
        /\ IF loop = "position"
           THEN apart' = error /\ wanted' = PositionSpeed(error)
           ELSE UNCHANGED << apart, wanted >>
        /\ Speed(loop, wanted', rpm, apart', integral)
        /\ UNCHANGED << standing, loop, place >>

Turning == \E delta \in IF standing THEN {0} ELSE -Fastest .. Fastest : Window(delta)

HoldShaft ==
    /\ standing' \in BOOLEAN
    /\ UNCHANGED << shaft, measured, loop, wanted, place, apart, integral, iq >>

(* setTargetRpm while running: what the target asks for now is not left to an old *)
(* integral.                                                                       *)
Unwound(target, sum) ==
    LET error == target - measured IN
    IF target = 0 \/ (error < 0 /\ iq > 0) \/ (error > 0 /\ iq < 0) THEN 0 ELSE sum

SetTarget(target, sum) ==
    LET rpm == Clipped(target, MaxTarget) IN
    /\ wanted' = rpm
    /\ Speed(loop', rpm, measured, apart', Unwound(rpm, sum))
    /\ UNCHANGED << shaft, standing, measured, place >>

(* `+` and `-` change the magnitude of a speed; `r` reverses it. *)
SpeedKey ==
    /\ loop = "speed" /\ UNCHANGED << loop, apart >>
    /\ \/ SetTarget(wanted + (IF wanted < 0 THEN -TargetStep ELSE TargetStep), integral)
       \/ wanted # 0 /\ SetTarget(wanted - SignOf(wanted) * TargetStep, integral)
       \/ SetTarget(IF wanted = 0 THEN -TargetStep ELSE -wanted, 0)

(* `p` and, in position mode, `+` and `-` *)
Hold(target) ==
    LET error == PositionError(shaft, target) IN
    /\ loop' = "position" /\ place' = target
    /\ apart' = error /\ wanted' = PositionSpeed(error)
    /\ Speed("position", PositionSpeed(error), measured, error, 0)
    /\ UNCHANGED << shaft, standing, measured >>

PositionKey ==
    \/ Hold(shaft)
    \/ /\ loop = "position"
       /\ \E delta \in {-PlaceStep, PlaceStep} : Hold((place + delta) % Turn)

(* `v` *)
EnterSpeed == loop' = "speed" /\ apart' = 0 /\ SetTarget(0, 0)

(* MOTOR_FOC_finishAlignment *)
LoopInit ==
    /\ shaft \in 0 .. Turn - 1 /\ place = 0
    /\ standing = FALSE
    /\ loop = "speed" /\ wanted = TargetStep
    /\ measured = 0 /\ apart = 0 /\ integral = 0 /\ iq = 0

LoopNext == Turning \/ HoldShaft \/ SpeedKey \/ PositionKey \/ EnterSpeed

LoopSpec == LoopInit /\ [][LoopNext]_loopVars /\ WF_loopVars(Turning)

-----------------------------------------------------------------------------
(* However the shaft is turned and the keys are pressed, the integral stays where it *)
(* can be unwound and the torque within its limit; a position error is the short way. *)
LoopTypeOK ==
    /\ shaft \in 0 .. Turn - 1 /\ place \in 0 .. Turn - 1
    /\ Size(measured) <= Fastest /\ Size(wanted) <= MaxTarget
    /\ Size(integral) <= IqLimit * IntegralScale /\ Size(iq) <= IqLimit
    /\ apart \in -(Turn \div 2) .. Turn \div 2 - 1

(* A new target that asks for the opposite torque has it at once, "not wait seconds *)
(* for the old Q6 integral to unwind".                                               *)
BrakesAtOnceStep ==
    SpeedKey /\ (wanted' - measured) * iq < 0 => (wanted' - measured) * iq' >= 0

(* In position mode, whatever integral a disturbance has left, no torque drives the *)
(* shaft at standstill away from a target it is short of.                           *)
RestsShort == loop = "position" /\ standing /\ measured = 0
RightWay == apart * iq >= 0

(* Torque is asked for the right way, however shaft and keys take turns. *)
TorqueRightWay == [](RestsShort => RightWay) /\ [][BrakesAtOnceStep]_loopVars

(* The measured speed of a shaft that stands still comes down to 0 and not to the    *)
(* last value a division would not change (DEVELOPMENT_PLAN.md: it used to lock at   *)
(* +5/-5 rpm).                                                                        *)
StandsStill == <>[]standing => <>[](measured = 0)
=============================================================================
