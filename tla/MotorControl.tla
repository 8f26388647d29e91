---------------------------- MODULE MotorControl ---------------------------
(***************************************************************************)
(* The closed loops of one motor of the MotorDriver board: the speed loop  *)
(* with its target ramp, the position loop, and "speed 0", which holds the *)
(* position it was entered at.  The two motors run the same code on        *)
(* registers of their own.                                                 *)
(*                                                                         *)
(* A pass of the main loop samples the encoder first, then takes host      *)
(* writes, then runs the loops on the sample.  The wheel moves on ticks.   *)
(* Gains are reduced to the proportional one (ki = kd = 0 is the position  *)
(* loop's default) and the speed PID to the choice of an output.           *)
(***************************************************************************)
EXTENDS Integers

CONSTANTS
    MaxCount,        \* bound: the encoder stays in -MaxCount..MaxCount
    Targets,         \* values the host writes to TARGET_POSITION
    Rpms,            \* values the host writes to TARGET_RPM
    PositionRpm,     \* the speed a position command publishes in TARGET_RPM
    AccelRate, DecelRate, \* ramp rates, in rpm per RampScale ticks; 0: no ramp
    RampScale,       \* 1000 in the code (rates are per second)
    SpeedPeriod, PositionPeriod, \* control periods, in ticks
    Gain, Cpr,       \* position gain numerator and counts per revolution
    Enter, Exit, Settle, \* position tolerances and settling time
    Slip,            \* how far the wheel may turn per tick when driven
    MaxPushes,       \* bound: turns of the wheel by hand
    MaxLag,          \* bound: ticks between two samples of the encoder
    MaxWrites,       \* bound: host writes
    Horizon          \* bound: elapsed times saturate here

ControlConstants ==
    /\ MaxCount \in Nat /\ Targets \subseteq -MaxCount..MaxCount
    /\ Rpms \subseteq Nat /\ {0, PositionRpm} \subseteq Rpms
    /\ AccelRate \in Nat /\ DecelRate \in Nat /\ RampScale \in Nat \ {0}
    /\ SpeedPeriod \in Nat \ {0} /\ PositionPeriod \in Nat \ {0}
    /\ Gain \in Nat \ {0} /\ Cpr \in Nat \ {0}
    /\ Enter \in Nat /\ Exit \in Nat /\ Settle \in Nat
    /\ Slip \subseteq Nat \ {0} /\ MaxPushes \in Nat
    /\ MaxLag \in Nat /\ MaxWrites \in Nat
    /\ Horizon \in Nat /\ Horizon > PositionPeriod /\ Horizon > SpeedPeriod
    /\ \A r \in Rpms : AccelRate > 0 => Horizon * AccelRate >= r * RampScale

VARIABLES
    mode, dir, rpm, target, \* Mx_MODE, Mx_DIRECTION, Mx_TARGET_RPM, Mx_TARGET_POSITION
    enabled,   \* CONTROL_FLAGS
    timeout,   \* g_timeout_active
    st,        \* SpeedPidState
    count,     \* the encoder
    sample,    \* feedback taken at the start of the pass
    drive,     \* what the bridge does: -1, 0 or 1
    pc,        \* "sample", then "commands"
    writes,    \* host writes so far
    lag,       \* ticks since this pass sampled the encoder
    untouched, \* history: a loop has run and the host has not written since
    pushes,    \* times the wheel was turned by hand so far
    rampTime,  \* history: ticks the ramp has run since it started from rest
    asked      \* history: the speed asked for in that time

registers == <<mode, dir, rpm, target, enabled, timeout>>
history   == <<untouched, rampTime, asked>>
controlVars == <<registers, st, count, sample, drive, pc, writes, lag, pushes, history>>

Counts == -MaxCount..MaxCount
Modes  == {"COAST", "SPEED", "POSITION"}
None   == -1     \* asked: no ramp step yet
Mixed  == -2     \* asked: more than one speed

Abs(n) == IF n < 0 THEN -n ELSE n
Least(a, b) == IF a < b THEN a ELSE b
Greatest(a, b) == IF a > b THEN a ELSE b
Saturate(n) == Least(n, Horizon)
Clamp(n) == Greatest(-MaxCount, Least(n, MaxCount))
DirectionSign(d) == IF d = "fwd" THEN 1 ELSE -1
-----------------------------------------------------------------------------
(* The loops, as functions of the state they read.                         *)

\* ResetPid
FreshState ==
    [init |-> FALSE, mode |-> "COAST", dir |-> "fwd", target |-> 0,
     hold |-> FALSE, holdCount |-> 0, err |-> 0, atTarget |-> FALSE,
     settle |-> 0, ctl |-> 0, rem |-> 0, rdir |-> 0, since |-> 0, out |-> 0]

RampRate(d) == IF d = 1 THEN AccelRate ELSE DecelRate

RampSign(s, req) == IF req > s.ctl THEN 1 ELSE -1

\* Mutant: the sub-unit remainder of the ramp is dropped at every step.
RampTruncating(s, req, elapsed) ==
    LET d == RampSign(s, req)
        step == (RampRate(d) * elapsed) \div RampScale
    IN  IF s.ctl = req \/ RampRate(d) = 0 \/ step >= Abs(req - s.ctl)
        THEN [s EXCEPT !.ctl = req, !.rem = 0, !.rdir = 0]
        ELSE [s EXCEPT !.ctl = @ + d * step, !.rdir = d]

\* AdvanceControlTarget: move the control target towards the requested speed
\* at the ramp rate, carrying the fraction of an rpm that is left over.
Ramp(s, req, elapsed) ==
    LET d == RampSign(s, req)
        scaled == RampRate(d) * elapsed + (IF s.rdir = d THEN s.rem ELSE 0)
        step == scaled \div RampScale
    IN  IF s.ctl = req \/ RampRate(d) = 0 \/ step >= Abs(req - s.ctl)
        THEN [s EXCEPT !.ctl = req, !.rem = 0, !.rdir = 0]
        ELSE [s EXCEPT !.ctl = @ + d * step, !.rem = scaled % RampScale, !.rdir = d]

\* PositionTermQ4: C++ division truncates towards zero.
PositionTerm(err) ==
    IF err < 0 THEN -((-err * Gain) \div Cpr) ELSE (err * Gain) \div Cpr

HoldMode == mode = "SPEED" /\ rpm = 0
DirectionKey == IF mode = "SPEED" THEN dir ELSE "fwd"
TargetKey == IF mode = "POSITION" THEN target ELSE 0

\* What makes UpdateSpeedMotor start over from rest.
KeyChanged ==
    \/ ~st.init
    \/ st.mode # mode
    \/ st.dir # DirectionKey
    \/ st.target # TargetKey
    \/ st.hold # HoldMode

\* The state right after starting over: rest, with this sample as reference.
Restarted ==
    [FreshState EXCEPT
        !.init = TRUE, !.mode = mode, !.dir = DirectionKey,
        !.target = TargetKey, !.hold = HoldMode, !.holdCount = sample,
        !.err = IF mode = "POSITION" THEN target - sample ELSE 0,
        !.atTarget = HoldMode \/ (mode = "POSITION" /\ Abs(target - sample) <= Enter)]

\* Mutant: the loop stops resting as soon as it leaves the entry tolerance.
PositionStepHunting ==
    LET err == (IF HoldMode THEN st.holdCount ELSE target) - sample
    IN  [st EXCEPT !.err = err, !.since = 0, !.atTarget = Abs(err) <= Enter,
                   !.out = IF Abs(err) <= Enter THEN 0 ELSE 1]

\* UpdatePositionMotor: an overshoot counts as arrival; the loop then rests
\* until the error has left the exit tolerance and the settling time is over.
PositionStep ==
    LET goal    == IF HoldMode THEN st.holdCount ELSE target
        err     == goal - sample
        crossed == st.err * err < 0 /\ ~st.atTarget
        arrived == st.atTarget \/ crossed
        wait    == IF crossed THEN Settle ELSE st.settle
        resting == IF arrived THEN wait > 0 \/ Abs(err) <= Greatest(Enter, Exit)
                              ELSE Abs(err) <= Enter
    IN  [st EXCEPT !.err = err, !.since = 0, !.atTarget = resting,
                   !.settle = IF resting /\ ~arrived THEN Settle ELSE wait,
                   !.out = IF resting THEN 0 ELSE 1]

\* Mutant: the direction of a position command ignores the error.
PositionDirectionFixed(s) == "fwd"

\* The command is never zero while the error is outside the tolerance, but a
\* term that truncates to zero leaves the direction at forward.
PositionDirection(s) ==
    IF s.out = 1 /\ PositionTerm(s.err) < 0 THEN "rev" ELSE "fwd"

-----------------------------------------------------------------------------
ControlInit ==
    /\ mode = "COAST" /\ dir = "fwd" /\ rpm = 0 /\ target = 0
    /\ enabled = TRUE /\ timeout = FALSE
    /\ st = FreshState
    /\ count = 0 /\ sample = 0 /\ drive = 0
    /\ pc = "sample" /\ writes = 0
    /\ lag = 0 /\ pushes = 0 /\ untouched = FALSE /\ rampTime = 0 /\ asked = None

(* The wheel turns while driven; settling and control periods run down.    *)
Tick ==
    /\ lag < MaxLag /\ lag' = lag + 1
    /\ \E s \in Slip : count' = Clamp(count + drive * s)
    /\ st' = [st EXCEPT !.since = Saturate(@ + 1),
                        !.settle = Greatest(0, @ - 1)]
    /\ UNCHANGED <<registers, sample, drive, pc, writes, pushes, history>>

(* Somebody turns the wheel.                                               *)
Push ==
    /\ pushes < MaxPushes /\ pushes' = pushes + 1
    /\ \E s \in {-1, 1} : count' = Clamp(count + s)
    /\ UNCHANGED <<registers, st, sample, drive, pc, writes, lag, history>>

Sample ==
    /\ pc = "sample"
    /\ sample' = count /\ pc' = "commands"
    /\ lag' = 0
    /\ UNCHANGED <<registers, st, count, drive, writes, pushes, history>>

(* Any accepted host write also clears the timeout.                        *)
HostWrites ==
    /\ pc = "commands" /\ writes < MaxWrites
    /\ writes' = writes + 1
    /\ timeout' = FALSE /\ untouched' = FALSE
    /\ UNCHANGED <<st, sample, drive, pc, lag, pushes, rampTime, asked>>

\* NormalizeControlState: only SPEED leaves TARGET_RPM alone.
WriteMode(m, d) ==
    /\ HostWrites
    /\ mode' = m /\ dir' = d
    /\ rpm' = IF m = "SPEED" THEN rpm ELSE 0
    /\ UNCHANGED <<target, enabled, count>>

WriteTargetRpm(r) ==
    /\ HostWrites
    /\ rpm' = r
    /\ UNCHANGED <<mode, dir, target, enabled, count>>

WriteTargetPosition(t) ==
    /\ HostWrites
    /\ target' = t
    /\ UNCHANGED <<mode, dir, rpm, enabled, count>>

WriteEnable(e) ==
    /\ HostWrites
    /\ enabled' = e
    /\ mode' = IF e THEN mode ELSE "COAST"
    /\ rpm' = IF e THEN rpm ELSE 0
    /\ UNCHANGED <<dir, target, count>>

(* ENCODER_CONTROL: the counter is cleared at once, the sample is not.     *)
ResetEncoder ==
    /\ HostWrites
    /\ count' = 0
    /\ UNCHANGED <<mode, dir, rpm, target, enabled>>

(* The watchdog or bus recovery forces the motor to coast.                 *)
Trip ==
    /\ pc = "commands" /\ mode # "COAST"
    /\ mode' = "COAST" /\ rpm' = 0 /\ timeout' = TRUE
    /\ untouched' = FALSE
    /\ UNCHANGED <<dir, target, enabled, st, count, sample, drive, pc, writes,
                   lag, pushes, rampTime, asked>>

Inhibited == timeout \/ ~enabled

DriveFor(s, d) ==
    IF Inhibited \/ mode = "COAST" THEN 0 ELSE s.out * DirectionSign(d)

EndPass ==
    /\ pc = "commands" /\ pc' = "sample"
    /\ drive' = DriveFor(st', dir')
    /\ UNCHANGED <<mode, target, enabled, timeout, count, sample, writes, lag, pushes>>

(* MotorControl_UpdateSpeed is not called while the output is inhibited.   *)
SkipLoop ==
    /\ Inhibited
    /\ UNCHANGED <<dir, rpm, st, untouched, rampTime, asked>>
    /\ EndPass

NoLoop ==
    /\ ~Inhibited /\ mode = "COAST"
    /\ st' = FreshState
    /\ untouched' = FALSE
    /\ rampTime' = 0 /\ asked' = None
    /\ UNCHANGED <<dir, rpm>>
    /\ EndPass

RestartLoop ==
    /\ ~Inhibited /\ mode # "COAST" /\ KeyChanged
    /\ st' = Restarted
    /\ rpm' = IF mode = "POSITION" THEN 0 ELSE rpm
    /\ untouched' = TRUE
    /\ rampTime' = 0 /\ asked' = None
    /\ UNCHANGED dir
    /\ EndPass

ControlPeriod == IF mode = "POSITION" \/ HoldMode THEN PositionPeriod ELSE SpeedPeriod

WaitPeriod ==
    /\ ~Inhibited /\ mode # "COAST" /\ ~KeyChanged /\ st.since < ControlPeriod
    /\ UNCHANGED <<dir, rpm, st, untouched, rampTime, asked>>
    /\ EndPass

StepPosition ==
    /\ ~Inhibited /\ (mode = "POSITION" \/ HoldMode)
    /\ ~KeyChanged /\ st.since >= ControlPeriod
    /\ st' = PositionStep
    /\ dir' = PositionDirection(st')
    /\ rpm' = IF HoldMode THEN rpm ELSE PositionRpm * st'.out
    /\ untouched' = TRUE
    /\ UNCHANGED <<rampTime, asked>>
    /\ EndPass

(* The speed PID may ask for any duty; only zero or not matters here.      *)
StepSpeed ==
    /\ ~Inhibited /\ mode = "SPEED" /\ ~HoldMode
    /\ ~KeyChanged /\ st.since >= ControlPeriod
    /\ \E o \in {0, 1} :
          st' = [Ramp(st, rpm, st.since) EXCEPT !.since = 0, !.out = o]
    /\ rampTime' = Saturate(rampTime + st.since)
    /\ asked' = IF asked \in {None, rpm} THEN rpm ELSE Mixed
    /\ untouched' = TRUE
    /\ UNCHANGED <<dir, rpm>>
    /\ EndPass

Control == SkipLoop \/ NoLoop \/ RestartLoop \/ WaitPeriod \/ StepPosition \/ StepSpeed

Host ==
    \/ \E m \in Modes, d \in {"fwd", "rev"} : WriteMode(m, d)
    \/ \E r \in Rpms : WriteTargetRpm(r)
    \/ \E t \in Targets : WriteTargetPosition(t)
    \/ \E e \in BOOLEAN : WriteEnable(e)
    \/ ResetEncoder

ControlNext == Tick \/ Push \/ Sample \/ Host \/ Trip \/ Control

ControlSpec == ControlInit /\ [][ControlNext]_controlVars

(* The main loop and the clock never stop; a driven wheel turns.  The host *)
(* and the watchdog owe nothing.                                           *)
ControlFairSpec == ControlSpec /\ WF_controlVars(Tick) /\ WF_controlVars(Sample) /\ WF_controlVars(Control)
-----------------------------------------------------------------------------
(* Every register and controller field keeps its range.                    *)
ControlTypeOK ==
    /\ mode \in Modes /\ dir \in {"fwd", "rev"} /\ rpm \in Rpms
    /\ target \in Targets \cup {0}
    /\ enabled \in BOOLEAN /\ timeout \in BOOLEAN
    /\ st.ctl \in Nat /\ \E r \in Rpms : st.ctl <= r
    /\ st.rem \in 0..RampScale - 1 /\ st.out \in {0, 1}
    /\ st.since \in 0..Horizon /\ st.settle \in 0..Settle
    /\ count \in Counts /\ sample \in Counts /\ drive \in {-1, 0, 1}
    /\ pc \in {"sample", "commands"} /\ lag \in 0..MaxLag
    /\ writes \in 0..MaxWrites /\ pushes \in 0..MaxPushes

(* A ramp towards one speed is exact: after any number of control steps of *)
(* any length the control target is what the acceleration rate gives for   *)
(* the whole time, so no fraction of an rpm is lost to integer steps       *)
(* (AdvanceControlTarget; CHASSIS_CONTROL_PLAN.md asks for it).            *)
RampIsExact ==
    asked \in Rpms /\ AccelRate > 0 =>
        st.ctl = Least(asked, (AccelRate * rampTime) \div RampScale)

(* However the host changes its mind, the control target is never ahead of *)
(* what the acceleration rate allows since the loop last started over.     *)
RampNeverAhead ==
    AccelRate > 0 /\ rampTime < Horizon =>
        st.ctl * RampScale <= AccelRate * rampTime

(* The ramp keeps its rate: it loses nothing, and is ahead of nothing.     *)
RampKeepsRate == RampIsExact /\ RampNeverAhead

(* A position loop that drives the wheel drives it towards its goal, unless *)
(* the host has written since the loop ran: a direction written meanwhile  *)
(* is applied until the next control period (UpdatePositionMotor pulls the *)
(* wheel back to the target, whatever the sign of the error).              *)
DrivesTowardsGoal ==
    untouched /\ (st.mode = "POSITION" \/ st.hold) /\ drive # 0
        => drive * st.err > 0

(* It does where the smallest error outside the tolerance has a term that  *)
(* does not truncate to zero, as with the gains and the tolerance of a     *)
(* fresh register map (register_map.cpp); a host may write others.         *)
TermReaches == (Enter + 1) * Gain >= Cpr

(* Once the host is done, a position loop with nobody touching the wheel   *)
(* comes to rest within the exit tolerance and stays there: it neither     *)
(* gives up outside it nor hunts around the target for ever.               *)
Positioning == mode = "POSITION" /\ enabled
Settled     == drive = 0 /\ Abs(target - count) <= Greatest(Enter, Exit)
PositionSettles == <>[]Positioning => <>[]Settled

(* Once the host is done, a speed command is reached by the ramp and kept, *)
(* however slow the ramp and however often the host repeats itself: the    *)
(* loop is not started over by a target it already has.                    *)
Speeding  == mode = "SPEED" /\ rpm > 0 /\ enabled /\ ~timeout
AtSpeed   == st.ctl = rpm
SpeedReached == <>[]Speeding => <>[]AtSpeed
=============================================================================
