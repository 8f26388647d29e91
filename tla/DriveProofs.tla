----------------------------- MODULE DriveProofs -----------------------------
(* What TLAPS proves of the parts that turn the motors or watch over their power:   *)
(* the FOC experiment (FocMotor, FocLoops), the closed loops of a motor              *)
(* (MotorControl), the settings gugaPI and the MotorDriver board share               *)
(* (BoardConfig), the gimbal motor (DmGimbal), the power guard (PowerGuard) and the  *)
(* battery monitor (Battery).  The parts share no state; each has its invariant, the *)
(* lemmas of its steps and its theorems.                                             *)
EXTENDS Drives, TLAPS

-----------------------------------------------------------------------------
Places == {"loop", "check", "enable", "align", "wait", "finish", "run", "position", "speed",
           "stop", "stopped", "clear", "calibrate"}

(* What the statics hold, whichever interrupt came last. *)
Ages == 0 .. Stale + 1 + MaxMisses
Motors == [state : {"stopped", "aligning", "running", "fault"},
           reason : {"none", "command", "driver", "encoder", "overcurrent"},
           ready : BOOLEAN, mode : {"speed", "position"}, over : 0 .. TripSamples - 1, age : Ages]
Samplers == [state : {"idle", "tx", "rx"}, due : -SamplePeriod .. SamplePeriod, since : 0 .. Timeout + 1]
FaultFlags == [low : BOOLEAN, flagged : BOOLEAN, reported : BOOLEAN]
Consoles == [at : Places, key : {"s", "p", "v", "x", "c", "z"}]

MotorTypes ==
    /\ foc \in Motors /\ enc \in Samplers /\ nfault \in FaultFlags /\ main \in Consoles
    /\ phases \in BOOLEAN /\ sense \in {"ready", "failed", "calibrating"}
    /\ missed \in 0 .. MaxMisses /\ keys \in 0 .. MaxKeys /\ faults \in 0 .. MaxFaults

(* The sampler has a transfer under way only when it was due. *)
Overdue == enc.state # "idle" => enc.due <= 0

(* The one place where the bridge is on and no state says so lies between the two *)
(* statements of MOTOR_FOC_beginAlignment.                                          *)
DrivenOnly == phases => Active \/ main.at = "align"

(* A start and a calibration hold the motor inactive up to their last statement; a *)
(* stop has the bridge off before it writes the state.                              *)
Inactive ==
    /\ main.at \in {"calibrate", "check", "enable", "align"} => ~Active
    /\ main.at = "stopped" => ~phases

(* A start that was let through finds the sensing as it was checked. *)
Sensing ==
    /\ main.at \in {"check", "enable", "align"} => sense = "ready"
    /\ phases => sense = "ready"

FocInv == MotorTypes /\ Overdue /\ DrivenOnly /\ Inactive /\ Sensing /\ FreshAngle

(* The properties of FocMotor follow. *)
LEMMA FocInvWatches ==
    ASSUME FocConstants, FocInv PROVE FocTypeOK /\ FocWatched
<1>1. FocTypeOK
  BY DEF FocInv, MotorTypes, Motors, Samplers, Ages, FocTypeOK
<1>2. FocWatched
  BY DEF FocInv, DrivenOnly, Sensing, FocWatched, Protected, OffWhenStopped
<1> QED BY <1>1, <1>2

LEMMA FocInvInit ==
    ASSUME FocConstants, FocInit PROVE FocInv
<1>1. MotorTypes
  <2>1. /\ 0 \in 0 .. TripSamples - 1 /\ 0 \in Ages /\ 0 \in -SamplePeriod .. SamplePeriod
        /\ 0 \in 0 .. Timeout + 1 /\ 0 \in 0 .. MaxMisses /\ 0 \in 0 .. MaxKeys
        /\ 0 \in 0 .. MaxFaults
    BY DEF FocConstants, Ages
  <2>2. foc \in Motors /\ enc \in Samplers /\ nfault \in FaultFlags /\ main \in Consoles
    BY <2>1 DEF FocInit, Motors, Samplers, FaultFlags, Consoles, Places
  <2> QED BY <2>1, <2>2 DEF FocInit, MotorTypes
<1>2. Overdue /\ DrivenOnly /\ Inactive /\ Sensing /\ FreshAngle
  BY DEF FocInit, Overdue, DrivenOnly, Inactive, Sensing, FreshAngle, Active
<1> QED BY <1>1, <1>2 DEF FocInv

(* An emergency stop, from wherever it comes, leaves nothing to watch. *)
LEMMA StopKeepsInv ==
    ASSUME FocConstants, FocInv, NEW reason \in {"driver", "encoder", "overcurrent"},
           EmergencyStop(reason)
    PROVE  /\ foc' \in Motors /\ foc'.state = "fault"
           /\ phases' = FALSE
BY DEF FocInv, MotorTypes, Motors, EmergencyStop

(* The age of an angle counts up and stays at its bound. *)
LEMMA AgesCount ==
    ASSUME FocConstants, foc \in Motors
    PROVE  /\ foc.age \in Ages /\ 0 \in Ages
           /\ Lowest(foc.age + 1, Stale + 1) \in Ages
           /\ Lowest(foc.age + 1, Stale + 1 + MaxMisses) \in Ages
           /\ Lowest(foc.age + 1, Stale + 1) <= foc.age + 1
           /\ Lowest(foc.age + 1, Stale + 1 + MaxMisses) <= foc.age + 1
<1>1. foc.age \in Ages
  BY DEF Motors
<1> QED BY <1>1 DEF Ages, Lowest, FocConstants

(* A sample that only counts. *)
LEMMA FocCounts ==
    ASSUME foc \in Motors, NEW o \in 0 .. TripSamples - 1, NEW a \in Ages,
           foc' = [foc EXCEPT !.over = o, !.age = a]
    PROVE  foc' \in Motors /\ foc'.state = foc.state /\ foc'.age = a
BY DEF Motors

(* The samples and the edge of nFAULT interrupt the console wherever it is. *)
LEMMA InterruptKeeps ==
    ASSUME FocConstants, FocInv, FaultEdge \/ FaultGoes \/ AdcSample PROVE FocInv'
<1>1. CASE FaultEdge
  <2>1. /\ foc' \in Motors /\ foc'.state = "fault"
        /\ phases' = FALSE
    BY <1>1, StopKeepsInv DEF FaultEdge
  <2>2. nfault' \in FaultFlags
    BY <1>1 DEF FocInv, MotorTypes, FaultFlags, FaultEdge
  <2>3. faults' \in 0 .. MaxFaults
    BY <1>1 DEF FocInv, MotorTypes, FaultEdge, FocConstants
  <2>4. MotorTypes'
    BY <1>1, <2>1, <2>2, <2>3 DEF FocInv, MotorTypes, FaultEdge, Console
  <2>5. Overdue' /\ DrivenOnly' /\ Inactive' /\ Sensing' /\ FreshAngle'
    BY <1>1, <2>1
       DEF FocInv, FaultEdge, Console, Overdue, DrivenOnly, Inactive, Sensing, FreshAngle, Active
  <2> QED BY <2>4, <2>5 DEF FocInv
<1>2. CASE FaultGoes
  <2>1. MotorTypes'
    <3>1. nfault' \in FaultFlags
      BY <1>2 DEF FocInv, MotorTypes, FaultFlags, FaultGoes
    <3> QED BY <1>2, <3>1 DEF FocInv, MotorTypes, FaultGoes, Console
  <2>2. Overdue' /\ DrivenOnly' /\ Inactive' /\ Sensing' /\ FreshAngle'
    BY <1>2 DEF FocInv, FaultGoes, Console, Overdue, DrivenOnly, Inactive, Sensing, FreshAngle,
                Active
  <2> QED BY <2>1, <2>2 DEF FocInv
<1>3. CASE AdcSample
  <2>1. /\ UNCHANGED << nfault, main, keys, faults, sense >>
        /\ enc' = [enc EXCEPT !.due = IF @ > -SamplePeriod THEN @ - 1 ELSE @,
                              !.since = Lowest(@ + 1, Timeout + 1)]
    BY <1>3 DEF AdcSample
  <2>2. enc' \in Samplers /\ Overdue'
    <3> DEFINE due == IF enc.due > -SamplePeriod THEN enc.due - 1 ELSE enc.due
               since == Lowest(enc.since + 1, Timeout + 1)
    <3>1. /\ enc.state \in {"idle", "tx", "rx"} /\ enc.due \in -SamplePeriod .. SamplePeriod
          /\ enc.since \in 0 .. Timeout + 1
      BY DEF FocInv, MotorTypes, Samplers
    <3>2. due \in -SamplePeriod .. SamplePeriod /\ due <= enc.due /\ since \in 0 .. Timeout + 1
      BY <3>1 DEF Lowest, FocConstants
    <3>3. enc' = [enc EXCEPT !.due = due, !.since = since]
      BY <2>1
    <3> HIDE DEF due, since
    <3>4. enc'.state = enc.state /\ enc'.due = due /\ enc' \in Samplers
      BY <3>2, <3>3 DEF FocInv, MotorTypes, Samplers
    <3>5. enc'.state # "idle" => enc.due <= 0
      BY <3>4 DEF FocInv, Overdue
    <3> QED BY <3>1, <3>2, <3>4, <3>5 DEF Overdue, FocConstants
  <2>3. SUFFICES /\ foc' \in Motors
                 /\ missed' \in 0 .. MaxMisses
                 /\ \/ phases' = phases /\ foc'.state = foc.state
                    \/ phases' = FALSE /\ foc'.state = "fault"
                 /\ FreshAngle'
    <3>1. MotorTypes'
      BY <2>1, <2>2, <2>3 DEF FocInv, MotorTypes
    <3>2. DrivenOnly' /\ Inactive' /\ Sensing'
      BY <2>1, <2>3 DEF FocInv, MotorTypes, DrivenOnly, Inactive, Sensing, Active
    <3> QED BY <2>2, <2>3, <3>1, <3>2 DEF FocInv
  <2>4. CASE /\ missed < MaxMisses /\ missed' = missed + 1
             /\ foc' = [foc EXCEPT !.age = Lowest(@ + 1, Stale + 1 + MaxMisses)]
             /\ UNCHANGED phases
    <3>1. foc \in Motors /\ foc.over \in 0 .. TripSamples - 1 /\ missed \in 0 .. MaxMisses
      BY DEF FocInv, MotorTypes, Motors
    <3> DEFINE a == Lowest(foc.age + 1, Stale + 1 + MaxMisses)
    <3>2. foc.age \in Ages /\ a \in Ages /\ a <= foc.age + 1
      BY <3>1, AgesCount
    <3>3. foc' = [foc EXCEPT !.over = foc.over, !.age = a]
      BY <2>4, <3>1 DEF Motors
    <3> HIDE DEF a
    <3>4. foc' \in Motors /\ foc'.state = foc.state /\ foc'.age = a
      BY <3>1, <3>2, <3>3, FocCounts
    <3>5. missed' \in 0 .. MaxMisses
      BY <2>4, <3>1 DEF FocConstants
    <3>6. foc.state = "running" /\ phases => a <= Stale + missed'
      BY <2>4, <3>1, <3>2 DEF FocInv, FreshAngle, Ages, FocConstants
    <3> QED BY <2>4, <3>4, <3>5, <3>6 DEF FreshAngle
  <2>5. CASE /\ missed' = 0 /\ sense # "ready"
             /\ UNCHANGED phases /\ foc' = [foc EXCEPT !.age = Lowest(@ + 1, Stale + 1)]
    <3>1. foc \in Motors /\ foc.over \in 0 .. TripSamples - 1
      BY DEF FocInv, MotorTypes, Motors
    <3> DEFINE a == Lowest(foc.age + 1, Stale + 1)
    <3>2. a \in Ages
      BY <3>1, AgesCount
    <3>3. foc' = [foc EXCEPT !.over = foc.over, !.age = a]
      BY <2>5, <3>1 DEF Motors
    <3> HIDE DEF a
    <3>4. foc' \in Motors /\ foc'.state = foc.state
      BY <3>1, <3>2, <3>3, FocCounts
    <3>5. missed' \in 0 .. MaxMisses
      BY <2>5 DEF FocConstants
    <3> QED BY <2>5, <3>4, <3>5 DEF FreshAngle, FocInv, Sensing
  <2>6. ASSUME NEW high \in BOOLEAN, missed' = 0, CurrentLoop(high)
        PROVE  /\ foc' \in Motors
               /\ missed' \in 0 .. MaxMisses
               /\ \/ phases' = phases /\ foc'.state = foc.state
                  \/ phases' = FALSE /\ foc'.state = "fault"
               /\ FreshAngle'
    <3>1. CASE \E reason \in {"encoder", "overcurrent"} : EmergencyStop(reason)
      <4>1. /\ foc' \in Motors /\ foc'.state = "fault"
            /\ phases' = FALSE
        BY <3>1, StopKeepsInv
      <4>2. missed' \in 0 .. MaxMisses
        BY <2>6 DEF FocConstants
      <4> QED BY <4>1, <4>2 DEF FreshAngle
    <3>2. CASE /\ ~Active /\ UNCHANGED phases
               /\ foc' = [foc EXCEPT !.age = Lowest(@ + 1, Stale + 1)]
      <4>1. foc \in Motors /\ foc.over \in 0 .. TripSamples - 1
        BY DEF FocInv, MotorTypes, Motors
      <4> DEFINE a == Lowest(foc.age + 1, Stale + 1)
      <4>2. a \in Ages
        BY <4>1, AgesCount
      <4>3. foc' = [foc EXCEPT !.over = foc.over, !.age = a]
        BY <3>2, <4>1 DEF Motors
      <4> HIDE DEF a
      <4>4. foc' \in Motors /\ foc'.state = foc.state
        BY <4>1, <4>2, <4>3, FocCounts
      <4>5. missed' \in 0 .. MaxMisses
        BY <2>6 DEF FocConstants
      <4> QED BY <3>2, <4>4, <4>5 DEF FreshAngle, Active
    <3>3. CASE /\ Active /\ ~Tripped(high) /\ UNCHANGED phases
               /\ ~(foc.state = "running" /\ (~foc.ready \/ StaleNow))
               /\ foc' = [foc EXCEPT !.over = Overcurrent(high),
                                     !.age = Lowest(@ + 1, Stale + 1)]
      <4> DEFINE a == Lowest(foc.age + 1, Stale + 1)
                 o == Overcurrent(high)
      <4>1. foc \in Motors /\ foc.over \in 0 .. TripSamples - 1
        BY DEF FocInv, MotorTypes, Motors
      <4>2. foc.age \in Ages /\ a \in Ages /\ a <= foc.age + 1
        BY <4>1, AgesCount
      <4>3. o \in 0 .. TripSamples - 1
        BY <3>3, <4>1 DEF Tripped, Overcurrent, FocConstants
      <4>4. foc' = [foc EXCEPT !.over = o, !.age = a]
        BY <3>3
      <4>5. foc.state = "running" => foc.age + 1 <= Stale
        BY <3>3, <4>2 DEF StaleNow, Ages, FocConstants
      <4> HIDE DEF a, o
      <4>6. foc' \in Motors /\ foc'.state = foc.state /\ foc'.age = a
        BY <4>1, <4>2, <4>3, <4>4, FocCounts
      <4>7. missed' \in 0 .. MaxMisses /\ missed' = 0
        BY <2>6 DEF FocConstants
      <4>8. foc.state = "running" => a <= Stale + missed'
        BY <4>2, <4>5, <4>7 DEF Ages, FocConstants
      <4> QED BY <3>3, <4>6, <4>7, <4>8 DEF FreshAngle
    <3> QED BY <2>6, <3>1, <3>2, <3>3 DEF CurrentLoop
  <2> QED BY <1>3, <2>4, <2>5, <2>6 DEF AdcSample
<1> QED BY <1>1, <1>2, <1>3

(* A pass of the main loop serves the sampler; an angle that arrives is fresh. *)
LEMMA PassKeeps ==
    ASSUME FocConstants, FocInv, Pass PROVE FocInv'
<1>1. /\ UNCHANGED << phases, sense, main, missed, keys, faults >>
      /\ nfault' = [nfault EXCEPT !.reported = @ \/ nfault.flagged]
  BY DEF Pass
<1>2. \/ foc' = foc
      \/ foc' = [foc EXCEPT !.age = 0]
  BY DEF Pass, EncoderService, Sampled
<1>3. \/ enc' = enc
      \/ enc' = [enc EXCEPT !.state = "idle"]
      \/ enc' = [enc EXCEPT !.state = "idle", !.due = SamplePeriod]
      \/ enc.due <= 0 /\ enc' = [enc EXCEPT !.state = "tx", !.since = 0]
      \/ enc.state = "tx" /\ enc' = [enc EXCEPT !.state = "rx"]
      \/ enc.state # "idle" /\ enc' = Completed
  <2>1. enc.state \in {"idle", "tx", "rx"} /\ enc.due \in Int
    BY DEF FocInv, MotorTypes, Samplers, FocConstants
  <2>2. CASE foc.state # "running"
    BY <2>2 DEF Pass, EncoderService
  <2>3. CASE foc.state = "running" /\ enc.state = "idle"
    BY <2>1, <2>3 DEF Pass, EncoderService, Aborted
  <2>4. CASE foc.state = "running" /\ enc.state # "idle"
    <3>1. PICK news \in {"none", "error", "done"} :
            IF news = "error" \/ enc.since > Timeout
            THEN enc' = Aborted /\ UNCHANGED foc
            ELSE CASE news = "none" -> UNCHANGED << enc, foc >>
                   [] enc.state = "tx" /\ news = "done" ->
                          enc' = [enc EXCEPT !.state = "rx"] /\ UNCHANGED foc
                   [] OTHER -> enc' = Completed /\ foc' = Sampled
      BY <2>4 DEF Pass, EncoderService
    <3> QED BY <2>4, <3>1 DEF Aborted
  <2> QED BY <2>2, <2>3, <2>4
<1>4. enc' \in Samplers /\ Overdue'
  <2>1. /\ enc \in Samplers /\ enc.due \in -SamplePeriod .. SamplePeriod
        /\ enc.state # "idle" => enc.due <= 0
    BY DEF FocInv, MotorTypes, Overdue, Samplers
  <2> DEFINE next == IF enc.due + SamplePeriod <= 0 THEN SamplePeriod ELSE enc.due + SamplePeriod
  <2>2. enc.due <= 0 => next \in -SamplePeriod .. SamplePeriod
    BY <2>1 DEF FocConstants
  <2>3. Completed = [enc EXCEPT !.state = "idle", !.due = next]
    BY <2>1 DEF Completed, Samplers
  <2> HIDE DEF next
  <2>4. SamplePeriod \in -SamplePeriod .. SamplePeriod /\ 0 \in 0 .. Timeout + 1
    BY DEF FocConstants
  <2>5. CASE enc' = enc \/ enc' = [enc EXCEPT !.state = "idle"]
             \/ enc' = [enc EXCEPT !.state = "idle", !.due = SamplePeriod]
    BY <2>1, <2>4, <2>5 DEF Samplers, Overdue
  <2>6. CASE \/ enc.due <= 0 /\ enc' = [enc EXCEPT !.state = "tx", !.since = 0]
             \/ enc.state = "tx" /\ enc' = [enc EXCEPT !.state = "rx"]
    BY <2>1, <2>4, <2>6 DEF Samplers, Overdue
  <2>7. CASE enc.state # "idle" /\ enc' = Completed
    BY <2>1, <2>2, <2>3, <2>7 DEF Samplers, Overdue
  <2> QED BY <1>3, <2>5, <2>6, <2>7
<1>5. nfault' \in FaultFlags
  BY <1>1 DEF FocInv, MotorTypes, FaultFlags
<1>6. MotorTypes'
  <2>1. foc' \in Motors
    BY <1>2, AgesCount DEF FocInv, MotorTypes, Motors
  <2> QED BY <1>1, <1>4, <1>5, <2>1 DEF FocInv, MotorTypes
<1>7. DrivenOnly' /\ Inactive' /\ Sensing' /\ FreshAngle'
  BY <1>1, <1>2 DEF FocInv, MotorTypes, Motors, DrivenOnly, Inactive, Sensing, FreshAngle, Active,
                    FocConstants
<1> QED BY <1>4, <1>6, <1>7 DEF FocInv

(* Keys are looked at in the loop, where the bridge is on only in a state. *)
LEMMA KeyKeeps ==
    ASSUME FocConstants, FocInv, Key PROVE FocInv'
<1>1. /\ main.at = "loop" /\ keys < MaxKeys /\ keys' = keys + 1
      /\ UNCHANGED << foc, phases, nfault, enc, missed, faults >>
  BY DEF Key
<1>2. PICK key \in {"s", "p", "v", "x", "c", "z"} :
         /\ main' = [main EXCEPT !.key = key, !.at =
                CASE key \in {"s", "p"} /\ StartChecked /\ ~DriverFault -> "check"
                  [] key = "p" /\ foc.state = "running" -> "position"
                  [] key = "v" /\ foc.state = "running" -> "speed"
                  [] key \in {"x", "c"} -> "stop"
                  [] key = "z" /\ MayCalibrate -> "calibrate"
                  [] OTHER -> "loop"]
         /\ sense' = IF key = "z" /\ MayCalibrate THEN "calibrating" ELSE sense
  BY DEF Key
<1>3. /\ main'.key = key /\ main' \in Consoles
      /\ main'.at \in {"loop", "check", "position", "speed", "stop", "calibrate"}
      /\ main'.at = "check" => StartChecked /\ key # "z"
      /\ main'.at = "calibrate" => MayCalibrate
  BY <1>2 DEF FocInv, MotorTypes, Consoles, Places, StartChecked, MayCalibrate
<1>4. MotorTypes' /\ Overdue'
  <2>1. keys' \in 0 .. MaxKeys
    BY <1>1 DEF FocInv, MotorTypes, FocConstants
  <2> QED BY <1>1, <1>2, <1>3, <2>1 DEF FocInv, MotorTypes, Overdue
<1>5. DrivenOnly' /\ Inactive' /\ Sensing' /\ FreshAngle'
  BY <1>1, <1>2, <1>3 DEF FocInv, MotorTypes, DrivenOnly, Inactive, Sensing, FreshAngle, Active,
                          StartChecked, MayCalibrate
<1> QED BY <1>4, <1>5 DEF FocInv

(* A command moves on to its next statement. *)
LEMMA ConsoleMoves ==
    ASSUME main \in Consoles, NEW p \in Places, Goto(p)
    PROVE  main' \in Consoles /\ main'.at = p /\ main'.key = main.key
BY DEF Goto, Consoles

(* The commands, statement by statement: first up to the end of the alignment. *)
LEMMA StartKeeps ==
    ASSUME FocConstants, FocInv, Calibrate \/ Check \/ Enable \/ Align \/ Wait PROVE FocInv'
<1> USE DEF FocInv
<1>0. main \in Consoles /\ foc \in Motors /\ enc \in Samplers /\ 0 \in 0 .. TripSamples - 1
  BY DEF MotorTypes, FocConstants
<1>1. CASE Calibrate
  <2>1. main' \in Consoles /\ main'.at = "loop" /\ main.at = "calibrate"
    BY <1>0, <1>1, ConsoleMoves DEF Calibrate, Places
  <2>2. MotorTypes'
    BY <1>1, <2>1 DEF Calibrate, MotorTypes
  <2>3. Overdue' /\ DrivenOnly' /\ Inactive' /\ Sensing' /\ FreshAngle'
    BY <1>1, <2>1 DEF Calibrate, Overdue, DrivenOnly, Inactive, Sensing, FreshAngle, Active
  <2> QED BY <2>2, <2>3
<1>2. CASE Check
  <2>1. /\ main.at = "check" /\ enc' = [enc EXCEPT !.state = "idle", !.due = SamplePeriod]
        /\ UNCHANGED << phases, nfault, sense, missed, keys, faults >>
        /\ \/ UNCHANGED foc /\ Goto("loop")
           \/ /\ foc' = [foc EXCEPT !.reason = "none", !.ready = FALSE, !.mode = "speed",
                                    !.over = 0]
              /\ Goto("enable")
    BY <1>2 DEF Check
  <2>2. main' \in Consoles /\ main'.at \in {"loop", "enable"}
    BY <1>0, <2>1, ConsoleMoves DEF Places
  <2>3. foc' \in Motors /\ foc'.state = foc.state /\ foc'.age = foc.age
    BY <1>0, <2>1 DEF Motors
  <2>4. enc' \in Samplers /\ enc'.state = "idle"
    <3>1. SamplePeriod \in -SamplePeriod .. SamplePeriod
      BY DEF FocConstants
    <3> QED BY <1>0, <2>1, <3>1 DEF Samplers
  <2>5. MotorTypes'
    BY <2>1, <2>2, <2>3, <2>4 DEF MotorTypes
  <2>6. Overdue' /\ DrivenOnly' /\ Inactive' /\ Sensing' /\ FreshAngle'
    BY <2>1, <2>2, <2>3, <2>4 DEF Overdue, DrivenOnly, Inactive, Sensing, FreshAngle, Active
  <2> QED BY <2>5, <2>6
<1>3. CASE Enable
  <2>1. main' \in Consoles /\ main'.at = "align" /\ main.at = "enable"
    BY <1>0, <1>3, ConsoleMoves DEF Enable, Places
  <2>2. MotorTypes'
    BY <1>3, <2>1 DEF Enable, MotorTypes
  <2>3. Overdue' /\ DrivenOnly' /\ Inactive' /\ Sensing' /\ FreshAngle'
    BY <1>3, <2>1 DEF Enable, Overdue, DrivenOnly, Inactive, Sensing, FreshAngle, Active
  <2> QED BY <2>2, <2>3
<1>4. CASE Align
  <2>1. main' \in Consoles /\ main'.at = "wait" /\ main.at = "align"
    BY <1>0, <1>4, ConsoleMoves DEF Align, Places
  <2>2. foc' \in Motors /\ foc'.state = "aligning"
    BY <1>0, <1>4 DEF Align, Motors
  <2>3. MotorTypes'
    BY <1>4, <2>1, <2>2 DEF Align, MotorTypes
  <2>4. Overdue' /\ DrivenOnly' /\ Inactive' /\ Sensing' /\ FreshAngle'
    BY <1>4, <2>1, <2>2 DEF Align, Overdue, DrivenOnly, Inactive, Sensing, FreshAngle, Active
  <2> QED BY <2>3, <2>4
<1>5. CASE Wait
  <2>1. /\ UNCHANGED << nfault, sense, enc, missed, keys, faults >> /\ main.at = "wait"
        /\ Goto("loop") \/ Goto("finish")
    BY <1>5 DEF Wait
  <2>2. main' \in Consoles /\ main'.at \in {"loop", "finish"}
    BY <1>0, <2>1, ConsoleMoves DEF Places
  <2>3. \/ UNCHANGED << foc, phases >>
        \/ foc' \in Motors /\ foc'.state = "fault" /\ phases' = FALSE
    BY <1>5, StopKeepsInv DEF Wait
  <2>4. MotorTypes'
    BY <2>1, <2>2, <2>3 DEF MotorTypes
  <2>5. Overdue' /\ DrivenOnly' /\ Inactive' /\ Sensing' /\ FreshAngle'
    BY <2>1, <2>2, <2>3 DEF Overdue, DrivenOnly, Inactive, Sensing, FreshAngle, Active
  <2> QED BY <2>4, <2>5
<1> QED BY <1>1, <1>2, <1>3, <1>4, <1>5

(* The rest of a start, and the commands to a running or a stopped motor. *)
LEMMA ConsoleKeeps ==
    ASSUME FocConstants, FocInv, Command PROVE FocInv'
<1> USE DEF FocInv
<1>0. main \in Consoles /\ foc \in Motors /\ 0 \in 0 .. TripSamples - 1 /\ 0 \in Ages
  BY DEF MotorTypes, Ages, FocConstants
<1>1. CASE Calibrate \/ Check \/ Enable \/ Align \/ Wait
  BY <1>1, StartKeeps
<1>2. CASE Finish
  <2>1. /\ UNCHANGED << nfault, sense, enc, missed, keys, faults >> /\ main.at = "finish"
        /\ Goto("loop") \/ Goto("run")
    BY <1>2 DEF Finish
  <2>2. main' \in Consoles /\ main'.at \in {"loop", "run"}
    BY <1>0, <2>1, ConsoleMoves DEF Places
  <2>3. \/ UNCHANGED phases /\ foc' \in Motors /\ foc'.state = foc.state /\ foc'.age = 0
        \/ foc' \in Motors /\ foc'.state = "fault" /\ phases' = FALSE
    <3>1. CASE EmergencyStop("driver")
      BY <3>1, StopKeepsInv
    <3>2. CASE /\ foc' = [foc EXCEPT !.ready = TRUE, !.age = 0, !.over = 0]
               /\ UNCHANGED phases
      BY <1>0, <3>2 DEF Motors
    <3> QED BY <1>2, <3>1, <3>2 DEF Finish
  <2>4. MotorTypes'
    BY <2>1, <2>2, <2>3 DEF MotorTypes
  <2>5. Overdue' /\ DrivenOnly' /\ Inactive' /\ Sensing'
    BY <2>1, <2>2, <2>3 DEF Overdue, DrivenOnly, Inactive, Sensing, Active
  <2>6. FreshAngle'
    BY <2>1, <2>3 DEF FreshAngle, MotorTypes, FocConstants
  <2> QED BY <2>4, <2>5, <2>6
<1>3. CASE Run
  <2>1. main' \in Consoles /\ main'.at \in {"position", "loop"} /\ main.at = "run"
    BY <1>0, <1>3, ConsoleMoves DEF Run, Places
  <2>2. foc' \in Motors /\ foc'.state = "running" /\ foc'.age = 0
    BY <1>0, <1>3 DEF Run, Motors
  <2>3. enc' \in Samplers /\ enc'.due = 0
    BY <1>3 DEF Run, MotorTypes, Samplers, FocConstants
  <2>4. MotorTypes'
    BY <1>3, <2>1, <2>2, <2>3 DEF Run, MotorTypes
  <2>5. Overdue' /\ DrivenOnly' /\ Inactive' /\ Sensing'
    BY <1>3, <2>1, <2>2, <2>3 DEF Run, Overdue, DrivenOnly, Inactive, Sensing, Active
  <2>6. FreshAngle'
    BY <1>3, <2>2 DEF Run, FreshAngle, MotorTypes, FocConstants
  <2> QED BY <2>4, <2>5, <2>6
<1>4. CASE Mode
  <2>1. main' \in Consoles /\ main'.at = "loop" /\ main.at \in {"position", "speed"}
    BY <1>0, <1>4, ConsoleMoves DEF Mode, Places
  <2>2. foc' \in Motors /\ foc'.state = foc.state /\ foc'.age = foc.age
    BY <1>0, <1>4 DEF Mode, Motors
  <2>3. MotorTypes'
    BY <1>4, <2>1, <2>2 DEF Mode, MotorTypes
  <2>4. Overdue' /\ DrivenOnly' /\ Inactive' /\ Sensing' /\ FreshAngle'
    BY <1>4, <2>1, <2>2 DEF Mode, Overdue, DrivenOnly, Inactive, Sensing, FreshAngle, Active
  <2> QED BY <2>3, <2>4
<1>5. CASE Stop
  <2>1. main' \in Consoles /\ main'.at = "stopped" /\ main.at = "stop"
    BY <1>0, <1>5, ConsoleMoves DEF Stop, Places
  <2>2. MotorTypes'
    BY <1>5, <2>1 DEF Stop, MotorTypes
  <2>3. Overdue' /\ DrivenOnly' /\ Inactive' /\ Sensing' /\ FreshAngle'
    BY <1>5, <2>1 DEF Stop, Overdue, DrivenOnly, Inactive, Sensing, FreshAngle, Active
  <2> QED BY <2>2, <2>3
<1>6. CASE StopDone
  <2>1. main' \in Consoles /\ main'.at \in {"clear", "loop"} /\ main.at = "stopped"
    BY <1>0, <1>6, ConsoleMoves DEF StopDone, Places
  <2>2. foc' \in Motors /\ foc'.state = "stopped"
    BY <1>0, <1>6 DEF StopDone, Motors
  <2>3. MotorTypes'
    BY <1>6, <2>1, <2>2 DEF StopDone, MotorTypes
  <2>4. Overdue' /\ DrivenOnly' /\ Inactive' /\ Sensing' /\ FreshAngle'
    BY <1>6, <2>1, <2>2 DEF StopDone, Overdue, DrivenOnly, Inactive, Sensing, FreshAngle, Active
  <2> QED BY <2>3, <2>4
<1>7. CASE Clear
  <2>1. main' \in Consoles /\ main'.at = "loop" /\ main.at = "clear"
    BY <1>0, <1>7, ConsoleMoves DEF Clear, Places
  <2>2. /\ nfault' \in FaultFlags /\ foc' \in Motors
        /\ \/ foc'.state = foc.state /\ foc'.age = foc.age
           \/ foc.state = "fault" /\ foc'.state = "stopped"
    <3>1. CASE UNCHANGED << nfault, foc >>
      BY <1>0, <3>1 DEF MotorTypes
    <3>2. CASE /\ nfault' = [low |-> FALSE, flagged |-> FALSE, reported |-> FALSE]
               /\ foc' = [foc EXCEPT !.reason = "none",
                                     !.state = IF foc.state = "fault" THEN "stopped"
                                               ELSE foc.state]
      <4>1. nfault' \in FaultFlags
        BY <3>2 DEF FaultFlags
      <4>2. CASE foc.state = "fault"
        BY <1>0, <3>2, <4>1, <4>2 DEF Motors
      <4>3. CASE foc.state # "fault"
        BY <1>0, <3>2, <4>1, <4>3 DEF Motors
      <4> QED BY <4>2, <4>3
    <3> QED BY <1>7, <3>1, <3>2 DEF Clear
  <2>3. MotorTypes'
    BY <1>7, <2>1, <2>2 DEF Clear, MotorTypes
  <2>4. Overdue' /\ DrivenOnly' /\ Inactive' /\ Sensing' /\ FreshAngle'
    BY <1>7, <2>1, <2>2 DEF Clear, Overdue, DrivenOnly, Inactive, Sensing, FreshAngle, Active
  <2> QED BY <2>3, <2>4
<1> QED BY <1>1, <1>2, <1>3, <1>4, <1>5, <1>6, <1>7 DEF Command

LEMMA FocInvStep ==
    ASSUME FocConstants, FocInv, [FocNext]_focVars PROVE FocInv'
<1>1. CASE FocNext
  BY <1>1, InterruptKeeps, PassKeeps, KeyKeeps, ConsoleKeeps DEF FocNext
<1>2. CASE UNCHANGED focVars
  BY <1>2 DEF focVars, FocInv, MotorTypes, Overdue, DrivenOnly, Inactive, Sensing, FreshAngle, Active
<1> QED BY <1>1, <1>2

(* Types and ranges of FocMotor: no count of a sample, a tick or a miss leaves its *)
(* bound (motor_open_loop.c, empty.c).                                              *)
THEOREM FocTypes ==
    ASSUME FocConstants PROVE FocSpec => []FocTypeOK
<1>1. FocInit => FocInv
  BY FocInvInit
<1>2. FocInv /\ [FocNext]_focVars => FocInv'
  BY FocInvStep
<1>3. FocInv => FocTypeOK
  BY FocInvWatches
<1> QED BY <1>1, <1>2, <1>3, PTL DEF FocSpec

(* Whatever interrupt falls between which statements of the console, the half      *)
(* bridges are on only in a watched state, with calibrated currents compared and an *)
(* angle that is fresh (MOTOR_FOC_currentLoopISR, startFocMotor, MOTOR_FOC_stop).   *)
THEOREM FocIsWatched ==
    ASSUME FocConstants PROVE FocSpec => []FocWatched
<1>1. FocInit => FocInv
  BY FocInvInit
<1>2. FocInv /\ [FocNext]_focVars => FocInv'
  BY FocInvStep
<1>3. FocInv => FocWatched
  BY FocInvWatches
<1> QED BY <1>1, <1>2, <1>3, PTL DEF FocSpec
-----------------------------------------------------------------------------
(* Arithmetic of the loops.  A quotient keeps the sign and does not grow. *)
LEMMA Quotients ==
    ASSUME NEW a \in Int, NEW d \in Nat \ {0}
    PROVE  /\ a \div d \in Int
           /\ a >= 0 => a \div d >= 0 /\ a \div d <= a
           /\ a <= 0 => a \div d <= 0
<1> DEFINE q == a \div d
           r == a % d
<1>1. q \in Int /\ r \in Int /\ 0 <= r /\ r < d /\ a = (d * q) + r
  OBVIOUS
<1> HIDE DEF q, r
<1>2. ASSUME q < 0 PROVE a < 0
  <2>1. d * q <= -d
    BY <1>1, <1>2
  <2> QED BY <1>1, <2>1
<1>3. ASSUME q > 0 PROVE a > 0 /\ q <= a
  <2>1. d * q >= q
    BY <1>1, <1>3
  <2> QED BY <1>1, <1>3, <2>1
<1>4. q \in Int /\ (a >= 0 => q >= 0 /\ q <= a) /\ (a <= 0 => q <= 0)
  BY <1>1, <1>2, <1>3
<1> QED BY <1>4 DEF q

(* ... and a larger number has no smaller one. *)
LEMMA QuotientsGrow ==
    ASSUME NEW a \in Int, NEW b \in Int, a <= b, NEW d \in Nat \ {0}
    PROVE  a \div d <= b \div d
<1> DEFINE q == a \div d
           r == a % d
           s == b \div d
           t == b % d
<1>1. q \in Int /\ r \in Int /\ 0 <= r /\ r < d /\ a = (d * q) + r
  OBVIOUS
<1>2. s \in Int /\ t \in Int /\ 0 <= t /\ t < d /\ b = (d * s) + t
  OBVIOUS
<1> HIDE DEF q, r, s, t
<1>3. ASSUME q >= s + 1 PROVE FALSE
  <2>1. d * q >= d * (s + 1)
    BY <1>1, <1>2, <1>3
  <2>2. d * (s + 1) = (d * s) + d
    BY <1>2
  <2> QED BY <1>1, <1>2, <2>1, <2>2
<1>4. q <= s
  BY <1>1, <1>2, <1>3
<1> QED BY <1>4 DEF q, s

LEMMA Truncations ==
    ASSUME NEW a \in Int, NEW d \in Nat \ {0}
    PROVE  /\ Truncated(a, d) \in Int
           /\ a >= 0 => Truncated(a, d) >= 0 /\ Truncated(a, d) <= a
           /\ a <= 0 => Truncated(a, d) <= 0 /\ Truncated(a, d) >= a
<1>1. CASE a >= 0
  <2>1. a \div d \in Int /\ a \div d >= 0 /\ a \div d <= a
    BY <1>1, Quotients
  <2>2. Truncated(a, d) = a \div d
    BY <1>1 DEF Truncated
  <2>3. a = 0 => a \div d = 0
    BY <2>1
  <2> QED BY <1>1, <2>1, <2>2, <2>3
<1>2. CASE a < 0
  <2>1. -a \in Int /\ -a >= 0
    BY <1>2
  <2>2. (-a) \div d \in Int /\ (-a) \div d >= 0 /\ (-a) \div d <= -a
    BY <2>1, Quotients
  <2>3. Truncated(a, d) = -((-a) \div d)
    BY <1>2 DEF Truncated
  <2> QED BY <1>2, <2>2, <2>3
<1> QED BY <1>1, <1>2

LEMMA Clips ==
    ASSUME NEW v \in Int, NEW most \in Nat
    PROVE  /\ Clipped(v, most) \in Int /\ Size(Clipped(v, most)) <= most
           /\ v >= 0 => Clipped(v, most) >= 0
           /\ v <= 0 => Clipped(v, most) <= 0
BY DEF Clipped, Size

(* A product's sign. *)
LEMMA SameSigns ==
    ASSUME NEW x \in Int, NEW y \in Int
    PROVE  /\ x >= 0 /\ y >= 0 => x * y >= 0
           /\ x <= 0 /\ y <= 0 => x * y >= 0
           /\ x * y < 0 => (x > 0 /\ y < 0) \/ (x < 0 /\ y > 0)
<1>1. x >= 0 /\ y >= 0 => x * y >= 0
  OBVIOUS
<1>2. x <= 0 /\ y <= 0 => x * y >= 0
  <2>1. x * y = (-x) * (-y)
    OBVIOUS
  <2> QED BY <2>1
<1> QED BY <1>1, <1>2

(* approachFilteredValue does not overshoot. *)
LEMMA Approaches ==
    ASSUME LoopConstants, NEW c \in Int, NEW g \in Int, Size(c) <= Fastest, Size(g) <= Fastest
    PROVE  Approached(c, g) \in Int /\ Size(Approached(c, g)) <= Fastest
<1> DEFINE s == Truncated(g - c, Filter)
<1>1. g - c \in Int /\ Filter \in Nat \ {0} /\ Fastest \in Nat
  BY DEF LoopConstants
<1>2. s \in Int /\ (g - c >= 0 => s >= 0 /\ s <= g - c) /\ (g - c <= 0 => s <= 0 /\ s >= g - c)
  BY <1>1, Truncations
<1>3. Approached(c, g)
        = IF g = c THEN c ELSE c + (IF s = 0 THEN SignOf(g - c) ELSE s)
  BY DEF Approached
<1> HIDE DEF s
<1> QED BY <1>1, <1>2, <1>3 DEF Size, SignOf

(* wrapEncoderError takes the short way. *)
LEMMA Wraps ==
    ASSUME LoopConstants, NEW raw \in 0 .. Turn - 1, NEW goal \in 0 .. Turn - 1
    PROVE  PositionError(raw, goal) \in -(Turn \div 2) .. Turn \div 2 - 1
<1> DEFINE h == Turn \div 2
<1>1. h \in Nat /\ Turn = 2 * h /\ Turn \in Nat /\ raw \in Int /\ goal \in Int
  BY DEF LoopConstants
<1>2. PositionError(raw, goal)
        = IF goal - raw > h - 1 THEN (goal - raw) - Turn
          ELSE IF goal - raw < -h THEN (goal - raw) + Turn ELSE goal - raw
  BY DEF PositionError, Wrapped
<1> HIDE DEF h
<1>3. PositionError(raw, goal) \in -h .. h - 1
  BY <1>1, <1>2
<1> QED BY <1>3 DEF h

(* The speed the position loop asks for is within its limit, and outside the zone *)
(* it is no less than the error that releases the integral.                        *)
LEMMA PositionSpeeds ==
    ASSUME LoopConstants, NEW e \in Int
    PROVE  /\ PositionSpeed(e) \in Int /\ Size(PositionSpeed(e)) <= MaxTarget
           /\ e > Zone => PositionSpeed(e) >= 1 /\ PositionSpeed(e) >= ReleaseError
           /\ e < -Zone => PositionSpeed(e) <= -1 /\ PositionSpeed(e) <= -ReleaseError
<1> DEFINE t == Truncated(e, CountsPerRpm)
           least == (Zone + 1) \div CountsPerRpm
<1>1. /\ Zone \in Nat /\ CountsPerRpm \in Nat \ {0} /\ SpeedLimit \in Int /\ SpeedLimit >= 1
      /\ SpeedLimit <= MaxTarget /\ MaxTarget \in Nat /\ ReleaseError \in Nat
      /\ ReleaseError <= SpeedLimit /\ ReleaseError <= least /\ least \in Int
  BY DEF LoopConstants
<1>2. t \in Int /\ (e >= 0 => t >= 0) /\ (e <= 0 => t <= 0)
  BY <1>1, Truncations
<1>3. ASSUME e > Zone PROVE t >= least
  <2>1. Zone + 1 \in Int /\ Zone + 1 <= e /\ t = e \div CountsPerRpm
    BY <1>1, <1>3 DEF Truncated
  <2> QED BY <1>1, <2>1, QuotientsGrow
<1>4. ASSUME e < -Zone PROVE t <= -least
  <2>1. Zone + 1 \in Int /\ -e \in Int /\ Zone + 1 <= -e /\ t = -((-e) \div CountsPerRpm)
    BY <1>1, <1>4 DEF Truncated
  <2>2. least <= (-e) \div CountsPerRpm /\ (-e) \div CountsPerRpm \in Int
    BY <1>1, <2>1, QuotientsGrow, Quotients
  <2> QED BY <1>1, <2>1, <2>2
<1>5. PositionSpeed(e) = IF Size(e) <= Zone THEN 0
                         ELSE Clipped(IF t = 0 THEN SignOf(e) ELSE t, SpeedLimit)
  BY DEF PositionSpeed
<1> HIDE DEF t, least
<1> QED BY <1>1, <1>2, <1>3, <1>4, <1>5 DEF Size, Clipped, SignOf
-----------------------------------------------------------------------------
(* The limit of the integral. *)
MostIntegral == IqLimit * IntegralScale

LEMMA Limits ==
    ASSUME LoopConstants
    PROVE  /\ MostIntegral \in Nat /\ IqLimit \in Nat /\ IntegralScale \in Nat \ {0}
           /\ ErrorDivisor \in Nat \ {0} /\ Damping \in Nat
           /\ DirectLimit \in Nat /\ DirectLimit <= IqLimit /\ Zone \in Nat
           /\ ReleaseError \in Nat /\ MaxTarget \in Nat
BY DEF LoopConstants, MostIntegral

(* Conditional integration stays within the limit, and does not change the side the *)
(* error and the integral agree on.                                                  *)
LEMMA Integrates ==
    ASSUME LoopConstants, NEW e \in Int, NEW sum \in Int, Size(sum) <= MostIntegral
    PROVE  /\ Integrated(e, sum) \in Int /\ Size(Integrated(e, sum)) <= MostIntegral
           /\ e >= 0 /\ sum >= 0 => Integrated(e, sum) >= 0
           /\ e <= 0 /\ sum <= 0 => Integrated(e, sum) <= 0
<1> DEFINE candidate == Clipped(sum + e, MostIntegral)
<1>1. Integrated(e, sum) = sum \/ Integrated(e, sum) = candidate
  BY DEF Integrated, MostIntegral
<1>2. sum + e \in Int /\ MostIntegral \in Nat
  BY Limits
<1>3. /\ candidate \in Int /\ Size(candidate) <= MostIntegral
      /\ sum + e >= 0 => candidate >= 0
      /\ sum + e <= 0 => candidate <= 0
  BY <1>2, Clips
<1> HIDE DEF candidate
<1> QED BY <1>1, <1>3

(* What updateSpeedController leaves: integral and torque within their limits. *)
LEMMA SpeedWithinLimits ==
    ASSUME LoopConstants, NEW kind, NEW goal \in Int, NEW r \in Int, NEW e \in Int,
           NEW sum \in Int, Size(sum) <= MostIntegral, Speed(kind, goal, r, e, sum)
    PROVE  integral' \in Int /\ iq' \in Int /\ Size(integral') <= MostIntegral /\ Size(iq') <= IqLimit
<1> USE Limits
<1>1. CASE integral' = 0 /\ iq' = DirectIq(e, r)
  <2>1. Truncated(e, ErrorDivisor) \in Int
    BY Truncations
  <2>2. Truncated(e, ErrorDivisor) - (r * Damping) \in Int
    BY <2>1
  <2>3. DirectIq(e, r) \in Int /\ Size(DirectIq(e, r)) <= DirectLimit
    BY <2>2, Clips DEF DirectIq
  <2> QED BY <1>1, <2>3 DEF Size
<1>2. CASE integral' = 0 /\ iq' = 0
  BY <1>2 DEF Size
<1>3. CASE LET next == Integrated(goal - r, Released(kind, goal - r, sum)) IN
           integral' = next /\ iq' = Clipped(goal - r + next \div IntegralScale, IqLimit)
  <2> DEFINE rest == Released(kind, goal - r, sum)
             next == Integrated(goal - r, rest)
  <2>1. rest \in Int /\ Size(rest) <= MostIntegral /\ goal - r \in Int
    BY DEF Released, Size
  <2>2. next \in Int /\ Size(next) <= MostIntegral
    BY <2>1, Integrates
  <2>3. integral' = next /\ iq' = Clipped(goal - r + next \div IntegralScale, IqLimit)
    BY <1>3
  <2> HIDE DEF next
  <2>4. next \div IntegralScale \in Int
    BY <2>2, Quotients
  <2>5. goal - r + next \div IntegralScale \in Int
    BY <2>1, <2>4
  <2> QED BY <2>2, <2>3, <2>5, Clips
<1> QED BY <1>1, <1>2, <1>3 DEF Speed

(* Torque on the side of the error, when the integral is on no other. *)
LEMMA SpeedOnItsSide ==
    ASSUME LoopConstants, NEW kind, NEW e \in Int, NEW sum \in Int, Size(sum) <= MostIntegral,
           NEW next, next = Integrated(e, sum)
    PROVE  LET torque == Clipped(e + next \div IntegralScale, IqLimit) IN
           /\ e >= 0 /\ sum >= 0 => torque >= 0
           /\ e <= 0 /\ sum <= 0 => torque <= 0
<1>1. /\ next \in Int
      /\ e >= 0 /\ sum >= 0 => next >= 0
      /\ e <= 0 /\ sum <= 0 => next <= 0
  BY Integrates
<1> DEFINE quotient == next \div IntegralScale
<1>2. /\ quotient \in Int
      /\ next >= 0 => quotient >= 0
      /\ next <= 0 => quotient <= 0
  BY <1>1, Limits, Quotients
<1> HIDE DEF quotient
<1>3. /\ e >= 0 /\ sum >= 0 => e + quotient >= 0
      /\ e <= 0 /\ sum <= 0 => e + quotient <= 0
      /\ e + quotient \in Int
  BY <1>1, <1>2
<1>4. /\ e + quotient >= 0 => Clipped(e + quotient, IqLimit) >= 0
      /\ e + quotient <= 0 => Clipped(e + quotient, IqLimit) <= 0
  BY <1>3, Limits, Clips
<1> QED BY <1>3, <1>4 DEF quotient

(* At standstill the position loop pulls towards its target: inside the zone by the *)
(* error, outside it because what the other side left is released.                   *)
LEMMA PositionPulls ==
    ASSUME LoopConstants, NEW e \in Int, NEW sum \in Int, Size(sum) <= MostIntegral,
           Speed("position", PositionSpeed(e), 0, e, sum)
    PROVE  (e >= 0 => iq' >= 0) /\ (e <= 0 => iq' <= 0)
<1> USE Limits
<1> DEFINE goal == PositionSpeed(e)
<1>1. /\ goal \in Int
      /\ e > Zone => goal >= 1 /\ goal >= ReleaseError
      /\ e < -Zone => goal <= -1 /\ goal <= -ReleaseError
  BY PositionSpeeds
<1> HIDE DEF goal
<1>2. Speed("position", goal, 0, e, sum)
  BY DEF goal
<1>3. CASE Size(e) <= Zone
  <2>1. iq' = Clipped(Truncated(e, ErrorDivisor) - (0 * Damping), DirectLimit)
    BY <1>2, <1>3 DEF Speed, DirectIq
  <2> DEFINE t == Truncated(e, ErrorDivisor)
  <2>2. t \in Int /\ (e >= 0 => t >= 0) /\ (e <= 0 => t <= 0)
    BY Truncations
  <2>3. t - (0 * Damping) = t
    BY <2>2
  <2> HIDE DEF t
  <2>4. iq' = Clipped(t, DirectLimit)
    BY <2>1, <2>3 DEF t
  <2> QED BY <2>2, <2>4, Clips
<1>4. CASE ~(Size(e) <= Zone)
  <2> DEFINE rest == Released("position", goal - 0, sum)
             next == Integrated(goal - 0, rest)
  <2>1. iq' = Clipped(goal - 0 + next \div IntegralScale, IqLimit)
    BY <1>2, <1>4 DEF Speed
  <2>2. goal - 0 = goal
    BY <1>1
  <2>3. (e > Zone /\ e >= 0 /\ ~(e <= 0)) \/ (e < -Zone /\ e <= 0 /\ ~(e >= 0))
    BY <1>4 DEF Size
  <2>4. /\ rest \in Int /\ Size(rest) <= MostIntegral
        /\ e > Zone => rest >= 0
        /\ e < -Zone => rest <= 0
    BY <1>1, <2>2 DEF Released, Size
  <2> HIDE DEF rest
  <2>5. iq' = Clipped(goal + Integrated(goal, rest) \div IntegralScale, IqLimit)
    BY <2>1, <2>2
  <2>6. /\ goal >= 0 /\ rest >= 0 => iq' >= 0
        /\ goal <= 0 /\ rest <= 0 => iq' <= 0
    BY <1>1, <2>4, <2>5, SpeedOnItsSide
  <2> QED BY <1>1, <2>3, <2>4, <2>6
<1> QED BY <1>3, <1>4
-----------------------------------------------------------------------------
(* The invariant of the loops: their ranges, and the torque of the position loop on *)
(* the side of its error whenever the shaft is measured to stand, held or not.       *)
LoopTypes ==
    /\ shaft \in 0 .. Turn - 1 /\ place \in 0 .. Turn - 1 /\ standing \in BOOLEAN
    /\ measured \in Int /\ Size(measured) <= Fastest
    /\ wanted \in Int /\ Size(wanted) <= MaxTarget
    /\ integral \in Int /\ Size(integral) <= MostIntegral
    /\ iq \in Int /\ Size(iq) <= IqLimit
    /\ loop \in {"speed", "position"}
    /\ apart \in -(Turn \div 2) .. Turn \div 2 - 1

Pulling ==
    loop = "position" /\ measured = 0 => (apart >= 0 => iq >= 0) /\ (apart <= 0 => iq <= 0)

LoopInv == LoopTypes /\ Pulling

LEMMA LoopInvShows ==
    ASSUME LoopConstants, LoopInv PROVE LoopTypeOK /\ (RestsShort => RightWay)
<1>1. LoopTypeOK
  BY DEF LoopInv, LoopTypes, LoopTypeOK, MostIntegral
<1>2. apart \in Int /\ iq \in Int
  <2>1. Turn \div 2 \in Int
    BY DEF LoopConstants
  <2> QED BY <2>1 DEF LoopInv, LoopTypes
<1>3. RestsShort => RightWay
  BY <1>2, SameSigns DEF LoopInv, Pulling, RestsShort, RightWay
<1> QED BY <1>1, <1>3

LEMMA LoopInvInit ==
    ASSUME LoopConstants, LoopInit PROVE LoopInv
<1>1. Turn \div 2 \in Nat /\ Turn \div 2 >= 1
  BY DEF LoopConstants
<1>2. 0 \in -(Turn \div 2) .. Turn \div 2 - 1
  BY <1>1
<1>3. TargetStep \in Int /\ Size(TargetStep) <= MaxTarget /\ Size(0) = 0
  BY DEF LoopConstants, Size
<1>4. MostIntegral \in Nat /\ IqLimit \in Nat /\ Fastest \in Nat /\ 0 \in 0 .. Turn - 1
  BY Limits DEF LoopConstants
<1>5. Size(0) <= Fastest /\ Size(0) <= MostIntegral /\ Size(0) <= IqLimit
  BY <1>3, <1>4
<1>6. LoopTypes
  <2>1. shaft \in 0 .. Turn - 1 /\ place \in 0 .. Turn - 1 /\ standing \in BOOLEAN
    BY <1>4 DEF LoopInit
  <2>2. /\ measured \in Int /\ Size(measured) <= Fastest
        /\ wanted \in Int /\ Size(wanted) <= MaxTarget
    BY <1>3, <1>5 DEF LoopInit
  <2>3. /\ integral \in Int /\ Size(integral) <= MostIntegral
        /\ iq \in Int /\ Size(iq) <= IqLimit
    BY <1>5 DEF LoopInit
  <2>4. loop \in {"speed", "position"} /\ apart \in -(Turn \div 2) .. Turn \div 2 - 1
    BY <1>2 DEF LoopInit
  <2> QED BY <2>1, <2>2, <2>3, <2>4 DEF LoopTypes
<1>7. Pulling
  BY DEF LoopInit, Pulling
<1> QED BY <1>6, <1>7 DEF LoopInv

(* A place on the turn, wherever it has been turned to. *)
LEMMA OnTheTurn ==
    ASSUME LoopConstants, NEW x \in Int PROVE x % Turn \in 0 .. Turn - 1
BY DEF LoopConstants

LEMMA Errors ==
    ASSUME LoopConstants, NEW e \in -(Turn \div 2) .. Turn \div 2 - 1 PROVE e \in Int
<1>1. Turn \div 2 \in Int
  BY DEF LoopConstants
<1> QED BY <1>1

(* The end of a window. *)
LEMMA TurningKeeps ==
    ASSUME LoopConstants, LoopInv, Turning PROVE LoopInv'
<1>1. PICK delta \in -Fastest .. Fastest : Window(delta)
  <2>1. 0 \in -Fastest .. Fastest
    BY DEF LoopConstants
  <2> QED BY <2>1 DEF Turning
<1>2. delta \in Int /\ Size(delta) <= Fastest /\ shaft \in Int
  BY DEF LoopConstants, Size, LoopInv, LoopTypes
<1> DEFINE raw == (shaft + delta) % Turn
           r == Approached(measured, delta)
<1>3. raw \in 0 .. Turn - 1
  BY <1>2, OnTheTurn
<1>4. r \in Int /\ Size(r) <= Fastest
  BY <1>2, Approaches DEF LoopInv, LoopTypes
<1>5. /\ shaft' = raw /\ measured' = r /\ UNCHANGED << standing, loop, place >>
      /\ IF loop = "position"
         THEN apart' = PositionError(raw, place)
              /\ wanted' = PositionSpeed(PositionError(raw, place))
         ELSE UNCHANGED << apart, wanted >>
      /\ Speed(loop, wanted', r, apart', integral)
  BY <1>1 DEF Window
<1> HIDE DEF raw, r
<1>6. PositionError(raw, place) \in -(Turn \div 2) .. Turn \div 2 - 1
  BY <1>3, Wraps DEF LoopInv, LoopTypes
<1>7. apart' \in -(Turn \div 2) .. Turn \div 2 - 1
  BY <1>5, <1>6 DEF LoopInv, LoopTypes
<1>8. apart' \in Int
  BY <1>7, Errors
<1>9. wanted' \in Int /\ Size(wanted') <= MaxTarget
  <2>1. CASE loop = "position"
    BY <1>5, <1>8, <2>1, PositionSpeeds
  <2>2. CASE loop # "position"
    BY <1>5, <2>2 DEF LoopInv, LoopTypes
  <2> QED BY <2>1, <2>2
<1>10. integral \in Int /\ Size(integral) <= MostIntegral
  BY DEF LoopInv, LoopTypes
<1>11. integral' \in Int /\ iq' \in Int /\ Size(integral') <= MostIntegral /\ Size(iq') <= IqLimit
  BY <1>4, <1>5, <1>8, <1>9, <1>10, SpeedWithinLimits
<1>12. LoopTypes'
  BY <1>3, <1>4, <1>5, <1>7, <1>9, <1>11, Limits DEF LoopInv, LoopTypes, MostIntegral
<1>13. ASSUME loop' = "position", measured' = 0
       PROVE  (apart' >= 0 => iq' >= 0) /\ (apart' <= 0 => iq' <= 0)
  <2>1. Speed("position", PositionSpeed(apart'), 0, apart', integral)
    BY <1>5, <1>13
  <2> QED BY <1>8, <1>10, <2>1, PositionPulls
<1> QED BY <1>12, <1>13 DEF LoopInv, Pulling

(* A key that sets a speed: the loop is the speed loop after it. *)
LEMMA TargetKeeps ==
    ASSUME LoopConstants, LoopInv, NEW goal \in Int, NEW sum \in {integral, 0},
           SetTarget(goal, sum), loop' = "speed",
           apart' \in {apart, 0}
    PROVE  LoopInv'
<1> DEFINE r == Clipped(goal, MaxTarget)
<1>1. r \in Int /\ Size(r) <= MaxTarget
  BY Limits, Clips
<1>2. /\ wanted' = r /\ UNCHANGED << shaft, standing, measured, place >>
      /\ Speed(loop', r, measured, apart', Unwound(r, sum))
  BY DEF SetTarget
<1> HIDE DEF r
<1>3. /\ integral \in Int /\ Size(integral) <= MostIntegral /\ measured \in Int
      /\ apart \in -(Turn \div 2) .. Turn \div 2 - 1
  BY DEF LoopInv, LoopTypes
<1>4. Unwound(r, sum) \in Int /\ Size(Unwound(r, sum)) <= MostIntegral
  BY <1>3, Limits DEF Unwound, Size
<1>5. 0 \in -(Turn \div 2) .. Turn \div 2 - 1
  <2>1. Turn \div 2 \in Nat /\ Turn \div 2 >= 1
    BY DEF LoopConstants
  <2> QED BY <2>1
<1>6. apart' \in -(Turn \div 2) .. Turn \div 2 - 1 /\ apart' \in Int
  BY <1>3, <1>5, Errors
<1>7. integral' \in Int /\ iq' \in Int /\ Size(integral') <= MostIntegral /\ Size(iq') <= IqLimit
  BY <1>1, <1>2, <1>3, <1>4, <1>6, SpeedWithinLimits
<1>8. LoopTypes'
  BY <1>1, <1>2, <1>6, <1>7, Limits DEF LoopInv, LoopTypes, MostIntegral
<1> QED BY <1>8 DEF LoopInv, Pulling

(* A key that sets a place. *)
LEMMA HoldKeeps ==
    ASSUME LoopConstants, LoopInv, NEW goal \in 0 .. Turn - 1, Hold(goal) PROVE LoopInv'
<1> DEFINE e == PositionError(shaft, goal)
<1>1. e \in -(Turn \div 2) .. Turn \div 2 - 1
  BY Wraps DEF LoopInv, LoopTypes
<1>2. /\ loop' = "position" /\ place' = goal /\ apart' = e /\ wanted' = PositionSpeed(e)
      /\ Speed("position", PositionSpeed(e), measured, e, 0)
      /\ UNCHANGED << shaft, standing, measured >>
  BY DEF Hold
<1> HIDE DEF e
<1>3. e \in Int
  BY <1>1, Errors
<1>4. PositionSpeed(e) \in Int /\ Size(PositionSpeed(e)) <= MaxTarget
  BY <1>3, PositionSpeeds
<1>5. 0 \in Int /\ Size(0) <= MostIntegral /\ measured \in Int
  BY Limits DEF Size, LoopInv, LoopTypes
<1>6. integral' \in Int /\ iq' \in Int /\ Size(integral') <= MostIntegral /\ Size(iq') <= IqLimit
  BY <1>2, <1>3, <1>4, <1>5, SpeedWithinLimits
<1>7. LoopTypes'
  BY <1>1, <1>2, <1>4, <1>6, Limits DEF LoopInv, LoopTypes, MostIntegral
<1>8. ASSUME measured' = 0
      PROVE  (apart' >= 0 => iq' >= 0) /\ (apart' <= 0 => iq' <= 0)
  <2>1. Speed("position", PositionSpeed(e), 0, e, 0)
    BY <1>2, <1>8
  <2>2. (e >= 0 => iq' >= 0) /\ (e <= 0 => iq' <= 0)
    BY <1>3, <1>5, <2>1, PositionPulls
  <2> QED BY <1>2, <2>2
<1> QED BY <1>7, <1>8 DEF LoopInv, Pulling

(* `+`, `-` and `r`, whichever: a target, the speed loop, and an integral or none. *)
LEMMA SpeedKeys ==
    ASSUME LoopConstants, LoopInv, SpeedKey
    PROVE  /\ loop = "speed" /\ loop' = "speed" /\ apart' = apart
           /\ \E goal \in Int, sum \in {integral, 0} : SetTarget(goal, sum)
<1>1. wanted \in Int /\ TargetStep \in Int
  BY DEF LoopInv, LoopTypes, LoopConstants
<1>2. /\ wanted + (IF wanted < 0 THEN -TargetStep ELSE TargetStep) \in Int
      /\ wanted - SignOf(wanted) * TargetStep \in Int
      /\ (IF wanted = 0 THEN -TargetStep ELSE -wanted) \in Int
  BY <1>1 DEF SignOf
<1> QED BY <1>2 DEF SpeedKey

LEMMA LoopInvStep ==
    ASSUME LoopConstants, LoopInv, [LoopNext]_loopVars PROVE LoopInv'
<1>1. CASE Turning
  BY <1>1, TurningKeeps
<1>2. CASE HoldShaft
  BY <1>2 DEF HoldShaft, LoopInv, LoopTypes, Pulling
<1>3. CASE SpeedKey
  <2>1. PICK goal \in Int, sum \in {integral, 0} : SetTarget(goal, sum)
    BY <1>3, SpeedKeys
  <2> QED BY <1>3, <2>1, SpeedKeys, TargetKeeps
<1>4. CASE PositionKey
  <2>1. PICK goal \in 0 .. Turn - 1 : Hold(goal)
    <3>1. shaft \in 0 .. Turn - 1 /\ place \in Int
      BY DEF LoopInv, LoopTypes
    <3>2. \A delta \in {-PlaceStep, PlaceStep} : (place + delta) % Turn \in 0 .. Turn - 1
      <4>1. \A delta \in {-PlaceStep, PlaceStep} : place + delta \in Int
        BY <3>1 DEF LoopConstants
      <4> QED BY <4>1, OnTheTurn
    <3> QED BY <1>4, <3>1, <3>2 DEF PositionKey
  <2> QED BY <2>1, HoldKeeps
<1>5. CASE EnterSpeed
  BY <1>5, TargetKeeps DEF EnterSpeed
<1>6. CASE UNCHANGED loopVars
  BY <1>6 DEF loopVars, LoopInv, LoopTypes, Pulling
<1> QED BY <1>1, <1>2, <1>3, <1>4, <1>5, <1>6 DEF LoopNext

(* A target on the other side of the speed takes the torque over with it. *)
LEMMA KeysBrake ==
    ASSUME LoopConstants, LoopInv, SpeedKey PROVE BrakesAtOnceStep
<1>1. /\ wanted \in Int /\ measured \in Int /\ iq \in Int
      /\ integral \in Int /\ Size(integral) <= MostIntegral
  BY DEF LoopInv, LoopTypes
<1>2. PICK goal \in Int, sum \in {integral, 0} : SetTarget(goal, sum)
  BY SpeedKeys
<1> DEFINE r == Clipped(goal, MaxTarget)
<1>3. /\ wanted' = r
      /\ Speed("speed", r, measured, apart', Unwound(r, sum))
  BY <1>2, SpeedKeys DEF SetTarget
<1>4. r \in Int
  BY Limits, Clips
<1> HIDE DEF r
<1> SUFFICES ASSUME (r - measured) * iq < 0
             PROVE  (r - measured) * iq' >= 0
  BY <1>3 DEF BrakesAtOnceStep
<1> DEFINE e == r - measured
<1>5. e \in Int /\ ((e > 0 /\ iq < 0) \/ (e < 0 /\ iq > 0))
  <2>1. e \in Int
    BY <1>1, <1>4
  <2> QED BY <1>1, <2>1, SameSigns
<1>6. Unwound(r, sum) = 0
  BY <1>5 DEF Unwound
<1>7. (e >= 0 => iq' >= 0) /\ (e <= 0 => iq' <= 0)
  <2>1. CASE iq' = 0
    BY <2>1
  <2>2. CASE /\ integral' = Integrated(e, 0)
             /\ iq' = Clipped(e + integral' \div IntegralScale, IqLimit)
    <3>1. 0 \in Int /\ Size(0) <= MostIntegral /\ integral' = Integrated(e, 0)
      BY <2>2, Limits DEF Size
    <3> HIDE DEF e
    <3>2. LET torque == Clipped(e + integral' \div IntegralScale, IqLimit) IN
          /\ e >= 0 /\ 0 >= 0 => torque >= 0
          /\ e <= 0 /\ 0 <= 0 => torque <= 0
      BY ONLY LoopConstants, <1>5, <3>1, SpeedOnItsSide
    <3> QED BY <2>2, <3>2
  <2>3. Released("speed", e, 0) = 0
    BY DEF Released
  <2> QED BY <1>3, <1>6, <2>1, <2>2, <2>3 DEF Speed
<1>8. iq' \in Int
  <2>1. Size(0) <= MostIntegral /\ 0 \in Int /\ apart' \in Int
    <3>1. apart' \in Int
      BY SpeedKeys, Errors DEF LoopInv, LoopTypes
    <3> QED BY <3>1, Limits DEF Size
  <2> QED BY <1>1, <1>3, <1>4, <1>6, <2>1, SpeedWithinLimits
<1> QED BY <1>5, <1>7, <1>8, SameSigns

(* The measured speed, the targets, the integral and the torque stay within their   *)
(* limits, and a position error is the short way, whatever is turned and typed.      *)
THEOREM LoopTypeCorrect ==
    ASSUME LoopConstants PROVE LoopSpec => []LoopTypeOK
<1>1. LoopInit => LoopInv
  BY LoopInvInit
<1>2. LoopInv /\ [LoopNext]_loopVars => LoopInv'
  BY LoopInvStep
<1>3. LoopInv => LoopTypeOK
  BY LoopInvShows
<1> QED BY <1>1, <1>2, <1>3, PTL DEF LoopSpec

(* For every size of the zone, the limits and the release: no torque away from the  *)
(* target at standstill, and a target that asks for the opposite torque has it at    *)
(* once (updateSpeedController, setTargetRpm).                                        *)
THEOREM TorqueTheRightWay ==
    ASSUME LoopConstants PROVE LoopSpec => TorqueRightWay
<1>1. LoopInit => LoopInv
  BY LoopInvInit
<1>2. LoopInv /\ [LoopNext]_loopVars => LoopInv'
  BY LoopInvStep
<1>3. LoopInv => (RestsShort => RightWay)
  BY LoopInvShows
<1>4. LoopInv /\ [LoopNext]_loopVars => [BrakesAtOnceStep]_loopVars
  <2> SUFFICES ASSUME LoopInv PROVE BrakesAtOnceStep
    OBVIOUS
  <2>1. CASE SpeedKey
    BY <2>1, KeysBrake
  <2>2. CASE ~SpeedKey
    BY <2>2 DEF BrakesAtOnceStep
  <2> QED BY <2>1, <2>2
<1> QED BY <1>1, <1>2, <1>3, <1>4, PTL DEF LoopSpec, TorqueRightWay

-----------------------------------------------------------------------------
(* BoardConfig.                                                                     *)

(* While the initialisation goes on, and nothing has come between, the     *)
(* groups before the one it is at are the same on both sides.              *)
WrittenSoFar ==
    /\ step > 0 => ~initialized
    /\ step > 0 /\ agreed => \A i \in 1..(step - 1) : board[GroupOrder[i]] = params[GroupOrder[i]]

BoardInv == BoardTypeOK /\ WrittenSoFar /\ BoardAgrees
-----------------------------------------------------------------------------
LEMMA OrderIs ==
    /\ Len(GroupOrder) = 6
    /\ \A i \in 1..6 : GroupOrder[i] \in {"counts", "pid", "ramp", "pospid", "posctl", "invert"}
    /\ \A g \in {"counts", "pid", "ramp", "pospid", "posctl", "invert"} :
          \E i \in 1..6 : GroupOrder[i] = g
    /\ \A i, j \in 1..6 : GroupOrder[i] = GroupOrder[j] => i = j
<1>1. /\ GroupOrder[1] = "counts" /\ GroupOrder[2] = "pid" /\ GroupOrder[3] = "ramp"
      /\ GroupOrder[4] = "pospid" /\ GroupOrder[5] = "posctl" /\ GroupOrder[6] = "invert"
  BY DEF GroupOrder
<1>2. Len(GroupOrder) = 6
  BY DEF GroupOrder
<1>3. \A i \in 1..6 : i \in {1, 2, 3, 4, 5, 6}
  OBVIOUS
<1> QED BY <1>1, <1>2, <1>3

(* Replacing one group by a value of its kind leaves settings.             *)
LEMMA ReplacedIs ==
    ASSUME NEW s \in Settings, NEW g \in {"counts", "pid", "ramp", "pospid", "posctl", "invert"},
           NEW t \in Settings
    PROVE  /\ [s EXCEPT ![g] = t[g]] \in Settings
           /\ \A h \in {"counts", "pid", "ramp", "pospid", "posctl", "invert"} :
                  [s EXCEPT ![g] = t[g]][h] = IF h = g THEN t[h] ELSE s[h]
BY DEF Settings

(* Settings that agree group by group are the same.                        *)
LEMMA SameSettings ==
    ASSUME NEW s \in Settings, NEW t \in Settings,
           \A i \in 1..6 : s[GroupOrder[i]] = t[GroupOrder[i]]
    PROVE  s = t
<1>1. \A g \in {"counts", "pid", "ramp", "pospid", "posctl", "invert"} : s[g] = t[g]
  BY OrderIs
<1> QED BY <1>1 DEF Settings

\* What a write may do to the board.
LEMMA WrittenIs ==
    ASSUME board \in Settings, NEW t \in Settings,
           NEW g \in {"counts", "pid", "ramp", "pospid", "posctl", "invert"},
           NEW ok \in BOOLEAN, Written(g, t[g], ok)
    PROVE  /\ board' \in Settings
           /\ ok => board' = [board EXCEPT ![g] = t[g]]
BY ReplacedIs DEF Written
-----------------------------------------------------------------------------
(* The initialisation.                                                     *)
LEMMA WritesKeep ==
    ASSUME BoardInv, InitWrites
    PROVE  BoardInv'
<1>1. /\ step \in 1..6 /\ board \in Settings /\ params \in Settings
      /\ params' = params /\ ValidPid(params.pid) /\ agreed \in BOOLEAN
  BY OrderIs DEF BoardInv, BoardTypeOK, InitWrites
<1> DEFINE g == GroupOrder[step]
<1>2. g \in {"counts", "pid", "ramp", "pospid", "posctl", "invert"}
  BY <1>1, OrderIs
<1>3. PICK ok \in BOOLEAN : Written(g, params[g], ok) /\ NextStep(ok)
  BY DEF InitWrites
<1>4. board' \in Settings /\ (ok => board' = [board EXCEPT ![g] = params[g]])
  BY <1>1, <1>2, <1>3, WrittenIs
<1>5. /\ agreed' = TRUE \/ agreed' = agreed
      /\ step # 1 => agreed' = agreed
  BY DEF InitWrites
<1>6. BoardTypeOK'
  <2>1. step' \in 0..6
    BY <1>1, <1>3, OrderIs DEF NextStep
  <2>2. initialized' \in BOOLEAN /\ agreed' \in BOOLEAN
    BY <1>1, <1>3, <1>5 DEF NextStep
  <2> QED BY <1>1, <1>4, <2>1, <2>2, OrderIs DEF BoardTypeOK
<1>7. CASE ~ok
  <2>1. step' = 0 /\ initialized' = FALSE
    BY <1>3, <1>7 DEF NextStep
  <2> QED BY <1>6, <2>1 DEF BoardInv, WrittenSoFar, BoardAgrees
<1>8. CASE ok
  <2>1. board' = [board EXCEPT ![g] = params[g]]
    BY <1>4, <1>8
  <2>2. ASSUME agreed', NEW i \in 1..step PROVE board'[GroupOrder[i]] = params[GroupOrder[i]]
    <3>1. GroupOrder[i] \in {"counts", "pid", "ramp", "pospid", "posctl", "invert"}
      BY <1>1, OrderIs
    <3>2. board'[GroupOrder[i]] = IF GroupOrder[i] = g THEN params[g] ELSE board[GroupOrder[i]]
      BY <1>1, <1>2, <2>1, <3>1, ReplacedIs
    <3>3. CASE i = step
      BY <3>2, <3>3
    <3>4. CASE i # step
      <4>1. i \in 1..(step - 1) /\ step # 1 /\ GroupOrder[i] # g
        BY <1>1, <3>4, OrderIs
      <4>2. agreed
        BY <1>5, <2>2, <4>1
      <4> QED BY <1>1, <3>2, <4>1, <4>2 DEF BoardInv, WrittenSoFar
    <3> QED BY <3>3, <3>4
  <2>3. CASE step < 6
    <3>1. step' = step + 1
      BY <1>1, <1>3, <1>8, <2>3, OrderIs DEF NextStep
    <3>2. initialized' = FALSE
      <4>1. step # Len(GroupOrder)
        BY <1>1, <2>3, OrderIs
      <4> QED BY <1>3, <4>1 DEF NextStep
    <3> QED BY <3>2, <1>1, <1>6, <2>2, <3>1 DEF BoardInv, WrittenSoFar, BoardAgrees
  <2>4. CASE step = 6
    <3>1. step' = 0
      BY <1>1, <1>3, <1>8, <2>4, OrderIs DEF NextStep
    <3>2. ASSUME agreed' PROVE board' = params'
      BY <1>1, <1>4, <2>2, <2>4, <3>2, SameSettings
    <3> QED BY <1>6, <3>1, <3>2 DEF BoardInv, WrittenSoFar, BoardAgrees
  <2> QED BY <1>1, <2>3, <2>4
<1> QED BY <1>7, <1>8
-----------------------------------------------------------------------------
(* The commands: each keeps settings, valid ones in the store; and one     *)
(* that says ok leaves an agreement that was there.                        *)
Keeps ==
    /\ params' \in Settings /\ ValidPid(params'.pid) /\ board' \in Settings
    /\ agreed' = FALSE \/ (agreed' = agreed /\ (board = params => board' = params'))
    /\ UNCHANGED <<step, initialized>>

LEMMA RampKeeps ==
    ASSUME BoardTypeOK, NEW v \in Values, SetRamp(v)
    PROVE  Keeps
<1> DEFINE t == [params EXCEPT !.ramp = v]
<1>1. t \in Settings /\ t["ramp"] = v /\ ValidPid(t.pid) /\ params \in Settings /\ board \in Settings
  BY DEF BoardTypeOK, Settings, ValidPid
<1> HIDE DEF t
<1>2. UNCHANGED <<step, initialized>>
  BY DEF SetRamp, Replied
<1>3. CASE Written("ramp", v, TRUE) /\ params' = t /\ Replied("ok")
  <2>1. board' \in Settings /\ board' = [board EXCEPT !["ramp"] = t["ramp"]]
    BY <1>1, <1>3, WrittenIs
  <2>2. agreed' = FALSE \/ agreed' = agreed
    BY <1>3 DEF Replied
  <2>3. board = params => board' = params'
    BY <1>1, <1>3, <2>1 DEF t
  <2> QED BY <1>1, <1>2, <1>3, <2>1, <2>2, <2>3 DEF Keeps
<1>4. CASE Written("ramp", v, FALSE) /\ UNCHANGED params /\ Replied("error")
  <2>1. board' \in Settings
    BY <1>1, <1>4, WrittenIs
  <2>2. agreed' = FALSE
    BY <1>4 DEF Replied
  <2> QED BY <1>2, <1>4, <2>1, <2>2 DEF Keeps, BoardTypeOK
<1> QED BY <1>3, <1>4 DEF SetRamp, t

LEMMA InvertKeeps ==
    ASSUME BoardTypeOK, NEW w \in Wheels, NEW on \in BOOLEAN, Invert(w, on)
    PROVE  Keeps
<1> DEFINE v == Changed(w, on)
           t == [params EXCEPT !.invert = v]
<1>1. v \in SUBSET Wheels
  BY DEF BoardTypeOK, Settings, Changed
<1>2. t \in Settings /\ t["invert"] = v /\ ValidPid(t.pid) /\ params \in Settings /\ board \in Settings
  BY <1>1 DEF BoardTypeOK, Settings, ValidPid
<1> HIDE DEF t, v
<1>3. UNCHANGED <<step, initialized>>
  BY DEF Invert, Replied
<1>4. CASE Written("invert", v, TRUE) /\ params' = t /\ Replied("ok")
  <2>1. board' \in Settings /\ board' = [board EXCEPT !["invert"] = t["invert"]]
    BY <1>2, <1>4, WrittenIs
  <2>2. agreed' = FALSE \/ agreed' = agreed
    BY <1>4 DEF Replied
  <2>3. board = params => board' = params'
    BY <1>2, <1>4, <2>1 DEF t
  <2> QED BY <1>2, <1>3, <1>4, <2>1, <2>2, <2>3 DEF Keeps
<1>5. CASE Written("invert", v, FALSE) /\ UNCHANGED params /\ Replied("error")
  <2>1. board' \in Settings
    BY <1>2, <1>5, WrittenIs
  <2>2. agreed' = FALSE
    BY <1>5 DEF Replied
  <2> QED BY <1>3, <1>5, <2>1, <2>2 DEF Keeps, BoardTypeOK
<1> QED BY <1>4, <1>5 DEF Invert, t, v

\* What motor pid stores is valid, and all of it if it says ok.
LEMMA PidStoredIs ==
    ASSUME params \in Settings, ValidPid(params.pid), BoardConstants, NEW p \in Pids
    PROVE  /\ PidStored(p).stored \in Pids /\ ValidPid(PidStored(p).stored)
           /\ PidStored(p).reply \in {"ok", "error"}
           /\ PidStored(p).reply = "ok" => PidStored(p).stored = p
<1> DEFINE a == [params.pid EXCEPT !.gain = p.gain]
           b == [a EXCEPT !.max = p.max]
           c == [b EXCEPT !.min = p.min]
<1>1. a \in Pids /\ b \in Pids /\ c \in Pids
  BY DEF Settings, Pids
<1>2. ValidPid(a) /\ c = p
  BY DEF Settings, Pids, ValidPid
<1> HIDE DEF a, b, c
<1>3. PidStored(p) = IF ~ValidPid(b) THEN [stored |-> a, reply |-> "error"]
                     ELSE IF ~ValidPid(c) THEN [stored |-> b, reply |-> "error"]
                     ELSE [stored |-> c, reply |-> "ok"]
  BY DEF PidStored, a, b, c
<1> QED BY <1>1, <1>2, <1>3

LEMMA PidKeeps ==
    ASSUME BoardConstants, BoardTypeOK, NEW p \in Pids, Pid(p)
    PROVE  Keeps
<1> DEFINE v == PidStored(p).stored
           t == [params EXCEPT !.pid = v]
           u == [params EXCEPT !.pid = p]
<1>1. params \in Settings /\ board \in Settings /\ v \in Pids /\ ValidPid(v)
  BY PidStoredIs DEF BoardTypeOK
<1> HIDE DEF v
<1>2. t \in Settings /\ t.pid = v /\ u \in Settings /\ u["pid"] = p
  BY <1>1 DEF Settings
<1> HIDE DEF t, u
<1>3. UNCHANGED <<step, initialized>>
  BY DEF Pid, Replied
<1>4. CASE Written("pid", p, TRUE) /\ params' = t /\ Replied(PidStored(p).reply)
  <2>1. board' \in Settings /\ board' = [board EXCEPT !["pid"] = u["pid"]]
    BY <1>1, <1>2, <1>4, WrittenIs
  <2>2. agreed' = FALSE \/ (agreed' = agreed /\ PidStored(p).reply = "ok")
    BY <1>4 DEF Replied
  <2>3. PidStored(p).reply = "ok" => v = p
    BY <1>1, PidStoredIs DEF v, BoardTypeOK
  <2>4. PidStored(p).reply = "ok" /\ board = params => board' = params'
    BY <1>2, <1>4, <2>1, <2>3 DEF t
  <2> QED BY <1>1, <1>2, <1>3, <1>4, <2>1, <2>2, <2>4 DEF Keeps
<1>5. CASE Written("pid", p, FALSE) /\ UNCHANGED params /\ Replied("error")
  <2>1. board' \in Settings
    BY <1>1, <1>2, <1>5, WrittenIs
  <2>2. agreed' = FALSE
    BY <1>5 DEF Replied
  <2> QED BY <1>3, <1>5, <2>1, <2>2 DEF Keeps, BoardTypeOK
<1> QED BY <1>4, <1>5 DEF Pid, t, v

LEMMA TemporaryKeeps ==
    ASSUME BoardTypeOK, NEW g \in {"counts", "pospid", "posctl"}, NEW v \in Values, Temporary(g, v)
    PROVE  Keeps
<1> DEFINE t == [params EXCEPT ![g] = v]
<1>1. t \in Settings /\ t[g] = v /\ board \in Settings
  BY DEF BoardTypeOK, Settings
<1> HIDE DEF t
<1>2. PICK ok \in BOOLEAN : Written(g, v, ok)
  BY DEF Temporary
<1>3. board' \in Settings
  BY <1>1, <1>2, WrittenIs
<1> QED BY <1>3 DEF Temporary, Keeps, BoardTypeOK

LEMMA EditedKeeps ==
    ASSUME BoardTypeOK,
           NEW g \in {"counts", "pid", "ramp", "pospid", "invert"}, NEW v, Edited(g, v),
           g \in {"counts", "ramp", "pospid"} => v \in Values, g = "pid" => v \in Pids,
           g = "invert" => v \in SUBSET Wheels
    PROVE  Keeps
<1>1. params' = [params EXCEPT ![g] = v] /\ (g = "pid" => ValidPid(v)) /\ params \in Settings
  BY DEF Edited, BoardTypeOK
<1>2. params' \in Settings /\ (g = "pid" => params'.pid = v) /\ (g # "pid" => params'.pid = params.pid)
  BY <1>1 DEF Settings
<1> QED BY <1>1, <1>2 DEF Edited, Keeps, BoardTypeOK

LEMMA CommandKeeps ==
    ASSUME BoardConstants, BoardInv, MotorCommand
    PROVE  BoardInv'
<1>1. Keeps
  BY RampKeeps, InvertKeeps, PidKeeps, TemporaryKeeps, EditedKeeps DEF MotorCommand, BoardInv
<1>2. step = 0
  BY DEF MotorCommand
<1>3. BoardTypeOK'
  BY <1>1 DEF Keeps, BoardInv, BoardTypeOK
<1>4. WrittenSoFar'
  BY <1>1, <1>2 DEF Keeps, WrittenSoFar
<1>5. BoardAgrees'
  BY <1>1 DEF Keeps, BoardInv, BoardTypeOK, BoardAgrees
<1> QED BY <1>3, <1>4, <1>5 DEF BoardInv
-----------------------------------------------------------------------------
LEMMA BoardInvInit == BoardConstants /\ BoardInit => BoardInv
<1> SUFFICES ASSUME BoardConstants, BoardInit PROVE BoardInv
  OBVIOUS
<1>1. params \in Settings /\ ValidPid(params.pid)
  BY DEF BoardInit, BoardConstants, Settings, ValidPid
<1>2. board \in Settings
  BY DEF BoardInit, BoardDefaults, BoardConstants, Settings, Pids
<1>3. step = 1 /\ initialized = FALSE /\ agreed = FALSE
  BY DEF BoardInit
<1>4. BoardTypeOK
  <2>1. step \in 0..Len(GroupOrder)
    BY <1>3, OrderIs
  <2>2. initialized \in BOOLEAN /\ agreed \in BOOLEAN
    BY <1>3
  <2> QED BY <1>1, <1>2, <2>1, <2>2 DEF BoardTypeOK
<1>5. WrittenSoFar /\ BoardAgrees
  BY <1>3 DEF WrittenSoFar, BoardAgrees
<1> QED BY <1>4, <1>5 DEF BoardInv

LEMMA BoardInvStep == BoardConstants /\ BoardInv /\ [BoardNext]_boardVars => BoardInv'
<1> SUFFICES ASSUME BoardConstants, BoardInv, [BoardNext]_boardVars PROVE BoardInv'
  OBVIOUS
<1>1. CASE InitWrites
  BY <1>1, WritesKeep
<1>2. CASE BoardResets
  <2>1. BoardDefaults \in Settings
    BY DEF BoardDefaults, BoardConstants, Settings, Pids
  <2> QED BY <1>2, <2>1 DEF BoardResets, BoardInv, BoardTypeOK, WrittenSoFar, BoardAgrees
<1>3. CASE Restart
  <2>1. /\ step' = 1 /\ initialized' = FALSE /\ agreed' = FALSE
        /\ params' = params /\ board' = board
    BY <1>3 DEF Restart
  <2>2. BoardTypeOK'
    <3>1. step' \in 0..Len(GroupOrder)
      BY <2>1, OrderIs
    <3>2. initialized' \in BOOLEAN /\ agreed' \in BOOLEAN
      BY <2>1
    <3>3. params' \in Settings /\ ValidPid(params'.pid) /\ board' \in Settings
      BY <2>1 DEF BoardInv, BoardTypeOK
    <3> QED BY <3>1, <3>2, <3>3 DEF BoardTypeOK
  <2>3. WrittenSoFar' /\ BoardAgrees'
    BY <2>1 DEF WrittenSoFar, BoardAgrees
  <2> QED BY <2>2, <2>3 DEF BoardInv
<1>4. CASE MotorCommand
  BY <1>4, CommandKeeps
<1>5. CASE UNCHANGED boardVars
  BY <1>5 DEF boardVars, BoardInv, BoardTypeOK, WrittenSoFar, BoardAgrees
<1> QED BY <1>1, <1>2, <1>3, <1>4, <1>5 DEF BoardNext

(* Types; the stored parameters stay valid, whatever was typed, and half   *)
(* of a PID that was refused is no exception (app_shell.cpp).              *)
THEOREM BoardTypes ==
    ASSUME BoardConstants
    PROVE  BoardSpec => []BoardTypeOK
<1>1. BoardInv => BoardTypeOK
  BY DEF BoardInv
<1>2. BoardInit => BoardInv
  BY BoardInvInit
<1>3. BoardInv /\ [BoardNext]_boardVars => BoardInv'
  BY BoardInvStep
<1> QED BY <1>1, <1>2, <1>3, PTL DEF BoardSpec

(* After an initialisation that succeeded, and as long as every command    *)
(* said ok, the board runs with exactly what a restart would give it       *)
(* (Chassis_Init of chassis.cpp, the motor commands of app_shell.cpp).     *)
THEOREM BoardKeepsAgreeing ==
    ASSUME BoardConstants
    PROVE  BoardSpec => []BoardAgrees
<1>1. BoardInv => BoardAgrees
  BY DEF BoardInv
<1>2. BoardInit => BoardInv
  BY BoardInvInit
<1>3. BoardInv /\ [BoardNext]_boardVars => BoardInv'
  BY BoardInvStep
<1> QED BY <1>1, <1>2, <1>3, PTL DEF BoardSpec

-----------------------------------------------------------------------------
(* MotorControl.                                                                    *)

(* The controller of a motor, as its loops leave it. *)
States ==
    [init : BOOLEAN, mode : Modes, dir : {"fwd", "rev"}, target : Int, hold : BOOLEAN,
     holdCount : Int, err : Int, atTarget : BOOLEAN, settle : 0 .. Settle, ctl : Nat,
     rem : 0 .. RampScale - 1, rdir : {-1, 0, 1}, since : 0 .. Horizon, out : {0, 1}]

ControlRanges ==
    /\ mode \in Modes /\ dir \in {"fwd", "rev"} /\ rpm \in Rpms
    /\ target \in Targets \cup {0}
    /\ enabled \in BOOLEAN /\ timeout \in BOOLEAN /\ untouched \in BOOLEAN
    /\ st \in States /\ \E r \in Rpms : st.ctl <= r
    /\ count \in Counts /\ sample \in Counts /\ drive \in {-1, 0, 1}
    /\ pc \in {"sample", "commands"} /\ lag \in 0 .. MaxLag
    /\ writes \in 0 .. MaxWrites /\ pushes \in 0 .. MaxPushes
    /\ rampTime \in 0 .. Horizon /\ asked \in Rpms \cup {None, Mixed}

(* What the next step of the ramp carries over from the last one. *)
Carried == IF st.rdir = 1 THEN st.rem ELSE 0

(* The ramp owes nothing: what it has reached and what it carries are all that the *)
(* rate gives for the time, until it is at the speed it is asked for.                *)
AtRest == asked = None => st.ctl = 0 /\ st.rdir = 0 /\ rampTime = 0

Exact ==
    AccelRate > 0 /\ asked \in Rpms =>
        \/ st.ctl = asked /\ asked * RampScale <= AccelRate * rampTime
        \/ /\ st.ctl < asked /\ st.rdir = 1
           /\ (st.ctl * RampScale) + st.rem = AccelRate * rampTime

NotAhead ==
    AccelRate > 0 /\ rampTime < Horizon =>
        (st.ctl * RampScale) + Carried <= AccelRate * rampTime

(* A loop that asks for torque has set the direction to its error's. *)
Positional == st.mode = "POSITION" \/ st.hold

Aimed == untouched /\ Positional /\ st.out = 1 => DirectionSign(dir) * st.err > 0

Aiming == TermReaches => Aimed /\ DrivesTowardsGoal

RampInv == ControlRanges /\ AtRest /\ Exact /\ NotAhead

ControlInv == RampInv /\ Aiming
-----------------------------------------------------------------------------
(* One step of the ramp divides what it carries and what the time gives into whole *)
(* units and a rest.                                                                *)
LEMMA Division ==
    ASSUME NEW x \in Nat, NEW s \in Nat \ {0}
    PROVE  /\ x \div s \in Nat /\ x % s \in 0 .. s - 1
           /\ x = ((x \div s) * s) + (x % s)
<1> DEFINE q == x \div s
           r == x % s
<1>1. q \in Int /\ r \in Int /\ 0 <= r /\ r < s /\ x = (s * q) + r
  OBVIOUS
<1> HIDE DEF q, r
<1>2. ASSUME q < 0 PROVE FALSE
  <2>1. s * q <= -s
    BY <1>1, <1>2
  <2> QED BY <1>1, <2>1
<1>3. s * q = q * s
  BY <1>1
<1>4. q \in Nat /\ r \in 0 .. s - 1 /\ x = (q * s) + r
  BY <1>1, <1>2, <1>3
<1> QED BY <1>4 DEF q, r

LEMMA Products ==
    ASSUME NEW x \in Int, NEW y \in Int, NEW s \in Nat \ {0}
    PROVE  /\ (x + y) * s = (x * s) + (y * s) /\ s * (x + y) = (s * x) + (s * y)
           /\ x <= y => x * s <= y * s /\ s * x <= s * y
           /\ x < y => (x * s) + s <= y * s
<1>1. (x + y) * s = (x * s) + (y * s) /\ s * (x + y) = (s * x) + (s * y)
  OBVIOUS
<1>2. x <= y => x * s <= y * s /\ s * x <= s * y
  OBVIOUS
<1>3. ASSUME x < y PROVE (x * s) + s <= y * s
  <2>1. (x + 1) * s <= y * s
    BY <1>3
  <2>2. (x + 1) * s = (x * s) + s
    OBVIOUS
  <2> QED BY <2>1, <2>2
<1> QED BY <1>1, <1>2, <1>3

LEMMA Rates ==
    ASSUME ControlConstants
    PROVE  /\ AccelRate \in Nat /\ DecelRate \in Nat /\ RampScale \in Nat \ {0}
           /\ Horizon \in Nat /\ Rpms \subseteq Nat /\ 0 \in Rpms /\ PositionRpm \in Rpms
           /\ \A r \in Rpms : AccelRate > 0 => r * RampScale <= AccelRate * Horizon
<1>1. /\ AccelRate \in Nat /\ DecelRate \in Nat /\ RampScale \in Nat \ {0}
      /\ Horizon \in Nat /\ Rpms \subseteq Nat /\ 0 \in Rpms /\ PositionRpm \in Rpms
      /\ \A r \in Rpms : AccelRate > 0 => Horizon * AccelRate >= r * RampScale
  BY DEF ControlConstants
<1>2. Horizon * AccelRate = AccelRate * Horizon
  BY <1>1
<1>3. ASSUME NEW r \in Rpms, AccelRate > 0 PROVE r * RampScale <= AccelRate * Horizon
  <2> DEFINE x == Horizon * AccelRate
             y == AccelRate * Horizon
             z == r * RampScale
  <2>1. x \in Int /\ y \in Int /\ z \in Int /\ x >= z /\ x = y
    BY <1>1, <1>2, <1>3
  <2> HIDE DEF x, y, z
  <2>2. z <= y
    BY <2>1
  <2> QED BY <2>2 DEF y, z
<1> QED BY <1>1, <1>3

(* A step upwards: the sum of what is reached and what is carried grows by what the *)
(* rate gives for the time since the last step.                                      *)
LEMMA RampUp ==
    ASSUME ControlConstants, NEW c \in Nat, NEW carry \in 0 .. RampScale - 1,
           NEW e \in Nat
    PROVE  LET scaled == (AccelRate * e) + carry IN
           /\ scaled \in Nat /\ scaled \div RampScale \in Nat
           /\ scaled % RampScale \in 0 .. RampScale - 1
           /\ ((c + scaled \div RampScale) * RampScale) + (scaled % RampScale)
                = ((c * RampScale) + carry) + (AccelRate * e)
<1> DEFINE scaled == (AccelRate * e) + carry
           q == scaled \div RampScale
           m == scaled % RampScale
           given == AccelRate * e
<1>1. RampScale \in Nat \ {0} /\ given \in Nat /\ carry \in Nat
  BY Rates
<1>2. scaled = given + carry
  OBVIOUS
<1> HIDE DEF scaled, given
<1>3. scaled \in Nat
  BY <1>1, <1>2
<1>4. q \in Nat /\ m \in 0 .. RampScale - 1 /\ scaled = (q * RampScale) + m
  BY <1>1, <1>3, Division
<1> HIDE DEF q, m
<1>5. (c + q) * RampScale = (c * RampScale) + (q * RampScale)
  BY <1>1, <1>4, Products
<1>6. ((c + q) * RampScale) + m = ((c * RampScale) + carry) + given
  <2> DEFINE cs == c * RampScale
             qs == q * RampScale
             all == (c + q) * RampScale
  <2>1. cs \in Int /\ qs \in Int /\ all = cs + qs /\ scaled = qs + m
    BY <1>1, <1>4, <1>5
  <2>2. m \in Int
    BY <1>1, <1>4
  <2> HIDE DEF cs, qs, all
  <2>3. all + m = (cs + carry) + given
    BY <1>1, <1>2, <2>1, <2>2
  <2> QED BY <2>3 DEF all, cs
<1> QED BY <1>3, <1>4, <1>6 DEF scaled, given, q, m

(* What AdvanceControlTarget may do: be there, step up, or step down. *)
Scaled == (AccelRate * st.since) + Carried

Descends(n) ==
    \E x \in Nat, y \in 0 .. RampScale - 1 :
        n = [st EXCEPT !.ctl = x, !.rem = y, !.rdir = -1] /\ rpm < x /\ x <= st.ctl

LEMMA RampMoves ==
    ASSUME ControlConstants, RampInv
    PROVE  LET n == Ramp(st, rpm, st.since)
               q == Scaled \div RampScale IN
           \/ /\ n = [st EXCEPT !.ctl = rpm, !.rem = 0, !.rdir = 0]
              /\ AccelRate > 0 /\ st.ctl < rpm => rpm <= st.ctl + q
           \/ /\ n = [st EXCEPT !.ctl = st.ctl + q, !.rem = Scaled % RampScale, !.rdir = 1]
              /\ AccelRate > 0 /\ st.ctl < rpm /\ st.ctl + q < rpm
           \/ Descends(n)
<1> DEFINE q == Scaled \div RampScale
           n == Ramp(st, rpm, st.since)
<1>1. /\ st \in States /\ st.ctl \in Nat /\ st.rem \in 0 .. RampScale - 1 /\ st.since \in Nat
      /\ st.rdir \in {-1, 0, 1} /\ rpm \in Nat /\ AccelRate \in Nat /\ DecelRate \in Nat
      /\ RampScale \in Nat \ {0}
  BY Rates DEF RampInv, ControlRanges, States
<1>2. CASE st.ctl = rpm
  <2>1. n = [st EXCEPT !.ctl = rpm, !.rem = 0, !.rdir = 0]
    BY <1>2 DEF Ramp
  <2>2. ~(st.ctl < rpm)
    BY <1>1, <1>2
  <2> QED BY <2>1, <2>2
<1>3. CASE st.ctl < rpm
  <2>1. /\ RampSign(st, rpm) = 1 /\ RampRate(1) = AccelRate /\ Abs(rpm - st.ctl) = rpm - st.ctl
        /\ st.ctl # rpm
    BY <1>1, <1>3 DEF RampSign, RampRate, Abs
  <2>2. Scaled = RampRate(1) * st.since + (IF st.rdir = 1 THEN st.rem ELSE 0)
    BY <2>1 DEF Scaled, Carried
  <2>3. q \in Int
    <3>1. Carried \in 0 .. RampScale - 1
      BY <1>1 DEF Carried
    <3>2. Scaled \div RampScale \in Nat
      BY <1>1, <3>1, RampUp DEF Scaled
    <3> QED BY <3>2
  <2>4. n = IF AccelRate = 0 \/ q >= rpm - st.ctl
            THEN [st EXCEPT !.ctl = rpm, !.rem = 0, !.rdir = 0]
            ELSE [st EXCEPT !.ctl = st.ctl + 1 * q, !.rem = Scaled % RampScale, !.rdir = 1]
    BY <2>1, <2>2 DEF Ramp
  <2> HIDE DEF q, n
  <2>5. CASE AccelRate = 0 \/ q >= rpm - st.ctl
    <3>1. AccelRate > 0 => rpm <= st.ctl + q
      BY <1>1, <2>3, <2>5
    <3> QED BY <2>4, <2>5, <3>1 DEF n, q
  <2>6. CASE ~(AccelRate = 0 \/ q >= rpm - st.ctl)
    <3>1. AccelRate > 0 /\ st.ctl + q < rpm /\ st.ctl + 1 * q = st.ctl + q
      BY <1>1, <2>3, <2>6
    <3>2. n = [st EXCEPT !.ctl = st.ctl + q, !.rem = Scaled % RampScale, !.rdir = 1]
      BY <2>4, <2>6, <3>1
    <3> QED BY <1>3, <3>1, <3>2 DEF n, q
  <2> QED BY <2>5, <2>6
<1>4. CASE st.ctl > rpm
  <2> DEFINE given == DecelRate * st.since
             scaled == given + (IF st.rdir = -1 THEN st.rem ELSE 0)
             whole == scaled \div RampScale
             m == scaled % RampScale
  <2>1. /\ RampSign(st, rpm) = -1 /\ RampRate(-1) = DecelRate
        /\ Abs(rpm - st.ctl) = st.ctl - rpm /\ st.ctl # rpm
    BY <1>1, <1>4 DEF RampSign, RampRate, Abs
  <2>2. n = IF DecelRate = 0 \/ whole >= st.ctl - rpm
            THEN [st EXCEPT !.ctl = rpm, !.rem = 0, !.rdir = 0]
            ELSE [st EXCEPT !.ctl = st.ctl + (-1) * whole, !.rem = m, !.rdir = -1]
    BY <2>1 DEF Ramp
  <2>3. given \in Nat
    BY <1>1
  <2> HIDE DEF given
  <2>4. scaled \in Nat
    BY <1>1, <2>3
  <2> HIDE DEF scaled
  <2>5. whole \in Nat /\ m \in 0 .. RampScale - 1
    BY <1>1, <2>4, Division
  <2> HIDE DEF whole, m, n
  <2>6. CASE DecelRate = 0 \/ whole >= st.ctl - rpm
    <3>1. n = [st EXCEPT !.ctl = rpm, !.rem = 0, !.rdir = 0]
      BY <2>2, <2>6
    <3>2. ~(st.ctl < rpm)
      BY <1>1, <1>4
    <3> QED BY <3>1, <3>2 DEF n
  <2>7. CASE ~(DecelRate = 0 \/ whole >= st.ctl - rpm)
    <3> DEFINE x == st.ctl + (-1) * whole
    <3>1. n = [st EXCEPT !.ctl = x, !.rem = m, !.rdir = -1]
      BY <2>2, <2>7
    <3>2. x \in Nat /\ rpm < x /\ x <= st.ctl
      BY <1>1, <2>5, <2>7
    <3> HIDE DEF x
    <3>3. Descends(n)
      BY <2>5, <3>1, <3>2 DEF Descends
    <3> QED BY <3>3 DEF n
  <2> QED BY <2>6, <2>7
<1> QED BY <1>1, <1>2, <1>3, <1>4

(* A step of the ramp in state c with a rest: at its speed, or short of it by what  *)
(* the rate does not give.                                                           *)
LEMMA StepIsExact ==
    ASSUME ControlConstants, AccelRate > 0, NEW c \in Nat, NEW carry \in 0 .. RampScale - 1,
           NEW e \in 0 .. Horizon, NEW T \in 0 .. Horizon,
           NEW req \in Rpms, c < req,
           (c * RampScale) + carry = AccelRate * T
    PROVE  LET scaled == (AccelRate * e) + carry
               q == scaled \div RampScale
               then == Saturate(T + e) IN
           /\ then \in 0 .. Horizon
           /\ req <= c + q => req * RampScale <= AccelRate * then
           /\ c + q < req => ((c + q) * RampScale) + (scaled % RampScale) = AccelRate * then
<1> DEFINE scaled == (AccelRate * e) + carry
           q == scaled \div RampScale
           m == scaled % RampScale
           then == Saturate(T + e)
           given == AccelRate * e
           had == AccelRate * T
           most == AccelRate * Horizon
           now == AccelRate * then
           reached == (c + q) * RampScale
           goal == req * RampScale
<1>1. /\ RampScale \in Nat \ {0} /\ AccelRate \in Nat \ {0} /\ Horizon \in Nat /\ req \in Nat
      /\ e \in Nat /\ T \in Nat
  BY Rates
<1>2. /\ q \in Nat /\ m \in 0 .. RampScale - 1
      /\ reached + m = ((c * RampScale) + carry) + given
  BY <1>1, RampUp
<1>3. then \in 0 .. Horizon /\ then \in Int
      /\ (then = T + e \/ (then = Horizon /\ Horizon <= T + e))
  BY <1>1 DEF Saturate, Least
<1>4. goal <= most
  BY <1>1, Rates
<1>5. had \in Int /\ given \in Int /\ most \in Int /\ now \in Int /\ goal \in Int
  BY <1>1, <1>3
<1>6. AccelRate * (T + e) = had + given
  BY <1>1, Products
<1>7. Horizon <= T + e => most <= had + given
  BY <1>1, <1>6, Products
<1>8. (then = T + e => now = had + given) /\ (then = Horizon => now = most)
  BY <1>6
<1>9. reached \in Int /\ m \in Int /\ m < RampScale /\ m >= 0
  BY <1>1, <1>2
<1>10. reached + m = had + given
  BY <1>2
<1>11. c + q \in Int
  BY <1>2
<1>12. req <= c + q => goal <= reached
  BY <1>1, <1>11, Products
<1>13. c + q < req => reached + RampScale <= goal
  BY <1>1, <1>11, Products
<1> HIDE DEF q, m, then, given, had, most, now, reached, goal, scaled
<1>14. req <= c + q => goal <= now
  BY <1>3, <1>4, <1>5, <1>7, <1>8, <1>9, <1>10, <1>12
<1>15. c + q < req => reached + m = now
  BY <1>1, <1>3, <1>4, <1>5, <1>7, <1>8, <1>9, <1>10, <1>13
<1> QED BY <1>3, <1>14, <1>15 DEF q, m, then, now, reached, goal, scaled

LEMMA StepNotAhead ==
    ASSUME ControlConstants, AccelRate > 0, NEW c \in Nat, NEW carry \in 0 .. RampScale - 1,
           NEW e \in 0 .. Horizon, NEW T \in 0 .. Horizon,
           Saturate(T + e) < Horizon => (c * RampScale) + carry <= AccelRate * T,
           Saturate(T + e) < Horizon
    PROVE  LET scaled == (AccelRate * e) + carry
               q == scaled \div RampScale IN
           /\ ((c + q) * RampScale) + (scaled % RampScale) <= AccelRate * Saturate(T + e)
           /\ \A x \in Nat : x <= c + q => x * RampScale <= AccelRate * Saturate(T + e)
           /\ \A x \in Nat : x <= c => x * RampScale <= AccelRate * Saturate(T + e)
<1> DEFINE scaled == (AccelRate * e) + carry
           q == scaled \div RampScale
           m == scaled % RampScale
           then == Saturate(T + e)
           given == AccelRate * e
           had == AccelRate * T
           now == AccelRate * then
           base == c * RampScale
           reached == (c + q) * RampScale
<1>1. /\ RampScale \in Nat \ {0} /\ AccelRate \in Nat \ {0} /\ Horizon \in Nat
      /\ e \in Nat /\ T \in Nat
  BY Rates
<1>2. /\ q \in Nat /\ m \in 0 .. RampScale - 1
      /\ reached + m = (base + carry) + given
  BY <1>1, RampUp
<1>3. then = T + e
  BY <1>1 DEF Saturate, Least
<1>4. now = had + given
  BY <1>1, <1>3, Products
<1>5. had \in Int /\ given \in Nat /\ base \in Int /\ reached \in Int /\ m \in Nat /\ carry \in Nat
      /\ now \in Int
  BY <1>1, <1>2, <1>3
<1>6. base + carry <= had
  OBVIOUS
<1>7. \A x \in Nat : (x <= c + q => x * RampScale <= reached) /\ (x <= c => x * RampScale <= base)
                      /\ x * RampScale \in Int
  <2> SUFFICES ASSUME NEW x \in Nat
               PROVE  /\ x <= c + q => x * RampScale <= reached
                      /\ x <= c => x * RampScale <= base
                      /\ x * RampScale \in Int
    OBVIOUS
  <2>1. c + q \in Int
    BY <1>2
  <2> QED BY <1>1, <2>1, Products
<1> HIDE DEF q, m, then, given, had, now, base, reached, scaled
<1>8. reached + m <= now /\ reached <= now /\ base <= now
  BY <1>2, <1>4, <1>5, <1>6
<1>9. \A x \in Nat : (x <= c + q => x * RampScale <= now) /\ (x <= c => x * RampScale <= now)
  <2> SUFFICES ASSUME NEW x \in Nat
               PROVE  (x <= c + q => x * RampScale <= now) /\ (x <= c => x * RampScale <= now)
    OBVIOUS
  <2> DEFINE xs == x * RampScale
  <2>1. (x <= c + q => xs <= reached) /\ (x <= c => xs <= base) /\ xs \in Int
    BY <1>7
  <2> HIDE DEF xs
  <2>2. (x <= c + q => xs <= now) /\ (x <= c => xs <= now)
    BY <1>5, <1>8, <2>1
  <2> QED BY <2>2 DEF xs
<1> QED BY <1>8, <1>9 DEF q, m, then, now, reached, scaled

(* Nothing but the speed loop moves the ramp. *)
LEMMA RampRests ==
    ASSUME RampInv, st'.ctl = st.ctl, st'.rem = st.rem, st'.rdir = st.rdir,
           rampTime' = rampTime, asked' = asked
    PROVE  AtRest' /\ Exact' /\ NotAhead'
BY DEF RampInv, AtRest, Exact, NotAhead, Carried

LEMMA RampRestarts ==
    ASSUME ControlConstants, st'.ctl = 0, st'.rem = 0, st'.rdir = 0, rampTime' = 0,
           asked' = None
    PROVE  AtRest' /\ Exact' /\ NotAhead'
<1>1. None \notin Rpms
  BY Rates DEF None
<1>2. (0 * RampScale) + 0 <= AccelRate * 0
  BY Rates
<1>3. Carried' = 0
  BY DEF Carried
<1> QED BY <1>1, <1>2, <1>3 DEF AtRest, Exact, NotAhead

(* A step of the speed loop. *)
LEMMA SpeedKeepsRamp ==
    ASSUME ControlConstants, RampInv, StepSpeed
    PROVE  /\ st' \in States /\ \E r \in Rpms : st'.ctl <= r
           /\ rampTime' \in 0 .. Horizon /\ asked' \in Rpms \cup {None, Mixed}
           /\ AtRest' /\ Exact' /\ NotAhead'
           /\ st'.mode = st.mode /\ st'.hold = st.hold
<1> DEFINE n == Ramp(st, rpm, st.since)
           q == Scaled \div RampScale
           m == Scaled % RampScale
<1>1. /\ st \in States /\ st.ctl \in Nat /\ st.rem \in 0 .. RampScale - 1
      /\ st.since \in 0 .. Horizon /\ st.since \in Nat /\ rpm \in Nat /\ rpm \in Rpms
      /\ rampTime \in 0 .. Horizon /\ Carried \in 0 .. RampScale - 1
      /\ 0 \in 0 .. Horizon /\ 0 \in 0 .. RampScale - 1
      /\ AccelRate \in Nat
  BY Rates DEF RampInv, ControlRanges, States, Carried
<1>2. PICK o \in {0, 1} : st' = [n EXCEPT !.since = 0, !.out = o]
  BY DEF StepSpeed
<1>3. /\ rampTime' = Saturate(rampTime + st.since)
      /\ asked' = IF asked \in {None, rpm} THEN rpm ELSE Mixed
      /\ rpm # 0
  BY DEF StepSpeed, HoldMode
<1>4. \/ /\ n = [st EXCEPT !.ctl = rpm, !.rem = 0, !.rdir = 0]
         /\ AccelRate > 0 /\ st.ctl < rpm => rpm <= st.ctl + q
      \/ /\ n = [st EXCEPT !.ctl = st.ctl + q, !.rem = m, !.rdir = 1]
         /\ AccelRate > 0 /\ st.ctl < rpm /\ st.ctl + q < rpm
      \/ Descends(n)
  BY RampMoves
<1>5. q \in Nat /\ m \in 0 .. RampScale - 1
  BY <1>1, RampUp DEF Scaled
<1>6. rampTime' \in 0 .. Horizon /\ asked' \in Rpms \cup {None, Mixed} /\ asked' # None
  BY <1>1, <1>3, Rates DEF Saturate, Least, None, Mixed
<1> HIDE DEF n, q, m
<1>7. ASSUME NEW x \in Nat, NEW y \in 0 .. RampScale - 1, NEW d \in {-1, 0, 1},
             n = [st EXCEPT !.ctl = x, !.rem = y, !.rdir = d]
      PROVE  /\ st' \in States /\ st'.ctl = x /\ st'.rem = y /\ st'.rdir = d
             /\ st'.mode = st.mode /\ st'.hold = st.hold
  BY <1>1, <1>2, <1>7 DEF States
<1>8. AtRest'
  BY <1>6 DEF AtRest
<1>9. CASE /\ n = [st EXCEPT !.ctl = rpm, !.rem = 0, !.rdir = 0]
           /\ AccelRate > 0 /\ st.ctl < rpm => rpm <= st.ctl + q
  <2>1. /\ st' \in States /\ st'.ctl = rpm /\ st'.rem = 0 /\ st'.rdir = 0
        /\ st'.mode = st.mode /\ st'.hold = st.hold
    BY <1>1, <1>7, <1>9
  <2>2. Exact'
    <3> SUFFICES ASSUME AccelRate > 0, asked' \in Rpms
                 PROVE  st'.ctl = asked' /\ asked' * RampScale <= AccelRate * rampTime'
      BY DEF Exact
    <3>1. asked' = rpm /\ asked \in {None, rpm}
      BY <1>3, <1>1, Rates DEF Mixed
    <3>2. CASE asked = None
      <4>1. /\ st.ctl = 0 /\ st.ctl < rpm /\ rampTime = 0 /\ Carried = 0
        BY <1>1, <1>3, <3>2 DEF RampInv, AtRest, Carried
      <4>2. (0 * RampScale) + 0 = AccelRate * 0 /\ 0 \in Nat
        BY Rates
      <4>3. rpm <= 0 + q
        BY <1>9, <4>1
      <4>4. rpm * RampScale <= AccelRate * Saturate(0 + st.since)
        BY <1>1, <4>1, <4>2, <4>3, StepIsExact DEF Scaled, q
      <4> QED BY <1>3, <2>1, <3>1, <4>1, <4>4
    <3>3. CASE asked = rpm /\ st.ctl = asked /\ asked * RampScale <= AccelRate * rampTime
      <4>1. rampTime <= rampTime' /\ rampTime \in Int /\ rampTime' \in Int
        BY <1>1, <1>3, Rates DEF Saturate, Least
      <4>2. AccelRate * rampTime <= AccelRate * rampTime'
        <5>1. AccelRate \in Nat \ {0}
          BY <1>1
        <5> QED BY <4>1, <5>1, Products
      <4> DEFINE a == rpm * RampScale
                 b == AccelRate * rampTime
                 c == AccelRate * rampTime'
      <4>3. a \in Int /\ b \in Int /\ c \in Int
        BY <1>1, <4>1, Rates
      <4>5. a <= b /\ b <= c
        BY <3>3, <4>2
      <4> HIDE DEF a, b, c
      <4>4. a <= c
        BY <4>3, <4>5
      <4> QED BY <2>1, <3>1, <4>4 DEF a, c
    <3>4. CASE /\ asked = rpm /\ st.ctl < asked /\ st.rdir = 1
               /\ (st.ctl * RampScale) + st.rem = AccelRate * rampTime
      <4>1. Carried = st.rem /\ rpm <= st.ctl + q
        BY <1>9, <3>4 DEF Carried
      <4>2. (st.ctl * RampScale) + Carried = AccelRate * rampTime
        BY <3>4, <4>1
      <4>3. rpm * RampScale <= AccelRate * Saturate(rampTime + st.since)
        BY <1>1, <3>4, <4>1, <4>2, StepIsExact DEF Scaled, q
      <4> QED BY <1>3, <2>1, <3>1, <4>3
    <3> QED BY <1>1, <3>1, <3>2, <3>3, <3>4 DEF RampInv, Exact
  <2>3. NotAhead'
    <3> SUFFICES ASSUME AccelRate > 0, rampTime' < Horizon
                 PROVE  (rpm * RampScale) + 0 <= AccelRate * rampTime'
      BY <2>1 DEF NotAhead, Carried
    <3>1. rampTime < Horizon
      BY <1>1, <1>3, Rates DEF Saturate, Least
    <3>2. (st.ctl * RampScale) + Carried <= AccelRate * rampTime
      BY <3>1 DEF RampInv, NotAhead
    <3>3. rpm <= st.ctl \/ rpm <= st.ctl + q
      BY <1>1, <1>9
    <3>4. rpm * RampScale <= AccelRate * rampTime'
      BY <1>1, <1>3, <3>2, <3>3, StepNotAhead DEF Scaled, q
    <3>5. rpm * RampScale \in Int
      BY <1>1, Rates
    <3> QED BY <3>4, <3>5
  <2>4. \E r \in Rpms : st'.ctl <= r
    BY <1>1, <2>1
  <2> QED BY <1>6, <1>8, <2>1, <2>2, <2>3, <2>4
<1>10. CASE /\ n = [st EXCEPT !.ctl = st.ctl + q, !.rem = m, !.rdir = 1]
            /\ AccelRate > 0 /\ st.ctl < rpm /\ st.ctl + q < rpm
  <2>1. /\ st' \in States /\ st'.ctl = st.ctl + q /\ st'.rem = m /\ st'.rdir = 1
        /\ st'.mode = st.mode /\ st'.hold = st.hold
    <3>1. st.ctl + q \in Nat
      BY <1>1, <1>5
    <3> QED BY <1>5, <1>7, <1>10, <3>1
  <2>2. Exact'
    <3> SUFFICES ASSUME asked' \in Rpms
                 PROVE  /\ st'.ctl < asked' /\ st'.rdir = 1
                        /\ (st'.ctl * RampScale) + st'.rem = AccelRate * rampTime'
      BY DEF Exact
    <3>1. asked' = rpm /\ asked \in {None, rpm}
      BY <1>3, <1>1, Rates DEF Mixed
    <3>2. /\ (st.ctl * RampScale) + Carried = AccelRate * rampTime
      <4>1. CASE asked = None
        <5>1. st.ctl = 0 /\ rampTime = 0 /\ Carried = 0
          BY <4>1 DEF RampInv, AtRest, Carried
        <5>2. (0 * RampScale) + 0 = AccelRate * 0
          BY Rates
        <5> QED BY <5>1, <5>2
      <4>2. CASE asked = rpm
        BY <1>1, <1>10, <4>2 DEF RampInv, Exact, Carried
      <4> QED BY <3>1, <4>1, <4>2
    <3>3. ((st.ctl + q) * RampScale) + m = AccelRate * Saturate(rampTime + st.since)
      BY <1>1, <1>10, <3>2, StepIsExact DEF Scaled, q, m
    <3> QED BY <1>3, <1>10, <2>1, <3>1, <3>3
  <2>3. NotAhead'
    <3> SUFFICES ASSUME rampTime' < Horizon
                 PROVE  ((st.ctl + q) * RampScale) + m <= AccelRate * rampTime'
      BY <2>1 DEF NotAhead, Carried
    <3>1. rampTime < Horizon
      BY <1>1, <1>3, Rates DEF Saturate, Least
    <3>2. (st.ctl * RampScale) + Carried <= AccelRate * rampTime
      BY <1>10, <3>1 DEF RampInv, NotAhead
    <3> QED BY <1>1, <1>3, <1>10, <3>2, StepNotAhead DEF Scaled, q, m
  <2>4. \E r \in Rpms : st'.ctl <= r
    BY <1>1, <1>5, <1>10, <2>1
  <2> QED BY <1>6, <1>8, <2>1, <2>2, <2>3, <2>4
<1>11. CASE Descends(n)
  <2>1. PICK x \in Nat, y \in 0 .. RampScale - 1 :
          n = [st EXCEPT !.ctl = x, !.rem = y, !.rdir = -1] /\ rpm < x /\ x <= st.ctl
    BY <1>11 DEF Descends
  <2>2. /\ st' \in States /\ st'.ctl = x /\ st'.rem = y /\ st'.rdir = -1
        /\ st'.mode = st.mode /\ st'.hold = st.hold
    BY <1>7, <2>1
  <2>3. Exact'
    <3> SUFFICES ASSUME AccelRate > 0, asked' \in Rpms PROVE FALSE
      BY DEF Exact
    <3>1. asked' = rpm /\ asked \in {None, rpm}
      BY <1>3, <1>1, Rates DEF Mixed
    <3>2. asked # None
      BY <1>1, <2>1 DEF RampInv, AtRest
    <3>3. st.ctl <= asked
      BY <1>1, <3>1, <3>2 DEF RampInv, Exact
    <3> QED BY <1>1, <2>1, <3>1, <3>2, <3>3
  <2>4. NotAhead'
    <3> SUFFICES ASSUME AccelRate > 0, rampTime' < Horizon
                 PROVE  (x * RampScale) + 0 <= AccelRate * rampTime'
      BY <2>2 DEF NotAhead, Carried
    <3>1. rampTime < Horizon
      BY <1>1, <1>3, Rates DEF Saturate, Least
    <3>2. (st.ctl * RampScale) + Carried <= AccelRate * rampTime
      BY <3>1 DEF RampInv, NotAhead
    <3>3. x * RampScale <= AccelRate * rampTime'
      BY <1>1, <1>3, <2>1, <3>2, StepNotAhead
    <3>4. x * RampScale \in Int
      BY <2>1, Rates
    <3> QED BY <3>3, <3>4
  <2>5. \E r \in Rpms : st'.ctl <= r
    <3>1. PICK r \in Rpms : st.ctl <= r
      BY DEF RampInv, ControlRanges
    <3> QED BY <1>1, <2>1, <2>2, <3>1, Rates
  <2> QED BY <1>6, <1>8, <2>2, <2>3, <2>4, <2>5
<1> QED BY <1>4, <1>9, <1>10, <1>11

LEMMA ControlInvInit ==
    ASSUME ControlConstants, ControlInit PROVE ControlInv
<1>1. /\ 0 \in 0 .. Settle /\ 0 \in 0 .. RampScale - 1 /\ 0 \in 0 .. Horizon
      /\ 0 \in Counts /\ 0 \in 0 .. MaxLag /\ 0 \in 0 .. MaxWrites /\ 0 \in 0 .. MaxPushes
  BY DEF ControlConstants, Counts
<1>2. st \in States
  BY <1>1 DEF ControlInit, FreshState, States, Modes
<1>3. st.ctl = 0 /\ st.rem = 0 /\ st.rdir = 0 /\ st.out = 0
  BY DEF ControlInit, FreshState
<1>4. ControlRanges
  <2>1. mode \in Modes /\ rpm \in Rpms /\ sample \in Counts /\ count \in Counts
    BY <1>1, Rates DEF ControlInit, Modes
  <2>2. 0 \in Rpms /\ st.ctl <= 0
    BY <1>3, Rates
  <2>3. \E r \in Rpms : st.ctl <= r
    BY <2>2
  <2> QED BY <1>1, <1>2, <2>1, <2>3 DEF ControlInit, ControlRanges
<1>5. AtRest /\ Exact /\ NotAhead
  <2>1. None \notin Rpms
    BY Rates DEF None
  <2>2. (0 * RampScale) + 0 <= AccelRate * 0
    BY Rates
  <2>3. Carried = 0
    BY <1>3 DEF Carried
  <2> QED BY <1>3, <2>1, <2>2, <2>3 DEF ControlInit, AtRest, Exact, NotAhead
<1>6. Aiming
  BY DEF ControlInit, Aiming, Aimed, DrivesTowardsGoal
<1> QED BY <1>4, <1>5, <1>6 DEF ControlInv, RampInv

(* Time, hands, samples. *)
LEMMA ClampedCounts ==
    ASSUME ControlConstants, NEW x \in Int PROVE Clamp(x) \in Counts
BY DEF ControlConstants, Clamp, Counts, Least, Greatest

LEMMA WorldKeeps ==
    ASSUME ControlConstants, ControlInv, Tick \/ Push \/ Sample PROVE ControlInv'
<1> USE DEF ControlInv, RampInv
<1>1. /\ UNCHANGED <<mode, dir, rpm, target, enabled, timeout, drive, writes, untouched,
                     rampTime, asked>>
      /\ pc' \in {"sample", "commands"} /\ lag' \in 0 .. MaxLag
      /\ pushes' \in 0 .. MaxPushes
  BY DEF Tick, Push, Sample, registers, history, ControlRanges, ControlConstants
<1>2. count' \in Counts /\ sample' \in Counts
  <2>1. MaxCount \in Nat /\ count \in Int /\ drive \in {-1, 0, 1} /\ Slip \subseteq Nat
    BY DEF ControlConstants, ControlRanges, Counts
  <2>2. \A s \in Slip : count + drive * s \in Int
    BY <2>1
  <2>3. \A s \in {-1, 1} : count + s \in Int
    BY <2>1
  <2>4. count' \in Counts
    BY <2>2, <2>3, ClampedCounts DEF Tick, Push, Sample, ControlRanges
  <2> QED BY <2>4 DEF Tick, Push, Sample, ControlRanges
<1>3. /\ st' \in States /\ st'.ctl = st.ctl /\ st'.rem = st.rem /\ st'.rdir = st.rdir
      /\ st'.mode = st.mode /\ st'.hold = st.hold /\ st'.out = st.out /\ st'.err = st.err
  <2>1. CASE Tick
    <3> DEFINE since == Saturate(st.since + 1)
               settle == Greatest(0, st.settle - 1)
    <3>1. st.since \in 0 .. Horizon /\ st.settle \in 0 .. Settle
      BY DEF ControlRanges, States
    <3>2. since \in 0 .. Horizon /\ settle \in 0 .. Settle
      BY <3>1 DEF ControlConstants, Saturate, Least, Greatest
    <3>3. st' = [st EXCEPT !.since = since, !.settle = settle]
      BY <2>1 DEF Tick
    <3> HIDE DEF since, settle
    <3> QED BY <3>2, <3>3 DEF ControlRanges, States
  <2>2. CASE Push \/ Sample
    BY <2>2 DEF Push, Sample, ControlRanges
  <2> QED BY <2>1, <2>2
<1>4. ControlRanges'
  BY <1>1, <1>2, <1>3 DEF ControlRanges
<1>5. AtRest' /\ Exact' /\ NotAhead'
  BY <1>1, <1>3, RampRests
<1>6. Aiming'
  BY <1>1, <1>3 DEF Aiming, Aimed, DrivesTowardsGoal, Positional
<1> QED BY <1>4, <1>5, <1>6

(* A write or a trip: the loop has not seen it yet. *)
LEMMA HostKeeps ==
    ASSUME ControlConstants, ControlInv, Host \/ Trip PROVE ControlInv'
<1> USE DEF ControlInv, RampInv
<1>1. /\ UNCHANGED <<st, sample, drive, pc, lag, pushes, rampTime, asked>>
      /\ untouched' = FALSE /\ writes' \in 0 .. MaxWrites
  BY DEF Host, Trip, HostWrites, WriteMode, WriteTargetRpm, WriteTargetPosition, WriteEnable,
         ResetEncoder, ControlRanges, ControlConstants
<1>2. /\ mode' \in Modes /\ dir' \in {"fwd", "rev"} /\ rpm' \in Rpms
      /\ target' \in Targets \cup {0} /\ enabled' \in BOOLEAN /\ timeout' \in BOOLEAN
      /\ count' \in Counts
  <2>1. 0 \in Counts /\ "COAST" \in Modes
    BY DEF ControlConstants, Counts, Modes
  <2> QED BY <2>1, Rates
          DEF Host, Trip, HostWrites, WriteMode, WriteTargetRpm, WriteTargetPosition,
              WriteEnable, ResetEncoder, ControlRanges
<1>3. ControlRanges'
  BY <1>1, <1>2 DEF ControlRanges
<1>4. AtRest' /\ Exact' /\ NotAhead'
  BY <1>1, RampRests
<1>5. Aiming'
  BY <1>1 DEF Aiming, Aimed, DrivesTowardsGoal
<1> QED BY <1>3, <1>4, <1>5

(* The end of a pass takes what the loop has left to the bridge. *)
LEMMA BridgeFollows ==
    ASSUME ControlConstants, ControlRanges, EndPass, st' \in States, dir' \in {"fwd", "rev"},
           TermReaches => Aimed'
    PROVE  drive' \in {-1, 0, 1} /\ Aiming'
<1>1. st'.out \in {0, 1} /\ st'.err \in Int
  BY DEF States
<1>2. DirectionSign(dir') \in {-1, 1}
  BY DEF DirectionSign
<1>3. drive' = 0 \/ (drive' = st'.out * DirectionSign(dir'))
  BY DEF EndPass, DriveFor
<1>4. drive' \in {-1, 0, 1}
  BY <1>1, <1>2, <1>3
<1>5. drive' # 0 => st'.out = 1 /\ drive' = DirectionSign(dir')
  BY <1>1, <1>2, <1>3
<1>6. ASSUME TermReaches PROVE DrivesTowardsGoal'
  BY <1>1, <1>4, <1>5, <1>6 DEF DrivesTowardsGoal, Aimed, Positional
<1> QED BY <1>4, <1>6 DEF Aiming

(* A position loop that asks for torque is outside its entry tolerance, where the   *)
(* term of its error reaches a whole unit.                                           *)
LEMMA TermsReach ==
    ASSUME ControlConstants, TermReaches, NEW e \in Int, Abs(e) > Enter
    PROVE  PositionTerm(e) < 0 <=> e < 0
<1>1. Gain \in Nat \ {0} /\ Cpr \in Nat \ {0} /\ Enter \in Nat
  BY DEF ControlConstants
<1>2. CASE e < 0
  <2> DEFINE x == -e * Gain
             q == x \div Cpr
  <2>1. -e \in Int /\ Enter + 1 <= -e
    BY <1>1, <1>2 DEF Abs
  <2>2. (Enter + 1) * Gain <= (-e) * Gain
    BY <1>1, <2>1, Products
  <2>3. x = (-e) * Gain
    BY <1>1
  <2> DEFINE least == (Enter + 1) * Gain
  <2>4. least >= Cpr /\ least \in Int /\ least <= x /\ x \in Int
    BY <1>1, <2>1, <2>2, <2>3 DEF TermReaches
  <2> HIDE DEF x, least
  <2>5. x \in Nat /\ x >= Cpr
    BY <1>1, <2>4
  <2>6. q \in Nat /\ x % Cpr \in 0 .. Cpr - 1 /\ x = (q * Cpr) + (x % Cpr)
    BY <1>1, <2>5, Division
  <2> HIDE DEF q
  <2>7. q # 0
    <3>1. (0 * Cpr) = 0
      BY <1>1
    <3> QED BY <1>1, <2>5, <2>6, <3>1
  <2>8. PositionTerm(e) = -q
    BY <1>2 DEF PositionTerm, q, x
  <2> QED BY <1>2, <2>6, <2>7, <2>8
<1>3. CASE e >= 0
  <2>1. e * Gain \in Nat
    BY <1>1, <1>3
  <2>2. (e * Gain) \div Cpr \in Nat
    BY <1>1, <2>1, Division
  <2>3. PositionTerm(e) = (e * Gain) \div Cpr
    BY <1>3 DEF PositionTerm
  <2> QED BY <1>3, <2>2, <2>3
<1> QED BY <1>2, <1>3

(* A step of the position loop. *)
LEMMA PositionAims ==
    ASSUME ControlConstants, ControlRanges, StepPosition
    PROVE  /\ st' \in States /\ st'.ctl = st.ctl /\ st'.rem = st.rem /\ st'.rdir = st.rdir
           /\ dir' \in {"fwd", "rev"}
           /\ TermReaches => Aimed'
<1> DEFINE goal    == IF HoldMode THEN st.holdCount ELSE target
           err     == goal - sample
           crossed == st.err * err < 0 /\ ~st.atTarget
           arrived == st.atTarget \/ crossed
           wait    == IF crossed THEN Settle ELSE st.settle
           resting == IF arrived THEN wait > 0 \/ Abs(err) <= Greatest(Enter, Exit)
                                 ELSE Abs(err) <= Enter
           settle  == IF resting /\ ~arrived THEN Settle ELSE wait
           out     == IF resting THEN 0 ELSE 1
<1>1. st' = [st EXCEPT !.err = err, !.since = 0, !.atTarget = resting, !.settle = settle,
                       !.out = out]
  BY DEF StepPosition, PositionStep
<1>2. /\ Enter \in Nat /\ Exit \in Nat /\ Settle \in Nat /\ Horizon \in Nat
      /\ st \in States /\ st.holdCount \in Int /\ st.settle \in 0 .. Settle
      /\ target \in Int /\ sample \in Int
  BY DEF ControlConstants, ControlRanges, States, Counts
<1>3. err \in Int /\ wait \in 0 .. Settle
  BY <1>2
<1>4. arrived \in BOOLEAN
  BY <1>2 DEF States
<1> HIDE DEF err, crossed, arrived, wait
<1>9. resting \in BOOLEAN
  <2>1. CASE arrived
    BY <1>2, <1>3, <2>1 DEF Greatest, Abs
  <2>2. CASE ~arrived
    BY <1>2, <1>3, <2>2 DEF Abs
  <2> QED BY <2>1, <2>2
<1>10. settle \in 0 .. Settle /\ out \in {0, 1} /\ 0 \in 0 .. Horizon
  BY <1>2, <1>3
<1>5. out = 1 => Abs(err) > Enter
  BY <1>2, <1>3 DEF Greatest, Abs
<1> HIDE DEF resting, settle, out
<1>6. /\ st' \in States /\ st'.err = err /\ st'.out = out
      /\ st'.ctl = st.ctl /\ st'.rem = st.rem /\ st'.rdir = st.rdir
  BY <1>1, <1>2, <1>3, <1>9, <1>10 DEF States
<1>7. dir' = IF out = 1 /\ PositionTerm(err) < 0 THEN "rev" ELSE "fwd"
  BY <1>6 DEF StepPosition, PositionDirection
<1>8. ASSUME TermReaches, out = 1 PROVE DirectionSign(dir') * err > 0
  <2>1. PositionTerm(err) < 0 <=> err < 0
    BY <1>3, <1>5, <1>8, TermsReach
  <2>2. err # 0
    BY <1>2, <1>3, <1>5, <1>8 DEF Abs
  <2>3. DirectionSign(dir') = IF err < 0 THEN -1 ELSE 1
    BY <1>7, <1>8, <2>1 DEF DirectionSign
  <2> QED BY <1>3, <2>2, <2>3
<1> QED BY <1>6, <1>7, <1>8 DEF Aimed

(* The loop that steps is the one whose key it holds. *)
LEMMA SpeedIsNotPositional ==
    ASSUME StepSpeed PROVE ~Positional
BY DEF StepSpeed, KeyChanged, HoldMode, Positional

LEMMA ControlKeeps ==
    ASSUME ControlConstants, ControlInv, Control PROVE ControlInv'
<1> USE DEF ControlInv, RampInv
<1>1. EndPass
  BY DEF Control, SkipLoop, NoLoop, RestartLoop, WaitPeriod, StepPosition, StepSpeed
<1>2. /\ UNCHANGED <<mode, target, enabled, timeout, count, sample, writes, lag, pushes>>
      /\ pc' \in {"sample", "commands"}
  BY <1>1 DEF EndPass
<1>3. SUFFICES /\ dir' \in {"fwd", "rev"} /\ rpm' \in Rpms /\ untouched' \in BOOLEAN
               /\ st' \in States /\ \E r \in Rpms : st'.ctl <= r
               /\ rampTime' \in 0 .. Horizon /\ asked' \in Rpms \cup {None, Mixed}
               /\ AtRest' /\ Exact' /\ NotAhead'
               /\ TermReaches => Aimed'
  <2>1. drive' \in {-1, 0, 1} /\ Aiming'
    BY <1>1, <1>3, BridgeFollows
  <2>2. ControlRanges'
    BY <1>2, <1>3, <2>1 DEF ControlRanges
  <2> QED BY <1>3, <2>1, <2>2
<1>4. /\ dir \in {"fwd", "rev"} /\ rpm \in Rpms /\ untouched \in BOOLEAN
      /\ st \in States /\ \E r \in Rpms : st.ctl <= r
      /\ rampTime \in 0 .. Horizon /\ asked \in Rpms \cup {None, Mixed}
      /\ mode \in Modes /\ target \in Int /\ sample \in Int
  BY DEF ControlRanges, ControlConstants, Counts
<1>5. /\ 0 \in Rpms /\ PositionRpm \in Rpms /\ Rpms \subseteq Nat
      /\ 0 \in 0 .. Settle /\ 0 \in 0 .. RampScale - 1 /\ 0 \in 0 .. Horizon
  BY Rates DEF ControlConstants
<1>6. \E r \in Rpms : 0 <= r
  BY <1>5
<1>7. CASE SkipLoop \/ WaitPeriod
  <2>1. UNCHANGED <<dir, rpm, st, untouched, rampTime, asked>>
    BY <1>7 DEF SkipLoop, WaitPeriod
  <2>2. AtRest' /\ Exact' /\ NotAhead'
    BY <2>1, RampRests
  <2>3. TermReaches => Aimed'
    BY <2>1 DEF Aiming, Aimed, Positional
  <2> QED BY <1>4, <2>1, <2>2, <2>3
<1>8. CASE NoLoop
  <2>1. /\ st' = FreshState /\ UNCHANGED <<dir, rpm>> /\ untouched' = FALSE
        /\ rampTime' = 0 /\ asked' = None
    BY <1>8 DEF NoLoop
  <2>2. st' \in States /\ st'.ctl = 0 /\ st'.rem = 0 /\ st'.rdir = 0
    BY <1>5, <2>1 DEF FreshState, States, Modes
  <2>3. AtRest' /\ Exact' /\ NotAhead'
    BY <2>1, <2>2, RampRestarts
  <2>4. Aimed'
    BY <2>1 DEF Aimed
  <2> QED BY <1>4, <1>5, <1>6, <2>1, <2>2, <2>3, <2>4
<1>9. CASE RestartLoop
  <2>1. /\ st' = Restarted /\ UNCHANGED dir /\ untouched' = TRUE
        /\ rpm' = IF mode = "POSITION" THEN 0 ELSE rpm
        /\ rampTime' = 0 /\ asked' = None
    BY <1>9 DEF RestartLoop
  <2> DEFINE key  == DirectionKey
             held == HoldMode
             off  == IF mode = "POSITION" THEN target - sample ELSE 0
             near == HoldMode \/ (mode = "POSITION" /\ Abs(target - sample) <= Enter)
             aim  == TargetKey
  <2>2. /\ key \in {"fwd", "rev"} /\ held \in BOOLEAN /\ off \in Int /\ near \in BOOLEAN
        /\ aim \in Int
    BY <1>4 DEF DirectionKey, HoldMode, TargetKey, Abs
  <2>3. st' = [FreshState EXCEPT !.init = TRUE, !.mode = mode, !.dir = key, !.target = aim,
                                 !.hold = held, !.holdCount = sample, !.err = off,
                                 !.atTarget = near]
    BY <2>1 DEF Restarted
  <2> HIDE DEF key, held, off, near, aim
  <2>4. st' \in States /\ st'.ctl = 0 /\ st'.rem = 0 /\ st'.rdir = 0 /\ st'.out = 0
    BY <1>4, <1>5, <2>2, <2>3 DEF FreshState, States, Modes
  <2>5. AtRest' /\ Exact' /\ NotAhead'
    BY <2>1, <2>4, RampRestarts
  <2>6. Aimed'
    BY <2>4 DEF Aimed
  <2> QED BY <1>4, <1>5, <1>6, <2>1, <2>4, <2>5, <2>6
<1>10. CASE StepPosition
  <2>1. /\ st' \in States /\ st'.ctl = st.ctl /\ st'.rem = st.rem /\ st'.rdir = st.rdir
        /\ dir' \in {"fwd", "rev"} /\ (TermReaches => Aimed')
    BY <1>10, PositionAims
  <2>2. /\ UNCHANGED <<rampTime, asked>> /\ untouched' = TRUE
        /\ rpm' = IF HoldMode THEN rpm ELSE PositionRpm * st'.out
    BY <1>10 DEF StepPosition
  <2>3. rpm' \in Rpms
    <3>1. st'.out \in {0, 1} /\ PositionRpm \in Nat
      BY <1>5, <2>1 DEF States
    <3>2. PositionRpm * 0 = 0 /\ PositionRpm * 1 = PositionRpm
      BY <3>1
    <3> QED BY <1>4, <1>5, <2>2, <3>1, <3>2
  <2>4. AtRest' /\ Exact' /\ NotAhead'
    BY <2>1, <2>2, RampRests
  <2> QED BY <1>4, <2>1, <2>2, <2>3, <2>4
<1>11. CASE StepSpeed
  <2>1. /\ st' \in States /\ \E r \in Rpms : st'.ctl <= r
        /\ rampTime' \in 0 .. Horizon /\ asked' \in Rpms \cup {None, Mixed}
        /\ AtRest' /\ Exact' /\ NotAhead'
        /\ st'.mode = st.mode /\ st'.hold = st.hold
    BY <1>11, SpeedKeepsRamp
  <2>2. UNCHANGED <<dir, rpm>> /\ untouched' = TRUE
    BY <1>11 DEF StepSpeed
  <2>3. Aimed'
    BY <1>11, <2>1, SpeedIsNotPositional DEF Aimed, Positional
  <2> QED BY <1>4, <2>1, <2>2, <2>3
<1> QED BY <1>7, <1>8, <1>9, <1>10, <1>11 DEF Control

LEMMA ControlInvStep ==
    ASSUME ControlConstants, ControlInv, [ControlNext]_controlVars PROVE ControlInv'
<1>1. CASE UNCHANGED controlVars
  <2>1. UNCHANGED <<mode, dir, rpm, target, enabled, timeout, st, count, sample, drive, pc,
                    writes, lag, pushes, untouched, rampTime, asked>>
    BY <1>1 DEF controlVars, registers, history
  <2>2. ControlRanges'
    BY <2>1 DEF ControlInv, RampInv, ControlRanges
  <2>3. AtRest' /\ Exact' /\ NotAhead'
    BY <2>1, RampRests DEF ControlInv
  <2>4. Aiming'
    BY <2>1 DEF ControlInv, Aiming, Aimed, DrivesTowardsGoal, Positional
  <2> QED BY <2>2, <2>3, <2>4 DEF ControlInv, RampInv
<1>2. CASE Tick \/ Push \/ Sample
  BY <1>2, WorldKeeps
<1>3. CASE Host \/ Trip
  BY <1>3, HostKeeps
<1>4. CASE Control
  BY <1>4, ControlKeeps
<1> QED BY <1>1, <1>2, <1>3, <1>4 DEF ControlNext

(* A whole part is the only one that leaves a rest below the divisor. *)
LEMMA WholePart ==
    ASSUME NEW x \in Nat, NEW s \in Nat \ {0}, NEW q \in Nat, NEW m \in 0 .. s - 1,
           (q * s) + m = x
    PROVE  x \div s = q
<1> DEFINE d == x \div s
           r == x % s
<1>1. d \in Nat /\ r \in 0 .. s - 1 /\ x = (d * s) + r
  BY Division
<1> HIDE DEF d, r
<1> DEFINE ds == d * s
           qs == q * s
<1>2. ds \in Int /\ qs \in Int /\ m \in Int /\ r \in Int /\ s \in Int
      /\ ds + r = qs + m /\ 0 <= m /\ m < s /\ 0 <= r /\ r < s
  BY <1>1
<1>3. (d < q => ds + s <= qs) /\ (q < d => qs + s <= ds)
  BY <1>1, Products
<1> HIDE DEF ds, qs
<1>4. ~(d < q) /\ ~(q < d)
  BY <1>2, <1>3
<1>5. d = q
  BY <1>1, <1>4
<1> QED BY <1>5 DEF d

LEMMA WholeAtLeast ==
    ASSUME NEW x \in Nat, NEW s \in Nat \ {0}, NEW a \in Nat, a * s <= x
    PROVE  a <= x \div s
<1> DEFINE d == x \div s
           r == x % s
<1>1. d \in Nat /\ r \in 0 .. s - 1 /\ x = (d * s) + r
  BY Division
<1> HIDE DEF d, r
<1>2. d < a => (d * s) + s <= a * s
  BY <1>1, Products
<1> DEFINE ds == d * s
           whole == a * s
<1>3. /\ ds \in Int /\ whole \in Int /\ r \in Int /\ r < s /\ whole <= x /\ x = ds + r
      /\ d < a => ds + s <= whole
  BY <1>1, <1>2
<1> HIDE DEF ds, whole
<1>4. ~(d < a)
  BY <1>3
<1>5. a <= d
  BY <1>1, <1>4
<1> QED BY <1>5 DEF d

(* What is kept says what is promised. *)
LEMMA RampPromise ==
    ASSUME ControlConstants, RampInv PROVE RampKeepsRate
<1>1. /\ st.ctl \in Nat /\ st.rem \in 0 .. RampScale - 1 /\ st.rem \in Nat
      /\ rampTime \in Nat /\ AccelRate \in Nat /\ RampScale \in Nat \ {0}
      /\ Carried \in Nat /\ Rpms \subseteq Nat
  BY Rates DEF RampInv, ControlRanges, States, Carried
<1>2. RampNeverAhead
  <2> DEFINE have == st.ctl * RampScale
             given == AccelRate * rampTime
  <2>1. have \in Int /\ given \in Int
    BY <1>1
  <2>2. AccelRate > 0 /\ rampTime < Horizon => have + Carried <= given
    BY DEF RampInv, NotAhead
  <2> HIDE DEF have, given
  <2>3. AccelRate > 0 /\ rampTime < Horizon => have <= given
    BY <1>1, <2>1, <2>2
  <2> QED BY <2>3 DEF RampNeverAhead, have, given
<1>3. ASSUME AccelRate > 0, asked \in Rpms
      PROVE  st.ctl = Least(asked, (AccelRate * rampTime) \div RampScale)
  <2> DEFINE x == AccelRate * rampTime
             d == x \div RampScale
  <2>1. x \in Nat /\ asked \in Nat
    BY <1>1, <1>3
  <2> HIDE DEF x
  <2>2. d \in Nat /\ x % RampScale \in 0 .. RampScale - 1 /\ x = (d * RampScale) + (x % RampScale)
    BY <1>1, <2>1, Division
  <2>3. CASE st.ctl = asked /\ asked * RampScale <= AccelRate * rampTime
    <3>1. asked * RampScale <= x
      BY <2>3 DEF x
    <3>2. asked <= d
      BY <1>1, <2>1, <3>1, WholeAtLeast
    <3> HIDE DEF d
    <3>3. ~(d < asked)
      BY <2>1, <2>2, <3>2
    <3>4. Least(asked, d) = asked
      BY <2>1, <2>2, <3>3 DEF Least
    <3> QED BY <2>3, <3>4 DEF d, x
  <2>4. CASE /\ st.ctl < asked /\ st.rdir = 1
             /\ (st.ctl * RampScale) + st.rem = AccelRate * rampTime
    <3>1. d = st.ctl
      BY <1>1, <2>1, <2>4, WholePart DEF x
    <3> HIDE DEF d
    <3>3. d < asked /\ d \in Nat
      BY <1>1, <2>4, <3>1
    <3>2. Least(asked, d) = d
      BY <2>1, <3>3 DEF Least
    <3> QED BY <3>1, <3>2 DEF d, x
  <2> QED BY <1>3, <2>3, <2>4 DEF RampInv, Exact
<1> QED BY <1>2, <1>3 DEF RampKeepsRate, RampIsExact

LEMMA Controlled ==
    ASSUME ControlConstants PROVE ControlSpec => []ControlInv
<1>1. ControlInit => ControlInv
  BY ControlInvInit
<1>2. ControlInv /\ [ControlNext]_controlVars => ControlInv'
  BY ControlInvStep
<1> QED BY <1>1, <1>2, PTL DEF ControlSpec

(* The registers and the controller's fields keep their ranges, whatever the host   *)
(* writes and whenever the watchdog trips (motor_control.cpp).                       *)
THEOREM ControlTypes ==
    ASSUME ControlConstants PROVE ControlSpec => []ControlTypeOK
<1>1. ControlInv => ControlTypeOK
  BY DEF ControlInv, RampInv, ControlRanges, States, ControlTypeOK
<1> QED BY <1>1, Controlled, PTL

(* The ramp keeps its rate over any number of steps of any length (AdvanceControlTarget). *)
THEOREM RampIsTrue ==
    ASSUME ControlConstants PROVE ControlSpec => []RampKeepsRate
<1>1. ControlInv => RampKeepsRate
  BY RampPromise DEF ControlInv
<1> QED BY <1>1, Controlled, PTL

(* A position loop drives the wheel towards its goal wherever its proportional term *)
(* does not vanish outside the tolerance (UpdatePositionMotor).                      *)
THEOREM DrivesHome ==
    ASSUME ControlConstants, TermReaches PROVE ControlSpec => []DrivesTowardsGoal
<1>1. ControlInv => DrivesTowardsGoal
  BY DEF ControlInv, Aiming
<1> QED BY <1>1, Controlled, PTL

-----------------------------------------------------------------------------
(* DmGimbal.                                                                       *)

Commands == {"clear", "disable", "zero"}
Frames == {"none", "enable", Mit, Probe} \cup Commands
Bursts == {"clearing", "bootDisable", "disabling", "zeroing"}
Kinds == {"hold", "position", "speed"}
Results == {"idle", "running", "success", "timeout", "stopTimeout", "fault"}

Controllers ==
    [mode : DmModes, command : Commands, left : 0 .. Repeats, after : DmModes,
     emergency : BOOLEAN, target : Kinds, sends : 0 .. Repeats, pending : Pendings,
     result : Results, valid : BOOLEAN, state : {"enabled", "disabled", "error"},
     age : Nat, since : Nat, quiet : Nat, settle : Nat, frame : Frames, fault : BOOLEAN,
     handled : BOOLEAN]

(* A motion waits only while the motor is probed, a burst runs only in a mode that  *)
(* has one.                                                                          *)
Waiting(d) ==
    /\ d \in Controllers
    /\ d.pending # "none" => d.mode = "probing"
    /\ d.left # 0 => d.mode \in Bursts

(* What is sent does not power the motor. *)
Mild(d) == d.frame \notin {"enable", Mit}

DmInv ==
    /\ Waiting(dm) /\ dm.frame = "none"
    /\ wire \in Frames /\ reply \in {"none", "enabled", "disabled", "error"}
    /\ motor \in [enabled : BOOLEAN, error : BOOLEAN]
-----------------------------------------------------------------------------
LEMMA Capping ==
    ASSUME NEW a \in Nat, NEW b \in Nat PROVE Capped(a + 1, b) \in Nat
BY DEF Capped

LEMMA TickWaits ==
    ASSUME GimbalConstants, NEW d, Waiting(d)
    PROVE  /\ Waiting(Ticked(d)) /\ Ticked(d).frame = d.frame /\ Ticked(d).fault = d.fault
           /\ \A s \in {"enabled", "disabled", "error"} :
                /\ Waiting(Heard(Ticked(d), s)) /\ Heard(Ticked(d), s).frame = d.frame
                /\ Heard(Ticked(d), s).fault = d.fault
<1> DEFINE a == Capped(d.since + 1, Longest)
           b == Capped(d.quiet + 1, ProbeInterval)
           c == Capped(d.age + 1, FeedbackTimeout + 1)
           e == IF d.settle = 0 THEN 0 ELSE Capped(d.settle + 1, SettleTicks + 1)
<1>1. d \in Controllers /\ d.since \in Nat /\ d.quiet \in Nat /\ d.age \in Nat
      /\ d.settle \in Nat
  BY DEF Waiting, Controllers
<1>2. a \in Nat /\ b \in Nat /\ c \in Nat /\ e \in Nat
  BY <1>1, Capping DEF GimbalConstants
<1>3. Ticked(d) = [d EXCEPT !.since = a, !.quiet = b, !.age = c, !.settle = e]
  BY DEF Ticked
<1> HIDE DEF a, b, c, e
<1>4. /\ Ticked(d) \in Controllers /\ Ticked(d).frame = d.frame
      /\ Ticked(d).fault = d.fault /\ Ticked(d).mode = d.mode
      /\ Ticked(d).left = d.left /\ Ticked(d).pending = d.pending
  BY <1>1, <1>2, <1>3, ZenonT(40) DEF Controllers
<1> DEFINE t == Ticked(d)
<1> HIDE DEF t
<1>5. \A s \in {"enabled", "disabled", "error"} :
          /\ Heard(t, s) \in Controllers /\ Heard(t, s).frame = t.frame
          /\ Heard(t, s).fault = t.fault /\ Heard(t, s).mode = t.mode
          /\ Heard(t, s).left = t.left /\ Heard(t, s).pending = t.pending
  <2>1. t \in Controllers
    BY <1>4 DEF t
  <2> QED BY <2>1 DEF Heard, Controllers
<1> QED BY <1>4, <1>5 DEF Waiting, t

LEMMA SendWaits ==
    ASSUME GimbalConstants, NEW d, Waiting(d), NEW f \in Frames, NEW out
    PROVE  /\ Waiting(Send(d, f, out))
           /\ Mild(d) /\ f \notin {"enable", Mit} => Mild(Send(d, f, out))
           /\ Send(d, f, out).mode = d.mode /\ Send(d, f, out).left = d.left
           /\ Send(d, f, out).pending = d.pending /\ Send(d, f, out).sends = d.sends
BY DEF Waiting, Controllers, Send, Mild

(* A burst begins in a mode that has one, and drops what waits. *)
LEMMA BurstWaits ==
    ASSUME GimbalConstants, NEW d, d \in Controllers, d.pending = "none",
           NEW c \in Commands, NEW m \in Bursts, NEW a \in DmModes, NEW e \in BOOLEAN
    PROVE  /\ Waiting(BeginBurst(d, c, m, a, e))
           /\ BeginBurst(d, c, m, a, e).pending = "none"
           /\ BeginBurst(d, c, m, a, e).frame = d.frame
           /\ BeginBurst(d, c, m, a, e).mode = m
<1> DEFINE b == BeginBurst(d, c, m, a, e)
<1>1. m \in DmModes /\ Repeats \in 0 .. Repeats /\ ProbeInterval \in Nat
  BY DEF DmModes, Bursts, GimbalConstants
<1>2. b = [d EXCEPT !.command = c, !.mode = m, !.after = a, !.left = Repeats,
                    !.quiet = ProbeInterval, !.emergency = e]
  BY DEF BeginBurst
<1> HIDE DEF b
<1>3. /\ b \in Controllers /\ b.pending = "none" /\ b.frame = d.frame /\ b.mode = m
      /\ b.left = Repeats
  BY <1>1, <1>2 DEF Controllers
<1> QED BY <1>3 DEF Waiting, b

LEMMA FaultWaits ==
    ASSUME GimbalConstants, NEW d, Waiting(d)
    PROVE  /\ Waiting(SetGlobalFault(d)) /\ SetGlobalFault(d).frame = d.frame
<1> DEFINE n == [d EXCEPT !.pending = "none"]
           yes == TRUE
           b == BeginBurst(n, "disable", "disabling", "locked", yes)
           s == SetGlobalFault(d)
<1>1. n \in Controllers /\ n.pending = "none" /\ n.frame = d.frame
  BY DEF Waiting, Controllers, Pendings
<1>2. "disabling" \in Bursts /\ "locked" \in DmModes /\ "disable" \in Commands
      /\ yes \in BOOLEAN
  BY DEF Bursts, DmModes, Commands
<1> HIDE DEF n, yes
<1>3. Waiting(b) /\ b.pending = "none" /\ b.frame = d.frame /\ b.mode = "disabling"
  BY <1>1, <1>2, BurstWaits
<1>4. s = [b EXCEPT !.result = "fault", !.fault = TRUE]
  BY DEF SetGlobalFault, BeginBurst, Waiting, Controllers, n, yes
<1> HIDE DEF b, s
<1>5. s \in Controllers /\ s.pending = "none" /\ s.frame = d.frame /\ s.mode = "disabling"
  BY <1>3, <1>4 DEF Waiting, Controllers, Results
<1> QED BY <1>5 DEF Waiting, Bursts, s

LEMMA EmergencyWaits ==
    ASSUME GimbalConstants, NEW d, Waiting(d)
    PROVE  /\ Waiting(EmergencyDisable(d)) /\ EmergencyDisable(d).frame = d.frame
           /\ d.mode \in Motions => EmergencyDisable(d).mode \notin Motions
<1>1. CASE (d.mode = "disabling" /\ d.emergency) \/ d.mode = "locked"
  BY <1>1 DEF EmergencyDisable, Motions
<1>2. CASE ~((d.mode = "disabling" /\ d.emergency) \/ d.mode = "locked")
  <2> DEFINE n == [d EXCEPT !.pending = "none"]
             after == IF d.fault THEN "locked" ELSE "ready"
             yes == TRUE
             b == BeginBurst(n, "disable", "disabling", after, yes)
             s == EmergencyDisable(d)
  <2>1. n \in Controllers /\ n.pending = "none" /\ n.frame = d.frame
    BY DEF Waiting, Controllers, Pendings
  <2>2. "disabling" \in Bursts /\ after \in DmModes /\ "disable" \in Commands
      /\ yes \in BOOLEAN
    BY DEF Bursts, DmModes, Commands, Motions
  <2> HIDE DEF after, n, yes
  <2>3. Waiting(b) /\ b.frame = d.frame /\ b.mode = "disabling"
    BY <2>1, <2>2, BurstWaits
  <2>4. s = b
    BY <1>2 DEF EmergencyDisable, BeginBurst, Waiting, Controllers, after, n, yes
  <2> QED BY <2>3, <2>4 DEF Motions
<1> QED BY <1>1, <1>2

LEMMA BurstServed ==
    ASSUME GimbalConstants, NEW d, Waiting(d), Mild(d), d.left # 0, NEW out
    PROVE  Waiting(ServiceBurst(d, out)) /\ Mild(ServiceBurst(d, out))
<1>1. /\ d \in Controllers /\ d.left \in 0 .. Repeats /\ d.command \in Commands
      /\ d.after \in DmModes /\ d.result \in Results /\ d.mode \in Bursts
      /\ d.pending = "none"
  BY DEF Waiting, Controllers, Bursts
<1>2. d.command \in Frames /\ d.command \notin {"enable", Mit}
  BY <1>1 DEF Frames, Commands, Mit
<1> DEFINE s == Send(d, d.command, out)
<1>3. Waiting(s) /\ Mild(s) /\ s.mode = d.mode /\ s.left = d.left /\ s.pending = d.pending
  BY <1>2, SendWaits
<1>4. s \in Controllers
  BY <1>3 DEF Waiting
<1> DEFINE result == IF d.command = "disable" /\ ~d.emergency /\ s.result = "running"
                     THEN "success" ELSE s.result
           left == s.left - 1
           one == [s EXCEPT !.left = left]
           last == [s EXCEPT !.left = 0, !.mode = d.after, !.emergency = FALSE,
                             !.result = result]
<1>5. \/ ServiceBurst(d, out) = d
      \/ d.left > 1 /\ ServiceBurst(d, out) = one
      \/ ServiceBurst(d, out) = last
      \/ ServiceBurst(d, out) = SetGlobalFault(d)
  BY <1>4 DEF ServiceBurst, Controllers
<1>6. result \in Results
  BY <1>4 DEF Controllers, Results
<1> HIDE DEF s, result
<1>7. ASSUME d.left > 1 PROVE Waiting(one) /\ Mild(one)
  <2>1. left \in 0 .. Repeats
    BY <1>1, <1>3, <1>7 DEF GimbalConstants
  <2> HIDE DEF left
  <2>2. one \in Controllers /\ one.mode = s.mode /\ one.pending = s.pending
        /\ one.frame = s.frame
    BY <1>4, <2>1 DEF Controllers
  <2> QED BY <1>1, <1>3, <2>2 DEF Waiting, Mild
<1>8. Waiting(last) /\ Mild(last)
  <2>1. 0 \in 0 .. Repeats
    BY DEF GimbalConstants
  <2>2. last \in Controllers /\ last.left = 0 /\ last.pending = s.pending
        /\ last.frame = s.frame
    BY <1>1, <1>4, <1>6, <2>1 DEF Controllers
  <2> QED BY <1>1, <1>3, <2>2 DEF Waiting, Mild
<1>9. Waiting(SetGlobalFault(d)) /\ Mild(SetGlobalFault(d))
  BY FaultWaits DEF Mild
<1> HIDE DEF one, last
<1> QED BY <1>5, <1>7, <1>8, <1>9

(* A motion that was waited for starts, or is dropped. *)
LEMMA ResumeWaits ==
    ASSUME GimbalConstants, NEW d, d \in Controllers, d.left = 0, NEW inRange \in BOOLEAN
    PROVE  LET r == ResumePendingMotion(d, inRange) IN
           Waiting(r) /\ r.frame = d.frame
<1> DEFINE n == [d EXCEPT !.pending = "none"]
           r == ResumePendingMotion(d, inRange)
           s == [n EXCEPT !.since = 0, !.result = "running"]
<1>1. n \in Controllers /\ n.left = 0 /\ n.pending = "none" /\ n.frame = d.frame
  BY DEF Controllers, Pendings
<1> HIDE DEF n
<1>2. s \in Controllers /\ s.left = 0 /\ s.pending = "none" /\ s.frame = d.frame
  BY <1>1 DEF Controllers, Results
<1> HIDE DEF s
<1>3. ASSUME d.pending = "none" PROVE Waiting(r) /\ r.frame = d.frame
  <2> DEFINE result == IF n.result = "running" THEN "success" ELSE n.result
  <2>1. result \in Results /\ "ready" \in DmModes
    BY <1>1 DEF Controllers, Results, DmModes
  <2>2. r = [n EXCEPT !.mode = "ready", !.result = result]
    BY <1>1, <1>3 DEF ResumePendingMotion, n, Controllers
  <2> HIDE DEF r, result
  <2>3. r \in Controllers /\ r.left = 0 /\ r.pending = "none" /\ r.frame = d.frame
    BY <1>1, <2>1, <2>2 DEF Controllers
  <2> QED BY <2>3 DEF Waiting, r
<1>4. ASSUME d.pending # "none", d.pending = "position" /\ ~inRange
      PROVE  Waiting(r) /\ r.frame = d.frame
  <2>1. "timeout" \in Results /\ "ready" \in DmModes
    BY DEF Results, DmModes
  <2>2. r = [n EXCEPT !.mode = "ready", !.result = "timeout"]
    BY <1>4 DEF ResumePendingMotion, n
  <2> HIDE DEF r
  <2>3. r \in Controllers /\ r.left = 0 /\ r.pending = "none" /\ r.frame = d.frame
    BY <1>1, <2>1, <2>2 DEF Controllers
  <2> QED BY <2>3 DEF Waiting, r
<1>5. ASSUME d.pending # "none", ~(d.pending = "position" /\ ~inRange)
      PROVE  Waiting(r) /\ r.frame = d.frame
  <2>1. r = StartWithFeedback(n, d.pending)
    BY <1>5 DEF ResumePendingMotion, n
  <2>2. d.pending \in Kinds /\ d.pending \in DmModes /\ "enabling" \in DmModes
    BY <1>5 DEF Controllers, Pendings, Kinds, DmModes, Motions
  <2> DEFINE result == IF d.pending = "hold" THEN "success" ELSE s.result
  <2>3. result \in Results /\ 0 \in 0 .. Repeats /\ ProbeInterval \in Nat /\ 0 \in Nat
    BY <1>2 DEF Controllers, Results, GimbalConstants
  <2>4. \/ r = [s EXCEPT !.result = result, !.mode = d.pending, !.settle = 0]
        \/ r = [s EXCEPT !.mode = "enabling", !.target = d.pending, !.sends = 0,
                         !.quiet = ProbeInterval]
    BY <1>2, <2>1 DEF StartWithFeedback, EnterEnabledMode, s, Controllers
  <2> HIDE DEF r, result
  <2>5. r \in Controllers /\ r.left = 0 /\ r.pending = "none" /\ r.frame = d.frame
    BY <1>2, <2>2, <2>3, <2>4, ZenonT(40) DEF Controllers
  <2> QED BY <2>5 DEF Waiting, r
<1> HIDE DEF r
<1>6. Waiting(r) /\ r.frame = d.frame
  BY <1>3, <1>4, <1>5, Zenon
<1> QED BY <1>6 DEF r

LEMMA ProbingWaits ==
    ASSUME GimbalConstants, NEW d, Waiting(d), Mild(d), d.mode = "probing", NEW out,
           NEW inRange \in BOOLEAN
    PROVE  Waiting(UpdateProbing(d, out, inRange)) /\ Mild(UpdateProbing(d, out, inRange))
<1> DEFINE u == UpdateProbing(d, out, inRange)
           r == ResumePendingMotion(d, inRange)
           result == IF d.result = "running" THEN "timeout" ELSE d.result
           off == [d EXCEPT !.mode = "offline", !.result = result]
<1>1. d \in Controllers /\ d.left = 0 /\ result \in Results
  BY DEF Waiting, Bursts, Controllers, Results
<1>2. Waiting(SetGlobalFault(d)) /\ Mild(SetGlobalFault(d))
  BY FaultWaits DEF Mild
<1>3. Waiting(r) /\ Mild(r)
  <2>1. Waiting(r) /\ r.frame = d.frame
    BY <1>1, ResumeWaits
  <2> QED BY <2>1 DEF Mild
<1>4. ASSUME d.pending = "none" PROVE Waiting(off) /\ Mild(off)
  <2> HIDE DEF result
  <2>1. off \in Controllers /\ off.left = 0 /\ off.pending = "none" /\ off.frame = d.frame
    BY <1>1, <1>4 DEF Controllers, DmModes
  <2> HIDE DEF off
  <2> QED BY <2>1 DEF Waiting, Mild
<1>5. Waiting(Send(d, Probe, out)) /\ Mild(Send(d, Probe, out))
  BY SendWaits DEF Frames, Probe, Mit
<1>6. \/ u = SetGlobalFault(d) \/ u = r \/ (d.pending = "none" /\ u = off)
      \/ u = Send(d, Probe, out) \/ u = d
  BY <1>1 DEF UpdateProbing, Controllers
<1> HIDE DEF u, r, off
<1>7. Waiting(u) /\ Mild(u)
  BY <1>2, <1>3, <1>4, <1>5, <1>6
<1> QED BY <1>7 DEF u

LEMMA IdleWaits ==
    ASSUME GimbalConstants, NEW d, Waiting(d), Mild(d), d.mode \in {"offline", "ready"}, NEW out
    PROVE  Waiting(UpdateIdleFeedback(d, out)) /\ Mild(UpdateIdleFeedback(d, out))
<1> DEFINE r == IF Fresh(d) THEN [d EXCEPT !.mode = "ready"] ELSE d
           u == UpdateIdleFeedback(d, out)
<1>1. r \in Controllers /\ r.left = 0 /\ r.pending = "none" /\ r.frame = d.frame
  BY DEF Waiting, Controllers, DmModes, Bursts
<1> HIDE DEF r
<1>2. Waiting(r) /\ Mild(r)
  BY <1>1 DEF Waiting, Mild
<1>3. Waiting(Send(r, Probe, out)) /\ Mild(Send(r, Probe, out))
  BY <1>2, SendWaits DEF Frames, Probe, Mit
<1>4. u = Send(r, Probe, out) \/ u = r
  BY DEF UpdateIdleFeedback, r
<1> HIDE DEF u
<1>5. Waiting(u) /\ Mild(u)
  BY <1>2, <1>3, <1>4
<1> QED BY <1>5 DEF u

LEMMA EnablingWaits ==
    ASSUME GimbalConstants, NEW d, Waiting(d), d.mode = "enabling", NEW out
    PROVE  Waiting(UpdateEnabling(d, out))
<1> DEFINE u == UpdateEnabling(d, out)
           on == [d EXCEPT !.mode = d.target, !.settle = 0]
           sent == Send(d, "enable", out)
           sends == IF out = "ok" THEN sent.sends + 1 ELSE sent.sends
           more == [sent EXCEPT !.sends = sends]
<1>1. /\ d \in Controllers /\ d.left = 0 /\ d.pending = "none" /\ d.sends \in 0 .. Repeats
      /\ d.target \in DmModes
  BY DEF Waiting, Controllers, Bursts, Kinds, DmModes, Motions
<1>2. Waiting(SetGlobalFault(d))
  BY FaultWaits
<1>3. Waiting(on)
  BY <1>1 DEF Waiting, Controllers
<1>8. "enable" \in Frames /\ Mit \in Frames
  BY DEF Frames
<1>9. Waiting(Send(d, Mit, out))
  BY <1>8, SendWaits
<1>4. Waiting(sent) /\ sent.left = 0 /\ sent.pending = "none" /\ sent.sends = d.sends
  BY <1>1, <1>8, SendWaits
<1>5. ASSUME d.sends < Repeats PROVE Waiting(more)
  <2> HIDE DEF sent
  <2>1. sends \in 0 .. Repeats
    BY <1>1, <1>4, <1>5 DEF GimbalConstants
  <2> HIDE DEF sends
  <2> QED BY <1>4, <2>1 DEF Waiting, Controllers
<1>6. \/ u = SetGlobalFault(d) \/ u = on \/ (d.sends < Repeats /\ u = more)
      \/ u = Send(d, Mit, out)
  <2>1. sent \in Controllers
    BY <1>4 DEF Waiting
  <2>2. more = [sent EXCEPT !.sends = IF out = "ok" THEN @ + 1 ELSE @]
    BY <2>1 DEF Controllers
  <2> QED BY <2>2 DEF UpdateEnabling, EnterEnabledMode
<1> HIDE DEF u, on, more, sent
<1>7. Waiting(u)
  BY <1>2, <1>3, <1>4, <1>5, <1>6, <1>9
<1> QED BY <1>7 DEF u

LEMMA DrivingWaits ==
    ASSUME GimbalConstants, NEW d, Waiting(d),
           d.mode \in {"hold", "position", "speed", "stopping"},
           NEW out \in {"ok", "busy", "error"}, NEW settled
    PROVE  Waiting(UpdateDriving(d, out, settled))
<1> DEFINE u == UpdateDriving(d, out, settled)
           s == Send(d, Mit, out)
           v == Driven(s, settled)
<1>1. d.left = 0 /\ d.pending = "none"
  BY DEF Waiting, Bursts
<1>9. Mit \in Frames
  BY DEF Frames
<1>2. Waiting(s) /\ s.left = 0 /\ s.pending = "none"
  BY <1>1, <1>9, SendWaits
<1> HIDE DEF s
<1>3. ASSUME NEW r \in Results PROVE Waiting(Held(s, r))
  <2> DEFINE held == Held(s, r)
  <2>1. s \in Controllers /\ "hold" \in DmModes /\ 0 \in Nat
    BY <1>2 DEF Waiting, DmModes, Motions
  <2>2. held = [s EXCEPT !.mode = "hold", !.result = r, !.settle = 0]
    BY DEF Held
  <2> HIDE DEF held
  <2>3. held \in Controllers /\ held.left = 0 /\ held.pending = "none"
    BY <1>2, <2>1, <2>2 DEF Controllers
  <2> QED BY <2>3 DEF Waiting, held
<1>4. \A n \in Nat : Waiting([s EXCEPT !.settle = n])
  BY <1>2 DEF Waiting, Controllers
<1>5. Waiting(v)
  <2> DEFINE n == IF s.settle = 0 THEN 1 ELSE s.settle
  <2>1. n \in Nat /\ s \in Controllers
    BY <1>2 DEF Waiting, Controllers
  <2>2. \/ v = s \/ v = Held(s, "timeout") \/ v = Held(s, "success")
        \/ v = [s EXCEPT !.settle = n] \/ v = Held(s, "stopTimeout")
        \/ v = [s EXCEPT !.settle = 0]
    BY <2>1 DEF Driven, Controllers
  <2>3. {"timeout", "success", "stopTimeout"} \subseteq Results /\ 0 \in Nat
    BY DEF Results
  <2> HIDE DEF n, v
  <2> QED BY <1>2, <1>3, <1>4, <2>1, <2>2, <2>3
<1>6. Waiting(SetGlobalFault(d))
  BY FaultWaits
<1>7. u = v \/ u = d \/ u = SetGlobalFault(d)
  BY DEF UpdateDriving, s, v
<1> HIDE DEF u, v
<1>8. Waiting(u)
  BY <1>5, <1>6, <1>7
<1> QED BY <1>8 DEF u

Answers == {"ok", "busy", "error"}

LEMMA ModeWaits ==
    ASSUME GimbalConstants, NEW d, Waiting(d), Mild(d), d.left = 0, NEW out \in Answers,
           NEW settled \in BOOLEAN
    PROVE  LET u == UpdateMode(d, out, settled) IN
           Waiting(u) /\ (d.mode \notin Motions => Mild(u))
<1> DEFINE u == UpdateMode(d, out, settled)
           no == FALSE
<1>1. /\ d \in Controllers /\ no \in BOOLEAN /\ {"clear", "disable", "zero"} \subseteq Commands
      /\ {"clearing", "bootDisable", "zeroing"} \subseteq Bursts
      /\ {"bootDisable", "probing"} \subseteq DmModes
  BY DEF Waiting, Commands, Bursts, DmModes
<1>2. CASE d.mode = "boot"
  <2> DEFINE b == BeginBurst(d, "clear", "clearing", "bootDisable", no)
  <2>1. d.pending = "none"
    BY <1>2 DEF Waiting
  <2> HIDE DEF no
  <2>2. Waiting(b) /\ b.frame = d.frame
    BY <1>1, <2>1, BurstWaits
  <2>3. u = b \/ u = d
    BY <1>2 DEF UpdateMode, no
  <2> HIDE DEF u, b
  <2> QED BY <2>2, <2>3 DEF Mild, u
<1>3. CASE d.mode = "bootDisable"
  <2> DEFINE b == BeginBurst(d, "disable", "bootDisable", "probing", no)
  <2>1. d.pending = "none"
    BY <1>3 DEF Waiting
  <2> HIDE DEF no
  <2>2. Waiting(b) /\ b.frame = d.frame
    BY <1>1, <2>1, BurstWaits
  <2>3. u = [b EXCEPT !.since = 0]
    BY <1>3 DEF UpdateMode, no
  <2> HIDE DEF b, u
  <2>4. Waiting(u) /\ u.frame = d.frame
    BY <2>2, <2>3 DEF Waiting, Controllers
  <2> QED BY <2>4 DEF Mild, u
<1>4. CASE d.mode = "zeroing"
  <2> DEFINE b == BeginBurst(d, "zero", "zeroing", "probing", no)
  <2>1. d.pending = "none"
    BY <1>4 DEF Waiting
  <2> HIDE DEF no
  <2>2. Waiting(b) /\ b.frame = d.frame
    BY <1>1, <2>1, BurstWaits
  <2>3. u = [b EXCEPT !.valid = FALSE, !.since = 0]
    BY <1>4 DEF UpdateMode, no
  <2> HIDE DEF b, u
  <2>4. Waiting(u) /\ u.frame = d.frame
    BY <2>2, <2>3 DEF Waiting, Controllers
  <2> QED BY <2>4 DEF Mild, u
<1>5. CASE d.mode = "probing"
  <2>1. u = UpdateProbing(d, out, settled)
    BY <1>5 DEF UpdateMode
  <2> QED BY <1>5, <2>1, ProbingWaits
<1>6. CASE d.mode \in {"offline", "ready"}
  <2>1. u = UpdateIdleFeedback(d, out)
    BY <1>6 DEF UpdateMode
  <2> QED BY <1>6, <2>1, IdleWaits
<1>7. CASE d.mode = "enabling"
  <2>1. u = UpdateEnabling(d, out)
    BY <1>7 DEF UpdateMode
  <2> QED BY <1>7, <2>1, EnablingWaits DEF Motions
<1>8. CASE d.mode \in {"hold", "position", "speed", "stopping"}
  <2>1. u = UpdateDriving(d, out, settled)
    BY <1>8 DEF UpdateMode
  <2> QED BY <1>8, <2>1, DrivingWaits DEF Motions, Answers
<1>9. CASE d.mode \notin {"boot", "bootDisable", "zeroing", "probing", "offline", "ready",
                          "enabling", "hold", "position", "speed", "stopping"}
  <2>1. u = d
    BY <1>9 DEF UpdateMode
  <2> QED BY <2>1
<1> QED BY <1>2, <1>3, <1>4, <1>5, <1>6, <1>7, <1>8, <1>9

LEMMA UpdateWaits ==
    ASSUME GimbalConstants, NEW d, Waiting(d), d.frame = "none", NEW out \in Answers,
           NEW settled \in BOOLEAN
    PROVE  LET u == Update(d, out, settled) IN
           Waiting(u) /\ (d.fault => Mild(u))
<1> DEFINE e == IF d.fault /\ d.mode \in Motions THEN EmergencyDisable(d) ELSE d
           u == Update(d, out, settled)
<1>1. Waiting(e) /\ e.frame = "none" /\ (d.fault => e.mode \notin Motions)
  BY EmergencyWaits DEF Waiting, Controllers
<1>2. u = IF Unsafe(e) THEN SetGlobalFault(e)
          ELSE IF e.left # 0 THEN ServiceBurst(e, out)
          ELSE UpdateMode(e, out, settled)
  BY DEF Update
<1> HIDE DEF e, u
<1>3. Mild(e)
  BY <1>1 DEF Mild, Mit
<1>4. Waiting(SetGlobalFault(e)) /\ Mild(SetGlobalFault(e))
  BY <1>1, FaultWaits DEF Mild, Mit
<1>5. e.left # 0 => Waiting(ServiceBurst(e, out)) /\ Mild(ServiceBurst(e, out))
  BY <1>1, <1>3, BurstServed
<1>6. e.left = 0 => /\ Waiting(UpdateMode(e, out, settled))
                    /\ e.mode \notin Motions => Mild(UpdateMode(e, out, settled))
  BY <1>1, <1>3, ModeWaits
<1>7. Waiting(u) /\ (d.fault => Mild(u))
  BY <1>1, <1>2, <1>4, <1>5, <1>6
<1> QED BY <1>7 DEF u
-----------------------------------------------------------------------------
LEMMA DmInvInit ==
    ASSUME GimbalConstants, DmInit PROVE DmInv
<1>1. /\ dm \in Controllers /\ dm.pending = "none" /\ dm.left = 0 /\ dm.frame = "none"
  BY DEF DmInit, GimbalConstants, Controllers, DmModes, Commands, Kinds, Pendings, Results,
         Frames, Motions
<1> QED BY <1>1 DEF DmInit, DmInv, Waiting, Frames

LEMMA CanTaskKeeps ==
    ASSUME GimbalConstants, DmInv, CanTask PROVE DmInv' /\ NoPowerUnderFaultStep
<1> DEFINE heard == IF reply = "none" THEN Ticked(dm) ELSE Heard(Ticked(dm), reply)
<1>1. PICK out \in Answers, settled \in BOOLEAN :
        LET d == Update(heard, out, settled) IN
        /\ dm' = [d EXCEPT !.frame = "none"]
        /\ wire' = IF d.frame = "none" THEN wire ELSE d.frame
        /\ reply' = "none" /\ UNCHANGED motor
  <2>1. Outcomes \subseteq Answers
    BY DEF Outcomes, Answers
  <2> QED BY <2>1 DEF CanTask
<1>2. Waiting(heard) /\ heard.frame = "none" /\ heard.fault = dm.fault
  BY TickWaits DEF DmInv
<1> HIDE DEF heard
<1> DEFINE d == Update(heard, out, settled)
<1>3. Waiting(d) /\ (dm.fault => Mild(d))
  <2>1. Waiting(d) /\ (heard.fault => Mild(d))
    BY <1>2, UpdateWaits
  <2> QED BY <1>2, <2>1
<1>4. /\ dm' = [d EXCEPT !.frame = "none"]
      /\ wire' = IF d.frame = "none" THEN wire ELSE d.frame
      /\ reply' = "none" /\ UNCHANGED motor
  BY <1>1
<1> HIDE DEF d
<1>5. Waiting(dm') /\ dm'.frame = "none"
  BY <1>3, <1>4 DEF Waiting, Controllers, Frames
<1>6. d.frame \in Frames
  BY <1>3 DEF Waiting, Controllers
<1>7. DmInv'
  BY <1>4, <1>5, <1>6 DEF DmInv
<1>8. NoPowerUnderFaultStep
  BY <1>3, <1>4 DEF NoPowerUnderFaultStep, Mild
<1> QED BY <1>7, <1>8

LEMMA BusKeeps ==
    ASSUME GimbalConstants, DmInv, Bus \/ Glitch \/ CanRecover
    PROVE  DmInv' /\ NoPowerUnderFaultStep
<1>1. dm' = dm
  BY DEF Bus, Glitch, CanRecover
<1>2. /\ Obeys(motor, wire) \in [enabled : BOOLEAN, error : BOOLEAN]
  BY DEF DmInv, Obeys
<1>3. motor' \in [enabled : BOOLEAN, error : BOOLEAN]
  BY <1>2 DEF DmInv, Bus, Glitch, CanRecover
<1>4. \A m : StateOf(m) \in {"enabled", "disabled", "error"}
  BY DEF StateOf
<1>5. wire' \in {wire, "none"} /\ reply' \in {"none", "enabled", "disabled", "error"}
  BY <1>4 DEF DmInv, Bus, Glitch, CanRecover
<1>6. wire' \in Frames
  BY <1>5 DEF DmInv, Frames
<1> QED BY <1>1, <1>3, <1>5, <1>6 DEF DmInv, NoPowerUnderFaultStep, Mit

(* The orders of the shell and of programs. *)
LEMMA MotionWaits ==
    ASSUME GimbalConstants, DmInv, NEW kind \in Kinds, NEW inRange \in BOOLEAN,
           StartMotion(kind, inRange)
    PROVE  Waiting(dm') /\ dm'.frame = "none"
<1>1. /\ dm \in Controllers /\ dm.left = 0 /\ dm.frame = "none" /\ kind \in Pendings
      /\ Waiting(dm)
  BY DEF DmInv, Waiting, StartMotion, Bursts, Pendings, Kinds
<1> DEFINE asking == [dm EXCEPT !.pending = kind]
           probing == [StartProbe(dm) EXCEPT !.pending = kind]
<1>2. asking \in Controllers /\ asking.left = 0 /\ asking.frame = "none"
  BY <1>1 DEF Controllers
<1>3. /\ probing \in Controllers /\ probing.left = 0 /\ probing.frame = "none"
      /\ probing.mode = "probing"
  BY <1>1, ZenonT(40) DEF Controllers, StartProbe, DmModes, Results, GimbalConstants
<1> HIDE DEF asking, probing
<1>4. /\ Waiting(ResumePendingMotion(asking, inRange))
      /\ ResumePendingMotion(asking, inRange).frame = "none"
  BY <1>2, ResumeWaits
<1>5. Waiting(SetGlobalFault(dm)) /\ SetGlobalFault(dm).frame = "none"
  BY <1>1, FaultWaits
<1>6. Waiting(probing)
  BY <1>3 DEF Waiting
<1>7. dm' = ResumePendingMotion(asking, inRange) \/ dm' = SetGlobalFault(dm) \/ dm' = probing
  BY DEF StartMotion, asking, probing
<1> QED BY <1>3, <1>4, <1>5, <1>6, <1>7

LEMMA OrderKeeps ==
    ASSUME GimbalConstants, DmInv, Order \/ AppFault
    PROVE  DmInv' /\ NoPowerUnderFaultStep
<1>1. UNCHANGED << motor, wire, reply >>
  BY DEF Order, AppFault
<1>2. Waiting(dm) /\ dm \in Controllers /\ dm.frame = "none"
  BY DEF DmInv, Waiting
<1>3. SUFFICES Waiting(dm') /\ dm'.frame = "none"
  BY <1>1, <1>3 DEF DmInv, NoPowerUnderFaultStep
<1>4. CASE \E kind \in Pendings \ {"none"}, inRange \in BOOLEAN : StartMotion(kind, inRange)
  <2>1. Pendings \ {"none"} = Kinds
    BY DEF Pendings, Kinds
  <2> QED BY <1>4, <2>1, MotionWaits
<1>5. CASE ProbeOrder
  BY <1>2, <1>5 DEF ProbeOrder, StartProbe, Waiting, Controllers, DmModes, Results, Pendings,
                    Bursts, GimbalConstants
<1>6. CASE StopSpeedAndHold
  BY <1>2, <1>6 DEF StopSpeedAndHold, Waiting, Controllers, DmModes, Motions, Results, Bursts
<1>7. CASE Disable \/ ClearError
  <2> DEFINE n == [dm EXCEPT !.pending = "none"]
             no == FALSE
             after == IF Fresh(dm) THEN "ready" ELSE "offline"
             a == BeginBurst(n, "disable", "disabling", after, no)
             b == BeginBurst(n, "clear", "clearing", "bootDisable", no)
  <2>1. n \in Controllers /\ n.pending = "none" /\ n.frame = "none"
    BY <1>2 DEF Controllers, Pendings
  <2>2. /\ no \in BOOLEAN /\ after \in DmModes /\ {"clear", "disable"} \subseteq Commands
        /\ {"clearing", "disabling"} \subseteq Bursts /\ "bootDisable" \in DmModes
    BY DEF Commands, Bursts, DmModes
  <2>3. /\ dm' = [a EXCEPT !.result = "running"] \/ dm' = [b EXCEPT !.result = "running"]
    BY <1>2, <1>7 DEF Disable, ClearError, BeginBurst, Controllers
  <2> HIDE DEF n, no, after
  <2>4. Waiting(a) /\ a.frame = "none" /\ Waiting(b) /\ b.frame = "none"
    BY <2>1, <2>2, BurstWaits
  <2> HIDE DEF a, b
  <2> QED BY <2>3, <2>4 DEF Waiting, Controllers, Results
<1>8. CASE SetZero
  BY <1>2, <1>8 DEF SetZero, Waiting, Controllers, DmModes, Results, Bursts
<1>9. CASE Stopped
  <2>1. Waiting(EmergencyDisable(dm)) /\ EmergencyDisable(dm).frame = "none"
    BY <1>2, EmergencyWaits
  <2>2. Waiting([dm EXCEPT !.fault = TRUE]) /\ [dm EXCEPT !.fault = TRUE].frame = "none"
    BY <1>2 DEF Waiting, Controllers
  <2> QED BY <1>9, <2>1, <2>2 DEF Stopped
<1>10. CASE AppFault
  <2> DEFINE e == EmergencyDisable(dm)
  <2>1. Waiting(e) /\ e.frame = "none"
    BY <1>2, EmergencyWaits
  <2> HIDE DEF e
  <2>2. dm' = [e EXCEPT !.handled = TRUE]
    BY <1>10 DEF AppFault, e
  <2> QED BY <2>1, <2>2 DEF Waiting, Controllers
<1> QED BY <1>4, <1>5, <1>6, <1>7, <1>8, <1>9, <1>10 DEF Order

LEMMA DmInvStep ==
    ASSUME GimbalConstants, DmInv, [DmNext]_dmVars
    PROVE  DmInv' /\ (UNCHANGED dmVars \/ NoPowerUnderFaultStep)
<1>1. CASE UNCHANGED dmVars
  BY <1>1 DEF dmVars, DmInv
<1>2. CASE DmNext
  BY <1>2, CanTaskKeeps, BusKeeps, OrderKeeps DEF DmNext
<1> QED BY <1>1, <1>2

LEMMA GimbalInvariant ==
    ASSUME GimbalConstants PROVE DmSpec => []DmInv
<1>1. DmInit => DmInv
  BY DmInvInit
<1>2. DmInv /\ [DmNext]_dmVars => DmInv'
  BY DmInvStep
<1> QED BY <1>1, <1>2, PTL DEF DmSpec

(* The controller's fields keep their ranges, through every burst and every order *)
(* (dm_g6220_controller.cpp).                                                       *)
THEOREM GimbalTypes ==
    ASSUME GimbalConstants PROVE DmSpec => []DmTypeOK
<1>1. DmInv => DmTypeOK
  BY DEF DmInv, Waiting, Controllers, DmTypeOK, Results, Frames, Commands
<1> QED BY <1>1, GimbalInvariant, PTL

(* Under a fault nothing that powers the motor is put on the bus, and no order      *)
(* outlives the probe it waits for (ServiceBurst, EmergencyDisable).                 *)
THEOREM GimbalIsOff ==
    ASSUME GimbalConstants PROVE DmSpec => GimbalStaysOff
<1>1. DmInv => (dm.pending # "none" => dm.mode = "probing")
  BY DEF DmInv, Waiting
<1>2. DmInv /\ [DmNext]_dmVars => [NoPowerUnderFaultStep]_dmVars
  BY DmInvStep
<1> QED BY <1>1, <1>2, GimbalInvariant, PTL DEF DmSpec, GimbalStaysOff

-----------------------------------------------------------------------------
(* PowerGuard.                                                                     *)

GuardSettings == [trip : 1 .. Most, release : 1 .. Most, comm : 1 .. Most, latch : BOOLEAN,
             inhibit : BOOLEAN]

Guards == [config : GuardSettings, active : SUBSET Faults, latched : SUBSET Faults,
           inhibit : BOOLEAN, trips : [Faults -> Nat], releases : [Faults -> Nat]]

(* A fault counts towards its trip while it is not active, towards its release while *)
(* it is.                                                                             *)
Sane(g) ==
    /\ g \in Guards
    /\ \A f \in Faults : /\ g.trips[f] > 0 => f \notin g.active
                         /\ g.releases[f] > 0 => f \in g.active

(* What a reading of one fault does to that fault... *)
Judged(g, u, f, level) ==
    /\ f \in g.active \ u.active => level = "good" /\ g.releases[f] + 1 >= g.config.release
    /\ f \notin u.active /\ level = "bad" =>
           /\ f \notin g.active /\ u.trips[f] = g.trips[f] + 1
           /\ u.trips[f] < TripLimit(g, f)
    /\ u.releases[f] <= (IF level = "good" THEN g.releases[f] + 1 ELSE 0)
    /\ u.releases[f] > 0 => u.releases[f] < g.config.release

(* ... and to another. *)
Spared(g, u, f) ==
    /\ f \in g.active <=> f \in u.active
    /\ u.trips[f] = g.trips[f] /\ u.releases[f] = g.releases[f]

(* The observers see no more than the guard has counted. *)
Observed ==
    \A f \in Measured :
        /\ f \notin guard.active => hot[f] <= guard.trips[f] /\ hot[f] < guard.config.trip
        /\ guard.releases[f] <= calm[f]

PowerInv ==
    /\ stored \in Configs /\ guard.config \in Configs /\ Sane(guard)
    /\ guard.inhibit = Requested(guard)
    /\ lease \in BOOLEAN /\ handled \in BOOLEAN
    /\ chip \in {"calibrated", "reset"} /\ supply \in [Measured -> Levels]
    /\ hot \in [Measured -> Nat] /\ calm \in [Measured -> Nat]
    /\ Observed
-----------------------------------------------------------------------------
LEMMA FaultJudged ==
    ASSUME PowerConstants, NEW g, Sane(g), NEW f \in Faults, NEW level \in Levels
    PROVE  LET u == UpdateFault(g, f, level) IN
           /\ Sane(u) /\ u.config = g.config /\ u.inhibit = g.inhibit
           /\ Judged(g, u, f, level)
           /\ \A h \in Faults \ {f} : Spared(g, u, h)
<1> DEFINE u == UpdateFault(g, f, level)
<1>1. g \in Guards /\ g.trips \in [Faults -> Nat] /\ g.releases \in [Faults -> Nat]
      /\ g.config \in GuardSettings /\ g.config.release \in Nat /\ g.active \subseteq Faults
      /\ g.latched \subseteq Faults
  BY DEF Sane, Guards, GuardSettings
<1>2. g.trips[f] \in Nat /\ g.releases[f] \in Nat
  BY <1>1
<1> DEFINE rested == [g.releases EXCEPT ![f] = 0]
           cold == [g.trips EXCEPT ![f] = 0]
<1>3. /\ rested \in [Faults -> Nat] /\ cold \in [Faults -> Nat]
      /\ rested[f] = 0 /\ cold[f] = 0
      /\ \A h \in Faults \ {f} : rested[h] = g.releases[h] /\ cold[h] = g.trips[h]
  BY <1>1
<1>4. CASE f \notin g.active /\ level = "bad"
  <2> DEFINE n == g.trips[f] + 1
             counted == [g.trips EXCEPT ![f] = n]
             more == g.active \cup {f}
             latched == IF g.config.latch THEN g.latched \cup {f} ELSE g.latched
  <2>1. /\ n \in Nat /\ n > 0 /\ counted \in [Faults -> Nat] /\ counted[f] = n
        /\ \A h \in Faults \ {f} : counted[h] = g.trips[h]
        /\ more \subseteq Faults /\ latched \subseteq Faults
    BY <1>1, <1>2
  <2>2. \/ n < TripLimit(g, f) /\ u = [g EXCEPT !.releases = rested, !.trips = counted]
        \/ u = [g EXCEPT !.releases = rested, !.trips = cold, !.active = more,
                         !.latched = latched]
    <3>1. TripLimit([g EXCEPT !.releases = rested], f) = TripLimit(g, f)
      BY <1>1 DEF TripLimit, Guards
    <3>2. [g EXCEPT !.releases[f] = 0] = [g EXCEPT !.releases = rested]
      BY <1>1 DEF Guards
    <3>3. u = Tripping([g EXCEPT !.releases = rested], f)
      BY <1>4, <3>2 DEF UpdateFault
    <3> DEFINE r == [g EXCEPT !.releases = rested]
    <3>4. r.trips = g.trips /\ r.active = g.active /\ r.latched = g.latched
          /\ r.config = g.config
      BY <1>1 DEF Guards
    <3>5. \/ n < TripLimit(g, f) /\ u = [r EXCEPT !.trips[f] = n]
          \/ u = [r EXCEPT !.trips[f] = 0, !.active = @ \cup {f},
                           !.latched = IF r.config.latch THEN @ \cup {f} ELSE @]
      BY <3>1, <3>3, <3>4 DEF Tripping
    <3>6. r \in Guards
      BY <1>1, <1>3 DEF Guards
    <3> QED BY <1>1, <3>4, <3>5, <3>6 DEF Guards
  <2> HIDE DEF u, rested, cold, n, counted, more, latched
  <2>3. ASSUME n < TripLimit(g, f), u = [g EXCEPT !.releases = rested, !.trips = counted]
        PROVE  /\ Sane(u) /\ u.config = g.config /\ u.inhibit = g.inhibit
               /\ Judged(g, u, f, level) /\ \A h \in Faults \ {f} : Spared(g, u, h)
    <3>1. /\ u \in Guards /\ u.config = g.config /\ u.inhibit = g.inhibit
          /\ u.active = g.active /\ u.trips = counted /\ u.releases = rested
      BY <1>1, <1>3, <2>1, <2>3 DEF Guards
    <3>2. Sane(u)
      BY <1>3, <1>4, <2>1, <3>1 DEF Sane
    <3>3. Judged(g, u, f, level)
      BY <1>3, <1>4, <2>1, <2>3, <3>1 DEF Judged, n
    <3>4. \A h \in Faults \ {f} : Spared(g, u, h)
      BY <1>3, <2>1, <3>1 DEF Spared
    <3> QED BY <3>1, <3>2, <3>3, <3>4
  <2>4. ASSUME u = [g EXCEPT !.releases = rested, !.trips = cold, !.active = more,
                             !.latched = latched]
        PROVE  /\ Sane(u) /\ u.config = g.config /\ u.inhibit = g.inhibit
               /\ Judged(g, u, f, level) /\ \A h \in Faults \ {f} : Spared(g, u, h)
    <3>1. /\ u \in Guards /\ u.config = g.config /\ u.inhibit = g.inhibit
          /\ u.active = more /\ u.trips = cold /\ u.releases = rested
      BY <1>1, <1>3, <2>1, <2>4 DEF Guards
    <3>2. Sane(u)
      BY <1>3, <1>4, <2>1, <3>1 DEF Sane, more
    <3>3. Judged(g, u, f, level)
      BY <1>3, <1>4, <2>1, <3>1 DEF Judged, more
    <3>4. \A h \in Faults \ {f} : Spared(g, u, h)
      BY <1>3, <2>1, <3>1 DEF Spared, more
    <3> QED BY <3>1, <3>2, <3>3, <3>4
  <2> QED BY <2>2, <2>3, <2>4 DEF u
<1>5. CASE (f \notin g.active /\ level # "bad") \/ (f \in g.active /\ level # "good")
  <2>1. u = [g EXCEPT !.releases = rested, !.trips = cold]
    BY <1>1, <1>5 DEF UpdateFault, Guards
  <2> HIDE DEF u, rested, cold
  <2>2. /\ u \in Guards /\ u.config = g.config /\ u.inhibit = g.inhibit
        /\ u.active = g.active /\ u.trips = cold /\ u.releases = rested
    BY <1>1, <1>3, <2>1 DEF Guards
  <2>3. Sane(u)
    BY <1>3, <2>2 DEF Sane
  <2>4. Judged(g, u, f, level)
    BY <1>2, <1>3, <1>5, <2>2 DEF Judged
  <2>5. \A h \in Faults \ {f} : Spared(g, u, h)
    BY <1>3, <2>2 DEF Spared
  <2> QED BY <2>2, <2>3, <2>4, <2>5 DEF u
<1>6. CASE f \in g.active /\ level = "good"
  <2> DEFINE n == g.releases[f] + 1
             counted == [g.releases EXCEPT ![f] = n]
             less == g.active \ {f}
  <2>1. /\ n \in Nat /\ n > 0 /\ counted \in [Faults -> Nat] /\ counted[f] = n
        /\ \A h \in Faults \ {f} : counted[h] = g.releases[h]
        /\ less \subseteq Faults
    BY <1>1, <1>2
  <2>2. \/ n < g.config.release /\ u = [g EXCEPT !.trips = cold, !.releases = counted]
        \/ /\ n >= g.config.release
           /\ u = [g EXCEPT !.trips = cold, !.releases = rested, !.active = less]
    <3> DEFINE r == [g EXCEPT !.trips = cold]
    <3>1. [g EXCEPT !.trips[f] = 0] = r
      BY <1>1 DEF Guards
    <3>2. u = Releasing(r, f)
      BY <1>6, <3>1 DEF UpdateFault
    <3>3. r \in Guards /\ r.releases = g.releases /\ r.active = g.active /\ r.config = g.config
      BY <1>1, <1>3 DEF Guards
    <3>4. \/ n < g.config.release /\ u = [r EXCEPT !.releases[f] = n]
          \/ n >= g.config.release /\ u = [r EXCEPT !.releases[f] = 0, !.active = @ \ {f}]
      BY <1>1, <2>1, <3>2, <3>3 DEF Releasing
    <3> QED BY <1>1, <3>3, <3>4 DEF Guards
  <2> HIDE DEF u, rested, cold, n, counted, less
  <2>3. ASSUME n < g.config.release, u = [g EXCEPT !.trips = cold, !.releases = counted]
        PROVE  /\ Sane(u) /\ u.config = g.config /\ u.inhibit = g.inhibit
               /\ Judged(g, u, f, level) /\ \A h \in Faults \ {f} : Spared(g, u, h)
    <3>1. /\ u \in Guards /\ u.config = g.config /\ u.inhibit = g.inhibit
          /\ u.active = g.active /\ u.trips = cold /\ u.releases = counted
      BY <1>1, <1>3, <2>1, <2>3 DEF Guards
    <3>2. Sane(u)
      BY <1>3, <1>6, <2>1, <3>1 DEF Sane
    <3>3. Judged(g, u, f, level)
      BY <1>2, <1>6, <2>1, <2>3, <3>1 DEF Judged, n
    <3>4. \A h \in Faults \ {f} : Spared(g, u, h)
      BY <1>3, <2>1, <3>1 DEF Spared
    <3> QED BY <3>1, <3>2, <3>3, <3>4
  <2>4. ASSUME n >= g.config.release,
               u = [g EXCEPT !.trips = cold, !.releases = rested, !.active = less]
        PROVE  /\ Sane(u) /\ u.config = g.config /\ u.inhibit = g.inhibit
               /\ Judged(g, u, f, level) /\ \A h \in Faults \ {f} : Spared(g, u, h)
    <3>1. /\ u \in Guards /\ u.config = g.config /\ u.inhibit = g.inhibit
          /\ u.active = less /\ u.trips = cold /\ u.releases = rested
      BY <1>1, <1>3, <2>1, <2>4 DEF Guards
    <3>2. Sane(u)
      BY <1>3, <1>6, <2>1, <3>1 DEF Sane, less
    <3>3. Judged(g, u, f, level)
      BY <1>2, <1>3, <1>6, <2>1, <2>4, <3>1 DEF Judged, n, less
    <3>4. \A h \in Faults \ {f} : Spared(g, u, h)
      BY <1>3, <2>1, <3>1 DEF Spared, less
    <3> QED BY <3>1, <3>2, <3>3, <3>4
  <2> QED BY <2>2, <2>3, <2>4 DEF u
<1> QED BY <1>4, <1>5, <1>6

LEMMA SparedBefore ==
    ASSUME NEW g, NEW h, NEW u, NEW f, NEW level, h.config = g.config,
           Spared(g, h, f), Judged(h, u, f, level)
    PROVE  Judged(g, u, f, level)
BY DEF Spared, Judged, TripLimit

LEMMA SparedAfter ==
    ASSUME NEW g, NEW h, NEW u, NEW f, NEW level,
           Judged(g, h, f, level), Spared(h, u, f)
    PROVE  Judged(g, u, f, level)
BY DEF Spared, Judged, TripLimit

LEMMA SparedTwice ==
    ASSUME NEW g, NEW h, NEW u, NEW f, Spared(g, h, f), Spared(h, u, f)
    PROVE  Spared(g, u, f)
BY DEF Spared

(* A sample that answers and is judged for its quality leaves the rest alone. *)
LEMMA AnswerJudged ==
    ASSUME PowerConstants, NEW g, Sane(g), NEW quality \in Levels
    PROVE  LET answered == UpdateFault([g EXCEPT !.trips["comm"] = 0], "comm", "good")
               judged == UpdateFault(answered, "quality", quality) IN
           /\ Sane(judged) /\ judged.config = g.config
           /\ \A f \in Measured : Spared(g, judged, f)
<1> DEFINE n == [g EXCEPT !.trips["comm"] = 0]
           answered == UpdateFault(n, "comm", "good")
           judged == UpdateFault(answered, "quality", quality)
<1>1. g \in Guards /\ g.trips \in [Faults -> Nat] /\ "comm" \in Faults /\ "quality" \in Faults
      /\ Measured \subseteq Faults /\ "comm" \notin Measured /\ "quality" \notin Measured
      /\ "good" \in Levels
  BY DEF Sane, Guards, Faults, Measured, Levels
<1>2. /\ Sane(n) /\ n.config = g.config
      /\ \A f \in Measured : Spared(g, n, f)
  <2> DEFINE cold == [g.trips EXCEPT !["comm"] = 0]
  <2>1. /\ cold \in [Faults -> Nat] /\ cold["comm"] = 0
        /\ \A f \in Faults : f # "comm" => cold[f] = g.trips[f]
    BY <1>1
  <2>2. n = [g EXCEPT !.trips = cold]
    BY <1>1 DEF Guards
  <2> HIDE DEF n, cold
  <2>3. /\ n \in Guards /\ n.config = g.config /\ n.active = g.active /\ n.trips = cold
        /\ n.releases = g.releases
    BY <1>1, <2>1, <2>2 DEF Guards
  <2>4. Sane(n)
    BY <2>1, <2>3 DEF Sane
  <2> QED BY <1>1, <2>1, <2>3, <2>4 DEF Spared
<1> HIDE DEF n
<1>3. /\ Sane(answered) /\ answered.config = n.config
      /\ \A f \in Faults \ {"comm"} : Spared(n, answered, f)
  BY <1>1, <1>2, FaultJudged
<1> HIDE DEF answered
<1>4. /\ Sane(judged) /\ judged.config = answered.config
      /\ \A f \in Faults \ {"quality"} : Spared(answered, judged, f)
  BY <1>1, <1>3, FaultJudged
<1> HIDE DEF judged
<1>5. ASSUME NEW f \in Measured PROVE Spared(g, judged, f)
  <2>1. Spared(g, n, f) /\ Spared(n, answered, f) /\ Spared(answered, judged, f)
    BY <1>1, <1>2, <1>3, <1>4
  <2> QED BY <2>1 DEF Spared
<1>6. Sane(judged) /\ judged.config = g.config
  BY <1>2, <1>3, <1>4
<1> QED BY <1>5, <1>6 DEF judged, answered, n

LEMMA SampleJudged ==
    ASSUME PowerConstants, NEW g, Sane(g), NEW volts \in Levels, NEW amps \in Levels
    PROVE  LET u == RecordSample(g, "good", volts, amps) IN
           /\ Sane(u) /\ u.config = g.config
           /\ Judged(g, u, "uv", volts) /\ Judged(g, u, "oc", amps)
<1> DEFINE answered == UpdateFault([g EXCEPT !.trips["comm"] = 0], "comm", "good")
           judged == UpdateFault(answered, "quality", "good")
           half == UpdateFault(judged, "uv", volts)
           u == UpdateFault(half, "oc", amps)
<1>1. "uv" \in Faults /\ "oc" \in Faults /\ Measured = {"uv", "oc"} /\ "uv" # "oc"
      /\ "good" \in Levels
  BY DEF Faults, Measured, Levels
<1>2. /\ Sane(judged) /\ judged.config = g.config
      /\ Spared(g, judged, "uv") /\ Spared(g, judged, "oc")
  BY <1>1, AnswerJudged
<1>3. u = RecordSample(g, "good", volts, amps)
  BY DEF RecordSample
<1> HIDE DEF answered, judged
<1>4. /\ Sane(half) /\ half.config = judged.config
      /\ Judged(judged, half, "uv", volts) /\ Spared(judged, half, "oc")
  <2>1. "oc" \in Faults \ {"uv"}
    BY <1>1
  <2> QED BY <1>1, <1>2, <2>1, FaultJudged
<1> HIDE DEF half
<1>5. /\ Sane(u) /\ u.config = half.config
      /\ Judged(half, u, "oc", amps) /\ Spared(half, u, "uv")
  <2>1. "uv" \in Faults \ {"oc"}
    BY <1>1
  <2> QED BY <1>1, <1>4, <2>1, FaultJudged
<1> HIDE DEF u
<1>6. Judged(g, u, "uv", volts)
  <2>1. Judged(g, half, "uv", volts)
    BY <1>2, <1>4, SparedBefore
  <2> QED BY <1>5, <2>1, SparedAfter
<1>7. Judged(g, u, "oc", amps)
  <2>1. Spared(g, half, "oc")
    BY <1>2, <1>4, SparedTwice
  <2>2. half.config = g.config
    BY <1>2, <1>4
  <2> QED BY <1>5, <2>1, <2>2, SparedBefore
<1>8. Sane(u) /\ u.config = g.config
  BY <1>2, <1>4, <1>5
<1> QED BY <1>3, <1>6, <1>7, <1>8

LEMMA PoorSample ==
    ASSUME PowerConstants, NEW g, Sane(g), NEW volts, NEW amps
    PROVE  LET u == RecordSample(g, "bad", volts, amps) IN
           /\ Sane(u) /\ u.config = g.config
           /\ \A f \in Measured : /\ f \in u.active <=> f \in g.active
                                  /\ u.trips[f] = 0 /\ u.releases[f] = 0
<1> DEFINE answered == UpdateFault([g EXCEPT !.trips["comm"] = 0], "comm", "good")
           judged == UpdateFault(answered, "quality", "bad")
           u == Broken(judged)
<1>1. Measured \subseteq Faults /\ "bad" \in Levels
  BY DEF Faults, Measured, Levels
<1>2. /\ Sane(judged) /\ judged.config = g.config
      /\ \A f \in Measured : Spared(g, judged, f)
  BY <1>1, AnswerJudged
<1>3. u = RecordSample(g, "bad", volts, amps)
  BY DEF RecordSample
<1> HIDE DEF answered, judged
<1> DEFINE trips == [f \in Faults |-> IF f \in Measured THEN 0 ELSE judged.trips[f]]
           releases == [f \in Faults |-> IF f \in Measured THEN 0 ELSE judged.releases[f]]
<1>4. judged \in Guards /\ judged.trips \in [Faults -> Nat]
      /\ judged.releases \in [Faults -> Nat]
  BY <1>2 DEF Sane, Guards
<1>5. /\ trips \in [Faults -> Nat] /\ releases \in [Faults -> Nat]
      /\ \A f \in Faults : /\ trips[f] = (IF f \in Measured THEN 0 ELSE judged.trips[f])
                           /\ releases[f] = (IF f \in Measured THEN 0 ELSE judged.releases[f])
  BY <1>4
<1>6. u = [judged EXCEPT !.trips = trips, !.releases = releases]
  BY <1>4 DEF Broken, Guards
<1> HIDE DEF trips, releases, u
<1>7. /\ u \in Guards /\ u.config = judged.config /\ u.active = judged.active
      /\ u.trips = trips /\ u.releases = releases
  BY <1>4, <1>5, <1>6 DEF Guards
<1>8. Sane(u)
  BY <1>2, <1>5, <1>7 DEF Sane
<1>9. \A f \in Measured : /\ f \in u.active <=> f \in g.active
                          /\ u.trips[f] = 0 /\ u.releases[f] = 0
  BY <1>1, <1>2, <1>5, <1>7 DEF Spared
<1> QED BY <1>2, <1>3, <1>7, <1>8, <1>9

LEMMA ErrorJudged ==
    ASSUME PowerConstants, NEW g, Sane(g)
    PROVE  LET u == RecordReadError(g) IN
           /\ Sane(u) /\ u.config = g.config /\ \A f \in Measured : Spared(g, u, f)
<1> DEFINE n == [g EXCEPT !.releases["comm"] = 0]
           cold == [g.releases EXCEPT !["comm"] = 0]
           u == UpdateFault(n, "comm", "bad")
<1>1. g \in Guards /\ g.releases \in [Faults -> Nat] /\ "comm" \in Faults
      /\ Measured \subseteq Faults /\ "comm" \notin Measured /\ "bad" \in Levels
  BY DEF Sane, Guards, Faults, Measured, Levels
<1>2. /\ cold \in [Faults -> Nat] /\ cold["comm"] = 0
      /\ \A f \in Faults : f # "comm" => cold[f] = g.releases[f]
  BY <1>1
<1>3. n = [g EXCEPT !.releases = cold]
  BY <1>1 DEF Guards
<1> HIDE DEF n, cold
<1>4. /\ n \in Guards /\ n.config = g.config /\ n.active = g.active /\ n.trips = g.trips
      /\ n.releases = cold
  BY <1>1, <1>2, <1>3 DEF Guards
<1>5. Sane(n)
  BY <1>2, <1>4 DEF Sane
<1>6. /\ Sane(u) /\ u.config = n.config /\ \A f \in Faults \ {"comm"} : Spared(n, u, f)
  BY <1>1, <1>5, FaultJudged
<1>7. u = RecordReadError(g)
  BY DEF RecordReadError, n
<1> HIDE DEF u
<1>8. ASSUME NEW f \in Measured PROVE Spared(g, u, f)
  <2>1. Spared(n, u, f) /\ Spared(g, n, f)
    BY <1>1, <1>2, <1>4, <1>6 DEF Spared
  <2> QED BY <2>1 DEF Spared
<1> QED BY <1>4, <1>6, <1>7, <1>8

LEMMA ConfigsAreSettings ==
    ASSUME PowerConstants, NEW c \in Configs
    PROVE  /\ c \in GuardSettings /\ c.trip \in 1 .. Most /\ c.release \in 1 .. Most
           /\ Most \in Nat
BY DEF PowerConstants, GuardSettings

LEMMA InhibitFollows ==
    ASSUME NEW g, Sane(g)
    PROVE  /\ Sane(Recomputed(g)) /\ Recomputed(g).config = g.config
           /\ Recomputed(g).inhibit = Requested(Recomputed(g))
           /\ \A f \in Faults : Spared(g, Recomputed(g), f)
<1> DEFINE r == Recomputed(g)
           q == Requested(g)
<1>1. g \in Guards /\ g.config.inhibit \in BOOLEAN /\ q \in BOOLEAN
  BY DEF Sane, Guards, GuardSettings, Requested
<1>2. r = [g EXCEPT !.inhibit = q]
  BY DEF Recomputed
<1> HIDE DEF r, q
<1>3. /\ r \in Guards /\ r.config = g.config /\ r.active = g.active /\ r.latched = g.latched
      /\ r.trips = g.trips /\ r.releases = g.releases /\ r.inhibit = q
  BY <1>1, <1>2 DEF Guards
<1>4. r.inhibit = Requested(r)
  BY <1>3 DEF Requested, q
<1>5. Sane(r)
  BY <1>3 DEF Sane
<1> QED BY <1>3, <1>4, <1>5 DEF Spared, r

LEMMA ConfiguredSane ==
    ASSUME PowerConstants, NEW g, Sane(g), NEW c \in Configs
    PROVE  LET r == Configure(g, c) IN
           /\ Sane(r) /\ r.config = c /\ r.inhibit = Requested(r)
           /\ \A f \in Faults : Spared(g, r, f)
<1> DEFINE n == [g EXCEPT !.config = c]
           r == Recomputed(n)
<1>1. g \in Guards /\ c \in GuardSettings
  BY ConfigsAreSettings DEF Sane
<1>2. /\ n \in Guards /\ n.config = c /\ n.active = g.active /\ n.trips = g.trips
      /\ n.releases = g.releases
  BY <1>1 DEF Guards
<1> HIDE DEF n
<1>3. Sane(n)
  BY <1>2 DEF Sane
<1>4. /\ Sane(r) /\ r.config = n.config /\ r.inhibit = Requested(r)
      /\ \A f \in Faults : Spared(n, r, f)
  BY <1>3, InhibitFollows
<1>5. r = Configure(g, c)
  BY DEF Configure, n
<1> HIDE DEF r
<1> QED BY <1>2, <1>4, <1>5 DEF Spared

(* A poll of App_Run on what the guard is once it has the latest configuration. *)
LEMMA PollKeeps ==
    ASSUME PowerConstants, PowerInv, NEW u, Sane(u), u.config = stored, Polled(u),
           UNCHANGED << stored, chip, supply >>,
           hot' \in [Measured -> Nat], calm' \in [Measured -> Nat],
           \A f \in Measured :
               /\ f \notin u.active => hot'[f] <= u.trips[f] /\ hot'[f] < stored.trip
               /\ u.releases[f] <= calm'[f]
               /\ f \in guard.active \ u.active => calm'[f] >= stored.release
    PROVE  PowerInv' /\ ReleasesLateStep
<1>1. guard' = Recomputed(u) /\ handled' = Requested(u) /\ lease' \in {FALSE, lease}
  BY DEF Polled, StoppedOnce
<1>2. Requested(u) \in BOOLEAN
  BY DEF Sane, Guards, GuardSettings, Requested
<1>3. /\ Sane(guard') /\ guard'.config = stored /\ guard'.inhibit = Requested(guard')
      /\ \A f \in Faults : Spared(u, guard', f)
  BY <1>1, InhibitFollows
<1>4. Measured \subseteq Faults
  BY DEF Faults
<1>5. /\ stored' \in Configs /\ guard'.config \in Configs
      /\ lease' \in BOOLEAN /\ handled' \in BOOLEAN
      /\ chip' \in {"calibrated", "reset"} /\ supply' \in [Measured -> Levels]
  BY <1>1, <1>2, <1>3 DEF PowerInv
<1>6. Observed'
  BY <1>3, <1>4 DEF Observed, Spared
<1>7. ReleasesLateStep
  BY <1>3, <1>4 DEF ReleasesLateStep, Spared
<1>8. PowerInv'
  BY <1>3, <1>5, <1>6 DEF PowerInv
<1> QED BY <1>7, <1>8

LEMMA LatestSane ==
    ASSUME PowerConstants, PowerInv
    PROVE  /\ Sane(Latest) /\ Latest.config = stored
           /\ \A f \in Measured : Spared(guard, Latest, f)
           /\ stored.trip \in 1 .. Most /\ stored.release \in 1 .. Most /\ Most \in Nat
           /\ \A f \in Measured : /\ guard.trips[f] \in Nat /\ guard.releases[f] \in Nat
                                  /\ hot[f] \in Nat /\ calm[f] \in Nat
<1>1. Sane(guard) /\ stored \in Configs /\ Measured \subseteq Faults
  BY DEF PowerInv, Faults
<1>2. Sane(Latest) /\ Latest.config = stored /\ \A f \in Faults : Spared(guard, Latest, f)
  BY <1>1, ConfiguredSane DEF Latest
<1>3. stored.trip \in 1 .. Most /\ stored.release \in 1 .. Most /\ Most \in Nat
  BY <1>1, ConfigsAreSettings
<1>4. \A f \in Measured : /\ guard.trips[f] \in Nat /\ guard.releases[f] \in Nat
                          /\ hot[f] \in Nat /\ calm[f] \in Nat
  BY <1>1 DEF PowerInv, Sane, Guards
<1> QED BY <1>1, <1>2, <1>3, <1>4

LEMMA SampleKeeps ==
    ASSUME PowerConstants, PowerInv, AppRunSample PROVE PowerInv' /\ ReleasesLateStep
<1> DEFINE level == Seen
           u == RecordSample(Latest, "good", level.uv, level.oc)
<1>1. /\ Measured = {"uv", "oc"} /\ "good" \in Levels /\ supply \in [Measured -> Levels]
  BY DEF Measured, Levels, PowerInv
<1>2. level \in [Measured -> Levels]
  BY <1>1 DEF Seen
<1>3. level.uv = level["uv"] /\ level.oc = level["oc"] /\ level["uv"] \in Levels
      /\ level["oc"] \in Levels
  BY <1>1, <1>2
<1>4. /\ Polled(u) /\ UNCHANGED << stored, chip, supply >>
      /\ hot' = [f \in Measured |-> Counted(hot[f], level[f] = "bad")]
      /\ calm' = [f \in Measured |-> Counted(calm[f], level[f] = "good")]
  BY DEF AppRunSample, Reading
<1> HIDE DEF level
<1>5. /\ Sane(u) /\ u.config = Latest.config
      /\ Judged(Latest, u, "uv", level["uv"]) /\ Judged(Latest, u, "oc", level["oc"])
  BY <1>3, LatestSane, SampleJudged
<1> HIDE DEF u
<1>6. \A f \in Measured : Judged(Latest, u, f, level[f])
  BY <1>1, <1>5
<1>7. ASSUME NEW f \in Measured
      PROVE  /\ f \notin u.active => hot'[f] <= u.trips[f] /\ hot'[f] < stored.trip
             /\ u.releases[f] <= calm'[f]
             /\ f \in guard.active \ u.active => calm'[f] >= stored.release
             /\ hot'[f] \in Nat /\ calm'[f] \in Nat
  <2>1. /\ hot'[f] = Counted(hot[f], level[f] = "bad")
        /\ calm'[f] = Counted(calm[f], level[f] = "good")
    BY <1>4
  <2>2. /\ stored.trip \in 1 .. Most /\ stored.release \in 1 .. Most /\ Most \in Nat
        /\ guard.trips[f] \in Nat /\ guard.releases[f] \in Nat
        /\ hot[f] \in Nat /\ calm[f] \in Nat /\ Sane(Latest) /\ Latest.config = stored
        /\ Spared(guard, Latest, f)
    BY LatestSane
  <2>3. u.trips[f] \in Nat /\ u.releases[f] \in Nat /\ f # "comm"
    BY <1>1, <1>5 DEF Sane, Guards, Faults, Measured
  <2>5. /\ f \in guard.active \ u.active =>
               level[f] = "good" /\ guard.releases[f] + 1 >= stored.release
        /\ f \notin u.active /\ level[f] = "bad" =>
               /\ f \notin guard.active /\ u.trips[f] = guard.trips[f] + 1
               /\ u.trips[f] < stored.trip
        /\ u.releases[f] <= (IF level[f] = "good" THEN guard.releases[f] + 1 ELSE 0)
        /\ u.releases[f] > 0 => u.releases[f] < stored.release
    BY <1>6, <2>2, <2>3 DEF Judged, Spared, TripLimit
  <2>6. /\ f \notin guard.active => hot[f] <= guard.trips[f]
        /\ guard.releases[f] <= calm[f]
    BY DEF PowerInv, Observed
  <2>7. hot'[f] \in Nat /\ calm'[f] \in Nat
    BY <2>1, <2>2 DEF Counted
  <2>8. ASSUME f \notin u.active PROVE hot'[f] <= u.trips[f] /\ hot'[f] < stored.trip
    <3>1. CASE level[f] = "bad"
      <4>1. hot'[f] <= hot[f] + 1
        BY <2>1, <2>2, <3>1 DEF Counted
      <4> QED BY <2>2, <2>3, <2>5, <2>6, <2>7, <2>8, <3>1, <4>1
    <3>2. CASE level[f] # "bad"
      <4>1. hot'[f] = 0
        BY <2>1, <3>2 DEF Counted
      <4> QED BY <2>2, <2>3, <4>1
    <3> QED BY <3>1, <3>2
  <2>9. /\ u.releases[f] <= calm'[f]
        /\ f \in guard.active \ u.active => calm'[f] >= stored.release
    <3>1. CASE level[f] = "good"
      <4>1. calm'[f] = IF calm[f] < Most THEN calm[f] + 1 ELSE calm[f]
        BY <2>1, <3>1 DEF Counted
      <4> QED BY <2>2, <2>3, <2>5, <2>6, <3>1, <4>1
    <3>2. CASE level[f] # "good"
      BY <2>3, <2>5, <2>7, <3>2
    <3> QED BY <3>1, <3>2
  <2> QED BY <2>7, <2>8, <2>9
<1>8. hot' \in [Measured -> Nat] /\ calm' \in [Measured -> Nat]
  BY <1>4, <1>7
<1>9. u.config = stored
  BY <1>5, LatestSane
<1> QED BY <1>4, <1>5, <1>7, <1>8, <1>9, PollKeeps

LEMMA PoorKeeps ==
    ASSUME PowerConstants, PowerInv, AppRunPoor PROVE PowerInv' /\ ReleasesLateStep
<1> DEFINE u == RecordSample(Latest, "bad", Seen.uv, Seen.oc)
<1>1. /\ Polled(u) /\ UNCHANGED << stored, chip, supply >>
      /\ hot' = [f \in Measured |-> 0] /\ calm' = [f \in Measured |-> 0]
  BY DEF AppRunPoor
<1>2. /\ Sane(Latest) /\ Latest.config = stored
      /\ \A f \in Measured : Spared(guard, Latest, f)
      /\ stored.trip \in 1 .. Most /\ Most \in Nat
  BY LatestSane
<1>3. /\ Sane(u) /\ u.config = Latest.config
      /\ \A f \in Measured : /\ f \in u.active <=> f \in Latest.active
                             /\ u.trips[f] = 0 /\ u.releases[f] = 0
  BY <1>2, PoorSample
<1> HIDE DEF u
<1>4. hot' \in [Measured -> Nat] /\ calm' \in [Measured -> Nat]
  BY <1>1
<1>5. \A f \in Measured :
          /\ f \notin u.active => hot'[f] <= u.trips[f] /\ hot'[f] < stored.trip
          /\ u.releases[f] <= calm'[f]
          /\ f \in guard.active \ u.active => calm'[f] >= stored.release
  BY <1>1, <1>2, <1>3 DEF Spared
<1> QED BY <1>1, <1>2, <1>3, <1>4, <1>5, PollKeeps

(* A pass that reads nothing of the supply changes no count of it. *)
LEMMA BlindPollKeeps ==
    ASSUME PowerConstants, PowerInv, NEW u, Sane(u), u.config = stored, Polled(u),
           ObservedSince, UNCHANGED << stored, chip, supply, calm >>,
           \A f \in Measured : Spared(guard, u, f)
    PROVE  PowerInv' /\ ReleasesLateStep
<1>1. hot' = [f \in Measured |-> IF stored = guard.config THEN hot[f] ELSE 0]
  BY DEF ObservedSince
<1>2. stored.trip \in 1 .. Most /\ Most \in Nat
  BY LatestSane
<1>3. hot' \in [Measured -> Nat] /\ calm' \in [Measured -> Nat]
  BY <1>1 DEF PowerInv
<1>4. ASSUME NEW f \in Measured
      PROVE  /\ f \notin u.active => hot'[f] <= u.trips[f] /\ hot'[f] < stored.trip
             /\ u.releases[f] <= calm'[f]
             /\ f \in guard.active \ u.active => calm'[f] >= stored.release
  <2>1. /\ f \in guard.active <=> f \in u.active
        /\ u.trips[f] = guard.trips[f] /\ u.releases[f] = guard.releases[f]
    BY DEF Spared
  <2>2. /\ f \notin guard.active => hot[f] <= guard.trips[f] /\ hot[f] < guard.config.trip
        /\ guard.releases[f] <= calm[f]
    BY DEF PowerInv, Observed
  <2>3. guard.trips[f] \in Nat
    BY LatestSane
  <2>4. hot'[f] = IF stored = guard.config THEN hot[f] ELSE 0
    BY <1>1
  <2> QED BY <1>2, <2>1, <2>2, <2>3, <2>4
<1> QED BY <1>3, <1>4, PollKeeps

LEMMA BlindKeeps ==
    ASSUME PowerConstants, PowerInv, AppRunError \/ AppRunBusy
    PROVE  PowerInv' /\ ReleasesLateStep
<1>1. Sane(Latest) /\ Latest.config = stored /\ \A f \in Measured : Spared(guard, Latest, f)
  BY LatestSane
<1>2. CASE AppRunError
  <2> DEFINE u == RecordReadError(Latest)
  <2>1. Sane(u) /\ u.config = stored /\ \A f \in Measured : Spared(Latest, u, f)
    BY <1>1, ErrorJudged
  <2>2. Polled(u) /\ ObservedSince /\ UNCHANGED << stored, chip, supply, calm >>
    BY <1>2 DEF AppRunError
  <2> HIDE DEF u
  <2>3. \A f \in Measured : Spared(guard, u, f)
    BY <1>1, <2>1 DEF Spared
  <2> QED BY <2>1, <2>2, <2>3, BlindPollKeeps
<1>3. CASE AppRunBusy
  <2>1. Polled(Latest) /\ ObservedSince /\ UNCHANGED << stored, chip, supply, calm >>
    BY <1>3 DEF AppRunBusy
  <2> QED BY <1>1, <2>1, BlindPollKeeps
<1> QED BY <1>2, <1>3

(* Everything that leaves the guard alone. *)
LEMMA RestKeeps ==
    ASSUME PowerConstants, PowerInv, UNCHANGED << guard, hot, calm >>,
           stored' \in Configs, lease' \in BOOLEAN, handled' \in BOOLEAN,
           chip' \in {"calibrated", "reset"}, supply' \in [Measured -> Levels]
    PROVE  PowerInv' /\ ReleasesLateStep
BY DEF PowerInv, Observed, ReleasesLateStep, Requested

LEMMA ShellKeeps ==
    ASSUME PowerConstants, PowerInv, ShellClears \/ ShellStores
    PROVE  PowerInv' /\ ReleasesLateStep
<1>1. Sane(guard) /\ guard.config \in Configs /\ Measured \subseteq Faults
  BY DEF PowerInv, Faults
<1>2. UNCHANGED << chip, supply, lease, handled, calm >>
  BY DEF ShellClears, ShellStores
<1>3. CASE ShellClears
  <2> DEFINE n == [guard EXCEPT !.latched = {}]
  <2>1. /\ n \in Guards /\ n.config = guard.config /\ n.active = guard.active
        /\ n.trips = guard.trips /\ n.releases = guard.releases
    BY <1>1 DEF Sane, Guards
  <2>2. guard' = Recomputed(n) /\ UNCHANGED << stored, hot >>
    BY <1>3 DEF ShellClears
  <2> HIDE DEF n
  <2>3. Sane(n)
    BY <1>1, <2>1 DEF Sane
  <2>4. /\ Sane(guard') /\ guard'.config = n.config /\ guard'.inhibit = Requested(guard')
        /\ \A f \in Faults : Spared(n, guard', f)
    BY <2>2, <2>3, InhibitFollows
  <2>5. \A f \in Measured : Spared(guard, guard', f)
    BY <1>1, <2>1, <2>4 DEF Spared
  <2>6. guard'.config = guard.config
    BY <2>1, <2>4
  <2>7. Observed' /\ ReleasesLateStep
    BY <1>2, <2>2, <2>5, <2>6 DEF PowerInv, Observed, Spared, ReleasesLateStep
  <2> QED BY <1>1, <1>2, <2>2, <2>4, <2>6, <2>7 DEF PowerInv
<1>4. CASE ShellStores /\ UNCHANGED << guard, hot >>
  <2>1. stored' \in Configs
    BY <1>4 DEF ShellStores
  <2> QED BY <1>2, <1>4, <2>1, RestKeeps DEF PowerInv
<1>5. CASE /\ ShellStores /\ guard' = Configure(guard, stored')
           /\ hot' = [f \in Measured |-> 0]
  <2>1. stored' \in Configs
    BY <1>5 DEF ShellStores
  <2>2. /\ Sane(guard') /\ guard'.config = stored' /\ guard'.inhibit = Requested(guard')
        /\ \A f \in Faults : Spared(guard, guard', f)
    BY <1>1, <1>5, <2>1, ConfiguredSane
  <2>3. stored'.trip \in 1 .. Most /\ Most \in Nat
    BY <2>1, ConfigsAreSettings
  <2>4. hot' \in [Measured -> Nat] /\ \A f \in Measured : hot'[f] = 0
    BY <1>5
  <2>5. \A f \in Measured : guard'.trips[f] \in Nat
    BY <1>1, <2>2 DEF Sane, Guards
  <2>6. Observed'
    BY <1>1, <1>2, <2>2, <2>3, <2>4, <2>5 DEF PowerInv, Observed, Spared
  <2>7. ReleasesLateStep
    BY <1>1, <2>2 DEF ReleasesLateStep, Spared
  <2> QED BY <1>2, <2>1, <2>2, <2>4, <2>6, <2>7 DEF PowerInv
<1> QED BY <1>3, <1>4, <1>5 DEF ShellStores

LEMMA PowerInvInit ==
    ASSUME PowerConstants, PowerInit PROVE PowerInv
<1> DEFINE none == [f \in Faults |-> 0]
           unseen == [f \in Measured |-> 0]
<1>1. /\ none \in [Faults -> Nat] /\ unseen \in [Measured -> Nat]
      /\ \A f \in Faults : none[f] = 0
      /\ \A f \in Measured : unseen[f] = 0
  OBVIOUS
<1>2. /\ stored \in Configs /\ stored \in GuardSettings /\ stored.trip \in 1 .. Most /\ Most \in Nat
      /\ Measured \subseteq Faults
  BY ConfigsAreSettings DEF PowerInit, Faults
<1>3. /\ guard = [config |-> stored, active |-> {}, latched |-> {}, inhibit |-> FALSE,
                  trips |-> none, releases |-> none]
      /\ hot = unseen /\ calm = unseen
  BY DEF PowerInit
<1> HIDE DEF none, unseen
<1>4. guard \in Guards /\ guard.config = stored /\ guard.active = {} /\ guard.latched = {}
      /\ guard.trips = none /\ guard.releases = none /\ guard.inhibit = FALSE
  BY <1>1, <1>2, <1>3 DEF Guards
<1>5. Sane(guard)
  BY <1>1, <1>4 DEF Sane
<1>6. guard.inhibit = Requested(guard)
  BY <1>4 DEF Requested
<1>7. Observed
  BY <1>1, <1>2, <1>3, <1>4 DEF Observed
<1>8. supply \in [Measured -> Levels] /\ chip \in {"calibrated", "reset"}
      /\ lease \in BOOLEAN /\ handled \in BOOLEAN
  BY DEF PowerInit, Measured, Levels
<1> QED BY <1>1, <1>2, <1>3, <1>4, <1>5, <1>6, <1>7, <1>8 DEF PowerInv

LEMMA PowerInvStep ==
    ASSUME PowerConstants, PowerInv, [PowerNext]_powerVars
    PROVE  PowerInv' /\ ReleasesLateStep
<1>1. /\ stored \in Configs /\ lease \in BOOLEAN /\ handled \in BOOLEAN
      /\ chip \in {"calibrated", "reset"} /\ supply \in [Measured -> Levels]
      /\ guard.inhibit \in BOOLEAN
  BY DEF PowerInv, Sane, Guards
<1>2. CASE UNCHANGED powerVars
  <2>1. UNCHANGED << guard, stored, chip, supply, lease, handled, hot, calm >>
    BY <1>2 DEF powerVars
  <2> QED BY <1>1, <2>1, RestKeeps
<1>3. CASE AppRunIdle
  <2>1. /\ UNCHANGED << guard, stored, chip, supply, hot, calm >>
        /\ handled' \in BOOLEAN /\ lease' \in BOOLEAN
    BY <1>1, <1>3 DEF AppRunIdle, StoppedOnce
  <2> QED BY <1>1, <2>1, RestKeeps
<1>4. CASE SetWheelRpm \/ ChassisService \/ ChassisStop
  <2>1. /\ UNCHANGED << guard, stored, chip, supply, handled, hot, calm >>
        /\ lease' \in BOOLEAN
    BY <1>1, <1>4 DEF SetWheelRpm, ChassisService, ChassisStop, Service
  <2> QED BY <1>1, <2>1, RestKeeps
<1>5. CASE \E f \in Measured : SupplyMoves(f)
  <2>1. /\ UNCHANGED << guard, stored, chip, lease, handled, hot, calm >>
        /\ supply' \in [Measured -> Levels]
    BY <1>1, <1>5 DEF SupplyMoves
  <2> QED BY <1>1, <2>1, RestKeeps
<1>6. CASE ChipResets \/ ShellConfigures \/ ShellResets
  <2>1. /\ UNCHANGED << guard, stored, supply, lease, handled, hot, calm >>
        /\ chip' \in {"calibrated", "reset"}
    BY <1>1, <1>6 DEF ChipResets, ShellConfigures, ShellResets
  <2> QED BY <1>1, <2>1, RestKeeps
<1> QED BY <1>2, <1>3, <1>4, <1>5, <1>6, SampleKeeps, PoorKeeps, BlindKeeps, ShellKeeps
        DEF PowerNext

LEMMA PowerInvariant ==
    ASSUME PowerConstants PROVE PowerSpec => []PowerInv
<1>1. PowerInit => PowerInv
  BY PowerInvInit
<1>2. PowerInv /\ [PowerNext]_powerVars => PowerInv'
  BY PowerInvStep
<1> QED BY <1>1, <1>2, PTL DEF PowerSpec

LEMMA GuardWatches ==
    ASSUME PowerConstants
    PROVE  PowerSpec => [](\A f \in Measured : TripsInTime(f)) /\ [][ReleasesLateStep]_powerVars
<1>1. ASSUME PowerInv PROVE \A f \in Measured : TripsInTime(f)
  <2> SUFFICES ASSUME NEW f \in Measured, hot[f] >= guard.config.trip
               PROVE  f \in guard.active /\ (guard.config.inhibit => guard.inhibit)
    BY DEF TripsInTime
  <2>1. hot[f] \in Nat /\ guard.config.trip \in Nat
    BY <1>1, ConfigsAreSettings DEF PowerInv
  <2>2. f \in guard.active
    BY <1>1, <2>1 DEF PowerInv, Observed
  <2> QED BY <1>1, <2>2 DEF PowerInv, Requested
<1>2. PowerInv /\ [PowerNext]_powerVars => [ReleasesLateStep]_powerVars
  BY PowerInvStep
<1> QED BY <1>1, <1>2, PowerInvariant, PTL DEF PowerSpec

(* A fault's counters keep their meaning: towards the trip while it is not active,  *)
(* towards the release while it is (UpdateFault).                                     *)
THEOREM PowerTypes ==
    ASSUME PowerConstants PROVE PowerSpec => []PowerTypeOK
<1>1. PowerInv => PowerTypeOK
  BY DEF PowerInv, PowerTypeOK, Sane, Guards
<1> QED BY <1>1, PowerInvariant, PTL

-----------------------------------------------------------------------------
(* Battery.                                                                        *)

(* Coulomb counting. *)
Cells ==
    /\ soc \in [ready : BOOLEAN, remaining : 0 .. Capacity, remainder : -(Unit - 1) .. (Unit - 1)]
    /\ starting \in [sum : Int, count : 0 .. InitialSamples]
    /\ ~soc.ready => starting.count < InitialSamples
    /\ flags \subseteq {"low", "critical"} /\ integrating \in BOOLEAN
-----------------------------------------------------------------------------
(* What is left of a division towards 0 is less than the divisor. *)
LEMMA Rest ==
    ASSUME NEW a \in Int, NEW d \in Nat \ {0}
    PROVE  /\ Toward0(a, d) \in Int
           /\ a - Toward0(a, d) * d \in -(d - 1) .. (d - 1)
<1>1. CASE a < 0
  <2> DEFINE b == -a
             q == b \div d
             m == b % d
  <2>1. b \in Nat
    BY <1>1
  <2> HIDE DEF b
  <2>2. q \in Nat /\ m \in 0 .. d - 1 /\ b = (q * d) + m
    BY <2>1, Division
  <2> HIDE DEF q, m
  <2>3. Toward0(a, d) = -q
    BY <1>1 DEF Toward0, q, b
  <2>4. (-q) * d = -(q * d)
    BY <2>2
  <2> DEFINE p == q * d
  <2>5. p \in Int /\ b = p + m /\ (-q) * d = -p /\ m \in Int /\ 0 <= m /\ m <= d - 1
    BY <2>2, <2>4
  <2> HIDE DEF p
  <2>6. a = -b
    BY DEF b
  <2>7. a - (-q) * d \in -(d - 1) .. (d - 1)
    <3>1. a - (-q) * d = -m
      BY <2>5, <2>6
    <3> QED BY <2>5, <3>1
  <2> QED BY <2>2, <2>3, <2>7
<1>2. CASE a >= 0
  <2> DEFINE q == a \div d
             m == a % d
  <2>6. a \in Nat
    BY <1>2
  <2>1. q \in Nat /\ m \in 0 .. d - 1 /\ a = (q * d) + m
    BY <2>6, Division
  <2> HIDE DEF q, m
  <2>2. Toward0(a, d) = q
    BY <1>2 DEF Toward0, q
  <2> DEFINE p == q * d
  <2>3. p \in Int /\ a = p + m /\ m \in Int /\ 0 <= m /\ m <= d - 1
    BY <2>1
  <2>4. Toward0(a, d) * d = p
    BY <2>2
  <2> HIDE DEF p
  <2>5. a - Toward0(a, d) * d = m
    BY <2>3, <2>4
  <2> QED BY <2>1, <2>2, <2>3, <2>5
<1> QED BY <1>1, <1>2

(* A voltage between empty and full stands for a charge between the two. *)
LEMMA EstimateInPack ==
    ASSUME BatteryConstants, NEW v \in Int PROVE Estimated(v) \in 0 .. Capacity
<1>1. Critical \in Int /\ FullVolts \in Int /\ Capacity \in Nat
  BY DEF BatteryConstants
<1>2. CASE v <= Critical \/ v >= FullVolts
  BY <1>1, <1>2 DEF Estimated
<1>3. CASE v > Critical /\ v < FullVolts
  <2> DEFINE part == v - Critical
             whole == FullVolts - Critical
             x == part * Capacity
             q == x \div whole
  <2>1. part \in Nat /\ whole \in Nat \ {0} /\ part < whole
    BY <1>1, <1>3
  <2>2. Estimated(v) = q
    BY <1>1, <1>3 DEF Estimated
  <2> HIDE DEF part, whole
  <2>3. x \in Nat
    BY <1>1, <2>1
  <2> DEFINE most == whole * Capacity
  <2>4. x <= most /\ most \in Int
    <3>1. CASE Capacity = 0
      BY <2>1, <3>1
    <3>2. CASE Capacity # 0
      BY <1>1, <2>1, <3>2, Products
    <3> QED BY <3>1, <3>2
  <2>5. Capacity * whole = most
    BY <1>1, <2>1
  <2> HIDE DEF x
  <2>6. q \in Nat /\ x % whole \in 0 .. whole - 1 /\ x = (q * whole) + (x % whole)
    BY <2>1, <2>3, Division
  <2> HIDE DEF q
  <2>7. Capacity < q => (Capacity * whole) + whole <= q * whole
    BY <1>1, <2>1, <2>6, Products
  <2> DEFINE p == q * whole
             r == x % whole
  <2>8. p \in Int /\ r \in Nat /\ whole \in Nat /\ whole > 0 /\ x = p + r
        /\ (Capacity < q => most + whole <= p) /\ x <= most /\ most \in Int
    BY <2>1, <2>4, <2>5, <2>6, <2>7
  <2> HIDE DEF p, r, most
  <2>9. ~(Capacity < q)
    BY <2>3, <2>8
  <2> QED BY <1>1, <2>2, <2>6, <2>9
<1> QED BY <1>1, <1>2, <1>3

(* Whole units leave the pack, what is left over is carried. *)
LEMMA DrawnKeeps ==
    ASSUME BatteryConstants, Cells, NEW charge \in Int
    PROVE  /\ Drawn(charge) \in [ready : BOOLEAN, remaining : 0 .. Capacity,
                                 remainder : -(Unit - 1) .. (Unit - 1)]
           /\ Drawn(charge).ready = soc.ready
           /\ Drawn(charge).remaining \in 1 .. (Capacity - 1) =>
                 Drawn(charge).remaining * Unit - Drawn(charge).remainder
                     = soc.remaining * Unit - soc.remainder - charge
<1> DEFINE total == soc.remainder + charge
           out == Toward0(total, Unit)
           left == soc.remaining - out
           rest == total - out * Unit
           d == Drawn(charge)
<1>1. /\ Unit \in Nat \ {0} /\ Capacity \in Nat
      /\ soc.remaining \in 0 .. Capacity /\ soc.remainder \in Int /\ total \in Int
      /\ 0 \in 0 .. Capacity /\ Capacity \in 0 .. Capacity /\ 0 \in -(Unit - 1) .. (Unit - 1)
  BY DEF BatteryConstants, Cells
<1> HIDE DEF total
<1>2. out \in Int /\ rest \in -(Unit - 1) .. (Unit - 1)
  BY <1>1, Rest
<1>3. left \in Int /\ left = soc.remaining + (-out)
  BY <1>1, <1>2
<1>4. d = IF left < 0 THEN [soc EXCEPT !.remaining = 0, !.remainder = 0]
          ELSE IF left > Capacity THEN [soc EXCEPT !.remaining = Capacity, !.remainder = 0]
          ELSE [soc EXCEPT !.remaining = left, !.remainder = rest]
  BY DEF Drawn, total
<1>5. left * Unit = (soc.remaining * Unit) - (out * Unit)
  <2>1. left * Unit = (soc.remaining * Unit) + ((-out) * Unit)
    BY <1>1, <1>2, <1>3, Products
  <2>2. (-out) * Unit = -(out * Unit)
    BY <1>1, <1>2
  <2> DEFINE a == soc.remaining * Unit
             b == out * Unit
             c == (-out) * Unit
             e == left * Unit
  <2>3. a \in Int /\ b \in Int /\ c = -b /\ e = a + c
    BY <1>1, <1>2, <2>1, <2>2
  <2> HIDE DEF a, b, c, e
  <2>4. e = a - b
    BY <2>3
  <2> QED BY <2>4 DEF a, b, e
<1>6. left * Unit - rest = soc.remaining * Unit - soc.remainder - charge
  <2> DEFINE a == soc.remaining * Unit
             b == out * Unit
             e == left * Unit
  <2>1. a \in Int /\ b \in Int /\ e = a - b
    BY <1>1, <1>2, <1>5
  <2>2. rest = total - b /\ total = soc.remainder + charge /\ soc.remainder \in Int
    BY <1>1 DEF total
  <2> HIDE DEF a, b, e, rest
  <2>3. e - rest = a - soc.remainder - charge
    BY <2>1, <2>2
  <2> QED BY <2>3 DEF a, e
<1>7. d \in [ready : BOOLEAN, remaining : 0 .. Capacity, remainder : -(Unit - 1) .. (Unit - 1)]
      /\ d.ready = soc.ready
  <2>1. 0 <= left /\ left <= Capacity => left \in 0 .. Capacity
    BY <1>1, <1>3
  <2> HIDE DEF left, rest, d
  <2>2. soc \in [ready : BOOLEAN, remaining : 0 .. Capacity,
                 remainder : -(Unit - 1) .. (Unit - 1)] /\ left \in Int
    BY <1>3 DEF Cells, left
  <2> DEFINE r == rest
  <2>3. r \in -(Unit - 1) .. (Unit - 1)
    BY <1>2 DEF rest
  <2> HIDE DEF r
  <2>4. CASE left < 0
    BY <1>1, <1>4, <2>2, <2>4
  <2>5. CASE left > Capacity
    BY <1>1, <1>4, <2>2, <2>5
  <2>6. CASE ~(left < 0) /\ ~(left > Capacity)
    <3>1. left \in 0 .. Capacity
      BY <1>1, <2>1, <2>2, <2>6
    <3>2. d = [soc EXCEPT !.remaining = left, !.remainder = r]
      BY <1>4, <2>6 DEF r
    <3> QED BY <2>2, <2>3, <3>1, <3>2
  <2> QED BY <2>4, <2>5, <2>6
<1>8. ASSUME d.remaining \in 1 .. (Capacity - 1)
      PROVE  d.remaining = left /\ d.remainder = rest
  <2> HIDE DEF left, rest, d
  <2>1. soc \in [ready : BOOLEAN, remaining : 0 .. Capacity,
                 remainder : -(Unit - 1) .. (Unit - 1)]
    BY DEF Cells
  <2>2. d = [soc EXCEPT !.remaining = left, !.remainder = rest]
    <3>1. d.remaining # 0 /\ d.remaining # Capacity
      BY <1>1, <1>8
    <3> QED BY <1>4, <2>1, <3>1
  <2> QED BY <2>1, <2>2
<1> HIDE DEF d, left, rest
<1>9. d.remaining \in 1 .. (Capacity - 1) =>
          d.remaining * Unit - d.remainder = soc.remaining * Unit - soc.remainder - charge
  BY <1>6, <1>8
<1> QED BY <1>7, <1>9 DEF d

LEMMA FlagsKnown ==
    ASSUME NEW x PROVE Flags(x) \subseteq {"low", "critical"}
BY DEF Flags

LEMMA CellsStep ==
    ASSUME BatteryConstants, Cells, [BatteryNext]_batteryVars
    PROVE  Cells' /\ (UNCHANGED batteryVars \/ ChargeKeptStep)
<1> DEFINE Packs == [ready : BOOLEAN, remaining : 0 .. Capacity,
                     remainder : -(Unit - 1) .. (Unit - 1)]
<1>1. /\ soc \in Packs /\ soc.ready \in BOOLEAN /\ starting \in [sum : Int, count : 0 .. InitialSamples]
      /\ starting.sum \in Int /\ starting.count \in 0 .. InitialSamples
      /\ 0 \in 0 .. Capacity /\ Capacity \in 0 .. Capacity /\ 0 \in -(Unit - 1) .. (Unit - 1)
      /\ InitialSamples \in Nat \ {0}
  BY DEF Cells, BatteryConstants
<1>2. NothingYet \in [sum : Int, count : 0 .. InitialSamples] /\ NothingYet.count < InitialSamples
  BY <1>1 DEF NothingYet
<1>3. NoEstimate \in Packs
  BY <1>1 DEF NoEstimate
<1>4. CASE UNCHANGED batteryVars
  BY <1>4 DEF batteryVars, Cells
<1>5. CASE RecordInvalid
  BY <1>5 DEF RecordInvalid, Cells, ChargeKeptStep
<1>6. CASE SetFull
  <2>1. soc' \in Packs /\ soc'.ready
    BY <1>1, <1>6 DEF SetFull
  <2> QED BY <1>2, <1>6, <2>1 DEF SetFull, Cells, ChargeKeptStep
<1>7. CASE ResetEstimate
  BY <1>2, <1>3, <1>7 DEF ResetEstimate, Cells, ChargeKeptStep
<1>8. ASSUME NEW v \in Volts, NEW c \in Currents, NEW t \in Elapsed, RecordMeasurement(v, c, t)
      PROVE  Cells' /\ ChargeKeptStep
  <2>1. v \in Int /\ c \in Int /\ t \in Int /\ c * t \in Int
    BY DEF BatteryConstants
  <2>2. flags' \subseteq {"low", "critical"}
    BY <1>8, FlagsKnown DEF RecordMeasurement
  <2>3. CASE ~soc.ready
    <3> DEFINE sum == starting.sum + v
               taken == starting.count + 1
               first == Estimated(sum \div taken)
    <3>1. /\ starting.count < InitialSamples /\ sum \in Int /\ taken \in Nat \ {0}
          /\ taken \in 0 .. InitialSamples
      BY <1>1, <2>1, <2>3 DEF Cells
    <3>2. /\ starting' = [sum |-> sum, count |-> taken]
          /\ soc' = IF taken < InitialSamples THEN soc
                    ELSE [ready |-> TRUE, remaining |-> first, remainder |-> 0]
          /\ integrating' = (integrating /\ taken < InitialSamples) /\ moved' = {}
      BY <1>8, <2>3 DEF RecordMeasurement, Start
    <3> HIDE DEF sum, taken
    <3>3. sum \div taken \in Int
      BY <3>1
    <3>4. first \in 0 .. Capacity
      BY <3>3, EstimateInPack
    <3> HIDE DEF first
    <3>5. soc' \in Packs
      BY <1>1, <3>2, <3>4
    <3>6. ~soc'.ready => taken < InitialSamples
      BY <3>2
    <3>7. starting' \in [sum : Int, count : 0 .. InitialSamples] /\ starting'.count = taken
      BY <3>1, <3>2
    <3>8. integrating' \in BOOLEAN
      BY <3>2
    <3> QED BY <2>2, <3>2, <3>5, <3>6, <3>7, <3>8 DEF Cells, ChargeKeptStep
  <2>4. CASE soc.ready
    <3>1. Integrate(c, t) /\ UNCHANGED starting
      BY <1>8, <2>4 DEF RecordMeasurement
    <3>2. integrating' \in BOOLEAN
      BY <3>1 DEF Integrate, Cells
    <3>3. CASE UNCHANGED soc /\ moved' = {}
      BY <2>2, <3>1, <3>2, <3>3 DEF Cells, ChargeKeptStep
    <3>4. CASE soc' = [soc EXCEPT !.remainder = 0] /\ moved' = {}
      <4>1. soc' \in Packs /\ soc'.ready
        BY <1>1, <2>4, <3>4
      <4> QED BY <2>2, <3>1, <3>2, <3>4, <4>1 DEF Cells, ChargeKeptStep
    <3>5. CASE soc' = Drawn(c * t) /\ moved' = {c * t}
      <4> DEFINE charge == c * t
      <4>1. charge \in Int /\ soc' = Drawn(charge) /\ moved' = {charge}
        BY <2>1, <3>5
      <4> HIDE DEF charge
      <4>2. /\ Drawn(charge) \in Packs /\ Drawn(charge).ready = soc.ready
            /\ Drawn(charge).remaining \in 1 .. (Capacity - 1) =>
                 Drawn(charge).remaining * Unit - Drawn(charge).remainder
                     = soc.remaining * Unit - soc.remainder - charge
        BY <4>1, DrawnKeeps
      <4>3. ChargeKeptStep
        BY <4>1, <4>2 DEF ChargeKeptStep
      <4>4. Cells'
        BY <2>2, <2>4, <3>1, <3>2, <4>1, <4>2, <1>1 DEF Cells
      <4> QED BY <4>3, <4>4
    <3> QED BY <3>1, <3>3, <3>4, <3>5 DEF Integrate
  <2> QED BY <2>3, <2>4
<1> QED BY <1>4, <1>5, <1>6, <1>7, <1>8 DEF BatteryNext

LEMMA CellsInvariant ==
    ASSUME BatteryConstants PROVE BatterySpec => []Cells
<1>1. BatteryInit => Cells
  <2>1. /\ 0 \in 0 .. Capacity /\ 0 \in -(Unit - 1) .. (Unit - 1)
        /\ 0 \in 0 .. InitialSamples /\ 0 < InitialSamples
    BY DEF BatteryConstants
  <2>2. /\ NoEstimate \in [ready : BOOLEAN, remaining : 0 .. Capacity,
                          remainder : -(Unit - 1) .. (Unit - 1)]
        /\ NothingYet \in [sum : Int, count : 0 .. InitialSamples]
        /\ NothingYet.count < InitialSamples
    BY <2>1 DEF NoEstimate, NothingYet
  <2> QED BY <2>2 DEF BatteryInit, Cells
<1>2. Cells /\ [BatteryNext]_batteryVars => Cells'
  BY CellsStep
<1> QED BY <1>1, <1>2, PTL DEF BatterySpec

(* The charge stays within the pack (IntegrateCurrent, EstimateSocFromVoltage). *)
THEOREM BatteryTypes ==
    ASSUME BatteryConstants PROVE BatterySpec => []BatteryTypeOK
<1>1. Cells => BatteryTypeOK
  BY DEF Cells, BatteryTypeOK
<1> QED BY <1>1, CellsInvariant, PTL

LEMMA ChargeCounts ==
    ASSUME BatteryConstants PROVE BatterySpec => [][ChargeKeptStep]_batteryVars
<1>1. Cells /\ [BatteryNext]_batteryVars => [ChargeKeptStep]_batteryVars
  BY CellsStep
<1> QED BY <1>1, CellsInvariant, PTL DEF BatterySpec

-----------------------------------------------------------------------------
(* The power guard trips in time and releases late, whatever errors, poor readings    *)
(* and configurations come in between; the battery monitor counts every charge         *)
(* (ina219_protection.cpp, battery_monitor.cpp).                                       *)
THEOREM PowerIsWatched ==
    ASSUME PowerConstants, BatteryConstants
    PROVE  PowerSpec /\ BatterySpec => PowerWatched
BY GuardWatches, ChargeCounts, PTL DEF PowerWatched

(* The parts keep their types side by side (motor_control.cpp, chassis.cpp,            *)
(* dm_g6220_controller.cpp, motor_open_loop.c, ina219_protection.cpp,                   *)
(* battery_monitor.cpp).                                                                *)
THEOREM DriveTypes ==
    ASSUME DrivesConstants PROVE DrivesSpec => []TypeOK
<1> USE DEF DrivesConstants
<1>1. ControlTypeOK /\ BoardTypeOK /\ DmTypeOK /\ FocTypeOK /\ LoopTypeOK /\ PowerTypeOK
      /\ BatteryTypeOK => TypeOK
  BY DEF TypeOK
<1> QED BY <1>1, ControlTypes, BoardTypes, GimbalTypes, FocTypes, LoopTypeCorrect, PowerTypes,
           BatteryTypes, PTL DEF DrivesSpec
==============================================================================
