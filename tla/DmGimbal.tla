------------------------------ MODULE DmGimbal ------------------------------
(* The DM-G6220 gimbal motor of gugaPI: the controller that probes, enables,      *)
(* drives and disables it over CAN (app/dm_g6220_controller.cpp), run every        *)
(* 10 ms by the CAN task (app/app_can_bus.cpp), with the one transmit buffer of    *)
(* the CAN driver and a motor that obeys what reaches it.  One tick is one run of  *)
(* the task.  Positions and speeds are left out but for whether they have settled. *)
EXTENDS Integers

CONSTANTS BootDelay, ProbeInterval, ProbeTimeout, SpecialInterval, EnableTimeout,
          OperationTimeout, StopTimeout, FeedbackTimeout, SettleTicks,  \* in ticks
          Repeats,      \* kSpecialRepeatCount
          Longest,      \* bound: ticks are counted up to here, beyond every timeout
          MaxGlitches,  \* bound: frames lost, errors, bus-off and motor faults
          MaxOrders     \* bound: commands of the shell and of programs

GimbalConstants ==
    /\ {BootDelay, ProbeInterval, ProbeTimeout, SpecialInterval, EnableTimeout,
        OperationTimeout, StopTimeout, FeedbackTimeout, SettleTicks} \subseteq Nat
    /\ Repeats \in Nat /\ Longest \in Nat /\ MaxGlitches \in Nat /\ MaxOrders \in Nat

VARIABLES dm,       \* the statics of the controller, and the fault of the system
          motor,    \* external: is it enabled, is it in error
          wire,     \* the frame in the transmit buffer
          reply,    \* the state in the feedback frame that waits to be read
          busOff,
          glitches, orders

dmVars == << dm, motor, wire, reply, busOff, glitches, orders >>

Probe == "probe"   \* an MIT frame with zero gains
Mit   == "mit"     \* an MIT frame that drives

Motions == {"enabling", "hold", "position", "speed", "stopping"}
DmModes == Motions \cup {"boot", "clearing", "bootDisable", "probing", "offline", "ready",
                       "disabling", "zeroing", "locked"}
Pendings == {"none", "hold", "position", "speed"}

Capped(a, b) == IF a < b THEN a ELSE b
-----------------------------------------------------------------------------
(* Time in the statics is kept as ticks passed: since the mode's start mark       *)
(* (boot, probe, enable, operation or stop), since the last frame sent and since   *)
(* the last feedback.  A mark of 0 ("send at once") is a quiet that is long.       *)
Ticked(d) ==
    [d EXCEPT !.since = Capped(@ + 1, Longest), !.quiet = Capped(@ + 1, ProbeInterval),
              !.age = Capped(@ + 1, FeedbackTimeout + 1),
              !.settle = IF @ = 0 THEN 0 ELSE Capped(@ + 1, SettleTicks + 1)]

Fresh(d) == d.valid /\ d.age <= FeedbackTimeout

Heard(d, state) == [d EXCEPT !.valid = TRUE, !.state = state, !.age = 0]

Send(d, frame, out) == IF out = "ok" THEN [d EXCEPT !.frame = frame, !.quiet = 0] ELSE d

(* Mutant: a burst is one frame longer. *)
BeginBurstOneMore(d, command, mode, after, emergency) ==
    [d EXCEPT !.command = command, !.mode = mode, !.after = after, !.left = Repeats + 1,
              !.quiet = ProbeInterval, !.emergency = emergency]

BeginBurst(d, command, mode, after, emergency) ==
    [d EXCEPT !.command = command, !.mode = mode, !.after = after, !.left = Repeats,
              !.quiet = ProbeInterval, !.emergency = emergency]

SetGlobalFault(d) ==
    [BeginBurst(d, "disable", "disabling", "locked", TRUE)
        EXCEPT !.pending = "none", !.result = "fault", !.fault = TRUE]

(* Mutant: the motion that waits for the probe outlives the stop. *)
EmergencyDisableKeepsPending(d) ==
    IF (d.mode = "disabling" /\ d.emergency) \/ d.mode = "locked" THEN d
    ELSE BeginBurst(d, "disable", "disabling", IF d.fault THEN "locked" ELSE "ready", TRUE)

EmergencyDisable(d) ==
    IF (d.mode = "disabling" /\ d.emergency) \/ d.mode = "locked" THEN d
    ELSE [BeginBurst(d, "disable", "disabling", IF d.fault THEN "locked" ELSE "ready", TRUE)
             EXCEPT !.pending = "none"]

(* CheckActiveSafety *)
Unsafe(d) ==
    \/ d.mode \in {"ready", "offline"} \cup Motions /\ Fresh(d) /\ d.state = "error"
    \/ d.mode \in Motions /\ (busOff \/ ~Fresh(d))

(* ServiceBurst: a burst waits out a busy buffer; only an emergency waits out errors. *)
ServiceBurst(d, out) ==
    IF d.quiet < SpecialInterval THEN d
    ELSE IF out = "ok"
    THEN IF d.left > 1 THEN [Send(d, d.command, out) EXCEPT !.left = @ - 1]
         ELSE [Send(d, d.command, out)
                  EXCEPT !.left = 0, !.mode = d.after, !.emergency = FALSE,
                         !.result = IF d.command = "disable" /\ ~d.emergency /\ @ = "running"
                                    THEN "success" ELSE @]
    ELSE IF out = "error" /\ ~d.emergency THEN SetGlobalFault(d) ELSE d

-----------------------------------------------------------------------------
EnterEnabledMode(d, mode) == [d EXCEPT !.mode = mode, !.settle = 0]

(* Start*WithFeedback: on an enabled motor at once, else by way of ENABLING. *)
StartWithFeedback(d, kind) ==
    LET s == [d EXCEPT !.since = 0, !.result = "running"] IN
    IF d.state = "enabled"
    THEN EnterEnabledMode([s EXCEPT !.result = IF kind = "hold" THEN "success" ELSE @], kind)
    ELSE [s EXCEPT !.mode = "enabling", !.target = kind, !.sends = 0, !.quiet = ProbeInterval]

StartProbe(d) == [d EXCEPT !.valid = FALSE, !.mode = "probing", !.since = 0,
                           !.quiet = ProbeInterval, !.result = "running"]

(* ResumePendingMotion; a relative target out of range is refused here. *)
ResumePendingMotion(d, inRange) ==
    LET r == [d EXCEPT !.pending = "none"] IN
    IF d.pending = "none"
    THEN [r EXCEPT !.mode = "ready", !.result = IF @ = "running" THEN "success" ELSE @]
    ELSE IF d.pending = "position" /\ ~inRange
    THEN [r EXCEPT !.mode = "ready", !.result = "timeout"]
    ELSE StartWithFeedback(r, d.pending)

UpdateProbing(d, out, inRange) ==
    IF Fresh(d)
    THEN IF d.state = "error" THEN SetGlobalFault(d) ELSE ResumePendingMotion(d, inRange)
    ELSE IF d.since > ProbeTimeout
    THEN IF d.pending # "none" THEN SetGlobalFault(d)
         ELSE [d EXCEPT !.mode = "offline", !.result = IF @ = "running" THEN "timeout" ELSE @]
    ELSE IF d.quiet >= ProbeInterval THEN Send(d, Probe, out) ELSE d

UpdateIdleFeedback(d, out) ==
    LET r == IF Fresh(d) THEN [d EXCEPT !.mode = "ready"] ELSE d IN
    IF d.quiet >= ProbeInterval THEN Send(r, Probe, out) ELSE r

UpdateEnabling(d, out) ==
    IF d.valid /\ d.state = "enabled" THEN EnterEnabledMode(d, d.target)
    ELSE IF d.since > EnableTimeout THEN SetGlobalFault(d)
    ELSE IF out = "error" THEN SetGlobalFault(d)
    ELSE IF d.sends < Repeats /\ d.quiet >= SpecialInterval
    THEN [Send(d, "enable", out) EXCEPT !.sends = IF out = "ok" THEN @ + 1 ELSE @]
    ELSE Send(d, Mit, out)

Held(d, result) == [d EXCEPT !.mode = "hold", !.result = result, !.settle = 0]

(* What UpdatePosition and UpdateSpeed do once their frame is out. *)
Driven(d, settled) ==
    IF d.mode \in {"hold", "speed"} THEN d
    ELSE IF d.mode = "position" /\ d.since > OperationTimeout THEN Held(d, "timeout")
    ELSE IF settled
    THEN IF d.settle > SettleTicks THEN Held(d, "success")
         ELSE [d EXCEPT !.settle = IF @ = 0 THEN 1 ELSE @]
    ELSE IF d.mode = "stopping" /\ d.since > StopTimeout THEN Held(d, "stopTimeout")
    ELSE [d EXCEPT !.settle = 0]

UpdateDriving(d, out, settled) ==
    CASE out = "ok"    -> Driven(Send(d, Mit, out), settled)
      [] out = "busy"  -> d
      [] out = "error" -> SetGlobalFault(d)

UpdateMode(d, out, settled) ==
    CASE d.mode = "boot" ->
           IF d.since >= BootDelay
           THEN BeginBurst(d, "clear", "clearing", "bootDisable", FALSE) ELSE d
      [] d.mode = "bootDisable" ->
           [BeginBurst(d, "disable", "bootDisable", "probing", FALSE) EXCEPT !.since = 0]
      [] d.mode = "probing" -> UpdateProbing(d, out, settled)
      [] d.mode \in {"offline", "ready"} -> UpdateIdleFeedback(d, out)
      [] d.mode = "enabling" -> UpdateEnabling(d, out)
      [] d.mode \in {"hold", "position", "speed", "stopping"} -> UpdateDriving(d, out, settled)
      [] d.mode = "zeroing" ->
           [BeginBurst(d, "zero", "zeroing", "probing", FALSE) EXCEPT !.valid = FALSE, !.since = 0]
      [] OTHER -> d

(* DmG6220Controller_Update *)
Update(d, out, settled) ==
    LET e == IF d.fault /\ d.mode \in Motions THEN EmergencyDisable(d) ELSE d IN
    IF Unsafe(e) THEN SetGlobalFault(e)
    ELSE IF e.left # 0 THEN ServiceBurst(e, out)
    ELSE UpdateMode(e, out, settled)

-----------------------------------------------------------------------------
Outcomes == IF busOff \/ wire # "none" THEN {"busy"}
            ELSE IF glitches < MaxGlitches THEN {"ok", "error"} ELSE {"ok"}

(* AppCanBus_Update: read what came in, then update; Can_Send takes a frame only *)
(* into an empty buffer.                                                          *)
CanTask ==
    \E out \in Outcomes, settled \in BOOLEAN :
        LET heard == IF reply = "none" THEN Ticked(dm) ELSE Heard(Ticked(dm), reply)
            d     == Update(heard, out, settled)
        IN  /\ dm' = [d EXCEPT !.frame = "none"]
            /\ wire' = IF d.frame = "none" THEN wire ELSE d.frame
            /\ reply' = "none"
            /\ glitches' = IF out = "error" THEN glitches + 1 ELSE glitches
            /\ UNCHANGED << motor, busOff, orders >>

StateOf(m) == IF m.error THEN "error" ELSE IF m.enabled THEN "enabled" ELSE "disabled"

Obeys(m, frame) ==
    [enabled |-> CASE frame = "enable" -> ~m.error [] frame = "disable" -> FALSE
                   [] OTHER -> m.enabled,
     error   |-> m.error /\ frame # "clear"]

(* The frame goes out; it, or the feedback that answers it, may be lost. *)
Bus ==
    /\ wire # "none" /\ ~busOff
    /\ wire' = "none"
    /\ \/ /\ motor' = Obeys(motor, wire)
          /\ reply' = StateOf(motor')
          /\ UNCHANGED glitches
       \/ /\ glitches < MaxGlitches
          /\ glitches' = glitches + 1
          /\ motor' \in {motor, Obeys(motor, wire)}
          /\ UNCHANGED reply
    /\ UNCHANGED << dm, busOff, orders >>

(* The bus goes off; the motor trips or restarts. *)
Glitch ==
    /\ glitches < MaxGlitches
    /\ glitches' = glitches + 1
    /\ \/ ~busOff /\ busOff' = TRUE /\ UNCHANGED motor
       \/ motor' \in [enabled : {FALSE}, error : BOOLEAN] /\ UNCHANGED busOff
    /\ UNCHANGED << dm, wire, reply, orders >>

(* `can recover` *)
CanRecover == busOff /\ busOff' = FALSE /\ UNCHANGED << dm, motor, wire, reply, glitches, orders >>

(* DmG6220Controller_EnableHold, HoldCurrent, StartPosition and StartSpeed: on stale *)
(* feedback a held motor faults and an idle one is probed first.                      *)
StartMotion(kind, inRange) ==
    /\ dm.mode \in {"ready", "offline", "hold"} /\ ~dm.fault
    /\ dm' = IF Fresh(dm)
             THEN ResumePendingMotion([dm EXCEPT !.pending = kind], inRange)
             ELSE IF dm.mode = "hold" THEN SetGlobalFault(dm)
             ELSE [StartProbe(dm) EXCEPT !.pending = kind]

ProbeOrder ==
    dm.mode \in {"ready", "offline"} /\ dm' = [StartProbe(dm) EXCEPT !.pending = "none"]

StopSpeedAndHold ==
    /\ dm.mode = "speed"
    /\ dm' = [dm EXCEPT !.mode = "stopping", !.result = "running", !.since = 0, !.settle = 0]

(* DmG6220Controller_Disable; the only order a program may give under a fault, in *)
(* the round that meets it.                                                        *)
Disable ==
    /\ ~dm.handled
    /\ dm' = [BeginBurst(dm, "disable", "disabling",
                         IF Fresh(dm) THEN "ready" ELSE "offline", FALSE)
                 EXCEPT !.pending = "none", !.result = "running"]

ClearError ==
    /\ dm.mode \notin Motions /\ ~dm.fault
    /\ dm' = [BeginBurst(dm, "clear", "clearing", "bootDisable", FALSE)
                 EXCEPT !.pending = "none", !.result = "running"]

SetZero ==
    /\ dm.mode = "ready" /\ ~dm.fault /\ Fresh(dm) /\ dm.state = "disabled"
    /\ dm' = [dm EXCEPT !.mode = "zeroing", !.result = "running"]

(* The emergency stop, or another component latching a fault. *)
Stopped == dm' = EmergencyDisable(dm) \/ dm' = [dm EXCEPT !.fault = TRUE]

Order ==
    /\ orders < MaxOrders
    /\ orders' = orders + 1
    /\ \/ \E kind \in Pendings \ {"none"}, inRange \in BOOLEAN : StartMotion(kind, inRange)
       \/ ProbeOrder \/ StopSpeedAndHold \/ Disable \/ ClearError \/ SetZero \/ Stopped
    /\ UNCHANGED << motor, wire, reply, busOff, glitches >>

(* App_Run meets a fault, once. *)
AppFault ==
    /\ dm.fault /\ ~dm.handled
    /\ dm' = [EmergencyDisable(dm) EXCEPT !.handled = TRUE]
    /\ UNCHANGED << motor, wire, reply, busOff, glitches, orders >>

(* DmG6220Controller_Init; the motor may have been left in any state. *)
DmInit ==
    /\ dm = [mode |-> "boot", command |-> "disable", left |-> 0, after |-> "ready",
             emergency |-> FALSE, target |-> "hold", sends |-> 0, pending |-> "none",
             result |-> "idle", valid |-> FALSE, state |-> "disabled", age |-> 0, since |-> 0,
             quiet |-> ProbeInterval, settle |-> 0, frame |-> "none", fault |-> FALSE,
             handled |-> FALSE]
    /\ motor \in [enabled : BOOLEAN, error : {FALSE}]
    /\ wire = "none" /\ reply = "none" /\ busOff = FALSE
    /\ glitches = 0 /\ orders = 0

DmNext == CanTask \/ Bus \/ Glitch \/ CanRecover \/ Order \/ AppFault

DmSpec == DmInit /\ [][DmNext]_dmVars /\ WF_dmVars(CanTask) /\ WF_dmVars(Bus) /\ WF_dmVars(AppFault)

-----------------------------------------------------------------------------
DmTypeOK ==
    /\ dm.mode \in DmModes /\ dm.after \in DmModes /\ dm.pending \in Pendings
    /\ dm.result \in {"idle", "running", "success", "timeout", "stopTimeout", "fault"}
    /\ dm.left \in 0 .. Repeats /\ dm.sends \in 0 .. Repeats
    /\ wire \in {"none", "enable", "disable", "clear", "zero", Probe, Mit}
    /\ reply \in {"none", "enabled", "disabled", "error"}

(* Once a fault is latched, whoever latched it, the task sends no frame that enables *)
(* or drives the motor.                                                              *)
NoPowerUnderFaultStep == dm.fault /\ wire' # wire => wire' \notin {"enable", Mit}

(* The motor stays off under a fault, and no order comes to life after one: a motion *)
(* request that waits for a probe is answered or dropped with that probe, and none   *)
(* outlives a disable, an emergency stop or a fault to move the motor later.         *)
GimbalStaysOff ==
    /\ [](dm.pending # "none" => dm.mode = "probing")
    /\ [][NoPowerUnderFaultStep]_dmVars

(* The three repeats of a disable survive two lost frames: after a fault the motor is *)
(* disabled, unless the bus is off.                                                    *)
Powered == dm.fault /\ motor.enabled /\ ~busOff
FaultDisables == []<>~Powered

(* A probe, an enable, a position, a stop, a disable and a zero all come to an end, *)
(* whatever the motor answers, unless the bus is off.                                *)
Operating == dm.mode \notin {"ready", "offline", "hold", "speed", "locked"} /\ ~busOff
OperationEnds == []<>~Operating

=============================================================================
