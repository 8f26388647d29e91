---------------------------- MODULE MotorDriver ----------------------------
(***************************************************************************)
(* The MotorDriver board: the register file the main controller writes,    *)
(* the command watchdog, the I2C write queue and the gate between the      *)
(* registers and the two H-bridges.                                        *)
(*                                                                         *)
(* One pass of MotorApp_Process is split where an interrupt can be         *)
(* observed: the STOP interrupt of the I2C target (HostWrite) and SysTick  *)
(* (Tick) may run between any two steps of the pass.                       *)
(*                                                                         *)
(* A host write is a partial function from registers to values, because    *)
(* one transaction writes a block of consecutive registers.  Speed and     *)
(* position controllers appear here only as the choice of a duty; they are *)
(* the subject of module MotorControl.                                     *)
(***************************************************************************)
EXTENDS Integers, Sequences

CONSTANTS
    Writes,       \* the write transactions the host may send
    Duties,       \* duty cycles; 0 releases the bridge
    Rpms,         \* target speeds; 0 under SPEED means "hold"
    Timeouts,     \* values of WATCHDOG_TIMEOUT, in ticks; 0 disables it
    DefaultTimeout, \* its value after reset
    QueueLength,  \* kWriteQueueLength
    MaxPass,      \* bound: ticks one pass of the main loop may take
    Horizon       \* bound: elapsed times saturate here

Motors == {1, 2}
Modes  == {"COAST", "RUN", "BRAKE", "SPEED", "POSITION"}
LoopModes == {"SPEED", "POSITION"}

\* Register addresses that differ by motor.
Mode(m) == IF m = 1 THEN "M1_MODE" ELSE "M2_MODE"
Duty(m) == IF m = 1 THEN "M1_DUTY" ELSE "M2_DUTY"
Rpm(m)  == IF m = 1 THEN "M1_TARGET_RPM" ELSE "M2_TARGET_RPM"

ModeRegs == {"M1_MODE", "M2_MODE"}
DutyRegs == {"M1_DUTY", "M2_DUTY"}
RpmRegs  == {"M1_TARGET_RPM", "M2_TARGET_RPM"}

\* "PARAM" stands for every writable register with no part in gating the
\* output: gains, limits, counts per revolution, inversion flags, address.
Registers == ModeRegs \cup DutyRegs \cup RpmRegs
               \cup {"FAULT", "ENABLE", "WATCHDOG_TIMEOUT"}

Legal(r, v) ==
    \/ r \in ModeRegs /\ v \in Modes
    \/ r \in DutyRegs /\ v \in Duties
    \/ r \in RpmRegs  /\ v \in Rpms
    \/ r \in {"FAULT", "ENABLE"} /\ v \in BOOLEAN
    \/ r = "WATCHDOG_TIMEOUT" /\ v \in Timeouts
    \/ r = "PARAM"

IsRegisterFile(f) ==
    /\ f = [r \in Registers |-> f[r]]
    /\ \A r \in Registers : Legal(r, f[r])

ASSUME ConstantsAssumption ==
    /\ Duties \subseteq Nat /\ 0 \in Duties
    /\ Rpms \subseteq Nat /\ 0 \in Rpms
    /\ Timeouts \subseteq Nat /\ DefaultTimeout \in Timeouts
    /\ QueueLength \in Nat \ {0}
    /\ MaxPass \in Nat \ {0}
    /\ Horizon \in Nat
    /\ \A t \in Timeouts : t + 2 * MaxPass < Horizon

VARIABLES
    regs,       \* registers_, the part of it that decides what moves
    status,     \* REG_STATUS, as last computed by RefreshStatus
    regTimeout, \* timeout_active_ of the register map
    timeoutActive, \* g_timeout_active of the application
    armed,      \* g_watchdog_armed
    elapsed,    \* Millis() - g_last_watchdog_refresh_ms
    dirty,      \* g_output_dirty
    ctlDuty,    \* output_duty_q8 of each speed controller
    queue,      \* g_write_*: committed I2C transactions not yet applied
    bridge,     \* what each H-bridge is doing
    pc,         \* the step of MotorApp_Process about to run
    passTicks,  \* ticks since the pass began
    silence,    \* history: ticks since the host was last heard
    granted     \* history: the host asked this motor to move, and nothing
                \* has taken that back since

vars == <<regs, status, regTimeout, timeoutActive, armed, elapsed, dirty,
          ctlDuty, queue, bridge, pc, passTicks, silence, granted>>

Steps == {"serial", "i2c", "recover", "watchdog", "control"}

Saturate(n) == IF n > Horizon THEN Horizon ELSE n
-----------------------------------------------------------------------------
(* The register map. *)

Enabled(f) == f["ENABLE"]

\* Mutant: the speed and position loops do not count as activity.
MotorActiveRunOnly(f, m) == f[Mode(m)] = "RUN" /\ f[Duty(m)] > 0

MotorActive(f, m) ==
    \/ f[Mode(m)] = "RUN" /\ f[Duty(m)] > 0
    \/ f[Mode(m)] \in LoopModes

HasActiveCommand(f, to) ==
    Enabled(f) /\ ~to /\ \E m \in Motors : MotorActive(f, m)

\* STATUS_READY is constant; the per-motor status bytes follow from regs.
StatusOf(f, to) ==
    [enabled |-> Enabled(f), active |-> HasActiveCommand(f, to), timeout |-> to]

ClearMotorMotion(f) ==
    [r \in Registers |->
        IF r \in ModeRegs THEN "COAST"
        ELSE IF r \in DutyRegs \cup RpmRegs THEN 0
        ELSE f[r]]

\* FAULT_FLAGS is write-1-to-clear; every other register takes the value.
ApplyWriteTo(f, w) ==
    [r \in Registers |->
        IF r \notin DOMAIN w THEN f[r]
        ELSE IF r = "FAULT" THEN f[r] /\ ~w[r]
        ELSE w[r]]

Disables(w) == "ENABLE" \in DOMAIN w /\ ~w["ENABLE"]

\* What a mode write implies for the registers it did not mention.
NormalizeControlState(f, w) ==
    IF Disables(w)
    THEN ClearMotorMotion(f)
    ELSE LET Wrote(m, S) == Mode(m) \in DOMAIN w /\ f[Mode(m)] \in S
         IN  [r \in Registers |->
                IF \/ \E m \in Motors : r = Duty(m)
                        /\ Wrote(m, {"COAST", "BRAKE", "POSITION"})
                   \/ \E m \in Motors : r = Rpm(m)
                        /\ Wrote(m, {"COAST", "BRAKE", "POSITION", "RUN"})
                THEN 0 ELSE f[r]]

\* Mutant: no range check.
AcceptAnything(w) == TRUE

Acceptable(w) == \A r \in DOMAIN w : Legal(r, w[r])

Commit(w) == NormalizeControlState(ApplyWriteTo(regs, w), w)

\* Mutant: a timeout only records the fault.
FaultOnly == [regs EXCEPT !["FAULT"] = TRUE]

\* The registers after both motors are forced to coast.
Coasted == [ClearMotorMotion(regs) EXCEPT !["FAULT"] = TRUE]
-----------------------------------------------------------------------------
Init ==
    /\ regs = [r \in Registers |->
                 IF r \in ModeRegs THEN "COAST"
                 ELSE IF r \in DutyRegs \cup RpmRegs THEN 0
                 ELSE IF r = "WATCHDOG_TIMEOUT" THEN DefaultTimeout
                 ELSE r = "ENABLE"]
    /\ status = StatusOf(regs, FALSE)
    /\ regTimeout = FALSE /\ timeoutActive = FALSE
    /\ armed = FALSE /\ elapsed = 0
    /\ dirty = FALSE
    /\ ctlDuty = [m \in Motors |-> 0]
    /\ queue = <<>>
    /\ bridge = [m \in Motors |-> "coast"]
    /\ pc = "serial" /\ passTicks = 0
    /\ silence = 0
    /\ granted = [m \in Motors |-> FALSE]

(* A write that CommitWrite accepts: the registers, then the lease. *)
CommitWrite(w) ==
    /\ regs' = Commit(w)
    /\ regTimeout' = FALSE /\ timeoutActive' = FALSE
    /\ status' = StatusOf(regs', FALSE)
    /\ armed' = HasActiveCommand(regs', FALSE)
    /\ elapsed' = IF armed' THEN 0 ELSE elapsed
    /\ dirty' = TRUE
    /\ silence' = 0
    /\ granted' = [m \in Motors |->
          IF Mode(m) \in DOMAIN w
          THEN regs'[Mode(m)] \in {"RUN", "SPEED", "POSITION"}
          ELSE granted[m] /\ ~Disables(w)]

ForceCoast ==
    /\ regs' = Coasted
    /\ timeoutActive' = TRUE /\ regTimeout' = TRUE
    /\ status' = StatusOf(Coasted, TRUE)
    /\ armed' = FALSE
    /\ dirty' = TRUE
    /\ granted' = [m \in Motors |-> FALSE]

(* The I2C STOP interrupt: the transaction is acknowledged on the bus      *)
(* whether or not there is room for it.                                    *)
HostWrite(w) ==
    /\ queue' = IF Len(queue) < QueueLength THEN Append(queue, w) ELSE queue
    /\ UNCHANGED <<regs, status, regTimeout, timeoutActive, armed, elapsed,
                   dirty, ctlDuty, bridge, pc, passTicks, silence, granted>>

Tick ==
    /\ passTicks < MaxPass
    /\ passTicks' = passTicks + 1
    /\ elapsed' = Saturate(elapsed + 1)
    /\ silence' = Saturate(silence + 1)
    /\ UNCHANGED <<regs, status, regTimeout, timeoutActive, armed, dirty,
                   ctlDuty, queue, bridge, pc, granted>>

(* ProcessSerialRx: any number of frames, each a write or a heartbeat.     *)
SerialWrite(w) ==
    /\ pc = "serial"
    /\ Acceptable(w)
    /\ CommitWrite(w)
    /\ UNCHANGED <<ctlDuty, queue, bridge, pc, passTicks>>

SerialHeartbeat ==
    /\ pc = "serial"
    /\ IF ~timeoutActive /\ HasActiveCommand(regs, regTimeout)
       THEN elapsed' = 0 /\ armed' = TRUE
       ELSE UNCHANGED <<elapsed, armed>>
    /\ silence' = 0
    /\ UNCHANGED <<regs, status, regTimeout, timeoutActive, dirty, ctlDuty,
                   queue, bridge, pc, passTicks, granted>>

SerialDone ==
    /\ pc = "serial"
    /\ pc' = "i2c"
    /\ UNCHANGED <<regs, status, regTimeout, timeoutActive, armed, elapsed,
                   dirty, ctlDuty, queue, bridge, passTicks, silence, granted>>

(* ProcessI2cWrites drains the queue; interrupts may refill it meanwhile.  *)
I2cWrite ==
    /\ pc = "i2c" /\ queue # <<>>
    /\ queue' = Tail(queue)
    /\ IF Acceptable(Head(queue))
       THEN CommitWrite(Head(queue))
       ELSE UNCHANGED <<regs, status, regTimeout, timeoutActive, armed,
                        elapsed, dirty, silence, granted>>
    /\ UNCHANGED <<ctlDuty, bridge, pc, passTicks>>

I2cDone ==
    /\ pc = "i2c" /\ queue = <<>>
    /\ pc' = "recover"
    /\ UNCHANGED <<regs, status, regTimeout, timeoutActive, armed, elapsed,
                   dirty, ctlDuty, queue, bridge, passTicks, silence, granted>>

(* BoardI2cTarget_Process: SDA held low for 50 ms resets the peripheral,   *)
(* which discards the queue; the motors are then forced to coast.          *)
BusStuck ==
    /\ pc = "recover"
    /\ queue' = <<>>
    /\ ForceCoast
    /\ pc' = "watchdog"
    /\ UNCHANGED <<elapsed, ctlDuty, bridge, passTicks, silence>>

BusHealthy ==
    /\ pc = "recover"
    /\ pc' = "watchdog"
    /\ UNCHANGED <<regs, status, regTimeout, timeoutActive, armed, elapsed,
                   dirty, ctlDuty, queue, bridge, passTicks, silence, granted>>

\* Mutant: the moment of expiry is tested for equality.
ExpiredExactly == elapsed = regs["WATCHDOG_TIMEOUT"] + 1

Expired == elapsed > regs["WATCHDOG_TIMEOUT"]

CheckWatchdog ==
    /\ pc = "watchdog"
    /\ pc' = "control"
    /\ IF regs["WATCHDOG_TIMEOUT"] = 0 \/ ~HasActiveCommand(regs, regTimeout)
       THEN /\ armed' = FALSE
            /\ UNCHANGED <<regs, status, regTimeout, timeoutActive, elapsed,
                           dirty, granted>>
       ELSE IF ~armed
       THEN /\ armed' = TRUE /\ elapsed' = 0
            /\ UNCHANGED <<regs, status, regTimeout, timeoutActive, dirty, granted>>
       ELSE IF ~timeoutActive /\ Expired
       THEN ForceCoast /\ UNCHANGED elapsed
       ELSE UNCHANGED <<regs, status, regTimeout, timeoutActive, armed,
                        elapsed, dirty, granted>>
    /\ UNCHANGED <<ctlDuty, queue, bridge, passTicks, silence>>
-----------------------------------------------------------------------------
(* The controllers and the output stage. *)

\* Mutant: the output stage trusts the modes and skips the enable gate.
BridgeUngated(f, d, inhibited, m) ==
    LET duty == IF f[Mode(m)] \in LoopModes THEN d[m] ELSE f[Duty(m)]
    IN  IF f[Mode(m)] = "COAST" THEN "coast"
        ELSE IF f[Mode(m)] = "BRAKE" THEN "brake"
        ELSE IF duty = 0 THEN "coast" ELSE "run"

\* MotorControl_Apply: what a bridge does for registers f and loop duty d.
BridgeFor(f, d, inhibited, m) ==
    LET duty == IF f[Mode(m)] \in LoopModes THEN d[m] ELSE f[Duty(m)]
    IN  IF inhibited \/ ~Enabled(f) \/ f[Mode(m)] = "COAST" THEN "coast"
        ELSE IF f[Mode(m)] = "BRAKE" THEN "brake"
        ELSE IF duty = 0 THEN "coast" ELSE "run"

\* MotorControl_UpdateSpeed: each motor in a loop mode whose period has come
\* (M) gets a new duty; POSITION also publishes its command as TARGET_RPM.
LoopRegs(M, d, v) ==
    [r \in Registers |->
        IF \E m \in M : r = Duty(m) THEN d[IF r = "M1_DUTY" THEN 1 ELSE 2]
        ELSE IF \E m \in M : r = Rpm(m) /\ regs[Mode(m)] = "POSITION"
             THEN v[IF r = "M1_TARGET_RPM" THEN 1 ELSE 2]
        ELSE regs[r]]

LoopDuty(M, d) ==
    [m \in Motors |-> IF regs[Mode(m)] \notin LoopModes THEN 0
                      ELSE IF m \in M THEN d[m] ELSE ctlDuty[m]]

\* The end of the pass: run the loops unless inhibited, then refresh the
\* bridges if anything marked them dirty.
ControlAndApply(M, d, v) ==
    /\ pc = "control"
    /\ \A m \in M : regs[Mode(m)] \in LoopModes
    /\ IF ~timeoutActive /\ Enabled(regs)
       THEN regs' = LoopRegs(M, d, v) /\ ctlDuty' = LoopDuty(M, d)
       ELSE M = {} /\ UNCHANGED <<regs, ctlDuty>>
    /\ IF dirty \/ M # {}
       THEN /\ bridge' = [m \in Motors |->
                             BridgeFor(regs', ctlDuty', timeoutActive, m)]
            /\ status' = StatusOf(regs', regTimeout)
       ELSE UNCHANGED <<bridge, status>>
    /\ dirty' = FALSE
    /\ pc' = "serial" /\ passTicks' = 0
    /\ UNCHANGED <<regTimeout, timeoutActive, armed, elapsed, queue, silence,
                   granted>>

Control == \E M \in SUBSET Motors, d \in [Motors -> Duties],
              v \in [Motors -> Rpms] : ControlAndApply(M, d, v)
-----------------------------------------------------------------------------
Next ==
    \/ \E w \in Writes : HostWrite(w)
    \/ \E w \in Writes : SerialWrite(w)
    \/ SerialHeartbeat
    \/ SerialDone
    \/ I2cWrite
    \/ I2cDone
    \/ BusStuck
    \/ BusHealthy
    \/ CheckWatchdog
    \/ Control
    \/ Tick

Spec == Init /\ [][Next]_vars
-----------------------------------------------------------------------------
(* Every variable keeps its type: the register file stays legal, so no     *)
(* write or control step stores a mode, duty or target outside its range.  *)
TypeOK ==
    /\ IsRegisterFile(regs)
    /\ status \in [enabled : BOOLEAN, active : BOOLEAN, timeout : BOOLEAN]
    /\ regTimeout \in BOOLEAN /\ timeoutActive \in BOOLEAN
    /\ armed \in BOOLEAN /\ dirty \in BOOLEAN
    /\ elapsed \in 0..Horizon /\ silence \in 0..Horizon
    /\ ctlDuty \in [Motors -> Duties]
    /\ queue \in Seq(Writes) /\ Len(queue) <= QueueLength
    /\ bridge \in [Motors -> {"coast", "brake", "run"}]
    /\ pc \in Steps /\ passTicks \in 0..MaxPass
    /\ granted \in [Motors -> BOOLEAN]

(* A bridge that is driven has heard from its host: with a watchdog set,   *)
(* it is never driven longer than the timeout plus two loop passes after   *)
(* the last accepted write or counted heartbeat (motor_app.cpp, the lease  *)
(* across CommitWrite, keepalive, CheckWatchdog and Apply).                *)
DrivenWithinLease ==
    \A m \in Motors :
        bridge[m] = "run" /\ regs["WATCHDOG_TIMEOUT"] > 0
            => silence <= regs["WATCHDOG_TIMEOUT"] + 2 * MaxPass

(* Nothing restarts a motor by itself: while the output stage has nothing  *)
(* left to do, a driven bridge belongs to a motor the host put into a      *)
(* moving mode after the last timeout, bus recovery, disable, coast or     *)
(* brake.  Clearing the fault, writing a gain or a heartbeat after a       *)
(* timeout does not do it.                                                 *)
NoUnrequestedMotion ==
    ~dirty => \A m \in Motors : bridge[m] = "run" => granted[m]

(* What the host reads in REG_STATUS is the truth about the bridges: while *)
(* the output stage has nothing left to do, a driven bridge shows ACTIVE,  *)
(* ENABLED and no TIMEOUT.                                                 *)
StatusTellsTruth ==
    ~dirty => \A m \in Motors : bridge[m] = "run" =>
                 status.active /\ status.enabled /\ ~status.timeout
(* The board is a dead man's switch: it drives at most the motors the host *)
(* asked for, the ones it dropped on a timeout, a bus recovery or a        *)
(* disable excepted, and none beyond the watchdog limit; every step of its *)
(* main loop and of its interrupts is a step of that promise.              *)
Promised == INSTANCE DeadManSwitch WITH
    Engines <- Motors,
    Limits  <- Timeouts,
    Slack   <- 2 * MaxPass,
    asked   <- {m \in Motors : granted[m]},
    limit   <- regs["WATCHDOG_TIMEOUT"],
    driven  <- {m \in Motors : bridge[m] = "run"}

KeepsPromise == Promised!Promise
-----------------------------------------------------------------------------
(* The inductive invariant behind the safety properties.                   *)

Active == HasActiveCommand(regs, regTimeout)

\* The two copies of the timeout flag and the status register agree.
MirrorsAgree ==
    /\ regTimeout = timeoutActive
    /\ status = StatusOf(regs, regTimeout)

\* An active command holds an armed lease, dated from the last contact.
LeaseArmed ==
    Active /\ regs["WATCHDOG_TIMEOUT"] > 0 => armed /\ elapsed = silence

\* How old the lease of an active command can be at each point of the pass:
\* the check of this pass, or else of the pass before, found it young enough.
LeaseAge ==
    Active /\ regs["WATCHDOG_TIMEOUT"] > 0 =>
        silence <= regs["WATCHDOG_TIMEOUT"] + passTicks
                     + (IF pc = "control" THEN 0 ELSE MaxPass)

\* A bridge outlives the command that drove it by less than a pass.
BridgeAge ==
    \A m \in Motors :
        bridge[m] = "run" /\ regs["WATCHDOG_TIMEOUT"] > 0 =>
            silence <= regs["WATCHDOG_TIMEOUT"] + MaxPass + passTicks

\* With nothing left to apply the bridges are what the registers ask for.
OutputsCurrent ==
    ~dirty => \A m \in Motors :
                 bridge[m] = BridgeFor(regs, ctlDuty, timeoutActive, m)

\* A moving mode in the registers was granted by the host.
ModesGranted ==
    \A m \in Motors :
        regs[Mode(m)] \in {"RUN", "SPEED", "POSITION"} => granted[m]

Inductive ==
    /\ TypeOK
    /\ MirrorsAgree
    /\ LeaseArmed
    /\ LeaseAge
    /\ BridgeAge
    /\ OutputsCurrent
    /\ ModesGranted
=============================================================================
