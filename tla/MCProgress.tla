----------------------------- MODULE MCProgress -----------------------------
(***************************************************************************)
(* What must come about: the liveness properties of the parts, each on an  *)
(* instance small enough to search its cycles, and under the fairness its  *)
(* own module states.  As in MCServices, "part" picks one part for the     *)
(* whole behaviour; the store waits in an initial state, the variables of  *)
(* the others stay 0.                                                      *)
(***************************************************************************)
EXTENDS SequenceStore

CONSTANT Parts   \* the parts that are looked at

VARIABLES
    part,   \* the part that runs; it never changes
    controlMode, dir, rpm, target, enabled, timeout, st, count, sample, drive, controlPc,
    writes, lag, untouched, pushes, rampTime, asked,
    regs, queue, age, warm, up, chassisLease, mask, want, streak, served, fault, chassisHandled,
    job, todo, chassisSent, retried, lost, chassisCommands, outages, trips, chassisCalm, idle, posed,
    armed, serving, unserved,
    dm, motor, wire, reply, busOff, glitches, gimbalOrders,
    foc, phases, nfault, sense, enc, main, missed, keys, bridgeFaults,
    shaft, standing, measured, loop, wanted, place, apart, integral, iq,
    guard, stored, chip, supply, powerLease, powerHandled, hot, powerCalm, events,
    params, config, parametersFram, est, lastFixed, yaw, rest, truth, seen, still, learntFor,
    parametersCommands,
    runnerPc, car, late, program, run, runnerHandled, runnerCommands, manual,
    adc, scan, working, frame, valid, errors, reads,
    tasks, schedulerAt, chassisOn, driving, ran, telem, schedulerSent, schedulerOrders,
    panelMode, selected, screen, cached, waited, timer, watching, wiped, panelOrders,
    tx, rx, toRx, toTx, taken, confirmed, sends, losses, resets,
    ring, head, tail, active, length, channel, done, consoleAt, accepted, offered, consoleSent,
    consoleFaults

control == <<controlMode, dir, rpm, target, enabled, timeout, st, count, sample, drive,
             controlPc, writes, lag, untouched, pushes, rampTime, asked>>
chassis == <<regs, queue, age, warm, up, chassisLease, mask, want, streak, served, fault,
             chassisHandled, job, todo, chassisSent, retried, lost, chassisCommands, outages,
             trips, chassisCalm, idle, posed, armed, serving, unserved>>
gimbal == <<dm, motor, wire, reply, busOff, glitches, gimbalOrders>>
bridge == <<foc, phases, nfault, sense, enc, main, missed, keys, bridgeFaults>>
loops == <<shaft, standing, measured, loop, wanted, place, apart, integral, iq>>
power == <<guard, stored, chip, supply, powerLease, powerHandled, hot, powerCalm, events>>
parameters == <<params, config, parametersFram, est, lastFixed, yaw, rest, truth, seen, still,
                learntFor, parametersCommands>>
runner == <<runnerPc, car, late, program, run, runnerHandled, runnerCommands, manual>>
sampler == <<adc, scan, working, frame, valid, errors, reads>>
scheduler == <<tasks, schedulerAt, chassisOn, driving, ran, telem, schedulerSent,
               schedulerOrders>>
panel == <<panelMode, selected, screen, cached, waited, timer, watching, wiped, panelOrders>>
radio == <<tx, rx, toRx, toTx, taken, confirmed, sends, losses, resets>>
console == <<ring, head, tail, active, length, channel, done, consoleAt, accepted, offered,
             consoleSent, consoleFaults>>
all == <<part, control, chassis, gimbal, bridge, loops, power, vars, parameters, runner,
         sampler, scheduler, panel, radio, console>>

-----------------------------------------------------------------------------
Wheels(l, r) == [m \in {1, 2} |-> IF m = 2 THEN l ELSE r]

MCLegacy == {<<<<1, 0>>>>, <<<<2, 0>>, <<1, 0>>>>}
MCStored == {<<<<1, 2>>>>, <<<<1, 0>>, <<2, 2>>>>}
MCFram == LegacyFram([s \in Slots |-> CHOOSE l \in LegacySlots : TRUE])
MCDefaults == [trip |-> 0, release |-> 1, mask |-> "new", infrared |-> "off", bias |-> 0]

S(op, next, other) == [op |-> op, next |-> next, other |-> other]
MCPrograms ==
    {<<S("uturn", 0, 3), S("turnOff", 0, 0), S("wait", 1, 0)>>,
     <<S("driveMm", 0, 2), S("turn", 0, 0), S("stop", 1, 0)>>,
     <<S("straight", 0, 0), S("follow", 0, 0), S("loop", 1, 4), S("end", 0, 0)>>}

MCGuard == [trip |-> 1, release |-> 1, comm |-> 1, latch |-> TRUE, inhibit |-> TRUE]
MCPeriod == [chassis |-> 2, telem |-> 1, imu |-> 1, gray |-> 1]

(* MotorControl: positions and speeds. *)
Seek == INSTANCE MotorControl WITH
    MaxCount <- 6, Targets <- {-3, 0, 2}, Rpms <- {0, 1}, PositionRpm <- 1, AccelRate <- 1,
    DecelRate <- 1, RampScale <- 3, SpeedPeriod <- 1, PositionPeriod <- 2, Gain <- 2, Cpr <- 2,
    Enter <- 0, Exit <- 3, Settle <- 1, Slip <- {1}, MaxPushes <- 1, MaxLag <- 1,
    MaxWrites <- 2, Horizon <- 3, mode <- controlMode, pc <- controlPc

(* ChassisLink: one command, and the bus fails once. *)
Link == INSTANCE ChassisLink WITH
    Goals <- {Wheels(1, 1)}, ShellModes <- {"POSITION"}, Limit <- 2, Threshold <- 1,
    Looping <- {}, QueueLength <- 1, MaxCommands <- 1, MaxOutages <- 1, MaxTrips <- 0,
    lease <- chassisLease, handled <- chassisHandled, sent <- chassisSent,
    commands <- chassisCommands, calm <- chassisCalm

(* DmGimbal. *)
Dm == INSTANCE DmGimbal WITH
    BootDelay <- 1, ProbeInterval <- 2, ProbeTimeout <- 2, SpecialInterval <- 1,
    EnableTimeout <- 2, OperationTimeout <- 2, StopTimeout <- 2, FeedbackTimeout <- 1,
    SettleTicks <- 1, Repeats <- 3, Longest <- 3, MaxGlitches <- 1, MaxOrders <- 1,
    orders <- gimbalOrders

(* FocMotor. *)
Foc == INSTANCE FocMotor WITH
    Stale <- 2, SamplePeriod <- 1, Timeout <- 1, TripSamples <- 2, MaxKeys <- 2, MaxFaults <- 1,
    MaxMisses <- 1, faults <- bridgeFaults

(* FocLoops. *)
Loop == INSTANCE FocLoops WITH
    Turn <- 8, Fastest <- 2, MaxTarget <- 3, TargetStep <- 2, PlaceStep <- 2, IqLimit <- 3,
    IntegralScale <- 2, Filter <- 2, ReleaseError <- 1, Zone <- 1, ErrorDivisor <- 1, Damping <- 1,
    DirectLimit <- 2, CountsPerRpm <- 2, SpeedLimit <- 2

(* PowerGuard. *)
Power == INSTANCE PowerGuard WITH
    Configs <- {MCGuard}, Most <- 2, MaxEvents <- 1, lease <- powerLease,
    handled <- powerHandled, calm <- powerCalm

(* ImuBias, with ConfigStore in it. *)
Imu == INSTANCE ImuBias WITH
    Levels <- {0, 1}, Masks <- {"new"}, Infrareds <- {"off"}, Biases <- -2..2,
    Defaults <- MCDefaults, Images <- {}, Extensions <- {}, Truths <- {-4, 1},
    RequiredSamples <- 2, Window <- 2, Cooldown <- 2, RuntimeLimit <- 3, MeanLimit <- 4,
    FilterDivisor <- 2, StepLimit <- 1, MaxImuCommands <- 1, configFram <- parametersFram,
    imuCommands <- parametersCommands

(* ActionRunner, on the motions of Motion. *)
Car == INSTANCE ActionRunner WITH
    RunnerPrograms <- MCPrograms, Repeats <- 1, MaxCommands <- 1,
    handled <- runnerHandled, commands <- runnerCommands

(* GrayScan. *)
Scan == INSTANCE GrayScan WITH
    Outer <- <<"a", "b">>, Core <- <<"c", "d">>, MaxErrors <- 2, MaxReads <- 2

(* Scheduler. *)
Tasks == INSTANCE Scheduler WITH
    BootTasks <- <<"chassis">>, Period <- MCPeriod, Late <- {"telem", "imu"},
    TaskSlots <- 2, Wrap <- 10, Behind <- 2, Profiles <- {"full", "motor"}, MaxOrders <- 3,
    at <- schedulerAt, sent <- schedulerSent, orders <- schedulerOrders

(* Display. *)
Oled == INSTANCE Display WITH
    Monitors <- {"imu", "gray"}, Selections <- {1, 2}, LongestTime <- 2, Refresh <- 1,
    MaxPanelOrders <- 3, mode <- panelMode

(* LoraLink. *)
Lora == INSTANCE LoraLink WITH
    Payloads <- {"p"}, Numbers <- 4, MaxRetries <- 1, AckTimeout <- 1, QueueDepth <- 1,
    InAir <- 2, MaxSends <- 3, MaxLosses <- 2, MaxResets <- 0

(* DebugUart. *)
Text == INSTANCE DebugUart WITH
    TxSize <- 4, Block <- 2, LongestText <- 3, MaxBytes <- 7, MaxFaults <- 0,
    txAt <- consoleAt, sentBytes <- consoleSent, faults <- consoleFaults

-----------------------------------------------------------------------------
NoControl == controlMode = 0 /\ dir = 0 /\ rpm = 0 /\ target = 0 /\ enabled = 0 /\ timeout = 0
    /\ st = 0 /\ count = 0 /\ sample = 0 /\ drive = 0 /\ controlPc = 0 /\ writes = 0 /\ lag = 0
    /\ untouched = 0 /\ pushes = 0 /\ rampTime = 0 /\ asked = 0
NoChassis == regs = 0 /\ queue = 0 /\ age = 0 /\ warm = 0 /\ up = 0 /\ chassisLease = 0
    /\ mask = 0 /\ want = 0 /\ streak = 0 /\ served = 0 /\ fault = 0 /\ chassisHandled = 0
    /\ job = 0 /\ todo = 0 /\ chassisSent = 0 /\ retried = 0 /\ lost = 0 /\ chassisCommands = 0
    /\ outages = 0 /\ trips = 0 /\ chassisCalm = 0 /\ idle = 0 /\ posed = 0
    /\ armed = 0 /\ serving = 0 /\ unserved = 0
NoGimbal == dm = 0 /\ motor = 0 /\ wire = 0 /\ reply = 0 /\ busOff = 0 /\ glitches = 0
    /\ gimbalOrders = 0
NoBridge == foc = 0 /\ phases = 0 /\ nfault = 0 /\ sense = 0 /\ enc = 0 /\ main = 0
    /\ missed = 0 /\ keys = 0 /\ bridgeFaults = 0
NoLoops == shaft = 0 /\ standing = 0 /\ measured = 0 /\ loop = 0 /\ wanted = 0 /\ place = 0
    /\ apart = 0 /\ integral = 0 /\ iq = 0
NoPower == guard = 0 /\ stored = 0 /\ chip = 0 /\ supply = 0 /\ powerLease = 0
    /\ powerHandled = 0 /\ hot = 0 /\ powerCalm = 0 /\ events = 0
NoParameters == params = 0 /\ config = 0 /\ parametersFram = 0 /\ est = 0 /\ lastFixed = 0
    /\ yaw = 0 /\ rest = 0 /\ truth = 0 /\ seen = 0 /\ still = 0 /\ learntFor = 0
    /\ parametersCommands = 0
NoRunner == runnerPc = 0 /\ car = 0 /\ late = 0 /\ program = 0 /\ run = 0 /\ runnerHandled = 0
    /\ runnerCommands = 0 /\ manual = 0
NoSampler == adc = 0 /\ scan = 0 /\ working = 0 /\ frame = 0 /\ valid = 0 /\ errors = 0
    /\ reads = 0
NoScheduler == tasks = 0 /\ schedulerAt = 0 /\ chassisOn = 0 /\ driving = 0 /\ ran = 0
    /\ telem = 0 /\ schedulerSent = 0 /\ schedulerOrders = 0
NoPanel == panelMode = 0 /\ selected = 0 /\ screen = 0 /\ cached = 0 /\ waited = 0 /\ timer = 0
    /\ watching = 0 /\ wiped = 0 /\ panelOrders = 0
NoRadio == tx = 0 /\ rx = 0 /\ toRx = 0 /\ toTx = 0 /\ taken = 0 /\ confirmed = 0 /\ sends = 0
    /\ losses = 0 /\ resets = 0
NoConsole == ring = 0 /\ head = 0 /\ tail = 0 /\ active = 0 /\ length = 0 /\ channel = 0
    /\ done = 0 /\ consoleAt = 0 /\ accepted = 0 /\ offered = 0 /\ consoleSent = 0
    /\ consoleFaults = 0

PartInit ==
    /\ part \in Parts
    /\ Init /\ (part # "store" => fram = MCFram)
    /\ IF part = "goals" THEN Seek!ControlInit ELSE NoControl
    /\ IF part = "link" THEN Link!Init ELSE NoChassis
    /\ IF part = "gimbal" THEN Dm!DmInit ELSE NoGimbal
    /\ IF part = "foc" THEN Foc!FocInit ELSE NoBridge
    /\ IF part = "loops" THEN Loop!LoopInit ELSE NoLoops
    /\ IF part = "power" THEN Power!PowerInit ELSE NoPower
    /\ IF part = "imu" THEN Imu!ImuInit ELSE NoParameters
    /\ IF part = "runner" THEN Car!RunnerInit ELSE NoRunner
    /\ IF part = "scan" THEN Scan!ScanInit ELSE NoSampler
    /\ IF part = "tasks" THEN Tasks!SchedInit ELSE NoScheduler
    /\ IF part = "display" THEN Oled!DisplayInit ELSE NoPanel
    /\ IF part = "lora" THEN Lora!LoraInit ELSE NoRadio
    /\ IF part = "text" THEN Text!TxInit ELSE NoConsole

OnlyControl == UNCHANGED <<part, chassis, gimbal, bridge, loops, power, vars, parameters,
                           runner, sampler, scheduler, panel, radio, console>>
OnlyChassis == UNCHANGED <<part, control, gimbal, bridge, loops, power, vars, parameters,
                           runner, sampler, scheduler, panel, radio, console>>
OnlyGimbal == UNCHANGED <<part, control, chassis, bridge, loops, power, vars, parameters,
                          runner, sampler, scheduler, panel, radio, console>>
OnlyBridge == UNCHANGED <<part, control, chassis, gimbal, loops, power, vars, parameters,
                          runner, sampler, scheduler, panel, radio, console>>
OnlyLoops == UNCHANGED <<part, control, chassis, gimbal, bridge, power, vars, parameters,
                         runner, sampler, scheduler, panel, radio, console>>
OnlyPower == UNCHANGED <<part, control, chassis, gimbal, bridge, loops, vars, parameters,
                         runner, sampler, scheduler, panel, radio, console>>
OnlyStore == UNCHANGED <<part, control, chassis, gimbal, bridge, loops, power, parameters,
                         runner, sampler, scheduler, panel, radio, console>>
OnlyParameters == UNCHANGED <<part, control, chassis, gimbal, bridge, loops, power, vars,
                              runner, sampler, scheduler, panel, radio, console>>
OnlyRunner == UNCHANGED <<part, control, chassis, gimbal, bridge, loops, power, vars,
                          parameters, sampler, scheduler, panel, radio, console>>
OnlySampler == UNCHANGED <<part, control, chassis, gimbal, bridge, loops, power, vars,
                           parameters, runner, scheduler, panel, radio, console>>
OnlyScheduler == UNCHANGED <<part, control, chassis, gimbal, bridge, loops, power, vars,
                             parameters, runner, sampler, panel, radio, console>>
OnlyPanel == UNCHANGED <<part, control, chassis, gimbal, bridge, loops, power, vars,
                         parameters, runner, sampler, scheduler, radio, console>>
OnlyRadio == UNCHANGED <<part, control, chassis, gimbal, bridge, loops, power, vars,
                         parameters, runner, sampler, scheduler, panel, console>>
OnlyConsole == UNCHANGED <<part, control, chassis, gimbal, bridge, loops, power, vars,
                           parameters, runner, sampler, scheduler, panel, radio>>

PartNext ==
    \/ part = "goals" /\ Seek!ControlNext /\ OnlyControl
    \/ part = "link" /\ Link!Next /\ OnlyChassis
    \/ part = "gimbal" /\ Dm!DmNext /\ OnlyGimbal
    \/ part = "foc" /\ Foc!FocNext /\ OnlyBridge
    \/ part = "loops" /\ Loop!LoopNext /\ OnlyLoops
    \/ part = "power" /\ Power!PowerNext /\ OnlyPower
    \/ part = "store" /\ Next /\ OnlyStore
    \/ part = "imu" /\ Imu!ImuNext /\ OnlyParameters
    \/ part = "runner" /\ Car!RunnerNext /\ OnlyRunner
    \/ part = "scan" /\ Scan!ScanNext /\ OnlySampler
    \/ part = "tasks" /\ Tasks!SchedNext /\ OnlyScheduler
    \/ part = "display" /\ Oled!DisplayNext /\ OnlyPanel
    \/ part = "lora" /\ Lora!LoraNext /\ OnlyRadio
    \/ part = "text" /\ Text!TxNext /\ OnlyConsole

(* The fairness of each part, as its module states it. *)
Fairness ==
    /\ WF_control(part = "goals" /\ Seek!Tick)
    /\ WF_control(part = "goals" /\ Seek!Sample)
    /\ WF_control(part = "goals" /\ Seek!Control)
    /\ WF_chassis(part = "link" /\ Link!Tick)
    /\ WF_chassis(part = "link" /\ Link!Apply)
    /\ WF_chassis(part = "link" /\ Link!Expire)
    /\ WF_chassis(part = "link" /\ Link!Transfers)
    /\ WF_chassis(part = "link" /\ Link!Service)
    /\ SF_chassis(part = "link" /\ Link!HandleFault)
    /\ WF_gimbal(part = "gimbal" /\ Dm!CanTask)
    /\ WF_gimbal(part = "gimbal" /\ Dm!Bus)
    /\ WF_gimbal(part = "gimbal" /\ Dm!AppFault)
    /\ WF_bridge(part = "foc" /\ Foc!Command)
    /\ WF_bridge(part = "foc" /\ Foc!AdcSample)
    /\ WF_loops(part = "loops" /\ Loop!Turning)
    /\ WF_power(part = "power" /\ Power!ChassisService)
    /\ WF_vars(part = "store" /\ Code)
    /\ WF_parameters(part = "imu" /\ Imu!ImuUpdate)
    /\ WF_runner(part = "runner" /\ Car!MainLoop)
    /\ \A t \in DOMAIN Car!DueFrom : []<>(part = "runner" => runnerPc = t)
    /\ \A t \in {"heading", "line", "route", "reacquire", "sequence", "instr"} :
           WF_runner(part = "runner" /\ Car!Expire(t))
    /\ WF_sampler(part = "scan" /\ Scan!Settle)
    /\ WF_sampler(part = "scan" /\ Scan!Interrupt)
    /\ WF_sampler(part = "scan" /\ Scan!Update)
    /\ WF_scheduler(part = "tasks" /\ Tasks!Loop)
    /\ WF_scheduler(part = "tasks" /\ Tasks!Tick)
    /\ WF_panel(part = "display" /\ Oled!StatusTask)
    /\ WF_panel(part = "display" /\ Oled!TimerUpdate)
    /\ WF_panel(part = "display" /\ Oled!PanelTick)
    /\ WF_radio(part = "lora" /\ Lora!Serving)
    /\ WF_console(part = "text" /\ Text!Transfer)
    /\ WF_console(part = "text" /\ Text!IrqStep)
    /\ WF_console(part = "text" /\ Text!MainServes)

PartSpec == PartInit /\ [][PartNext]_all /\ Fairness

-----------------------------------------------------------------------------
ASSUME ConstantsAreLegal ==
    Seek!ControlConstants /\ StoreConstants /\ Car!RunnerConstants

(* Once the host is done, a position loop with nobody touching the wheel     *)
(* comes to rest within the exit tolerance and stays there                   *)
(* (motor_control.cpp UpdatePositionMotor).                                  *)
PositionSettles ==
    <>[](part = "goals" /\ Seek!Positioning) => <>[](part = "goals" => Seek!Settled)

(* Once the host is done, a speed command is reached by the ramp and kept    *)
(* (motor_control.cpp UpdateSpeedMotor).                                     *)
SpeedReached ==
    <>[](part = "goals" /\ Seek!Speeding) => <>[](part = "goals" => Seek!AtSpeed)

(* A fault ends all motion of the wheels, whatever the bus does (chassis.cpp, *)
(* app_main.cpp App_Run).                                                    *)
FaultStops ==
    <>[](part = "link" /\ fault) => <>[](part = "link" => Link!AllCoast)

(* On a healthy bus the watchdog never stops a wheel the chassis claims      *)
(* (chassis.cpp Chassis_Service).                                            *)
NoSpuriousTimeout == [][part = "link" => Link!NoSpuriousTimeoutStep]_all

(* A fault disables the gimbal motor, unless the bus is off                  *)
(* (dm_g6220_controller.cpp).                                                *)
FaultDisables == []<>(part = "gimbal" => ~Dm!Powered)

(* Every operation of the gimbal motor ends, in time or in its timeout.      *)
OperationEnds == []<>(part = "gimbal" => ~Dm!Operating)

(* A low nFAULT ends with the bridge off, at the end of the alignment at the *)
(* latest (motor_open_loop.c).                                               *)
FaultEndsDrive == []<>(part = "foc" => ~(phases /\ nfault.low))

(* The measured speed of a shaft that stands still comes down to 0           *)
(* (motor_open_loop.c, the speed filter).                                    *)
StandsStill ==
    <>[](part = "loops" /\ standing) => <>[](part = "loops" => measured = 0)

(* A chassis inhibited by the power guard gives its lease up (chassis.cpp).  *)
InhibitStops == []<>(part = "power" => ~(powerLease /\ guard.inhibit))

(* Left at rest, the estimator ends within a fraction of the true bias,      *)
(* unless the residual is more than a window may correct (app_imu.cpp).        *)
Converges == <>[](part = "imu" /\ rest) => <>[](part = "imu" => Imu!Near)

(* Every program ends (action.cpp: its sequence limit).                      *)
ProgramEnds == []<>(part = "runner" => ~run.on)

(* Every manoeuvre of the road controller ends (road_event_controller.cpp).  *)
ManoeuvreEnds == []<>(part = "runner" => ~Car!Manoeuvring(car))

(* A fault ends every motion, whatever was started after it (app_main.cpp).  *)
FaultRests == []<>(part = "runner" /\ car.fault => Car!AtRest(car))

(* Frames keep coming, whatever conversions fail (app_grayscale.cpp).            *)
FramesCome == []<>(part = "scan" => valid)

(* While the car drives, the chassis service keeps being run, whatever other *)
(* tasks are late (scheduler.cpp).                                           *)
ChassisServed == []<>(part = "tasks" => Tasks!Served)

(* The competition page catches up with the mode and the selection, unless a *)
(* timer wiped it unnoticed (app_main.cpp App_CompetitionOledUpdate).        *)
PageFollows == \A m \in {"armed", "racing"}, s \in {1, 2} :
    []<>(part = "display" => Oled!PageShows(m, s) \/ wiped)

(* Every reliable send is answered or given up (lora_protocol.cpp).          *)
SendEnds == []<>(part = "lora" => ~tx.awaiting)

(* Everything accepted goes out in the end (debug_uart.cpp).                 *)
AllSent == <>[](part = "text" => Len(consoleSent) = accepted)

(* Commands and measurements that are left alone settle: positions, speeds,  *)
(* the measured speed of a standing shaft, the learnt bias (motor_control.cpp, *)
(* motor_open_loop.c, imu_bias_estimator.cpp).                               *)
Settles == PositionSettles /\ SpeedReached /\ StandsStill /\ Converges

(* A fault or an inhibit ends motion, in every part that moves (app_main.cpp, *)
(* dm_g6220_controller.cpp, motor_open_loop.c, chassis.cpp).                 *)
FaultsStop == FaultStops /\ FaultRests /\ FaultDisables /\ FaultEndsDrive /\ InhibitStops

(* What is started ends: programs, manoeuvres, gimbal operations, sends and  *)
(* the text of the console (action.cpp, road_event_controller.cpp,           *)
(* dm_g6220_controller.cpp, lora_protocol.cpp, debug_uart.cpp).              *)
EverythingEnds == ProgramEnds /\ ManoeuvreEnds /\ OperationEnds /\ SendEnds /\ AllSent

(* What has to go on goes on: the lease of a claimed wheel, the chassis      *)
(* service, frames, and the page that follows the race (chassis.cpp,         *)
(* scheduler.cpp, app_grayscale.cpp, app_main.cpp).                          *)
KeepsServing == NoSpuriousTimeout /\ ChassisServed /\ FramesCome /\ PageFollows
=============================================================================
