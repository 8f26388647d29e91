# A verification of the gugaPI car firmware in TLA+

This directory specifies the firmware of a competition car: the main controller
**gugaPI**, the motor board **MotorDriver**, and the **FOC** motor experiment
kept beside them. It holds TLA+ modules
translated from the C++ sources, TLC configurations that check them on small
instances, and theorems checked by TLAPS that hold for every value of the
constants. `PROJECT.json` lists, for every definition, the source lines it
stands for, and the runs, findings, hazards and theorems.

Check a run with `tlc -config <cfg> <module>`, the proofs of a component with
`tlapm <component>Proofs.tla`.

## 1. The system

Two microcontrollers share an I2C bus; a third program runs on a board of its own.

* **gugaPI** (MSPM0, `src/gugaPI`) has no operating system. A 1 ms interrupt
  counts time; `Scheduler_Run` calls each task that is due, to its end;
  `App_Run` looks at faults and modes after every round; `Shell_Process`
  executes one line. Nothing preempts a task except interrupts, which fill and
  drain buffers.
* **MotorDriver** (MSPM0, `src/MotorDriver`) is an I2C target with a register
  map. Its main loop samples the encoders, applies writes from the UART and from
  I2C, looks for a stuck bus, checks the watchdog, runs the loops and sets the
  H-bridges. The I2C interrupt queues writes meanwhile.
* **FOC** (`src/FOC`) drives one brushless motor: a console in the main loop, a
  20 kHz current loop and an nFAULT edge in interrupts.

### Components

| component | state it keeps | operations | what makes it hard | what makes it correct | module |
|---|---|---|---|---|---|
| MotorDriver register map, application | registers, two copies of the timeout flag, lease, dirty flag | `CommitWrite`, heartbeat, `CheckWatchdog`, bus recovery, `MotorApp_Process` | interrupt and two hosts; the lease is touched on five paths | never driven beyond the lease, never unasked; status is true | `MotorDriver` |
| MotorDriver loops | restart keys, ramp, arrival, settling, hold count | speed, position and hold update, `Apply` | registers change between periods; integer arithmetic | ramp exact, towards the goal, settles | `MotorControl` |
| chassis and its client | claims, last targets | drive, stop, track, release, service, feedback | a command is several transactions over a bus that fails | a stop holds, claims are kept alive, nothing unclaimed moves | `ChassisLink` |
| board settings | parameters, the board's registers | `Chassis_Init`, the `motor` command | six groups written one by one, lost at a reset | board and parameters agree | `BoardConfig` |
| modes, competition, buttons, faults | mode, result, chord, latched fault | arm, select, start, stop, abort, fault | buttons, faults, ends of programs and commands meet in one round | ARMED is at rest; a fault is final; the result is the program's | `AppMode` |
| action runner | table of 64 steps, position, deadlines | start, update, jump, cancel | the end of a motion is polled; cancel at any time | ends stopped; what is reported done was done | `ActionRunner`, `ProgramTable` |
| heading, line following, road events | a phase machine each | start, update, stop | each starts and stops the next; any start may be refused | one owner of the wheels; no phase is a trap | `Motion` |
| sequence store | eight slots, header, journal | init, save, load, read, delete, migration | power lost at any byte, overlapping layouts | programs survive | `SequenceStore` |
| configuration store | parameters, two records | load, set, reset, save, older layouts | two records, written one after the other | one valid set is loaded; clean means stored | `ConfigStore` |
| IMU bias | window, correction, freeze | the 5 ms task, `imu bias` | motion begins, biases change mid-window | learnt at rest, for the fixed bias in force | `ImuBias` |
| grayscale array | multiplexer, working frame, evidence, captures | conversion interrupt, frame task, shell reads, calibration | one multiplexer, three users; frames drop out | frames settled and coherent; one event per junction | `GrayScan`, `GrayLine` |
| gimbal motor (DM-G6220, CAN) | mode, pending order, burst, feedback age | probe, enable, move, stop, clear | one transmit buffer, lost frames, bus-off | off under a fault; no stale order | `DmGimbal` |
| power guard, battery | debounce counts, latches; charge and remainder | sample, poll, configure | missing samples, chip resets, rounding | trips in time, releases late; no charge lost | `PowerGuard`, `Battery` |
| scheduler | slots with due times | add, enable, run | wrapping clock, late registration | no task is lost | `Scheduler` |
| debug UART and shell input | transmit ring, DMA span; receive ring, line | write, pump, interrupts; process | two interrupts and the main loop start transfers | text in order; what runs is what was typed | `DebugUart`, `ShellInput` |
| LoRa | sequence numbers, pending frame, last signature | send, update, receive, reset | lost, cut and late frames | in order, once, confirmed means taken | `LoraLink` |
| display | frame buffer, page cache, timer, monitors | five places that draw | each decides from its own flag | one monitor; the page follows the race | `Display` |
| FOC | state, bridges, calibration, loops | console keys, ADC interrupt, nFAULT edge | checks made stale by an interrupt; integers | never on unprotected; torque the right way | `FocMotor`, `FocLoops` |
| I2C bytes, serial parser, encoders, NVM; infrared, CAN sensors, GY931; board support; editor; TEST | | | | | not modelled |

How they interact: the shell, the buttons, the competition logic, the action
runner and the controllers under it all call the chassis; the chassis calls the
client, which does blocking bus transactions; the board applies them up to a
pass later. `SeqStore_Load` replaces the table of the action runner. The IMU
task writes a bias into the configuration store. Any component may set a fault;
`App_Run` sees it after the round.

## 2. Modules

| module | models | role |
|---|---|---|
| `DeadManSwitch`, `SlotMemory` | | abstract: what a motor board owes to its host; what a store in slots owes to its user |
| `MotorDriver` | `motor_app.cpp`, `register_map.cpp`, queue and recovery of `board_i2c_target.cpp` | implements `DeadManSwitch` |
| `Drives` | | the seven components that turn motors or watch their power (`MotorControl`, `BoardConfig`, `DmGimbal`, `FocMotor`, `FocLoops`, `PowerGuard`, `Battery`) side by side, with what they promise together |
| `Services` | | the eleven components beside the motors (`SequenceStore`, `ProgramTable`, `Scheduler`, `LoraLink`, `ActionRunner`, `ImuBias`, `GrayScan`, `GrayLine`, `Display`, `DebugUart`, `ShellInput`) side by side, with what they promise together |
| `MotorDriverProofs`, `ChassisLinkProofs`, `AppModeProofs`, `SequenceStoreProofs`, `DriveProofs`, `RunnerProofs`, `DeviceProofs`, `ServiceProofs` | | the theorems; `DriveProofs` is about the parts of `Drives`, `RunnerProofs` about `Motion` and `ActionRunner`, `DeviceProofs` about the parameters, the sensors, the display and the console, `ServiceProofs` about `ProgramTable`, `Scheduler`, `LoraLink` and `Services` as a whole |
| `SequenceStore` | `seq_store.cpp` over the FRAM | implements `SlotMemory` |
| `ChassisLink` | `chassis.cpp`, `motor_driver_client.h`, chassis tasks and fault handling, motor commands; with a board reduced from `MotorDriver` and an external bus | composition of the two computers |
| `Motion`, `ActionRunner` | `heading.cpp`, `linefollow.cpp`, `road_event_controller.cpp`; `action.cpp` and the tasks around it | `ActionRunner` composes the runner with the three controllers |
| `ConfigStore`, `ImuBias` | `config_store.cpp`; `imu_bias_estimator.cpp`, `app_imu.cpp` | `ImuBias` extends `ConfigStore`, which it writes |
| `AppMode`, `MotorControl`, `BoardConfig`, `ProgramTable`, `GrayScan`, `GrayLine`, `DmGimbal`, `PowerGuard`, `Battery`, `Scheduler`, `Display`, `LoraLink`, `DebugUart`, `ShellInput`, `FocMotor`, `FocLoops` | see the table above | one component each |
| `MCMotorDriver`, `MCChassisLink`, `MCMotorControl`, `MCSequenceStore`, `MCActionRunner` | | instances of one module |
| `MCDrives`, `MCServices`, `MCProgress` | | instances of many modules, a *part* at a time |

A part is one module with values for its constants. In `MCDrives`, `MCServices`
and `MCProgress` the variable `part` picks one part in the initial state and
never changes; the variables of the other parts do not change either. So one run
searches the sum of the parts' states, not their product: the parts have no step
in common, and the interactions that matter are inside the modules
(`ActionRunner` over `Motion`, `ImuBias` over `ConfigStore`, `ChassisLink` over
its board). `MCDrives` EXTENDS `Drives`, and `MCServices` EXTENDS `Services`, so
that the run checks the very definitions the theorems are about; the variables
of a part that does not run stay in one of its initial states, where its properties hold
as well. `MCProgress` INSTANCEs each module with values of its own;
the variables of a part that does not run stay 0, and a property is guarded by its part
(`part = "link" => ...`). What a cfg checks is a conjunction of properties that
belong together: `FocWatched` is `Protected`, `FreshAngle` and `OffWhenStopped`;
each conjunct has a name and a comment.

### MotorDriver

`pc` walks through the steps of `MotorApp_Process`; `HostWrite` (the STOP
interrupt) and `Tick` (the 1 ms interrupt) happen between any two. `regs` is the
part of the register map that decides what moves; a write is a partial function
on it, checked by `Acceptable`, applied by `ApplyWriteTo` and normalised by
`NormalizeControlState`, as one action with the lease update that follows it in
the code. `elapsed` is the age of the lease. `bridge` is what each H-bridge does.
The loops may compute any duty. `silence` and `granted` are history: how long
ago the host was heard, and which motors it has asked to move. A pass takes at
most `MaxPass` ticks: nothing in the loop blocks, but the bound is a parameter
and the properties are stated in terms of it.

### MotorControl

One motor, its registers, the controller state `st`, the wheel (`count`), and the
encoder `sample` taken at the top of the pass, before commands are applied. A
pass is `Sample`, then any number of writes or a trip, then one of the six
outcomes of the loop (`SkipLoop`, `NoLoop`, `RestartLoop`, `WaitPeriod`,
`StepPosition`, `StepSpeed`), which ends with `MotorControl_Apply`. The ramp is the code's
integer arithmetic; the speed PID and the integral and derivative terms are abstracted to
whether they give a duty. `Slip` is how far a driven wheel turns in a tick;
`Push` is somebody turning it, at most `MaxPushes` times.

### ChassisLink

A job is one thing the main controller runs to its end: a drive, stop or shell
command, the service task, the stop after a fault. It is a list of transactions;
a checked write is sent, then read back; a refresh is only sent. `Send`,
`SendFails`, `VerifyMatches`, `VerifyDiffers`, `ReadPosition` and `ReadFails` end
a transaction; `Advance`, `Complete` and `Abandon` say what the job does next, with the
same claims and faults the code leaves behind. The board applies its queue,
its loops rewrite the registers they own, its watchdog expires. The bus fails
and heals at any moment; a write that failed may have arrived up to any byte.
One tick is one service period: it passes while no job is in progress and the
service task has run or is disabled, or while a job waits for a dead bus.

The service task renews the lease, but not always: `App_Init`, arming and
`App_Run` in an armed car disable it, and so does a fault; the start of a
competition and the debug mode enable it (`Arm`, `RunArmed`, `HandleFault`,
`Disarm`; `armed` and `serving` are the mode and `g_chassisTaskEnabled`). The
shell's drive commands are gated by the fault only, so that a drive typed in an
armed car is not renewed and the board's watchdog coasts it. `unserved` is
history: a period of the claim in force has passed with the task disabled.

### SequenceStore

The memory is an array of cells, and every write is a list of single-cell writes
(`pending`) that `PowerFails` or `BusFails` may cut off anywhere. A cell is a field. A CRC is
modelled as the cells it was computed over, so that two contents never share
one: what is proved here does not cover CRC collisions. Sizes keep the ratio
that makes the layouts overlap: a slot of layout 2 (902 bytes) is longer than
one of layout 1 (646), so slot 1 of the new layout covers parts of slots 1 and 2
of the old one. `Content(s)` reads a slot the way the migration defines it: from
the old place, the staging area or the new place, by header and journal.

### AppMode

`pc` names the part of the round of the main loop that runs next: control tasks,
button scan, chord, buttons, action task, `App_Run`, shell lines. The runner is
abstracted to whether it runs and how it ended; the wheels to the rounds until the
board's watchdog stops them. Every stop may be refused (`StopOutcomes`), as the
bus may be down. `program` and `manual` are history: how the program of a slot
ended, and whether the shell has started something by hand.

### Motion and ActionRunner

`Motion` has no variables: its operators take and give the record `car` (the mode of
each controller, who asked for what, the chassis claim), so that the tasks of
`ActionRunner` can be composed of them in the order of the scheduler. The tasks have
periods of their own (heading 10 ms, line 2 ms, action 50 ms), so that a round of
`Scheduler_Run` calls any of them that are due and passes over the others (`DueFrom`):
heading may run many times between two runs of the action task, and a round may
end between a task that lets the wheels go and the one that takes them over. Every call
that writes to the chassis may succeed or fail; timers run out at any moment after they were
started (`Expire`), so every order of timeouts is covered. Angles and speeds are
abstracted to whether the goal has been reached. `ActionRunner` adds the program, its
jumps, loops and waits, the emergency stop and the shell.

### ProgramTable

The table, its validation and the four ways into it (`run add`, the conditional
forms, `seq load`, the competition), with a speed limit that changes after a program
was saved.

### ConfigStore and ImuBias

The parameters are those that validation or a conversion relates (two ordered
levels, a mask, a flag of the infrared extension, the gyroscope bias); an image is
the layout with the values its bytes decode to, and two readings where the v16
layouts are ambiguous. A write or read fails whole; what a failed write has left in the memory
is chosen. `ImuBias` counts biases in small units; windows and limits are
constants, and the filter's integer division is the code's.

### DmGimbal

The controller's modes with their timeouts, the one transmit buffer, bursts of `Repeats`
frames, probes, feedback and its age; the motor obeys the frames that reach it
and may lose power or report an error. A tick is the 10 ms CAN task.

### FocMotor and FocLoops

`FocMotor` cuts the main loop where an interrupt makes a difference: between the
check of nFAULT and the change of state in the alignment, around the calibration.
`FocLoops` is the arithmetic of the speed and position loops, exact over small
constants, with a shaft that turns as it likes or is held.

### GrayScan and GrayLine

`GrayScan`: the multiplexer settles, a conversion starts and ends by interrupt, the
frame task collects, and a blocking shell read moves the multiplexer away; every
raw value carries what it is a sample of. `GrayLine`: what a frame says about the
line and the roads (evidence, confirmation, rearming, bridging of gaps), the
two captures of a calibration, and the consumer of the road events (`watcher`, the phase of
`RoadEventController_Update`). A frame may be missing at any time. Frames do not wait for
the consumer to take an event, only for its task to have run (`looked`): the line task is
due every 2 ms, and a frame takes seven steps of 1 ms and more. In `Watching` phases the task
looks for an event with a new number; while it arms a route, aligns, turns and finds the line again, or
under a fault, it returns before that, for seconds, while events come and go. When it looks again it
takes over the number of the last of them without acting on it (`Armed`, `Handoff`, `TurnEarly`), or, if
the turn failed, acts on that one only.

### PowerGuard, Battery, BoardConfig

`PowerGuard` has the debounce counters, the latches and the inhibit, the chip that
may lose its calibration, and the poll; `hot` and `calm` are observers that count
independently. The shipped profiles build without it (`FEATURE_ENABLE_INA219` is 0).
`Battery` is the integer arithmetic of the charge with its remainder.
`BoardConfig` has the writes of `Chassis_Init` and of the motor command, each of
which may fail before or after it took effect; `agreed` records that
nothing has come between that would make a difference legitimate.

### Scheduler, Display, LoraLink, DebugUart, ShellInput

`Scheduler` keeps due times relative to the clock, over a clock that wraps at
`Wrap`. `Display` has the frame buffer as the name of who drew it last.
`LoraLink` is two stations running the same code; a frame carries as history which
send it came from. `DebugUart` cuts `StartNextTxDma` at every access to shared
state, as three parties of rising priority enter it. `ShellInput` compares the lines
run with those that can be read from the bytes received.

## 3. Runs

Passing runs. Bounds are in the cfg files, and for the parts of `MCProgress` in its `INSTANCE`s.
Deadlock is checked, except in the runs made of parts: their commands, losses and
faults are bounded, and some parts end when these have been used up.

| run | what it shows | bounds and why they are enough |
|---|---|---|
| `motor_driver` | no bridge beyond its lease; none unasked; status true; implements `DeadManSwitch` | two motors in different modes, watchdog off or 2 ticks, pass of 1 tick, one queued write: each property compares at most two motors and one lease; timers saturate beyond the longest comparison. The theorems lift the bounds |
| `link_lossy` | a reported stop holds; what nobody claims is stopped; until bus or board are disturbed or a position is asked for, a drive command takes effect as long as a task renews its lease | two commands, arming among them, of any kind, with goals that differ in which modes are written, one outage at any moment of either, one reset or bus recovery; one wheel with its loop. The theorems lift the bounds |
| `app` | a fault is final; armed and debug modes are entered at rest; the chord stops, switches once and selects nothing; the result is the program's; a car at fault or armed comes to rest | two slots, one of them valid; the chord's hold and the lease are one round, so that each can end in every part of it; one shell line per round |
| `drives` | the parts that move motors: wheel loops, board settings, gimbal, FOC motor and loops, power guard, battery | the wheel loops on 13 positions, ramp rates of fractions, so that every remainder occurs, speeds and positions asked for in turn in three writes; gimbal with two orders and two faults or losses; FOC with two keys and an nFAULT edge; loops on 8 positions of the shaft. The theorems lift the bounds |
| `services` | the parts beside the motors: FRAM store on worn memory (spoilt slots, a blank memory, read errors), configuration, IMU bias, runner and table, sampling, line, roads and calibration, tasks, display, radio, console | one power cut and one or two bus failures; at most two road events in a row that the consumer passes by, over numbers that wrap after three; two slots, as the layouts overlap from one slot to the next and only the next, and the theorem about the store is for any number; programs that use every kind of step; numbers and rings so small that they wrap within a run |
| `progress` | liveness of fourteen parts: positions and speeds settle, faults stop things, programs, manoeuvres, operations, sends and text end, frames, service and pages go on, the store recovers; and the store, on sound memory, implements `SlotMemory` through power cuts at any write | one command or order and one failure each, so that all cycles can be searched; the safety of the same modules is checked on larger instances above |

Violation runs: each shows one place where the code does something else than its
documentation says. `PROJECT.json` quotes the lines.

| run | what happens |
|---|---|
| `motor_pull` | a truncated command drives the wheel away from its goal |
| `link_watchdog` | on a healthy bus and board: a drive typed in an armed car is not renewed, the watchdog coasts both wheels, and the next command succeeds with both wheels in COAST |
| `link_direction` | a wheel turns against the command that succeeded |
| `store_blank` | a header cut off after the magic makes the store unusable |
| `foc_fault` | an nFAULT edge in the middle of the alignment's start is overwritten: the bridges are on with nFAULT low |
| `turn_done` | a turn that was given up counts as reached |

Each property of each passing run has a mutant in the module, a plausible bug
that the run catches.

### What the named parts of a property say

| property | parts |
|---|---|
| `RampKeepsRate` | the ramp is the exact integer sum; it is never ahead of its rate |
| `FocWatched` | the bridge is on only with the current protection at work and a fresh angle; off in every stopped state |
| `GimbalStaysOff` | an order waits only for the probe under way; nothing powers the motor under a fault |
| `TorqueRightWay` | the loops push towards the target; a reversed target brakes at once |
| `PowerWatched` | trips after the debounce of bad samples, releases after that of good ones; charge is conserved, remainder included |
| `StoreTruthful` | what is loaded is a program somebody stored; a finished save is durable (also after migration, on worn memory) |
| `ConfigSound` | parameters always satisfy the validation; clean parameters are those the next boot brings |
| `BiasHonest` | frozen and learnt only at rest; never applied beside another fixed bias; saving keeps the sum |
| `WheelsOwned` | at every point of a round: wheels turn only for a controller that will stop them, or for the manoeuvre that a rolling distance hands them over to; never two |
| `ProgramsAnswered` | waiting steps wait at rest; nothing of an ended program goes on; routes get their answer; a distance counts when driven |
| `TableSound` | the current step is in the table; no race program reads the abort button; a load is whole or nothing |
| `ArrayTrue` | frames settled and of one sweep; a position is bridged for a bounded time; calibration has a span |
| `JunctionsCounted` | an event has a side; one junction, one event; an event that comes out where the consumer looks is acted upon before the next, once, and none is taken for handled but those and the ones that came out where it does not look |
| `TasksKept` | due within the period, across the wrap; rows follow their header |
| `DeliveredOnce` | in order and once; confirmed means taken |
| `ConsoleTrue` | text in order; lines as typed; one sensor monitor, none in the competition modes |

### Known divergences without a run

The modules show these too; the hazards of `PROJECT.json` note them at their
lines. They bound what the passing properties may say.

* A hold entered in the pass of an encoder reset records the count from before
  the reset; one interrupted by a fault restarts at another count. Ramp and PID
  survive a stop by fault or disable if the same command follows at once.
* A drive command may be refused on a healthy bus, because the board rewrites
  registers between the write and its read-back. A command that fails latches a
  fault, although the acceptance test says it does not.
* A board that resets runs on defaults until gugaPI restarts.
* A drive typed in an armed car, and a position command under a fault, are not renewed: the board's watchdog
  stops them while the chassis still claims the wheels. `CommandTakesEffect` and `NoSpuriousTimeout`
  except claims with `unserved`; `link_watchdog` shows what follows.
* Road events that come out while a route is armed or a turn is under way are passed by when it
  is over, a second junction right after a turn among them; `JunctionsCounted` excepts those (`away`).
* One spoilt slot of layout 1 blocks the migration of all, so `Recovers` is
  checked for sound slots. One failing read during a resumed migration loses a
  program, so `KeepsPrograms` is checked without read errors.
* A deleted program is valid again if the next save into its slot is cut off at
  its first cell; `SlotMemory` allows a save that was cut off to leave anything
  in its own slot.
* A power cut between the two configuration records leaves new calibration with
  old parameters, loaded as clean.
* An automatic corner during a program's distance or turn takes the heading
  controller away from it.
* After a sensor failure road events are numbered from 1 again, while the consumer
  keeps the number it handled last.
* `timer hide` wipes the competition page and leaves its cache.
* 255 lost LoRa frames, or a sender that restarts, can make a new frame look like
  a duplicate.

### Fairness

Two fairness assumptions are behind all of them: the main loop of each program
runs for ever, since nothing in it blocks without a timeout; and interrupts
and the clock are served. Hosts, users, disturbances, commands, losses and faults owe
nothing, and are bounded.

* `MotorControl!ControlFairSpec`: `Sample`, `Control`, `Tick`. The properties speak of
  what follows once the host is done.
* `ChassisLink!FairSpec`: board loop, clock, transactions and, while it is enabled, the service task
  are weakly fair. `HandleFault` is strongly fair: `App_Run` follows every round
  of the scheduler, but a task may start again between two rounds of the model.
  The bus is not fair: it may stay down.
* `SequenceStore!FairSpec`: the code goes on while it has power, and is started
  again. `Recovers` assumes in its own left side that the store is asked
  again and again.
* `AppMode`, `ActionRunner`, `Scheduler`, `PowerGuard`, `DmGimbal`, `ImuBias`,
  `LoraLink`: the round of the main loop (or the task in it) is weakly fair; for
  `ActionRunner` each of the three tasks is due again and again (`[]<>(runnerPc = t)`: none is ever disabled, and the
  scheduler calls an enabled one when its period is over, see `TasksKept`) and every running timer expires, for `DmGimbal` the CAN interrupt
  serves the bus.
* `GrayScan`, `DebugUart`, `FocMotor`: conversions, DMA and interrupts complete;
  the main loop comes round.

`MCProgress!PartSpec` conjoins these for the actions of each part, under
`part = ...`.

## 4. Proofs

Safety is proved for `MotorDriver`, `ChassisLink`, `AppMode`, the seven modules of `Drives` and
the eleven of `Services`; the assumptions are about the constants only. They are
`ASSUME`d where a module is not instantiated by another (`MotorDriver`,
`ChassisLink`, `AppMode`); elsewhere each theorem names the operator it
assumes (`StoreConstants`, `ControlConstants`, ...), and `MCDrives`, `MCServices` and
`MCProgress` have TLC evaluate these for the values of the runs.

### The motor board

`MotorDriverProofs` proves, for every set of writes, duties and timeouts, every
queue length and every length of a pass:

| theorem | states |
|---|---|
| `InductiveInvariant` | `Spec => []Inductive` |
| `TypeCorrect` | `Spec => []TypeOK` |
| `LeaseBound` | `Spec => []DrivenWithinLease` |
| `MotionIsRequested` | `Spec => []NoUnrequestedMotion` |
| `StatusIsTrue` | `Spec => []StatusTellsTruth` |
| `Refinement` | `Spec => KeepsPromise` (the dead man's switch) |

The assumptions are the constants' (`ASSUME` in `MotorDriver`): timeouts are
naturals, registers hold only legal values, and timers saturate above the
longest comparison.

None of the safety properties is inductive. That a bridge is driven only so long
after the last contact needs to know: that the lease of an active command is
armed and dated from the last contact (`LeaseArmed`); how old it may be at each
step of the pass, since only one step checks it (`LeaseAge`); that a bridge
keeps running until the end of the pass in which its command was dropped
(`BridgeAge`); and that both copies of the timeout flag and the status register
agree (`MirrorsAgree`). That nothing moves unasked needs that the outputs are
those of the registers unless the dirty flag is set (`OutputsCurrent`) and that
a moving mode was asked for (`ModesGranted`). `Inductive` is their conjunction.
The proof goes action by action; lemmas state what the register operators
preserve. The refinement maps each step to one of the abstract switch or to a
stutter, using the invariant before and after it.

### The chassis and its bus

`ChassisLinkProofs` proves, for every set of drive commands, watchdog limit, queue
length and number of commands, outages and resets:

| theorem | states |
|---|---|
| `LinkInvariant` | `Spec => []LinkInv` |
| `LinkTypes` | `Spec => []TypeOK`, with: never a claim on speed and one on a position at once |
| `StopsHold` | `Spec => []StopHolds` |
| `ReleasedStops` | `Spec => []ReleasedMeansStopped` |
| `CommandsTakeEffect` | `Spec => []CommandTakesEffect` |

`StopHolds` speaks of the registers once the queue is drained. Its invariant
speaks of the queue: a motor is `Coasting` when the last transaction in flight that
sets its mode says COAST, or none does and the register says it. `Stopping` says that
this is kept while nothing has asked for motion since a stop succeeded, that the
jobs that may run meanwhile carry only harmless transactions, and how far a
stop under way has come after each of its writes, the failed and the retried ones
included. `Releasing` says why letting go is enough: while the chassis claims
nothing, nothing is queued and the board's watchdog clock runs no later than the
chassis's count of idle periods. The service is the one job that ends a claim on
its own, so `Releasing` also says that its transactions are for motors it holds, one each.

`CommandsTakeEffect` has an invariant of its own, `Undisturbed`, for as long as nothing has disturbed bus or board
and no position command has been given. Whoever renews the lease, nothing but speeds and coasting is under way:
in the board and its queue (`QuietBoard`), and in the job (`QuietWork`). The rest holds while the claim is one that a task
renews (`~unserved`); it is lost in an armed car, and comes back with the next stop, from `QuietBoard` alone.
`Leaves` says what the queue will have made of a register once the board has applied
so many entries of it, and the board's watchdog is only relied on for registers that nothing in flight sets. From it
`AsCommanded` says of each wheel that mode, direction and speed will be those of the lease, and `DrivePhase` which of the
three are so after each transaction of a drive command, sent or read back. The board can rewrite
what is being set: a loop that has run since it was restarted writes the duty, and the direction at speed 0. So a
direction is kept only while the speed is not 0 (`Heading`), and a speed that the shell sets beside a lease
matches on its second transaction only because that one restarts the loop, which has then not run yet (`Restarts`, `Cools`).
`Fed` says that the lease is younger than the watchdog's limit whenever the proof relies on it, with or without the service task.
After a position command the property is false, for the reason `link_direction` shows. The property holds as soon as the command
has succeeded, before any service has followed it.

### Modes and competition

`AppModeProofs` proves every safety property of `AppMode`, for every number of
slots, set of valid programs, hold time of the chord and lease of the board:

| theorem | states |
|---|---|
| `AppInductive` | `Spec => []Inductive` |
| `AppTypeCorrect` | `Spec => []TypeOK` |
| `AppFaultIsFinal` | `Spec => []FaultIsFinal` |
| `AppModesAtRest` | `Spec => ModesAtRest` |
| `AppChordHonoured` | `Spec => ChordHonoured` |
| `AppResultTruthful` | `Spec => ResultTruthful` |

Its assumptions: there is a slot, valid slots are slots, and the hold time is at least
one round. Each theorem has its own strengthening, named after what the code
relies on. `FaultLatched`: nothing clears a fault, so that every guard that reads it
stays closed. `OnlyPrograms`: whatever runs without the shell is the program of
a competition, so that the end of the program leaves an armed car at rest.
`ToggledOnce`: a chord that has switched the mode is latched. `ChordHasKeys`: a key
of the chord that is still down, or whose press is not taken yet, keeps the chord
from ending, and while it lasts presses are dropped; hence no press of the chord
reaches the selection. `RunnerAgrees` and `EndIsReported`: no task runs
between the end of a program and `App_Run`, so that a program stopped by the shell
is never reported as done. `Inductive` is their conjunction with the types; TLC
finds it true on the instance of the run and on one with three slots and
longer times.

### The sequence store

`SequenceStoreProofs` proves, for every number of slots the progress byte can
name (up to 254), every size of a program, every set of programs and any number of
crashes, failures and requests:

| theorem | states |
|---|---|
| `StoreTypeCorrect` | `Spec => []TypeOK` |
| `StoreIsTruthful` | `Spec => StoreTruthful`: what loads was stored, a save that reports success has stored it |
| `StoreKeepsPrograms` | `Spec => KeepsPrograms`: the store implements `SlotMemory` |

The first two hold on worn memory too: slots cut short by the old firmware,
a memory never written, reads that fail. The refinement assumes `Sound`, that there is nothing of
the kind; the run `store_blank` and section 3 show why it has to.
`Calling` carries the first two: the writes of a save or a delete that are done are in the
memory, the others are those pending, in order (`Progress`), and a slot is written
only under the new layout. The refinement needs `Phases`, the migration as the
code's comments describe it: what the header, the progress byte and the journal
say determines where each slot is to be found. Under the old header the journal is
blank; while migrating, the staging area holds the slot the journal names, or
still what the old place holds (`StageTrue`); a converted slot decodes
from its new place to what the staging area decodes to (`Converted`); and the slots
above it are not touched by the writes to it. The last is arithmetic on
the layouts: slots are converted from the last to the first, and slot `s` of the new layout begins where
the old places of all slots below `s` have ended, as its slots are the longer ones
(`Sizes`, `Places`, `ElsewhereOld`, `ElsewhereNew`). A CRC names the cells it was computed over, so collisions are
outside the theorem, as they are outside the model.

### What turns the motors

`Drives` puts seven modules side by side, which share no variable, so that a
behaviour of all is a behaviour of each. `DriveProofs`:

| theorem | of | states | for every |
|---|---|---|---|
| `ControlTypes`, `RampIsTrue` | `MotorControl` | `[]ControlTypeOK`, `[]RampKeepsRate` | rate, scale, period, speed and tolerance |
| `DrivesHome` | `MotorControl` | `[]DrivesTowardsGoal` | the same, provided `TermReaches` |
| `BoardTypes`, `BoardKeepsAgreeing` | `BoardConfig` | `[]BoardTypeOK`, `[]BoardAgrees` | set of values and duties, number of events |
| `GimbalTypes`, `GimbalIsOff` | `DmGimbal` | `[]DmTypeOK`, `GimbalStaysOff` | timeout, burst length, number of orders and faults |
| `FocTypes`, `FocIsWatched` | `FocMotor` | `[]FocTypeOK`, `[]FocWatched` | age limit, sampling period, trip count, number of keys and edges |
| `LoopTypeCorrect`, `TorqueTheRightWay` | `FocLoops` | `[]LoopTypeOK`, `TorqueRightWay` | gain, filter, limit and size of a turn |
| `PowerTypes`, `BatteryTypes`, `PowerIsWatched` | `PowerGuard`, `Battery` | types, `PowerWatched` | set of configurations; capacity, unit, current and elapsed time |
| `DriveTypes` | `Drives` | `DrivesSpec => []TypeOK` | all of these together |

The strengthenings:

* `MotorControl`: `Exact` says where the ramp is at any moment: at its goal, or short of
  it by what the rate, the time and the carried remainder give, to the unit;
  `NotAhead` bounds it when the goal has changed on the way, and `AtRest` says that a
  loop that does not run has no ramp. `Aimed` says that a loop that asks for
  torque has already set the direction to its error's.
  `TermReaches` is `(Enter + 1) * Gain >= Cpr`: the smallest error outside the tolerance has a term
  that does not truncate to zero. A fresh register map satisfies it; a host may write gains that do not,
  and `motor_pull` is what happens then. This is the one theorem of these
  with an assumption that not every legal configuration meets.
* `BoardConfig`: `WrittenSoFar`, that the groups the initialisation has passed are the
  same on both sides.
* `DmGimbal`: `Waiting`, that an order waits only while the motor is probed, and a burst
  runs only in a mode that has one. The theorem about faults then follows from
  what each mode may put on the bus.
* `FocMotor`: the bridge is on only in a state that drives, but for one place between two
  statements of the alignment's start (`DrivenOnly`); until there the motor is inactive (`Inactive`), and
  the sensing is as it was checked (`Sensing`); a transfer is under way only when it was due, which is what
  bounds the age of the angle (`Overdue`).
* `FocLoops`: `Pulling`, that at rest the position loop's torque is on the side of its error, whatever the
  filter and the integral remember. It rests on lemmas about the C division, which truncates, and on
  the relations of the limits in `foc_config.h` (the release error is at most the speed the position loop
  asks for just outside its zone).
* `PowerGuard`: `Sane`, that a fault counts towards its trip or its release and never both, and
  `Observed`, that the observers' counts are never ahead of the guard's.
* `Battery`: `Cells`, that the charge stays within the pack and the remainder within a unit.

### The car and its program

`RunnerProofs`, for every set of programs that validation accepts, however often they loop and whatever the
shell does:

| theorem | states |
|---|---|
| `RunnerHolds`, `RunnerTypes` | the invariant `RunnerInv`; `[]RunnerTypeOK` |
| `WheelsAreOwned` | `[]WheelsOwned` |
| `ProgramsAreAnswered` | `ProgramsAnswered`, which is an invariant and an action property |

The proof follows the code from the bottom. The functions of `Motion` have one lemma each about what they
leave alone and what they change (`HaltedDoes`, `StartedDoes`, `FinishDoes`, ...): a car is a record of
records, and everything above works with these lemmas and never with the records. From them come the
three periodic updates. `Coherent` says who may have the wheels in which phase of a manoeuvre: heading is idle
while the road controller waits for a junction, line following is not on while it turns, a rolling
distance is only ever driven to align, a distance that has braked holds no claim. `Claimed` says that a
claim has an owner. Who that is changes where a rolling distance ends: heading lets go and leaves
the wheels turning for the manoeuvre that is still aligning, until the line task is due, in this round or a later one
(`HandedOver`). The invariant and the properties hold in between, at every point of a round and whichever tasks
are due, so the proof needs no order of the tasks: each update is shown to keep it on its own.
`Unheld` says that heading moves only for a manoeuvre, which is what holds while a route of a program is under way.

The runner's operations work on a pair of a car and a run. Each of them leaves a step that has yet to start
or a program that has ended (`Settled`), on wheels that are free (`Free`): at rest, unless a route has found
the line and the next step goes on along it. `UpdatedDoes` puts them together for `ActionRunner_Update`.

`RunnerInv` joins the two. `Answering`: a route is active exactly while its result is running, and then
a manoeuvre is under way; it holds whatever the shell does. `Watch`, which holds unless the shell has had a hand
in what moves (`manual`): the wheels are owned, the step that the runner waits on fits what the car does
(`Coupled`), and a distance that it waits on is being driven, or has ended as driven, or in a way that
the runner will not take for a success: under a fault, or cut by the road controller in its automatic mode.
Without the last part `DistanceDoneStep` is not inductive: the runner sees only that heading is idle.

### Services

`ServiceProofs`:

| theorem | of | states | for every |
|---|---|---|---|
| `TableIsSound` | `ProgramTable` | `[]TableSound` | set of instructions offered, size of the table, slots and speed limits |
| `SchedTypes`, `TasksAreKept` | `Scheduler` | `[]SchedTypeOK`, `[]TasksKept` | clock, table of tasks, delay of the loop and periods, provided `SchedConstants` |
| `LoraTypes`, `TakenInOrder` | `LoraLink` | `[]LoraTypeOK`, `[]InOrderOnce` | number of sequence numbers, retries, timeout, queue and air |
| `LoraDelivers` | `LoraLink` | `[]DeliveredOnce` | the same, provided `MaxSends < Numbers` |

* `ProgramTable`: `Kept` says that every program in the table or a slot is as `AddInstr` leaves one:
  normalising it once more changes nothing, and it fits. So a load gives back what was stored or nothing, and a
  jump that validation accepted lands in the table.
* `Scheduler`: `SchedConstants` asks that every period is less than half of the clock and that the loop
  is never late by more than half of it, which is what the signed comparison of the code needs (49 days of
  a 32-bit clock in ms against periods of seconds). `Scheduled` says that every name is registered once and that an
  enabled task is due within its period or was, by no more than the loop can be late (`InTime`).
* `LoraLink`: `OpenSound` says that frames under way do not overtake each other and the pending one is the latest;
  `TakenSound` that none of them is older than the frame taken last, and that one which is not newer is a copy of it
  with the same signature. That is all `IsDuplicate` needs, for any length of the number: `TakenInOrder` holds
  when the number wraps. `ConfirmedIsTaken` needs more (`NumbersSound`: a number known to
  the receiver or under way back to the sender is that of a frame that was taken), which holds until the
  numbers wrap: after 256 sends a late acknowledgment may be taken for one of the frame that has its
  number now, and `MaxSends < Numbers` excludes that.

### Parameters, sensors and display

`DeviceProofs`:

| theorem | of | states | for every |
|---|---|---|---|
| `ConfigIsSound` | `ConfigStore` | `[]ConfigSound` | set of levels, masks, biases, extensions and images |
| `ImuTypes`, `ImuKeepsConfigSound`, `BiasIsHonest` | `ImuBias` | `[]ImuTypeOK`, `[]ConfigSound`, `BiasHonest` | window, number of samples, cool-down, filter and limit |
| `LineTypes`, `PositionsAreTrue`, `JunctionsAreCounted` | `GrayLine` | `[]LineTypeOK`, `[](WeakBounded /\ CalibrationSpan)`, `JunctionsCounted` | set of segments, count of frames to confirm, leave and rearm, bridge and capture |
| `ScanTypes` | `GrayScan` | `[]ScanTypeOK` | list of core and of road channels |
| `DisplayTypes`, `MonitorsYield` | `Display` | `[]DisplayTypeOK`, `[]OneMonitor` | set of monitors, refresh and longest time |
| `TxTypes`, `SentIsInOrder` | `DebugUart` | `[]TxTypeOK`, `[]SentInOrder` | size of the ring and of a DMA block, length of text |
| `InputIsBounded`, `TypedLinesAreRun` | `ShellInput` | `[]InputTypeOK`, `[]RunsWhatWasTyped` | character set, size of ring and line |

`ServiceProofs` puts them together: `ArrayIsTrue` (`ScanSpec /\ LineSpec => []ArrayTrue`), `ConsoleIsTrue`
(`TxSpec /\ InputSpec /\ DisplaySpec => []ConsoleTrue`) and `ServicesTypes` (`ServicesSpec => []ServicesTypeOK`). So
every invariant of the run `services` is a theorem.

* `ConfigStore`: `ConfigInv` adds to `ConfigSound` that whatever is in the FRAM, spoilt or whole, decodes to a set of
  parameters, and that what a save writes decodes to what was saved (`SavedComesBack`). A failed write may leave
  anything, and then the parameters are dirty.
* `ImuBias`: the code keeps the correction and the fixed bias in two modules. `ImuInv` says that as long as a
  correction is in force it was learnt for the fixed bias the task last ran on, and that a window never holds more samples
  than were at rest in a row.
* `GrayLine`: that an observation ends in time is not inductive by itself. `Waited` relates how long it
  has lasted to the evidence it has: every frame of evidence can be followed by fewer than `ExitConfirm` empty
  frames before the observation is given up. `LineConstants` asks that the longest observation is longer than that, as it is in the code.
  `Bridged` says that the budget of bridged frames is never given back before the line is strong again; `NumbersAgree`, that until
  a reset the event that is there has the number the road counted last. With at most `MaxMissed` events since the
  consumer last took one, fewer than there are numbers, it never takes a new one for handled; the code has 2^32 of them.
* `GrayScan`: coherence needs the age of every sample as a function of the phase of the scan (`CoreAges`, `OuterAges`): the
  core channels in the order of the sweep, a road channel since the scan last came by it. What is initialised
  was sampled, settled, after the last failure (`SampledTrue`).
* `DebugUart`: `Flight` lists the places where the main loop, the completion interrupt and the DMA can be with a span without
  faults: nothing under way; one party between two of the accesses of `StartNextTxDma`, the other at rest; or the
  channel on. `Published` says which byte every used cell of the ring holds. All three parties move
  `tail` and `active` without a lock; the proof shows that of the places `Flight` lists each step leads to another.
* `ShellInput`: `Told` says what a list of bytes has told the shell: the lines run are those the list contains,
  the line under way is what the last of them edits to, and `ignoreLf` is set after a CR. It holds of the bytes handled so far
  (`Handled`). `TypedLines` computes recursively what a line edits to, and the proof needs no
  induction over it: one byte more extends the function by one value (`EditedTo`), so that each step of the behaviour is a step of
  the recursion. `Ranked` numbers the line ends.

### What stays with TLC

All liveness (`ComesToRest`, `Settles`, `FaultsStop`, `Recovers`, `EverythingEnds`,
`KeepsServing`), which is beyond the proof system. Every invariant and action property of a passing run is a theorem;
three of them under an assumption that the code does not enforce (`DrivesHome`, `StoreKeepsPrograms`,
`LoraDelivers`), which is given with them above.

## 5. Not modelled, and why

* Values computed by PIDs, filters and control laws (angles, corrections, current
  loop, PWM): the properties are about control, not about tuning. The integer
  loops whose rounding decides a direction are modelled exactly.
* The bytes inside an I2C transaction and the serial parser of MotorDriver: a
  write is whole, as it is committed on STOP; a counter read byte by byte may
  be torn, and no property says otherwise.
* The encoders' 16-bit wrap: no code limits the time between two samples, so there is no
  property to state. The address page in NVM: register I/O.
* Infrared array, GY931 and CAN sensors: parsers of frames; `Motion` has whether
  the sensor in use is usable.
* BRAKE and RUN modes and the UART transport in `ChassisLink`: the chassis never
  uses them; the board module has them.
* Text of the shell, pixels, board support, the browser editor, TEST, host tests:
  output, tools, register I/O.

## 6. Plan

Done: the models and runs above, and the proofs of section 4. What a next step could add, the most important first:

1. The divergences of section 3 that no run states, once the code is changed: a property then says that they are gone.
2. The current loop of the FOC experiment with its PWM, and the bytes of an I2C transaction, as modules of their own.
3. `DmGimbal` and `BoardConfig` over a model of the FRAM that fails, as `ImuBias` is over `ConfigStore`.
