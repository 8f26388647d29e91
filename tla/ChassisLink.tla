----------------------------- MODULE ChassisLink ----------------------------
(***************************************************************************)
(* The main controller's chassis and the MotorDriver board, joined by an   *)
(* I2C bus that can fail.                                                  *)
(*                                                                         *)
(* The chassis (chassis.cpp, motor_driver_client.h) turns each command     *)
(* into a series of bus transactions: a checked write is sent and read     *)
(* back until it matches, a refresh is only sent.  It keeps a lease on the *)
(* speed of both wheels, or on the position of some, and renews it once a  *)
(* service period so that the board's watchdog does not fire.  In an armed *)
(* car, and after a fault, the task that renews it is disabled, although   *)
(* the shell still drives an armed car.                                    *)
(*                                                                         *)
(* The main controller runs one command, task or shell line to its end     *)
(* before the next: these are the jobs.  The board works in between.  The  *)
(* board is the one of module MotorDriver with the STOP interrupt, the     *)
(* queue, the watchdog and the loops kept, and the pass of its main loop   *)
(* reduced to their interleaving.                                          *)
(*                                                                         *)
(* Motor 1 is the right wheel and motor 2 the left one.                    *)
(***************************************************************************)
EXTENDS Integers, Sequences, FiniteSetsExt

CONSTANTS
    Goals,        \* signed wheel speeds a drive command may ask for, by motor
    ShellModes,   \* modes a shell motor command may set
    Limit,        \* WATCHDOG_TIMEOUT, in service periods
    Threshold,    \* CHASSIS_FEEDBACK_FAULT_THRESHOLD
    Looping,      \* bound: motors whose loops are seen to rewrite registers
    QueueLength,  \* bound: writes the board has not applied yet
    MaxCommands,  \* bound: commands given to the chassis
    MaxOutages,   \* bound: times the bus fails
    MaxTrips      \* bound: resets and bus recoveries of the board

Motors == {1, 2}
Modes  == {"COAST", "SPEED", "POSITION"}
Dirs   == {"fwd", "rev"}

Abs(n) == IF n < 0 THEN -n ELSE n

ASSUME LinkConstants ==
    /\ Goals \subseteq [Motors -> {-1, 0, 1}]
    /\ ShellModes \subseteq Modes /\ Looping \subseteq Motors
    /\ Limit \in Nat \ {0} /\ Threshold \in Nat \ {0} /\ QueueLength \in Nat \ {0}
    /\ MaxCommands \in Nat /\ MaxOutages \in Nat /\ MaxTrips \in Nat

VARIABLES
    (* the board *)
    regs,     \* the motion registers
    queue,    \* transactions received and not yet applied
    age,      \* ticks since the watchdog lease was last renewed
    warm,     \* the loop of this motor has run for a control period
    (* the bus *)
    up,       \* transactions go through
    (* the chassis *)
    lease,    \* g_motionLeaseActive
    mask,     \* g_positionLeaseMask
    want,     \* g_state.left/right.target_rpm
    streak,   \* g_chassisFeedbackFailureStreak
    served,   \* the service task is not due again in this period
    fault,    \* Fault_HasFault()
    handled,  \* g_faultStopHandled
    armed,    \* g_appState.mode is APP_MODE_COMPETITION_ARMED
    serving,  \* g_chassisTaskEnabled: the service task is enabled
    (* the job in progress *)
    job,      \* its name and parameters
    todo,     \* its transactions, the current one first
    sent,     \* the current one is written and not yet read back
    retried,  \* Stop: the current one is the second attempt
    lost,     \* Stop: a wheel refused both attempts
    (* bounds and history *)
    commands, outages, trips,
    calm,     \* a stop succeeded and nothing asked for motion since
    idle,     \* ticks since the chassis last claimed or commanded anything
    posed,    \* a position command has been given
    unserved  \* what the chassis claims was claimed while no task renewed it

board   == <<regs, queue, age, warm>>
claims  == <<lease, mask, want>>
chassis == <<claims, streak, served, fault, handled, armed, serving>>
work    == <<job, todo, sent, retried, lost>>
history == <<calm, idle, posed, unserved>>
bounds  == <<commands, outages, trips>>
vars == <<board, up, chassis, work, bounds, history>>

Healthy == outages = 0 /\ trips = 0
-----------------------------------------------------------------------------
(* Registers and transactions.  A write is a partial function from         *)
(* registers to values; Rank is the order of its bytes on the bus.         *)

Registers == {"mode", "duty", "dir", "rpm", "target"} \X Motors
Rank(r) == CASE r[1] = "mode" -> 1 [] r[1] = "duty" -> 2 [] r[1] = "dir" -> 3
             [] r[1] = "rpm" -> 3 + r[2] [] r[1] = "target" -> 1

Put(pairs) == [r \in {p[1] : p \in pairs} |-> (CHOOSE p \in pairs : p[1] = r)[2]]

DirOf(v) == IF v < 0 THEN "rev" ELSE "fwd"

PairWrite(g) == Put({<< <<"rpm", m>>, Abs(g[m]) >> : m \in Motors})
RpmWrite(m, v) == Put({<< <<"rpm", m>>, Abs(v) >>})
CoastWrite(m) == Put({<< <<"mode", m>>, "COAST" >>, << <<"duty", m>>, 0 >>})
ModeWrite(m, mode, d) ==
    Put({<< <<"mode", m>>, mode >>, << <<"duty", m>>, 0 >>, << <<"dir", m>>, d >>})
SpeedWrite(m, v) == ModeWrite(m, "SPEED", DirOf(v))
PositionWrite(m) == ModeWrite(m, "POSITION", "fwd")
TargetWrite(m) == Put({<< <<"target", m>>, 0 >>})  \* its value never matters

\* What may reach the board of a transaction that the chassis sees fail.
PartsOf(w) ==
    {[r \in {q \in DOMAIN w : Rank(q) <= k} |-> w[r]] :
        k \in {Rank(q) : q \in DOMAIN w}}

Checked(w) == [kind |-> "checked", w |-> w, m |-> 0]
Refresh(w) == [kind |-> "refresh", w |-> w, m |-> 0]
Finished(m) == [kind |-> "checked", w |-> CoastWrite(m), m |-> m]
Read == [kind |-> "read", w |-> [r \in {} |-> 0], m |-> 0]

\* Matches: VerifyRegisters compares what it reads back with what it sent.
Matches(f, w) == \A r \in DOMAIN w : f[r] = w[r]

\* Writing a mode other than SPEED clears the motor's duty and speed.
Stops(w, m) == <<"mode", m>> \in DOMAIN w /\ w[<<"mode", m>>] # "SPEED"
Clears(w, r) == r[1] \in {"duty", "rpm"} /\ Stops(w, r[2])

\* CommitWrite with NormalizeControlState.
Applied(f, w) ==
    [r \in Registers |->
        IF Clears(w, r) THEN 0 ELSE IF r \in DOMAIN w THEN w[r] ELSE f[r]]

\* The registers once the board has caught up: each as the last of the
\* transactions received that touches it leaves it.
Touching(r) == {i \in 1..Len(queue) : Clears(queue[i], r) \/ r \in DOMAIN queue[i]}
Final ==
    [r \in Registers |->
        IF Touching(r) = {} THEN regs[r] ELSE Applied(regs, queue[Max(Touching(r))])[r]]

\* Mutant: a position loop does not count as an active command.
ActiveSpeedOnly(f) == \E m \in Motors : f[<<"mode", m>>] = "SPEED"

Active(f) == \E m \in Motors : f[<<"mode", m>>] # "COAST"

AtRest == [r \in Registers |-> IF r[1] = "mode" THEN "COAST"
                               ELSE IF r[1] = "dir" THEN "fwd" ELSE 0]

Coasted == [r \in Registers |-> IF r[1] = "mode" THEN "COAST"
                                ELSE IF r[1] = "dir" THEN regs[r] ELSE 0]

\* What the loop of motor m restarts on (the target never changes here).
Key(f, m) ==
    LET hold == f[<<"mode", m>>] = "SPEED" /\ f[<<"rpm", m>>] = 0
    IN  <<f[<<"mode", m>>], hold,
          IF f[<<"mode", m>>] = "SPEED" THEN f[<<"dir", m>>] ELSE "fwd">>
-----------------------------------------------------------------------------
(* Jobs.                                                                   *)

NoGoal == [m \in Motors |-> 0]
Idle == [name |-> "none", m |-> 0, goal |-> NoGoal, blame |-> FALSE]

\* Replace the job in progress by another.
Start(name, m, goal, blame, txs) ==
    /\ job' = [name |-> name, m |-> m, goal |-> goal, blame |-> blame]
    /\ todo' = txs /\ sent' = FALSE /\ retried' = FALSE /\ lost' = FALSE

EndJob ==
    /\ job' = Idle /\ todo' = <<>> /\ sent' = FALSE /\ retried' = FALSE /\ lost' = FALSE

StopWrites == <<Checked(CoastWrite(1)), Checked(CoastWrite(2))>>

ClearClaims == lease' = FALSE /\ mask' = {} /\ want' = NoGoal

(* StopMotorsForSafety: the claims go first, then both wheels are coasted. *)
(* With blame, whoever asked for it latches FAULT_DRIVER_TIMEOUT after.    *)
SafetyStop(blame) ==
    ClearClaims /\ Start("stop", 0, NoGoal, blame, StopWrites)

\* Mutant: only the left wheel decides whether the wheels keep their modes.
RefreshOnlyLeft(g) == lease /\ want[2] * g[2] > 0

RefreshOnly(g) == lease /\ \A m \in Motors : want[m] * g[m] > 0

DriveWrites(g) ==
    IF RefreshOnly(g) THEN <<Checked(PairWrite(g))>>
    ELSE <<Checked(PairWrite(g)), Checked(SpeedWrite(2, g[2])), Checked(SpeedWrite(1, g[1]))>>

\* One transaction for each motor of a set, motor 1 first.
ForEach(Tx(_), motors) ==
    CASE motors = {1} -> <<Tx(1)>>
      [] motors = {2} -> <<Tx(2)>>
      [] motors = {1, 2} -> <<Tx(1), Tx(2)>>

RefreshTarget(m) == Refresh(TargetWrite(m))

ServiceWrites ==
    IF mask # {} THEN Append(ForEach(RefreshTarget, mask), Read)
    ELSE <<Refresh(PairWrite(want))>>

ShellWrites(m, mode, v) ==
    CASE mode = "COAST" -> <<Checked(CoastWrite(m))>>
      [] mode = "SPEED" -> <<Checked(RpmWrite(m, v)), Checked(SpeedWrite(m, v))>>
      [] mode = "POSITION" ->
            <<Checked(TargetWrite(m)), Checked(PositionWrite(m)), Read>>

Begins == job = Idle /\ UNCHANGED <<board, up, outages, trips>>

(* Chassis_SetWheelRpm.                                                    *)
Drive(g) ==
    /\ Begins /\ ~fault
    /\ commands < MaxCommands /\ commands' = commands + 1
    /\ Start("drive", 0, g, FALSE, DriveWrites(g))
    /\ calm' = FALSE /\ idle' = 0
    /\ UNCHANGED <<chassis, posed, unserved>>

(* motor m1|m2 coast, speed, pos: not gated by a fault.                    *)
ShellMotor(m, mode, v) ==
    /\ Begins
    /\ commands < MaxCommands /\ commands' = commands + 1
    /\ Start(mode, m, NoGoal, FALSE, ShellWrites(m, mode, v))
    /\ calm' = (calm /\ mode = "COAST") /\ idle' = 0
    /\ posed' = (posed \/ mode = "POSITION")
    /\ UNCHANGED <<chassis, unserved>>

(* Chassis_Stop from the shell, the buttons or the competition state.      *)
StopCommand ==
    /\ Begins
    /\ commands < MaxCommands /\ commands' = commands + 1
    /\ SafetyStop(FALSE)
    /\ UNCHANGED <<streak, served, fault, handled, armed, serving, history>>

(* The car is armed: App_CompetitionArm, App_CompetitionStop, or a program *)
(* that ends or is stopped by App_EmergencyStop.  The wheels are stopped;  *)
(* the last two leave it to App_Run to disable the service task.           *)
Arm ==
    /\ Begins /\ ~armed /\ ~handled
    /\ commands < MaxCommands /\ commands' = commands + 1
    /\ SafetyStop(FALSE)
    /\ armed' = TRUE /\ serving' \in {FALSE, serving}
    /\ UNCHANGED <<streak, served, fault, handled, history>>

\* Mutant: the service task renews a lease nobody holds.
HoldsAlways == TRUE

Holds == lease \/ mask # {}

(* App_CompetitionStart, and App_DebugModeEnter after its own stop: a task *)
(* that is enabled is due one period later.                                *)
Disarm ==
    /\ Begins /\ armed /\ ~fault
    /\ armed' = FALSE /\ serving' = TRUE /\ served' = (served \/ ~serving)
    /\ unserved' = (unserved \/ (Holds /\ ~serving))
    /\ UNCHANGED <<claims, streak, fault, handled, work, commands, calm, idle, posed>>

(* App_Run in an armed car.                                                *)
RunArmed ==
    /\ Begins /\ armed /\ serving /\ ~fault
    /\ serving' = FALSE
    /\ UNCHANGED <<claims, streak, served, fault, handled, armed, work, commands, history>>

(* App_ChassisServiceTask, once per period while it is enabled.            *)
Service ==
    /\ Begins /\ serving /\ ~served
    /\ served' = TRUE
    /\ IF Holds
       THEN Start("service", 0, NoGoal, FALSE, ServiceWrites)
       ELSE UNCHANGED work
    /\ UNCHANGED <<claims, streak, fault, handled, armed, serving, commands, history>>

(* App_ChassisFeedbackTask: reads only; a run of failures is a fault.      *)
Feedback ==
    /\ Begins
    /\ streak' = IF up THEN 0 ELSE IF streak < Threshold THEN streak + 1 ELSE streak
    /\ fault' = (fault \/ (streak < Threshold /\ streak' = Threshold))
    /\ UNCHANGED <<claims, served, handled, armed, serving, work, commands, history>>

(* App_Run sees the fault for the first time.                              *)
HandleFault ==
    /\ Begins /\ fault /\ ~handled
    /\ handled' = TRUE /\ armed' = FALSE /\ serving' = FALSE
    /\ SafetyStop(FALSE)
    /\ UNCHANGED <<streak, served, fault, commands, history>>
-----------------------------------------------------------------------------
(* How a transaction ends and what the job does then.                      *)

Current == Head(todo)

\* A stop succeeds if neither wheel refused both attempts.
\* Mutant: only the wheel coasted last is reported.
StopFailedLast == FALSE

StopFailed == lost

\* Chassis_ReleaseMotorCommand
Release(m) == lease' = FALSE /\ mask' = mask \ {m} /\ want' = NoGoal

\* A drive command takes over both wheels.
ClaimSpeed(g) == lease' = TRUE /\ mask' = {} /\ want' = g

\* The job is complete; blame and claims as its code leaves them.
Complete ==
    CASE job.name = "drive" ->
            /\ ClaimSpeed(job.goal)
            /\ EndJob /\ UNCHANGED <<fault, calm>>
      [] job.name = "service" ->
            /\ mask' = mask \ {Current.m}
            /\ EndJob /\ UNCHANGED <<lease, want, fault, calm>>
      [] job.name = "POSITION" ->
            /\ lease' = FALSE /\ want' = NoGoal /\ mask' = mask \cup {job.m}
            /\ EndJob /\ UNCHANGED <<fault, calm>>
      [] job.name \in {"COAST", "SPEED", "untrack"} ->
            /\ Release(job.m)
            /\ EndJob /\ UNCHANGED <<fault, calm>>
      [] job.name = "stop" ->
            /\ fault' = (fault \/ job.blame)
            /\ calm' = (calm \/ ~StopFailed)
            /\ EndJob /\ UNCHANGED <<claims>>

\* The current transaction is done.
Advance ==
    IF Len(todo) = 1 THEN Complete
    ELSE /\ todo' = Tail(todo) /\ sent' = FALSE /\ retried' = FALSE
         /\ mask' = mask \ {Current.m}
         /\ UNCHANGED <<lease, want, fault, job, lost, calm>>

\* HandleMotionCommandFailure, the service's own stop, the shell's early
\* returns, and Stop's second attempt.
Abandon ==
    CASE job.name \in {"drive", "service"} ->
            /\ SafetyStop(TRUE)
            /\ UNCHANGED <<fault, calm>>
      [] job.name = "POSITION" /\ Current.kind = "read" ->
            /\ Start("untrack", job.m, NoGoal, FALSE, <<Checked(CoastWrite(job.m))>>)
            /\ UNCHANGED <<claims, fault, calm>>
      [] \/ job.name \in {"COAST", "SPEED"}
         \/ job.name = "POSITION" /\ Current.kind # "read" ->
            /\ EndJob /\ UNCHANGED <<claims, fault, calm>>
      [] job.name = "untrack" -> Complete
      [] job.name = "stop" /\ ~retried ->
            /\ retried' = TRUE /\ sent' = FALSE
            /\ UNCHANGED <<claims, fault, job, todo, lost, calm>>
      [] job.name = "stop" /\ retried /\ Len(todo) = 2 ->
            /\ todo' = Tail(todo) /\ sent' = FALSE /\ retried' = FALSE /\ lost' = TRUE
            /\ UNCHANGED <<claims, fault, job, calm>>
      [] job.name = "stop" /\ retried /\ Len(todo) = 1 ->
            /\ fault' = (fault \/ job.blame)
            /\ EndJob /\ UNCHANGED <<claims, calm>>

Works ==
    /\ job # Idle /\ idle' = IF job.name = "service" THEN idle ELSE 0
    /\ UNCHANGED <<regs, age, warm, up, streak, served, handled, armed, serving, bounds,
                   posed, unserved>>

(* A write goes through; a checked one is then read back.                  *)
Send ==
    /\ Works /\ up /\ ~sent /\ Current.kind # "read"
    /\ Len(queue) < QueueLength
    /\ queue' = Append(queue, Current.w)
    /\ IF Current.kind = "refresh" THEN Advance
       ELSE /\ sent' = TRUE
            /\ UNCHANGED <<claims, fault, job, todo, retried, lost, calm>>

(* All attempts of a transaction fail; a part of one may have arrived.     *)
SendFails ==
    /\ Works /\ ~up /\ ~sent /\ Current.kind # "read"
    /\ \/ UNCHANGED queue
       \/ /\ Len(queue) < QueueLength
          /\ \E p \in PartsOf(Current.w) : queue' = Append(queue, p)
    /\ Abandon

VerifyMatches ==
    /\ Works /\ up /\ sent
    /\ Matches(regs, Current.w)
    /\ UNCHANGED queue
    /\ Advance

(* Five readings outlast a pass of the board's main loop.                  *)
VerifyDiffers ==
    /\ Works /\ up /\ sent
    /\ queue = <<>> /\ ~Matches(regs, Current.w)
    /\ UNCHANGED queue
    /\ Abandon

(* A read: the service sees which wheels have stayed at their target long  *)
(* enough, and coasts these; the board reports none out of POSITION mode.  *)
ReadPosition ==
    /\ Works /\ up /\ Current.kind = "read"
    /\ UNCHANGED queue
    /\ \/ Advance
       \/ \E done \in (SUBSET {m \in mask : regs[<<"mode", m>>] = "POSITION"}) \ {{}} :
            /\ job.name = "service"
            /\ todo' = ForEach(Finished, done)
            /\ UNCHANGED <<claims, fault, job, sent, retried, lost, calm>>

ReadFails ==
    /\ Works /\ ~up /\ (sent \/ Current.kind = "read")
    /\ UNCHANGED queue
    /\ Abandon
-----------------------------------------------------------------------------
(* The board, the bus and the clock.                                       *)

Apply ==
    /\ queue # <<>>
    /\ regs' = Applied(regs, Head(queue)) /\ queue' = Tail(queue)
    /\ age' = 0
    /\ warm' = [m \in Motors |-> warm[m] /\ Key(regs, m) = Key(regs', m)]
    /\ UNCHANGED <<up, chassis, work, bounds, history>>

(* A control period of one motor: SPEED rewrites the duty, "speed 0" the   *)
(* direction as well, POSITION the published speed too.                    *)
Loop(m) ==
    /\ warm[m] /\ regs[<<"mode", m>>] # "COAST"
    /\ \E d \in {0, 1}, x \in Dirs, r \in {0, 1} :
        /\ regs' = [regs EXCEPT ![<<"duty", m>>] = d, ![<<"dir", m>>] = x,
                                ![<<"rpm", m>>] = r]
        /\ regs[<<"mode", m>>] = "SPEED" => r = regs[<<"rpm", m>>]
        /\ regs[<<"mode", m>>] = "SPEED" /\ r > 0 => x = regs[<<"dir", m>>]
    /\ UNCHANGED <<queue, age, warm, up, chassis, work, bounds, history>>

Expire ==
    /\ Active(regs) /\ age > Limit
    /\ regs' = Coasted /\ age' = 0
    /\ UNCHANGED <<queue, warm, up, chassis, work, bounds, history>>

(* Bus recovery discards the queue; a reset the registers too.             *)
BoardTrips ==
    /\ trips < MaxTrips /\ trips' = trips + 1
    /\ queue' = <<>> /\ age' = 0
    /\ regs' \in {Coasted, AtRest}
    /\ UNCHANGED <<warm, up, chassis, work, commands, outages, history>>

BusFails ==
    /\ up /\ outages < MaxOutages
    /\ up' = FALSE /\ outages' = outages + 1
    /\ UNCHANGED <<board, chassis, work, commands, trips, history>>

BusHeals ==
    /\ ~up /\ up' = TRUE
    /\ UNCHANGED <<board, chassis, work, bounds, history>>

(* One service period.  A job takes a small part of it unless it waits for *)
(* a dead bus; the board passes its loop at least once.                    *)
Tick ==
    /\ queue = <<>> /\ (Active(regs) => age <= Limit)
    /\ (job = Idle /\ (served \/ ~serving)) \/ ~up
    /\ age' = IF Active(regs) THEN age + 1 ELSE 0
    /\ warm' = [m \in Motors |-> warm[m] \/ job = Idle]
    /\ served' = FALSE
    /\ idle' = IF job.name \notin {"none", "service"} \/ lease \/ mask # {} THEN 0
               ELSE IF idle <= Limit + 1 THEN idle + 1 ELSE idle
    /\ unserved' = (Holds /\ (unserved \/ ~serving))
    /\ UNCHANGED <<regs, queue, up, claims, streak, fault, handled, armed, serving, work,
                   bounds, calm, posed>>
-----------------------------------------------------------------------------
Init ==
    /\ regs = AtRest /\ queue = <<>> /\ age = 0
    /\ warm = [m \in Motors |-> FALSE]
    /\ up = TRUE
    /\ lease = FALSE /\ mask = {} /\ want = NoGoal
    /\ streak = 0 /\ served = FALSE /\ fault = FALSE /\ handled = FALSE
    /\ armed = TRUE /\ serving = FALSE
    /\ job = Idle /\ todo = <<>> /\ sent = FALSE /\ retried = FALSE /\ lost = FALSE
    /\ commands = 0 /\ outages = 0 /\ trips = 0
    /\ calm = TRUE /\ idle = 0 /\ posed = FALSE /\ unserved = FALSE

Commands ==
    \/ \E g \in Goals : Drive(g)
    \/ \E m \in Motors, mode \in ShellModes, v \in {-1, 1} : ShellMotor(m, mode, v)
    \/ StopCommand \/ Arm \/ Disarm

Tasks == Service \/ Feedback \/ HandleFault \/ RunArmed
Transfers == Send \/ SendFails \/ VerifyMatches \/ VerifyDiffers \/ ReadPosition \/ ReadFails
BoardSteps == Apply \/ (\E m \in Looping : Loop(m)) \/ Expire \/ BoardTrips

Next == BoardSteps \/ Commands \/ Tasks \/ Transfers \/ BusFails \/ BusHeals \/ Tick

Spec == Init /\ [][Next]_vars

(* Both programs keep running and time passes; the bus owes nothing, and   *)
(* neither does whoever gives commands.  App_Run follows every round of    *)
(* the scheduler, so the tasks cannot keep it from seeing a fault: strong  *)
(* fairness, for a job may be in progress again and again.                 *)
FairSpec ==
    /\ Spec
    /\ WF_vars(Tick) /\ WF_vars(Apply) /\ WF_vars(Expire)
    /\ WF_vars(Transfers) /\ WF_vars(Service) /\ SF_vars(HandleFault)
-----------------------------------------------------------------------------
AllCoast == \A m \in Motors : regs[<<"mode", m>>] = "COAST"

(* Types; and never both a claim on the speed and one on a position.       *)
TypeOK ==
    /\ \A r \in Registers : regs[r] \in
          IF r[1] = "mode" THEN Modes ELSE IF r[1] = "dir" THEN Dirs ELSE {0, 1}
    /\ Len(queue) <= QueueLength /\ age \in 0..(Limit + 1)
    /\ warm \in [Motors -> BOOLEAN] /\ up \in BOOLEAN
    /\ lease \in BOOLEAN /\ mask \in SUBSET Motors /\ want \in Goals \cup {NoGoal}
    /\ streak \in 0..Threshold
    /\ \A b \in {served, fault, handled, armed, serving, sent, retried, lost, calm, posed,
                unserved} : b \in BOOLEAN
    /\ (job = Idle) <=> (todo = <<>>)
    /\ ~(lease /\ mask # {})

(* A stop that reported success holds: once the board has applied what it  *)
(* has received, both wheels coast, whatever was in flight before, was     *)
(* refreshed, half delivered or refused on the way, until the next command *)
(* that asks for motion (motor_driver_client.h Stop, chassis.cpp).         *)
StopHolds ==
    calm => \A m \in Motors : Final[<<"mode", m>>] = "COAST"

(* When the chassis claims nothing for longer than the watchdog limit, no  *)
(* wheel is under control any more, however the claim was lost.            *)
ReleasedMeansStopped == idle > Limit + 1 => AllCoast

(* A claim is kept alive: on a healthy bus the watchdog never stops a      *)
(* wheel while the chassis holds a lease on speeds or positions, unless a  *)
(* period of that claim has passed with the service task disabled.  (In an *)
(* armed car a drive command typed in the shell does run into the          *)
(* watchdog, and under a fault a position command does: see                *)
(* DriveArmsWatchdog.)                                                     *)
NoSpuriousTimeoutStep ==
    Healthy /\ ~unserved /\ Holds /\ Active(regs) /\ age > Limit => Active(regs')

(* While the chassis holds a speed lease and nothing has disturbed bus or  *)
(* board, both wheels run in speed mode, each in the direction and at the  *)
(* speed commanded, although a drive command is three transactions and its *)
(* service writes speeds only: a refresh may leave out the modes and       *)
(* directions only because they are already right.  (Until the first       *)
(* position command, see PositiveIsForward for what goes wrong after one;  *)
(* and not of a lease nothing has renewed, see DriveArmsWatchdog.)         *)
CommandTakesEffect ==
    Healthy /\ ~posed /\ ~unserved /\ lease /\ job = Idle =>
        \A m \in Motors :
            /\ Final[<<"mode", m>>] = "SPEED"
            /\ want[m] # 0 => Final[<<"dir", m>>] = DirOf(want[m])
            /\ Final[<<"rpm", m>>] = Abs(want[m])

(* "Positive is forward, negative is backward": of a drive command that    *)
(* succeeded, on a healthy bus.                                            *)
PositiveIsForward ==
    Healthy /\ lease /\ job = Idle =>
        \A m \in Motors :
            want[m] # 0 /\ Final[<<"rpm", m>>] # 0
                => Final[<<"dir", m>>] = DirOf(want[m])

(* A fault ends all motion: whatever the bus does, the wheels come to a    *)
(* stop and stay stopped, once nobody types motor commands any more.       *)
FaultStops == <>[]fault => <>[]AllCoast

(* "The command refreshes the MotorDriver watchdog": after a drive command *)
(* that succeeded, the board has an active command to time.  (It has not   *)
(* when the lease was taken in an armed car: nothing renews it, both       *)
(* wheels are coasted, and the next command leaves out the modes.)         *)
DriveArmsWatchdog ==
    [][job.name = "drive" /\ job' = Idle => Active(regs')]_vars
=============================================================================
