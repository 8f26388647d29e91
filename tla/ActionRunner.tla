---------------------------- MODULE ActionRunner ----------------------------
(***************************************************************************)
(* A program of the action runner (action.cpp) driving the car through     *)
(* the controllers of Motion, with the tasks of the main loop in the order *)
(* they are scheduled in:                                                  *)
(*                                                                         *)
(*   chassis   Chassis_Service and Chassis_Update                          *)
(*   heading   Heading_Update                                              *)
(*   line      RoadEventController_Update and LF_Update                    *)
(*   action    ActionRunner_Update                                         *)
(*   app       App_Run: the power monitor, and the fault's one stop        *)
(*   shell     the commands that start and stop motions                    *)
(*                                                                         *)
(* Each task of the scheduler has a period and a phase of its own: in a    *)
(* round, any of heading, line and action may not be due, and several      *)
(* rounds may pass between two runs of one of them (DueFrom).              *)
(*                                                                         *)
(* Every task acts on what the tasks before it left: the runner reads the  *)
(* end of a motion from the state of the controller, one that the road     *)
(* controller, the shell or a failed bus access may have ended as well.    *)
(*                                                                         *)
(* A program is a sequence of steps [op, next, other]: next and other are  *)
(* where it goes on after a success and after a failure (0: ACT_NEXT).     *)
(***************************************************************************)
EXTENDS Motion, Sequences, FiniteSets

CONSTANTS RunnerPrograms,  \* the programs that are loaded
          Repeats,         \* how often a LOOP jumps back
          MaxCommands      \* bound: shell commands

VARIABLES runnerPc,  \* the task that is about to run
          car,       \* the controllers and the chassis (Motion)
          late,      \* the timers that have run out
          program,   \* g_state.instrs
          run,       \* the rest of g_state
          handled,   \* g_faultStopHandled
          commands,  \* history: commands given
          manual     \* history: the shell has had a hand in what moves

runnerVars == <<runnerPc, car, late, program, run, handled, commands, manual>>

Motions == {"drive", "turn", "driveMm", "follow"}
Roads   == {"straight", "turnOff", "uturn"}
Ops     == Motions \cup Roads \cup {"wait", "if", "loop", "stop", "end"}
RouteOf == [straight |-> "straight", turnOff |-> "turn", uturn |-> "pivot"]
Results == {"idle", "running", "success", "aborted", "fault", "timeout", "cancelled"}
RunnerTimers == {"sequence", "instr"}

TargetsOf(p) == 0 .. Len(p)
LegalPlan(p) ==
    /\ p \in Seq([op : Ops, next : Nat, other : Nat]) /\ Len(p) > 0
    /\ \A i \in DOMAIN p :
          /\ p[i].next \in TargetsOf(p) /\ p[i].other \in TargetsOf(p)
          /\ p[i].op = "loop" => p[i].next # 0 /\ p[i].other # 0

RunnerConstants ==
    (\A p \in RunnerPrograms : LegalPlan(p)) /\ Repeats \in Nat \ {0} /\ MaxCommands \in Nat

Step == program[run.at]
Count == Len(program)
Opening == [i \in DOMAIN program |-> 0]

AtRest(c) == c.heading.mode = "idle" /\ c.line.mode # "follow" /\ ~Manoeuvring(c) /\ ~c.claim

RunnerInit ==
    /\ runnerPc = "chassis" /\ car \in {ResetCar, [ResetCar EXCEPT !.adc8 = FALSE]} /\ late = {}
    /\ program \in RunnerPrograms
    /\ run = [on |-> FALSE, at |-> 1, started |-> FALSE, preserve |-> FALSE, success |-> FALSE,
              result |-> "idle", laps |-> Opening]
    /\ handled = FALSE /\ commands = 0 /\ manual = FALSE

\* The car becomes c; timers that it has started again, or that have stopped,
\* are not late.
Becomes(c, kept) ==
    /\ car' = c
    /\ late' = LateAfter(late \ RunnerTimers, car, c) \cup (late \cap kept)

-----------------------------------------------------------------------------
(* The tasks before the runner.                                            *)

\* Where Scheduler_Run goes on: it passes over tasks whose next run is not due
\* (the chassis tasks may find nothing to do anyway).
DueFrom ==
    [heading |-> {"heading", "line", "action", "app"}, line |-> {"line", "action", "app"},
     action |-> {"action", "app"}]

\* App_ChassisServiceTask, App_ChassisFeedbackTask: the lease is renewed and the
\* feedback read; a renewal that fails stops the wheels, and either failure
\* raises the fault.
ChassisTask ==
    /\ runnerPc = "chassis" /\ runnerPc' \in DueFrom["heading"]
    /\ car' \in {car, Faulted(car)} \cup (IF car.claim THEN {Faulted([car EXCEPT !.claim = FALSE])} ELSE {})
    /\ UNCHANGED <<late, program, run, handled, commands, manual>>

HeadingTask ==
    /\ runnerPc = "heading" /\ runnerPc' \in DueFrom["line"]
    /\ \E c \in HeadingUpdate(car, late) : Becomes(c, RunnerTimers)
    /\ UNCHANGED <<program, run, handled, commands, manual>>

\* App_LineFollowTask: the road controller first, so that it can take over
\* before LF stops for want of a line.
LineTask ==
    /\ runnerPc = "line" /\ runnerPc' \in DueFrom["action"]
    /\ \E r \in RoadUpdate(car, late) :
          \E c \in LineUpdate(r, LateAfter(late, car, r)) : Becomes(c, RunnerTimers)
    /\ UNCHANGED <<program, run, handled, commands, manual>>

-----------------------------------------------------------------------------
(* The runner.  A state of it is a pair of a car and a run.                *)

Ended(r, success, result) ==
    [r EXCEPT !.on = FALSE, !.success = success, !.result = result, !.preserve = FALSE,
              !.laps = Opening]

\* Mutant: an aborted program leaves the car as it is.
AbortedWithoutStop(c, r, result) == [car |-> c, run |-> Ended(r, FALSE, result)]

\* FinishSequence, AbortSequence: everything is stopped.
ProgramFinished(c, r) == [car |-> RoadCancel(c), run |-> Ended(r, TRUE, "success")]

Aborted(c, r, result) == [car |-> RoadCancel(c), run |-> Ended(r, FALSE, result)]

\* StopAll
StopAll(s) == [car |-> RoadCancel(s.car), run |-> [s.run EXCEPT !.preserve = FALSE]]

\* Goto, after a success: past the last step the program is finished.
GotoNext(s, target) ==
    LET r == [s.run EXCEPT !.started = FALSE]
    IN  CASE target # 0 -> [s EXCEPT !.run = [r EXCEPT !.at = target]]
          [] target = 0 /\ r.at = Count -> ProgramFinished(s.car, [r EXCEPT !.at = Count + 1])
          [] OTHER -> [s EXCEPT !.run = [r EXCEPT !.at = @ + 1]]

\* Goto, after a failure: without a target the program is aborted.
GotoOther(s, target) ==
    LET r == [s.run EXCEPT !.started = FALSE, !.success = FALSE]
    IN  IF target # 0 THEN [s EXCEPT !.run = [r EXCEPT !.at = target]]
        ELSE Aborted(s.car, r, "aborted")

\* StopPreservedRoadMotionForCurrent: only another route, or a loop, goes on
\* along the line that a route has found.
RoadStopped(s) ==
    IF s.run.on /\ s.run.preserve /\ program[s.run.at].op \notin Roads \cup {"loop"}
    THEN StopAll(s) ELSE s

\* StartOp: the cars a step may start with; none when it is refused.
StartOp(c, op) ==
    CASE op = "drive"   -> HoldStart(c)
      [] op = "turn"    -> TurnStart(c)
      [] op = "driveMm" -> DistanceStart(c)
      [] op = "follow"  -> LineStart(c, TRUE)
      [] op \in Roads   -> StartRoute(c, RouteOf[op])
      [] op = "stop"    -> {RoadCancel(c)}
      [] OTHER          -> {c}

\* A step that needs the IMU, the line or the road may be refused.
Refused(op) == op \in Motions \cup Roads

\* EvalInstr
RouteVerdicts(c) ==
    CASE c.road.result = "running" -> IF "instr" \in late THEN {"failure"} ELSE {"running"}
      [] c.road.result = "success" -> {"success"}
      [] c.road.result \in {"unavailable", "reacquireFailed", "timeout"} -> {"failure"}
      [] OTHER                     -> {"fault"}

Verdicts(c, op, expired) ==
    CASE op = "stop"    -> {"success"}
      [] op \in Roads   -> RouteVerdicts(c)
      [] op = "driveMm" -> {IF c.heading.mode = "idle" THEN "success" ELSE "running"}
      [] op = "turn"    -> {IF expired THEN "failure"
                          ELSE IF c.heading.mode = "idle" THEN "success" ELSE "running"}
      [] op = "if"      -> {"success", "failure"}
      [] OTHER          -> IF expired THEN {"success", "failure"} ELSE {"running", "success", "failure"}

\* The loop goes back until it has done so often enough.
Lapped(r, laps) == [r EXCEPT !.success = TRUE, !.laps[r.at] = laps]

Looped(s) ==
    LET t == IF s.run.preserve THEN s ELSE StopAll(s)
        laps == t.run.laps[t.run.at]
        again == laps < Repeats
        u == [t EXCEPT !.run = Lapped(t.run, IF again THEN laps + 1 ELSE 0)]
    IN  RoadStopped(GotoNext(u, IF again THEN Step.next ELSE Step.other))

Judged(s, verdict) ==
    CASE verdict = "running" -> s
      [] verdict = "fault"   -> Aborted(s.car, s.run, "fault")
      [] verdict = "success" ->
            LET t == IF Step.op \in Roads THEN [s EXCEPT !.run.preserve = TRUE] ELSE StopAll(s)
            IN  RoadStopped(GotoNext([t EXCEPT !.run.success = TRUE], Step.next))
      [] OTHER               -> GotoOther(StopAll(s), Step.other)

\* The step is started unless it was; then it is judged in the same call.
Executed(s) ==
    LET op == Step.op
        begun == IF s.run.started THEN {s}
                 ELSE {[car |-> c, run |-> [s.run EXCEPT !.started = TRUE,
                                                         !.preserve = s.run.preserve /\ op \notin Roads]]
                       : c \in StartOp(s.car, op)}
        expired == s.run.started /\ "instr" \in late
        refused == IF ~s.run.started /\ (Refused(op) \/ begun = {})
                   THEN {GotoOther(StopAll(s), Step.other)} ELSE {}
    IN  refused \cup
        (IF op = "loop" THEN {Looped(b) : b \in begun}
         ELSE UNION {{Judged(b, v) : v \in Verdicts(b.car, op, expired)} : b \in begun})

\* Mutant: the program as a whole has no timeout.
UpdatedUntimed(s) ==
    CASE ~s.run.on               -> {s}
      [] s.run.on /\ s.car.fault -> {Aborted(s.car, s.run, "fault")}
      [] OTHER ->
         LET t == IF s.run.preserve /\ Step.op \notin Roads \cup {"loop"} THEN StopAll(s) ELSE s
         IN  IF Step.op = "end" THEN {ProgramFinished(t.car, t.run)} ELSE Executed(t)

\* ActionRunner_Update
Updated(s) ==
    CASE ~s.run.on             -> {s}
      [] s.run.on /\ s.car.fault -> {Aborted(s.car, s.run, "fault")}
      [] s.run.on /\ ~s.car.fault /\ "sequence" \in late -> {Aborted(s.car, s.run, "timeout")}
      [] OTHER ->
         LET t == IF s.run.preserve /\ Step.op \notin Roads \cup {"loop"} THEN StopAll(s) ELSE s
         IN  IF Step.op = "end" THEN {ProgramFinished(t.car, t.run)} ELSE Executed(t)

\* The timer of the step runs from its start; the one of the program runs on.
KeptTimers(r) ==
    (IF r.on THEN {"sequence"} ELSE {})
    \cup (IF r.on /\ r.started /\ run.started /\ r.at = run.at THEN {"instr"} ELSE {})

ActionTask ==
    /\ runnerPc = "action" /\ runnerPc' = "app"
    /\ \E s \in Updated([car |-> car, run |-> run]) :
          run' = s.run /\ Becomes(s.car, KeptTimers(s.run))
    /\ UNCHANGED <<program, handled, commands, manual>>

-----------------------------------------------------------------------------
(* App_Run: a fault is dealt with once; the power monitor may stop the     *)
(* wheels, which the controllers are not told.                             *)

Cancelled(s) == Aborted(s.car, s.run, "cancelled")

AppRun ==
    /\ runnerPc = "app" /\ runnerPc' = "shell"
    /\ IF car.fault /\ ~handled
       THEN LET s == Cancelled([car |-> car, run |-> run])
            IN  run' = s.run /\ Becomes(s.car, {}) /\ handled' = TRUE
       ELSE /\ car' \in {car, [car EXCEPT !.claim = FALSE]}
            /\ UNCHANGED <<late, run, handled>>
    /\ UNCHANGED <<program, commands, manual>>

-----------------------------------------------------------------------------
(* The shell.                                                              *)

Command ==
    /\ runnerPc = "shell" /\ commands < MaxCommands /\ commands' = commands + 1
    /\ UNCHANGED <<runnerPc, handled>>

Meddles(c) == manual' = TRUE /\ Becomes(c, RunnerTimers) /\ UNCHANGED <<program, run>>

\* act start, seq run: whatever moves goes on moving.
ShellRun ==
    /\ Command /\ ~run.on /\ ~car.fault
    /\ \E p \in RunnerPrograms :
          /\ program' = p
          /\ run' = [on |-> TRUE, at |-> 1, started |-> FALSE, preserve |-> FALSE, success |-> FALSE,
                     result |-> "running", laps |-> [i \in DOMAIN p |-> 0]]
    /\ manual' = ~AtRest(car)
    /\ UNCHANGED <<car, late>>

ShellCancel ==
    /\ Command
    /\ LET s == Cancelled([car |-> car, run |-> run]) IN run' = s.run /\ Becomes(s.car, {})
    /\ manual' = FALSE
    /\ UNCHANGED program

\* heading hold, turn, distance; lf start; chassis wheel.
ShellStart ==
    /\ Command
    /\ \E c \in HoldStart(car) \cup TurnStart(car) \cup DistanceStart(car) \cup LineStart(car, TRUE)
                \cup LineCalibrate(car) \cup (IF car.fault THEN {} ELSE {Driven(car)}) : Meddles(c)

ShellLock ==
    /\ Command /\ ~run.on /\ car.line.mode = "idle"
    /\ \E c \in LockStart(car) : Meddles(c)

\* heading stop, lf stop, chassis stop
ShellHeadingStop == Command /\ \E c \in HeadingStop(car) : Meddles(c)

ShellLineStop ==
    Command /\ Meddles(IF RoadBusy(car) THEN RoadCancel(car) ELSE LineStop(car))

ShellChassisStop == Command /\ Meddles([car EXCEPT !.claim = FALSE])

ShellRoadMode ==
    /\ Command
    /\ \E auto \in BOOLEAN : (auto => car.adc8) /\ Becomes(RoadSetMode(car, auto), RunnerTimers)
    /\ UNCHANGED <<program, run, manual>>

\* linesensor source
ShellSource ==
    /\ Command /\ ~SensorBusy(car) /\ ~run.on
    /\ \E adc8 \in BOOLEAN : Becomes(SetSource(car, adc8), RunnerTimers)
    /\ UNCHANGED <<program, run, manual>>

Shell ==
    \/ ShellRun \/ ShellCancel \/ ShellStart \/ ShellLock \/ ShellHeadingStop \/ ShellLineStop
    \/ ShellChassisStop \/ ShellRoadMode \/ ShellSource

RoundDone ==
    /\ runnerPc = "shell" /\ runnerPc' = "chassis"
    /\ UNCHANGED <<car, late, program, run, handled, commands, manual>>

\* Time passes: a timer that runs is late.
TimersRunning ==
    Running(car) \cup (IF run.on THEN {"sequence"} ELSE {}) \cup (IF run.on /\ run.started THEN {"instr"} ELSE {})

Expire(t) ==
    /\ t \in TimersRunning \ late
    /\ late' = late \cup {t}
    /\ UNCHANGED <<runnerPc, car, program, run, handled, commands, manual>>

Clock == \E t \in Timers \cup RunnerTimers : Expire(t)

MainLoop == ChassisTask \/ HeadingTask \/ LineTask \/ ActionTask \/ AppRun \/ RoundDone
RunnerNext == MainLoop \/ Shell \/ Clock

\* The main loop runs and so does the clock: every task is due again and again.
RunnerSpec ==
    /\ RunnerInit /\ [][RunnerNext]_runnerVars /\ WF_runnerVars(MainLoop)
    /\ \A t \in DOMAIN DueFrom : []<>(runnerPc = t)
    /\ \A t \in Timers \cup RunnerTimers : WF_runnerVars(Expire(t))

-----------------------------------------------------------------------------
RunnerTypeOK ==
    /\ runnerPc \in {"chassis", "heading", "line", "action", "app", "shell"}
    /\ car \in Cars /\ late \subseteq TimersRunning
    /\ program \in RunnerPrograms
    /\ run \in [on : BOOLEAN, at : 1 .. Count + 1, started : BOOLEAN, preserve : BOOLEAN, success : BOOLEAN,
                 result : Results, laps : [DOMAIN program -> 0 .. Repeats]]
    /\ run.on => run.at <= Count
    /\ handled \in BOOLEAN /\ manual \in BOOLEAN /\ commands \in 0 .. MaxCommands

\* The end of a rolling distance leaves the wheels turning and heading idle: the
\* road controller, whose sensor is selected, turns them in its next run, which
\* may be rounds away.
HandedOver(c) ==
    c.adc8 /\ c.road.phase = "aligning" /\ c.heading.mode = "idle" /\ c.heading.ok

\* At every point of a round the wheels turn only for a controller that will stop
\* them, or for the manoeuvre they are handed over to: no handoff between heading,
\* line following and the road controller loses them, whichever task runs next.
NoOrphanMotion ==
    ~manual /\ car.claim => car.heading.mode # "idle" \/ car.line.mode = "follow" \/ HandedOver(car)

\* Heading and line following never have the wheels both, whichever of their tasks
\* is due: what one step or manoeuvre left running is released before the next
\* takes over.
OneOwner == ~manual => car.heading.mode = "idle" \/ car.line.mode # "follow"

\* The wheels have one owner, and they have one as long as they turn (heading.cpp,
\* linefollow.cpp, road_event_controller.cpp).
WheelsOwned == NoOrphanMotion /\ OneOwner

\* A step that only waits does so at rest, although a route before it left the
\* car following the line.
WaitsAtRest ==
    ~manual /\ run.on /\ run.started /\ Step.op \in {"wait", "if"} => AtRest(car)

\* However a program ends, nothing that it started goes on.
NothingAfterProgram == ~run.on /\ ~manual => AtRest(car)

\* The runner waits on route_result, the controller works on route_active: the
\* two agree whoever ended the route.
RouteAnswered == car.road.active <=> car.road.result = "running"

\* A distance counts as driven only when it was, or when the road controller, in
\* its automatic mode, stopped the car at a junction: one cut short by a fault, a
\* late task or the bus does not pass for a success, rounds later either.
Succeeds(op) ==
    runnerPc = "action" /\ run.on /\ run.started /\ Step.op = op /\ ~run'.started /\ run'.success
DistanceDoneStep == Succeeds("driveMm") /\ ~manual => car.heading.ended \in {"reached", "taken"}

\* A program waits at rest, its routes are answered, its distances driven, and it
\* leaves nothing behind (action.cpp).
ProgramsAnswered ==
    [](WaitsAtRest /\ NothingAfterProgram /\ RouteAnswered) /\ [][DistanceDoneStep]_runnerVars

\* The same is documented of a turn (SHELL_COMMANDS.md: heading_reached).
TurnDone ==
    [][Succeeds("turn") /\ ~manual => car.heading.ended \in {"reached", "taken"}]_runnerVars

\* Every program ends, every manoeuvre of the road controller ends, and a fault
\* ends everything, whatever was started after it.
ProgramEnds   == []<>~run.on
ManoeuvreEnds == []<>~Manoeuvring(car)
FaultRests    == []<>(car.fault => AtRest(car))
=============================================================================
