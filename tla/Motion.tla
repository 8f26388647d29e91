------------------------------- MODULE Motion -------------------------------
(***************************************************************************)
(* The three controllers that move the car, and what their functions and   *)
(* periodic updates do to it:                                              *)
(*                                                                         *)
(*   heading.cpp                hold a heading, turn, lock, drive an arc   *)
(*                              or a distance                              *)
(*   linefollow.cpp             follow the line                            *)
(*   road_event_controller.cpp  cross a junction: follow the line, align   *)
(*                              by a distance, turn by an arc or on the    *)
(*                              spot, find the line again                  *)
(*                                                                         *)
(* The module has no state of its own.  A car is a record; a function that *)
(* cannot go two ways is an operator from cars to cars, one that depends   *)
(* on what a sensor says or on whether the bus answers is an operator from *)
(* cars to the set of cars it may leave.  The control laws are reduced to  *)
(* that choice; which timers have run out is the parameter late.           *)
(***************************************************************************)
EXTENDS Integers

HeadingModes == {"idle", "hold", "turn", "lock", "arc", "distance"}
LockPhases   == {"idle", "locked", "recover", "settle", "failed"}
LineModes    == {"idle", "cal", "follow"}
RoadPhases   == {"idle", "arming", "following", "aligning", "turning", "pivotTurning",
                 "reacquire", "pivotReacquire", "stopped"}
Routes       == {"straight", "turn", "pivot"}
RouteResults == {"idle", "running", "success", "unavailable", "reacquireFailed",
                 "cancelled", "controlError", "timeout", "fault"}
Endings      == {"reached", "cut", "taken"}   \* taken: stopped in the automatic mode
Timers       == {"heading", "line", "route", "reacquire"}

Cars == [heading : [mode : HeadingModes,
                    ok : BOOLEAN,        \* last_status is DRIVER_OK
                    at : BOOLEAN,        \* at_target
                    rolling : BOOLEAN,   \* distance_rolling_handoff
                    lock : LockPhases,
                    ended : Endings],      \* history: how the last motion ended
         line : [mode : LineModes, timed : BOOLEAN],
         road : [phase : RoadPhases, auto : BOOLEAN, active : BOOLEAN, route : Routes,
                 result : RouteResults, pivot : BOOLEAN, frames : 0 .. 2],
         claim : BOOLEAN,    \* the chassis is told to move: a motion lease is held
         fault : BOOLEAN,
         adc8 : BOOLEAN]     \* the road-capable sensor is selected

ResetCar == [heading |-> [mode |-> "idle", ok |-> TRUE, at |-> FALSE, rolling |-> FALSE,
                          lock |-> "idle", ended |-> "cut"],
             line    |-> [mode |-> "idle", timed |-> FALSE],
             road    |-> [phase |-> "idle", auto |-> FALSE, active |-> FALSE, route |-> "straight",
                          result |-> "idle", pivot |-> FALSE, frames |-> 0],
             claim   |-> FALSE, fault |-> FALSE, adc8 |-> TRUE]

-----------------------------------------------------------------------------
(* The chassis.                                                            *)

Faulted(m) == [m EXCEPT !.fault = TRUE]

\* Chassis_SetWheelRpm: a command is refused under a fault or when it is out of
\* range; one that fails on the bus stops the car and raises a fault.
Driven(m)  == [m EXCEPT !.claim = TRUE]
Undriven(m) == {m, Faulted([m EXCEPT !.claim = FALSE])}

-----------------------------------------------------------------------------
(* Heading: stopping.                                                      *)

HeadingIdle(m, ok, ended) ==
    [m EXCEPT !.heading = [@ EXCEPT !.mode = "idle", !.ok = ok, !.at = FALSE, !.rolling = FALSE,
                                    !.lock = "idle", !.ended = ended]]

\* Heading_Stop returns what Chassis_Stop returned: the claim is gone anyway.
HeadingStopped(m, ok, ended) == [HeadingIdle(m, ok, ended) EXCEPT !.claim = FALSE]
HeadingStop(m) ==
    LET ended == IF m.heading.mode = "idle" THEN m.heading.ended ELSE "cut"
    IN  {HeadingStopped(m, ok, ended) : ok \in BOOLEAN}

\* SafetyStop keeps last_status.
HeadingSafetyStop(m, ok) == HeadingStopped(m, ok, "cut")

-----------------------------------------------------------------------------
(* Heading: starting.  The IMU has to be fresh: any of them may refuse.    *)

MotionStarted(m, mode) ==
    [HeadingIdle(m, TRUE, "cut") EXCEPT !.heading.mode = mode]

HoldStart(m) == IF m.fault THEN {} ELSE {MotionStarted(m, "hold")}
TurnStart(m) == IF m.fault THEN {} ELSE {MotionStarted(m, "turn")}

ArcTurnStart(m) ==
    IF m.heading.mode # "idle" \/ m.fault THEN {} ELSE {MotionStarted(m, "arc")}

\* Heading_DistanceStart does not look at the fault: its first update does.
DistanceStart(m) == {MotionStarted(m, "distance")}
RollingStart(m)  == {[MotionStarted(m, "distance") EXCEPT !.heading.rolling = TRUE]}

\* Heading_LockStart waits for a car at rest and stops it once more.
LockStart(m) ==
    IF m.heading.mode # "idle" \/ m.fault \/ m.claim THEN {}
    ELSE {[MotionStarted(m, "lock") EXCEPT !.heading.lock = "locked", !.heading.at = TRUE]}

\* The handoffs keep the wheels turning.
ReleaseForMotionHandoff(m) ==
    IF m.heading.mode = "arc" /\ m.heading.at THEN {HeadingIdle(m, TRUE, "reached")} ELSE {}
HoldReleaseForMotionHandoff(m) ==
    IF m.heading.mode = "hold" THEN {HeadingIdle(m, TRUE, "cut")} ELSE {}

-----------------------------------------------------------------------------
(* Heading_Update, mode by mode.                                           *)

HoldUpdate(m) == {Driven(m)} \cup {HeadingSafetyStop(u, FALSE) : u \in Undriven(m)}

\* Within tolerance or about to pass: the wheels are stopped, and the turn is
\* over when they have rested for long enough.
TurnBrakes(m) ==
    LET braked == [m EXCEPT !.claim = FALSE]
    IN  {braked, HeadingSafetyStop(m, FALSE)}
        \cup {HeadingStopped(m, ok, "reached") : ok \in BOOLEAN}

TurnUpdate(m, late) ==
    IF "heading" \in late THEN {Faulted(HeadingSafetyStop(m, m.heading.ok))}
    ELSE {Driven(m)} \cup TurnBrakes(m)
         \cup {HeadingSafetyStop(u, FALSE) : u \in Undriven(m)}

ArcUpdate(m, late) ==
    UNION {LET n == [m EXCEPT !.heading.at = at]
           IN  IF ~at /\ "heading" \in late THEN {Faulted(HeadingSafetyStop(n, FALSE))}
               ELSE {Driven(n)} \cup {Faulted(HeadingSafetyStop(u, FALSE)) : u \in Undriven(n)}
           : at \in BOOLEAN}

\* A rolling distance ends with the wheels still turning: the road controller
\* takes over when its task is next due.
DistanceUpdate(m, late) ==
    IF "heading" \in late THEN {Faulted(HeadingSafetyStop(m, FALSE))}
    ELSE IF m.heading.rolling
    THEN {HeadingIdle(m, TRUE, "reached"), Driven(m)}
         \cup {Faulted(HeadingSafetyStop(u, FALSE)) : u \in Undriven(m)}
    ELSE IF m.heading.at
    THEN {m, HeadingIdle(m, TRUE, "reached")}
    ELSE {[m EXCEPT !.heading.at = TRUE, !.claim = FALSE], Faulted(HeadingSafetyStop(m, FALSE)), Driven(m)}
         \cup {Faulted(HeadingSafetyStop(u, FALSE)) : u \in Undriven(m)}

\* Locked, the car waits to be pushed; it recovers, and settles with its wheels
\* stopped.  A recovery that takes too long ends the lock.
LockTimeoutStop(m) ==
    LET n == [HeadingStopped(m, FALSE, "cut") EXCEPT !.heading.lock = "failed"]
    IN  {n, Faulted(n)}

LockUpdate(m, late) ==
    LET phase(p) == [m EXCEPT !.heading.lock = p, !.heading.at = (p = "locked")]
        halted(p) == [phase(p) EXCEPT !.claim = FALSE]
        failed    == {Faulted(HeadingSafetyStop(u, FALSE)) : u \in Undriven(m)}
    IN  IF m.heading.lock \in {"recover", "settle"} /\ "heading" \in late THEN LockTimeoutStop(m)
        ELSE CASE m.heading.lock = "settle"  -> {halted(p) : p \in {"settle", "recover", "locked"}} \cup failed
               [] m.heading.lock = "recover" -> {halted("settle"), halted("recover"), Driven(m)} \cup failed
               [] OTHER                      -> {phase("locked"), phase("recover")}

\* Heading_Update: a fault stops the motion, a task that is late or an IMU that
\* is stale does so with a fault.
HeadingUpdate(m, late) ==
    IF m.heading.mode = "idle" THEN {m}
    ELSE IF m.fault THEN {HeadingSafetyStop(m, m.heading.ok)}
    ELSE {Faulted(HeadingSafetyStop(m, m.heading.ok))}
         \cup (CASE m.heading.mode = "hold"     -> HoldUpdate(m)
                 [] m.heading.mode = "turn"     -> TurnUpdate(m, late)
                 [] m.heading.mode = "lock"     -> LockUpdate(m, late)
                 [] m.heading.mode = "arc"      -> ArcUpdate(m, late)
                 [] m.heading.mode = "distance" -> DistanceUpdate(m, late))

-----------------------------------------------------------------------------
(* Line following.                                                         *)

LineIdle(m)     == [m EXCEPT !.line = [mode |-> "idle", timed |-> FALSE]]
LineStop(m)     == [LineIdle(m) EXCEPT !.claim = FALSE]

\* LF_Start: BUSY unless idle; otherwise it may refuse for want of a line.
LineStart(m, timed) ==
    IF m.line.mode # "idle" \/ m.fault THEN {}
    ELSE {[m EXCEPT !.line = [mode |-> "follow", timed |-> timed]]}

LineContinue(m) ==
    IF m.line.mode # "follow" \/ m.fault THEN {} ELSE {[m EXCEPT !.line.timed = FALSE]}

LineCalibrate(m) ==
    IF m.line.mode = "idle" /\ m.adc8 THEN {[m EXCEPT !.line.mode = "cal"]} ELSE {}

\* LF_Update: the time is up; a stale sensor stops the car, with a fault unless
\* it is the infrared one; a frame that shows the line, or a junction, drives;
\* the line lost for too long stops.
LineUpdate(m, late) ==
    CASE m.line.mode = "idle" -> {m}
      [] m.line.mode = "cal"  -> {m, LineIdle(m)}
      [] m.line.mode = "follow" ->
            IF m.fault \/ (m.line.timed /\ "line" \in late) THEN {LineStop(m)}
            ELSE {m, Driven(m), LineStop(m), Faulted(LineStop(m))}

-----------------------------------------------------------------------------
(* The road controller.                                                    *)

Manoeuvring(m) == m.road.phase \notin {"idle", "stopped"}
RoadBusy(m)    == m.road.active \/ Manoeuvring(m)

AllStopped(m) ==
    LET ended == CASE m.heading.mode = "idle" -> m.heading.ended
                   [] m.heading.mode # "idle" /\ m.road.auto -> "taken"
                   [] OTHER -> "cut"
    IN  LineStop(HeadingStopped(m, TRUE, ended))

\* A manoeuvre is over: a route that was waiting for it has its result.
RoadEnded(r, phase, result) ==
    [r EXCEPT !.phase = phase, !.frames = 0, !.active = FALSE,
              !.result = IF r.active THEN result ELSE @]

\* FinishStopped
FinishStopped(m, result) == [AllStopped(m) EXCEPT !.road = RoadEnded(m.road, "stopped", result)]

\* FinishStraightRoute, TryFinishLineHandoff: the wheels go on turning.
RoadFinished(m) == [m EXCEPT !.road = RoadEnded(m.road, "idle", "success")]

\* A start that refuses ends the manoeuvre.
OrStopped(started, m) == started \cup {FinishStopped(m, "controlError")}

Released(m, mode) == IF mode = "arc" THEN ReleaseForMotionHandoff(m) ELSE HoldReleaseForMotionHandoff(m)

\* Mutant: the handoff forgets to release the arc.
HandoffKeepsHeading(m, mode) ==
    IF m.road.frames < 2 THEN {} ELSE {RoadFinished(l) : l \in LineStart(m, TRUE) \cup LineStart(m, FALSE)}

\* TryFinishLineHandoff, once two frames in a row showed the line: LF starts
\* first, then heading lets go; neither stops the wheels.  An LF that runs
\* already ends the manoeuvre, one that does not see the line does not.
LineHandoff(m, mode) ==
    IF m.road.frames < 2 THEN {}
    ELSE IF m.line.mode # "idle" THEN {FinishStopped(m, "controlError")}
    ELSE UNION {LET let == Released(l, mode)
                IN  IF let = {} THEN {FinishStopped(l, "controlError")} ELSE {RoadFinished(n) : n \in let}
                : l \in LineStart(m, TRUE) \cup LineStart(m, FALSE)}

\* ObserveReacquireFrame: nothing new, a frame with the line or one without it;
\* they count only while the car points the right way.
Observed(m, enabled) ==
    {[m EXCEPT !.road.frames = n] :
        n \in IF enabled THEN {m.road.frames, 0, IF m.road.frames < 2 THEN m.road.frames + 1 ELSE 2}
              ELSE {0}}

StartTurn(m) ==
    IF m.road.pivot
    THEN OrStopped(UNION {{[t EXCEPT !.road.phase = "pivotTurning"] : t \in TurnStart(s)}
                          : s \in {HeadingStopped(m, TRUE, m.heading.ended)}}, m)
    ELSE OrStopped({[t EXCEPT !.road.phase = "turning"] : t \in ArcTurnStart(m)}, m)

\* StartManeuver takes the wheels over from LF, and aligns first unless the
\* distance is zero.
StartManeuver(m, pivot) ==
    IF m.line.mode # "follow" THEN {FinishStopped(m, "controlError")}
    ELSE LET n == [LineIdle(m) EXCEPT !.road.pivot = pivot, !.road.frames = 0]
         IN  StartTurn(n)
             \cup OrStopped({[d EXCEPT !.road.phase = "aligning"] : d \in RollingStart(n)}, n)

\* HandleRouteEvent: the junction has the branch that is asked for, or not.
RouteEvent(m) ==
    {FinishStopped(m, "unavailable")}
    \cup (IF m.road.route = "straight" THEN {RoadFinished(m)}
          ELSE StartManeuver(m, m.road.route = "pivot"))

\* HandleNewEvent: without a route, corners are taken in the automatic mode only
\* and a T or an unknown junction stops a car that follows the line.
FreeEvent(m) ==
    {m}
    \cup (IF m.road.auto THEN StartManeuver(m, FALSE) ELSE {})
    \cup (IF m.line.mode = "follow" THEN {FinishStopped(m, "controlError")} ELSE {})

\* The heading controller has left the mode this phase waits on.
Interrupted(m) == {FinishStopped(m, "controlError")}

ArmingUpdate(m) ==
    IF m.line.mode # "follow" THEN Interrupted(m) ELSE {m, [m EXCEPT !.road.phase = "following"]}

FollowingUpdate(m) ==
    IF m.line.mode # "follow" THEN Interrupted(m) ELSE {m} \cup RouteEvent(m)

AligningUpdate(m) ==
    CASE m.heading.mode = "distance" -> {m}
      [] m.heading.mode = "idle" /\ m.heading.ok -> StartTurn(m)
      [] OTHER -> Interrupted(m)

TurningUpdate(m) ==
    IF m.heading.mode # "arc" THEN Interrupted(m)
    ELSE UNION {IF ~n.heading.at THEN {n}
                ELSE {[n EXCEPT !.road.phase = "reacquire"]} \cup LineHandoff(n, "arc")
                : n \in Observed(m, TRUE)}

PivotTurningUpdate(m) ==
    CASE m.heading.mode = "turn" -> {m}
      [] m.heading.mode = "idle" /\ m.heading.ok ->
            OrStopped({[h EXCEPT !.road.phase = "pivotReacquire", !.road.frames = 0] : h \in HoldStart(m)}, m)
      [] OTHER -> Interrupted(m)

ReacquireUpdate(m, late, mode) ==
    IF m.heading.mode # mode THEN Interrupted(m)
    ELSE UNION {{IF "reacquire" \in late THEN FinishStopped(n, "reacquireFailed") ELSE n}
                \cup LineHandoff(n, mode)
                : n \in Observed(m, mode = "hold" \/ m.heading.at)}

\* RoadEventController_Update, called only while the road-capable sensor is
\* selected.
RoadUpdate(m, late) ==
    CASE ~m.adc8 -> {m}
      [] m.adc8 /\ m.fault -> IF RoadBusy(m) THEN {FinishStopped(m, "fault")} ELSE {m}
      [] m.adc8 /\ ~m.fault /\ m.road.active /\ "route" \in late -> {FinishStopped(m, "timeout")}
      [] OTHER ->
         CASE m.road.phase = "arming"         -> ArmingUpdate(m)
           [] m.road.phase = "following"      -> FollowingUpdate(m)
           [] m.road.phase = "aligning"       -> AligningUpdate(m)
           [] m.road.phase = "turning"        -> TurningUpdate(m)
           [] m.road.phase = "pivotTurning"   -> PivotTurningUpdate(m)
           [] m.road.phase = "reacquire"      -> ReacquireUpdate(m, late, "arc")
           [] m.road.phase = "pivotReacquire" -> ReacquireUpdate(m, late, "hold")
           [] OTHER -> FreeEvent(IF m.road.phase = "stopped" /\ m.line.mode = "follow"
                                 THEN [m EXCEPT !.road.phase = "idle"] ELSE m)

\* RoadEventController_StartRoute: unless the array shows a plain line, what is in
\* sight has to be passed first (arming).
RoadEntered(r, phase, route) ==
    [r EXCEPT !.phase = phase, !.active = TRUE, !.route = route, !.result = "running", !.frames = 0]

StartRoute(m, route) ==
    IF ~m.adc8 \/ RoadBusy(m) \/ m.fault THEN {}
    ELSE UNION {{[l EXCEPT !.road = RoadEntered(l.road, p, route)] : p \in {"arming", "following"}}
                : l \in IF m.line.mode = "follow" THEN LineContinue(m) ELSE LineStart(m, FALSE)}

\* RoadEventController_Cancel
RoadCancel(m) == [AllStopped(m) EXCEPT !.road = RoadEnded(m.road, "idle", "cancelled")]

RoadSetMode(m, auto) ==
    IF auto /\ ~m.adc8 THEN m
    ELSE [(IF RoadBusy(m) THEN RoadCancel(m) ELSE m) EXCEPT !.road.auto = auto]

-----------------------------------------------------------------------------
(* The line sensor may be changed only while nothing depends on it.        *)

\* MotionControllerBusy, without the runner and the competition.
SensorBusy(m) == m.line.mode # "idle" \/ RoadBusy(m)

\* LineSensor_SetSource, ResetAfterSourceChange
SetSource(m, adc8) == RoadSetMode([m EXCEPT !.adc8 = adc8], FALSE)

-----------------------------------------------------------------------------
(* The timers that run: one that does not run is never late.               *)

HeadingTimed(m) == \/ m.heading.mode \in {"turn", "arc", "distance"}
                   \/ m.heading.mode = "lock" /\ m.heading.lock \in {"recover", "settle"}

Running(m) ==
    (IF HeadingTimed(m) THEN {"heading"} ELSE {})
    \cup (IF m.line.timed THEN {"line"} ELSE {})
    \cup (IF m.road.active THEN {"route"} ELSE {})
    \cup (IF m.road.phase \in {"reacquire", "pivotReacquire"} THEN {"reacquire"} ELSE {})

\* A timer is started again with the motion it belongs to.
Restarted(m, n) ==
    (IF m.heading.mode # n.heading.mode \/ (n.heading.lock = "recover" /\ m.heading.lock # "recover")
     THEN {"heading"} ELSE {})
    \cup (IF m.line # n.line THEN {"line"} ELSE {})
    \cup (IF n.road.active /\ ~m.road.active THEN {"route"} ELSE {})
    \cup (IF m.road.phase # n.road.phase THEN {"reacquire"} ELSE {})

LateAfter(late, m, n) == (late \ Restarted(m, n)) \cap Running(n)
=============================================================================
