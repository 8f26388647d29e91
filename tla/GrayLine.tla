------------------------------- MODULE GrayLine -------------------------------
(* What gugaPI makes of a grayscale frame: the position of the line with its     *)
(* bounded bridging of gaps (drivers/grayscale/grayscale_processing.cpp), the    *)
(* classifier that turns side roads into numbered events                          *)
(* (app/grayscale_road.cpp), the calibration (app/app_grayscale.cpp), and the     *)
(* consumer of the events, which knows them apart by number and looks at none     *)
(* while it arms a route or turns (road_event_controller.cpp).  GrayScan says     *)
(* where frames come from, and Motion what the turns of the consumer do.          *)
EXTENDS Integers

CONSTANTS Segments,         \* segments of the tracking core, 1 .. n
          Sides,            \* where a side road can be: left and right
          MaxWeak,          \* GRAYSCALE_MAX_WEAK_TRACKING_FRAMES
          Confirm, ExitConfirm, Rearm, MaxObserve,   \* kRoadConfig
          CaptureFrames,    \* frames of a white or black capture
          MaxNumber,        \* event numbers wrap to 1 here, at 2^32 - 1 in the code
          MaxMissed,        \* bound: events in a row that the consumer has not taken
          MaxLineResets, MaxLineCommands             \* bounds

VARIABLES track,     \* GrayscaleProcessingState and the position it yields
          road,      \* GrayscaleRoadClassifierState
          event,     \* g_data.road_event_*
          handledEvent,   \* g_state.handled_event_sequence of the consumer, 0 for none
          watcher,   \* g_state.phase of the consumer, or "faulted"
          looked,    \* RoadEventController_Update has run since the last frame
          missed,    \* history: events since the number was last taken
          capture,   \* g_calibrationStatus, the samples and the staged captures
          surface,   \* environment: what the array stands on
          used,      \* g_calibration: the surfaces its white and black were taken on
          gap,       \* history: frames since the line was last seen strong, and whether bridged
          centred,   \* history: centred frames in a row since the last event, up to Rearm
          lineResets, lineCommands

consumer == << handledEvent, watcher, looked, missed >>
array    == << capture, surface, used >>
lineVars == << track, road, event, consumer, array, gap, centred, lineResets, lineCommands >>

(* The observation window outlasts the slowest confirmation: two sides that come  *)
(* by turns, each time but the last followed by ExitConfirm - 1 empty frames.      *)
LineConstants ==
    /\ Segments \subseteq Nat \ {0} /\ Sides = {"left", "right"} /\ MaxWeak \in Nat
    /\ Confirm \in Nat \ {0} /\ ExitConfirm \in Nat \ {0} /\ Rearm \in Nat \ {0}
    /\ MaxObserve \in Nat /\ MaxObserve > 2 * (Confirm - 1) * ExitConfirm
    /\ CaptureFrames \in Nat \ {0} /\ MaxNumber \in Nat
    /\ MaxMissed \in Nat \ {0} /\ MaxMissed < MaxNumber
    /\ MaxLineResets \in Nat /\ MaxLineCommands \in Nat

Captures == {"white", "black"}
Least(a, b) == IF a < b THEN a ELSE b

-----------------------------------------------------------------------------
(* A frame shows a strong line at a place, a weak one, nothing, or a shape that  *)
(* no single line has (several peaks, four channels and more).                    *)
Strong == [kind : {"strong"}, at : Segments]
Weak == [kind : {"weak"}, at : Segments]
BlankSurface == [kind |-> "blank", at |-> 0]
Shape == [kind |-> "shape", at |-> 0]
LineShapes == Strong \cup Weak \cup {BlankSurface, Shape}

Touches(p, q) == p - q \in -1 .. 1

NoTrack == [at |-> 0, bridged |-> 0, eligible |-> FALSE, valid |-> FALSE]

(* CanContinueWeakTracking *)
CanContinue(t, f) ==
    f.kind = "weak" /\ t.eligible /\ t.bridged < MaxWeak /\ Touches(f.at, t.at)

(* RecordInvalidFrame: a blank is charged to the same budget as a weak frame. *)
Lost(t) ==
    IF t.eligible /\ t.bridged < MaxWeak
    THEN [t EXCEPT !.valid = FALSE, !.bridged = @ + 1, !.eligible = t.bridged + 1 < MaxWeak]
    ELSE [t EXCEPT !.valid = FALSE]

(* CalculateCorePosition *)
Tracked(t, f) ==
    IF f.kind = "strong"
    THEN [at |-> f.at, bridged |-> 0, eligible |-> TRUE, valid |-> TRUE]
    ELSE IF CanContinue(t, f)
    THEN [t EXCEPT !.at = f.at, !.bridged = @ + 1, !.valid = TRUE]
    ELSE IF f.kind = "shape"
    THEN [t EXCEPT !.valid = FALSE, !.bridged = 0, !.eligible = FALSE]
    ELSE Lost(t)

-----------------------------------------------------------------------------
NoEvidence == [p \in Sides |-> 0]

FreshRoad == [phase |-> "normal", evidence |-> NoEvidence, observed |-> 0, absent |-> 0,
              exits |-> 0, rearm |-> 0, number |-> 0]

(* ResetObservation *)
Unobserved(r) ==
    [r EXCEPT !.evidence = NoEvidence, !.observed = 0, !.absent = 0, !.exits = 0]

Confirmed(r) == {s \in Sides : r.evidence[s] >= Confirm}

(* PublishEvent: the number restarts only by GrayscaleRoad_Init. *)
Latched(r) == [r EXCEPT !.phase = "latched", !.rearm = 0,
                        !.number = IF @ = MaxNumber THEN 1 ELSE @ + 1]

(* ObservePaths and UpdatePathEvidence over one frame with these roads in sight. *)
PathsObserved(r, sides, forward) ==
    LET o == IF r.phase = "normal" THEN [Unobserved(r) EXCEPT !.phase = "observing"] ELSE r IN
    [o EXCEPT !.observed = @ + 1,
              !.evidence = [s \in Sides |-> IF s \in sides
                                            THEN Least(o.evidence[s] + 1, Confirm)
                                            ELSE o.evidence[s]],
              !.absent = IF sides # {} /\ ~forward THEN Least(@ + 1, Confirm) ELSE 0,
              !.exits = IF sides = {} THEN @ + 1 ELSE 0]

(* A latched classifier takes the next event after enough centred frames. *)
Rearmed(r, centre) ==
    IF ~centre THEN [r EXCEPT !.rearm = 0]
    ELSE IF r.rearm + 1 >= Rearm
    THEN [Unobserved(r) EXCEPT !.phase = "normal", !.rearm = 0]
    ELSE [r EXCEPT !.rearm = @ + 1]

(* Nothing was confirmed before the road was passed: no event. *)
GivenUp(r) == r.exits >= ExitConfirm /\ Confirmed(r) = {}

(* Branches and crossings count once they have passed, or the window ends. *)
Passed(r) == r.exits >= ExitConfirm \/ r.observed >= MaxObserve

(* A corner or a T: side road in sight, no way ahead. *)
DeadEnd(r) == r.absent >= Confirm /\ Confirmed(r) # {}

(* GrayscaleRoad_Update: the new state of the classifier and what it publishes. *)
Classified(r, sides, forward) ==
    LET quiet(s) == [road |-> s, sides |-> {}, forward |-> forward, news |-> FALSE]
        news(s, f) == [road |-> Latched(s), sides |-> Confirmed(s), forward |-> f, news |-> TRUE]
        o == PathsObserved(r, sides, forward)
    IN  IF r.phase = "latched" THEN quiet(Rearmed(r, sides = {} /\ forward))
        ELSE IF r.phase = "normal" /\ sides = {} THEN quiet(r)
        ELSE IF DeadEnd(o) THEN news(o, FALSE)
        ELSE IF GivenUp(o) THEN quiet([Unobserved(o) EXCEPT !.phase = "normal"])
        ELSE IF Passed(o) THEN news(o, forward)
        ELSE quiet(o)

(* History: the consumer acted on the event, or a route was started after it; or  *)
(* it came out, or was overtaken by a fault, where the consumer does not look.    *)
NoRoadEvent ==
    [number |-> 0, sides |-> {}, forward |-> FALSE, seen |-> FALSE, away |-> FALSE]

(* The phases in which the consumer looks for a new event: IDLE and STOPPED, and  *)
(* FOLLOWING.  It does not in ARMING and in the phases of a manoeuvre, ALIGNING   *)
(* to PIVOT_REACQUIRE, here "turning".                                            *)
Watching == {"idle", "following"}
Watchers == Watching \cup {"arming", "turning", "faulted"}

(* Mutant: a later event has the larger number. *)
IsLater == event.number > handledEvent

(* An event is new when its number is. *)
IsNew == event.number # 0 /\ event.number # handledEvent

-----------------------------------------------------------------------------
Surfaces == {"floor", "line"}

(* UpdateCalibration: the captures of a frame, before it is processed.  A capture *)
(* is the set of surfaces its samples were taken on.                              *)
Captured ==
    LET seen == capture.seen \cup {surface} IN
    IF capture.mode \in {"idle", "sweep"} \/ capture.samples + 1 < CaptureFrames
    THEN [capture EXCEPT !.seen = IF capture.mode = "idle" THEN {} ELSE seen,
                         !.samples = IF capture.mode \in Captures THEN @ + 1 ELSE 0]
    ELSE [capture EXCEPT !.mode = "idle", !.samples = 0, !.seen = {}, ![capture.mode] = seen]

(* ProcessPublishedFrame.  The way ahead (channels 2..5) is not the line of the   *)
(* tracking core (1..6).  Frames do not wait for the consumer, but its task runs   *)
(* every 2 ms and a frame takes seven steps of 1 ms and more, so that it has run   *)
(* in between.                                                                     *)
Frame ==
    \E sides \in SUBSET Sides, ahead \in BOOLEAN :
        LET c == Classified(road, sides, ahead)
            centre == sides = {} /\ ahead
        IN  /\ looked /\ looked' = FALSE
            /\ c.news => missed < MaxMissed
            /\ road' = c.road
            /\ event' = IF c.news THEN [number |-> c.road.number, sides |-> c.sides,
                                        forward |-> c.forward, seen |-> FALSE,
                                        away |-> watcher \notin Watching]
                        ELSE event
            /\ missed' = IF c.news THEN missed + 1 ELSE missed
            /\ centred' = IF c.news THEN 0
                          ELSE IF centred = Rearm THEN Rearm
                          ELSE IF centre THEN centred + 1 ELSE 0
            /\ \E f \in LineShapes :
                   /\ track' = Tracked(track, f)
                   /\ gap' = IF f.kind = "strong" THEN 0 ELSE Least(gap + 1, MaxWeak + 1)
            /\ capture' = Captured
            /\ UNCHANGED << handledEvent, watcher, surface, used, lineResets, lineCommands >>

(* MarkFailure: the sensor starts over; the event last published stays visible. *)
Failure ==
    /\ lineResets < MaxLineResets
    /\ lineResets' = lineResets + 1
    /\ track' = NoTrack
    /\ road' = FreshRoad
    /\ centred' = Rearm
    /\ UNCHANGED << event, consumer, array, gap, lineCommands >>

-----------------------------------------------------------------------------
(* The consumer.  Whenever it takes over the number of the event that is there,   *)
(* that event is not new to it any more: because it acts on it, or because it     *)
(* only catches up.                                                                *)
CatchUp == handledEvent' = event.number /\ missed' = 0
Take    == CatchUp /\ event' = [event EXCEPT !.seen = TRUE]
PassBy  == CatchUp /\ event' = event

ConsumerOnly == UNCHANGED << track, road, array, gap, centred, lineResets, lineCommands >>

(* HandleNewEvent, HandleRouteEvent: the event may end in a turn, or in a stop.    *)
Handle ==
    /\ watcher \in Watching /\ IsNew
    /\ Take /\ watcher' \in {"idle", "turning"}

(* A route that turns begins when the side road is confirmed, before the event.    *)
TurnEarly ==
    /\ watcher = "following" /\ road.phase = "observing" /\ Confirmed(road) # {}
    /\ PassBy /\ watcher' \in {"idle", "turning"}

(* A route is armed when the last junction has been left.                          *)
Armed == watcher = "arming" /\ road.phase = "normal" /\ PassBy /\ watcher' = "following"

(* TryFinishLineHandoff: the line is found again after a turn.                     *)
Handoff == watcher = "turning" /\ PassBy /\ watcher' = "idle"

(* Nothing to do, or not the time for it.                                          *)
NoAction ==
    /\ \/ watcher \in Watching /\ ~IsNew
       \/ watcher = "arming" /\ road.phase # "normal"
       \/ watcher \in {"turning", "faulted"}
    /\ UNCHANGED << event, handledEvent, watcher, missed >>

(* RoadEventController_Update.                                                     *)
Poll ==
    /\ looked' = TRUE
    /\ Handle \/ TurnEarly \/ Armed \/ Handoff \/ NoAction
    /\ ConsumerOnly

(* FinishStopped and RoadEventController_Cancel: a route or a turn is over without  *)
(* a look at the events; a run of the task that ends it so is not the last one     *)
(* before the next frame.                                                          *)
RouteEnds ==
    /\ watcher \in {"arming", "following", "turning"} /\ watcher' = "idle"
    /\ UNCHANGED << event, handledEvent, looked, missed >> /\ ConsumerOnly

(* RoadEventController_ArmRoute: what lies before the route does not count.       *)
ArmRoute ==
    /\ watcher = "idle"
    /\ watcher' = IF road.phase = "normal" THEN "following" ELSE "arming"
    /\ Take /\ looked' = looked /\ ConsumerOnly

(* Under a fault the task returns at once.                                         *)
FaultSets ==
    /\ watcher # "faulted" /\ watcher' = "faulted"
    /\ event' = [event EXCEPT !.away = ~event.seen]
    /\ UNCHANGED << handledEvent, looked, missed >> /\ ConsumerOnly

FaultClears ==
    /\ watcher = "faulted" /\ watcher' = "idle"
    /\ UNCHANGED << event, handledEvent, looked, missed >> /\ ConsumerOnly

Consumer == Poll \/ RouteEnds \/ ArmRoute \/ FaultSets \/ FaultClears

-----------------------------------------------------------------------------
(* StartPointCalibration, App_GrayscaleStartSweepCalibration *)
CaptureStart ==
    /\ capture.mode = "idle"
    /\ \E mode \in Captures \cup {"sweep"} :
           capture' = [capture EXCEPT !.mode = mode, !.seen = {}, !.samples = 0]
    /\ UNCHANGED << track, road, event, used, lineResets, centred >>

CaptureCancel ==
    /\ capture.mode # "idle"
    /\ capture' = [capture EXCEPT !.mode = "idle", !.samples = 0, !.seen = {}]
    /\ UNCHANGED << track, road, event, used, lineResets, centred >>

(* App_GrayscaleSetCalibration: ResetProcessingState clears the event as well. *)
Calibrated(white, black) ==
    /\ used' = [white |-> white, black |-> black]
    /\ track' = NoTrack /\ road' = FreshRoad /\ event' = NoRoadEvent /\ centred' = Rearm
    /\ lineResets < MaxLineResets /\ lineResets' = lineResets + 1

(* App_GrayscaleCommitCalibration, ValidatePointCalibration: both captures were  *)
(* taken, each quiet, and with a span between them.                               *)
Commit ==
    /\ capture.mode = "idle" /\ \A mode \in Captures : \E s \in Surfaces : capture[mode] = {s}
    /\ capture.white # capture.black
    /\ Calibrated(capture.white, capture.black)
    /\ UNCHANGED capture

(* ApplySweepCalibration at the end of a sweep: the extremes have a span between *)
(* them only if both surfaces came by.                                            *)
SweepEnd ==
    /\ capture.mode = "sweep"
    /\ capture' = [capture EXCEPT !.mode = "idle", !.seen = {}]
    /\ IF capture.seen = Surfaces THEN Calibrated({"floor"}, {"line"})
       ELSE UNCHANGED << track, road, event, used, lineResets, centred >>

(* The car is moved by hand. *)
Place ==
    /\ surface' \in Surfaces \ {surface}
    /\ UNCHANGED << track, road, event, capture, used, centred >>

(* `road clear`: the consumer counts the event as handled before it is forgotten. *)
ClearEvent ==
    /\ CatchUp /\ event' = NoRoadEvent
    /\ UNCHANGED << track, road, array, watcher, looked, centred >>

LineCommand ==
    /\ lineCommands < MaxLineCommands
    /\ lineCommands' = lineCommands + 1
    /\ \/ /\ CaptureStart \/ CaptureCancel \/ Commit \/ SweepEnd
          /\ UNCHANGED << consumer, surface >>
       \/ Place /\ UNCHANGED << consumer, lineResets >>
       \/ ClearEvent /\ UNCHANGED lineResets
    /\ UNCHANGED gap

LineInit ==
    /\ track = NoTrack /\ road = FreshRoad /\ event = NoRoadEvent
    /\ handledEvent = 0 /\ watcher = "idle" /\ looked = TRUE /\ missed = 0
    /\ capture = [mode |-> "idle", samples |-> 0, seen |-> {}, white |-> {}, black |-> {}]
    /\ surface = "floor"
    /\ used = [white |-> {"floor"}, black |-> {"line"}]
    /\ gap = 0 /\ centred = Rearm /\ lineResets = 0 /\ lineCommands = 0

LineNext == Frame \/ Failure \/ Consumer \/ LineCommand

LineSpec == LineInit /\ [][LineNext]_lineVars

-----------------------------------------------------------------------------
(* The state stays in its domain; in particular the observation window closes    *)
(* in time and the budget of bridged frames is never overdrawn                    *)
(* (grayscale_road.cpp GrayscaleRoad_Update, grayscale_processing.cpp).           *)
LineTypeOK ==
    /\ track.at \in Segments \cup {0} /\ track.bridged \in 0 .. MaxWeak
    /\ track.eligible \in BOOLEAN /\ track.valid \in BOOLEAN
    /\ road.phase \in {"normal", "observing", "latched"}
    /\ road.phase = "observing" => road.exits < ExitConfirm /\ road.observed < MaxObserve
    /\ road.rearm \in 0 .. Rearm - 1 /\ road.number \in 0 .. MaxNumber
    /\ handledEvent \in 0 .. MaxNumber /\ event.number \in 0 .. MaxNumber
    /\ watcher \in Watchers /\ looked \in BOOLEAN /\ missed \in 0 .. MaxMissed
    /\ capture.mode \in Captures \cup {"idle", "sweep"}
    /\ capture.samples \in 0 .. CaptureFrames - 1

(* Every published event has a side road that was seen in Confirm frames,        *)
(* whichever way the observation ended: the closing window alone publishes        *)
(* nothing (grayscale_road.cpp:321-340).                                          *)
EventHasSide == event.number # 0 => event.sides # {}

(* One junction, one event: between two events, unless the sensor or its         *)
(* calibration started over, lie Rearm centred frames in a row                    *)
(* (grayscale_road.cpp:239-254).                                                  *)
EventOnceStep == event'.number \notin {0, event.number} => centred = Rearm

(* A position is offered for at most MaxWeak frames after the line was last      *)
(* seen strong, however weak frames and blanks alternate                          *)
(* (grayscale_processing.cpp, one budget for both).                               *)
WeakBounded == track.valid => gap <= MaxWeak

(* Without restarts of the sensor the consumer acts on no event twice and is not   *)
(* blind to one: an event that it takes for handled is one it acted on, or one     *)
(* that came out where it does not look (road_event_controller.cpp:433-436): while *)
(* it arms, turns or stands under a fault, and then passes by.                     *)
EventsSeen ==
    /\ event.seen => event.number = handledEvent
    /\ lineResets = 0 /\ event.number # 0 /\ event.number = handledEvent
           => event.seen \/ event.away

(* An event that comes out where the consumer looks is not replaced by the next    *)
(* one before it has acted on it, whatever it missed before on its turns           *)
(* (road_event_controller.cpp:404-553).                                            *)
EventKeptStep ==
    lineResets' = 0 /\ event.number # 0 /\ event'.number \notin {0, event.number}
        => event.seen \/ event.away

(* Each junction gives one event, for a side that is there, and a consumer that    *)
(* looks out for events gets it (grayscale_road.cpp, road_event_controller.cpp).   *)
JunctionsCounted ==
    [](EventHasSide /\ EventsSeen) /\ [][EventOnceStep /\ EventKeptStep]_lineVars

(* The white and the black that positions are computed with are two different    *)
(* surfaces, each seen alone or as an extreme of a sweep over both                *)
(* (app_grayscale.cpp ValidatePointCalibration, ApplySweepCalibration).           *)
CalibrationSpan == {used.white, used.black} = {{"floor"}, {"line"}}
=============================================================================
