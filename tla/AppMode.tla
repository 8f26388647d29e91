------------------------------- MODULE AppMode ------------------------------
(***************************************************************************)
(* What the car is doing as a whole: the modes of app_main.cpp, the three  *)
(* buttons, the competition slots, the emergency stop and the reaction to  *)
(* a fault.                                                                *)
(*                                                                         *)
(* One round of the main loop runs the control tasks, the button scan, the *)
(* status task, the action task, App_Run and then the shell lines that     *)
(* have arrived: pc names the part that runs next.  The controllers and    *)
(* the action runner are reduced to what this level sees of them: which    *)
(* are active, and how a program ended.  Several stops are sent on most    *)
(* paths; the outcome of a stop is "ok" when all were acknowledged,        *)
(* "partly" when only some were, "refused" when none was.                  *)
(***************************************************************************)
EXTENDS Integers, FiniteSets

CONSTANTS
    SlotCount,  \* SEQ_SLOT_COUNT
    Valid,      \* slots that hold a valid program
    Hold,       \* MODE_SWITCH_CHORD_HOLD_MS, in rounds
    Lease,      \* the watchdog of the MotorDriver board, in rounds
    MaxLines    \* bound: shell lines executed in one round

Slots       == 0 .. SlotCount - 1
Buttons     == 1 .. 3
Keys        == {1, 3}  \* the keys of the chord
Controllers == {"heading", "lf"}
Modes       == {"armed", "competing", "running", "idle", "fault"}
Results     == {"none", "done", "failed", "stopped", "loadError"}

ASSUME AppConstants ==
    /\ SlotCount \in Nat \ {0} /\ Valid \subseteq Slots
    /\ Hold \in Nat \ {0} /\ Lease \in Nat /\ MaxLines \in Nat

VARIABLES
    pc,        \* the part of the round that runs next
    mode,      \* g_appState.mode
    fault,     \* Fault_HasFault(); nothing in the application clears it
    handled,   \* g_faultStopHandled
    service,   \* g_chassisTaskEnabled
    runner,    \* running and last_success of the action runner
    motion,    \* controllers that are not idle
    claim,     \* the chassis holds a motion lease
    wheels,    \* rounds until the board's watchdog stops the wheels; 0: stopped
    gimbal,    \* the DM-G6220 motor is enabled
    level,     \* debounced level of each key of the chord
    short,     \* SHORT_PRESSED events waiting, by button
    chord,     \* g_modeSwitchChord
    slot,      \* selected_slot
    result,    \* CompetitionState.result
    lines,     \* shell lines executed in this round
    program,   \* history: how the last program went
    manual,    \* history: the shell has started something since the last full stop
    toggled,   \* history: this press of the chord has switched the mode
    mixed      \* history: buttons whose last press overlapped the other chord key

drive   == <<service, runner, motion, claim, wheels, gimbal>>
panel   == <<level, short, chord, toggled, mixed>>
contest == <<slot, result>>
vars == <<pc, mode, fault, handled, drive, panel, contest, lines, program, manual>>

StopOutcomes == {"ok", "partly", "refused"}
AfterStop(o) == IF o = "refused" THEN wheels ELSE 0

ChordIdle     == [phase |-> "idle", held |-> 0]
ChordTracking == [phase |-> "tracking", held |-> 0]
ChordLatched  == [phase |-> "latched", held |-> 0]

-----------------------------------------------------------------------------
(* The stops.                                                              *)

\* ActionRunner_Cancel and AbortSequence: every controller and the gimbal are
\* stopped, however many of the stops reach the board.
Halted(o) ==
    /\ motion' = {} /\ claim' = FALSE /\ gimbal' = FALSE
    /\ wheels' = AfterStop(o)

Cancelled(o) ==
    /\ runner' = [running |-> FALSE, success |-> FALSE]
    /\ program' = IF runner.running THEN "cancelled" ELSE program
    /\ Halted(o)
    /\ manual' = FALSE

\* App_EmergencyStop leaves the competition, or the debug mode, at rest.
EmergencyMode == IF mode \in {"armed", "competing"} THEN "armed"
                 ELSE IF mode = "fault" THEN "fault" ELSE "idle"

EmergencyStop(o) ==
    /\ Cancelled(o)
    /\ mode' = EmergencyMode
    /\ result' = IF mode = "competing" THEN "stopped" ELSE result

\* The events left when it is done; a competition's are cleared.
StopTakes(left) == short' = IF mode = "competing" THEN {} ELSE left

-----------------------------------------------------------------------------
(* The transitions between the modes.                                      *)

FirstValid == IF Valid = {} THEN 0
              ELSE CHOOSE s \in Valid : \A t \in Valid : s <= t

\* CompetitionRefreshMetadata fails when the memory cannot be read.
Readable == {TRUE, FALSE}
Shown(readable, r) == IF readable THEN r ELSE "loadError"

CompetitionArm(o, readable) ==
    /\ Cancelled(o)
    /\ service' = FALSE
    /\ slot' = IF readable THEN FirstValid ELSE 0
    /\ result' = Shown(readable, "none")
    /\ short' = {}
    /\ mode' = "armed"

\* Mutant: the debug mode is entered although a stop failed.
DebugModeEnterAnyway(o) ==
    /\ Cancelled(o) /\ UNCHANGED result
    /\ mode' = "running" /\ service' = TRUE /\ short' = {}

\* App_DebugModeEnter stops first and stays armed unless every stop succeeded.
DebugModeEnter(o) ==
    /\ Cancelled(o)
    /\ IF o = "ok"
       THEN mode' = "running" /\ service' = TRUE /\ short' = {}
       ELSE UNCHANGED <<mode, service>> /\ short' = short \ Keys
    /\ UNCHANGED result

CompetitionSelect(s, readable) ==
    /\ slot' = s
    /\ result' = Shown(readable, "none")

\* App_CompetitionStart loads the slot, checks the program and starts the runner.
\* A runner that runs already refuses the load.
CanStart(s) == ~fault /\ s \in Valid /\ ~runner.running

CompetitionStarted ==
    /\ runner' = [running |-> TRUE, success |-> FALSE]
    /\ program' = "running"
    /\ service' = TRUE
    /\ result' = "none"
    /\ mode' = "competing"

CompetitionStart(s, shown, loaded) ==
    IF CanStart(s) /\ loaded
    THEN CompetitionStarted
    ELSE /\ result' = IF fault \/ (loaded /\ s \notin Valid) THEN shown ELSE "loadError"
         /\ UNCHANGED <<runner, program, service, mode>>

CompetitionStop(o) ==
    /\ Cancelled(o)
    /\ service' = FALSE
    /\ result' = "stopped"
    /\ short' = {}
    /\ mode' = "armed"

-----------------------------------------------------------------------------
Init ==
    /\ pc = "control" /\ mode = "armed"
    /\ fault \in BOOLEAN /\ handled = FALSE
    /\ service = FALSE /\ runner = [running |-> FALSE, success |-> FALSE]
    /\ motion = {} /\ claim = FALSE /\ wheels = 0 /\ gimbal = FALSE
    /\ level = [b \in Keys |-> FALSE] /\ short = {}
    /\ chord = ChordIdle /\ toggled = FALSE /\ mixed = {}
    /\ slot = FirstValid
    /\ result \in {"none", "loadError"}
    /\ lines = 0 /\ program = "none" /\ manual = FALSE

-----------------------------------------------------------------------------
(* The control tasks: the chassis service, the feedback and the            *)
(* controllers.  A controller's command is a renewal of the board's        *)
(* watchdog as well; when it fails the chassis stops and raises a fault.   *)

\* Mutant: nothing ends a command that is not renewed.
NeverExpiring == UNCHANGED wheels

\* The board's watchdog counts from the last renewal.
Expiring == wheels' = IF wheels = 0 THEN 0 ELSE wheels - 1

Renewed  == wheels' = Lease /\ claim' = TRUE /\ UNCHANGED <<motion, fault>>

\* Heading_Update, LF_Update: SafetyStop under a fault, at the end of the motion
\* and when a sensor is lost.
ControllersStop ==
    /\ motion' \in (IF fault THEN {{}} ELSE (SUBSET motion) \ {motion})
    /\ claim' = FALSE
    /\ wheels' \in {0, wheels}
    /\ fault' \in {fault, TRUE}

\* A claim without a controller is renewed by the service task; a renewal or a
\* feedback that fails raises a fault.
Undriven ==
    /\ motion = {} /\ UNCHANGED motion
    /\ fault' \in {fault, TRUE}
    /\ \/ service /\ claim /\ ~fault' /\ wheels' = Lease /\ UNCHANGED claim
       \/ ~(service /\ claim /\ ~fault') /\ Expiring /\ claim' \in {claim, claim /\ ~fault'}

Drive ==
    \/ motion # {} /\ ~fault /\ Renewed
    \/ motion # {} /\ ControllersStop
    \/ Undriven

Control ==
    /\ pc = "control" /\ pc' = "scan"
    /\ Drive
    /\ UNCHANGED <<mode, handled, service, runner, gimbal, panel, contest, lines, program, manual>>

-----------------------------------------------------------------------------
(* The buttons.  A key released soon enough raises SHORT_PRESSED.          *)

Scan ==
    /\ pc = "scan" /\ pc' = "chord"
    /\ level' \in [Keys -> BOOLEAN]
    /\ \E quick \in SUBSET ({2} \cup {b \in Keys : level[b] /\ ~level'[b]}) :
          short' = short \cup quick
    /\ mixed' = {b \in mixed : (level[b] \/ ~level'[b]) /\ (level'[b] \/ b \in short')}
    /\ UNCHANGED <<mode, fault, handled, drive, chord, toggled, contest, lines, program, manual>>

\* ModeSwitchChord_Update
Both == level[1] /\ level[3]

\* Mutant: a chord that has triggered is not latched.
ChordNextUnlatched ==
    IF ~Both THEN ChordIdle
    ELSE IF chord.phase = "idle" THEN ChordTracking
    ELSE IF chord.held + 1 >= Hold THEN [phase |-> "tracking", held |-> Hold - 1]
    ELSE [chord EXCEPT !.held = @ + 1]

\* Both keys start the chord; held long enough it latches, and so it does when one is
\* let go before; it is over when neither is down.
ChordNext ==
    IF chord.phase = "latched" THEN IF level[1] \/ level[3] THEN chord ELSE ChordIdle
    ELSE IF ~Both THEN IF chord.phase = "tracking" THEN ChordLatched ELSE chord
    ELSE IF chord.phase = "idle" THEN ChordTracking
    ELSE IF chord.held + 1 >= Hold THEN ChordLatched
    ELSE [chord EXCEPT !.held = @ + 1]

ChordStarted   == chord.phase = "idle" /\ ChordNext.phase = "tracking"
ChordTriggered == chord.phase = "tracking" /\ Both /\ chord.held + 1 >= Hold

ChordOwnsKeys == chord.phase # "idle" \/ ChordNext.phase # "idle"

\* What a button that is part of the chord has done is dropped.
Kept == IF ChordOwnsKeys THEN short \ Keys ELSE short

ChordStops ==
    \E o \in StopOutcomes :
        /\ EmergencyStop(o)
        /\ StopTakes(short \ Keys)
        /\ UNCHANGED <<service, slot, toggled>>

ChordSwitches ==
    \/ mode = "armed" /\ \E o \in StopOutcomes :
          DebugModeEnter(o) /\ UNCHANGED slot /\ toggled' = (o = "ok")
    \/ mode = "running" /\ \E o \in StopOutcomes, readable \in Readable :
          CompetitionArm(o, readable) /\ toggled' = TRUE

ChordStopping  == ChordStarted /\ mode \in {"competing", "running"}
ChordSwitching == ChordTriggered /\ ~fault /\ mode \in {"armed", "running"}

ChordQuiet ==
    /\ toggled' = (toggled /\ (level[1] \/ level[3]))
    /\ short' = IF mode = "fault" THEN short ELSE Kept
    /\ UNCHANGED <<mode, drive, slot, result, program, manual>>

\* App_CompetitionStatusTask, up to the end of the chord's part.
StatusChord ==
    /\ pc = "chord" /\ pc' = "buttons"
    /\ chord' = IF mode = "fault" THEN ChordIdle ELSE ChordNext
    /\ mixed' = IF Both THEN Keys ELSE mixed
    /\ \/ ChordStopping /\ ChordStops
       \/ ChordSwitching /\ ChordSwitches
       \/ ~ChordStopping /\ ~ChordSwitching /\ ChordQuiet
    /\ UNCHANGED <<fault, handled, level, lines>>

\* Buttons 1 and 3 select the slot, button 2 starts it.

\* Mutant: the selection does not wrap around.
ChosenUnwrapped == slot + (IF 1 \in short THEN -1 ELSE 0) + (IF 3 \in short THEN 1 ELSE 0)

Chosen == (slot + (IF 1 \in short THEN SlotCount - 1 ELSE 0)
                + (IF 3 \in short THEN 1 ELSE 0)) % SlotCount

ArmedButtons ==
    \E readable \in Readable, loaded \in Readable :
        LET shown == IF short \cap Keys = {} THEN result ELSE Shown(readable, "none")
        IN  /\ slot' = Chosen
            /\ IF 2 \in short
               THEN CompetitionStart(Chosen, shown, loaded)
               ELSE result' = shown /\ UNCHANGED <<runner, program, service, mode>>
            /\ short' = {}
            /\ UNCHANGED <<motion, claim, wheels, gimbal, manual>>

AbortPressed == mode = "competing" /\ 2 \in short

\* The rest of App_CompetitionStatusTask.
StatusButtons ==
    /\ pc = "buttons" /\ pc' = "action"
    /\ \/ mode = "armed" /\ ArmedButtons
       \/ AbortPressed /\ (\E o \in StopOutcomes : CompetitionStop(o)) /\ UNCHANGED slot
       \/ /\ mode # "armed" /\ ~AbortPressed
          /\ UNCHANGED <<mode, drive, short, slot, result, program, manual>>
    /\ UNCHANGED <<fault, handled, level, chord, toggled, mixed, lines>>

-----------------------------------------------------------------------------
(* The action task: a program starts and stops controllers, and ends.      *)

ProgramEnds(success, o) ==
    /\ runner' = [running |-> FALSE, success |-> success]
    /\ program' = IF success THEN "finished" ELSE "failed"
    /\ Halted(o)
    /\ UNCHANGED fault

ProgramMoves ==
    /\ motion' \in {{}, {"heading"}, {"lf"}}
    /\ claim' = (motion' # {}) /\ wheels' = (IF motion' = {} THEN 0 ELSE Lease)
    /\ gimbal' \in BOOLEAN
    /\ UNCHANGED <<fault, runner, program>>

ActionTask ==
    /\ pc = "action" /\ pc' = "app"
    /\ \/ ~runner.running /\ UNCHANGED <<runner, program, motion, claim, wheels, gimbal, fault>>
       \/ runner.running /\ ~fault /\ ProgramMoves
       \/ runner.running /\ \E o \in StopOutcomes, success \in BOOLEAN :
             (fault => ~success) /\ ProgramEnds(success, o)
    /\ UNCHANGED <<mode, handled, service, panel, contest, lines, manual>>

-----------------------------------------------------------------------------
(* App_Run                                                                 *)

FaultEntered(o) ==
    /\ Cancelled(o)
    /\ service' = FALSE
    /\ handled' = TRUE

\* Mutant: a program that has ended is taken for one that succeeded.
CompetitionDone(o) ==
    /\ result' = "done" /\ mode' = "armed" /\ short' = {}
    /\ claim' = FALSE /\ wheels' = AfterStop(o) /\ service' = TRUE

CompetitionEnded(o) ==
    /\ result' = IF runner.success THEN "done" ELSE "failed"
    /\ mode' = "armed"
    /\ short' = {}
    /\ claim' = FALSE /\ wheels' = AfterStop(o)
    /\ service' = TRUE

\* The result of a competition is shown for two seconds.
ResultHeld == result \in {"done", "failed", "stopped"}

FaultRound ==
    /\ fault
    /\ mode' = "fault"
    /\ \/ ~handled /\ \E o \in StopOutcomes : FaultEntered(o)
       \/ /\ handled /\ gimbal' = FALSE
          /\ UNCHANGED <<handled, service, runner, motion, claim, wheels, program, manual>>
    /\ UNCHANGED <<result, short>>

ArmedRound ==
    /\ ~fault /\ mode = "armed"
    /\ service' = FALSE
    /\ result' \in (IF ResultHeld THEN {result, "none"} ELSE {result})
    /\ UNCHANGED <<mode, handled, runner, motion, claim, wheels, gimbal, short, program, manual>>

CompetingRound ==
    /\ ~fault /\ mode = "competing"
    /\ \/ /\ runner.running /\ service' = TRUE
          /\ UNCHANGED <<result, mode, short, claim, wheels>>
       \/ ~runner.running /\ \E o \in {"ok", "refused"} : CompetitionEnded(o)
    /\ UNCHANGED <<handled, runner, motion, gimbal, program, manual>>

DebugRound ==
    /\ ~fault /\ mode \notin {"armed", "competing"}
    /\ mode' = "running" /\ service' = TRUE
    /\ UNCHANGED <<handled, runner, motion, claim, wheels, gimbal, result, short, program, manual>>

AppRun ==
    /\ pc = "app" /\ pc' = "shell"
    /\ lines' = 0
    /\ FaultRound \/ ArmedRound \/ CompetingRound \/ DebugRound
    /\ UNCHANGED <<fault, level, chord, toggled, mixed, slot>>

-----------------------------------------------------------------------------
(* Shell_Process executes every complete line: nothing runs in between.    *)

Line == pc = "shell" /\ lines < MaxLines /\ lines' = lines + 1 /\ UNCHANGED pc

\* Mutant: a motion command does not look at the fault.
ShellMotionUnderFault ==
    /\ Line
    /\ claim' = TRUE /\ wheels' = Lease /\ manual' = TRUE
    /\ UNCHANGED <<mode, fault, handled, service, runner, motion, gimbal, panel, contest, program>>

\* heading hold, heading turn, lf start, chassis speed ...: a fault refuses
\* them, the mode does not.
ShellMotion ==
    /\ Line /\ ~fault
    /\ \/ \E c \in Controllers : motion' = motion \cup {c} /\ UNCHANGED <<claim, wheels>>
       \/ claim' = TRUE /\ wheels' = Lease /\ UNCHANGED motion
    /\ manual' = TRUE
    /\ UNCHANGED <<mode, fault, handled, service, runner, gimbal, panel, contest, program>>

\* heading distance does not look at the fault: the next heading task does.
ShellDistance ==
    /\ Line
    /\ motion' = motion \cup {"heading"} /\ manual' = TRUE
    /\ UNCHANGED <<mode, fault, handled, service, runner, claim, wheels, gimbal, panel, contest, program>>

ShellGimbal ==
    /\ Line /\ ~fault /\ mode = "running"
    /\ gimbal' = TRUE /\ manual' = TRUE
    /\ UNCHANGED <<mode, fault, handled, service, runner, motion, claim, wheels, panel, contest, program>>

ShellRunStart ==
    /\ Line /\ ~fault /\ ~runner.running
    /\ runner' = [running |-> TRUE, success |-> FALSE]
    /\ program' = "running" /\ manual' = TRUE
    /\ UNCHANGED <<mode, fault, handled, service, motion, claim, wheels, gimbal, panel, contest>>

ShellRunCancel ==
    /\ Line
    /\ \E o \in StopOutcomes : Cancelled(o)
    /\ UNCHANGED <<mode, fault, handled, service, panel, contest>>

ShellStop ==
    /\ Line
    /\ \E o \in StopOutcomes : EmergencyStop(o)
    /\ StopTakes(short)
    /\ UNCHANGED <<fault, handled, service, level, chord, toggled, mixed, slot>>

ShellArm ==
    /\ Line /\ mode = "running" /\ ~fault
    /\ \E o \in StopOutcomes, readable \in Readable : CompetitionArm(o, readable)
    /\ UNCHANGED <<fault, handled, level, chord, toggled, mixed>>

ShellSelect ==
    /\ Line /\ mode = "armed"
    /\ \E s \in Slots, readable \in Readable : CompetitionSelect(s, readable)
    /\ UNCHANGED <<mode, fault, handled, drive, panel, program, manual>>

ShellStart ==
    /\ Line /\ mode = "armed"
    /\ \E loaded \in Readable : CompetitionStart(slot, result, loaded)
    /\ UNCHANGED <<fault, handled, motion, claim, wheels, gimbal, panel, slot, manual>>

ShellCompStop ==
    /\ Line /\ mode = "competing"
    /\ \E o \in StopOutcomes : CompetitionStop(o)
    /\ UNCHANGED <<fault, handled, level, chord, toggled, mixed, slot>>

Shell ==
    \/ ShellMotion \/ ShellDistance \/ ShellGimbal \/ ShellRunStart \/ ShellRunCancel \/ ShellStop
    \/ ShellArm \/ ShellSelect \/ ShellStart \/ ShellCompStop

RoundDone ==
    /\ pc = "shell" /\ pc' = "control"
    /\ UNCHANGED <<mode, fault, handled, drive, panel, contest, lines, program, manual>>

MainLoop == Control \/ Scan \/ StatusChord \/ StatusButtons \/ ActionTask \/ AppRun \/ RoundDone
Next == MainLoop \/ Shell

\* The main loop runs, and the wheels are under the board's watchdog: a claim
\* that is not renewed expires.
Spec == Init /\ [][Next]_vars /\ WF_vars(MainLoop)

-----------------------------------------------------------------------------
TypeOK ==
    /\ pc \in {"control", "scan", "chord", "buttons", "action", "app", "shell"}
    /\ mode \in Modes /\ fault \in BOOLEAN /\ handled \in BOOLEAN /\ service \in BOOLEAN
    /\ runner \in [running : BOOLEAN, success : BOOLEAN]
    /\ motion \subseteq Controllers /\ claim \in BOOLEAN /\ wheels \in 0 .. Lease
    /\ gimbal \in BOOLEAN
    /\ level \in [Keys -> BOOLEAN] /\ short \subseteq Buttons /\ mixed \subseteq Keys
    /\ chord \in [phase : {"idle", "tracking", "latched"}, held : 0 .. Hold - 1]
    /\ slot \in Slots /\ result \in Results
    /\ lines \in 0 .. MaxLines
    /\ program \in {"none", "running", "finished", "failed", "cancelled"}
    /\ manual \in BOOLEAN /\ toggled \in BOOLEAN

AtRest == motion = {} /\ ~runner.running /\ ~claim /\ ~gimbal

\* Once App_Run has dealt with a fault nothing is driven again, whatever the
\* buttons and the shell ask for: the stop is sent only once.
\* A controller can still be asked to start; it gets no claim.
FaultIsFinal == handled => ~runner.running /\ ~claim /\ ~gimbal /\ ~service

\* The debug mode is entered from rest only: an emergency stop one part of which
\* failed leaves the car armed.
DebugFromRest ==
    [][mode = "armed" /\ mode' = "running" => AtRest' /\ wheels' = 0]_vars

\* Between rounds, an armed car drives nothing unless the shell started it, whichever
\* way the competition or the debug mode was left; and the debug mode is entered with
\* nothing running and nothing powered.
ModesAtRest ==
    [](pc = "control" /\ mode = "armed" /\ ~manual => AtRest) /\ DebugFromRest

\* The chord stops whatever runs as soon as both keys are down, and what it
\* stopped does not come back by itself, however long they are held.  (The start
\* button and the shell can start something new.)
ChordKeepsStopped ==
    [][/\ pc = "chord" /\ ChordStarted /\ mode \in {"competing", "running"} => AtRest'
       /\ chord.phase # "idle" /\ AtRest /\ ~AtRest' => pc = "shell" \/ (pc = "buttons" /\ 2 \in short)]_vars

\* One press of the chord switches the mode at most once.
ChordOnce ==
    [][pc = "chord" /\ {mode, mode'} = {"armed", "running"} => ~toggled]_vars

\* A slot is selected by a key of its own: never by one that was pressed
\* together with the other key of the chord.
ChordSelectsNothing ==
    [][pc = "buttons" /\ slot' # slot => \E b \in Keys \cap short : b \notin mixed]_vars

\* The two keys of the chord: they stop the car and keep it stopped, switch the
\* mode once, and are not taken for presses of each.
ChordHonoured == ChordKeepsStopped /\ ChordOnce /\ ChordSelectsNothing

\* The result shown tells how the program ended, when one task of the round
\* finishes it, another stops it and a third reports it.
ResultTruthful ==
    [][/\ result' = "done" /\ result # "done" => program = "finished"
       /\ result' = "stopped" /\ result # "stopped" => program' # "running" /\ mode' = "armed"
       /\ result' = "failed" /\ result # "failed" => program \in {"failed", "cancelled"}]_vars

\* A car that is armed or at fault comes to rest although its only stop may be
\* refused: the service task is off and the board's watchdog ends what was left.
ComesToRest ==
    (fault \/ mode = "armed") ~> (wheels = 0 \/ manual \/ (~fault /\ mode # "armed"))

-----------------------------------------------------------------------------
(* What the safety properties rest on.                                     *)

FaultLatched == (handled => fault) /\ (mode = "fault" => fault)

\* The runner and the last program agree.
RunnerAgrees ==
    /\ runner.running => ~runner.success
    /\ runner.success => program = "finished"
    /\ ~runner.running => program # "running"

\* A competition whose program has ended is at App_Run, or the program failed.
EndIsReported ==
    mode = "competing" =>
        /\ runner.success => pc = "app"
        /\ runner.running \/ runner.success \/ program \in {"failed", "cancelled"}

\* What runs without the shell's doing is the program of a competition.
OnlyPrograms ==
    ~manual => (runner.running \/ AtRest) /\ (mode = "armed" => ~runner.running)

ToggledOnce == toggled => chord.phase = "latched" \/ fault

\* A key of the chord that is down, or whose press is not taken yet, keeps the chord
\* from ending; while it lasts the presses are dropped.
ChordHasKeys ==
    /\ mode # "fault" =>
          \A b \in Keys \cap mixed : (level[b] \/ b \in short) => chord.phase # "idle"
    /\ pc = "buttons" /\ mode = "armed" /\ chord.phase # "idle" => short \cap Keys = {}

Inductive ==
    TypeOK /\ FaultIsFinal /\ FaultLatched /\ RunnerAgrees /\ EndIsReported
    /\ OnlyPrograms /\ ToggledOnce /\ ChordHasKeys
=============================================================================
