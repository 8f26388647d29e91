--------------------------- MODULE AppModeProofs ----------------------------
(* Theorems about the modes of the car, for every number of slots, every   *)
(* set of valid programs, every hold time of the chord and every lease.    *)
EXTENDS AppMode, TLAPS, WellFoundedInduction

(* The first valid slot is a slot (CompetitionSelectInitialSlot).          *)
LEMMA FirstIsSlot == FirstValid \in Slots
<1>1. CASE Valid = {}
  BY <1>1, AppConstants DEF FirstValid, Slots
<1>2. CASE Valid # {}
  <2> DEFINE Below == {p \in Nat \X Nat : p[1] < p[2]}
  <2>1. IsWellFoundedOn(Below, Nat)
    BY NatLessThanWellFounded DEF OpToRel
  <2>2. Valid \subseteq Nat
    BY AppConstants DEF Slots
  <2> HIDE DEF Below
  <2>3. PICK s \in Valid : \A t \in Valid : ~(<<t, s>> \in Below)
    BY <1>2, <2>1, <2>2, WFMin
  <2>4. ASSUME NEW t \in Valid PROVE s <= t
    <3>1. s \in Nat /\ t \in Nat
      BY <2>2
    <3>2. t < s => <<t, s>> \in Below
      BY <3>1 DEF Below
    <3> QED BY <2>3, <3>1, <3>2
  <2>5. FirstValid \in Valid
    BY <1>2, <2>4 DEF FirstValid
  <2> QED BY <2>5, AppConstants
<1> QED BY <1>1, <1>2
-----------------------------------------------------------------------------
(* What the steps of one round do, by the part of the round that runs.     *)
LEMMA StepCases ==
    ASSUME [Next]_vars
    PROVE  \/ UNCHANGED vars
           \/ pc = "control" /\ pc' = "scan" /\ Control
           \/ pc = "scan" /\ pc' = "chord" /\ Scan
           \/ pc = "chord" /\ pc' = "buttons" /\ StatusChord
           \/ pc = "buttons" /\ pc' = "action" /\ StatusButtons
           \/ pc = "action" /\ pc' = "app" /\ ActionTask
           \/ pc = "app" /\ pc' = "shell" /\ AppRun
           \/ pc = "shell" /\ pc' = "shell" /\ Shell
           \/ pc = "shell" /\ pc' = "control" /\ RoundDone
  BY DEF Next, MainLoop, Control, Scan, StatusChord, StatusButtons, ActionTask, AppRun, RoundDone,
         Shell, Line, ShellMotion, ShellDistance, ShellGimbal, ShellRunStart, ShellRunCancel,
         ShellStop, ShellArm, ShellSelect, ShellStart, ShellCompStop
-----------------------------------------------------------------------------
(* Types.                                                                  *)

(* A stop leaves the car in a legal state, however much of it arrived.     *)
LEMMA CancelledTypes ==
    ASSUME TypeOK, NEW o, Cancelled(o)
    PROVE  /\ runner' \in [running : BOOLEAN, success : BOOLEAN]
           /\ program' \in {"none", "running", "finished", "failed", "cancelled"}
           /\ motion' \subseteq Controllers /\ claim' \in BOOLEAN /\ gimbal' \in BOOLEAN
           /\ wheels' \in 0 .. Lease /\ manual' \in BOOLEAN
<1>1. /\ runner' = [running |-> FALSE, success |-> FALSE]
      /\ motion' = {} /\ claim' = FALSE /\ gimbal' = FALSE /\ manual' = FALSE
      /\ program' \in {"cancelled", program}
  BY DEF Cancelled, Halted
<1>2. wheels' \in {0, wheels} /\ wheels \in 0 .. Lease /\ 0 \in 0 .. Lease
  BY AppConstants DEF TypeOK, Cancelled, Halted, AfterStop
<1> QED BY <1>1, <1>2 DEF TypeOK

LEMMA StartTypes ==
    ASSUME TypeOK, NEW s, NEW loaded, NEW shown \in Results, CompetitionStart(s, shown, loaded)
    PROVE  /\ runner' \in [running : BOOLEAN, success : BOOLEAN]
           /\ program' \in {"none", "running", "finished", "failed", "cancelled"}
           /\ service' \in BOOLEAN /\ mode' \in Modes /\ result' \in Results
<1>1. CASE CompetitionStarted
  BY <1>1 DEF CompetitionStarted, Modes, Results
<1>2. CASE result' \in {shown, "loadError"} /\ UNCHANGED <<runner, program, service, mode>>
  BY <1>2 DEF TypeOK, Results
<1> QED BY <1>1, <1>2 DEF CompetitionStart

LEMMA ChordTypes ==
    ASSUME TypeOK
    PROVE  /\ ChordIdle \in [phase : {"idle", "tracking", "latched"}, held : 0 .. Hold - 1]
           /\ ChordNext \in [phase : {"idle", "tracking", "latched"}, held : 0 .. Hold - 1]
  BY AppConstants DEF TypeOK, ChordIdle, ChordNext, ChordTracking, ChordLatched, Both

LEMMA ChosenIsSlot == ASSUME TypeOK PROVE Chosen \in Slots
<1>1. SlotCount \in Nat /\ SlotCount > 0 /\ slot \in 0 .. SlotCount - 1
  BY AppConstants DEF TypeOK, Slots
<1>2. slot + (IF 1 \in short THEN SlotCount - 1 ELSE 0) + (IF 3 \in short THEN 1 ELSE 0) \in Nat
  BY <1>1
<1> QED BY <1>1, <1>2 DEF Chosen, Slots

(* The control tasks move the wheels, the claim and the fault only.        *)
LEMMA ControlTypes ==
    ASSUME TypeOK, Control
    PROVE  TypeOK'
<1>1. fault' \in BOOLEAN /\ claim' \in BOOLEAN /\ motion' \subseteq Controllers
  <2>1. /\ fault' \in {fault, TRUE} /\ motion' \subseteq motion
        /\ claim' \in {TRUE, FALSE} \/ claim' = claim \/ claim' = (claim /\ ~fault')
    <3>1. CASE Renewed
      BY <3>1 DEF Renewed
    <3>2. CASE ControllersStop
      BY <3>2 DEF ControllersStop
    <3>3. CASE Undriven
      <4>1. fault' \in {fault, TRUE} /\ motion' = motion
        BY <3>3 DEF Undriven
      <4>2. claim' = claim \/ claim' = (claim /\ ~fault')
        BY <3>3, Zenon DEF Undriven
      <4> QED BY <4>1, <4>2
    <3> QED BY <3>1, <3>2, <3>3 DEF Control, Drive
  <2>2. claim \in BOOLEAN /\ fault' \in BOOLEAN
    BY <2>1 DEF TypeOK
  <2>3. claim' \in BOOLEAN
    BY <2>1, <2>2
  <2> QED BY <2>1, <2>2, <2>3 DEF TypeOK
<1>2. wheels' \in {0, wheels, Lease} \/ (wheels # 0 /\ wheels' = wheels - 1)
  BY DEF Control, Drive, Renewed, ControllersStop, Undriven, Expiring
<1>3. wheels' \in 0 .. Lease
  BY <1>2, AppConstants DEF TypeOK
<1> QED BY <1>1, <1>3 DEF TypeOK, Control, panel, contest

LEMMA ScanTypes ==
    ASSUME TypeOK, Scan
    PROVE  TypeOK'
<1>1. level' \in [Keys -> BOOLEAN] /\ mixed' \subseteq Keys
  BY DEF TypeOK, Scan
<1>2. short' \subseteq Buttons
  <2>1. PICK quick \in SUBSET ({2} \cup {b \in Keys : level[b] /\ ~level'[b]}) :
            short' = short \cup quick
    BY DEF Scan
  <2>2. quick \subseteq Buttons
    BY <2>1 DEF Buttons, Keys
  <2> QED BY <2>1, <2>2 DEF TypeOK
<1> QED BY <1>1, <1>2 DEF TypeOK, Scan, drive, contest

LEMMA ChordStepTypes ==
    ASSUME TypeOK, StatusChord
    PROVE  TypeOK'
<1>1. chord' \in [phase : {"idle", "tracking", "latched"}, held : 0 .. Hold - 1]
  BY ChordTypes DEF StatusChord
<1>2. mixed' \subseteq Keys
  BY DEF StatusChord, TypeOK
<1>3. CASE ChordStops
  <2>1. PICK o \in StopOutcomes :
            EmergencyStop(o) /\ StopTakes(short \ Keys) /\ UNCHANGED <<service, slot, toggled>>
    BY <1>3 DEF ChordStops
  <2>2. mode' \in Modes /\ result' \in Results /\ short' \subseteq Buttons
    BY <2>1 DEF TypeOK, EmergencyStop, EmergencyMode, StopTakes, Modes, Results
  <2> QED BY <1>1, <1>2, <2>1, <2>2, CancelledTypes DEF TypeOK, EmergencyStop, StatusChord
<1>4. CASE ChordSwitches
  <2>1. CASE \E o \in StopOutcomes :
                DebugModeEnter(o) /\ UNCHANGED slot /\ toggled' = (o = "ok")
    <3>1. PICK o \in StopOutcomes :
              DebugModeEnter(o) /\ UNCHANGED slot /\ toggled' = (o = "ok")
      BY <2>1
    <3>2. mode' \in Modes /\ short' \subseteq Buttons /\ service' \in BOOLEAN
      BY <3>1 DEF TypeOK, DebugModeEnter, Modes
    <3> QED BY <1>1, <1>2, <3>1, <3>2, CancelledTypes DEF TypeOK, DebugModeEnter, StatusChord
  <2>2. CASE \E o \in StopOutcomes, readable \in Readable :
                CompetitionArm(o, readable) /\ toggled' = TRUE
    <3>1. PICK o \in StopOutcomes, readable \in Readable :
              CompetitionArm(o, readable) /\ toggled' = TRUE
      BY <2>2
    <3>2. slot' \in Slots /\ result' \in Results /\ mode' \in Modes
      BY <3>1, FirstIsSlot, AppConstants DEF CompetitionArm, Shown, Slots, Results, Modes
    <3> QED BY <1>1, <1>2, <3>1, <3>2, CancelledTypes DEF TypeOK, CompetitionArm, StatusChord
  <2> QED BY <1>4, <2>1, <2>2 DEF ChordSwitches
<1>5. CASE ChordQuiet
  <2>1. short' \subseteq Buttons /\ toggled' \in BOOLEAN
    BY <1>5 DEF TypeOK, ChordQuiet, Kept, Keys
  <2> QED BY <1>1, <1>2, <1>5, <2>1 DEF TypeOK, StatusChord, ChordQuiet, drive
<1> QED BY <1>3, <1>4, <1>5 DEF StatusChord

LEMMA ButtonsTypes ==
    ASSUME TypeOK, StatusButtons
    PROVE  TypeOK'
<1>1. CASE ArmedButtons
  <2>1. PICK readable \in Readable, loaded \in Readable :
            LET shown == IF short \cap Keys = {} THEN result ELSE Shown(readable, "none")
            IN  /\ slot' = Chosen
                /\ IF 2 \in short
                   THEN CompetitionStart(Chosen, shown, loaded)
                   ELSE result' = shown /\ UNCHANGED <<runner, program, service, mode>>
                /\ short' = {}
                /\ UNCHANGED <<motion, claim, wheels, gimbal, manual>>
    BY <1>1 DEF ArmedButtons
  <2> DEFINE shown == IF short \cap Keys = {} THEN result ELSE Shown(readable, "none")
  <2>2. shown \in Results
    BY DEF TypeOK, Shown, Results
  <2>3. /\ runner' \in [running : BOOLEAN, success : BOOLEAN]
        /\ program' \in {"none", "running", "finished", "failed", "cancelled"}
        /\ service' \in BOOLEAN /\ mode' \in Modes /\ result' \in Results
    <3>1. CASE 2 \in short
      BY <2>1, <2>2, <3>1, StartTypes
    <3>2. CASE 2 \notin short
      BY <2>1, <2>2, <3>2 DEF TypeOK
    <3> QED BY <3>1, <3>2
  <2> QED BY <2>1, <2>3, ChosenIsSlot DEF TypeOK, StatusButtons
<1>2. CASE AbortPressed /\ (\E o \in StopOutcomes : CompetitionStop(o)) /\ UNCHANGED slot
  <2>1. PICK o \in StopOutcomes : CompetitionStop(o)
    BY <1>2
  <2>2. mode' \in Modes /\ result' \in Results
    BY <2>1 DEF CompetitionStop, Modes, Results
  <2> QED BY <1>2, <2>1, <2>2, CancelledTypes DEF TypeOK, CompetitionStop, StatusButtons
<1>3. CASE UNCHANGED <<mode, drive, short, slot, result, program, manual>>
  BY <1>3 DEF TypeOK, StatusButtons, drive
<1> QED BY <1>1, <1>2, <1>3 DEF StatusButtons

LEMMA ActionTypes ==
    ASSUME TypeOK, ActionTask
    PROVE  TypeOK'
<1>1. CASE UNCHANGED <<runner, program, motion, claim, wheels, gimbal, fault>>
  BY <1>1 DEF TypeOK, ActionTask, panel, contest
<1>2. CASE ProgramMoves
  <2>1. /\ motion' \subseteq Controllers /\ claim' \in BOOLEAN /\ gimbal' \in BOOLEAN
        /\ wheels' \in 0 .. Lease
    BY <1>2, AppConstants DEF ProgramMoves, Controllers
  <2> QED BY <1>2, <2>1 DEF TypeOK, ActionTask, ProgramMoves, panel, contest
<1>3. CASE \E o \in StopOutcomes, success \in BOOLEAN : ProgramEnds(success, o)
  <2>1. PICK o \in StopOutcomes, success \in BOOLEAN : ProgramEnds(success, o)
    BY <1>3
  <2>2. /\ runner' \in [running : BOOLEAN, success : BOOLEAN]
        /\ program' \in {"finished", "failed"}
        /\ motion' = {} /\ claim' = FALSE /\ gimbal' = FALSE /\ fault' = fault
    BY <2>1 DEF ProgramEnds, Halted
  <2>3. wheels' \in {0, wheels} /\ 0 \in 0 .. Lease
    BY <2>1, AppConstants DEF ProgramEnds, Halted, AfterStop
  <2> QED BY <2>2, <2>3 DEF TypeOK, ActionTask, panel, contest
<1> QED BY <1>1, <1>2, <1>3 DEF ActionTask

LEMMA AppTypes ==
    ASSUME TypeOK, AppRun
    PROVE  TypeOK'
<1> USE DEF AppRun
<1>0. 0 \in 0 .. MaxLines /\ 0 \in 0 .. Lease
  BY AppConstants
<1>1. CASE FaultRound
  <2>1. CASE \E o \in StopOutcomes : FaultEntered(o)
    <3>1. PICK o \in StopOutcomes : FaultEntered(o)
      BY <2>1
    <3> QED BY <1>0, <1>1, <3>1, CancelledTypes DEF TypeOK, FaultRound, FaultEntered, Modes
  <2>2. CASE /\ gimbal' = FALSE
             /\ UNCHANGED <<handled, service, runner, motion, claim, wheels, program, manual>>
    BY <1>0, <1>1, <2>2 DEF TypeOK, FaultRound, Modes
  <2> QED BY <1>1, <2>1, <2>2 DEF FaultRound
<1>2. CASE ArmedRound
  <2>1. result' \in Results
    BY <1>2 DEF TypeOK, ArmedRound, Results
  <2> QED BY <1>0, <1>2, <2>1 DEF TypeOK, ArmedRound
<1>3. CASE CompetingRound
  <2>1. CASE service' = TRUE /\ UNCHANGED <<result, mode, short, claim, wheels>>
    BY <1>0, <1>3, <2>1 DEF TypeOK, CompetingRound
  <2>2. CASE \E o \in {"ok", "refused"} : CompetitionEnded(o)
    <3>1. PICK o \in {"ok", "refused"} : CompetitionEnded(o)
      BY <2>2
    <3>2. /\ result' \in Results /\ mode' \in Modes /\ short' = {} /\ claim' = FALSE
          /\ wheels' \in {0, wheels} /\ service' = TRUE
      BY <3>1 DEF CompetitionEnded, AfterStop, Results, Modes
    <3> QED BY <1>0, <1>3, <3>2 DEF TypeOK, CompetingRound
  <2> QED BY <1>3, <2>1, <2>2 DEF CompetingRound
<1>4. CASE DebugRound
  BY <1>0, <1>4 DEF TypeOK, DebugRound, Modes
<1> QED BY <1>1, <1>2, <1>3, <1>4

LEMMA ShellTypes ==
    ASSUME TypeOK, Shell
    PROVE  TypeOK'
<1>0. pc' = pc /\ lines' \in 0 .. MaxLines
  BY AppConstants
     DEF TypeOK, Shell, Line, ShellMotion, ShellDistance, ShellGimbal, ShellRunStart, ShellRunCancel,
         ShellStop, ShellArm, ShellSelect, ShellStart, ShellCompStop
<1>1. CASE ShellMotion
  <2>1. CASE \E c \in Controllers : motion' = motion \cup {c} /\ UNCHANGED <<claim, wheels>>
    BY <1>0, <1>1, <2>1 DEF TypeOK, ShellMotion, panel, contest
  <2>2. CASE claim' = TRUE /\ wheels' = Lease /\ UNCHANGED motion
    <3>1. Lease \in 0 .. Lease
      BY AppConstants
    <3> QED BY <1>0, <1>1, <2>2, <3>1 DEF TypeOK, ShellMotion, panel, contest
  <2> QED BY <1>1, <2>1, <2>2 DEF ShellMotion
<1>2. CASE ShellDistance
  BY <1>0, <1>2 DEF TypeOK, ShellDistance, Controllers, panel, contest
<1>3. CASE ShellGimbal
  BY <1>0, <1>3 DEF TypeOK, ShellGimbal, panel, contest
<1>4. CASE ShellRunStart
  BY <1>0, <1>4 DEF TypeOK, ShellRunStart, panel, contest
<1>5. CASE ShellRunCancel
  <2>1. PICK o \in StopOutcomes : Cancelled(o)
    BY <1>5 DEF ShellRunCancel
  <2> QED BY <1>0, <1>5, <2>1, CancelledTypes DEF TypeOK, ShellRunCancel, panel, contest
<1>6. CASE ShellStop
  <2>1. PICK o \in StopOutcomes : EmergencyStop(o)
    BY <1>6 DEF ShellStop
  <2>2. mode' \in Modes /\ result' \in Results /\ short' \subseteq Buttons
    BY <1>6, <2>1 DEF TypeOK, ShellStop, EmergencyStop, EmergencyMode, StopTakes, Modes, Results
  <2> QED BY <1>0, <1>6, <2>1, <2>2, CancelledTypes DEF TypeOK, ShellStop, EmergencyStop
<1>7. CASE ShellArm
  <2>1. PICK o \in StopOutcomes, readable \in Readable : CompetitionArm(o, readable)
    BY <1>7 DEF ShellArm
  <2>2. slot' \in Slots /\ result' \in Results /\ mode' \in Modes
    BY <2>1, FirstIsSlot, AppConstants DEF CompetitionArm, Shown, Slots, Results, Modes
  <2> QED BY <1>0, <1>7, <2>1, <2>2, CancelledTypes DEF TypeOK, ShellArm, CompetitionArm
<1>8. CASE ShellSelect
  <2>1. slot' \in Slots /\ result' \in Results
    BY <1>8 DEF ShellSelect, CompetitionSelect, Shown, Results
  <2> QED BY <1>0, <1>8, <2>1 DEF TypeOK, ShellSelect, drive, panel
<1>9. CASE ShellStart
  <2>1. PICK loaded \in Readable : CompetitionStart(slot, result, loaded)
    BY <1>9 DEF ShellStart
  <2>2. result \in Results
    BY DEF TypeOK
  <2> QED BY <1>0, <1>9, <2>1, <2>2, StartTypes DEF TypeOK, ShellStart, panel
<1>10. CASE ShellCompStop
  <2>1. PICK o \in StopOutcomes : CompetitionStop(o)
    BY <1>10 DEF ShellCompStop
  <2>2. mode' \in Modes /\ result' \in Results
    BY <2>1 DEF CompetitionStop, Modes, Results
  <2> QED BY <1>0, <1>10, <2>1, <2>2, CancelledTypes DEF TypeOK, ShellCompStop, CompetitionStop
<1> QED BY <1>1, <1>2, <1>3, <1>4, <1>5, <1>6, <1>7, <1>8, <1>9, <1>10 DEF Shell

(* Every variable keeps its type and range: the slot shown is one of the   *)
(* memory (App_CompetitionSelect, CompetitionSelectInitialSlot) and the    *)
(* chord never counts past its hold time (ModeSwitchChord_Update).         *)
THEOREM AppTypeCorrect == Spec => []TypeOK
<1>1. Init => TypeOK
  <2> SUFFICES ASSUME Init PROVE TypeOK
    OBVIOUS
  <2>1. chord \in [phase : {"idle", "tracking", "latched"}, held : 0 .. Hold - 1]
    BY AppConstants DEF Init, ChordIdle
  <2>2. wheels \in 0 .. Lease /\ lines \in 0 .. MaxLines /\ slot \in Slots
    BY FirstIsSlot, AppConstants DEF Init
  <2>3. level \in [Keys -> BOOLEAN] /\ runner \in [running : BOOLEAN, success : BOOLEAN]
    BY DEF Init
  <2> QED BY <2>1, <2>2, <2>3 DEF Init, TypeOK, Modes, Results
<1>2. TypeOK /\ [Next]_vars => TypeOK'
  <2> SUFFICES ASSUME TypeOK, [Next]_vars PROVE TypeOK'
    OBVIOUS
  <2>1. CASE UNCHANGED vars
    BY <2>1 DEF TypeOK, vars, drive, panel, contest
  <2>2. CASE RoundDone
    BY <2>2 DEF TypeOK, RoundDone, drive, panel, contest
  <2> QED BY <2>1, <2>2, StepCases, ControlTypes, ScanTypes, ChordStepTypes, ButtonsTypes,
             ActionTypes, AppTypes, ShellTypes
<1> QED BY <1>1, <1>2, PTL DEF Spec
-----------------------------------------------------------------------------
(* The fault.                                                              *)

(* A stop leaves nothing running, whatever reached the board.              *)
LEMMA CancelledRests ==
    ASSUME NEW o, Cancelled(o)
    PROVE  /\ runner' = [running |-> FALSE, success |-> FALSE]
           /\ motion' = {} /\ claim' = FALSE /\ gimbal' = FALSE /\ manual' = FALSE
           /\ AtRest'
           /\ program' = IF runner.running THEN "cancelled" ELSE program
           /\ o = "ok" => wheels' = 0
  BY DEF Cancelled, Halted, AtRest, AfterStop

(* What the chord may do: stop all and stay where the emergency stop says, *)
(* switch the mode, or leave everything as it is.                          *)
LEMMA ChordCases ==
    ASSUME StatusChord
    PROVE  \/ /\ ChordStopping /\ UNCHANGED <<service, slot, toggled>>
              /\ \E o \in StopOutcomes : EmergencyStop(o) /\ StopTakes(short \ Keys)
           \/ /\ ChordSwitching /\ mode = "armed" /\ UNCHANGED slot
              /\ \E o \in StopOutcomes : DebugModeEnter(o) /\ toggled' = (o = "ok")
           \/ /\ ChordSwitching /\ mode = "running" /\ toggled' = TRUE
              /\ \E o \in StopOutcomes, readable \in Readable : CompetitionArm(o, readable)
           \/ ChordQuiet /\ ~ChordStopping /\ ~ChordSwitching
  BY DEF StatusChord, ChordStops, ChordSwitches

LEMMA ButtonCases ==
    ASSUME StatusButtons
    PROVE  \/ /\ mode = "armed" /\ 2 \notin short /\ slot' = Chosen /\ short' = {}
              /\ result' \in {result, "none", "loadError"}
              /\ UNCHANGED <<runner, program, service, mode, motion, claim, wheels, gimbal, manual>>
           \/ /\ mode = "armed" /\ 2 \in short /\ slot' = Chosen /\ short' = {}
              /\ \E loaded, shown : /\ shown \in {result, "none", "loadError"}
                                   /\ CompetitionStart(Chosen, shown, loaded)
              /\ UNCHANGED <<motion, claim, wheels, gimbal, manual>>
           \/ AbortPressed /\ (\E o \in StopOutcomes : CompetitionStop(o)) /\ UNCHANGED slot
           \/ /\ mode # "armed" /\ ~AbortPressed
              /\ UNCHANGED <<mode, drive, short, slot, result, program, manual>>
<1>1. CASE mode = "armed" /\ ArmedButtons
  <2>1. PICK readable \in Readable, loaded \in Readable :
            LET shown == IF short \cap Keys = {} THEN result ELSE Shown(readable, "none")
            IN  /\ slot' = Chosen
                /\ IF 2 \in short
                   THEN CompetitionStart(Chosen, shown, loaded)
                   ELSE result' = shown /\ UNCHANGED <<runner, program, service, mode>>
                /\ short' = {}
                /\ UNCHANGED <<motion, claim, wheels, gimbal, manual>>
    BY <1>1 DEF ArmedButtons
  <2> DEFINE shown == IF short \cap Keys = {} THEN result ELSE Shown(readable, "none")
  <2>2. shown \in {result, "none", "loadError"}
    BY DEF Shown
  <2> HIDE DEF shown
  <2>3. CASE 2 \in short
    <3>1. CompetitionStart(Chosen, shown, loaded)
      BY <2>1, <2>3 DEF shown
    <3> QED BY <1>1, <2>1, <2>2, <2>3, <3>1
  <2>4. CASE 2 \notin short
    BY <1>1, <2>1, <2>2, <2>4 DEF shown
  <2> QED BY <2>3, <2>4
<1> QED BY <1>1 DEF StatusButtons

(* A program is started only without a fault and with no other running.    *)
LEMMA StartCases ==
    ASSUME NEW s, NEW shown, NEW loaded, CompetitionStart(s, shown, loaded)
    PROVE  \/ /\ ~fault /\ ~runner.running /\ mode' = "competing" /\ program' = "running"
              /\ runner' = [running |-> TRUE, success |-> FALSE]
              /\ service' = TRUE /\ result' = "none"
           \/ /\ result' \in {shown, "loadError"}
              /\ UNCHANGED <<runner, program, service, mode>>
  BY DEF CompetitionStart, CanStart, CompetitionStarted

(* A fault stays, and is what the fault mode stands for: no command, no    *)
(* button and no program clears it (services::Fault_Clear is not called).  *)
LEMMA FaultLatchedStep ==
    ASSUME TypeOK, FaultLatched, [Next]_vars
    PROVE  FaultLatched' /\ (fault => fault')
<1> USE DEF FaultLatched
<1>1. CASE UNCHANGED vars
  BY <1>1 DEF vars
<1>2. CASE Control
  <2>1. fault' \in {fault, TRUE} /\ UNCHANGED <<mode, handled>>
    BY <1>2 DEF Control, Drive, Renewed, ControllersStop, Undriven
  <2> QED BY <2>1 DEF TypeOK
<1>3. CASE Scan
  BY <1>3 DEF Scan
<1>4. CASE StatusChord
  <2>1. UNCHANGED <<fault, handled>>
    BY <1>4 DEF StatusChord
  <2>2. mode' = "fault" => mode = "fault"
    BY <1>4, ChordCases DEF EmergencyStop, EmergencyMode, DebugModeEnter, CompetitionArm, ChordQuiet
  <2> QED BY <2>1, <2>2
<1>5. CASE StatusButtons
  <2>1. UNCHANGED <<fault, handled>>
    BY <1>5 DEF StatusButtons
  <2>2. mode' = "fault" => mode = "fault"
    BY <1>5, ButtonCases, StartCases DEF CompetitionStop
  <2> QED BY <2>1, <2>2
<1>6. CASE ActionTask
  BY <1>6 DEF ActionTask, ProgramMoves, ProgramEnds
<1>7. CASE AppRun
  BY <1>7 DEF AppRun, FaultRound, FaultEntered, ArmedRound, CompetingRound, CompetitionEnded, DebugRound
<1>8. CASE Shell
  <2>1. UNCHANGED <<fault, handled>>
    BY <1>8 DEF Shell, ShellMotion, ShellDistance, ShellGimbal, ShellRunStart, ShellRunCancel,
                ShellStop, ShellArm, ShellSelect, ShellStart, ShellCompStop
  <2>2. mode' = "fault" => mode = "fault"
    BY <1>8, StartCases
       DEF Shell, ShellMotion, ShellDistance, ShellGimbal, ShellRunStart, ShellRunCancel,
           ShellStop, ShellArm, ShellSelect, ShellStart, ShellCompStop,
           EmergencyStop, EmergencyMode, CompetitionArm, CompetitionStop
  <2> QED BY <2>1, <2>2
<1>9. CASE RoundDone
  BY <1>9 DEF RoundDone
<1> QED BY <1>1, <1>2, <1>3, <1>4, <1>5, <1>6, <1>7, <1>8, <1>9, StepCases

(* Once a fault is dealt with, the service task is off, so that the control *)
(* tasks renew no claim; and everything that would start something new      *)
(* looks at the fault first.                                                *)
LEMMA FaultIsFinalStep ==
    ASSUME TypeOK, TypeOK', FaultLatched, FaultIsFinal, [Next]_vars
    PROVE  FaultIsFinal'
<1>1. CASE ~handled'
  BY <1>1 DEF FaultIsFinal
<1>2. CASE ~handled /\ handled'
  <2>1. AppRun /\ FaultRound /\ ~handled
    BY <1>2, StepCases
       DEF vars, Control, Scan, StatusChord, StatusButtons, ActionTask, AppRun, RoundDone,
           ArmedRound, CompetingRound, DebugRound, FaultRound,
           Shell, ShellMotion, ShellDistance, ShellGimbal, ShellRunStart, ShellRunCancel,
           ShellStop, ShellArm, ShellSelect, ShellStart, ShellCompStop
  <2>2. PICK o \in StopOutcomes : FaultEntered(o)
    BY <2>1 DEF FaultRound
  <2>3. /\ runner' = [running |-> FALSE, success |-> FALSE]
        /\ claim' = FALSE /\ gimbal' = FALSE /\ service' = FALSE
    BY <2>2, CancelledRests DEF FaultEntered
  <2> QED BY <2>3 DEF FaultIsFinal
<1>3. CASE handled /\ handled'
  <2>0. fault /\ ~runner.running /\ ~claim /\ ~gimbal /\ ~service
    BY <1>3 DEF FaultLatched, FaultIsFinal
  <2> DEFINE Kept4   == UNCHANGED <<runner, claim, gimbal, service>>
             Stopped == /\ runner' = [running |-> FALSE, success |-> FALSE]
                        /\ claim' = FALSE /\ gimbal' = FALSE
                        /\ service' = FALSE \/ service' = service
  <2> SUFFICES Kept4 \/ Stopped
    <3>1. Kept4 => ~runner'.running /\ ~claim' /\ ~gimbal' /\ ~service'
      BY <2>0
    <3>2. ASSUME Stopped PROVE ~runner'.running /\ ~claim' /\ ~gimbal' /\ ~service'
      <4>1. ~runner'.running
        BY <3>2
      <4>2. ~claim' /\ ~gimbal' /\ ~service'
        BY <2>0, <3>2
      <4> QED BY <4>1, <4>2
    <3> QED BY <3>1, <3>2 DEF FaultIsFinal
  <2>1. CASE UNCHANGED vars
    BY <2>1 DEF vars, drive
  <2>2. CASE Control
    <3>1. UNCHANGED <<runner, gimbal, service>>
      BY <2>2 DEF Control
    <3>2. ~claim'
      BY <2>0, <2>2 DEF TypeOK, Control, Drive, ControllersStop, Undriven
    <3>3. claim' = claim
      BY <2>0, <3>2 DEF TypeOK
    <3> QED BY <3>1, <3>3
  <2>3. CASE Scan
    BY <2>3 DEF Scan, drive
  <2>4. CASE StatusChord
    <3>1. CASE ChordQuiet
      BY <3>1 DEF ChordQuiet, drive
    <3>2. CASE \E o \in StopOutcomes : EmergencyStop(o) /\ UNCHANGED service
      BY <3>2, CancelledRests DEF EmergencyStop
    <3> QED BY <2>0, <2>4, <3>1, <3>2, ChordCases DEF ChordSwitching
  <2>5. CASE StatusButtons
    <3>1. CASE Kept4
      BY <3>1
    <3>2. CASE \E o \in StopOutcomes : CompetitionStop(o)
      BY <3>2, CancelledRests DEF CompetitionStop
    <3>3. ASSUME NEW loaded, NEW shown, CompetitionStart(Chosen, shown, loaded)
          PROVE  UNCHANGED <<runner, service>>
      BY <2>0, <3>3, StartCases
    <3> QED BY <2>5, <3>1, <3>2, <3>3, ButtonCases DEF drive
  <2>6. CASE ActionTask
    <3>1. ~ runner.running
      BY <2>0
    <3> QED BY <2>6, <3>1 DEF ActionTask
  <2>7. CASE AppRun
    <3>1. CASE \E o \in StopOutcomes : FaultEntered(o)
      BY <3>1, CancelledRests DEF FaultEntered
    <3>2. FaultRound
      BY <2>0, <2>7 DEF AppRun, ArmedRound, CompetingRound, DebugRound
    <3>3. CASE gimbal' = FALSE /\ UNCHANGED <<service, runner, claim>>
      BY <2>0, <3>3 DEF TypeOK
    <3> QED BY <3>1, <3>2, <3>3 DEF FaultRound
  <2>8. CASE Shell
    <3>1. CASE ShellDistance \/ ShellSelect
      BY <3>1 DEF ShellDistance, ShellSelect, drive
    <3>2. CASE ShellRunCancel
      BY <3>2, CancelledRests DEF ShellRunCancel
    <3>3. CASE ShellStop
      BY <3>3, CancelledRests DEF ShellStop, EmergencyStop
    <3>4. CASE ShellCompStop
      BY <3>4, CancelledRests DEF ShellCompStop, CompetitionStop
    <3>5. CASE ShellStart
      <4>1. UNCHANGED <<runner, service>>
        BY <2>0, <3>5, StartCases DEF ShellStart
      <4> QED BY <3>5, <4>1 DEF ShellStart
    <3> QED BY <2>0, <2>8, <3>1, <3>2, <3>3, <3>4, <3>5
            DEF Shell, ShellMotion, ShellGimbal, ShellRunStart, ShellArm
  <2>9. CASE RoundDone
    BY <2>9 DEF RoundDone, drive
  <2> QED BY <2>1, <2>2, <2>3, <2>4, <2>5, <2>6, <2>7, <2>8, <2>9, StepCases
<1> QED BY <1>1, <1>2, <1>3 DEF TypeOK

(* Once App_Run has stopped the car for a fault, nothing is driven again,  *)
(* in whatever order buttons, programs and shell lines follow.             *)
THEOREM AppFaultIsFinal == Spec => []FaultIsFinal
<1>1. Init => FaultIsFinal /\ FaultLatched
  BY DEF Init, FaultIsFinal, FaultLatched
<1>2. TypeOK /\ TypeOK' /\ FaultIsFinal /\ FaultLatched /\ [Next]_vars
        => (FaultIsFinal /\ FaultLatched)'
  BY FaultIsFinalStep, FaultLatchedStep
<1> QED BY <1>1, <1>2, AppTypeCorrect, PTL DEF Spec
-----------------------------------------------------------------------------
(* The car at rest.                                                        *)

(* The ways a step keeps what runs to what was asked for: nothing of it    *)
(* changes, all of it stops, the shell started it, or the program goes on. *)
LEMMA OnlyProgramsKept ==
    ASSUME TypeOK, OnlyPrograms,
           \/ /\ UNCHANGED <<runner, motion, claim, gimbal, manual>>
              /\ mode' \in {mode, "running", "competing", "fault"} \/ ~runner.running
           \/ AtRest'
           \/ manual'
           \/ runner.running /\ UNCHANGED <<runner, mode, manual>>
           \/ runner' = [running |-> TRUE, success |-> FALSE] /\ mode' = "competing"
    PROVE  OnlyPrograms'
<1>1. CASE /\ UNCHANGED <<runner, motion, claim, gimbal, manual>>
           /\ mode' \in {mode, "running", "competing", "fault"} \/ ~runner.running
  <2>1. AtRest' = AtRest
    BY <1>1 DEF AtRest
  <2>2. ~manual' => (mode' = "armed" => ~runner'.running)
    BY <1>1 DEF OnlyPrograms
  <2>3. ~manual' => runner'.running \/ AtRest
    BY <1>1 DEF OnlyPrograms
  <2> QED BY <2>1, <2>2, <2>3 DEF OnlyPrograms
<1>2. CASE AtRest'
  BY <1>2 DEF OnlyPrograms, AtRest
<1>3. CASE manual'
  BY <1>3 DEF OnlyPrograms
<1>4. CASE runner.running /\ UNCHANGED <<runner, mode, manual>>
  BY <1>4 DEF OnlyPrograms
<1>5. CASE runner' = [running |-> TRUE, success |-> FALSE] /\ mode' = "competing"
  <2>1. runner'.running /\ mode' # "armed"
    BY <1>5
  <2> QED BY <2>1 DEF OnlyPrograms
<1> QED BY <1>1, <1>2, <1>3, <1>4, <1>5

LEMMA OnlyProgramsStep ==
    ASSUME TypeOK, TypeOK', OnlyPrograms, [Next]_vars
    PROVE  OnlyPrograms'
<1>1. CASE UNCHANGED vars
  BY <1>1, OnlyProgramsKept DEF vars, drive
<1>2. CASE Control
  <2>1. UNCHANGED <<runner, mode, manual, gimbal>>
    BY <1>2 DEF Control
  <2>2. CASE runner.running
    BY <2>1, <2>2, OnlyProgramsKept
  <2>3. CASE manual
    BY <2>1, <2>3, OnlyProgramsKept
  <2>4. CASE ~runner.running /\ ~manual
    <3>1. motion = {} /\ ~claim
      BY <2>4 DEF OnlyPrograms, AtRest
    <3>2. motion' = motion /\ ~claim'
      BY <1>2, <3>1 DEF TypeOK, Control, Drive, Undriven
    <3>3. claim' = claim
      BY <3>1, <3>2 DEF TypeOK
    <3> QED BY <2>1, <3>2, <3>3, OnlyProgramsKept
  <2> QED BY <2>2, <2>3, <2>4
<1>3. CASE Scan
  BY <1>3, OnlyProgramsKept DEF Scan, drive
<1>4. CASE StatusChord
  <2>1. CASE ChordQuiet
    BY <2>1, OnlyProgramsKept DEF ChordQuiet, drive
  <2>2. ASSUME NEW o \in StopOutcomes,
               EmergencyStop(o) \/ DebugModeEnter(o) \/ \E readable \in Readable : CompetitionArm(o, readable)
        PROVE  AtRest'
    BY <2>2, CancelledRests DEF EmergencyStop, DebugModeEnter, CompetitionArm
  <2> QED BY <1>4, <2>1, <2>2, ChordCases, OnlyProgramsKept
<1>5. CASE StatusButtons
  <2>1. CASE UNCHANGED <<runner, mode, motion, claim, gimbal, manual>>
    BY <2>1, OnlyProgramsKept
  <2>2. ASSUME NEW loaded, NEW shown, CompetitionStart(Chosen, shown, loaded),
               UNCHANGED <<motion, claim, wheels, gimbal, manual>>
        PROVE  OnlyPrograms'
    BY <2>1, <2>2, StartCases, OnlyProgramsKept
  <2>3. ASSUME NEW o \in StopOutcomes, CompetitionStop(o)
        PROVE  OnlyPrograms'
    BY <2>3, CancelledRests, OnlyProgramsKept DEF CompetitionStop
  <2> QED BY <1>5, <2>1, <2>2, <2>3, ButtonCases DEF drive
<1>6. CASE ActionTask
  <2>1. UNCHANGED <<mode, manual>>
    BY <1>6 DEF ActionTask
  <2>2. CASE UNCHANGED <<runner, motion, claim, gimbal>>
    BY <2>1, <2>2, OnlyProgramsKept
  <2>3. CASE runner.running /\ ProgramMoves
    BY <2>1, <2>3, OnlyProgramsKept DEF ProgramMoves
  <2>4. ASSUME NEW o \in StopOutcomes, NEW success \in BOOLEAN, ProgramEnds(success, o)
        PROVE  OnlyPrograms'
    <3>1. AtRest'
      BY <2>4 DEF ProgramEnds, Halted, AtRest
    <3> QED BY <3>1, OnlyProgramsKept
  <2> QED BY <1>6, <2>2, <2>3, <2>4 DEF ActionTask
<1>7. CASE AppRun
  <2>1. CASE FaultRound
    <3>1. ASSUME NEW o \in StopOutcomes, FaultEntered(o)
          PROVE  OnlyPrograms'
      BY <3>1, CancelledRests, OnlyProgramsKept DEF FaultEntered
    <3>2. CASE gimbal' = FALSE /\ UNCHANGED <<runner, motion, claim, manual>>
      <4>1. mode' = "fault"
        BY <2>1 DEF FaultRound
      <4>2. ~manual' => runner'.running \/ AtRest'
        BY <3>2 DEF OnlyPrograms, AtRest
      <4> QED BY <4>1, <4>2 DEF OnlyPrograms
    <3> QED BY <2>1, <3>1, <3>2 DEF FaultRound
  <2>2. CASE ArmedRound
    BY <2>2, OnlyProgramsKept DEF ArmedRound
  <2>3. CASE CompetingRound
    <3>1. CASE UNCHANGED <<mode, claim>>
      BY <2>3, <3>1, OnlyProgramsKept DEF CompetingRound
    <3>2. ASSUME NEW o \in {"ok", "refused"}, CompetitionEnded(o), ~runner.running
          PROVE  OnlyPrograms'
      <4>1. claim' = FALSE /\ UNCHANGED <<runner, motion, gimbal, manual>>
        BY <2>3, <3>2 DEF CompetingRound, CompetitionEnded
      <4>2. ~manual' => ~runner'.running
        BY <3>2, <4>1
      <4>3. ~manual' => AtRest'
        BY <3>2, <4>1 DEF OnlyPrograms, AtRest
      <4> QED BY <4>2, <4>3 DEF OnlyPrograms
    <3> QED BY <2>3, <3>1, <3>2 DEF CompetingRound
  <2>4. CASE DebugRound
    BY <2>4, OnlyProgramsKept DEF DebugRound
  <2> QED BY <1>7, <2>1, <2>2, <2>3, <2>4 DEF AppRun
<1>8. CASE Shell
  <2>1. CASE ShellMotion \/ ShellDistance \/ ShellGimbal \/ ShellRunStart
    BY <2>1, OnlyProgramsKept DEF ShellMotion, ShellDistance, ShellGimbal, ShellRunStart
  <2>2. CASE ShellRunCancel \/ ShellStop \/ ShellArm \/ ShellCompStop
    <3>1. PICK o : Cancelled(o)
      BY <2>2 DEF ShellRunCancel, ShellStop, ShellArm, ShellCompStop,
                  EmergencyStop, CompetitionArm, CompetitionStop
    <3> QED BY <3>1, CancelledRests, OnlyProgramsKept
  <2>3. CASE ShellSelect
    BY <2>3, OnlyProgramsKept DEF ShellSelect, drive
  <2>4. CASE ShellStart
    <3>1. PICK loaded \in Readable : CompetitionStart(slot, result, loaded)
      BY <2>4 DEF ShellStart
    <3>2. UNCHANGED <<motion, claim, gimbal, manual>>
      BY <2>4 DEF ShellStart
    <3> QED BY <3>1, <3>2, StartCases, OnlyProgramsKept
  <2> QED BY <1>8, <2>1, <2>2, <2>3, <2>4 DEF Shell
<1>9. CASE RoundDone
  BY <1>9, OnlyProgramsKept DEF RoundDone, drive
<1> QED BY <1>1, <1>2, <1>3, <1>4, <1>5, <1>6, <1>7, <1>8, <1>9, StepCases

(* Whatever leaves a competition or the debug mode leaves the car at rest, *)
(* and the debug mode is entered only when every part of its stop          *)
(* succeeded (App_DebugModeEnter, App_CompetitionArm, App_Run).            *)
THEOREM AppModesAtRest == Spec => ModesAtRest
<1>1. Init => OnlyPrograms
  BY DEF Init, OnlyPrograms, AtRest
<1>2. TypeOK /\ TypeOK' /\ OnlyPrograms /\ [Next]_vars => OnlyPrograms'
  BY OnlyProgramsStep
<1>3. OnlyPrograms => (pc = "control" /\ mode = "armed" /\ ~manual => AtRest)
  BY DEF OnlyPrograms
<1>4. [Next]_vars => [mode = "armed" /\ mode' = "running" => AtRest' /\ wheels' = 0]_vars
  <2> SUFFICES ASSUME Next, mode = "armed", mode' = "running"
               PROVE  AtRest' /\ wheels' = 0
    OBVIOUS
  <2>1. StatusChord
    <3>1. ~StatusButtons
      BY ButtonCases, StartCases DEF CompetitionStop
    <3>2. ~AppRun
      BY DEF AppRun, FaultRound, ArmedRound, CompetingRound, DebugRound
    <3>3. ~Shell
      BY StartCases
         DEF Shell, ShellMotion, ShellDistance, ShellGimbal, ShellRunStart, ShellRunCancel,
             ShellStop, ShellArm, ShellSelect, ShellStart, ShellCompStop, EmergencyStop,
             EmergencyMode
    <3> QED BY <3>1, <3>2, <3>3 DEF Next, MainLoop, Control, Scan, ActionTask, RoundDone
  <2>2. PICK o \in StopOutcomes : DebugModeEnter(o)
    BY <2>1, ChordCases DEF EmergencyStop, EmergencyMode, ChordQuiet
  <2>3. o = "ok" /\ Cancelled(o)
    BY <2>2 DEF DebugModeEnter
  <2> QED BY <2>3, CancelledRests
<1> QED BY <1>1, <1>2, <1>3, <1>4, AppTypeCorrect, PTL DEF Spec, ModesAtRest, DebugFromRest
-----------------------------------------------------------------------------
(* The chord.                                                              *)

(* Only the status task moves the chord, and what it is told of the keys   *)
(* comes from the scan before it.                                          *)
LEMMA ChordFrame ==
    ASSUME [Next]_vars
    PROVE  /\ ~StatusChord => UNCHANGED <<chord, toggled>>
           /\ ~StatusChord /\ ~Scan => UNCHANGED <<level, mixed>> /\ (short' = short \/ short' = {})
  BY StepCases, ButtonCases
     DEF vars, drive, panel, Control, StatusButtons, ActionTask, AppRun, RoundDone, FaultRound, ArmedRound,
         CompetingRound, CompetitionEnded, DebugRound, Scan, CompetitionStop, CompetitionArm, StopTakes,
         Shell, ShellMotion, ShellDistance, ShellGimbal, ShellRunStart, ShellRunCancel,
         ShellStop, ShellArm, ShellSelect, ShellStart, ShellCompStop

LEMMA ToggledOnceStep ==
    ASSUME TypeOK, FaultLatched, ToggledOnce, [Next]_vars
    PROVE  ToggledOnce'
<1>1. fault => fault'
  BY FaultLatchedStep
<1>2. CASE ~StatusChord
  BY <1>1, <1>2, ChordFrame DEF ToggledOnce
<1>3. CASE StatusChord
  <2>1. CASE fault
    BY <1>1, <2>1 DEF ToggledOnce
  <2>2. CASE ~fault
    <3>1. chord' = ChordNext
      BY <1>3, <2>2 DEF StatusChord, FaultLatched
    <3>2. CASE ChordStopping /\ toggled' = toggled
      BY <2>2, <3>2 DEF ChordStopping, ChordStarted, ToggledOnce
    <3>3. CASE ChordSwitching
      BY <3>1, <3>3 DEF ChordSwitching, ChordTriggered, ChordNext, ChordLatched, ToggledOnce
    <3>4. CASE ChordQuiet
      <4>1. toggled' => toggled /\ (level[1] \/ level[3])
        BY <3>4 DEF ChordQuiet
      <4> QED BY <2>2, <3>1, <4>1 DEF ChordNext, ToggledOnce
    <3> QED BY <1>3, <3>2, <3>3, <3>4, ChordCases
  <2> QED BY <2>1, <2>2
<1> QED BY <1>2, <1>3

LEMMA ChordHasKeysStep ==
    ASSUME TypeOK, FaultLatched, ChordHasKeys, [Next]_vars
    PROVE  ChordHasKeys'
<1>1. CASE StatusChord
  <2>1. mode' = "fault" <=> mode = "fault"
    BY <1>1, ChordCases DEF EmergencyStop, EmergencyMode, DebugModeEnter, CompetitionArm, ChordQuiet,
                            ChordStopping, ChordSwitching, Cancelled
  <2>2. CASE mode = "fault"
    BY <2>1, <2>2 DEF ChordHasKeys
  <2>3. CASE mode # "fault"
    <3>1. chord' = ChordNext /\ level' = level /\ mixed' = (IF Both THEN Keys ELSE mixed)
      BY <1>1, <2>3 DEF StatusChord
    <3>2. short' \subseteq short /\ (ChordOwnsKeys => short' \cap Keys = {})
      <4>1. CASE ChordQuiet
        BY <2>3, <4>1 DEF ChordQuiet, Kept
      <4>2. CASE \E o \in StopOutcomes : EmergencyStop(o) /\ StopTakes(short \ Keys)
        BY <4>2 DEF StopTakes
      <4>3. CASE (\E o \in StopOutcomes : DebugModeEnter(o))
                 \/ (\E o \in StopOutcomes, readable \in Readable : CompetitionArm(o, readable))
        BY <4>3 DEF DebugModeEnter, CompetitionArm
      <4> QED BY <1>1, <4>1, <4>2, <4>3, ChordCases
    <3>3. ASSUME NEW b \in Keys \cap mixed', level'[b] \/ b \in short'
          PROVE  chord'.phase # "idle"
      <4>1. CASE Both
        BY <3>1, <4>1 DEF ChordNext, Both, ChordTracking, ChordLatched
      <4>2. CASE ~Both /\ chord.phase = "idle"
        BY <2>3, <3>1, <3>2, <3>3, <4>2 DEF ChordHasKeys
      <4>3. CASE ~Both /\ chord.phase = "tracking"
        BY <3>1, <4>3 DEF ChordNext, ChordLatched
      <4>4. CASE ~Both /\ chord.phase = "latched"
        <5>1. b \notin short' /\ b \in {1, 3}
          BY <3>2, <4>4 DEF ChordOwnsKeys, Keys
        <5>2. level[1] \/ level[3]
          BY <3>1, <3>3, <5>1
        <5> QED BY <3>1, <4>4, <5>2 DEF ChordNext
      <4> QED BY <4>1, <4>2, <4>3, <4>4 DEF TypeOK
    <3>4. chord'.phase # "idle" => short' \cap Keys = {}
      BY <3>1, <3>2 DEF ChordOwnsKeys
    <3> QED BY <3>3, <3>4 DEF ChordHasKeys
  <2> QED BY <2>2, <2>3
<1>2. CASE Scan
  <2>1. UNCHANGED <<chord, mode>> /\ pc' = "chord"
    BY <1>2 DEF Scan
  <2>2. ASSUME NEW b \in Keys \cap mixed', level'[b] \/ b \in short'
        PROVE  b \in mixed /\ (level[b] \/ b \in short)
    <3>1. b \in mixed /\ (level[b] \/ ~level'[b])
      BY <1>2 DEF Scan
    <3>2. PICK quick \in SUBSET ({2} \cup {k \in Keys : level[k] /\ ~level'[k]}) : short' = short \cup quick
      BY <1>2 DEF Scan
    <3>3. CASE ~level[b]
      <4>1. b \notin quick
        BY <3>3 DEF Keys
      <4> QED BY <2>2, <3>1, <3>2, <3>3, <4>1
    <3> QED BY <3>1, <3>3
  <2> QED BY <2>1, <2>2 DEF ChordHasKeys
<1>3. CASE ~StatusChord /\ ~Scan
  <2>1. UNCHANGED <<chord, level, mixed>> /\ short' \subseteq short
    BY <1>3, ChordFrame
  <2>2. mode = "fault" => mode' = "fault"
    <3>1. CASE UNCHANGED mode
      BY <3>1
    <3>2. CASE StatusButtons
      BY <3>2, ButtonCases, StartCases DEF AbortPressed, drive
    <3>3. CASE AppRun
      BY <3>3 DEF AppRun, FaultRound, ArmedRound, CompetingRound, DebugRound, FaultLatched
    <3>4. CASE Shell
      BY <3>4 DEF Shell, ShellMotion, ShellDistance, ShellGimbal, ShellRunStart, ShellRunCancel,
                  ShellStop, ShellArm, ShellSelect, ShellStart, ShellCompStop, EmergencyStop, EmergencyMode
    <3> QED BY <1>3, <3>1, <3>2, <3>3, <3>4, StepCases
            DEF vars, Control, ActionTask, RoundDone
  <2>3. pc' = "buttons" => pc = "buttons" /\ mode' = mode /\ short' = short
    BY <1>3, StepCases DEF vars, panel
  <2> QED BY <2>1, <2>2, <2>3 DEF ChordHasKeys
<1> QED BY <1>1, <1>2, <1>3

(* Without a start button or a shell line, nothing starts to run.          *)
LEMMA StaysAtRest ==
    ASSUME TypeOK, TypeOK', [Next]_vars, AtRest, pc # "shell", ~(pc = "buttons" /\ 2 \in short)
    PROVE  AtRest'
<1>0. motion = {} /\ ~runner.running /\ ~claim /\ ~gimbal
  BY DEF AtRest
<1>1. CASE UNCHANGED <<runner, motion, claim, gimbal>>
  BY <1>1 DEF AtRest
<1>2. CASE Control
  <2>1. UNCHANGED <<runner, gimbal>> /\ motion' = motion /\ ~claim'
    BY <1>0, <1>2 DEF TypeOK, Control, Drive, Undriven
  <2>2. claim' = claim
    BY <1>0, <2>1 DEF TypeOK
  <2> QED BY <1>1, <2>1, <2>2
<1>3. CASE StatusChord
  <2>1. CASE ChordQuiet
    BY <1>1, <2>1 DEF ChordQuiet, drive
  <2>2. ASSUME NEW o \in StopOutcomes,
               EmergencyStop(o) \/ DebugModeEnter(o) \/ \E readable \in Readable : CompetitionArm(o, readable)
        PROVE  AtRest'
    BY <2>2, CancelledRests DEF EmergencyStop, DebugModeEnter, CompetitionArm
  <2> QED BY <1>3, <2>1, <2>2, ChordCases
<1>4. CASE StatusButtons
  BY <1>1, <1>4, ButtonCases DEF StatusButtons, AbortPressed, drive
<1>5. CASE ActionTask
  BY <1>0, <1>1, <1>5 DEF ActionTask
<1>6. CASE AppRun
  <2>1. CASE FaultRound
    <3>1. ASSUME NEW o \in StopOutcomes, FaultEntered(o)
          PROVE  AtRest'
      BY <3>1, CancelledRests DEF FaultEntered
    <3>2. CASE gimbal' = FALSE /\ UNCHANGED <<runner, motion, claim>>
      BY <3>2 DEF AtRest
    <3> QED BY <2>1, <3>1, <3>2 DEF FaultRound
  <2>2. CASE CompetingRound
    <3>1. claim' = claim \/ claim' = FALSE
      BY <2>2 DEF CompetingRound, CompetitionEnded
    <3>2. UNCHANGED <<runner, motion, gimbal>>
      BY <2>2 DEF CompetingRound
    <3> QED BY <3>1, <3>2 DEF AtRest
  <2>3. CASE ArmedRound \/ DebugRound
    BY <1>1, <2>3 DEF ArmedRound, DebugRound
  <2> QED BY <1>6, <2>1, <2>2, <2>3 DEF AppRun
<1>7. CASE Scan \/ RoundDone
  BY <1>1, <1>7 DEF Scan, RoundDone, drive
<1> QED BY <1>1, <1>2, <1>3, <1>4, <1>5, <1>6, <1>7, StepCases DEF vars, drive

(* A selection without a key of its own leaves the slot where it is.       *)
LEMMA SelectionNeedsKey ==
    ASSUME TypeOK, ChordHasKeys, [Next]_vars, pc = "buttons", slot' # slot
    PROVE  \E b \in Keys \cap short : b \notin mixed
<1>1. mode = "armed" /\ slot' = Chosen
  BY StepCases, ButtonCases DEF vars, contest
<1>2. SlotCount \in Nat /\ SlotCount > 0 /\ slot \in 0 .. SlotCount - 1
  BY AppConstants DEF TypeOK, Slots
<1>3. slot % SlotCount = slot
  BY <1>2
<1>4. Keys \cap short # {}
  BY <1>1, <1>2, <1>3 DEF Chosen, Keys
<1>5. chord.phase = "idle"
  BY <1>1, <1>4 DEF ChordHasKeys
<1>6. \A b \in Keys \cap mixed : b \notin short
  BY <1>1, <1>5 DEF ChordHasKeys
<1> QED BY <1>4, <1>6

(* The two keys of the chord stop the car and keep it stopped, switch the  *)
(* mode once, and are not taken for presses of each (ModeSwitchChord_Update *)
(* and App_CompetitionStatusTask), for every hold time.                    *)
THEOREM AppChordHonoured == Spec => ChordHonoured
<1> DEFINE KeepsStopped ==
             /\ pc = "chord" /\ ChordStarted /\ mode \in {"competing", "running"} => AtRest'
             /\ chord.phase # "idle" /\ AtRest /\ ~AtRest'
                  => pc = "shell" \/ (pc = "buttons" /\ 2 \in short)
           Once == pc = "chord" /\ {mode, mode'} = {"armed", "running"} => ~toggled
           SelectsNothing == pc = "buttons" /\ slot' # slot => \E b \in Keys \cap short : b \notin mixed
<1>1. Init => ToggledOnce /\ ChordHasKeys /\ FaultLatched
  BY DEF Init, ToggledOnce, ChordHasKeys, FaultLatched
<1>2. TypeOK /\ ToggledOnce /\ ChordHasKeys /\ FaultLatched /\ [Next]_vars
        => (ToggledOnce /\ ChordHasKeys /\ FaultLatched)'
  BY ToggledOnceStep, ChordHasKeysStep, FaultLatchedStep
<1>3. TypeOK /\ TypeOK' /\ [Next]_vars => [KeepsStopped]_vars
  <2> SUFFICES ASSUME TypeOK, TypeOK', [Next]_vars, vars' # vars PROVE KeepsStopped
    OBVIOUS
  <2>1. ASSUME pc = "chord", ChordStarted, mode \in {"competing", "running"}
        PROVE  AtRest'
    <3>1. StatusChord
      BY <2>1, StepCases
    <3>2. ChordStopping /\ ~ChordSwitching
      BY <2>1 DEF ChordStopping, ChordSwitching, ChordStarted, ChordTriggered
    <3>3. PICK o \in StopOutcomes : EmergencyStop(o)
      BY <3>1, <3>2, ChordCases
    <3> QED BY <3>3, CancelledRests DEF EmergencyStop
  <2> QED BY <2>1, StaysAtRest
<1>4. TypeOK /\ ToggledOnce /\ [Next]_vars => [Once]_vars
  <2> SUFFICES ASSUME TypeOK, ToggledOnce, [Next]_vars, pc = "chord", {mode, mode'} = {"armed", "running"},
                      vars' # vars
               PROVE  ~toggled
    OBVIOUS
  <2>1. StatusChord /\ mode' # mode /\ mode \in {"armed", "running"} /\ mode' \in {"armed", "running"}
    BY StepCases
  <2>2. ChordSwitching
    BY <2>1, ChordCases DEF ChordQuiet, ChordStopping, EmergencyStop, EmergencyMode
  <2> QED BY <2>2 DEF ChordSwitching, ChordTriggered, ToggledOnce
<1>5. TypeOK /\ ChordHasKeys /\ [Next]_vars => [SelectsNothing]_vars
  BY SelectionNeedsKey
<1>6. Spec => [][KeepsStopped]_vars /\ [][Once]_vars /\ [][SelectsNothing]_vars
  BY <1>1, <1>2, <1>3, <1>4, <1>5, AppTypeCorrect, PTL DEF Spec
<1> QED BY <1>6 DEF ChordHonoured, ChordKeepsStopped, ChordOnce, ChordSelectsNothing
-----------------------------------------------------------------------------
(* The result of a competition.                                            *)

(* The runner and the history of the last program change together.         *)
LEMMA RunnerMoves ==
    ASSUME [Next]_vars
    PROVE  \/ UNCHANGED <<runner, program>>
           \/ /\ runner' = [running |-> TRUE, success |-> FALSE] /\ program' = "running"
              /\ ~runner.running
           \/ /\ runner' = [running |-> FALSE, success |-> FALSE]
              /\ program' = IF runner.running THEN "cancelled" ELSE program
              /\ pc # "action"
           \/ /\ pc = "action" /\ runner.running
              /\ \E s \in BOOLEAN : /\ runner' = [running |-> FALSE, success |-> s]
                                    /\ program' = IF s THEN "finished" ELSE "failed"
<1>1. CASE UNCHANGED vars \/ Control \/ Scan \/ RoundDone
  BY <1>1 DEF vars, drive, Control, Scan, RoundDone
<1>2. CASE pc = "chord" /\ StatusChord
  <2>1. CASE ChordQuiet
    BY <2>1 DEF ChordQuiet, drive
  <2>2. ASSUME NEW o \in StopOutcomes,
               EmergencyStop(o) \/ DebugModeEnter(o) \/ \E readable \in Readable : CompetitionArm(o, readable)
        PROVE  Cancelled(o)
    BY <2>2 DEF EmergencyStop, DebugModeEnter, CompetitionArm
  <2> QED BY <1>2, <2>1, <2>2, ChordCases, CancelledRests
<1>3. CASE pc = "buttons" /\ StatusButtons
  <2>1. ASSUME NEW o \in StopOutcomes, CompetitionStop(o)
        PROVE  Cancelled(o)
    BY <2>1 DEF CompetitionStop
  <2> QED BY <1>3, <2>1, ButtonCases, StartCases, CancelledRests DEF drive
<1>4. CASE pc = "action" /\ ActionTask
  <2>1. CASE ProgramMoves
    BY <2>1 DEF ProgramMoves
  <2>2. ASSUME NEW o \in StopOutcomes, NEW success \in BOOLEAN, ProgramEnds(success, o)
        PROVE  /\ runner' = [running |-> FALSE, success |-> success]
               /\ program' = IF success THEN "finished" ELSE "failed"
    BY <2>2 DEF ProgramEnds
  <2> QED BY <1>4, <2>1, <2>2 DEF ActionTask
<1>5. CASE pc = "app" /\ AppRun
  <2>1. ASSUME NEW o \in StopOutcomes, FaultEntered(o)
        PROVE  Cancelled(o)
    BY <2>1 DEF FaultEntered
  <2> QED BY <1>5, <2>1, CancelledRests DEF AppRun, FaultRound, ArmedRound, CompetingRound, DebugRound
<1>6. CASE pc = "shell" /\ Shell
  <2>1. CASE ShellRunCancel \/ ShellStop \/ ShellArm \/ ShellCompStop
    <3>1. PICK o : Cancelled(o)
      BY <2>1 DEF ShellRunCancel, ShellStop, ShellArm, ShellCompStop,
                  EmergencyStop, CompetitionArm, CompetitionStop
    <3> QED BY <1>6, <3>1, CancelledRests
  <2>2. CASE ShellStart
    BY <2>2, StartCases DEF ShellStart
  <2>3. CASE ShellMotion \/ ShellDistance \/ ShellGimbal \/ ShellRunStart \/ ShellSelect
    BY <2>3 DEF ShellMotion, ShellDistance, ShellGimbal, ShellRunStart, ShellSelect, drive
  <2> QED BY <1>6, <2>1, <2>2, <2>3 DEF Shell
<1> QED BY <1>1, <1>2, <1>3, <1>4, <1>5, <1>6, StepCases

LEMMA RunnerAgreesStep ==
    ASSUME TypeOK, RunnerAgrees, [Next]_vars
    PROVE  RunnerAgrees'
<1>1. CASE UNCHANGED <<runner, program>>
  BY <1>1 DEF RunnerAgrees
<1>2. CASE runner' = [running |-> TRUE, success |-> FALSE] /\ program' = "running"
  <2>1. runner'.running /\ ~runner'.success
    BY <1>2
  <2> QED BY <2>1 DEF RunnerAgrees
<1>3. CASE /\ runner' = [running |-> FALSE, success |-> FALSE]
           /\ program' = IF runner.running THEN "cancelled" ELSE program
  <2>1. ~runner'.running /\ ~runner'.success
    BY <1>3
  <2>2. program' # "running"
    BY <1>3 DEF RunnerAgrees
  <2> QED BY <2>1, <2>2 DEF RunnerAgrees
<1>4. ASSUME NEW s \in BOOLEAN, runner' = [running |-> FALSE, success |-> s],
             program' = IF s THEN "finished" ELSE "failed"
      PROVE  RunnerAgrees'
  <2>1. runner'.running = FALSE /\ runner'.success = s
    BY <1>4
  <2> QED BY <1>4, <2>1 DEF RunnerAgrees
<1> QED BY <1>1, <1>2, <1>3, <1>4, RunnerMoves

(* Between the end of a program and App_Run there is no other task: only   *)
(* there a competition is found with its program ended.                    *)
LEMMA EndIsReportedStep ==
    ASSUME TypeOK, RunnerAgrees, EndIsReported, [Next]_vars
    PROVE  EndIsReported'
<1>1. CASE mode' # "competing"
  BY <1>1 DEF EndIsReported
<1>2. CASE mode # "competing" /\ mode' = "competing"
  <2>1. runner' = [running |-> TRUE, success |-> FALSE]
    <3>1. ~StatusChord
      BY <1>2, ChordCases DEF EmergencyStop, EmergencyMode, DebugModeEnter, CompetitionArm, ChordQuiet
    <3>2. ~AppRun
      BY <1>2 DEF AppRun, FaultRound, ArmedRound, CompetingRound, DebugRound
    <3>3. CASE StatusButtons
      BY <1>2, <3>3, ButtonCases, StartCases DEF CompetitionStop
    <3>4. CASE Shell
      BY <1>2, <3>4, StartCases
         DEF Shell, ShellMotion, ShellDistance, ShellGimbal, ShellRunStart, ShellRunCancel,
             ShellStop, ShellArm, ShellSelect, ShellStart, ShellCompStop, EmergencyStop, EmergencyMode,
             CompetitionArm, CompetitionStop
    <3> QED BY <1>2, <3>1, <3>2, <3>3, <3>4, StepCases
            DEF vars, Control, Scan, ActionTask, RoundDone
  <2>2. runner'.running /\ ~runner'.success
    BY <2>1
  <2> QED BY <2>2 DEF EndIsReported
<1>3. CASE mode = "competing" /\ mode' = "competing"
  <2>1. CASE pc = "app"
    <3>1. AppRun \/ UNCHANGED vars
      BY <2>1, StepCases
    <3>2. CASE AppRun
      <4>1. runner.running /\ UNCHANGED <<runner, program>>
        BY <1>3, <3>2 DEF AppRun, FaultRound, ArmedRound, CompetingRound, CompetitionEnded, DebugRound
      <4>2. runner'.running /\ ~runner'.success
        BY <4>1 DEF RunnerAgrees
      <4> QED BY <4>2 DEF EndIsReported
    <3> QED BY <3>1, <3>2 DEF EndIsReported, vars, drive
  <2>2. CASE pc # "app"
    <3>0. ~runner.success /\ (runner.running \/ program \in {"failed", "cancelled"})
      BY <1>3, <2>2 DEF EndIsReported
    <3>1. CASE UNCHANGED <<runner, program>>
      BY <3>0, <3>1 DEF EndIsReported
    <3>2. CASE runner' = [running |-> TRUE, success |-> FALSE]
      <4>1. runner'.running /\ ~runner'.success
        BY <3>2
      <4> QED BY <4>1 DEF EndIsReported
    <3>3. CASE /\ runner' = [running |-> FALSE, success |-> FALSE]
               /\ program' = IF runner.running THEN "cancelled" ELSE program
      <4>1. ~runner'.success /\ program' \in {"failed", "cancelled"}
        BY <3>0, <3>3
      <4> QED BY <4>1 DEF EndIsReported
    <3>4. ASSUME NEW s \in BOOLEAN, runner' = [running |-> FALSE, success |-> s],
                 program' = IF s THEN "finished" ELSE "failed", pc = "action"
          PROVE  EndIsReported'
      <4>1. pc' = "app" \/ UNCHANGED vars
        BY <3>4, StepCases
      <4>2. runner'.success = s
        BY <3>4
      <4>3. CASE UNCHANGED vars
        BY <4>3 DEF EndIsReported, vars, drive
      <4>4. CASE pc' = "app"
        BY <3>4, <4>2, <4>4 DEF EndIsReported
      <4> QED BY <4>1, <4>3, <4>4
    <3> QED BY <3>1, <3>2, <3>3, <3>4, RunnerMoves
  <2> QED BY <2>1, <2>2
<1> QED BY <1>1, <1>2, <1>3

(* The result shown is that of the program, and a stop is reported only    *)
(* when nothing runs any more (App_Run, App_CompetitionStop,               *)
(* App_EmergencyStop).                                                     *)
THEOREM AppResultTruthful == Spec => ResultTruthful
<1> DEFINE Told ==
             /\ result' = "done" /\ result # "done" => program = "finished"
             /\ result' = "stopped" /\ result # "stopped" => program' # "running" /\ mode' = "armed"
             /\ result' = "failed" /\ result # "failed" => program \in {"failed", "cancelled"}
<1>1. Init => RunnerAgrees /\ EndIsReported
  <2> SUFFICES ASSUME Init PROVE RunnerAgrees /\ EndIsReported
    OBVIOUS
  <2>1. ~runner.running /\ ~runner.success /\ program # "running" /\ mode # "competing"
    BY DEF Init
  <2> QED BY <2>1 DEF RunnerAgrees, EndIsReported
<1>2. TypeOK /\ RunnerAgrees /\ EndIsReported /\ [Next]_vars => (RunnerAgrees /\ EndIsReported)'
  BY RunnerAgreesStep, EndIsReportedStep
<1>3. TypeOK /\ RunnerAgrees /\ EndIsReported /\ [Next]_vars => [Told]_vars
  <2> SUFFICES ASSUME TypeOK, RunnerAgrees, EndIsReported, [Next]_vars, vars' # vars
               PROVE  Told
    OBVIOUS
  <2>1. CASE result' \in {result, "none", "loadError"}
    BY <2>1
  <2>2. ASSUME NEW o, EmergencyStop(o) \/ CompetitionStop(o), result' = "stopped", result # "stopped"
        PROVE  Told
    <3>1. mode' = "armed" /\ Cancelled(o)
      BY <2>2 DEF EmergencyStop, EmergencyMode, CompetitionStop
    <3>2. program' # "running"
      BY <3>1, CancelledRests DEF RunnerAgrees
    <3> QED BY <2>2, <3>1, <3>2
  <2>3. ASSUME NEW o, EmergencyStop(o) \/ CompetitionStop(o)
        PROVE  Told
    <3>1. result' \in {result, "stopped"}
      BY <2>3 DEF EmergencyStop, CompetitionStop
    <3> QED BY <2>1, <2>2, <2>3, <3>1
  <2>4. ASSUME CompetingRound, NEW o, CompetitionEnded(o), ~runner.running
        PROVE  Told
    <3>1. result' = IF runner.success THEN "done" ELSE "failed"
      BY <2>4 DEF CompetitionEnded
    <3>2. runner.success => program = "finished"
      BY DEF RunnerAgrees
    <3>3. ~runner.success => program \in {"failed", "cancelled"}
      BY <2>4 DEF CompetingRound, EndIsReported
    <3> QED BY <3>1, <3>2, <3>3
  <2>5. CASE StatusChord
    <3>1. CASE \E o \in StopOutcomes : EmergencyStop(o)
      BY <2>3, <3>1
    <3> QED BY <2>1, <2>5, <3>1, ChordCases DEF DebugModeEnter, CompetitionArm, Shown, ChordQuiet
  <2>6. CASE StatusButtons
    <3>1. CASE \E o \in StopOutcomes : CompetitionStop(o)
      BY <2>3, <3>1
    <3> QED BY <2>1, <2>6, <3>1, ButtonCases, StartCases
  <2>7. CASE AppRun
    <3>1. CASE result' \in {result, "none"}
      BY <2>1, <3>1
    <3> QED BY <2>4, <2>7, <3>1 DEF AppRun, FaultRound, ArmedRound, CompetingRound, DebugRound
  <2>8. CASE Shell
    <3>1. CASE ShellStop \/ ShellCompStop
      BY <2>3, <3>1 DEF ShellStop, ShellCompStop
    <3>2. CASE ShellArm \/ ShellSelect \/ ShellStart
      BY <2>1, <3>2, StartCases DEF ShellArm, ShellSelect, ShellStart, CompetitionArm, CompetitionSelect, Shown
    <3> QED BY <2>1, <2>8, <3>1, <3>2
            DEF Shell, ShellMotion, ShellDistance, ShellGimbal, ShellRunStart, ShellRunCancel, contest
  <2> QED BY <2>1, <2>5, <2>6, <2>7, <2>8, StepCases DEF Control, Scan, ActionTask, RoundDone, contest
<1>4. Spec => [][Told]_vars
  BY <1>1, <1>2, <1>3, AppTypeCorrect, PTL DEF Spec
<1> QED BY <1>4 DEF ResultTruthful
-----------------------------------------------------------------------------
(* The invariant behind the theorems above, as one: types, what a fault    *)
(* leaves, how the runner and the reported result go together, what may    *)
(* run without the shell, and which presses the chord still owns.          *)
THEOREM AppInductive == Spec => []Inductive
<1>1. Init => FaultIsFinal /\ FaultLatched /\ RunnerAgrees /\ EndIsReported
              /\ OnlyPrograms /\ ToggledOnce /\ ChordHasKeys
  <2> SUFFICES ASSUME Init
               PROVE  FaultIsFinal /\ FaultLatched /\ RunnerAgrees /\ EndIsReported
                      /\ OnlyPrograms /\ ToggledOnce /\ ChordHasKeys
    OBVIOUS
  <2>1. ~runner.running /\ ~runner.success /\ program # "running" /\ mode # "competing"
    BY DEF Init
  <2>2. RunnerAgrees /\ EndIsReported
    BY <2>1 DEF RunnerAgrees, EndIsReported
  <2>3. FaultIsFinal /\ FaultLatched /\ OnlyPrograms /\ ToggledOnce /\ ChordHasKeys
    BY DEF Init, FaultIsFinal, FaultLatched, OnlyPrograms, AtRest, ToggledOnce, ChordHasKeys
  <2> QED BY <2>2, <2>3
<1>2. TypeOK /\ TypeOK' /\ Inductive /\ [Next]_vars
        => (FaultIsFinal /\ FaultLatched /\ RunnerAgrees /\ EndIsReported
            /\ OnlyPrograms /\ ToggledOnce /\ ChordHasKeys)'
  BY FaultIsFinalStep, FaultLatchedStep, RunnerAgreesStep, EndIsReportedStep, OnlyProgramsStep,
     ToggledOnceStep, ChordHasKeysStep
     DEF Inductive
<1> QED BY <1>1, <1>2, AppTypeCorrect, PTL DEF Spec, Inductive
=============================================================================
