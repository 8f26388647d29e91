------------------------------ MODULE Services ------------------------------
(***************************************************************************)
(* What gugaPI is made of beside its motors, side by side: what the FRAM   *)
(* keeps, the programs and the runner that drives them, the sensors and    *)
(* what is read out of them, the scheduler, the display, the radio link    *)
(* and the console.  They share no variable but the parameters, which      *)
(* ImuBias extends, so that a behaviour of all is a behaviour of each.     *)
(***************************************************************************)
EXTENDS SequenceStore, ProgramTable, Scheduler, LoraLink, ActionRunner, ImuBias, GrayScan,
        GrayLine, Display, DebugUart, ShellInput

ServicesConstants ==
    /\ StoreConstants /\ TableConstants /\ SchedConstants /\ LoraConstants /\ RunnerConstants
    /\ ImuConstants /\ ScanConstants /\ LineConstants /\ DisplayConstants
    /\ TxConstants /\ InputConstants

ServicesSpec ==
    /\ Spec /\ TableSpec /\ SchedSpec /\ LoraSpec /\ RunnerSpec
    /\ ImuSpec /\ ScanSpec /\ LineSpec /\ DisplaySpec /\ TxSpec /\ InputSpec

-----------------------------------------------------------------------------
(* Every part keeps its types and the bounds its module states.            *)
ServicesTypeOK ==
    /\ TypeOK /\ TableTypeOK /\ SchedTypeOK /\ LoraTypeOK /\ RunnerTypeOK
    /\ ImuTypeOK /\ ScanTypeOK /\ LineTypeOK /\ DisplayTypeOK /\ TxTypeOK /\ InputTypeOK

(* What the array says of the line is true now: settled and coherent       *)
(* frames, positions not older than the bridging allows, and a usable      *)
(* calibration (grayscale.cpp, grayscale_processing.cpp,                   *)
(* app_grayscale.cpp).                                                     *)
ArrayTrue == FrameTrue /\ FrameCoherent /\ WeakBounded /\ CalibrationSpan

(* The console sends what it was given and runs what was typed, and the    *)
(* monitors it turns on leave the display to the competition               *)
(* (debug_uart.cpp, shell.cpp, AppShell_DisableOledStreams).               *)
ConsoleTrue == SentInOrder /\ RunsWhatWasTyped /\ OneMonitor
=============================================================================
