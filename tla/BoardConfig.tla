----------------------------- MODULE BoardConfig -----------------------------
(* The settings gugaPI keeps for the MotorDriver board: written to the board when  *)
(* the chassis is initialised (app/chassis.cpp), changed on the board and in the     *)
(* configuration store by the motor command (app/app_shell.cpp) through checked      *)
(* register writes (app/motor_driver_client.h), and lost by the board whenever it    *)
(* resets.  Encoder inversion is handled like output inversion and left out.         *)
EXTENDS Integers, Sequences

CONSTANTS Values,         \* 0 and up: of settings the model does not look into
          Duties,         \* of the least and the largest duty of the speed loop
          MaxBoardEvents \* bound: resets of the board, commands and edits

BoardConstants ==
    {0, 1} \subseteq Values /\ 0 \in Duties /\ Duties \subseteq Int

VARIABLES params,      \* ConfigStore_Get
          board,       \* the registers of the board
          step,        \* the write Chassis_Init is at, 0 outside of it
          initialized, \* g_state.initialized
          answer,      \* of the last motor command
          agreed,      \* observer: nothing has come between params and board
          boardEvents

boardVars == << params, board, step, initialized, answer, agreed, boardEvents >>

GroupOrder == << "counts", "pid", "ramp", "pospid", "posctl", "invert" >>
Wheels == {"m1", "m2"}
Pids == [gain : Values, max : Duties, min : Duties]
Settings == [counts : Values, pid : Pids, ramp : Values, pospid : Values,
             posctl : Values, invert : SUBSET Wheels]

(* What the board comes up with; nothing of it is saved there. *)
BoardDefaults == [counts |-> 0, pid |-> [gain |-> 0, max |-> 0, min |-> 0], ramp |-> 0,
                  pospid |-> 0, posctl |-> 0, invert |-> {}]

ValidPid(p) == p.min <= p.max

BoardEvent == boardEvents < MaxBoardEvents /\ boardEvents' = boardEvents + 1

BoardInit ==
    /\ \E v \in Values, p \in Pids, i \in SUBSET Wheels :
           /\ ValidPid(p)
           /\ params = [counts |-> v, pid |-> p, ramp |-> v, pospid |-> v, posctl |-> 1,
                        invert |-> i]
    /\ board = BoardDefaults
    /\ step = 1 /\ initialized = FALSE /\ answer = "none" /\ agreed = FALSE
    /\ boardEvents = 0

(* WriteRegistersChecked: a write is reported good only when it was read back.  A   *)
(* failed one (no answer, refused, not read back, an old firmware) may have been      *)
(* carried out.                                                                        *)
Written(group, value, ok) ==
    IF ok THEN board' = [board EXCEPT ![group] = value]
    ELSE board' \in {board, [board EXCEPT ![group] = value]}

(* Mutant: a write that failed does not end the sequence. *)
NextStepAnyway(ok) ==
    /\ step' = IF step = Len(GroupOrder) THEN 0 ELSE step + 1
    /\ initialized' = (step = Len(GroupOrder))

(* ApplyPersistentMotorConfig and Chassis_Init: the first failure ends it. *)
NextStep(ok) ==
    /\ step' = IF ok /\ step < Len(GroupOrder) THEN step + 1 ELSE 0
    /\ initialized' = (ok /\ step = Len(GroupOrder))

InitWrites ==
    /\ step > 0
    /\ \E ok \in BOOLEAN : Written(GroupOrder[step], params[GroupOrder[step]], ok) /\ NextStep(ok)
    /\ agreed' = IF step = 1 THEN TRUE ELSE agreed
    /\ UNCHANGED << params, answer, boardEvents >>

(* The board resets (power, watchdog of its own) and comes up with its defaults. *)
BoardResets ==
    /\ BoardEvent
    /\ board' = BoardDefaults /\ agreed' = FALSE
    /\ UNCHANGED << params, step, initialized, answer >>

(* gugaPI restarts with what the store holds. *)
Restart ==
    /\ BoardEvent
    /\ step' = 1 /\ initialized' = FALSE /\ answer' = "none" /\ agreed' = FALSE
    /\ UNCHANGED << params, board >>

-----------------------------------------------------------------------------
Replied(text) ==
    /\ answer' = text
    /\ agreed' = (agreed /\ text = "ok")
    /\ UNCHANGED << step, initialized >>

(* motor ramp and motor invert: the board, then the store. *)
SetRamp(value) ==
    \/ Written("ramp", value, TRUE) /\ params' = [params EXCEPT !.ramp = value]
       /\ Replied("ok")
    \/ Written("ramp", value, FALSE) /\ UNCHANGED params /\ Replied("error")

(* The flags of both wheels are read from the board and written back. *)
Changed(wheel, on) == IF on THEN board.invert \cup {wheel} ELSE board.invert \ {wheel}

Invert(wheel, on) ==
    \/ /\ Written("invert", Changed(wheel, on), TRUE)
       /\ params' = [params EXCEPT !.invert = Changed(wheel, on)]
       /\ Replied("ok")
    \/ Written("invert", Changed(wheel, on), FALSE) /\ UNCHANGED params /\ Replied("error")

(* motor pid: the fields are stored one by one, each only if the whole stays valid;  *)
(* a refused field leaves those before it stored and the board with all of them.      *)
PidStored(pid) ==
    LET first == [params.pid EXCEPT !.gain = pid.gain]
        second == [first EXCEPT !.max = pid.max]
        third == [second EXCEPT !.min = pid.min]
    IN  IF ~ValidPid(second) THEN [stored |-> first, reply |-> "error"]
        ELSE IF ~ValidPid(third) THEN [stored |-> second, reply |-> "error"]
        ELSE [stored |-> third, reply |-> "ok"]

Pid(pid) ==
    \/ /\ Written("pid", pid, TRUE)
       /\ params' = [params EXCEPT !.pid = PidStored(pid).stored]
       /\ Replied(PidStored(pid).reply)
    \/ Written("pid", pid, FALSE) /\ UNCHANGED params /\ Replied("error")

(* motor cfg, pospid, posctl and set change the board alone. *)
Temporary(group, value) ==
    /\ \E ok \in BOOLEAN : Written(group, value, ok)
                           /\ answer' = IF ok THEN "ok" ELSE "error"
    /\ agreed' = FALSE
    /\ UNCHANGED << params, step, initialized >>

(* param set, load and reset change the store alone. *)
Edited(group, value) ==
    /\ group = "pid" => ValidPid(value)
    /\ params' = [params EXCEPT ![group] = value]
    /\ agreed' = FALSE
    /\ UNCHANGED << board, step, initialized, answer >>

MotorCommand ==
    /\ step = 0 /\ BoardEvent
    /\ \/ \E v \in Values : SetRamp(v)
       \/ \E w \in Wheels, on \in BOOLEAN : Invert(w, on)
       \/ \E p \in Pids : Pid(p)
       \/ \E g \in {"counts", "pospid", "posctl"}, v \in Values : Temporary(g, v)
       \/ \E g \in {"counts", "ramp", "pospid"}, v \in Values : Edited(g, v)
       \/ \E p \in Pids : Edited("pid", p)
       \/ \E i \in SUBSET Wheels : Edited("invert", i)

BoardNext == InitWrites \/ BoardResets \/ Restart \/ MotorCommand

BoardSpec == BoardInit /\ [][BoardNext]_boardVars

-----------------------------------------------------------------------------
(* The parameters stay valid; the board's need not be. *)
BoardTypeOK ==
    /\ params \in Settings /\ ValidPid(params.pid)
    /\ board \in Settings
    /\ step \in 0..Len(GroupOrder) /\ initialized \in BOOLEAN /\ agreed \in BOOLEAN

(* After an initialisation that succeeded, and as long as every command said ok, the *)
(* board did not reset and nothing was edited on one side alone, the board runs with *)
(* exactly what a restart would give it.                                               *)
BoardAgrees == (initialized /\ agreed) => board = params
==============================================================================
