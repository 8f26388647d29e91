----------------------------- MODULE ProgramTable -----------------------------
(***************************************************************************)
(* The table of the action runner: the run command fills it one            *)
(* instruction at a time (app/app_shell.cpp), every instruction goes       *)
(* through the validator on its way in (app/action.cpp), the seq command   *)
(* stores it in a slot and loads it back, and a program that is started    *)
(* jumps about in it.  Beside it there is the speed limit of the           *)
(* configuration, which the validator reads and anyone may change.         *)
(*                                                                         *)
(* The slots are what SequenceStore promises: a save stores its program, a *)
(* load returns what was stored or nothing.  What an instruction does is   *)
(* left to ActionRunner; here it has a speed, a value, two targets and the *)
(* button it reads.  Targets count from 1, and ActNext is ACT_NEXT.           *)
(***************************************************************************)
EXTENDS Integers, Sequences

CONSTANTS
    TableSlots,   \* SEQ_SLOT_COUNT slots
    MaxInstrs,    \* kMaxInstrs
    Limits,       \* values of max_wheel_rpm
    Offered       \* the instructions that are typed

VARIABLES
    table,        \* g_state.instrs up to g_state.count
    running,      \* g_state.running, and who started it: "no", "shell", "race"
    current,      \* g_state.current
    limit,        \* max_wheel_rpm, as RefreshConfig copies it
    slots,        \* the program in each slot, <<>> for none
    reply         \* of the last command that loads

tableVars == <<table, running, current, limit, slots, reply>>

ActNext == 0
Kinds == {"drive", "if", "driveIf", "roadNav", "dmPosition", "loop", "end"}
Compares == {"if", "driveIf"}                \* ActionCondition_IsCompareOp
Valued == Compares \cup {"roadNav", "dmPosition"}  \* use condition_value

Instrs == [kind : Kinds, rpm : Nat, value : Nat, button2 : BOOLEAN,
           onSuccess : Nat, onTimeout : Nat]

TableConstants == MaxInstrs \in Nat \ {0} /\ Limits \subseteq Nat /\ Offered \subseteq Instrs

TableInit ==
    /\ table = <<>> /\ running = "no" /\ current = 1
    /\ limit \in Limits
    /\ slots = [s \in TableSlots |-> <<>>]
    /\ reply = "none"

-----------------------------------------------------------------------------
\* The parts of ValidateInstr that a table may fail later on or depend on how
\* an instruction came in: a speed within the limit of now, a route with a
\* speed, a gimbal timeout that is not zero.
SpeedOK(i) == i.kind = "drive" => i.rpm <= limit

CompareOK(i) == i.kind = "driveIf" => i.rpm <= limit

RouteOK(i) == i.kind = "roadNav" => i.rpm \in 1 .. limit

GimbalOK(i) == i.kind = "dmPosition" => i.value > 0

ValidInstr(i) == SpeedOK(i) /\ CompareOK(i) /\ RouteOK(i) /\ GimbalOK(i)

\* A target is inside the table t, or the next instruction; a loop names both.
TargetOK(t, i, target) == IF target = ActNext THEN i.kind # "loop" ELSE target <= Len(t)

\* Mutant: the targets are left to the jump.
LegalUnjumped(t) == t # <<>> /\ \A n \in DOMAIN t : ValidInstr(t[n])

\* ActionRunner_Validate, of a table t.
Legal(t) ==
    /\ t # <<>>
    /\ \A n \in DOMAIN t :
          /\ ValidInstr(t[n])
          /\ TargetOK(t, t[n], t[n].onSuccess)
          /\ TargetOK(t, t[n], t[n].onTimeout)

ReadsButton2(t) == \E n \in DOMAIN t : t[n].kind \in Compares /\ t[n].button2

\* ActionRunner_ValidateCompetition: button 2 stops a race, so no condition of
\* a program that runs in one reads it.
LegalForRace(t) == Legal(t) /\ ~ReadsButton2(t)

\* The four ways into the table; AddInstr writes no condition value.
Added(i) == IF i.kind \in Valued THEN i ELSE [i EXCEPT !.value = 0]

TableRoom == running = "no" /\ Len(table) < MaxInstrs

\* run add; what is refused leaves the table alone.
RunAdd(i) ==
    /\ TableRoom /\ ValidInstr(Added(i))
    /\ table' = Append(table, Added(i)) /\ reply' = "none"
    /\ UNCHANGED <<running, current, limit, slots>>

\* run clear
RunClear ==
    /\ running = "no"
    /\ table' = <<>> /\ current' = 1 /\ reply' = "none"
    /\ UNCHANGED <<running, limit, slots>>

\* ActionRunner_Start
StartTable(t, who) ==
    /\ running = "no"
    /\ table' = t /\ current' = 1 /\ running' = who

RunStart ==
    /\ Legal(table) /\ StartTable(table, "shell")
    /\ UNCHANGED <<limit, slots, reply>>

-----------------------------------------------------------------------------
\* seq save: a program that could not be raced is refused.
SeqSave(s) ==
    /\ LegalForRace(table)
    /\ slots' = [slots EXCEPT ![s] = table] /\ reply' = "none"
    /\ UNCHANGED <<table, running, current, limit>>

SeqDelete(s) ==
    /\ slots[s] # <<>>
    /\ slots' = [slots EXCEPT ![s] = <<>>] /\ reply' = "none"
    /\ UNCHANGED <<table, running, current, limit>>

\* What becomes of an instruction on its way through a slot: it is added the
\* way its kind wants.
Reloaded(i) == Added(i)

\* SeqStore_Load clears the table and adds the instructions one by one; the
\* first one refused clears it again.
Loaded(p) ==
    LET t == [n \in DOMAIN p |-> Reloaded(p[n])]
    IN  IF \A n \in DOMAIN t : ValidInstr(t[n]) THEN t ELSE <<>>

\* seq load; the answer is that of SeqStore_Load.
LoadAnswer(s) ==
    IF slots[s] = <<>> THEN "none"
    ELSE IF running # "no" THEN "busy"
    ELSE IF Loaded(slots[s]) = <<>> THEN "error" ELSE "ok"

SeqLoad(s) ==
    /\ reply' = LoadAnswer(s)
    /\ IF reply' \in {"ok", "error"} THEN table' = Loaded(slots[s]) /\ current' = 1
       ELSE UNCHANGED <<table, current>>
    /\ UNCHANGED <<running, limit, slots>>

\* seq run, and the start of a competition, which load and start; the race
\* wants a table that is legal for one.
LoadAndStart(s, who) ==
    /\ LoadAnswer(s) = "ok" /\ reply' = "ok"
    /\ LET t == Loaded(slots[s])
       IN  IF IF who = "race" THEN LegalForRace(t) ELSE Legal(t)
           THEN StartTable(t, who)
           ELSE table' = t /\ current' = 1 /\ UNCHANGED running
    /\ UNCHANGED <<limit, slots>>

-----------------------------------------------------------------------------
\* Goto: an instruction that succeeded goes on or jumps, one that failed jumps
\* or aborts.  Past the end the program has finished.
Goto(target, success) ==
    IF target # ActNext /\ target <= Len(table)
    THEN current' = target /\ UNCHANGED running
    ELSE IF success /\ current < Len(table)
         THEN current' = current + 1 /\ UNCHANGED running
         ELSE /\ current' = IF success THEN current + 1 ELSE current
              /\ running' = "no"

\* ActionRunner_Update, when an instruction is done.
InstrEnds ==
    /\ running # "no"
    /\ \/ table[current].kind = "end"
          /\ running' = "no" /\ UNCHANGED current
       \/ table[current].kind # "end" /\ Goto(table[current].onSuccess, TRUE)
       \/ table[current].kind # "end" /\ Goto(table[current].onTimeout, FALSE)
    /\ UNCHANGED <<table, limit, slots, reply>>

\* run cancel, the stop of a competition, a fault.
Cancel ==
    /\ running' = "no"
    /\ running # "no"
    /\ UNCHANGED <<table, current, limit, slots, reply>>

\* param set max_wheel_rpm
SetLimit(v) ==
    /\ limit' = v
    /\ UNCHANGED <<table, running, current, slots, reply>>

\* The table is in RAM, the slots are not.
Reboot ==
    /\ table' = <<>> /\ running' = "no" /\ current' = 1 /\ reply' = "none"
    /\ UNCHANGED <<limit, slots>>

RunCommand == (\E i \in Offered : RunAdd(i)) \/ RunClear \/ RunStart \/ Cancel

SeqCommand ==
    \E s \in TableSlots :
        \/ SeqSave(s) \/ SeqDelete(s) \/ SeqLoad(s)
        \/ \E who \in {"shell", "race"} : LoadAndStart(s, who)

TableNext ==
    RunCommand \/ SeqCommand \/ InstrEnds \/ (\E v \in Limits : SetLimit(v)) \/ Reboot

TableSpec == TableInit /\ [][TableNext]_tableVars

-----------------------------------------------------------------------------
\* Types and bounds.
TableTypeOK ==
    /\ table \in Seq(Instrs) /\ Len(table) <= MaxInstrs
    /\ running \in {"no", "shell", "race"} /\ current \in 1 .. MaxInstrs + 1
    /\ limit \in Limits
    /\ \A s \in TableSlots : slots[s] \in Seq(Instrs) /\ Len(slots[s]) <= MaxInstrs

\* The instruction a running program is at is one of the table, and every
\* target it may jump to lies in it too (action.cpp:403-425, 1609-1630).
RunsInTable ==
    running # "no" =>
        /\ current \in DOMAIN table
        /\ \A n \in DOMAIN table : /\ TargetOK(table, table[n], table[n].onSuccess)
                                  /\ TargetOK(table, table[n], table[n].onTimeout)

\* No program that runs in a competition reads the button that stops it
\* (docs/SHELL_COMMANDS.md:2084-2086).
RaceLeavesButton2 == running = "race" => ~ReadsButton2(table)

\* After a load that said ok the table holds the program of a slot, whole and
\* with all that each instruction needs; after one that failed it is empty
\* (seq_store.cpp:462-500).
LoadsWholeOrNothing ==
    /\ reply = "ok" => \E s \in TableSlots : table = slots[s] /\ table # <<>>
    /\ reply = "error" => table = <<>>

\* However the table is edited, loaded and started, what runs lies in it and was
\* accepted for its race (action.cpp, seq_store.cpp).
TableSound == RunsInTable /\ RaceLeavesButton2 /\ LoadsWholeOrNothing
==============================================================================
