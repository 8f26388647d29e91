------------------------------- MODULE Scheduler -------------------------------
(* The cooperative scheduler of gugaPI (services/scheduler.cpp), the tasks       *)
(* App_Init registers in it, the chassis task App_Run enables and disables after *)
(* every round, and the telemetry stream that registers its task on first use.   *)
EXTENDS Integers, Sequences, FiniteSets

CONSTANTS BootTasks,   \* the names of the tasks of App_Init, in order of registration
          Late,        \* tasks registered on first use; "telem" is the telemetry
          Period,      \* Period[name], in ms
          TaskSlots,   \* BOARD_SCHEDULER_MAX_TASKS
          Wrap,        \* values of the millisecond clock (2^32)
          Behind,      \* bound: no task falls further behind than this
          Profiles,    \* telemetry profiles
          MaxOrders    \* bound: shell commands

VARIABLES tasks,      \* g_tasks: per slot its name, next_run_ms - now, and enabled
          at,         \* the slot Scheduler_Run looks at; TaskSlots + 1: App_Run and the shell
          chassisOn,  \* g_chassisTaskEnabled
          driving,    \* the mode App_Run finds: the chassis task has to run
          ran,        \* the task whose callback the last step ran
          telem,      \* g_telemEnabled, g_telemProfile, g_telemHeaderSent
          sent,       \* the profile of the last header and of the last row on the wire
          orders

schedVars == << tasks, at, chassisOn, driving, ran, telem, sent, orders >>

TaskNames == Late \cup {BootTasks[i] : i \in DOMAIN BootTasks}

(* A task that is late by less than half the clock can be told from one that is   *)
(* ahead by a period.                                                             *)
SchedConstants ==
    /\ TaskSlots \in Nat /\ MaxOrders \in Nat /\ Wrap \in Nat
    /\ Behind \in Nat \ {0} /\ Behind <= Wrap \div 2
    /\ \A name \in TaskNames : Period[name] \in 0 .. (Wrap \div 2) - 1
    /\ "telem" \in Late /\ "free" \notin TaskNames
    /\ \A i, j \in DOMAIN BootTasks : BootTasks[i] = BootTasks[j] => i = j

Free == [name |-> "free", ahead |-> 0, enabled |-> FALSE]
Used(t) == {i \in 1..TaskSlots : t[i].name # "free"}
Registered(t, name) == \E i \in Used(t) : t[i].name = name
SlotOf(t, name) == CHOOSE i \in Used(t) : t[i].name = name
Asleep(ahead) == ahead % Wrap          \* times are kept modulo the clock

(* IsDue: the difference is read as signed. *)
IsDue(ahead) == ahead = 0 \/ ahead >= Wrap \div 2
Overdue(task) == task.enabled /\ IsDue(task.ahead) /\ (Wrap - task.ahead) % Wrap >= Behind

(* Scheduler_AddTask: the first free slot, due at once, enabled. *)
AddTask(t, name) ==
    LET i == CHOOSE j \in 1..TaskSlots \ Used(t) : \A k \in 1..TaskSlots \ Used(t) : j <= k
    IN [t EXCEPT ![i] = [name |-> name, ahead |-> 0, enabled |-> TRUE]]
SlotLeft(t) == Used(t) # 1..TaskSlots

(* Mutant: a task comes back with its old due time. *)
EnableTaskStale(t, name, enabled) == [t EXCEPT ![SlotOf(t, name)].enabled = enabled]

(* Scheduler_EnableTask: either way the next run is a period away. *)
EnableTask(t, name, enabled) ==
    LET i == SlotOf(t, name)
    IN [t EXCEPT ![i].enabled = enabled, ![i].ahead = Asleep(Period[name])]

-----------------------------------------------------------------------------
(* SetChassisTaskEnabled: App_Run calls it every round, and only a change counts. *)
Enabled(t, on, enabled) ==
    IF ~Registered(t, "chassis") \/ on = enabled THEN t
    ELSE EnableTask(t, "chassis", enabled)

(* App_Run, after each round, in the mode it finds. *)
AppRunTasks ==
    /\ at = TaskSlots + 1
    /\ \E d \in IF orders < MaxOrders THEN BOOLEAN ELSE {driving} :
        /\ driving' = d
        /\ tasks' = Enabled(tasks, chassisOn, d)
        /\ chassisOn' = IF Registered(tasks, "chassis") THEN d ELSE chassisOn
        /\ orders' = IF d = driving THEN orders ELSE orders + 1
    /\ at' = 1
    /\ ran' = "none"
    /\ UNCHANGED << telem, sent >>

Tick ==
    /\ \A i \in Used(tasks) : ~Overdue(tasks[i])
    /\ tasks' = [i \in 1..TaskSlots |->
                    IF i \in Used(tasks) THEN [tasks[i] EXCEPT !.ahead = Asleep(@ - 1)]
                    ELSE tasks[i]]
    /\ ran' = "none"
    /\ UNCHANGED << at, chassisOn, driving, telem, sent, orders >>

-----------------------------------------------------------------------------
(* TelemTask: nothing before the period has passed or while the UART is nearly   *)
(* full; the header once, before the rows.                                        *)
TelemTask ==
    \/ UNCHANGED << telem, sent >>
    \/ /\ telem.enabled
       /\ telem' = [telem EXCEPT !.header = TRUE]
       /\ sent' = [header |-> IF telem.header THEN sent.header ELSE telem.profile,
                   row |-> telem.profile]

(* Scheduler_Run, one slot: the next run is due a period after this one was, and  *)
(* the callback runs once however many periods were missed.                       *)
Visit ==
    /\ at \in 1..TaskSlots
    /\ LET task == tasks[at] IN
        IF task.enabled /\ IsDue(task.ahead)
        THEN /\ tasks' = [tasks EXCEPT ![at].ahead = Asleep(@ + Period[task.name])]
             /\ ran' = task.name
             /\ at' = at + 1
             /\ IF task.name = "telem" THEN TelemTask ELSE UNCHANGED << telem, sent >>
        ELSE at' = at + 1 /\ ran' = "none" /\ UNCHANGED << tasks, telem, sent >>
    /\ UNCHANGED << chassisOn, driving, orders >>

-----------------------------------------------------------------------------
TaskCommand ==
    /\ at = TaskSlots + 1 /\ orders < MaxOrders
    /\ orders' = orders + 1 /\ ran' = "none"
    /\ UNCHANGED << at, chassisOn, driving >>

(* TelemEnsureTask and its like: registered once, or refused when full. *)
Ensured(name) == Registered(tasks, name) \/ SlotLeft(tasks)
(* Mutant: a task is registered at every start. *)
WithTaskAgain(name) == IF SlotLeft(tasks) THEN AddTask(tasks, name) ELSE tasks

WithTask(name) == IF Registered(tasks, name) THEN tasks
                  ELSE EnableTask(AddTask(tasks, name), name, FALSE)

(* TelemStart: a stream starts with a header of its own profile. *)
StreamStarted(p) == [enabled |-> TRUE, profile |-> p, header |-> FALSE]

TelemOn(p) ==
    /\ TaskCommand
    /\ IF Ensured("telem")
       THEN /\ tasks' = EnableTask(WithTask("telem"), "telem", TRUE)
            /\ telem' = StreamStarted(p)
       ELSE UNCHANGED << tasks, telem >>
    /\ UNCHANGED sent

TelemOff ==
    /\ TaskCommand
    /\ telem' = [telem EXCEPT !.enabled = FALSE]
    /\ tasks' = IF Registered(tasks, "telem") THEN EnableTask(tasks, "telem", FALSE)
                ELSE tasks
    /\ UNCHANGED sent

(* The display monitors: the other tasks made on first use. *)
MonitorOn(name) ==
    /\ TaskCommand
    /\ tasks' = IF Ensured(name) THEN EnableTask(WithTask(name), name, TRUE) ELSE tasks
    /\ UNCHANGED << telem, sent >>

MonitorOff(name) ==
    /\ TaskCommand
    /\ Registered(tasks, name)
    /\ tasks' = EnableTask(tasks, name, FALSE)
    /\ UNCHANGED << telem, sent >>

TaskShell ==
    \/ \E p \in Profiles : TelemOn(p)
    \/ TelemOff
    \/ \E name \in Late \ {"telem"} : MonitorOn(name) \/ MonitorOff(name)

-----------------------------------------------------------------------------
(* App_Init: the tasks in order, as far as there are slots (one that finds none   *)
(* raises a fault), the chassis task disabled until the mode asks for it.         *)
AfterBoot == [i \in 1..TaskSlots |-> IF i \in DOMAIN BootTasks
                THEN [name |-> BootTasks[i], ahead |-> 0, enabled |-> TRUE] ELSE Free]

SchedInit ==
    /\ tasks = Enabled(AfterBoot, TRUE, FALSE)
    /\ chassisOn = FALSE
    /\ driving = FALSE
    /\ at = 1
    /\ ran = "none"
    /\ telem = [enabled |-> FALSE, profile |-> "none", header |-> FALSE]
    /\ sent = [header |-> "none", row |-> "none"]
    /\ orders = 0

Loop == AppRunTasks \/ Visit
SchedNext == Loop \/ Tick \/ TaskShell

(* The main loop and the clock never stop. *)
SchedFairness == WF_schedVars(Loop) /\ WF_schedVars(Tick)
SchedSpec == SchedInit /\ [][SchedNext]_schedVars /\ SchedFairness

-----------------------------------------------------------------------------
SchedTypeOK ==
    /\ \A i \in 1..TaskSlots : /\ tasks[i].name \in {"free"} \cup TaskNames
                           /\ tasks[i].ahead \in 0..Wrap - 1
                           /\ tasks[i].enabled \in BOOLEAN
    /\ \A i, j \in Used(tasks) : tasks[i].name = tasks[j].name => i = j
    /\ at \in 1..TaskSlots + 1
    /\ {chassisOn, driving} \subseteq BOOLEAN
    /\ telem \in [enabled : BOOLEAN, profile : Profiles \cup {"none"}, header : BOOLEAN]
    /\ sent \in [header : Profiles \cup {"none"}, row : Profiles \cup {"none"}]
    /\ orders \in 0..MaxOrders

(* A task disabled or re-enabled while the round runs never lands in the past:    *)
(* an enabled task is at most Behind ms late, never half the clock ahead.         *)
NeverLost == \A i \in Used(tasks) : LET a == tasks[i].ahead IN
    tasks[i].enabled => a <= Period[tasks[i].name] \/ a >= Wrap - Behind

(* Every telemetry row follows a header of its own profile, whatever the order of *)
(* `telem on`, `telem off` and refusals (TelemTask, TelemStart).                   *)
HeaderMatchesRows == sent.row # "none" /\ telem.header => sent.row = sent.header

(* No task is lost to the wrap of the clock, and the telemetry task never sends   *)
(* rows of another profile than its header (scheduler.cpp, app_shell.cpp).        *)
TasksKept == NeverLost /\ HeaderMatchesRows

(* While the mode drives, the chassis task sends its commands again and again:    *)
(* App_Run's call every round does not push the next run away.                    *)
Served == driving /\ Registered(tasks, "chassis") => ran = "chassis"
ChassisServed == []<>Served
================================================================================
