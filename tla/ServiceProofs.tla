------------------------------ MODULE ServiceProofs ------------------------------
(* Theorems about the services that run beside gugaPI's controllers: the table of  *)
(* programs (action.cpp, seq_store.cpp), the scheduler (scheduler.cpp) and the     *)
(* LoRa packet protocol (lora_protocol.cpp), and about Services as a whole, with   *)
(* what DeviceProofs establishes of its other parts, proved for every value of     *)
(* their constants.                                                                *)
EXTENDS Services, RunnerProofs, SequenceStoreProofs, DeviceProofs, TLAPS, SequenceTheorems,
        WellFoundedInduction

(* A program as the ways into the table leave it. *)
KeptProgram(t) ==
    /\ t \in Seq(Instrs) /\ Len(t) <= MaxInstrs
    /\ \A n \in DOMAIN t : Added(t[n]) = t[n]

TableInv ==
    /\ KeptProgram(table) /\ limit \in Limits
    /\ running \in {"no", "shell", "race"} /\ current \in 1 .. MaxInstrs + 1
    /\ slots \in [TableSlots -> Seq(Instrs)] /\ \A s \in TableSlots : KeptProgram(slots[s])
    /\ TableSound

(* AddInstr writes what the instruction wants, and nothing the second time. *)
LEMMA AddedOnce ==
    ASSUME NEW i \in Instrs PROVE Added(i) \in Instrs /\ Added(Added(i)) = Added(i)
BY DEF Instrs, Added, Kinds

LEMMA AddedKept ==
    ASSUME NEW t, KeptProgram(t), NEW i \in Instrs, Len(t) < MaxInstrs, TableConstants
    PROVE  KeptProgram(Append(t, Added(i)))
<1>1. Added(i) \in Instrs /\ Added(Added(i)) = Added(i)
  BY AddedOnce
<1> DEFINE u == Append(t, Added(i))
<1>2. u \in Seq(Instrs) /\ Len(u) = Len(t) + 1 /\ Len(u) <= MaxInstrs
  BY <1>1 DEF KeptProgram, TableConstants
<1>3. ASSUME NEW n \in DOMAIN u PROVE Added(u[n]) = u[n]
  <2>1. CASE n \in DOMAIN t
    BY <2>1 DEF KeptProgram
  <2>2. CASE n = Len(t) + 1
    BY <1>1, <2>2 DEF KeptProgram
  <2> QED BY <1>2, <2>1, <2>2 DEF KeptProgram
<1> QED BY <1>2, <1>3 DEF KeptProgram

(* A slot gives back the program that was stored, or nothing of it. *)
LEMMA LoadedIsStored ==
    ASSUME NEW p, KeptProgram(p) PROVE Loaded(p) \in {p, <<>>}
<1>1. [n \in DOMAIN p |-> Reloaded(p[n])] = p
  BY DEF KeptProgram, Reloaded
<1> QED BY <1>1 DEF Loaded

LEMMA EmptyKept == ASSUME TableConstants PROVE KeptProgram(<<>>)
BY DEF KeptProgram, TableConstants

(* What is legal runs in the table, from its first instruction. *)
LEMMA StartsInTable ==
    ASSUME NEW t, KeptProgram(t), Legal(t)
    PROVE  /\ 1 \in DOMAIN t
           /\ \A n \in DOMAIN t : /\ TargetOK(t, t[n], t[n].onSuccess)
                                 /\ TargetOK(t, t[n], t[n].onTimeout)
<1>1. Len(t) \in Nat /\ Len(t) # 0
  BY DEF Legal, KeptProgram
<1> QED BY <1>1 DEF Legal, KeptProgram

LEMMA LoadSound ==
    ASSUME TableInv, TableConstants, NEW s \in TableSlots
    PROVE  /\ KeptProgram(Loaded(slots[s])) /\ Loaded(slots[s]) \in {slots[s], <<>>}
           /\ LoadAnswer(s) = "ok" => /\ Loaded(slots[s]) = slots[s] /\ slots[s] # <<>>
                                      /\ running = "no"
           /\ LoadAnswer(s) = "error" => Loaded(slots[s]) = <<>> /\ running = "no"
           /\ LoadAnswer(s) \in {"none", "busy", "ok", "error"}
<1>1. KeptProgram(slots[s])
  BY DEF TableInv
<1>2. Loaded(slots[s]) \in {slots[s], <<>>}
  BY <1>1, LoadedIsStored
<1> QED BY <1>1, <1>2, EmptyKept DEF LoadAnswer

LEMMA GotoSound ==
    ASSUME TableInv, TableConstants, running # "no", NEW success \in BOOLEAN,
           NEW target, TargetOK(table, table[current], target), target \in Nat,
           Goto(target, success)
    PROVE  /\ current' \in 1 .. MaxInstrs + 1
           /\ running' # "no" => running' = running /\ current' \in DOMAIN table
<1>1. current \in 1 .. Len(table) /\ Len(table) \in Nat /\ Len(table) <= MaxInstrs
      /\ DOMAIN table = 1 .. Len(table) /\ MaxInstrs \in Nat
  BY DEF TableInv, TableSound, RunsInTable, KeptProgram, TableConstants
<1> QED BY <1>1 DEF Goto, ActNext

LEMMA TableStep ==
    ASSUME TableConstants, TableInv, [TableNext]_tableVars PROVE TableInv'
<1> USE DEF KeptProgram
<1>1. ASSUME NEW i \in Offered, RunAdd(i) PROVE TableInv'
  <2>1. KeptProgram(table')
    BY <1>1, AddedKept DEF RunAdd, TableRoom, TableInv, TableConstants
  <2> QED BY <1>1, <2>1
      DEF RunAdd, TableRoom, TableInv, TableSound, RunsInTable, RaceLeavesButton2, LoadsWholeOrNothing
<1>2. ASSUME RunClear PROVE TableInv'
  BY <1>2, EmptyKept DEF RunClear, TableInv, TableSound, RunsInTable, RaceLeavesButton2,
     LoadsWholeOrNothing, TableConstants
<1>3. ASSUME RunStart PROVE TableInv'
  <2>1. 1 \in DOMAIN table
    BY <1>3, StartsInTable DEF RunStart, TableInv
  <2> QED BY <1>3, <2>1, StartsInTable DEF RunStart, StartTable, TableInv, TableSound, RunsInTable,
          RaceLeavesButton2, LoadsWholeOrNothing, TableConstants
<1>4. ASSUME Cancel PROVE TableInv'
  BY <1>4 DEF Cancel, TableInv, TableSound, RunsInTable, RaceLeavesButton2, LoadsWholeOrNothing
<1>5. ASSUME NEW s \in TableSlots, SeqSave(s) PROVE TableInv'
  BY <1>5 DEF SeqSave, TableInv, TableSound, RunsInTable, RaceLeavesButton2, LoadsWholeOrNothing
<1>6. ASSUME NEW s \in TableSlots, SeqDelete(s) PROVE TableInv'
  BY <1>6, EmptyKept DEF SeqDelete, TableInv, TableSound, RunsInTable, RaceLeavesButton2,
     LoadsWholeOrNothing
<1>7. ASSUME NEW s \in TableSlots, SeqLoad(s) PROVE TableInv'
  <2>1. CASE reply' \in {"ok", "error"}
    BY <1>7, <2>1, LoadSound DEF SeqLoad, TableInv, TableSound, RunsInTable, RaceLeavesButton2,
       LoadsWholeOrNothing, TableConstants
  <2>2. CASE reply' \notin {"ok", "error"}
    BY <1>7, <2>2 DEF SeqLoad, TableInv, TableSound, RunsInTable, RaceLeavesButton2,
       LoadsWholeOrNothing
  <2> QED BY <2>1, <2>2
<1>8. ASSUME NEW s \in TableSlots, NEW who \in {"shell", "race"}, LoadAndStart(s, who)
      PROVE TableInv'
  <2> DEFINE t == Loaded(slots[s])
  <2>1. KeptProgram(t) /\ t = slots[s] /\ t # <<>> /\ running = "no" /\ reply' = "ok"
    BY <1>8, LoadSound DEF LoadAndStart
  <2>2. /\ table' = t /\ current' = 1 /\ UNCHANGED <<limit, slots>>
        /\ running' # "no" =>
             Legal(t) /\ running' = who /\ (who = "race" => ~ReadsButton2(t))
    BY <1>8, <2>1 DEF LoadAndStart, StartTable, LegalForRace
  <2>3. running' \in {"no", "shell", "race"}
    BY <1>8, <2>1 DEF LoadAndStart, StartTable
  <2> HIDE DEF t
  <2>4. running' # "no" =>
          /\ 1 \in DOMAIN t
          /\ \A n \in DOMAIN t : /\ TargetOK(t, t[n], t[n].onSuccess)
                                /\ TargetOK(t, t[n], t[n].onTimeout)
    BY <2>1, <2>2, StartsInTable
  <2> QED BY <2>1, <2>2, <2>3, <2>4 DEF TableInv, TableSound, RunsInTable, RaceLeavesButton2,
          LoadsWholeOrNothing, TableConstants
<1>9. ASSUME InstrEnds PROVE TableInv'
  <2>1. /\ UNCHANGED <<table, limit, slots, reply>> /\ running # "no" /\ current \in DOMAIN table
        /\ table[current] \in Instrs
        /\ TargetOK(table, table[current], table[current].onSuccess)
        /\ TargetOK(table, table[current], table[current].onTimeout)
    BY <1>9 DEF InstrEnds, TableInv, TableSound, RunsInTable
  <2>2. table[current].onSuccess \in Nat /\ table[current].onTimeout \in Nat
    BY <2>1 DEF Instrs
  <2>3. /\ current' \in 1 .. MaxInstrs + 1
        /\ running' # "no" => running' = running /\ current' \in DOMAIN table
    <3>1. CASE running' = "no" /\ UNCHANGED current
      BY <3>1 DEF TableInv
    <3>2. CASE Goto(table[current].onSuccess, TRUE)
      BY <3>2, <2>1, <2>2, GotoSound
    <3>3. CASE Goto(table[current].onTimeout, FALSE)
      BY <3>3, <2>1, <2>2, GotoSound
    <3> QED BY <1>9, <3>1, <3>2, <3>3 DEF InstrEnds
  <2> QED BY <2>1, <2>3 DEF TableInv, TableSound, RunsInTable, RaceLeavesButton2,
          LoadsWholeOrNothing
<1>10. ASSUME NEW v \in Limits, SetLimit(v) PROVE TableInv'
  BY <1>10 DEF SetLimit, TableInv, TableSound, RunsInTable, RaceLeavesButton2,
     LoadsWholeOrNothing
<1>11. ASSUME Reboot PROVE TableInv'
  BY <1>11, EmptyKept DEF Reboot, TableInv, TableSound, RunsInTable, RaceLeavesButton2,
     LoadsWholeOrNothing, TableConstants
<1>12. ASSUME UNCHANGED tableVars PROVE TableInv'
  BY <1>12 DEF tableVars, TableInv, TableSound, RunsInTable, RaceLeavesButton2,
     LoadsWholeOrNothing
<1> QED BY <1>1, <1>2, <1>3, <1>4, <1>5, <1>6, <1>7, <1>8, <1>9, <1>10, <1>11, <1>12
        DEF TableNext, RunCommand, SeqCommand

LEMMA TableInvariant == ASSUME TableConstants PROVE TableSpec => []TableInv
<1>1. TableInit => TableInv
  BY EmptyKept DEF TableInit, TableInv, TableSound, RunsInTable, RaceLeavesButton2,
     LoadsWholeOrNothing, TableConstants
<1>2. TableInv /\ [TableNext]_tableVars => TableInv'
  BY TableStep
<1> QED BY <1>1, <1>2, PTL DEF TableSpec

(* However the table is edited, loaded and started, what runs lies in it and was     *)
(* accepted for its race (action.cpp, seq_store.cpp).                                 *)
THEOREM TableIsSound == ASSUME TableConstants PROVE TableSpec => []TableSound
<1>1. TableInv => TableSound
  BY DEF TableInv
<1> QED BY <1>1, TableInvariant, PTL

-----------------------------------------------------------------------------
(* The scheduler: every task that is due on the clock that wraps is due because of *)
(* its period, and the task of the telemetry follows the profile it announced.     *)
Entries == [name : {"free"} \cup TaskNames, ahead : 0 .. Wrap - 1, enabled : BOOLEAN]

(* A task that is on is due within its period, or late by no more than the bound. *)
InTime(task) == task.enabled => task.ahead <= Period[task.name] \/ task.ahead >= Wrap - Behind

(* A table of tasks, each registered once. *)
Scheduled(t) ==
    /\ t \in [1 .. TaskSlots -> Entries]
    /\ \A i \in 1 .. TaskSlots : t[i].enabled => i \in Used(t)
    /\ \A i, j \in Used(t) : t[i].name = t[j].name => i = j
    /\ \A i \in Used(t) : InTime(t[i])

SchedInv ==
    /\ Scheduled(tasks)
    /\ at \in 1 .. TaskSlots + 1 /\ chassisOn \in BOOLEAN /\ driving \in BOOLEAN
    /\ telem \in [enabled : BOOLEAN, profile : Profiles \cup {"none"}, header : BOOLEAN]
    /\ sent \in [header : Profiles \cup {"none"}, row : Profiles \cup {"none"}]
    /\ orders \in 0 .. MaxOrders
    /\ telem.header => sent.header = telem.profile /\ sent.row = telem.profile

LEMMA ClockBounds ==
    ASSUME SchedConstants
    PROVE  /\ Wrap \in Nat /\ Behind \in Nat /\ Behind > 0 /\ Wrap \div 2 \in Nat
           /\ 2 * (Wrap \div 2) <= Wrap /\ Behind <= Wrap \div 2
           /\ \A name \in TaskNames : Period[name] \in 0 .. (Wrap \div 2) - 1
BY DEF SchedConstants

LEMMA Turned ==
    ASSUME SchedConstants, NEW a \in -1 .. 2 * Wrap - 1
    PROVE  Asleep(a) = IF a < 0 THEN a + Wrap ELSE IF a < Wrap THEN a ELSE a - Wrap
<1>1. Wrap \in Nat /\ Wrap > 0
  BY ClockBounds
<1>2. CASE a < 0
  <2>1. a = -1
    BY <1>2
  <2>2. (-1) % Wrap = Wrap - 1
    BY <1>1
  <2> QED BY <1>1, <2>1, <2>2 DEF Asleep
<1>3. CASE a \in 0 .. Wrap - 1
  BY <1>1, <1>3 DEF Asleep
<1>4. CASE a \in Wrap .. 2 * Wrap - 1
  BY <1>1, <1>4 DEF Asleep
<1> QED BY <1>1, <1>2, <1>3, <1>4

(* The places a task may be at are numbers, so that one of the free ones is first. *)
LEMMA FirstFree ==
    ASSUME NEW t, SlotLeft(t), TaskSlots \in Nat
    PROVE  \E j \in 1 .. TaskSlots \ Used(t) : \A k \in 1 .. TaskSlots \ Used(t) : j <= k
<1> DEFINE Open == 1 .. TaskSlots \ Used(t)
           Below == {p \in Nat \X Nat : p[1] < p[2]}
<1>1. Open # {} /\ Open \subseteq Nat
  BY DEF SlotLeft, Used
<1>2. IsWellFoundedOn(Below, Nat)
  BY NatLessThanWellFounded DEF OpToRel
<1> HIDE DEF Below
<1>3. PICK j \in Open : \A k \in Open : ~(<<k, j>> \in Below)
  BY <1>1, <1>2, WFMin
<1>4. ASSUME NEW k \in Open PROVE j <= k
  <2>1. j \in Nat /\ k \in Nat
    BY <1>1
  <2>2. k < j => <<k, j>> \in Below
    BY <2>1 DEF Below
  <2> QED BY <1>3, <2>1, <2>2
<1> QED BY <1>4

LEMMA SlotFound ==
    ASSUME NEW t, NEW name, Registered(t, name)
    PROVE  SlotOf(t, name) \in Used(t) /\ t[SlotOf(t, name)].name = name
BY DEF Registered, SlotOf

LEMMA EnableKept ==
    ASSUME SchedConstants, NEW t, Scheduled(t), NEW name \in TaskNames, Registered(t, name),
           NEW on \in BOOLEAN
    PROVE  Scheduled(EnableTask(t, name, on))
<1> DEFINE i == SlotOf(t, name)
           u == EnableTask(t, name, on)
<1>1. i \in Used(t) /\ i \in 1 .. TaskSlots /\ t[i].name = name
  BY SlotFound DEF Used
<1>2. Asleep(Period[name]) = Period[name] /\ Period[name] \in 0 .. Wrap - 1
  BY ClockBounds, Turned
<1> HIDE DEF i
<1>3. u = [t EXCEPT ![i].enabled = on, ![i].ahead = Period[name]]
  BY <1>2 DEF EnableTask, i
<1> HIDE DEF u
<1>4. u \in [1 .. TaskSlots -> Entries]
  <2>1. t[i] \in Entries /\ t \in [1 .. TaskSlots -> Entries]
    BY <1>1 DEF Scheduled
  <2>2. u = [t EXCEPT ![i] = [t[i] EXCEPT !.enabled = on, !.ahead = Period[name]]]
    BY <1>1, <1>3, <2>1
  <2>3. [t[i] EXCEPT !.enabled = on, !.ahead = Period[name]] \in Entries
    BY <1>2, <2>1 DEF Entries
  <2> QED BY <1>1, <2>1, <2>2, <2>3
<1>5. \A j \in 1 .. TaskSlots : u[j].name = t[j].name /\ (j # i => u[j] = t[j])
  BY <1>1, <1>3 DEF Scheduled, Entries
<1>6. Used(u) = Used(t)
  BY <1>5 DEF Used
<1>7. InTime(u[i])
  BY <1>1, <1>2, <1>3 DEF Scheduled, Entries, InTime
<1>8. \A j \in Used(u) : InTime(u[j])
  BY <1>5, <1>6, <1>7 DEF Scheduled, Used
<1>9. \A j, k \in Used(u) : u[j].name = u[k].name => j = k
  BY <1>5, <1>6 DEF Scheduled, Used
<1>10. \A j \in 1 .. TaskSlots : u[j].enabled => j \in Used(u)
  BY <1>1, <1>5, <1>6 DEF Scheduled
<1> QED BY <1>4, <1>8, <1>9, <1>10 DEF Scheduled, u

LEMMA AddKept ==
    ASSUME SchedConstants, NEW t, Scheduled(t), NEW name \in TaskNames, ~Registered(t, name),
           SlotLeft(t)
    PROVE  Scheduled(AddTask(t, name)) /\ Registered(AddTask(t, name), name)
<1> DEFINE i == CHOOSE j \in 1 .. TaskSlots \ Used(t) : \A k \in 1 .. TaskSlots \ Used(t) : j <= k
           u == AddTask(t, name)
           new == [name |-> name, ahead |-> 0, enabled |-> TRUE]
<1>1. i \in 1 .. TaskSlots /\ i \notin Used(t)
  BY FirstFree DEF SchedConstants
<1> HIDE DEF i
<1>2. u = [t EXCEPT ![i] = new]
  BY DEF AddTask, i
<1> HIDE DEF u
<1>3. new \in Entries /\ new.name # "free" /\ InTime(new)
  BY ClockBounds DEF Entries, InTime, SchedConstants
<1>4. u \in [1 .. TaskSlots -> Entries] /\ u[i] = new /\ \A j \in 1 .. TaskSlots \ {i} : u[j] = t[j]
  BY <1>1, <1>2, <1>3 DEF Scheduled
<1> HIDE DEF new
<1>5. Used(u) = Used(t) \cup {i}
  BY <1>1, <1>3, <1>4 DEF Used
<1>6. new.name = name
  BY DEF new
<1>7. \A j \in Used(u) : InTime(u[j])
  BY <1>3, <1>4, <1>5 DEF Scheduled, Used
<1>8. \A j \in Used(t) : u[j] = t[j] /\ t[j].name # name
  BY <1>1, <1>4 DEF Used, Registered
<1>9. \A j, k \in Used(u) : u[j].name = u[k].name => j = k
  BY <1>4, <1>5, <1>6, <1>8 DEF Scheduled
<1>10. \A j \in 1 .. TaskSlots : u[j].enabled => j \in Used(u)
  BY <1>4, <1>5 DEF Scheduled
<1> QED BY <1>4, <1>5, <1>6, <1>7, <1>9, <1>10 DEF Scheduled, u, Registered

LEMMA WithTaskKept ==
    ASSUME SchedConstants, NEW t, Scheduled(t), tasks = t, NEW name \in TaskNames, Ensured(name),
           NEW on \in BOOLEAN
    PROVE  Scheduled(EnableTask(WithTask(name), name, on))
<1>1. CASE Registered(t, name)
  BY <1>1, EnableKept DEF WithTask
<1>2. CASE ~Registered(t, name)
  <2> DEFINE u == AddTask(t, name)
             v == EnableTask(u, name, FALSE)
  <2>1. Scheduled(u) /\ Registered(u, name)
    BY <1>2, AddKept DEF Ensured
  <2> HIDE DEF u
  <2>2. Scheduled(v)
    BY <2>1, EnableKept
  <2>3. Registered(v, name)
    <3> DEFINE i == SlotOf(u, name)
    <3>1. i \in Used(u) /\ i \in 1 .. TaskSlots /\ u[i].name = name
      BY <2>1, SlotFound DEF Used
    <3> HIDE DEF i
    <3>2. v = [u EXCEPT ![i].enabled = FALSE, ![i].ahead = Asleep(Period[name])]
      BY DEF EnableTask, i
    <3>3. u \in [1 .. TaskSlots -> Entries] /\ u[i] \in Entries
      BY <2>1, <3>1 DEF Scheduled
    <3>4. v[i] = [u[i] EXCEPT !.enabled = FALSE, !.ahead = Asleep(Period[name])]
      BY <3>1, <3>2, <3>3
    <3>5. v[i].name = name
      BY <3>1, <3>3, <3>4 DEF Entries
    <3> QED BY <3>1, <3>5 DEF Registered, Used
  <2> HIDE DEF v
  <2>4. WithTask(name) = v
    BY <1>2 DEF WithTask, u, v
  <2> QED BY <2>2, <2>3, <2>4, EnableKept
<1> QED BY <1>1, <1>2

LEMMA EnabledKept ==
    ASSUME SchedConstants, NEW t, Scheduled(t), NEW on \in BOOLEAN, NEW enabled \in BOOLEAN
    PROVE  Scheduled(Enabled(t, on, enabled))
<1>1. CASE Registered(t, "chassis")
  <2>1. "chassis" \in TaskNames
    <3>1. PICK i \in Used(t) : t[i].name = "chassis"
      BY <1>1 DEF Registered
    <3>2. t[i] \in Entries
      BY <3>1 DEF Scheduled, Used
    <3> QED BY <3>1, <3>2 DEF Entries
  <2> QED BY <1>1, <2>1, EnableKept DEF Enabled
<1>2. CASE ~Registered(t, "chassis")
  BY <1>2 DEF Enabled
<1> QED BY <1>1, <1>2

(* The row that is sent follows a header of its own profile. *)
LEMMA RowsFollow ==
    ASSUME SchedInv, TelemTask
    PROVE  /\ telem' \in [enabled : BOOLEAN, profile : Profiles \cup {"none"}, header : BOOLEAN]
           /\ sent' \in [header : Profiles \cup {"none"}, row : Profiles \cup {"none"}]
           /\ telem'.header => sent'.header = telem'.profile /\ sent'.row = telem'.profile
<1>1. CASE UNCHANGED <<telem, sent>>
  BY <1>1 DEF SchedInv
<1>2. CASE telem' = [telem EXCEPT !.header = TRUE] /\
           sent' = [header |-> IF telem.header THEN sent.header ELSE telem.profile,
                    row |-> telem.profile]
  <2>1. /\ telem'.header /\ telem'.profile = telem.profile
        /\ telem' \in [enabled : BOOLEAN, profile : Profiles \cup {"none"}, header : BOOLEAN]
    BY <1>2 DEF SchedInv
  <2>2. sent'.header = telem.profile /\ sent'.row = telem.profile
    BY <1>2 DEF SchedInv
  <2>3. telem.profile \in Profiles \cup {"none"}
    BY DEF SchedInv
  <2>4. sent' \in [header : Profiles \cup {"none"}, row : Profiles \cup {"none"}]
    BY <1>2, <2>3 DEF SchedInv
  <2> QED BY <2>1, <2>2, <2>4
<1> QED BY <1>1, <1>2 DEF TelemTask

LEMMA TickStep ==
    ASSUME SchedConstants, SchedInv, Tick PROVE SchedInv'
<1> DEFINE u == tasks'
<1>1. /\ u = [i \in 1 .. TaskSlots |-> IF i \in Used(tasks)
                THEN [tasks[i] EXCEPT !.ahead = Asleep(@ - 1)] ELSE tasks[i]]
      /\ \A i \in Used(tasks) : ~Overdue(tasks[i])
  BY DEF Tick
<1> HIDE DEF u
<1>2. \A i \in 1 .. TaskSlots : tasks[i] \in Entries
  BY DEF SchedInv, Scheduled
<1>3. ASSUME NEW i \in Used(tasks)
      PROVE  /\ u[i] \in Entries /\ u[i].name = tasks[i].name
             /\ u[i].enabled = tasks[i].enabled /\ InTime(u[i])
  <2>1. i \in 1 .. TaskSlots /\ tasks[i] \in Entries /\ InTime(tasks[i])
        /\ tasks[i].name \in TaskNames
    BY <1>2 DEF Used, SchedInv, Scheduled, Entries
  <2> DEFINE a == tasks[i].ahead
             b == Asleep(a - 1)
  <2>2. a \in 0 .. Wrap - 1 /\ Wrap \in Nat
    BY <2>1, ClockBounds DEF Entries
  <2>3. b = (IF a = 0 THEN Wrap - 1 ELSE a - 1) /\ b \in 0 .. Wrap - 1
    BY <2>2, Turned
  <2> HIDE DEF b
  <2>4. u[i] = [tasks[i] EXCEPT !.ahead = b]
    BY <1>1, <2>1 DEF b
  <2>5. /\ u[i] \in Entries /\ u[i].name = tasks[i].name
        /\ u[i].enabled = tasks[i].enabled /\ u[i].ahead = b
    BY <2>1, <2>3, <2>4 DEF Entries
  <2>6. ~(tasks[i].enabled /\ IsDue(a) /\ (Wrap - a) % Wrap >= Behind)
    BY <1>1 DEF Overdue
  <2>7. tasks[i].enabled /\ a = 0 => b >= Wrap - Behind
    BY <2>2, <2>3, ClockBounds
  <2>8. tasks[i].enabled /\ a # 0 /\ a >= Wrap - Behind => b >= Wrap - Behind
    <3> SUFFICES ASSUME tasks[i].enabled, a # 0, a >= Wrap - Behind PROVE b >= Wrap - Behind
      OBVIOUS
    <3> HIDE DEF a
    <3>1. IsDue(a)
      BY <2>2, ClockBounds DEF IsDue
    <3>2. (Wrap - a) % Wrap = Wrap - a
      BY <2>2
    <3> QED BY <2>2, <2>3, <2>6, <3>1, <3>2, ClockBounds
  <2>9. tasks[i].enabled => b <= Period[tasks[i].name] \/ b >= Wrap - Behind
    <3>1. Period[tasks[i].name] \in Nat
      BY <2>1, ClockBounds
    <3> QED BY <2>1, <2>2, <2>3, <2>7, <2>8, <3>1, ClockBounds DEF InTime
  <2> QED BY <2>5, <2>9 DEF InTime
<1>4. \A i \in 1 .. TaskSlots \ Used(tasks) : u[i] = tasks[i]
  BY <1>1
<1>5. u \in [1 .. TaskSlots -> Entries]
  <2>1. \A i \in 1 .. TaskSlots : u[i] \in Entries
    BY <1>2, <1>3, <1>4
  <2> QED BY <1>1, <2>1
<1>6. Used(u) = Used(tasks)
  BY <1>3, <1>4 DEF Used
<1>7. Scheduled(u)
  BY <1>3, <1>4, <1>5, <1>6 DEF Scheduled, SchedInv
<1> QED BY <1>7 DEF Tick, SchedInv, u

LEMMA VisitStep ==
    ASSUME SchedConstants, SchedInv, Visit PROVE SchedInv'
<1> DEFINE task == tasks[at]
           u == tasks'
<1>1. CASE ~(task.enabled /\ IsDue(task.ahead))
  <2>1. /\ at' = at + 1 /\ at \in 1 .. TaskSlots
        /\ UNCHANGED <<tasks, telem, sent, chassisOn, driving, orders>>
    BY <1>1 DEF Visit
  <2>2. Scheduled(tasks')
    BY <2>1 DEF SchedInv
  <2>3. at' \in 1 .. TaskSlots + 1
    BY <2>1 DEF SchedConstants
  <2> QED BY <2>1, <2>2, <2>3 DEF SchedInv
<1>2. CASE task.enabled /\ IsDue(task.ahead)
  <2> DEFINE a == task.ahead
             p == Period[task.name]
             b == Asleep(a + p)
  <2>1. at \in 1 .. TaskSlots /\ task \in Entries
    BY DEF Visit, SchedInv, Scheduled
  <2>2. u = [tasks EXCEPT ![at].ahead = Asleep(@ + Period[task.name])]
        /\ at' = at + 1 /\ UNCHANGED <<chassisOn, driving, orders>>
    BY <1>2 DEF Visit
  <2>3. /\ telem' \in [enabled : BOOLEAN, profile : Profiles \cup {"none"}, header : BOOLEAN]
        /\ sent' \in [header : Profiles \cup {"none"}, row : Profiles \cup {"none"}]
        /\ telem'.header => sent'.header = telem'.profile /\ sent'.row = telem'.profile
    BY <1>2, RowsFollow DEF Visit, SchedInv
  <2> HIDE DEF u
  <2>4. u = [tasks EXCEPT ![at] = [task EXCEPT !.ahead = b]]
    BY <2>1, <2>2 DEF SchedInv, Scheduled
  <2>5. at \in Used(tasks) /\ task.name \in TaskNames
    BY <1>2, <2>1 DEF SchedInv, Scheduled, Used, Entries
  <2>6. InTime(task)
    BY <2>5 DEF SchedInv, Scheduled
  <2>7. /\ a \in 0 .. Wrap - 1 /\ Wrap \in Nat /\ p \in 0 .. (Wrap \div 2) - 1
        /\ a <= Wrap /\ (a = 0 \/ a >= Wrap \div 2)
    BY <1>2, <2>1, <2>5, ClockBounds DEF Entries, IsDue
  <2>8. a <= p \/ a >= Wrap - Behind
    BY <1>2, <2>6 DEF InTime
  <2> HIDE DEF a, p
  <2>9. a + p \in -1 .. 2 * Wrap - 1 /\ a + p >= 0
    BY <2>7, ClockBounds
  <2> DEFINE x == a + p
  <2>10. b = Asleep(x) /\ x \in -1 .. 2 * Wrap - 1 /\ x >= 0 /\ x = a + p
    BY <2>9
  <2> HIDE DEF x, b
  <2>11. b = IF x < Wrap THEN x ELSE x - Wrap
    BY <2>7, <2>10, Turned
  <2>12. b \in 0 .. Wrap - 1 /\ (b <= p \/ b >= Wrap - Behind)
    BY <2>7, <2>8, <2>10, <2>11, ClockBounds
  <2> DEFINE new == [task EXCEPT !.ahead = b]
  <2>13. new \in Entries /\ new.name = task.name /\ new.enabled = task.enabled /\ new.ahead = b
    BY <2>1, <2>12 DEF Entries
  <2>14. InTime(new)
    BY <2>12, <2>13 DEF InTime, p
  <2> HIDE DEF new
  <2>15. /\ u = [tasks EXCEPT ![at] = new]
         /\ tasks \in [1 .. TaskSlots -> Entries]
    BY <2>4 DEF new, SchedInv, Scheduled
  <2>16. /\ u \in [1 .. TaskSlots -> Entries] /\ u[at] = new
         /\ \A i \in 1 .. TaskSlots \ {at} : u[i] = tasks[i]
    BY <2>1, <2>13, <2>15
  <2>17. Used(u) = Used(tasks)
    BY <2>1, <2>13, <2>16 DEF Used
  <2>18. Scheduled(u)
    BY <2>1, <2>5, <2>13, <2>14, <2>16, <2>17 DEF Scheduled, SchedInv, Used
  <2> QED BY <2>1, <2>2, <2>3, <2>18 DEF SchedInv, SchedConstants, u
<1> QED BY <1>1, <1>2

LEMMA OrderStep ==
    ASSUME SchedConstants, SchedInv, TaskShell PROVE SchedInv'
<1>1. ASSUME TaskCommand, UNCHANGED <<telem, sent>>, Scheduled(tasks') PROVE SchedInv'
  BY <1>1 DEF TaskCommand, SchedInv, SchedConstants
<1>2. ASSUME NEW p \in Profiles, TelemOn(p) PROVE SchedInv'
  <2>1. CASE Ensured("telem")
    <3>1. Scheduled(tasks')
      <4>1. "telem" \in TaskNames
        BY DEF SchedConstants, TaskNames
      <4> QED BY <1>2, <2>1, <4>1, WithTaskKept DEF TelemOn, SchedInv
    <3>2. telem' = [enabled |-> TRUE, profile |-> p, header |-> FALSE]
      BY <1>2, <2>1 DEF TelemOn, StreamStarted
    <3> QED BY <1>2, <3>1, <3>2 DEF TelemOn, TaskCommand, SchedInv, SchedConstants
  <2>2. CASE ~Ensured("telem")
    BY <1>1, <1>2, <2>2 DEF TelemOn, SchedInv
  <2> QED BY <2>1, <2>2
<1>3. ASSUME TelemOff PROVE SchedInv'
  <2>1. Scheduled(tasks')
    <3>1. "telem" \in TaskNames
      BY DEF SchedConstants, TaskNames
    <3> QED BY <1>3, <3>1, EnableKept DEF TelemOff, SchedInv
  <2>2. /\ telem' \in [enabled : BOOLEAN, profile : Profiles \cup {"none"}, header : BOOLEAN]
        /\ telem'.header = telem.header /\ telem'.profile = telem.profile
    BY <1>3 DEF TelemOff, SchedInv
  <2>3. TaskCommand /\ UNCHANGED sent
    BY <1>3 DEF TelemOff
  <2> QED BY <2>1, <2>2, <2>3 DEF TaskCommand, SchedInv, SchedConstants
<1>4. ASSUME NEW name \in Late, MonitorOn(name) \/ MonitorOff(name) PROVE SchedInv'
  <2>1. name \in TaskNames
    BY DEF TaskNames
  <2>2. Scheduled(tasks')
    <3>1. CASE MonitorOn(name) /\ Ensured(name)
      <4>1. tasks' = EnableTask(WithTask(name), name, TRUE)
        BY <3>1 DEF MonitorOn
      <4> QED BY <2>1, <3>1, <4>1, WithTaskKept DEF SchedInv
    <3>2. CASE MonitorOn(name) /\ ~Ensured(name)
      BY <3>2 DEF MonitorOn, SchedInv
    <3>3. CASE MonitorOff(name)
      <4>1. tasks' = EnableTask(tasks, name, FALSE) /\ Registered(tasks, name)
        BY <3>3 DEF MonitorOff
      <4> QED BY <2>1, <4>1, EnableKept DEF SchedInv
    <3> QED BY <1>4, <3>1, <3>2, <3>3
  <2>3. TaskCommand /\ UNCHANGED <<telem, sent>>
    BY <1>4 DEF MonitorOn, MonitorOff
  <2> QED BY <1>1, <2>2, <2>3
<1> QED BY <1>2, <1>3, <1>4 DEF TaskShell

LEMMA SchedStep ==
    ASSUME SchedConstants, SchedInv, [SchedNext]_schedVars PROVE SchedInv'
<1>1. ASSUME AppRunTasks PROVE SchedInv'
  <2>1. PICK d \in BOOLEAN :
          /\ driving' = d /\ tasks' = Enabled(tasks, chassisOn, d)
          /\ chassisOn' = IF Registered(tasks, "chassis") THEN d ELSE chassisOn
          /\ d \in (IF orders < MaxOrders THEN BOOLEAN ELSE {driving})
          /\ orders' = IF d = driving THEN orders ELSE orders + 1
    BY <1>1 DEF AppRunTasks, SchedInv
  <2>2. Scheduled(tasks')
    BY <2>1, EnabledKept DEF SchedInv
  <2>3. orders' \in 0 .. MaxOrders
    BY <2>1 DEF SchedInv, SchedConstants
  <2> QED BY <1>1, <2>1, <2>2, <2>3 DEF AppRunTasks, SchedInv, SchedConstants
<1>2. ASSUME UNCHANGED schedVars PROVE SchedInv'
  BY <1>2 DEF schedVars, SchedInv, Scheduled, Used, InTime
<1> QED BY <1>1, <1>2, VisitStep, TickStep, OrderStep DEF SchedNext, Loop

LEMMA SchedInvariant == ASSUME SchedConstants PROVE SchedSpec => []SchedInv
<1>1. SchedInit => SchedInv
  <2> SUFFICES ASSUME SchedInit PROVE SchedInv
    OBVIOUS
  <2>1. Scheduled(AfterBoot)
    <3>1. \A i \in 1 .. TaskSlots : AfterBoot[i] \in Entries /\ InTime(AfterBoot[i])
      BY ClockBounds DEF AfterBoot, Entries, Free, TaskNames, InTime
    <3>2. /\ AfterBoot = [i \in 1 .. TaskSlots |-> AfterBoot[i]]
          /\ \A i \in 1 .. TaskSlots : AfterBoot[i].name =
                 IF i \in DOMAIN BootTasks THEN BootTasks[i] ELSE "free"
          /\ \A i \in 1 .. TaskSlots : AfterBoot[i].enabled => i \in DOMAIN BootTasks
      BY DEF AfterBoot, Free
    <3>3. Used(AfterBoot) = {i \in 1 .. TaskSlots : i \in DOMAIN BootTasks}
      BY <3>2 DEF Used, SchedConstants, TaskNames
    <3> QED BY <3>1, <3>2, <3>3 DEF Scheduled, SchedConstants
  <2>2. Scheduled(tasks)
    BY <2>1, EnabledKept DEF SchedInit
  <2>3. /\ at \in 1 .. TaskSlots + 1 /\ orders \in 0 .. MaxOrders
        /\ chassisOn = FALSE /\ driving = FALSE
    BY DEF SchedInit, SchedConstants
  <2>4. /\ telem \in [enabled : BOOLEAN, profile : Profiles \cup {"none"}, header : BOOLEAN]
        /\ sent \in [header : Profiles \cup {"none"}, row : Profiles \cup {"none"}]
        /\ ~telem.header
    BY DEF SchedInit
  <2> QED BY <2>2, <2>3, <2>4 DEF SchedInv
<1>2. SchedInv /\ [SchedNext]_schedVars => SchedInv'
  BY SchedStep
<1> QED BY <1>1, <1>2, PTL DEF SchedSpec

(* Every task is registered once, and its times lie on the clock (scheduler.cpp). *)
THEOREM SchedTypes == ASSUME SchedConstants PROVE SchedSpec => []SchedTypeOK
<1>1. SchedInv => SchedTypeOK
  BY DEF SchedInv, Scheduled, Entries, SchedTypeOK
<1> QED BY <1>1, SchedInvariant, PTL

(* No task is lost to the wrap of the clock, and the telemetry task never sends     *)
(* rows of another profile than its header (scheduler.cpp, app_shell.cpp).           *)
THEOREM TasksAreKept == ASSUME SchedConstants PROVE SchedSpec => []TasksKept
<1>1. SchedInv => TasksKept
  BY DEF SchedInv, Scheduled, InTime, TasksKept, NeverLost, HeaderMatchesRows
<1> QED BY <1>1, SchedInvariant, PTL

-----------------------------------------------------------------------------
(* The radio: the frames that may still arrive are in order and not older than the *)
(* last one taken, so a copy of a frame is always a copy of that one.              *)
(* The frames under way, whole, in q. *)
Flying(q) == {q[i].frame : i \in {k \in DOMAIN q : q[k].kind = "frame"}}

(* No frame overtakes a later one. *)
Ordered(q) ==
    \A i, j \in DOMAIN q :
        i < j /\ q[i].kind = "frame" /\ q[j].kind = "frame" => q[i].frame.id <= q[j].frame.id

(* The frames that may still arrive, and the numbers under way to the sender. *)
Open == Flying(toRx) \cup {f \in {tx.pending} : tx.awaiting}
Acks == {toTx[i].seq : i \in DOMAIN toTx}

Senders == [next : 0 .. Numbers - 1, awaiting : BOOLEAN, retries : 0 .. MaxRetries,
            age : 0 .. AckTimeout, pending : Frames]
Signatures == [seq : 0 .. Numbers - 1, data : Payloads \cup {"none"}, ack : BOOLEAN]
Receivers == [known : BOOLEAN, last : Signatures, queue : Seq(Frames), eaten : BOOLEAN]

LoraTyped ==
    /\ tx \in Senders /\ rx \in Receivers /\ Len(rx.queue) <= QueueDepth
    /\ toRx \in Seq([kind : {"frame", "cut"}, frame : Frames]) /\ Len(toRx) <= InAir
    /\ toTx \in Seq([kind : {"ack"}, seq : 0 .. Numbers - 1]) /\ Len(toTx) <= InAir
    /\ taken \in Seq(1 .. sends) /\ sends \in 0 .. MaxSends /\ confirmed \subseteq 1 .. sends
    /\ losses \in Nat /\ resets \in [tx : Nat, rx : Nat]

(* Every frame that may still arrive is one of those sent, and an id is of one frame. *)
OpenSound ==
    /\ Ordered(toRx)
    /\ tx.awaiting => tx.pending.id = sends
    /\ ~tx.awaiting => tx.pending = NoFrame
    /\ \A f \in Open : f \in Frames /\ f.id \in 1 .. sends
    /\ \A f, g \in Open : f.id = g.id => f = g

(* What may still arrive is not older than what was taken last, and what was taken    *)
(* last is known by its signature.                                                     *)
TakenSound ==
    resets.rx = 0 =>
        /\ InOrderOnce
        /\ taken # << >> =>
              /\ rx.known
              /\ \A f \in Open : /\ f.id >= taken[Len(taken)]
                                 /\ f.id = taken[Len(taken)] => rx.last = Signature(f)

(* As long as the numbers do not wrap, a number stands for one frame, and one that    *)
(* is known to the receiver or under way to the sender stands for one that was taken. *)
NumbersSound ==
    resets.tx = 0 =>
        /\ tx.next <= sends
        /\ \A f \in Open : f.seq < tx.next
        /\ \A f, g \in Open : f.seq = g.seq => f.id = g.id
        /\ rx.known => /\ rx.last.seq < tx.next
                       /\ \A f \in Open : f.seq = rx.last.seq => f.id \in ToSet(taken)
        /\ \A n \in Acks : /\ n < tx.next
                           /\ \A f \in Open : f.seq = n => f.id \in ToSet(taken)
        /\ confirmed \subseteq ToSet(taken)

LoraInv == LoraTyped /\ OpenSound /\ TakenSound /\ (MaxSends < Numbers => NumbersSound)

Airs == [kind : {"frame", "cut"}, frame : Frames]

LEMMA LoraBounds ==
    ASSUME LoraConstants
    PROVE  /\ Numbers \in Nat /\ Numbers > 0 /\ MaxRetries \in Nat /\ AckTimeout \in Nat
           /\ QueueDepth \in Nat /\ InAir \in Nat /\ MaxSends \in Nat /\ MaxLosses \in Nat
           /\ NoFrame \in Frames
BY DEF LoraConstants, NoFrame, Frames

LEMMA SenderNow == ASSUME LoraInv PROVE tx \in Senders /\ rx \in Receivers
BY DEF LoraInv, LoraTyped

LEMMA FlyingAppend ==
    ASSUME NEW q \in Seq(Airs), NEW f \in Frames
    PROVE  /\ Whole(f) \in Airs /\ Append(q, Whole(f)) \in Seq(Airs)
           /\ Flying(Append(q, Whole(f))) = Flying(q) \cup {f}
           /\ Ordered(q) /\ (\A g \in Flying(q) : g.id <= f.id) => Ordered(Append(q, Whole(f)))
<1> DEFINE r == Append(q, Whole(f))
<1>1. Whole(f) \in Airs /\ Whole(f).kind = "frame" /\ Whole(f).frame = f
  BY DEF Whole, Airs
<1>2. /\ r \in Seq(Airs) /\ Len(q) \in Nat /\ DOMAIN q = 1 .. Len(q)
      /\ DOMAIN r = 1 .. Len(q) + 1 /\ r[Len(q) + 1] = Whole(f)
      /\ \A i \in DOMAIN q : r[i] = q[i]
  BY <1>1
<1> HIDE DEF r
<1>3. Flying(r) = Flying(q) \cup {f}
  BY <1>1, <1>2 DEF Flying
<1>4. ASSUME Ordered(q), \A g \in Flying(q) : g.id <= f.id PROVE Ordered(r)
  <2> SUFFICES ASSUME NEW i \in DOMAIN r, NEW j \in DOMAIN r, i < j,
                      r[i].kind = "frame", r[j].kind = "frame"
               PROVE  r[i].frame.id <= r[j].frame.id
    BY DEF Ordered
  <2>1. i \in DOMAIN q /\ r[i] = q[i]
    BY <1>2
  <2>2. q[i].frame \in Flying(q)
    BY <2>1 DEF Flying
  <2>3. CASE j \in DOMAIN q
    BY <1>2, <1>4, <2>1, <2>3 DEF Ordered
  <2>4. CASE j = Len(q) + 1
    BY <1>1, <1>2, <1>4, <2>1, <2>2, <2>4
  <2> QED BY <1>2, <2>3, <2>4
<1> QED BY <1>1, <1>2, <1>3, <1>4 DEF r

LEMMA FlyingCut ==
    ASSUME NEW q \in Seq(Airs)
    PROVE  /\ Cut \in Airs => Append(q, Cut) \in Seq(Airs)
           /\ Flying(Append(q, Cut)) = Flying(q)
           /\ Ordered(q) => Ordered(Append(q, Cut))
<1> DEFINE r == Append(q, Cut)
<1>1. Cut.kind = "cut"
  BY DEF Cut
<1>2. /\ Len(q) \in Nat /\ DOMAIN q = 1 .. Len(q)
      /\ DOMAIN r = 1 .. Len(q) + 1 /\ r[Len(q) + 1] = Cut
      /\ \A i \in DOMAIN q : r[i] = q[i]
  OBVIOUS
<1>3. Cut \in Airs => r \in Seq(Airs)
  OBVIOUS
<1> HIDE DEF r
<1>4. Flying(r) = Flying(q)
  BY <1>1, <1>2 DEF Flying
<1>5. Ordered(q) => Ordered(r)
  BY <1>1, <1>2 DEF Ordered
<1> QED BY <1>3, <1>4, <1>5 DEF r

LEMMA FlyingTail ==
    ASSUME NEW q \in Seq(Airs), q # << >>
    PROVE  /\ Tail(q) \in Seq(Airs) /\ Len(Tail(q)) = Len(q) - 1 /\ Head(q) \in Airs
           /\ Flying(Tail(q)) \subseteq Flying(q)
           /\ Ordered(q) => Ordered(Tail(q))
           /\ Head(q).kind = "frame" =>
                 /\ Head(q).frame \in Flying(q)
                 /\ Ordered(q) => \A g \in Flying(Tail(q)) : Head(q).frame.id <= g.id
<1> DEFINE r == Tail(q)
<1>1. /\ Len(q) \in Nat /\ DOMAIN q = 1 .. Len(q) /\ Len(q) > 0 /\ Head(q) = q[1]
      /\ r \in Seq(Airs) /\ Len(r) = Len(q) - 1 /\ DOMAIN r = 1 .. Len(q) - 1
      /\ \A i \in DOMAIN r : r[i] = q[i + 1] /\ i + 1 \in DOMAIN q
  OBVIOUS
<1> HIDE DEF r
<1>2. Flying(r) \subseteq Flying(q)
  BY <1>1 DEF Flying
<1>3. Ordered(q) => Ordered(r)
  <2> SUFFICES ASSUME Ordered(q), NEW i \in DOMAIN r, NEW j \in DOMAIN r, i < j,
                      r[i].kind = "frame", r[j].kind = "frame"
               PROVE  r[i].frame.id <= r[j].frame.id
    BY DEF Ordered
  <2>1. i + 1 < j + 1 /\ i + 1 \in DOMAIN q /\ j + 1 \in DOMAIN q /\ r[i] = q[i + 1] /\ r[j] = q[j + 1]
    BY <1>1
  <2> QED BY <2>1 DEF Ordered
<1>4. ASSUME q[1].kind = "frame" PROVE q[1].frame \in Flying(q)
  BY <1>1, <1>4 DEF Flying
<1>5. ASSUME q[1].kind = "frame", Ordered(q), NEW g \in Flying(r) PROVE q[1].frame.id <= g.id
  <2>1. PICK i \in DOMAIN r : r[i].kind = "frame" /\ g = r[i].frame
    BY DEF Flying
  <2>2. 1 \in DOMAIN q /\ i + 1 \in DOMAIN q /\ 1 < i + 1 /\ q[i + 1] = r[i]
    BY <1>1, <2>1
  <2> QED BY <1>5, <2>1, <2>2 DEF Ordered
<1> QED BY <1>1, <1>2, <1>3, <1>4, <1>5 DEF r

LEMMA FlyingNone == Flying(<< >>) = {} /\ Ordered(<< >>)
BY DEF Flying, Ordered

LEMMA WrittenSound ==
    ASSUME LoraTyped, LoraConstants, NEW f \in Frames, NEW ok \in BOOLEAN, Ordered(toRx),
           \A g \in Flying(toRx) : g.id <= f.id
    PROVE  /\ Written(f, ok) \in Seq(Airs) /\ Len(Written(f, ok)) <= InAir
           /\ Flying(Written(f, ok)) \subseteq Flying(toRx) \cup {f}
           /\ ~ok => Flying(Written(f, ok)) \subseteq Flying(toRx)
           /\ Ordered(Written(f, ok))
<1>1. toRx \in Seq(Airs) /\ Len(toRx) \in Nat /\ InAir \in Nat /\ Len(toRx) <= InAir
  BY DEF LoraTyped, LoraConstants, Airs
<1>2. Cut \in Airs
  BY DEF Cut, Airs, NoFrame, Frames, LoraConstants
<1>3. CASE Len(toRx) >= InAir
  <2>1. Written(f, ok) = toRx
    BY <1>3 DEF Written
  <2> QED BY <1>1, <2>1
<1>4. CASE ~(Len(toRx) >= InAir) /\ ok
  <2>1. Written(f, ok) = Append(toRx, Whole(f))
    BY <1>4 DEF Written
  <2>2. Len(Append(toRx, Whole(f))) = Len(toRx) + 1
    BY <1>1
  <2>3. /\ Append(toRx, Whole(f)) \in Seq(Airs) /\ Ordered(Append(toRx, Whole(f)))
        /\ Flying(Append(toRx, Whole(f))) = Flying(toRx) \cup {f}
    BY <1>1, FlyingAppend
  <2>4. Len(Written(f, ok)) <= InAir
    <3>1. ~(Len(toRx) >= InAir)
      BY <1>4
    <3>2. Len(toRx) + 1 <= InAir
      BY <1>1, <3>1
    <3> QED BY <2>1, <2>2, <3>2
  <2> QED BY <1>4, <2>1, <2>3, <2>4
<1>5. CASE ~(Len(toRx) >= InAir) /\ ~ok
  <2>1. Written(f, ok) = Append(toRx, Cut)
    BY <1>5 DEF Written
  <2>2. Len(Append(toRx, Cut)) = Len(toRx) + 1
    BY <1>1
  <2> QED BY <1>1, <1>2, <1>5, <2>1, <2>2, FlyingCut
<1> QED BY <1>3, <1>4, <1>5

(* With fewer frames under way and nothing new known, nothing goes wrong. *)
LEMMA OpenFewer ==
    ASSUME OpenSound, LoraTyped, LoraTyped', Ordered(toRx)', Open' \subseteq Open, sends' >= sends,
           tx'.awaiting => sends' = sends /\ tx.awaiting /\ tx'.pending = tx.pending,
           ~tx'.awaiting => tx'.pending = NoFrame
    PROVE  OpenSound'
<1>1. sends \in Nat /\ sends' \in Nat
  BY DEF LoraTyped
<1>2. \A f \in Open' : f \in Frames /\ f.id \in 1 .. sends'
  BY <1>1 DEF OpenSound
<1>3. \A f, g \in Open' : f.id = g.id => f = g
  BY DEF OpenSound
<1> HIDE DEF Open
<1> QED BY <1>2, <1>3 DEF OpenSound

LEMMA TakenFewer ==
    ASSUME TakenSound, Open' \subseteq Open, resets'.rx = resets.rx, UNCHANGED taken,
           rx'.known = rx.known, rx'.last = rx.last
    PROVE  TakenSound'
BY DEF TakenSound, InOrderOnce

LEMMA NumbersFewer ==
    ASSUME NumbersSound, LoraTyped, LoraTyped', Open' \subseteq Open, resets'.tx = resets.tx,
           tx'.next = tx.next, sends' >= sends, UNCHANGED taken,
           rx'.known => rx.known /\ rx'.last = rx.last, Acks' \subseteq Acks,
           resets.tx = 0 => confirmed' \subseteq ToSet(taken)
    PROVE  NumbersSound'
<1>1. sends \in Nat /\ sends' \in Nat /\ tx.next \in Int
  BY DEF LoraTyped, Senders
<1>2. ToSet(taken)' = ToSet(taken)
  OBVIOUS
<1> QED BY <1>1, <1>2 DEF NumbersSound

LEMMA AcksTail ==
    ASSUME LoraTyped, toTx # << >>, toTx' = Tail(toTx)
    PROVE  /\ toTx' \in Seq([kind : {"ack"}, seq : 0 .. Numbers - 1]) /\ Len(toTx') <= Len(toTx)
           /\ Acks' \subseteq Acks /\ Head(toTx).seq \in Acks
<1>1. /\ Len(toTx) \in Nat /\ DOMAIN toTx = 1 .. Len(toTx) /\ Len(toTx) > 0 /\ Head(toTx) = toTx[1]
      /\ Len(Tail(toTx)) = Len(toTx) - 1 /\ DOMAIN Tail(toTx) = 1 .. Len(toTx) - 1
      /\ \A i \in DOMAIN Tail(toTx) : Tail(toTx)[i] = toTx[i + 1] /\ i + 1 \in DOMAIN toTx
      /\ Tail(toTx) \in Seq([kind : {"ack"}, seq : 0 .. Numbers - 1])
  BY DEF LoraTyped
<1> QED BY <1>1 DEF Acks

LEMMA AcksNumbers == ASSUME LoraInv PROVE \A n \in Acks : n \in 0 .. Numbers - 1
<1>1. toTx \in Seq([kind : {"ack"}, seq : 0 .. Numbers - 1])
  BY DEF LoraInv, LoraTyped
<1>2. ASSUME NEW i \in DOMAIN toTx PROVE toTx[i].seq \in 0 .. Numbers - 1
  <2>1. i \in 1 .. Len(toTx)
    BY <1>1
  <2>2. toTx[i] \in [kind : {"ack"}, seq : 0 .. Numbers - 1]
    BY <1>1, <2>1, ElementOfSeq, Zenon
  <2> QED BY <2>2
<1> QED BY <1>2 DEF Acks

LEMMA ElapsingStep ==
    ASSUME LoraConstants, LoraInv, Elapsing PROVE LoraInv'
<1>1. /\ tx.awaiting /\ tx.age < AckTimeout /\ tx' = [tx EXCEPT !.age = @ + 1]
      /\ UNCHANGED <<rx, toRx, toTx, taken, confirmed, sends, losses, resets>>
  BY DEF Elapsing
<1>2. /\ tx' \in Senders
      /\ tx'.awaiting = tx.awaiting /\ tx'.pending = tx.pending /\ tx'.next = tx.next
  <2>1. tx \in Senders
    BY SenderNow
  <2>2. tx.age + 1 \in 0 .. AckTimeout
    BY <1>1, <2>1, LoraBounds DEF Senders
  <2> QED BY <1>1, <2>1, <2>2 DEF Senders
<1>3. LoraTyped'
  BY <1>1, <1>2 DEF LoraInv, LoraTyped
<1>4. Open' \subseteq Open /\ Acks' = Acks /\ Ordered(toRx)'
  BY <1>1, <1>2 DEF Open, Acks, LoraInv, OpenSound
<1>5. sends' >= sends
  BY <1>1 DEF LoraInv, LoraTyped
<1>6. OpenSound'
  BY <1>1, <1>2, <1>3, <1>4, <1>5, OpenFewer DEF LoraInv, OpenSound
<1>7. TakenSound'
  BY <1>1, <1>4, TakenFewer DEF LoraInv
<1>8. NumbersSound => NumbersSound'
  BY <1>1, <1>2, <1>3, <1>4, <1>5, NumbersFewer DEF LoraInv, NumbersSound
<1> QED BY <1>3, <1>6, <1>7, <1>8 DEF LoraInv

LEMMA TimeoutStep ==
    ASSUME LoraConstants, LoraInv, Timeout PROVE LoraInv'
<1>1. tx.awaiting /\ UNCHANGED <<rx, toTx, taken, confirmed, sends, resets>>
  BY DEF Timeout
<1>2. Acks' = Acks /\ sends' >= sends /\ sends \in Nat
  BY <1>1 DEF Acks, LoraInv, LoraTyped
<1>3. CASE tx.retries >= MaxRetries
  <2>1. tx' = [tx EXCEPT !.awaiting = FALSE, !.pending = NoFrame] /\ UNCHANGED <<toRx, losses>>
    BY <1>3 DEF Timeout
  <2>2. /\ tx' \in Senders
        /\ ~tx'.awaiting /\ tx'.pending = NoFrame /\ tx'.next = tx.next
    BY <2>1, SenderNow, LoraBounds DEF Senders
  <2>3. LoraTyped'
    BY <1>1, <2>1, <2>2 DEF LoraInv, LoraTyped
  <2>4. Open' \subseteq Open /\ Ordered(toRx)'
    BY <1>1, <2>1, <2>2 DEF Open, LoraInv, OpenSound
  <2>5. OpenSound'
    BY <1>1, <1>2, <2>2, <2>3, <2>4, OpenFewer DEF LoraInv
  <2>6. TakenSound'
    BY <1>1, <2>4, TakenFewer DEF LoraInv
  <2>7. NumbersSound => NumbersSound'
    BY <1>1, <1>2, <2>2, <2>3, <2>4, NumbersFewer DEF LoraInv, NumbersSound
  <2> QED BY <2>3, <2>5, <2>6, <2>7 DEF LoraInv
<1>4. CASE ~(tx.retries >= MaxRetries)
  <2>1. PICK ok \in BOOLEAN : toRx' = Written(tx.pending, ok) /\ tx' = Retried(tx) /\ Counting(ok)
    BY <1>4 DEF Timeout, MayFail
  <2>2. /\ tx' \in Senders
        /\ tx'.awaiting = tx.awaiting /\ tx'.pending = tx.pending /\ tx'.next = tx.next
    <3>1. tx \in Senders
      BY SenderNow
    <3>2. tx.retries + 1 \in 0 .. MaxRetries /\ 0 \in 0 .. AckTimeout
      BY <1>4, <3>1, LoraBounds DEF Senders
    <3> QED BY <2>1, <3>1, <3>2 DEF Senders, Retried
  <2>3. /\ tx.pending \in Frames /\ tx.pending \in Open /\ Ordered(toRx)
        /\ \A g \in Flying(toRx) : g.id <= tx.pending.id
    BY <1>1, <1>2 DEF Open, LoraInv, LoraTyped, OpenSound
  <2>4. /\ toRx' \in Seq(Airs) /\ Len(toRx') <= InAir /\ Ordered(toRx')
        /\ Flying(toRx') \subseteq Flying(toRx) \cup {tx.pending}
    BY <2>1, <2>3, WrittenSound DEF LoraInv
  <2>5. losses' \in Nat
    BY <2>1 DEF Counting, LoraInv, LoraTyped
  <2>6. LoraTyped'
    BY <1>1, <2>2, <2>4, <2>5 DEF LoraInv, LoraTyped, Airs
  <2>7. Open' \subseteq Open
    BY <2>2, <2>3, <2>4 DEF Open
  <2>8. OpenSound'
    BY <1>1, <1>2, <2>2, <2>4, <2>6, <2>7, OpenFewer DEF LoraInv
  <2>9. TakenSound'
    BY <1>1, <2>7, TakenFewer DEF LoraInv
  <2>10. NumbersSound => NumbersSound'
    BY <1>1, <1>2, <2>2, <2>6, <2>7, NumbersFewer DEF LoraInv, NumbersSound
  <2> QED BY <2>6, <2>8, <2>9, <2>10 DEF LoraInv
<1> QED BY <1>3, <1>4

(* The frame being sent is later than every frame under way, and has a number of its own. *)
LEMMA SendStep ==
    ASSUME LoraConstants, LoraInv, NEW data \in Payloads, NEW ack \in BOOLEAN, Send(data, ack)
    PROVE  LoraInv'
<1> DEFINE f == [seq |-> tx.next, data |-> data, ack |-> ack, id |-> sends + 1]
<1>1. /\ sends < MaxSends /\ ~tx.awaiting /\ sends' = sends + 1
      /\ UNCHANGED <<rx, toTx, taken, confirmed, resets>>
  BY DEF Send
<1>2. PICK ok \in BOOLEAN :
        /\ toRx' = Written(f, ok)
        /\ tx' = IF ~ok THEN tx
                 ELSE IF ack
                 THEN [next |-> (tx.next + 1) % Numbers, awaiting |-> TRUE, retries |-> 0,
                       age |-> 0, pending |-> f]
                 ELSE [tx EXCEPT !.next = (@ + 1) % Numbers]
        /\ Counting(ok)
  BY DEF Send, MayFail
<1>3. /\ f \in Frames /\ f.id = sends + 1 /\ f.seq = tx.next
      /\ tx \in Senders /\ rx \in Receivers /\ sends \in Nat /\ sends + 1 \in 0 .. MaxSends
      /\ tx.next \in 0 .. Numbers - 1 /\ (tx.next + 1) % Numbers \in 0 .. Numbers - 1
  <2>1. tx \in Senders /\ rx \in Receivers
    BY SenderNow
  <2>2. sends \in Nat /\ sends + 1 \in 0 .. MaxSends
    BY <1>1, LoraBounds DEF LoraInv, LoraTyped
  <2>3. tx.next \in 0 .. Numbers - 1
    BY <2>1 DEF Senders
  <2>4. (tx.next + 1) % Numbers \in 0 .. Numbers - 1
    BY <2>3, LoraBounds
  <2>5. f \in Frames
    BY <2>2, <2>3 DEF Frames
  <2> QED BY <2>1, <2>2, <2>3, <2>4, <2>5
<1> HIDE DEF f
<1>4. \A g \in Open : g \in Frames /\ g.id \in 1 .. sends
  BY DEF LoraInv, OpenSound
<1>5. Flying(toRx) = Open
  BY <1>1 DEF Open
<1>6. /\ toRx' \in Seq(Airs) /\ Len(toRx') <= InAir /\ Ordered(toRx')
      /\ Flying(toRx') \subseteq Flying(toRx) \cup {f}
      /\ ~ok => Flying(toRx') \subseteq Flying(toRx)
  <2>1. \A g \in Flying(toRx) : g.id <= f.id
    BY <1>3, <1>4, <1>5
  <2>2. Ordered(toRx) /\ LoraTyped
    BY DEF LoraInv, OpenSound
  <2> QED BY <1>2, <1>3, <2>1, <2>2, WrittenSound
<1>7. tx' \in Senders /\ (tx'.awaiting => tx'.pending = f) /\ (~tx'.awaiting => tx'.pending = NoFrame)
  <2>0. ~tx.awaiting /\ tx.pending = NoFrame
    BY <1>1 DEF LoraInv, OpenSound
  <2>1. CASE ~ok
    BY <1>2, <1>3, <2>0, <2>1
  <2>2. CASE ok /\ ack
    BY <1>2, <1>3, <2>2, LoraBounds DEF Senders
  <2>3. CASE ok /\ ~ack
    BY <1>2, <1>3, <2>0, <2>3 DEF Senders
  <2> QED BY <2>1, <2>2, <2>3
<1>8. /\ tx'.next = IF ok THEN (tx.next + 1) % Numbers ELSE tx.next
      /\ ~ok => ~tx'.awaiting
  BY <1>1, <1>2, <1>3 DEF Senders
<1>9. LoraTyped'
  <2>1. taken' \in Seq(1 .. sends')
    BY <1>1, <1>3 DEF LoraInv, LoraTyped
  <2>2. sends' \in 0 .. MaxSends /\ confirmed' \subseteq 1 .. sends'
    BY <1>1, <1>3 DEF LoraInv, LoraTyped
  <2>3. losses' \in Nat
    BY <1>2 DEF Counting, LoraInv, LoraTyped
  <2> QED BY <1>1, <1>3, <1>6, <1>7, <2>1, <2>2, <2>3 DEF LoraInv, LoraTyped, Airs
<1>10. Open' \subseteq Open \cup {f} /\ (~ok => Open' \subseteq Open)
  BY <1>5, <1>6, <1>7, <1>8 DEF Open
<1>11. Acks' = Acks
  BY <1>1 DEF Acks
<1> HIDE DEF Open, Acks
<1>12. OpenSound'
  <2>1. \A g \in Open' : g \in Frames /\ g.id \in 1 .. sends'
    BY <1>1, <1>3, <1>4, <1>10
  <2>2. \A g, h \in Open' : g.id = h.id => g = h
    BY <1>3, <1>4, <1>10 DEF LoraInv, OpenSound
  <2>3. tx'.awaiting => tx'.pending.id = sends'
    BY <1>1, <1>3, <1>7
  <2> QED BY <1>6, <1>7, <2>1, <2>2, <2>3 DEF OpenSound
<1>13. TakenSound'
  <2> SUFFICES ASSUME resets'.rx = 0
               PROVE  /\ InOrderOnce'
                      /\ taken' # << >> =>
                           /\ rx'.known
                           /\ \A g \in Open' :
                                 /\ g.id >= taken'[Len(taken')]
                                 /\ g.id = taken'[Len(taken')] => rx'.last = Signature(g)
    BY DEF TakenSound
  <2>0. resets.rx = 0 /\ taken' = taken /\ rx' = rx
    BY <1>1
  <2>1. InOrderOnce'
    BY <2>0 DEF LoraInv, TakenSound, InOrderOnce
  <2>2. ASSUME taken # << >> PROVE taken[Len(taken)] \in 1 .. sends
    <3>1. taken \in Seq(1 .. sends)
      BY DEF LoraInv, LoraTyped
    <3>2. Len(taken) \in 1 .. Len(taken)
      BY <2>2, <3>1
    <3> QED BY <3>1, <3>2, ElementOfSeq
  <2>3. ASSUME taken # << >>, NEW g \in Open'
        PROVE  /\ g.id >= taken[Len(taken)]
               /\ g.id = taken[Len(taken)] => rx.last = Signature(g)
    <3>1. CASE g \in Open
      BY <2>0, <2>3, <3>1 DEF LoraInv, TakenSound
    <3>2. CASE g = f
      BY <1>3, <2>2, <2>3, <3>2
    <3> QED BY <1>10, <2>3, <3>1, <3>2
  <2>4. taken # << >> => rx.known
    BY <2>0 DEF LoraInv, TakenSound
  <2> QED BY <2>0, <2>1, <2>3, <2>4
<1>14. MaxSends < Numbers /\ NumbersSound => NumbersSound'
  <2> SUFFICES ASSUME MaxSends < Numbers, NumbersSound, resets.tx = 0
               PROVE  /\ tx'.next <= sends'
                      /\ \A g \in Open' : g.seq < tx'.next
                      /\ \A g, h \in Open' : g.seq = h.seq => g.id = h.id
                      /\ rx.known => /\ rx.last.seq < tx'.next
                                     /\ \A g \in Open' : g.seq = rx.last.seq => g.id \in ToSet(taken)
                      /\ \A n \in Acks : /\ n < tx'.next
                                         /\ \A g \in Open' : g.seq = n => g.id \in ToSet(taken)
                      /\ confirmed \subseteq ToSet(taken)
    BY <1>1, <1>11 DEF NumbersSound
  <2>1. /\ tx.next <= sends
        /\ \A g \in Open : g.seq < tx.next
        /\ \A g, h \in Open : g.seq = h.seq => g.id = h.id
        /\ rx.known => /\ rx.last.seq < tx.next
                       /\ \A g \in Open : g.seq = rx.last.seq => g.id \in ToSet(taken)
        /\ \A n \in Acks : /\ n < tx.next
                           /\ \A g \in Open : g.seq = n => g.id \in ToSet(taken)
        /\ confirmed \subseteq ToSet(taken)
    BY DEF NumbersSound
  <2>2. /\ tx.next + 1 < Numbers + 1 /\ tx.next + 1 <= sends + 1 /\ Numbers \in Nat /\ tx.next + 1 < Numbers
        /\ \A g \in Open : g.seq \in Int
        /\ rx.last.seq \in Int /\ \A n \in Acks : n \in Int
    <3>1. \A g \in Open : g.seq \in Int
      BY <1>4 DEF Frames
    <3>2. rx.last.seq \in Int
      BY <1>3 DEF Receivers, Signatures
    <3>3. \A n \in Acks : n \in Int
      BY AcksNumbers
    <3> QED BY <1>1, <1>3, <2>1, <3>1, <3>2, <3>3, LoraBounds
  <2>3. tx'.next = IF ok THEN tx.next + 1 ELSE tx.next
    BY <1>3, <1>8, <2>2, LoraBounds
  <2>4. CASE ok
    <3>1. tx'.next = tx.next + 1 /\ f.seq = tx.next
      BY <1>3, <2>3, <2>4
    <3>2. \A g \in Open' : g \in Open \/ g = f
      BY <1>10
    <3>3. tx'.next <= sends' /\ \A g \in Open' : g.seq < tx'.next
      BY <1>1, <1>3, <2>1, <2>2, <3>1, <3>2
    <3>4. \A g, h \in Open' : g.seq = h.seq => g.id = h.id
      BY <1>3, <2>1, <2>2, <3>1, <3>2
    <3>5. rx.known => /\ rx.last.seq < tx'.next
                      /\ \A g \in Open' : g.seq = rx.last.seq => g.id \in ToSet(taken)
      BY <1>3, <2>1, <2>2, <3>1, <3>2
    <3>6. \A n \in Acks : /\ n < tx'.next
                          /\ \A g \in Open' : g.seq = n => g.id \in ToSet(taken)
      BY <1>3, <2>1, <2>2, <3>1, <3>2
    <3> QED BY <2>1, <3>3, <3>4, <3>5, <3>6
  <2>5. CASE ~ok
    <3>1. tx'.next = tx.next /\ Open' \subseteq Open /\ tx'.next <= sends'
      BY <1>1, <1>3, <1>10, <2>1, <2>3, <2>5
    <3> QED BY <2>1, <3>1
  <2> QED BY <2>4, <2>5
<1> QED BY <1>9, <1>12, <1>13, <1>14 DEF LoraInv

(* An acknowledgment that names the pending frame is of a frame that was taken. *)
LEMMA ReceiveAckStep ==
    ASSUME LoraConstants, LoraInv, ReceiveAck PROVE LoraInv'
<1> DEFINE n == Head(toTx).seq
<1>1. /\ toTx # << >> /\ toTx' = Tail(toTx)
      /\ UNCHANGED <<rx, toRx, taken, sends, losses, resets>>
      /\ IF tx.awaiting /\ tx.pending.seq = n
         THEN /\ tx' = [tx EXCEPT !.awaiting = FALSE, !.retries = 0, !.pending = NoFrame]
              /\ confirmed' = confirmed \cup {tx.pending.id}
         ELSE UNCHANGED <<tx, confirmed>>
  BY DEF ReceiveAck, Answers
<1>2. /\ toTx' \in Seq([kind : {"ack"}, seq : 0 .. Numbers - 1]) /\ Len(toTx') <= Len(toTx)
      /\ Acks' \subseteq Acks /\ n \in Acks
  BY <1>1, AcksTail DEF LoraInv
<1> HIDE DEF n
<1>3. /\ tx \in Senders /\ tx' \in Senders /\ tx'.next = tx.next
      /\ tx'.awaiting => tx' = tx
      /\ ~tx'.awaiting => tx'.pending = NoFrame
  <2>1. tx \in Senders /\ (~tx.awaiting => tx.pending = NoFrame)
    BY SenderNow DEF LoraInv, OpenSound
  <2>2. CASE tx.awaiting /\ tx.pending.seq = n
    <3>1. tx' = [tx EXCEPT !.awaiting = FALSE, !.retries = 0, !.pending = NoFrame]
      BY <1>1, <2>2
    <3>2. 0 \in 0 .. MaxRetries /\ NoFrame \in Frames
      BY LoraBounds
    <3> QED BY <2>1, <3>1, <3>2 DEF Senders
  <2>3. CASE ~(tx.awaiting /\ tx.pending.seq = n)
    BY <1>1, <2>1, <2>3
  <2> QED BY <2>1, <2>2, <2>3
<1>4. confirmed' # confirmed =>
        /\ tx.awaiting /\ tx.pending.seq = n /\ confirmed' = confirmed \cup {tx.pending.id}
        /\ tx.pending \in Open
  BY <1>1 DEF Open
<1>5. confirmed' \subseteq 1 .. sends
  BY <1>4 DEF LoraInv, LoraTyped, OpenSound
<1>6. LoraTyped'
  <2>1. Len(toTx') <= InAir
    BY <1>2, LoraBounds DEF LoraInv, LoraTyped
  <2> QED BY <1>1, <1>2, <1>3, <1>5, <2>1 DEF LoraInv, LoraTyped
<1>7. Open' \subseteq Open /\ Ordered(toRx)'
  BY <1>1, <1>3 DEF Open, LoraInv, OpenSound
<1>8. sends' >= sends
  BY <1>1 DEF LoraInv, LoraTyped
<1>9. OpenSound'
  BY <1>1, <1>3, <1>6, <1>7, <1>8, OpenFewer DEF LoraInv
<1>10. TakenSound'
  BY <1>1, <1>7, TakenFewer DEF LoraInv
<1>11. NumbersSound => NumbersSound'
  <2>1. NumbersSound /\ resets.tx = 0 => confirmed' \subseteq ToSet(taken)
    BY <1>2, <1>4 DEF NumbersSound
  <2> QED BY <1>1, <1>2, <1>3, <1>6, <1>7, <1>8, <2>1, NumbersFewer DEF LoraInv
<1> QED BY <1>6, <1>9, <1>10, <1>11 DEF LoraInv

LEMMA AckAppended ==
    ASSUME LoraConstants, LoraTyped, NEW f \in Frames, Acknowledged(f)
    PROVE  /\ toTx' \in Seq([kind : {"ack"}, seq : 0 .. Numbers - 1]) /\ Len(toTx') <= InAir
           /\ losses' \in Nat /\ Acks' \subseteq Acks \cup {f.seq}
<1> DEFINE A == [kind : {"ack"}, seq : 0 .. Numbers - 1]
<1>1. toTx \in Seq(A) /\ Len(toTx) \in Nat /\ Len(toTx) <= InAir /\ InAir \in Nat /\ losses \in Nat
  BY LoraBounds DEF LoraTyped
<1>2. PICK ok \in BOOLEAN :
        /\ toTx' = IF ok /\ Len(toTx) < InAir THEN Append(toTx, Ack(f.seq)) ELSE toTx
        /\ Counting(ok)
  BY DEF Acknowledged, MayFail
<1>3. losses' \in Nat
  BY <1>1, <1>2 DEF Counting
<1>4. Ack(f.seq) \in A /\ Ack(f.seq).seq = f.seq
  BY DEF Ack, Frames
<1> HIDE DEF A
<1>5. CASE toTx' = toTx
  BY <1>1, <1>3, <1>5 DEF Acks, A
<1>6. CASE Len(toTx) < InAir /\ toTx' = Append(toTx, Ack(f.seq))
  <2>1. toTx' \in Seq(A) /\ Len(toTx') = Len(toTx) + 1
    BY <1>1, <1>4, <1>6
  <2>2. DOMAIN toTx = 1 .. Len(toTx) /\ DOMAIN toTx' = 1 .. Len(toTx) + 1
    BY <1>1, <2>1
  <2>3. \A i \in DOMAIN toTx' : toTx'[i] = IF i <= Len(toTx) THEN toTx[i] ELSE Ack(f.seq)
    BY <1>1, <1>4, <1>6, <2>2
  <2>4. \A i \in DOMAIN toTx' : toTx'[i].seq \in Acks \cup {f.seq}
    BY <1>1, <1>4, <2>2, <2>3 DEF Acks
  <2>5. Acks' \subseteq Acks \cup {f.seq}
    BY <2>4 DEF Acks
  <2>6. Len(toTx') <= InAir
    BY <1>1, <1>6, <2>1
  <2> QED BY <1>3, <2>1, <2>5, <2>6 DEF A
<1> QED BY <1>2, <1>5, <1>6

LEMMA TakenAppended ==
    ASSUME NEW s \in Seq(Nat), NEW x \in Nat
    PROVE  /\ ToSet(Append(s, x)) = ToSet(s) \cup {x}
           /\ Append(s, x) # << >> /\ Append(s, x)[Len(Append(s, x))] = x
           /\ (\A i, j \in DOMAIN s : i < j => s[i] < s[j]) /\ (s # << >> => s[Len(s)] < x)
                => \A i, j \in DOMAIN Append(s, x) : i < j => Append(s, x)[i] < Append(s, x)[j]
<1> DEFINE r == Append(s, x)
<1>1. /\ Len(s) \in Nat /\ DOMAIN s = 1 .. Len(s) /\ DOMAIN r = 1 .. Len(s) + 1 /\ Len(r) = Len(s) + 1
      /\ r[Len(s) + 1] = x /\ r # << >> /\ \A i \in DOMAIN s : r[i] = s[i] /\ s[i] \in Nat
  OBVIOUS
<1> HIDE DEF r
<1>2. ToSet(r) = ToSet(s) \cup {x}
  BY <1>1 DEF ToSet
<1>3. ASSUME \A i, j \in DOMAIN s : i < j => s[i] < s[j], s # << >> => s[Len(s)] < x,
             NEW i \in DOMAIN r, NEW j \in DOMAIN r, i < j
      PROVE  r[i] < r[j]
  <2>1. i \in DOMAIN s /\ r[i] = s[i] /\ s[i] \in Nat
    BY <1>1, <1>3
  <2>2. CASE j \in DOMAIN s
    BY <1>1, <1>3, <2>1, <2>2
  <2>3. CASE j = Len(s) + 1
    <3>1. s # << >> /\ Len(s) \in DOMAIN s /\ s[Len(s)] \in Nat
      BY <1>1, <2>1
    <3>2. s[i] <= s[Len(s)]
      <4>1. CASE i = Len(s)
        BY <4>1, <3>1
      <4>2. CASE i < Len(s)
        BY <1>3, <2>1, <3>1, <4>2
      <4> QED BY <1>1, <2>1, <4>1, <4>2
    <3> QED BY <1>1, <1>3, <2>1, <2>3, <3>1, <3>2
  <2> QED BY <1>1, <2>2, <2>3
<1> QED BY <1>1, <1>2, <1>3 DEF r

(* A frame is taken once: a later copy has the signature of the last one taken. *)
LEMMA ReceiveStep ==
    ASSUME LoraConstants, LoraInv, Receive PROVE LoraInv'
<1> DEFINE f == Head(toRx).frame
<1>1. toRx # << >> /\ toRx' = Tail(toRx) /\ UNCHANGED <<tx, confirmed, sends, resets>>
  BY DEF Receive
<1>2. LoraTyped /\ OpenSound /\ TakenSound /\ (MaxSends < Numbers => NumbersSound)
  BY DEF LoraInv
<1>3. /\ toRx' \in Seq(Airs) /\ Len(toRx') <= InAir /\ Ordered(toRx)' /\ Head(toRx) \in Airs
      /\ Flying(toRx') \subseteq Flying(toRx)
      /\ Head(toRx).kind = "frame" =>
            /\ f \in Flying(toRx)
            /\ \A g \in Flying(toRx') : f.id <= g.id
  <2>1. toRx \in Seq(Airs) /\ Len(toRx) \in Nat /\ Len(toRx) <= InAir /\ InAir \in Nat /\ Ordered(toRx)
    BY <1>2, LoraBounds DEF LoraTyped, Airs, OpenSound
  <2>2. /\ Tail(toRx) \in Seq(Airs) /\ Len(Tail(toRx)) = Len(toRx) - 1 /\ Head(toRx) \in Airs
        /\ Flying(Tail(toRx)) \subseteq Flying(toRx) /\ Ordered(Tail(toRx))
        /\ Head(toRx).kind = "frame" =>
              /\ Head(toRx).frame \in Flying(toRx)
              /\ \A g \in Flying(Tail(toRx)) : Head(toRx).frame.id <= g.id
    BY <1>1, <2>1, FlyingTail
  <2>3. Len(Tail(toRx)) <= InAir
    BY <2>1, <2>2
  <2> QED BY <1>1, <2>2, <2>3
<1> HIDE DEF f
<1>4. Open' \subseteq Open
  BY <1>1, <1>3 DEF Open
<1>5. sends' >= sends /\ sends \in Nat /\ rx \in Receivers
  BY <1>1, <1>2 DEF LoraTyped
<1>6. ASSUME LoraTyped' PROVE OpenSound'
  BY <1>1, <1>2, <1>3, <1>4, <1>5, <1>6, OpenFewer DEF OpenSound
<1>7. ASSUME rx' = [rx EXCEPT !.eaten = rx'.eaten], rx'.eaten \in BOOLEAN, UNCHANGED <<toTx, taken, losses>>
      PROVE  LoraInv'
  <2>1. rx' \in Receivers /\ rx'.known = rx.known /\ rx'.last = rx.last /\ rx'.queue = rx.queue
    BY <1>5, <1>7 DEF Receivers
  <2>2. LoraTyped'
    BY <1>1, <1>2, <1>3, <1>7, <2>1 DEF LoraTyped, Airs
  <2>3. TakenSound'
    BY <1>1, <1>2, <1>4, <1>7, <2>1, TakenFewer
  <2>4. Acks' = Acks
    BY <1>7 DEF Acks
  <2>5. NumbersSound => NumbersSound'
    BY <1>1, <1>2, <1>4, <1>5, <1>7, <2>1, <2>2, <2>4, NumbersFewer DEF NumbersSound
  <2> QED BY <1>2, <1>6, <2>2, <2>3, <2>5 DEF LoraInv
<1>8. CASE Head(toRx).kind = "cut"
  <2>1. rx' = [rx EXCEPT !.eaten = ~@] /\ UNCHANGED <<toTx, taken, losses>>
    BY <1>8 DEF Receive
  <2>2. rx'.eaten \in BOOLEAN /\ rx' = [rx EXCEPT !.eaten = rx'.eaten]
    BY <1>5, <2>1 DEF Receivers
  <2> QED BY <1>7, <2>1, <2>2
<1>9. CASE Head(toRx).kind = "frame" /\ rx.eaten
  <2>1. rx' = [rx EXCEPT !.eaten = FALSE] /\ UNCHANGED <<toTx, taken, losses>>
    BY <1>9 DEF Receive
  <2>2. rx'.eaten \in BOOLEAN /\ rx' = [rx EXCEPT !.eaten = rx'.eaten]
    BY <1>5, <2>1 DEF Receivers
  <2> QED BY <1>7, <2>1, <2>2
<1>10. CASE Head(toRx).kind = "frame" /\ ~rx.eaten
  <2>1. HandleCompletedFrame(f)
    BY <1>10 DEF Receive, f
  <2>2. f \in Open /\ f \in Frames /\ f.id \in 1 .. sends
    BY <1>2, <1>3, <1>10 DEF Open, OpenSound
  <2>3. CASE IsDuplicate(f)
    <3>1. rx' = [rx EXCEPT !.eaten = FALSE] /\ UNCHANGED taken
      BY <2>1, <2>3 DEF HandleCompletedFrame
    <3>2. /\ rx' \in Receivers /\ rx'.known = rx.known /\ rx'.last = rx.last /\ rx'.queue = rx.queue
          /\ rx.known /\ rx.last = Signature(f) /\ rx.last.seq = f.seq
          /\ rx'.eaten \in BOOLEAN /\ rx' = [rx EXCEPT !.eaten = rx'.eaten]
      <4>1. rx' \in Receivers /\ rx'.known = rx.known /\ rx'.last = rx.last /\ rx'.queue = rx.queue
        BY <1>5, <3>1 DEF Receivers
      <4>2. rx'.eaten = FALSE
        BY <1>5, <3>1 DEF Receivers
      <4>3. rx.known /\ rx.last = Signature(f) /\ Signature(f).seq = f.seq
        BY <2>3 DEF IsDuplicate, Signature
      <4> QED BY <3>1, <4>1, <4>2, <4>3
    <3>3. CASE UNCHANGED <<toTx, losses>>
      BY <1>7, <3>1, <3>2, <3>3
    <3>4. CASE Acknowledged(f)
      <4>1. /\ toTx' \in Seq([kind : {"ack"}, seq : 0 .. Numbers - 1]) /\ Len(toTx') <= InAir
            /\ losses' \in Nat /\ Acks' \subseteq Acks \cup {f.seq}
        BY <1>2, <2>2, <3>4, AckAppended
      <4>2. LoraTyped'
        BY <1>1, <1>2, <1>3, <3>1, <3>2, <4>1 DEF LoraTyped, Airs
      <4>3. TakenSound'
        BY <1>1, <1>2, <1>4, <3>1, <3>2, TakenFewer
      <4>4. NumbersSound => NumbersSound'
        <5>1. /\ resets' = resets /\ tx' = tx /\ sends' = sends /\ taken' = taken /\ confirmed' = confirmed
              /\ rx'.known = rx.known /\ rx'.last = rx.last /\ rx.known /\ rx.last.seq = f.seq
          BY <1>1, <3>1, <3>2
        <5>2. NumbersSound /\ resets.tx = 0 => f.seq < tx.next /\ \A g \in Open : g.seq = f.seq => g.id \in ToSet(taken)
          BY <2>2, <5>1 DEF NumbersSound
        <5> HIDE DEF Open, Acks
        <5> QED BY <1>4, <4>1, <5>1, <5>2 DEF NumbersSound
      <4> QED BY <1>2, <1>6, <4>2, <4>3, <4>4 DEF LoraInv
    <3> QED BY <2>1, <2>3, <3>3, <3>4 DEF HandleCompletedFrame
  <2>4. CASE ~IsDuplicate(f) /\ ~QueueRoom(rx.queue)
    <3>1. rx' = [rx EXCEPT !.eaten = FALSE] /\ UNCHANGED <<taken, toTx, losses>>
      BY <2>1, <2>4 DEF HandleCompletedFrame, Answered
    <3>2. rx'.eaten \in BOOLEAN /\ rx' = [rx EXCEPT !.eaten = rx'.eaten]
      BY <1>5, <3>1 DEF Receivers
    <3> QED BY <1>7, <3>1, <3>2
  <2>5. CASE ~IsDuplicate(f) /\ QueueRoom(rx.queue)
    <3>1. /\ rx' = [known |-> TRUE, last |-> Signature(f), queue |-> Append(rx.queue, f), eaten |-> FALSE]
          /\ taken' = Append(taken, f.id)
      BY <2>1, <2>5 DEF HandleCompletedFrame
    <3>2. /\ toTx' \in Seq([kind : {"ack"}, seq : 0 .. Numbers - 1]) /\ Len(toTx') <= InAir
          /\ losses' \in Nat /\ Acks' \subseteq Acks \cup {f.seq}
      <4>1. CASE UNCHANGED <<toTx, losses>>
        BY <1>2, <4>1 DEF LoraTyped, Acks
      <4>2. CASE Acknowledged(f)
        BY <1>2, <2>2, <4>2, AckAppended
      <4> QED BY <2>1, <4>1, <4>2 DEF HandleCompletedFrame
    <3>3. /\ rx' \in Receivers /\ Len(rx'.queue) <= QueueDepth
          /\ rx'.known /\ rx'.last = Signature(f) /\ rx'.last.seq = f.seq
      <4>1. rx.queue \in Seq(Frames) /\ Len(rx.queue) < QueueDepth
        BY <1>5, <2>5 DEF Receivers, QueueRoom
      <4>2. Append(rx.queue, f) \in Seq(Frames) /\ Len(Append(rx.queue, f)) <= QueueDepth
        BY <2>2, <4>1, LoraBounds
      <4>3. Signature(f) \in Signatures /\ Signature(f).seq = f.seq
        BY <2>2 DEF Signature, Signatures, Frames
      <4> QED BY <3>1, <4>2, <4>3 DEF Receivers
    <3>4. taken \in Seq(Nat) /\ taken \in Seq(1 .. sends) /\ taken' \in Seq(1 .. sends') /\ f.id \in Nat
      BY <1>1, <1>2, <2>2, <3>1 DEF LoraTyped
    <3>5. LoraTyped'
      BY <1>1, <1>2, <1>3, <3>2, <3>3, <3>4 DEF LoraTyped, Airs
    <3>6. /\ ToSet(taken') = ToSet(taken) \cup {f.id}
          /\ taken' # << >> /\ taken'[Len(taken')] = f.id
      BY <3>1, <3>4, TakenAppended
    <3>7. \A g \in Open' : g \in Frames /\ f.id <= g.id /\ (g.id = f.id => g = f)
      <4>1. \A g \in Open' : g \in Frames /\ (g.id = f.id => g = f)
        BY <1>2, <1>4, <2>2 DEF OpenSound
      <4>2. \A g \in Flying(toRx') : f.id <= g.id
        BY <1>3, <1>10
      <4>3. tx'.awaiting => f.id <= tx'.pending.id
        BY <1>1, <1>2, <2>2 DEF OpenSound
      <4> QED BY <4>1, <4>2, <4>3 DEF Open
    <3>8. TakenSound'
      <4> SUFFICES ASSUME resets'.rx = 0
                   PROVE  /\ InOrderOnce'
                          /\ rx'.known
                          /\ \A g \in Open' :
                                /\ g.id >= taken'[Len(taken')]
                                /\ g.id = taken'[Len(taken')] => rx'.last = Signature(g)
        BY DEF TakenSound
      <4>1. resets.rx = 0 /\ InOrderOnce
        BY <1>1, <1>2 DEF TakenSound
      <4>2. taken # << >> => taken[Len(taken)] < f.id
        <5>1. taken # << >> => taken[Len(taken)] \in Nat
          <6>1. taken # << >> => Len(taken) \in 1 .. Len(taken)
            BY <3>4
          <6> QED BY <3>4, <6>1, ElementOfSeq
        <5>2. taken # << >> => f.id >= taken[Len(taken)] /\ f.id # taken[Len(taken)]
          BY <1>2, <2>2, <2>5, <4>1 DEF TakenSound, IsDuplicate
        <5> QED BY <3>4, <5>1, <5>2
      <4>3. \A i, j \in DOMAIN taken : i < j => taken[i] < taken[j]
        BY <4>1 DEF InOrderOnce
      <4>4. \A i, j \in DOMAIN taken' : i < j => taken'[i] < taken'[j]
        BY <3>1, <3>4, <4>2, <4>3, TakenAppended
      <4>5. ASSUME NEW g \in Open'
            PROVE  g.id >= taken'[Len(taken')] /\ (g.id = taken'[Len(taken')] => rx'.last = Signature(g))
        BY <3>3, <3>4, <3>6, <3>7 DEF Frames
      <4> QED BY <3>3, <4>4, <4>5 DEF InOrderOnce
    <3>9. NumbersSound => NumbersSound'
      <4> SUFFICES ASSUME NumbersSound, resets'.tx = 0
                   PROVE  /\ tx'.next <= sends'
                          /\ \A g \in Open' : g.seq < tx'.next
                          /\ \A g, h \in Open' : g.seq = h.seq => g.id = h.id
                          /\ rx'.known => /\ rx'.last.seq < tx'.next
                                          /\ \A g \in Open' : g.seq = rx'.last.seq => g.id \in ToSet(taken')
                          /\ \A n \in Acks' : /\ n < tx'.next
                                             /\ \A g \in Open' : g.seq = n => g.id \in ToSet(taken')
                          /\ confirmed' \subseteq ToSet(taken')
        BY DEF NumbersSound
      <4>1. /\ tx' = tx /\ sends' = sends /\ confirmed' = confirmed
            /\ tx.next <= sends
            /\ \A g \in Open : g.seq < tx.next
            /\ \A g, h \in Open : g.seq = h.seq => g.id = h.id
            /\ \A n \in Acks : /\ n < tx.next
                               /\ \A g \in Open : g.seq = n => g.id \in ToSet(taken)
            /\ confirmed \subseteq ToSet(taken)
        BY <1>1 DEF NumbersSound
      <4> HIDE DEF Open, Acks
      <4>2. \A g \in Open' : g.seq = f.seq => g.id \in ToSet(taken')
        BY <1>4, <2>2, <3>6, <4>1
      <4>3. f.seq < tx.next
        BY <2>2, <4>1
      <4>4. \A n \in Acks' : /\ n < tx'.next
                           /\ \A g \in Open' : g.seq = n => g.id \in ToSet(taken')
        BY <1>4, <3>2, <3>6, <4>1, <4>2, <4>3
      <4> QED BY <1>4, <3>3, <3>6, <4>1, <4>2, <4>3, <4>4
    <3> QED BY <1>2, <1>6, <3>5, <3>8, <3>9 DEF LoraInv
  <2> QED BY <2>3, <2>4, <2>5
<1> QED BY <1>3, <1>8, <1>9, <1>10 DEF Airs

LEMMA ReadFrameStep ==
    ASSUME LoraConstants, LoraInv, ReadFrame PROVE LoraInv'
<1>1. /\ rx.queue # << >> /\ rx' = [rx EXCEPT !.queue = Tail(@)]
      /\ UNCHANGED <<tx, toRx, toTx, taken, confirmed, sends, losses, resets>>
  BY DEF ReadFrame
<1>2. rx \in Receivers /\ Len(rx.queue) <= QueueDepth
  BY DEF LoraInv, LoraTyped
<1>3. rx.queue \in Seq(Frames) /\ QueueDepth \in Nat
  BY <1>2, LoraBounds DEF Receivers
<1>4. Tail(rx.queue) \in Seq(Frames) /\ Len(Tail(rx.queue)) <= QueueDepth
  BY <1>1, <1>2, <1>3
<1>5. /\ rx' \in Receivers /\ Len(rx'.queue) <= QueueDepth /\ rx'.known = rx.known /\ rx'.last = rx.last
  BY <1>1, <1>2, <1>4 DEF Receivers
<1>6. LoraTyped'
  BY <1>1, <1>5 DEF LoraInv, LoraTyped
<1>7. Open' = Open /\ Acks' = Acks /\ Ordered(toRx)' /\ sends' >= sends
  BY <1>1 DEF Open, Acks, LoraInv, OpenSound, LoraTyped
<1>8. OpenSound'
  BY <1>1, <1>6, <1>7, OpenFewer DEF LoraInv, OpenSound
<1>9. TakenSound'
  BY <1>1, <1>5, <1>7, TakenFewer DEF LoraInv
<1>10. NumbersSound => NumbersSound'
  BY <1>1, <1>5, <1>6, <1>7, NumbersFewer DEF LoraInv, NumbersSound
<1> QED BY <1>6, <1>8, <1>9, <1>10 DEF LoraInv

LEMMA LoseStep ==
    ASSUME LoraConstants, LoraInv, Lose PROVE LoraInv'
<1>1. /\ losses' = losses + 1 /\ UNCHANGED <<tx, rx, taken, confirmed, sends, resets>>
      /\ \/ toRx # << >> /\ toRx' = Tail(toRx) /\ toTx' = toTx
         \/ toTx # << >> /\ toTx' = Tail(toTx) /\ toRx' = toRx
  BY DEF Lose
<1>2. LoraTyped /\ OpenSound /\ TakenSound /\ (MaxSends < Numbers => NumbersSound)
  BY DEF LoraInv
<1>3. /\ toRx \in Seq(Airs) /\ Len(toRx) <= InAir /\ Len(toTx) <= InAir /\ losses' \in Nat /\ Ordered(toRx)
      /\ toTx \in Seq([kind : {"ack"}, seq : 0 .. Numbers - 1]) /\ InAir \in Nat /\ sends' >= sends
  BY <1>1, <1>2, LoraBounds DEF LoraTyped, Airs, OpenSound
<1>4. /\ toRx' \in Seq(Airs) /\ Len(toRx') <= InAir /\ Ordered(toRx)' /\ Flying(toRx') \subseteq Flying(toRx)
      /\ toTx' \in Seq([kind : {"ack"}, seq : 0 .. Numbers - 1]) /\ Len(toTx') <= InAir /\ Acks' \subseteq Acks
  <2>1. CASE toRx # << >> /\ toRx' = Tail(toRx) /\ toTx' = toTx
    <3>1. /\ toRx' \in Seq(Airs) /\ Len(toRx') = Len(toRx) - 1 /\ Ordered(toRx')
          /\ Flying(toRx') \subseteq Flying(toRx)
      BY <1>3, <2>1, FlyingTail
    <3>2. Len(toRx') <= InAir
      BY <1>3, <3>1
    <3>3. Acks' = Acks
      BY <2>1 DEF Acks
    <3> QED BY <1>3, <2>1, <3>1, <3>2, <3>3
  <2>2. CASE toTx # << >> /\ toTx' = Tail(toTx) /\ toRx' = toRx
    <3>1. /\ toTx' \in Seq([kind : {"ack"}, seq : 0 .. Numbers - 1]) /\ Len(toTx') <= Len(toTx)
          /\ Acks' \subseteq Acks
      BY <1>2, <2>2, AcksTail
    <3>2. Len(toTx') <= InAir
      BY <1>3, <3>1
    <3> QED BY <1>3, <2>2, <3>1, <3>2
  <2> QED BY <1>1, <2>1, <2>2
<1>5. LoraTyped'
  BY <1>1, <1>2, <1>3, <1>4 DEF LoraTyped, Airs
<1>6. Open' \subseteq Open
  BY <1>1, <1>4 DEF Open
<1>7. OpenSound'
  BY <1>1, <1>2, <1>3, <1>4, <1>5, <1>6, OpenFewer DEF OpenSound
<1>8. TakenSound'
  BY <1>1, <1>2, <1>6, TakenFewer
<1>9. NumbersSound => NumbersSound'
  BY <1>1, <1>2, <1>3, <1>4, <1>5, <1>6, NumbersFewer DEF NumbersSound
<1> QED BY <1>2, <1>5, <1>7, <1>8, <1>9 DEF LoraInv

LEMMA FreshTyped ==
    ASSUME LoraConstants
    PROVE  /\ Fresh \in Senders /\ ~Fresh.awaiting /\ Fresh.pending = NoFrame
           /\ Listening \in Receivers /\ Len(Listening.queue) <= QueueDepth /\ ~Listening.known
           /\ << >> \in Seq(Airs) /\ Len(<< >>) <= InAir
           /\ << >> \in Seq([kind : {"ack"}, seq : 0 .. Numbers - 1])
           /\ Listening.last.seq = 0
<1>1. 0 \in 0 .. Numbers - 1 /\ 0 \in 0 .. MaxRetries /\ 0 \in 0 .. AckTimeout /\ NoFrame \in Frames
  BY LoraBounds
<1>2. Signature(NoFrame) \in Signatures /\ Signature(NoFrame).seq = 0
  BY <1>1 DEF Signature, Signatures, NoFrame
<1>3. << >> \in Seq(Frames) /\ << >> \in Seq(Airs) /\ Len(<< >>) = 0
  OBVIOUS
<1> QED BY <1>1, <1>2, <1>3, LoraBounds DEF Fresh, Listening, Senders, Receivers

LEMMA ResetStep ==
    ASSUME LoraConstants, LoraInv, Reset PROVE LoraInv'
<1>1. /\ UNCHANGED <<taken, confirmed, sends, losses>>
      /\ \/ /\ tx' = Fresh /\ toTx' \in {toTx, << >>}
            /\ resets' = [resets EXCEPT !.tx = @ + 1] /\ rx' = rx /\ toRx' = toRx
         \/ /\ rx' = Listening /\ toRx' \in {toRx, << >>}
            /\ resets' = [resets EXCEPT !.rx = @ + 1] /\ tx' = tx /\ toTx' = toTx
  BY DEF Reset
<1>2. LoraTyped /\ OpenSound /\ TakenSound /\ (MaxSends < Numbers => NumbersSound)
  BY DEF LoraInv
<1>3. /\ toRx \in Seq(Airs) /\ Len(toRx) <= InAir /\ Len(toTx) <= InAir /\ Ordered(toRx)
      /\ toTx \in Seq([kind : {"ack"}, seq : 0 .. Numbers - 1]) /\ sends' >= sends
      /\ resets \in [tx : Nat, rx : Nat]
  BY <1>1, <1>2 DEF LoraTyped, Airs, OpenSound
<1>4. CASE /\ tx' = Fresh /\ toTx' \in {toTx, << >>}
           /\ resets' = [resets EXCEPT !.tx = @ + 1] /\ rx' = rx /\ toRx' = toRx
  <2>1. resets' \in [tx : Nat, rx : Nat] /\ resets'.rx = resets.rx /\ resets'.tx # 0
    BY <1>3, <1>4
  <2>2. toTx' \in Seq([kind : {"ack"}, seq : 0 .. Numbers - 1]) /\ Len(toTx') <= InAir
    BY <1>3, <1>4, FreshTyped
  <2>3. LoraTyped'
    BY <1>1, <1>2, <1>3, <1>4, <2>1, <2>2, FreshTyped DEF LoraTyped
  <2>4. Open' \subseteq Open
    BY <1>4, FreshTyped DEF Open
  <2>5. OpenSound'
    BY <1>1, <1>2, <1>3, <1>4, <2>3, <2>4, FreshTyped, OpenFewer
  <2>6. TakenSound'
    BY <1>1, <1>2, <1>4, <2>1, <2>4, TakenFewer
  <2>7. NumbersSound'
    BY <2>1 DEF NumbersSound
  <2> QED BY <2>3, <2>5, <2>6, <2>7 DEF LoraInv
<1>5. CASE /\ rx' = Listening /\ toRx' \in {toRx, << >>}
           /\ resets' = [resets EXCEPT !.rx = @ + 1] /\ tx' = tx /\ toTx' = toTx
  <2>1. resets' \in [tx : Nat, rx : Nat] /\ resets'.tx = resets.tx /\ resets'.rx # 0
    BY <1>3, <1>5
  <2>2. /\ toRx' \in Seq(Airs) /\ Len(toRx') <= InAir /\ Ordered(toRx)' /\ Flying(toRx') \subseteq Flying(toRx)
    BY <1>3, <1>5, FreshTyped, FlyingNone
  <2>3. LoraTyped'
    BY <1>1, <1>2, <1>3, <1>5, <2>1, <2>2, FreshTyped DEF LoraTyped, Airs
  <2>4. Open' \subseteq Open
    BY <1>5, <2>2 DEF Open
  <2>5. OpenSound'
    BY <1>1, <1>2, <1>3, <1>5, <2>2, <2>3, <2>4, OpenFewer DEF OpenSound
  <2>6. TakenSound'
    BY <2>1 DEF TakenSound
  <2>7. Acks' = Acks /\ ~rx'.known
    BY <1>5, FreshTyped DEF Acks
  <2>8. NumbersSound => NumbersSound'
    BY <1>1, <1>2, <1>3, <1>5, <2>1, <2>3, <2>4, <2>7, NumbersFewer DEF NumbersSound
  <2> QED BY <1>2, <2>3, <2>5, <2>6, <2>8 DEF LoraInv
<1> QED BY <1>1, <1>4, <1>5

LEMMA LoraStarts ==
    ASSUME LoraConstants, LoraInit PROVE LoraInv
<1>1. /\ tx = Fresh /\ rx = Listening /\ toRx = << >> /\ toTx = << >> /\ taken = << >> /\ confirmed = {}
      /\ sends = 0 /\ losses = 0 /\ resets = [tx |-> 0, rx |-> 0]
  BY DEF LoraInit
<1>2. taken \in Seq(1 .. sends) /\ sends \in 0 .. MaxSends
  BY <1>1, LoraBounds
<1>3. LoraTyped
  BY <1>1, <1>2, FreshTyped DEF LoraTyped, Airs
<1>4. Open = {} /\ Acks = {} /\ Ordered(toRx)
  BY <1>1, FreshTyped, FlyingNone DEF Open, Acks
<1>5. OpenSound
  BY <1>1, <1>4, FreshTyped DEF OpenSound
<1>6. TakenSound
  BY <1>1 DEF TakenSound, InOrderOnce
<1>7. NumbersSound
  BY <1>1, <1>4, FreshTyped DEF NumbersSound, Fresh
<1> QED BY <1>3, <1>5, <1>6, <1>7 DEF LoraInv

LEMMA LoraStep ==
    ASSUME LoraConstants, LoraInv, [LoraNext]_loraVars PROVE LoraInv'
<1>1. CASE UNCHANGED loraVars
  BY <1>1 DEF loraVars, LoraInv, LoraTyped, OpenSound, TakenSound, NumbersSound, InOrderOnce, Open, Acks
<1>2. ASSUME NEW data \in Payloads, NEW ack \in BOOLEAN, Send(data, ack) PROVE LoraInv'
  BY <1>2, SendStep
<1>3. CASE Receive
  BY <1>3, ReceiveStep
<1>4. CASE ReceiveAck
  BY <1>4, ReceiveAckStep
<1>5. CASE Timeout
  BY <1>5, TimeoutStep
<1>6. CASE Elapsing
  BY <1>6, ElapsingStep
<1>7. CASE ReadFrame
  BY <1>7, ReadFrameStep
<1>8. CASE Lose
  BY <1>8, LoseStep
<1>9. CASE Reset
  BY <1>9, ResetStep
<1> QED BY <1>1, <1>2, <1>3, <1>4, <1>5, <1>6, <1>7, <1>8, <1>9 DEF LoraNext, Serving

LEMMA LoraInvariant == ASSUME LoraConstants PROVE LoraSpec => []LoraInv
<1>1. LoraInit => LoraInv
  BY LoraStarts
<1>2. LoraInv /\ [LoraNext]_loraVars => LoraInv'
  BY LoraStep
<1> QED BY <1>1, <1>2, PTL DEF LoraSpec

LEMMA InvTypes == ASSUME LoraConstants, LoraInv PROVE LoraTypeOK
<1>1. LoraTyped /\ tx \in Senders /\ rx \in Receivers
  BY DEF LoraInv, LoraTyped
<1>2. rx.known \in BOOLEAN /\ rx.eaten \in BOOLEAN /\ rx.queue \in Seq(Frames)
  BY <1>1 DEF Receivers
<1>3. \A i \in DOMAIN rx.queue : rx.queue[i] \in Frames
  BY <1>2
<1>4. tx.awaiting <=> tx.pending # NoFrame
  <2>1. tx.awaiting \in BOOLEAN
    BY <1>1 DEF Senders
  <2>2. tx.awaiting => tx.pending.id \in 1 .. sends
    BY DEF LoraInv, OpenSound, Open
  <2>3. NoFrame.id = 0
    BY DEF NoFrame
  <2> QED BY <2>1, <2>2, <2>3 DEF LoraInv, OpenSound
<1>5. confirmed \subseteq 1 .. MaxSends /\ sends \in 0 .. MaxSends /\ MaxSends \in Nat
  BY <1>1, LoraBounds DEF LoraTyped
<1>6. ToSet(taken) \subseteq 1 .. MaxSends
  <2>1. taken \in Seq(1 .. sends) /\ DOMAIN taken = 1 .. Len(taken)
    BY <1>1 DEF LoraTyped
  <2>2. \A i \in DOMAIN taken : taken[i] \in 1 .. sends
    BY <2>1, ElementOfSeq
  <2> QED BY <1>5, <2>2 DEF ToSet
<1> QED BY <1>1, <1>2, <1>3, <1>4, <1>5, <1>6 DEF LoraTyped, LoraTypeOK, Senders

(* The sender awaits an acknowledgment exactly while it keeps a frame, and queue,    *)
(* retries and bytes under way stay in their bounds (lora_protocol.cpp).              *)
THEOREM LoraTypes == ASSUME LoraConstants PROVE LoraSpec => []LoraTypeOK
<1>1. LoraInv => LoraTypeOK
  BY InvTypes
<1> QED BY <1>1, LoraInvariant, PTL

(* Whatever is lost, cut or sent again, and however often the numbers wrap, a        *)
(* receiver that is not reset takes no frame twice and none out of order             *)
(* (IsDuplicate, HandleCompletedFrame).                                               *)
THEOREM TakenInOrder == ASSUME LoraConstants PROVE LoraSpec => []InOrderOnce
<1>1. LoraInv => InOrderOnce
  BY DEF LoraInv, TakenSound, InOrderOnce
<1> QED BY <1>1, LoraInvariant, PTL

(* As long as the numbers have not wrapped, a frame reported acknowledged was also   *)
(* taken: the queue held it, and no other frame's acknowledgment was taken for its   *)
(* own (HandleCompletedFrame). Once they wrap, a late acknowledgment of the frame     *)
(* that had the number before would be enough.                                        *)
THEOREM LoraDelivers ==
    ASSUME LoraConstants, MaxSends < Numbers PROVE LoraSpec => []DeliveredOnce
<1>1. LoraInv => DeliveredOnce
  BY DEF LoraInv, TakenSound, NumbersSound, InOrderOnce, ConfirmedIsTaken, DeliveredOnce
<1> QED BY <1>1, LoraInvariant, PTL

(* What the array says of the line is true: its frames are settled samples of one      *)
(* scan taken after the last failure, its positions are not older than the bridging    *)
(* allows and lie between two surfaces that differ (grayscale.cpp,                     *)
(* grayscale_processing.cpp, app_grayscale.cpp).                                       *)
THEOREM ArrayIsTrue ==
    ASSUME ScanConstants, LineConstants PROVE ScanSpec /\ LineSpec => []ArrayTrue
<1>1. ScanInv => FrameTrue /\ FrameCoherent
  BY DEF ScanInv
<1>2. FrameTrue /\ FrameCoherent /\ WeakBounded /\ CalibrationSpan => ArrayTrue
  BY DEF ArrayTrue
<1> QED BY <1>1, <1>2, ScanInvariant, PositionsAreTrue, PTL

(* A behaviour of all the services keeps the types and bounds of every one of them.      *)
THEOREM ServicesTypes == ASSUME ServicesConstants PROVE ServicesSpec => []ServicesTypeOK
<1>1. /\ StoreConstants /\ TableConstants /\ SchedConstants /\ LoraConstants /\ RunnerConstants
      /\ ImuConstants /\ ScanConstants /\ LineConstants /\ DisplayConstants
      /\ TxConstants /\ InputConstants
  BY DEF ServicesConstants
<1>2. (Spec => []TypeOK) /\ (RunnerSpec => []RunnerTypeOK) /\ (ImuSpec => []ImuTypeOK)
  BY <1>1, StoreTypeCorrect, RunnerTypes, ImuTypes
<1>3. TableSpec => []TableInv
  BY <1>1, TableInvariant
<1>4. TableInv => TableTypeOK
  BY DEF TableInv, TableTypeOK, KeptProgram
<1>5. (SchedSpec => []SchedTypeOK) /\ (LoraSpec => []LoraTypeOK) /\ (ScanSpec => []ScanTypeOK)
      /\ (LineSpec => []LineTypeOK)
  BY <1>1, SchedTypes, LoraTypes, ScanTypes, LineTypes
<1>6. (DisplaySpec => []DisplayTypeOK) /\ (TxSpec => []TxTypeOK) /\ (InputSpec => []InputTypeOK)
  BY <1>1, DisplayTypes, TxTypes, InputIsBounded
<1> QED BY <1>2, <1>3, <1>4, <1>5, <1>6, PTL DEF ServicesSpec, ServicesTypeOK

(* The console sends what it was given and runs what was typed, and at most one monitor   *)
(* has the display (debug_uart.cpp, shell.cpp, AppShell_DisableOledStreams).              *)
THEOREM ConsoleIsTrue ==
    ASSUME TxConstants, InputConstants, DisplayConstants
    PROVE  TxSpec /\ InputSpec /\ DisplaySpec => []ConsoleTrue
BY SentIsInOrder, TypedLinesAreRun, MonitorsYield, PTL DEF ConsoleTrue
=================================================================================
