------------------------- MODULE MotorDriverProofs -------------------------
(* Theorems about the MotorDriver board, for every set of host writes,     *)
(* every queue length, timeout and duration of a pass: its types, its      *)
(* safety properties, and that it keeps the promise of DeadManSwitch.      *)
EXTENDS MotorDriver, TLAPS, SequenceTheorems

(* Forcing the motors to coast yields a legal register file (ClearMotor-   *)
(* Motion writes MOTOR_MODE_COAST and zeros, which are always in range).   *)
LEMMA CoastedLegal ==
    ASSUME IsRegisterFile(regs)
    PROVE  IsRegisterFile(Coasted)
<1>1. \A r \in Registers : Legal(r, Coasted[r])
  BY ConstantsAssumption
     DEF IsRegisterFile, Coasted, ClearMotorMotion, Legal, Registers, ModeRegs,
         DutyRegs, RpmRegs, Modes, Mode, Duty, Rpm, Motors
<1>2. Coasted = [r \in Registers |-> Coasted[r]]
  BY DEF Coasted, ClearMotorMotion
<1> QED BY <1>1, <1>2 DEF IsRegisterFile

(* A write whose every register is in range leaves a legal register file.  *)
LEMMA CommitLegal ==
    ASSUME IsRegisterFile(regs), NEW w, Acceptable(w)
    PROVE  IsRegisterFile(Commit(w))
<1> DEFINE f == ApplyWriteTo(regs, w)
<1>1. \A r \in Registers : Legal(r, f[r])
  BY DEF f, ApplyWriteTo, IsRegisterFile, Acceptable, Legal, Registers,
         ModeRegs, DutyRegs, RpmRegs
<1>2. f = [r \in Registers |-> f[r]]
  BY DEF f, ApplyWriteTo
<1> HIDE DEF f
<1>3. ASSUME NEW r \in Registers PROVE Legal(r, ClearMotorMotion(f)[r])
  BY <1>1, <1>3, ConstantsAssumption
     DEF ClearMotorMotion, Legal, Registers, ModeRegs,
         DutyRegs, RpmRegs, Modes, Mode, Duty, Rpm, Motors
<1>4. ASSUME NEW r \in Registers PROVE Legal(r, NormalizeControlState(f, w)[r])
  <2>1. CASE Disables(w)
    BY <1>3, <2>1 DEF NormalizeControlState
  <2>2. CASE ~Disables(w) /\ NormalizeControlState(f, w)[r] = f[r]
    BY <1>1, <2>2
  <2>3. CASE ~Disables(w) /\ NormalizeControlState(f, w)[r] # f[r]
    <3>1. r \in DutyRegs \cup RpmRegs /\ NormalizeControlState(f, w)[r] = 0
      BY <2>3 DEF NormalizeControlState, Motors, Duty, Rpm, DutyRegs, RpmRegs
    <3> QED BY <3>1, ConstantsAssumption DEF Legal, DutyRegs, RpmRegs
  <2> QED BY <2>1, <2>2, <2>3
<1>5. NormalizeControlState(f, w)
        = [r \in Registers |-> NormalizeControlState(f, w)[r]]
  BY DEF NormalizeControlState, ClearMotorMotion
<1> QED BY <1>4, <1>5 DEF f, Commit, IsRegisterFile
-----------------------------------------------------------------------------
(* An active command needs a moving mode, the enable bit and no timeout;   *)
(* a driven bridge needs the same (the gate of MotorControl_Apply is no    *)
(* wider than RegisterMap::HasActiveCommand).                              *)
LEMMA RunNeedsCommand ==
    ASSUME NEW f, IsRegisterFile(f), NEW d, NEW to, NEW m \in Motors,
           BridgeFor(f, d, to, m) = "run"
    PROVE  HasActiveCommand(f, to) /\ f[Mode(m)] \in {"RUN", "SPEED", "POSITION"}
<1>1. Legal(Mode(m), f[Mode(m)]) /\ Legal(Duty(m), f[Duty(m)])
  BY DEF IsRegisterFile, Registers, ModeRegs, DutyRegs, Mode, Duty, Motors
<1>2. /\ f[Mode(m)] \in {"RUN", "SPEED", "POSITION"} /\ Enabled(f) /\ ~to
      /\ f[Mode(m)] = "RUN" => f[Duty(m)] # 0
  BY <1>1 DEF BridgeFor, Legal, Modes, LoopModes, ModeRegs, DutyRegs, RpmRegs,
              Mode, Motors
<1>3. f[Duty(m)] \in Nat
  BY <1>1, ConstantsAssumption DEF Legal, ModeRegs, DutyRegs, RpmRegs, Duty, Motors
<1>4. MotorActive(f, m)
  BY <1>2, <1>3 DEF MotorActive, LoopModes
<1> QED BY <1>2, <1>4 DEF HasActiveCommand

(* A committed write renews or releases the lease and keeps every other    *)
(* part of the invariant (RefreshWatchdogLeaseFromWrite).                  *)
LEMMA CommitKeepsInductive ==
    ASSUME Inductive, NEW w, Acceptable(w), CommitWrite(w),
           queue' \in Seq(Writes), Len(queue') <= QueueLength,
           UNCHANGED <<ctlDuty, bridge, pc, passTicks>>
    PROVE  Inductive'
<1>1. IsRegisterFile(regs')
  BY CommitLegal DEF Inductive, TypeOK, CommitWrite
<1>2. regs'["WATCHDOG_TIMEOUT"] \in Nat
  BY <1>1, ConstantsAssumption
     DEF IsRegisterFile, Legal, Registers, ModeRegs, DutyRegs, RpmRegs
<1>3. TypeOK'
  <2>1. status' \in [enabled : BOOLEAN, active : BOOLEAN, timeout : BOOLEAN]
    <3>1. Enabled(regs') \in BOOLEAN
      BY <1>1 DEF IsRegisterFile, Legal, Registers, ModeRegs, DutyRegs, RpmRegs, Enabled
    <3> QED BY <3>1 DEF CommitWrite, StatusOf, HasActiveCommand
  <2>2. granted' \in [Motors -> BOOLEAN]
    <3>1. \A m \in Motors :
             /\ (regs'[Mode(m)] \in {"RUN", "SPEED", "POSITION"}) \in BOOLEAN
             /\ (granted[m] /\ ~Disables(w)) \in BOOLEAN
      OBVIOUS
    <3>2. \A m \in Motors :
             (IF Mode(m) \in DOMAIN w
              THEN regs'[Mode(m)] \in {"RUN", "SPEED", "POSITION"}
              ELSE granted[m] /\ ~Disables(w)) \in BOOLEAN
      BY <3>1
    <3> QED BY <3>2 DEF CommitWrite
  <2>3. armed' \in BOOLEAN
    BY DEF CommitWrite, HasActiveCommand
  <2>4. elapsed' \in 0..Horizon /\ silence' \in 0..Horizon
    <3>1. 0 \in 0..Horizon
      BY ConstantsAssumption
    <3>2. (elapsed' = 0 \/ elapsed' = elapsed) /\ silence' = 0
      BY Zenon DEF CommitWrite
    <3> QED BY <3>1, <3>2 DEF Inductive, TypeOK
  <2>5. dirty' \in BOOLEAN /\ regTimeout' \in BOOLEAN /\ timeoutActive' \in BOOLEAN
    BY DEF CommitWrite
  <2>6. /\ ctlDuty' \in [Motors -> Duties]
        /\ bridge' \in [Motors -> {"coast", "brake", "run"}]
        /\ pc' \in Steps /\ passTicks' \in 0..MaxPass
    BY DEF Inductive, TypeOK
  <2> QED BY <1>1, <2>1, <2>2, <2>3, <2>4, <2>5, <2>6 DEF TypeOK
<1>4. MirrorsAgree'
  BY DEF CommitWrite, MirrorsAgree
<1>5. LeaseArmed'
  BY DEF CommitWrite, LeaseArmed, Active
<1>6. LeaseAge' /\ BridgeAge'
  BY <1>2, <1>3, ConstantsAssumption
     DEF CommitWrite, LeaseAge, BridgeAge, TypeOK
<1>7. OutputsCurrent'
  BY DEF CommitWrite, OutputsCurrent
<1>8. ModesGranted'
  <2> SUFFICES ASSUME NEW m \in Motors,
                      regs'[Mode(m)] \in {"RUN", "SPEED", "POSITION"}
               PROVE  granted'[m]
    BY DEF ModesGranted
  <2>1. Mode(m) \in ModeRegs /\ Mode(m) \in Registers
        /\ Mode(m) \notin DutyRegs /\ Mode(m) \notin RpmRegs /\ Mode(m) # "FAULT"
    BY DEF Mode, ModeRegs, DutyRegs, RpmRegs, Registers, Motors
  <2>2. ~Disables(w)
    BY <2>1 DEF CommitWrite, Commit, NormalizeControlState, ClearMotorMotion
  <2>3. CASE Mode(m) \in DOMAIN w
    BY <2>3 DEF CommitWrite
  <2>4. CASE Mode(m) \notin DOMAIN w
    <3>1. regs'[Mode(m)] = regs[Mode(m)]
      BY <2>1, <2>2, <2>4
         DEF CommitWrite, Commit, NormalizeControlState, ApplyWriteTo,
             Motors, Mode, Duty, Rpm
    <3>2. granted[m]
      BY <3>1 DEF Inductive, ModesGranted
    <3> QED BY <2>2, <2>4, <3>2 DEF CommitWrite
  <2> QED BY <2>3, <2>4
<1> QED BY <1>3, <1>4, <1>5, <1>6, <1>7, <1>8 DEF Inductive

(* Forcing the motors to coast, by the watchdog or by bus recovery, keeps  *)
(* the invariant (RegisterMap::ForceCoastOnTimeout).                       *)
LEMMA CoastKeepsInductive ==
    ASSUME Inductive, ForceCoast, pc' = "watchdog" \/ pc' = "control",
           queue' \in Seq(Writes), Len(queue') <= QueueLength,
           UNCHANGED <<elapsed, ctlDuty, bridge, passTicks, silence>>
    PROVE  Inductive'
<1>1. IsRegisterFile(regs')
  BY CoastedLegal DEF Inductive, TypeOK, ForceCoast
<1>2. ~Active'
  BY DEF ForceCoast, Active, HasActiveCommand
<1>3. TypeOK'
  <2>1. status' \in [enabled : BOOLEAN, active : BOOLEAN, timeout : BOOLEAN]
    <3>1. Enabled(Coasted) \in BOOLEAN
      BY <1>1 DEF IsRegisterFile, Legal, Registers, ModeRegs, DutyRegs, RpmRegs,
                  Enabled, ForceCoast
    <3> QED BY <3>1 DEF ForceCoast, StatusOf, HasActiveCommand
  <2> QED BY <1>1, <2>1 DEF Inductive, TypeOK, ForceCoast, Steps
<1>4. MirrorsAgree'
  BY DEF ForceCoast, MirrorsAgree
<1>5. LeaseArmed' /\ LeaseAge'
  BY <1>2 DEF LeaseArmed, LeaseAge
<1>6. BridgeAge'
  <2>1. regs'["WATCHDOG_TIMEOUT"] = regs["WATCHDOG_TIMEOUT"]
    BY DEF ForceCoast, Coasted, ClearMotorMotion, Registers, ModeRegs,
           DutyRegs, RpmRegs
  <2> QED BY <2>1 DEF Inductive, BridgeAge
<1>7. OutputsCurrent'
  BY DEF ForceCoast, OutputsCurrent
<1>8. ModesGranted'
  BY DEF ForceCoast, ModesGranted, Coasted, ClearMotorMotion, Motors, Mode,
         ModeRegs, Registers
<1> QED BY <1>3, <1>4, <1>5, <1>6, <1>7, <1>8 DEF Inductive
-----------------------------------------------------------------------------
(* The bound on the lease after one more tick.                             *)
LEMMA TickKeepsInductive ==
    ASSUME Inductive, Tick
    PROVE  Inductive'
<1>1. /\ silence' \in 0..Horizon /\ elapsed' \in 0..Horizon
      /\ silence' <= silence + 1
      /\ (elapsed = silence => elapsed' = silence')
      /\ passTicks' = passTicks + 1 /\ passTicks' \in 0..MaxPass
  BY ConstantsAssumption DEF Inductive, TypeOK, Tick, Saturate
<1>2. regs["WATCHDOG_TIMEOUT"] \in Nat
  BY ConstantsAssumption
     DEF Inductive, TypeOK, IsRegisterFile, Legal, Registers, ModeRegs,
         DutyRegs, RpmRegs
<1>3. TypeOK'
  BY <1>1 DEF Inductive, TypeOK, Tick
<1>4. MirrorsAgree' /\ OutputsCurrent' /\ ModesGranted'
  BY DEF Inductive, Tick, MirrorsAgree, OutputsCurrent, ModesGranted
<1>5. LeaseArmed'
  BY <1>1 DEF Inductive, Tick, LeaseArmed, Active
<1>6. /\ (Active <=> Active') /\ regs' = regs /\ pc' = pc /\ bridge' = bridge
      /\ silence \in Nat /\ passTicks \in Nat /\ MaxPass \in Nat
  BY ConstantsAssumption DEF Tick, Active, Inductive, TypeOK
<1>7. LeaseAge'
  BY <1>1, <1>2, <1>6 DEF Inductive, LeaseAge
<1>8. BridgeAge'
  BY <1>1, <1>2, <1>6 DEF Inductive, BridgeAge
<1> QED BY <1>3, <1>4, <1>5, <1>7, <1>8 DEF Inductive

(* The watchdog check: whatever command survives it is young enough.       *)
LEMMA CheckKeepsInductive ==
    ASSUME Inductive, CheckWatchdog
    PROVE  Inductive'
<1>1. CASE ForceCoast /\ UNCHANGED elapsed
  BY <1>1, CoastKeepsInductive DEF CheckWatchdog, Inductive, TypeOK
<1>2. CASE ~(ForceCoast /\ UNCHANGED elapsed)
  <2>1. /\ UNCHANGED <<regs, status, regTimeout, timeoutActive, dirty, granted,
                        ctlDuty, queue, bridge, passTicks, silence>>
        /\ pc = "watchdog" /\ pc' = "control"
    BY <1>2 DEF CheckWatchdog
  <2>2. CASE regs["WATCHDOG_TIMEOUT"] = 0 \/ ~Active
    <3>1. armed' = FALSE /\ UNCHANGED elapsed
      BY <1>2, <2>2 DEF CheckWatchdog, Active
    <3>2. TypeOK' /\ MirrorsAgree' /\ BridgeAge' /\ OutputsCurrent' /\ ModesGranted'
      BY <2>1, <3>1 DEF Inductive, TypeOK, MirrorsAgree, BridgeAge, OutputsCurrent,
                        ModesGranted, Steps
    <3>3. LeaseArmed' /\ LeaseAge'
      BY <2>1, <2>2 DEF LeaseArmed, LeaseAge, Active
    <3> QED BY <3>2, <3>3 DEF Inductive
  <2>3. CASE Active /\ regs["WATCHDOG_TIMEOUT"] # 0
    <3>1. regs["WATCHDOG_TIMEOUT"] \in Nat \ {0}
      BY <2>3, ConstantsAssumption
         DEF Inductive, TypeOK, IsRegisterFile, Legal, Registers, ModeRegs,
             DutyRegs, RpmRegs
    <3>2. armed /\ elapsed = silence /\ ~timeoutActive
      BY <2>3, <3>1
         DEF Inductive, LeaseArmed, MirrorsAgree, Active, HasActiveCommand
    <3>3. ~Expired /\ UNCHANGED <<armed, elapsed>>
      BY <1>2, <2>3, <3>2 DEF CheckWatchdog, Active
    <3>4. silence <= regs["WATCHDOG_TIMEOUT"]
      BY <3>1, <3>2, <3>3 DEF Expired, Inductive, TypeOK
    <3>5. TypeOK' /\ MirrorsAgree' /\ BridgeAge' /\ OutputsCurrent' /\ ModesGranted'
      BY <2>1, <3>3 DEF Inductive, TypeOK, MirrorsAgree, BridgeAge, OutputsCurrent,
                        ModesGranted, Steps
    <3>6. LeaseArmed'
      BY <2>1, <3>2, <3>3 DEF LeaseArmed
    <3>7. LeaseAge'
      BY <2>1, <3>1, <3>4 DEF LeaseAge, Active, Inductive, TypeOK
    <3> QED BY <3>5, <3>6, <3>7 DEF Inductive
  <2> QED BY <2>2, <2>3
<1> QED BY <1>1, <1>2

(* The registers stay legal whatever duty and speed the loops choose.      *)
LEMMA LoopRegsLegal ==
    ASSUME IsRegisterFile(regs), NEW M \in SUBSET Motors,
           NEW d \in [Motors -> Duties], NEW v \in [Motors -> Rpms]
    PROVE  /\ IsRegisterFile(LoopRegs(M, d, v))
           /\ \A r \in Registers \ (DutyRegs \cup RpmRegs) :
                 LoopRegs(M, d, v)[r] = regs[r]
           /\ \A m \in Motors : regs[Mode(m)] \notin LoopModes /\ m \notin M =>
                 LoopRegs(M, d, v)[Duty(m)] = regs[Duty(m)]
<1> DEFINE f == LoopRegs(M, d, v)
<1>1. ASSUME NEW r \in Registers PROVE Legal(r, f[r])
  <2>1. CASE f[r] = regs[r]
    BY <2>1 DEF IsRegisterFile
  <2>2. CASE r \in DutyRegs /\ f[r] # regs[r]
    <3>1. f[r] \in Duties
      BY <2>2 DEF LoopRegs, DutyRegs, Duty, Rpm, Motors
    <3> QED BY <2>2, <3>1 DEF Legal
  <2>3. CASE r \notin DutyRegs /\ f[r] # regs[r]
    <3>1. r \in RpmRegs /\ f[r] \in Rpms
      BY <2>3 DEF LoopRegs, DutyRegs, RpmRegs, Duty, Rpm, Motors
    <3> QED BY <3>1 DEF Legal
  <2> QED BY <2>1, <2>2, <2>3
<1>2. f = [r \in Registers |-> f[r]]
  BY DEF LoopRegs
<1>3. \A r \in Registers \ (DutyRegs \cup RpmRegs) : f[r] = regs[r]
  BY DEF LoopRegs, DutyRegs, RpmRegs, Duty, Rpm, Motors
<1>4. \A m \in Motors : regs[Mode(m)] \notin LoopModes /\ m \notin M =>
                 f[Duty(m)] = regs[Duty(m)]
  BY DEF LoopRegs, Registers, DutyRegs, RpmRegs, Duty, Rpm, Motors
<1> QED BY <1>1, <1>2, <1>3, <1>4 DEF IsRegisterFile

(* The end of a pass: the loops write duties, the bridges follow the       *)
(* registers, and a bridge left driven belongs to a live command.          *)
LEMMA ControlKeepsInductive ==
    ASSUME Inductive, NEW M \in SUBSET Motors, NEW d \in [Motors -> Duties],
           NEW v \in [Motors -> Rpms], ControlAndApply(M, d, v)
    PROVE  Inductive'
<1>1. /\ IsRegisterFile(regs')
      /\ \A r \in Registers \ (DutyRegs \cup RpmRegs) : regs'[r] = regs[r]
      /\ \A m \in Motors : regs[Mode(m)] \notin LoopModes =>
            regs'[Duty(m)] = regs[Duty(m)]
  <2>1. IsRegisterFile(regs) /\ \A m \in M : regs[Mode(m)] \in LoopModes
    BY DEF ControlAndApply, Inductive, TypeOK
  <2>2. regs' = LoopRegs(M, d, v) \/ regs' = regs
    BY Zenon DEF ControlAndApply
  <2>3. CASE regs' = regs
    BY <2>1, <2>3
  <2>4. CASE regs' = LoopRegs(M, d, v)
    BY <2>1, <2>4, LoopRegsLegal
  <2> QED BY <2>2, <2>3, <2>4
<1>2. /\ ctlDuty' \in [Motors -> Duties]
      /\ \A m \in Motors : regs[Mode(m)] \in LoopModes /\ m \notin M =>
            ctlDuty'[m] = ctlDuty[m]
  BY ConstantsAssumption DEF ControlAndApply, LoopDuty, Inductive, TypeOK
<1>3. \A m \in Motors : Mode(m) \in Registers \ (DutyRegs \cup RpmRegs)
  BY DEF Mode, Motors, Registers, ModeRegs, DutyRegs, RpmRegs
<1>4. regs'["WATCHDOG_TIMEOUT"] = regs["WATCHDOG_TIMEOUT"] /\ Enabled(regs') = Enabled(regs)
  BY <1>1 DEF Enabled, Registers, DutyRegs, RpmRegs
<1>5. regs["WATCHDOG_TIMEOUT"] \in Nat
  BY ConstantsAssumption
     DEF Inductive, TypeOK, IsRegisterFile, Legal, Registers, ModeRegs,
         DutyRegs, RpmRegs
<1>6. Active' <=> Active
  <2>1. ASSUME NEW m \in Motors PROVE MotorActive(regs', m) <=> MotorActive(regs, m)
    <3>1. regs'[Mode(m)] = regs[Mode(m)]
      BY <1>1, <1>3
    <3>2. regs[Mode(m)] = "RUN" => regs'[Duty(m)] = regs[Duty(m)]
      BY <1>1 DEF LoopModes
    <3> QED BY <3>1, <3>2 DEF MotorActive
  <2> QED BY <1>4, <2>1 DEF Active, HasActiveCommand, ControlAndApply
<1>7. ASSUME NEW m \in Motors, ~(dirty \/ M # {})
      PROVE  BridgeFor(regs', ctlDuty', timeoutActive, m)
               = BridgeFor(regs, ctlDuty, timeoutActive, m)
  <2>1. regs'[Mode(m)] = regs[Mode(m)]
    BY <1>1, <1>3
  <2>2. regs[Mode(m)] \in LoopModes => ctlDuty'[m] = ctlDuty[m]
    BY <1>2, <1>7
  <2>3. regs[Mode(m)] \notin LoopModes => regs'[Duty(m)] = regs[Duty(m)]
    BY <1>1
  <2> QED BY <1>4, <2>1, <2>2, <2>3 DEF BridgeFor
<1>8. OutputsCurrent'
  <2>1. CASE dirty \/ M # {}
    BY <2>1 DEF ControlAndApply, OutputsCurrent
  <2>2. CASE ~(dirty \/ M # {})
    BY <1>7, <2>2 DEF ControlAndApply, OutputsCurrent, Inductive
  <2> QED BY <2>1, <2>2
<1>9. TypeOK'
  <2>1. bridge' \in [Motors -> {"coast", "brake", "run"}]
    <3>1. CASE dirty \/ M # {}
      BY <3>1 DEF ControlAndApply, BridgeFor
    <3>2. CASE ~(dirty \/ M # {})
      BY <3>2 DEF ControlAndApply, Inductive, TypeOK
    <3> QED BY <3>1, <3>2
  <2>2. status' \in [enabled : BOOLEAN, active : BOOLEAN, timeout : BOOLEAN]
    <3>1. Enabled(regs') \in BOOLEAN /\ regTimeout \in BOOLEAN
      BY <1>1 DEF IsRegisterFile, Legal, Registers, ModeRegs, DutyRegs, RpmRegs,
                  Enabled, Inductive, TypeOK
    <3>2. StatusOf(regs', regTimeout)
            \in [enabled : BOOLEAN, active : BOOLEAN, timeout : BOOLEAN]
      BY <3>1 DEF StatusOf, HasActiveCommand
    <3> QED BY <3>2 DEF ControlAndApply, Inductive, TypeOK
  <2>3. passTicks' \in 0..MaxPass /\ pc' \in Steps /\ dirty' \in BOOLEAN
    <3>1. passTicks' = 0 /\ pc' = "serial" /\ dirty' = FALSE
      BY Zenon DEF ControlAndApply
    <3>2. passTicks' \in 0..MaxPass
      BY <3>1, ConstantsAssumption
    <3> QED BY <3>1, <3>2 DEF Steps
  <2> QED BY <1>1, <1>2, <2>1, <2>2, <2>3 DEF ControlAndApply, Inductive, TypeOK
<1>10. MirrorsAgree'
  <2>1. CASE dirty \/ M # {}
    BY <2>1 DEF ControlAndApply, MirrorsAgree, Inductive
  <2>2. CASE ~(dirty \/ M # {})
    <3>1. StatusOf(regs', regTimeout) = StatusOf(regs, regTimeout)
      <4>1. regTimeout' = regTimeout
        BY Zenon DEF ControlAndApply
      <4>2. HasActiveCommand(regs', regTimeout) = HasActiveCommand(regs, regTimeout)
        BY <1>6, <4>1 DEF Active, HasActiveCommand
      <4> QED BY <1>4, <4>2 DEF StatusOf
    <3> QED BY <2>2, <3>1 DEF ControlAndApply, MirrorsAgree, Inductive
  <2> QED BY <2>1, <2>2
<1>11. LeaseArmed'
  BY <1>4, <1>6 DEF ControlAndApply, LeaseArmed, Inductive
<1>12. LeaseAge'
  BY <1>4, <1>5, <1>6, ConstantsAssumption
     DEF ControlAndApply, LeaseAge, Inductive, TypeOK
<1>13. BridgeAge'
  <2> SUFFICES ASSUME NEW m \in Motors, bridge'[m] = "run",
                      regs["WATCHDOG_TIMEOUT"] > 0
               PROVE  silence <= regs["WATCHDOG_TIMEOUT"] + MaxPass + 0
    BY <1>4 DEF ControlAndApply, BridgeAge
  <2>1. BridgeFor(regs', ctlDuty', timeoutActive', m) = "run"
    BY <1>8 DEF OutputsCurrent, ControlAndApply
  <2>2. (regTimeout = timeoutActive)'
    BY <1>10 DEF MirrorsAgree
  <2>3. Active
    BY <1>1, <1>6, <2>1, <2>2, RunNeedsCommand DEF Active
  <2>4. silence <= regs["WATCHDOG_TIMEOUT"] + passTicks
    BY <1>5, <1>6, <2>3
       DEF ControlAndApply, LeaseAge, Inductive, TypeOK
  <2> QED BY <1>5, <2>4, ConstantsAssumption DEF Inductive, TypeOK
<1>14. ModesGranted'
  BY <1>1, <1>3 DEF ControlAndApply, ModesGranted, Inductive
<1> QED BY <1>8, <1>9, <1>10, <1>11, <1>12, <1>13, <1>14 DEF Inductive
-----------------------------------------------------------------------------
(* After reset both motors coast and no lease is held (RegisterMap::Init). *)
LEMMA InitInductive == Init => Inductive
<1> SUFFICES ASSUME Init PROVE Inductive
  OBVIOUS
<1>1. IsRegisterFile(regs)
  <2>1. \A r \in Registers : Legal(r, regs[r])
    BY ConstantsAssumption
       DEF Init, Legal, Registers, ModeRegs, DutyRegs, RpmRegs, Modes
  <2>2. regs = [r \in Registers |-> regs[r]]
    BY DEF Init
  <2> QED BY <2>1, <2>2 DEF IsRegisterFile
<1>2. \A m \in Motors : regs[Mode(m)] = "COAST"
  BY DEF Init, Motors, Mode, Registers, ModeRegs
<1>3. ~HasActiveCommand(regs, FALSE)
  BY <1>2 DEF HasActiveCommand, MotorActive, LoopModes
<1>4. Enabled(regs) = TRUE
  BY DEF Init, Enabled, Registers, ModeRegs, DutyRegs, RpmRegs
<1>5. TypeOK
  <2>1. status \in [enabled : BOOLEAN, active : BOOLEAN, timeout : BOOLEAN]
    BY <1>4 DEF Init, StatusOf, HasActiveCommand
  <2>2. queue \in Seq(Writes) /\ Len(queue) <= QueueLength
    BY ConstantsAssumption DEF Init
  <2>3. /\ elapsed \in 0..Horizon /\ silence \in 0..Horizon
        /\ passTicks \in 0..MaxPass
    BY ConstantsAssumption DEF Init
  <2>4. /\ ctlDuty \in [Motors -> Duties]
        /\ bridge \in [Motors -> {"coast", "brake", "run"}]
        /\ granted \in [Motors -> BOOLEAN]
    BY ConstantsAssumption DEF Init
  <2>5. /\ regTimeout \in BOOLEAN /\ timeoutActive \in BOOLEAN
        /\ armed \in BOOLEAN /\ dirty \in BOOLEAN /\ pc \in Steps
    BY DEF Init, Steps
  <2> QED BY <1>1, <2>1, <2>2, <2>3, <2>4, <2>5 DEF TypeOK
<1>6. MirrorsAgree
  BY DEF Init, MirrorsAgree
<1>7. LeaseArmed /\ LeaseAge
  BY <1>3 DEF Init, LeaseArmed, LeaseAge, Active
<1>8. BridgeAge
  BY DEF Init, BridgeAge
<1>9. OutputsCurrent
  BY <1>2 DEF Init, OutputsCurrent, BridgeFor
<1>10. ModesGranted
  BY <1>2 DEF ModesGranted
<1> QED BY <1>5, <1>6, <1>7, <1>8, <1>9, <1>10 DEF Inductive

(* The steps that move the program counter or the queue and nothing else   *)
(* that the invariant speaks of.                                           *)
LEMMA QuietStepKeepsInductive ==
    ASSUME Inductive,
           UNCHANGED <<regs, status, regTimeout, timeoutActive, armed, elapsed,
                       dirty, ctlDuty, bridge, passTicks, silence, granted>>,
           queue' \in Seq(Writes), Len(queue') <= QueueLength,
           pc' \in Steps, pc' = "control" <=> pc = "control"
    PROVE  Inductive'
BY DEF Inductive, TypeOK, MirrorsAgree, LeaseArmed, LeaseAge, BridgeAge,
       OutputsCurrent, ModesGranted, Active

(* One step per action: what the main loop and its interrupts do to the    *)
(* invariant.                                                              *)
LEMMA StepInductive == Inductive /\ [Next]_vars => Inductive'
<1> SUFFICES ASSUME Inductive, [Next]_vars PROVE Inductive'
  OBVIOUS
<1> USE DEF Steps
<1>0. queue \in Seq(Writes) /\ Len(queue) \in Nat /\ Len(queue) <= QueueLength /\ pc \in Steps
  BY DEF Inductive, TypeOK
<1>1. ASSUME NEW w \in Writes, HostWrite(w) PROVE Inductive'
  <2>1. queue' \in Seq(Writes) /\ Len(queue') <= QueueLength
    BY <1>0, <1>1, ConstantsAssumption DEF HostWrite
  <2> QED BY <1>0, <1>1, <2>1, QuietStepKeepsInductive DEF HostWrite
<1>2. ASSUME NEW w \in Writes, SerialWrite(w) PROVE Inductive'
  BY <1>0, <1>2, CommitKeepsInductive DEF SerialWrite
<1>3. CASE SerialHeartbeat
  <2>1. /\ UNCHANGED <<regs, status, regTimeout, timeoutActive, dirty, ctlDuty,
                       queue, bridge, pc, passTicks, granted>>
        /\ silence' = 0 /\ pc = "serial"
    BY <1>3 DEF SerialHeartbeat
  <2>2. /\ Active => elapsed' = 0 /\ armed' = TRUE
        /\ ~Active => elapsed' = elapsed /\ armed' = armed
    BY <1>3 DEF SerialHeartbeat, Active, HasActiveCommand, Inductive, MirrorsAgree
  <2>3. regs["WATCHDOG_TIMEOUT"] \in Nat
    BY ConstantsAssumption
       DEF Inductive, TypeOK, IsRegisterFile, Legal, Registers, ModeRegs,
           DutyRegs, RpmRegs
  <2>4. TypeOK'
    <3>1. 0 \in 0..Horizon
      BY ConstantsAssumption
    <3>2. elapsed' \in 0..Horizon /\ silence' \in 0..Horizon /\ armed' \in BOOLEAN
      BY <2>1, <2>2, <3>1 DEF Inductive, TypeOK
    <3> QED BY <2>1, <3>2 DEF Inductive, TypeOK
  <2>5. MirrorsAgree' /\ OutputsCurrent' /\ ModesGranted'
    BY <2>1 DEF Inductive, MirrorsAgree, OutputsCurrent, ModesGranted
  <2>6. LeaseArmed'
    BY <2>1, <2>2 DEF LeaseArmed, Active
  <2>7. LeaseAge' /\ BridgeAge'
    BY <2>1, <2>3, ConstantsAssumption DEF LeaseAge, BridgeAge, Inductive, TypeOK
  <2> QED BY <2>4, <2>5, <2>6, <2>7 DEF Inductive
<1>4. CASE SerialDone
  BY <1>0, <1>4, QuietStepKeepsInductive DEF SerialDone
<1>5. CASE I2cWrite
  <2>1. queue' \in Seq(Writes) /\ Len(queue') <= QueueLength
    <3>1. queue' = Tail(queue) /\ queue # <<>>
      BY <1>5, Zenon DEF I2cWrite
    <3>2. Tail(queue) \in Seq(Writes) /\ Len(Tail(queue)) = Len(queue) - 1
      BY <1>0, <3>1, HeadTailProperties
    <3> QED BY <1>0, <3>1, <3>2, ConstantsAssumption
  <2>2. CASE Acceptable(Head(queue))
    BY <1>5, <2>1, <2>2, CommitKeepsInductive DEF I2cWrite
  <2>3. CASE ~Acceptable(Head(queue))
    BY <1>0, <1>5, <2>1, <2>3, QuietStepKeepsInductive DEF I2cWrite
  <2> QED BY <2>2, <2>3
<1>6. CASE I2cDone
  BY <1>0, <1>6, QuietStepKeepsInductive DEF I2cDone
<1>7. CASE BusStuck
  <2>1. queue' \in Seq(Writes) /\ Len(queue') <= QueueLength
    BY <1>7, ConstantsAssumption DEF BusStuck
  <2> QED BY <1>7, <2>1, CoastKeepsInductive DEF BusStuck
<1>8. CASE BusHealthy
  BY <1>0, <1>8, QuietStepKeepsInductive DEF BusHealthy
<1>9. CASE CheckWatchdog
  BY <1>9, CheckKeepsInductive
<1>10. CASE Control
  BY <1>10, ControlKeepsInductive DEF Control
<1>11. CASE Tick
  BY <1>11, TickKeepsInductive
<1>12. CASE UNCHANGED vars
  BY <1>0, <1>12, QuietStepKeepsInductive DEF vars
<1> QED BY <1>1, <1>2, <1>3, <1>4, <1>5, <1>6, <1>7, <1>8, <1>9, <1>10, <1>11,
           <1>12 DEF Next

(* The invariant holds in every reachable state of the board.              *)
THEOREM InductiveInvariant == Spec => []Inductive
<1>1. Init => Inductive
  BY InitInductive
<1>2. Inductive /\ [Next]_vars => Inductive'
  BY StepInductive
<1> QED BY <1>1, <1>2, PTL DEF Spec
-----------------------------------------------------------------------------
(* Every register, flag and queue keeps its type, for any set of host      *)
(* writes, including ill-formed ones (RegisterMap::ApplyWriteTo).          *)
THEOREM TypeCorrect == Spec => []TypeOK
<1>1. Inductive => TypeOK
  BY DEF Inductive
<1> QED BY <1>1, InductiveInvariant, PTL

(* A driven bridge heard from its host at most the watchdog timeout plus   *)
(* two loop passes ago.                                                    *)
THEOREM LeaseBound == Spec => []DrivenWithinLease
<1>1. Inductive => DrivenWithinLease
  <2> SUFFICES ASSUME Inductive, NEW m \in Motors, bridge[m] = "run",
                      regs["WATCHDOG_TIMEOUT"] > 0
               PROVE  silence <= regs["WATCHDOG_TIMEOUT"] + 2 * MaxPass
    BY DEF DrivenWithinLease
  <2>1. regs["WATCHDOG_TIMEOUT"] \in Nat
    BY ConstantsAssumption
       DEF Inductive, TypeOK, IsRegisterFile, Legal, Registers, ModeRegs,
           DutyRegs, RpmRegs
  <2> QED BY <2>1, ConstantsAssumption DEF Inductive, BridgeAge, TypeOK
<1> QED BY <1>1, InductiveInvariant, PTL

(* No motor starts again by itself after a timeout, a bus recovery or a    *)
(* disable.                                                                *)
THEOREM MotionIsRequested == Spec => []NoUnrequestedMotion
<1>1. Inductive => NoUnrequestedMotion
  BY RunNeedsCommand
     DEF Inductive, TypeOK, OutputsCurrent, ModesGranted, NoUnrequestedMotion
<1> QED BY <1>1, InductiveInvariant, PTL

(* REG_STATUS never hides a driven bridge.                                 *)
THEOREM StatusIsTrue == Spec => []StatusTellsTruth
<1>1. Inductive => StatusTellsTruth
  BY RunNeedsCommand
     DEF Inductive, TypeOK, MirrorsAgree, OutputsCurrent, StatusTellsTruth, StatusOf,
         HasActiveCommand
<1> QED BY <1>1, InductiveInvariant, PTL
-----------------------------------------------------------------------------
(* The board as a dead man's switch.                                       *)

(* WATCHDOG_TIMEOUT is an unsigned register.                               *)
LEMMA TimeoutIsNat == ASSUME Inductive PROVE regs["WATCHDOG_TIMEOUT"] \in Nat
  BY ConstantsAssumption
     DEF Inductive, TypeOK, IsRegisterFile, Legal, Registers, ModeRegs,
         DutyRegs, RpmRegs

(* The watchdog limit is one of the values the register accepts.           *)
LEMMA LimitIsLegal == ASSUME Inductive PROVE regs["WATCHDOG_TIMEOUT"] \in Timeouts
  BY DEF Inductive, TypeOK, IsRegisterFile, Legal, Registers, ModeRegs,
         DutyRegs, RpmRegs

(* An accepted write and a heartbeat are the host being heard.             *)
LEMMA CommitIsHear ==
    ASSUME Inductive', NEW w, CommitWrite(w), UNCHANGED bridge
    PROVE  Promised!Hear
<1>1. regs'["WATCHDOG_TIMEOUT"] \in Timeouts
  BY DEF Inductive, TypeOK, IsRegisterFile, Legal, Registers, ModeRegs,
         DutyRegs, RpmRegs
<1>2. silence' = 0
  BY DEF CommitWrite
<1> QED BY <1>1, <1>2 DEF Promised!Hear

(* A forced coast takes back what was asked.                               *)
LEMMA CoastIsWithdraw ==
    ASSUME ForceCoast, UNCHANGED <<bridge, silence>>
    PROVE  Promised!Withdraw
<1>1. regs'["WATCHDOG_TIMEOUT"] = regs["WATCHDOG_TIMEOUT"]
  BY DEF ForceCoast, Coasted, ClearMotorMotion, Registers, ModeRegs,
         DutyRegs, RpmRegs
<1>2. {m \in Motors : granted'[m]} = {}
  BY DEF ForceCoast
<1> QED BY <1>1, <1>2 DEF Promised!Withdraw

(* Time passes within the bound on the age of a driven bridge.             *)
LEMMA TickIsElapse ==
    ASSUME Inductive, Inductive', Tick
    PROVE  Promised!Elapse
<1>1. silence' \in {silence, silence + 1} /\ UNCHANGED <<regs, granted, bridge>>
  BY ConstantsAssumption DEF Tick, Saturate, Inductive, TypeOK
<1>2. ASSUME NEW m \in Motors, bridge[m] = "run", regs["WATCHDOG_TIMEOUT"] > 0
      PROVE  silence' <= regs["WATCHDOG_TIMEOUT"] + 2 * MaxPass
  <2>1. silence' <= regs["WATCHDOG_TIMEOUT"] + MaxPass + passTicks'
    BY <1>1, <1>2 DEF Inductive, BridgeAge
  <2>2. passTicks' \in 0..MaxPass /\ silence' \in 0..Horizon
    BY DEF Inductive, TypeOK
  <2> QED BY <2>1, <2>2, TimeoutIsNat, ConstantsAssumption
<1> QED BY <1>1, <1>2 DEF Promised!Elapse, Promised!InTime

(* The end of a pass sets the outputs as granted, and in time.             *)
LEMMA ControlIsSettle ==
    ASSUME Inductive, Inductive', NEW M \in SUBSET Motors,
           NEW d \in [Motors -> Duties], NEW v \in [Motors -> Rpms],
           ControlAndApply(M, d, v)
    PROVE  Promised!Settle
<1>1. UNCHANGED <<silence, granted>> /\ dirty' = FALSE /\ passTicks' = 0
  BY Zenon DEF ControlAndApply
<1>2. regs'["WATCHDOG_TIMEOUT"] = regs["WATCHDOG_TIMEOUT"]
  <2>1. LoopRegs(M, d, v)["WATCHDOG_TIMEOUT"] = regs["WATCHDOG_TIMEOUT"]
    <3>1. IsRegisterFile(regs)
      BY DEF Inductive, TypeOK
    <3>2. "WATCHDOG_TIMEOUT" \in Registers \ (DutyRegs \cup RpmRegs)
      BY DEF Registers, DutyRegs, RpmRegs
    <3> QED BY <3>1, <3>2, LoopRegsLegal
  <2> QED BY <2>1 DEF ControlAndApply
<1>3. ASSUME NEW m \in Motors, bridge'[m] = "run" PROVE granted[m]
  <2>1. BridgeFor(regs', ctlDuty', timeoutActive', m) = "run"
    BY <1>1, <1>3 DEF Inductive, OutputsCurrent
  <2>2. regs'[Mode(m)] \in {"RUN", "SPEED", "POSITION"}
    BY <2>1, RunNeedsCommand DEF Inductive, TypeOK
  <2> QED BY <1>1, <2>2 DEF Inductive, ModesGranted
<1>4. ASSUME NEW m \in Motors, bridge'[m] = "run", regs["WATCHDOG_TIMEOUT"] > 0
      PROVE  silence <= regs["WATCHDOG_TIMEOUT"] + 2 * MaxPass
  <2>1. silence <= regs["WATCHDOG_TIMEOUT"] + MaxPass + 0
    BY <1>1, <1>2, <1>4 DEF Inductive, BridgeAge
  <2> QED BY <2>1, TimeoutIsNat, ConstantsAssumption DEF Inductive, TypeOK
<1> QED BY <1>1, <1>2, <1>3, <1>4 DEF Promised!Settle, Promised!InTime

(* Every step of the board, interrupts included, is a step of the promise  *)
(* or leaves it alone.                                                     *)
LEMMA StepKeepsPromise ==
    Inductive /\ Inductive' /\ [Next]_vars => [Promised!Step]_(Promised!switch)
<1> SUFFICES ASSUME Inductive, Inductive', [Next]_vars
             PROVE  Promised!Step \/ UNCHANGED <<regs, granted, silence, bridge>>
  BY DEF Promised!switch
<1> USE DEF Promised!Step
<1>1. ASSUME NEW w \in Writes, HostWrite(w)
      PROVE UNCHANGED <<regs, granted, silence, bridge>>
  BY <1>1 DEF HostWrite
<1>2. ASSUME NEW w \in Writes, SerialWrite(w) PROVE Promised!Step
  BY <1>2, CommitIsHear DEF SerialWrite
<1>3. CASE SerialHeartbeat
  <2>1. silence' = 0 /\ UNCHANGED <<regs, granted, bridge>>
    BY <1>3 DEF SerialHeartbeat
  <2> QED BY <2>1, LimitIsLegal DEF Promised!Hear
<1>4. CASE SerialDone \/ I2cDone \/ BusHealthy
  BY <1>4 DEF SerialDone, I2cDone, BusHealthy
<1>5. CASE I2cWrite
  BY <1>5, CommitIsHear DEF I2cWrite
<1>6. CASE BusStuck
  BY <1>6, CoastIsWithdraw DEF BusStuck
<1>7. CASE CheckWatchdog
  <2>1. UNCHANGED <<bridge, silence>>
    BY <1>7 DEF CheckWatchdog
  <2>2. ForceCoast \/ UNCHANGED <<regs, granted>>
    BY <1>7 DEF CheckWatchdog
  <2> QED BY <2>1, <2>2, CoastIsWithdraw
<1>8. CASE Control
  BY <1>8, ControlIsSettle DEF Control
<1>9. CASE Tick
  BY <1>9, TickIsElapse
<1>10. CASE UNCHANGED vars
  BY <1>10 DEF vars
<1> QED BY <1>1, <1>2, <1>3, <1>4, <1>5, <1>6, <1>7, <1>8, <1>9, <1>10 DEF Next

(* After reset nothing is asked and nothing is driven (MotorApp_Init).     *)
LEMMA InitKeepsPromise == Init => Promised!Begin
<1> SUFFICES ASSUME Init PROVE Promised!Begin
  OBVIOUS
<1>1. regs["WATCHDOG_TIMEOUT"] = DefaultTimeout
  BY DEF Init, Registers, ModeRegs, DutyRegs, RpmRegs
<1>2. {m \in Motors : granted[m]} = {} /\ {m \in Motors : bridge[m] = "run"} = {}
  BY DEF Init
<1> QED BY <1>1, <1>2, ConstantsAssumption DEF Init, Promised!Begin

(* The MotorDriver board implements DeadManSwitch: for every set of host   *)
(* writes it drives only what was asked, only in time, and each step of    *)
(* the loop in motor_app.cpp is a step of the promise or a stutter.        *)
THEOREM Refinement == Spec => KeepsPromise
<1>1. Init => Promised!Begin
  BY InitKeepsPromise
<1>2. Inductive /\ Inductive' /\ [Next]_vars => [Promised!Step]_(Promised!switch)
  BY StepKeepsPromise
<1> QED BY <1>1, <1>2, InductiveInvariant, PTL
           DEF Spec, KeepsPromise, Promised!Promise
=============================================================================
