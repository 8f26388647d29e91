------------------------------- MODULE Battery -------------------------------
(* The battery monitor of gugaPI (app/battery_monitor.cpp): an initial estimate   *)
(* from the pack voltage, then coulomb counting with a remainder, and the low and  *)
(* critical flags over a filtered voltage.  Quantities are scaled: a capacity unit *)
(* stands for a microampere hour, Unit for the 3600000 uA ms in it.                 *)
EXTENDS Integers

CONSTANTS Volts,            \* pack voltages measured
          Currents,         \* currents measured: discharge positive
          Elapsed,          \* times between two samples
          MaxGap,           \* kMaximumIntegrationGapMs
          Unit,             \* kUaMsPerUah
          Capacity,         \* kRatedCapacityUah
          FullVolts,        \* the voltage of a full pack
          Critical, CriticalRelease, Low, LowRelease,
          Smoothing,        \* the divisor of the voltage filter
          InitialSamples    \* kInitialVoltageSampleCount

BatteryConstants ==
    /\ Volts \subseteq Int /\ Currents \subseteq Int /\ Elapsed \subseteq Nat
    /\ MaxGap \in Nat /\ Unit \in Nat \ {0} /\ Capacity \in Nat
    /\ {FullVolts, Critical, CriticalRelease, Low, LowRelease} \subseteq Int
    /\ Smoothing \in Nat \ {0} /\ InitialSamples \in Nat \ {0}

VARIABLES soc,         \* soc_ready, remaining_uah and the remainder
          starting,    \* voltage sum and count of the first samples
          integrating, \* g_hasIntegrationTime
          filtered,    \* g_filteredVoltageMv, 0 before the first sample
          flags,       \* the subset of {"low", "critical"} raised
          moved        \* observer: the uA ms the last sample accounted for, if it did

batteryVars == << soc, starting, integrating, filtered, flags, moved >>

Toward0(a, d) == IF a < 0 THEN -((-a) \div d) ELSE a \div d

(* EstimateSocFromVoltage, the table's line between Critical and FullVolts. *)
Estimated(volts) ==
    IF volts <= Critical THEN 0
    ELSE IF volts >= FullVolts THEN Capacity
    ELSE ((volts - Critical) * Capacity) \div (FullVolts - Critical)

Smoothed(volts) ==
    IF filtered = 0 THEN volts ELSE filtered + Toward0(volts - filtered, Smoothing)

(* UpdateVoltageFlags: low is raised with critical and not taken back before it. *)
Flags(f) ==
    LET critical == IF "critical" \in flags THEN f < CriticalRelease ELSE f <= Critical
        low == IF "low" \in flags THEN critical \/ f < LowRelease
               ELSE f <= Low \/ critical
    IN  {x \in {"critical", "low"} : (x = "critical" /\ critical) \/ (x = "low" /\ low)}

NoEstimate == [ready |-> FALSE, remaining |-> 0, remainder |-> 0]
NothingYet == [sum |-> 0, count |-> 0]

(* BatteryMonitor_Init and BatteryMonitor_ResetEstimate *)
BatteryInit ==
    /\ soc = NoEstimate /\ starting = NothingYet /\ integrating = FALSE
    /\ filtered = 0 /\ flags = {} /\ moved = {}

(* InitializeSocFromVoltage, after enough samples. *)
Start(volts) ==
    LET sum == starting.sum + volts
        count == starting.count + 1
    IN  /\ starting' = [sum |-> sum, count |-> count]
        /\ soc' = IF count < InitialSamples THEN soc
                  ELSE [ready |-> TRUE, remaining |-> Estimated(sum \div count),
                        remainder |-> 0]
        /\ integrating' = (integrating /\ count < InitialSamples)
        /\ moved' = {}

(* IntegrateCurrent: whole units leave the pack, what is left over is carried. *)
Drawn(charge) ==
    LET total == soc.remainder + charge
        left == soc.remaining - Toward0(total, Unit)
    IN  IF left < 0 THEN [soc EXCEPT !.remaining = 0, !.remainder = 0]
        ELSE IF left > Capacity THEN [soc EXCEPT !.remaining = Capacity, !.remainder = 0]
        ELSE [soc EXCEPT !.remaining = left,
                         !.remainder = total - Toward0(total, Unit) * Unit]

Integrate(current, elapsed) ==
    IF ~integrating
    THEN integrating' = TRUE /\ moved' = {} /\ UNCHANGED soc
    ELSE /\ UNCHANGED integrating
         /\ IF elapsed = 0 \/ elapsed > MaxGap
            THEN soc' = [soc EXCEPT !.remainder = 0] /\ moved' = {}
            ELSE soc' = Drawn(current * elapsed) /\ moved' = {current * elapsed}

(* BatteryMonitor_RecordMeasurement of a valid sample. *)
RecordMeasurement(volts, current, elapsed) ==
    /\ filtered' = Smoothed(volts)
    /\ flags' = Flags(filtered')
    /\ IF ~soc.ready THEN Start(volts)
       ELSE Integrate(current, elapsed) /\ UNCHANGED starting

(* A sample that is not valid, or BatteryMonitor_RecordReadError. *)
RecordInvalid ==
    /\ integrating' = FALSE /\ moved' = {}
    /\ UNCHANGED << soc, starting, filtered, flags >>

SetFull ==
    /\ soc' = [ready |-> TRUE, remaining |-> Capacity, remainder |-> 0]
    /\ starting' = NothingYet /\ integrating' = FALSE /\ moved' = {}
    /\ UNCHANGED << filtered, flags >>

ResetEstimate ==
    /\ soc' = NoEstimate /\ starting' = NothingYet /\ integrating' = FALSE
    /\ filtered' = 0 /\ flags' = {} /\ moved' = {}

BatteryNext ==
    \/ \E v \in Volts, c \in Currents, t \in Elapsed : RecordMeasurement(v, c, t)
    \/ RecordInvalid \/ SetFull \/ ResetEstimate

BatterySpec == BatteryInit /\ [][BatteryNext]_batteryVars

-----------------------------------------------------------------------------
(* The charge stays within the pack and less than a unit is carried over. *)
BatteryTypeOK ==
    /\ soc.ready \in BOOLEAN /\ soc.remaining \in 0..Capacity
    /\ soc.remainder \in -(Unit - 1)..(Unit - 1)
    /\ starting.count \in 0..InitialSamples
    /\ flags \subseteq {"low", "critical"}

(* Coulomb counting neither loses nor invents charge, through every carry and both *)
(* directions of current, until the pack is full or empty.                           *)
ChargeKeptStep ==
    soc'.remaining \in 1..(Capacity - 1) =>
        \A charge \in moved' : soc'.remaining * Unit - soc'.remainder
                                   = soc.remaining * Unit - soc.remainder - charge
==============================================================================
