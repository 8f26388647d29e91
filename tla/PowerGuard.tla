----------------------------- MODULE PowerGuard ------------------------------
(* Power protection of gugaPI: the INA219 on the shared sensor bus               *)
(* (drivers/ina219), the debounced faults of app/ina219_protection.cpp, the poll  *)
(* of app/app_ina219.cpp, and what an inhibit does to the chassis (chassis.cpp,   *)
(* App_Run).  The two quality faults of a sample (overflow and not ready) are     *)
(* handled alike by the code; the model keeps one, "quality".                     *)
EXTENDS Integers

CONSTANTS Configs,     \* protection parameters the configuration store may hold
          Most,        \* bound: readings the observers count up to
          MaxEvents    \* bound: chip resets, configuration changes and shell commands

(* Ina219Protection_ValidateConfig accepts no count of 0. *)
PowerConstants ==
    /\ Most \in Nat /\ MaxEvents \in Nat
    /\ Configs \subseteq [trip : 1 .. Most, release : 1 .. Most, comm : 1 .. Most,
                         latch : BOOLEAN, inhibit : BOOLEAN]

VARIABLES guard,       \* Ina219ProtectionState
          stored,      \* the parameters in the configuration store
          chip,        \* the INA219: whether its calibration register is loaded
          supply,      \* environment: true voltage and current
          lease,       \* g_motionLeaseActive of the chassis
          handled,     \* g_powerInhibitHandled
          hot,         \* observer: consecutive valid samples beyond the trip threshold
          calm,        \* observer: consecutive valid samples beyond the release threshold
          events

powerVars == << guard, stored, chip, supply, lease, handled, hot, calm, events >>

Measured == {"uv", "oc"}
Faults == Measured \cup {"comm", "quality"}
Levels == {"good", "between", "bad"}     \* below release, in the hysteresis, beyond trip

(* RecomputeMotionInhibit *)
Requested(g) == g.config.inhibit /\ g.active \cup g.latched # {}

TripLimit(g, f) == IF f = "comm" THEN g.config.comm ELSE g.config.trip

(* Mutant: one poor sample too many. *)
TrippingLate(g, f) ==
    LET n == g.trips[f] + 1 IN
    IF n <= TripLimit(g, f) THEN [g EXCEPT !.trips[f] = n]
    ELSE [g EXCEPT !.trips[f] = 0, !.active = @ \cup {f}]

(* UpdateFault: a fault becomes active after enough consecutive samples beyond    *)
(* the trip threshold and inactive after enough beyond the release threshold.     *)
Tripping(g, f) ==
    LET n == g.trips[f] + 1 IN
    IF n < TripLimit(g, f) THEN [g EXCEPT !.trips[f] = n]
    ELSE [g EXCEPT !.trips[f] = 0, !.active = @ \cup {f},
                   !.latched = IF g.config.latch THEN @ \cup {f} ELSE @]

Releasing(g, f) ==
    LET n == g.releases[f] + 1 IN
    IF n < g.config.release THEN [g EXCEPT !.releases[f] = n]
    ELSE [g EXCEPT !.releases[f] = 0, !.active = @ \ {f}]

UpdateFault(g, f, level) ==
    IF f \notin g.active
    THEN IF level = "bad" THEN Tripping([g EXCEPT !.releases[f] = 0], f)
         ELSE [g EXCEPT !.releases[f] = 0, !.trips[f] = 0]
    ELSE IF level = "good" THEN Releasing([g EXCEPT !.trips[f] = 0], f)
         ELSE [g EXCEPT !.trips[f] = 0, !.releases[f] = 0]

Broken(g) ==
    [g EXCEPT !.trips = [f \in Faults |-> IF f \in Measured THEN 0 ELSE @[f]],
              !.releases = [f \in Faults |-> IF f \in Measured THEN 0 ELSE @[f]]]

(* Ina219Protection_RecordSample: a reading of poor quality interrupts the series *)
(* of voltage and current; the chip reads no current without its calibration.     *)
RecordSample(g, quality, volts, amps) ==
    LET answered == UpdateFault([g EXCEPT !.trips["comm"] = 0], "comm", "good")
        judged == UpdateFault(answered, "quality", quality)
    IN  IF quality = "good"
        THEN UpdateFault(UpdateFault(judged, "uv", volts), "oc", amps)
        ELSE Broken(judged)

RecordReadError(g) == UpdateFault([g EXCEPT !.releases["comm"] = 0], "comm", "bad")

Recomputed(g) == [g EXCEPT !.inhibit = Requested(g)]

(* Ina219Protection_Configure keeps the faults and the counters. *)
Configure(g, config) == Recomputed([g EXCEPT !.config = config])

-----------------------------------------------------------------------------
PowerInit ==
    /\ stored \in Configs
    /\ guard = [config |-> stored, active |-> {}, latched |-> {}, inhibit |-> FALSE,
                trips |-> [f \in Faults |-> 0], releases |-> [f \in Faults |-> 0]]
    /\ chip = "calibrated" /\ supply = [f \in Measured |-> "good"]
    /\ lease = FALSE /\ handled = FALSE
    /\ hot = [f \in Measured |-> 0] /\ calm = [f \in Measured |-> 0]
    /\ events = 0

(* Observers: a valid reading of level l; any other outcome of a sample. *)
Counted(n, counts) == IF ~counts THEN 0 ELSE IF n < Most THEN n + 1 ELSE n
Reading(level) ==
    /\ hot' = [f \in Measured |-> Counted(hot[f], level[f] = "bad")]
    /\ calm' = [f \in Measured |-> Counted(calm[f], level[f] = "good")]

Seen == [supply EXCEPT !.oc = IF chip = "calibrated" THEN @ ELSE "good"]

(* App_Run: App_Ina219Run polls the chip (a busy bus leaves everything to the     *)
(* next pass), then the first pass under an inhibit stops the chassis.             *)
StoppedOnce(inhibit) ==
    /\ handled' = inhibit
    /\ lease' = IF inhibit /\ ~handled THEN FALSE ELSE lease

Polled(g) == guard' = Recomputed(g) /\ StoppedOnce(Requested(g))
Latest == Configure(guard, stored)

ObservedSince ==
    \* a new configuration starts new series for what it asks
    hot' = [f \in Measured |-> IF stored = guard.config THEN hot[f] ELSE 0]

AppRunSample ==
    /\ Polled(RecordSample(Latest, "good", Seen.uv, Seen.oc))
    /\ Reading(Seen)
    /\ UNCHANGED << stored, chip, supply, events >>

AppRunPoor ==
    /\ Polled(RecordSample(Latest, "bad", Seen.uv, Seen.oc))
    /\ hot' = [f \in Measured |-> 0] /\ calm' = [f \in Measured |-> 0]
    /\ UNCHANGED << stored, chip, supply, events >>

AppRunError ==
    /\ Polled(RecordReadError(Latest))
    /\ ObservedSince
    /\ UNCHANGED << stored, chip, supply, calm, events >>

AppRunBusy ==
    /\ Polled(Latest)
    /\ ObservedSince
    /\ UNCHANGED << stored, chip, supply, calm, events >>

(* Between two polls App_Run still looks at the inhibit. *)
AppRunIdle ==
    /\ StoppedOnce(guard.inhibit)
    /\ UNCHANGED << guard, stored, chip, supply, hot, calm, events >>

-----------------------------------------------------------------------------
(* Chassis_SetWheelRpm with a nonzero speed. *)
SetWheelRpm ==
    /\ ~guard.inhibit
    /\ lease' = TRUE
    /\ UNCHANGED << guard, stored, chip, supply, handled, hot, calm, events >>

(* Chassis_Service renews the lease on the board, or stops the wheels. *)
Service == lease' = (lease /\ ~guard.inhibit)

ChassisService ==
    /\ lease
    /\ Service
    /\ UNCHANGED << guard, stored, chip, supply, handled, hot, calm, events >>

ChassisStop ==
    /\ lease
    /\ lease' = FALSE
    /\ UNCHANGED << guard, stored, chip, supply, handled, hot, calm, events >>

(* Environment: load and voltage move; the chip loses its registers. *)
SupplyMoves(f) ==
    /\ \E level \in Levels : supply' = [supply EXCEPT ![f] = level]
    /\ UNCHANGED << guard, stored, chip, lease, handled, hot, calm, events >>

Event == events < MaxEvents /\ events' = events + 1

ChipResets ==
    /\ Event /\ chip' = "reset"
    /\ UNCHANGED << guard, stored, supply, lease, handled, hot, calm >>

(* Ina219_ConfigureDefault writes the configuration, then the calibration; the     *)
(* commands scan, addr, config and reset all come to it, and any write may fail:    *)
(* a reset that the bus cuts short leaves the chip without its calibration.         *)
ShellConfigures ==
    /\ Event
    /\ chip' \in {chip, "calibrated"}
    /\ UNCHANGED << guard, stored, supply, lease, handled, hot, calm >>

ShellResets ==
    /\ Event
    /\ chip' \in {chip, "reset", "calibrated"}
    /\ UNCHANGED << guard, stored, supply, lease, handled, hot, calm >>

(* ina219 protect clear *)
ShellClears ==
    /\ Event
    /\ guard' = Recomputed([guard EXCEPT !.latched = {}])
    /\ UNCHANGED << stored, chip, supply, lease, handled, hot, calm >>

(* A parameter is set; param load and reset apply it at once. *)
ShellStores ==
    /\ Event
    /\ stored' \in Configs
    /\ \/ UNCHANGED << guard, hot >>
       \/ guard' = Configure(guard, stored') /\ hot' = [f \in Measured |-> 0]
    /\ UNCHANGED << chip, supply, lease, handled, calm >>

PowerNext ==
    \/ AppRunSample \/ AppRunPoor \/ AppRunError \/ AppRunBusy \/ AppRunIdle
    \/ SetWheelRpm \/ ChassisService \/ ChassisStop
    \/ \E f \in Measured : SupplyMoves(f)
    \/ ChipResets \/ ShellConfigures \/ ShellResets \/ ShellClears \/ ShellStores

(* The scheduler runs the chassis task over and over. *)
PowerFairness == WF_powerVars(ChassisService)

PowerSpec == PowerInit /\ [][PowerNext]_powerVars /\ PowerFairness

-----------------------------------------------------------------------------
(* The counters stay below their limits and count only where they may. *)
PowerTypeOK ==
    /\ stored \in Configs /\ guard.config \in Configs
    /\ guard.active \subseteq Faults /\ guard.latched \subseteq Faults
    /\ guard.inhibit \in BOOLEAN /\ lease \in BOOLEAN /\ handled \in BOOLEAN
    /\ chip \in {"calibrated", "reset"} /\ supply \in [Measured -> Levels]
    /\ \A f \in Faults : /\ guard.trips[f] > 0 => f \notin guard.active
                         /\ guard.releases[f] > 0 => f \in guard.active

(* Voltage or current that was beyond the trip threshold in as many consecutive    *)
(* valid samples as the configuration asks has its fault active and, if the          *)
(* configuration says so, motion inhibited.                                           *)
TripsInTime(f) ==
    hot[f] >= guard.config.trip =>
        f \in guard.active /\ (guard.config.inhibit => guard.inhibit)

(* ... and the fault ends only after as many samples beyond the release threshold,  *)
(* whatever errors and poor readings came in between.                                *)
ReleasesLateStep ==
    \A f \in Measured : f \in guard.active \ guard'.active => calm'[f] >= guard'.config.release

(* An inhibit never leaves the wheels driven: the pass of App_Run that first sees   *)
(* it stops them, and where it missed the edge (a latch cleared and tripped again    *)
(* between two passes) the chassis task does.                                         *)
InhibitStops == []<>~(lease /\ guard.inhibit)
==============================================================================
