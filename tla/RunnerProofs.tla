---------------------------- MODULE RunnerProofs ----------------------------
(* What TLAPS proves of the car and the program that drives it (ActionRunner over    *)
(* Motion), for every set of programs, however often they loop and however many      *)
(* commands the shell gives.                                                         *)
(*                                                                                   *)
(* First the effects of the functions of Motion, one lemma each: a controller that   *)
(* stops, starts or updates leaves a car, the rest of which is as it was.  Then the  *)
(* periodic updates: who may have the wheels in which phase (Coherent, Claimed,      *)
(* Unheld), and that no update lets go of them.  Then the operations of the runner   *)
(* on a pair of a car and a run: each leaves a step that has yet to start or a car   *)
(* at rest (Settled, CarFree).  Last the invariant, RunnerInv, through every task of    *)
(* the main loop and every command, and the theorems.                                *)
EXTENDS ActionRunner, TLAPS

-----------------------------------------------------------------------------
HeadingStates == [mode : HeadingModes, ok : BOOLEAN, at : BOOLEAN, rolling : BOOLEAN,
                  lock : LockPhases, ended : Endings]
LineStates == [mode : LineModes, timed : BOOLEAN]
RunnerFrames == 0 .. 2
RoadStates == [phase : RoadPhases, auto : BOOLEAN, active : BOOLEAN, route : Routes,
               result : RouteResults, pivot : BOOLEAN, frames : RunnerFrames]

Turns == {"aligning", "turning", "pivotTurning", "reacquire", "pivotReacquire"}

(* The runner waits on the result of a route, the controller works on its being active. *)
Answering(c) ==
    /\ c.road.active <=> c.road.result = "running"
    /\ c.road.active => Manoeuvring(c)

(* Who may have the wheels in each phase of a manoeuvre. *)
Coherent(c) ==
    /\ c.heading.mode = "idle" \/ c.line.mode # "follow"
    /\ c.road.phase \in {"arming", "following"} => c.heading.mode = "idle"
    /\ c.road.phase \in Turns => c.line.mode # "follow"
    /\ Manoeuvring(c) => c.adc8
    /\ c.heading.mode = "distance" /\ ~c.heading.rolling /\ c.heading.at => ~c.claim
    /\ c.heading.mode = "distance" /\ c.heading.rolling => c.road.phase = "aligning"

Claimed(c) == c.claim => c.heading.mode # "idle" \/ c.line.mode = "follow" \/ HandedOver(c)
Unheld(c) == c.heading.mode # "idle" => Manoeuvring(c)
Parked(c) == ~Manoeuvring(c) /\ c.line.mode # "follow"

-----------------------------------------------------------------------------
LEMMA CarHas ==
    ASSUME NEW m \in Cars
    PROVE  /\ m.heading \in HeadingStates /\ m.line \in LineStates /\ m.road \in RoadStates
           /\ m.claim \in BOOLEAN /\ m.fault \in BOOLEAN /\ m.adc8 \in BOOLEAN
           /\ m = [heading |-> m.heading, line |-> m.line, road |-> m.road,
                   claim |-> m.claim, fault |-> m.fault, adc8 |-> m.adc8]
BY DEF Cars, HeadingStates, LineStates, RoadStates, RunnerFrames

LEMMA CarOf ==
    ASSUME NEW h \in HeadingStates, NEW l \in LineStates, NEW r \in RoadStates,
           NEW claim \in BOOLEAN, NEW fault \in BOOLEAN, NEW adc8 \in BOOLEAN
    PROVE  [heading |-> h, line |-> l, road |-> r, claim |-> claim, fault |-> fault, adc8 |-> adc8] \in Cars
BY DEF Cars, HeadingStates, LineStates, RoadStates, RunnerFrames

LEMMA CarExcept ==
    ASSUME NEW m \in Cars
    PROVE  /\ \A h \in HeadingStates : [m EXCEPT !.heading = h] \in Cars
           /\ \A l \in LineStates : [m EXCEPT !.line = l] \in Cars
           /\ \A r \in RoadStates : [m EXCEPT !.road = r] \in Cars
           /\ \A b \in BOOLEAN : [m EXCEPT !.claim = b] \in Cars /\ [m EXCEPT !.fault = b] \in Cars
BY DEF Cars, HeadingStates, LineStates, RoadStates, RunnerFrames

(* n is m with heading at rest, and perhaps another claim. *)
Stilled(m, n, ok, ended) ==
    /\ n \in Cars
    /\ n.heading.mode = "idle" /\ n.heading.ok = ok /\ n.heading.rolling = FALSE
    /\ n.heading.at = FALSE /\ n.heading.ended = ended
    /\ n.line = m.line /\ n.road = m.road /\ n.fault = m.fault /\ n.adc8 = m.adc8

(* n is m with another claim or fault. *)
Touched(m, n) ==
    n \in Cars /\ n.heading = m.heading /\ n.line = m.line /\ n.road = m.road /\ n.adc8 = m.adc8

LEMMA ClaimDoes ==
    ASSUME NEW m \in Cars, NEW b \in BOOLEAN
    PROVE  /\ Touched(m, [m EXCEPT !.claim = b]) /\ Touched(m, [m EXCEPT !.fault = b])
           /\ [m EXCEPT !.claim = b].claim = b /\ [m EXCEPT !.claim = b].fault = m.fault
           /\ [m EXCEPT !.fault = b].claim = m.claim /\ [m EXCEPT !.fault = b].fault = b
<1>1. [m EXCEPT !.claim = b] \in Cars /\ [m EXCEPT !.fault = b] \in Cars
  BY CarExcept
<1> QED BY <1>1 DEF Touched, Cars

LEMMA FaultedDoes ==
    ASSUME NEW m \in Cars
    PROVE  /\ Touched(m, Faulted(m)) /\ Faulted(m).claim = m.claim /\ Faulted(m).fault
           /\ Touched(m, Driven(m)) /\ Driven(m).claim /\ Driven(m).fault = m.fault
BY ClaimDoes DEF Faulted, Driven

LEMMA UndrivenDoes ==
    ASSUME NEW m \in Cars, NEW u \in Undriven(m)
    PROVE  Touched(m, u) /\ (m.fault => u.fault)
<1> DEFINE n == [m EXCEPT !.claim = FALSE]
<1>1. Touched(m, n) /\ n.fault = m.fault /\ n \in Cars
  BY ClaimDoes DEF Touched
<1> HIDE DEF n
<1>2. Touched(n, Faulted(n)) /\ Faulted(n).fault
  BY <1>1, FaultedDoes
<1>3. u = m \/ u = Faulted(n)
  BY DEF Undriven, n
<1> QED BY <1>1, <1>2, <1>3 DEF Touched

LEMMA IdleDoes ==
    ASSUME NEW m \in Cars, NEW ok \in BOOLEAN, NEW ended \in Endings
    PROVE  Stilled(m, HeadingIdle(m, ok, ended), ok, ended) /\ HeadingIdle(m, ok, ended).claim = m.claim
<1> DEFINE h == [m.heading EXCEPT !.mode = "idle", !.ok = ok, !.at = FALSE, !.rolling = FALSE,
                                  !.lock = "idle", !.ended = ended]
<1>1. m.heading \in HeadingStates
  BY CarHas
<1>2. h \in HeadingStates /\ h.mode = "idle" /\ h.ok = ok /\ h.rolling = FALSE /\ h.at = FALSE /\ h.ended = ended
  BY <1>1 DEF HeadingStates, HeadingModes, LockPhases
<1>3. HeadingIdle(m, ok, ended) = [m EXCEPT !.heading = h]
  BY DEF HeadingIdle
<1> HIDE DEF h
<1>4. [m EXCEPT !.heading = h] \in Cars
  BY <1>2, CarExcept
<1> QED BY <1>2, <1>3, <1>4 DEF Cars, Stilled

LEMMA StoppedDoes ==
    ASSUME NEW m \in Cars, NEW ok \in BOOLEAN, NEW ended \in Endings
    PROVE  Stilled(m, HeadingStopped(m, ok, ended), ok, ended) /\ HeadingStopped(m, ok, ended).claim = FALSE
<1> DEFINE i == HeadingIdle(m, ok, ended)
<1>1. Stilled(m, i, ok, ended)
  BY IdleDoes
<1>2. HeadingStopped(m, ok, ended) = [i EXCEPT !.claim = FALSE]
  BY DEF HeadingStopped
<1> HIDE DEF i
<1>4. i \in Cars
  BY <1>1 DEF Stilled
<1>3. Touched(i, [i EXCEPT !.claim = FALSE]) /\ [i EXCEPT !.claim = FALSE].claim = FALSE
      /\ [i EXCEPT !.claim = FALSE].fault = i.fault
  BY <1>4, ClaimDoes
<1> QED BY <1>1, <1>2, <1>3 DEF Stilled, Touched

(* n is m after a motion of heading has come to an end with the wheels stopped. *)
CarHalted(m, n) ==
    /\ n \in Cars /\ n.heading.mode = "idle" /\ n.heading.rolling = FALSE /\ n.claim = FALSE
    /\ n.line = m.line /\ n.road = m.road /\ n.adc8 = m.adc8 /\ (m.fault => n.fault)

LEMMA HaltedDoes ==
    ASSUME NEW m \in Cars, NEW u \in Cars, Touched(m, u), m.fault => u.fault,
           NEW ok \in BOOLEAN, NEW ended \in Endings
    PROVE  /\ CarHalted(m, HeadingStopped(u, ok, ended))
           /\ CarHalted(m, Faulted(HeadingStopped(u, ok, ended)))
           /\ Faulted(HeadingStopped(u, ok, ended)).fault
           /\ HeadingStopped(u, ok, ended).heading.ended = ended
<1> DEFINE s == HeadingStopped(u, ok, ended)
<1>1. Stilled(u, s, ok, ended) /\ s.claim = FALSE
  BY StoppedDoes
<1> HIDE DEF s
<1>2. Touched(s, Faulted(s)) /\ Faulted(s).claim = s.claim /\ Faulted(s).fault
  <2>1. s \in Cars
    BY <1>1 DEF Stilled
  <2> QED BY <2>1, FaultedDoes
<1>3. CarHalted(m, s) /\ CarHalted(m, Faulted(s)) /\ s.heading.ended = ended
  BY <1>1, <1>2 DEF Stilled, Touched, CarHalted
<1> QED BY <1>2, <1>3 DEF s

LEMMA SafetyDoes ==
    ASSUME NEW m \in Cars, NEW u \in Cars, Touched(m, u), m.fault => u.fault, NEW ok \in BOOLEAN
    PROVE  /\ CarHalted(m, HeadingSafetyStop(u, ok)) /\ CarHalted(m, Faulted(HeadingSafetyStop(u, ok)))
           /\ Faulted(HeadingSafetyStop(u, ok)).fault
BY HaltedDoes DEF HeadingSafetyStop, Endings

-----------------------------------------------------------------------------
(* n is m in the course of the same motion. *)
Going(m, n) ==
    /\ n \in Cars /\ n.heading.mode = m.heading.mode /\ n.heading.rolling = m.heading.rolling
    /\ n.line = m.line /\ n.road = m.road /\ n.adc8 = m.adc8 /\ (m.fault => n.fault)

LEMMA TouchedGoes ==
    ASSUME NEW m \in Cars, NEW n, Touched(m, n), m.fault => n.fault PROVE Going(m, n)
BY DEF Touched, Going

LEMMA DrivenGoes ==
    ASSUME NEW m \in Cars PROVE Going(m, Driven(m)) /\ Going(m, m)
BY FaultedDoes, TouchedGoes DEF Touched, Going

LEMMA HeldUp ==
    ASSUME NEW m \in Cars, NEW u \in Undriven(m), NEW ok \in BOOLEAN
    PROVE  /\ CarHalted(m, HeadingSafetyStop(u, ok)) /\ CarHalted(m, Faulted(HeadingSafetyStop(u, ok)))
           /\ Faulted(HeadingSafetyStop(u, ok)).fault
<1>1. Touched(m, u) /\ (m.fault => u.fault) /\ u \in Cars
  BY UndrivenDoes DEF Touched
<1> QED BY <1>1, SafetyDoes

LEMMA StoppedHere ==
    ASSUME NEW m \in Cars, NEW ok \in BOOLEAN
    PROVE  /\ CarHalted(m, HeadingSafetyStop(m, ok)) /\ CarHalted(m, Faulted(HeadingSafetyStop(m, ok)))
           /\ Faulted(HeadingSafetyStop(m, ok)).fault
           /\ \A ended \in Endings : CarHalted(m, HeadingStopped(m, ok, ended))
<1>1. Touched(m, m)
  BY DEF Touched
<1> QED BY <1>1, SafetyDoes, HaltedDoes

LEMMA HoldGoes ==
    ASSUME NEW m \in Cars, NEW n \in HoldUpdate(m) PROVE Going(m, n) \/ CarHalted(m, n)
BY DrivenGoes, HeldUp DEF HoldUpdate

LEMMA TurnGoes ==
    ASSUME NEW m \in Cars, NEW after, NEW n \in TurnUpdate(m, after) PROVE Going(m, n) \/ CarHalted(m, n)
<1>1. m.heading.ok \in BOOLEAN
  BY CarHas DEF HeadingStates
<1>2. Going(m, [m EXCEPT !.claim = FALSE])
  <2>1. Touched(m, [m EXCEPT !.claim = FALSE]) /\ [m EXCEPT !.claim = FALSE].fault = m.fault
    BY ClaimDoes
  <2> QED BY <2>1, TouchedGoes
<1>3. n \in TurnBrakes(m) => Going(m, n) \/ CarHalted(m, n)
  BY <1>2, StoppedHere DEF TurnBrakes, Endings
<1> QED BY <1>1, <1>3, StoppedHere, DrivenGoes, HeldUp DEF TurnUpdate

LEMMA AtDoes ==
    ASSUME NEW m \in Cars, NEW at \in BOOLEAN
    PROVE  /\ Going(m, [m EXCEPT !.heading.at = at]) /\ [m EXCEPT !.heading.at = at].fault = m.fault
<1> DEFINE h == [m.heading EXCEPT !.at = at]
<1>1. h \in HeadingStates /\ h.mode = m.heading.mode /\ h.rolling = m.heading.rolling
  BY CarHas DEF HeadingStates
<1>2. [m EXCEPT !.heading.at = at] = [m EXCEPT !.heading = h]
  OBVIOUS
<1> HIDE DEF h
<1>3. [m EXCEPT !.heading = h] \in Cars
  BY <1>1, CarExcept
<1> QED BY <1>1, <1>2, <1>3 DEF Cars, Going

LEMMA GoesOn ==
    ASSUME NEW m \in Cars, NEW o \in Cars, Going(m, o), NEW n
    PROVE  /\ Going(o, n) => Going(m, n)
           /\ CarHalted(o, n) => CarHalted(m, n)
BY DEF Going, CarHalted

LEMMA ArcGoes ==
    ASSUME NEW m \in Cars, NEW after, NEW n \in ArcUpdate(m, after) PROVE Going(m, n) \/ CarHalted(m, n)
<1>1. PICK at \in BOOLEAN :
        n \in LET o == [m EXCEPT !.heading.at = at]
              IN  IF ~at /\ "heading" \in after THEN {Faulted(HeadingSafetyStop(o, FALSE))}
                  ELSE {Driven(o)} \cup {Faulted(HeadingSafetyStop(u, FALSE)) : u \in Undriven(o)}
  BY DEF ArcUpdate
<1> DEFINE o == [m EXCEPT !.heading.at = at]
<1>2. Going(m, o) /\ o \in Cars
  BY AtDoes DEF Going
<1>3. n = Faulted(HeadingSafetyStop(o, FALSE)) \/ n = Driven(o)
       \/ \E u \in Undriven(o) : n = Faulted(HeadingSafetyStop(u, FALSE))
  BY <1>1
<1> HIDE DEF o
<1>4. Going(o, n) \/ CarHalted(o, n)
  BY <1>2, <1>3, DrivenGoes, HeldUp, StoppedHere
<1> QED BY <1>2, <1>4, GoesOn

LEMMA LockGoes ==
    ASSUME NEW m \in Cars, NEW after, NEW n \in LockUpdate(m, after) PROVE Going(m, n) \/ CarHalted(m, n)
<1> DEFINE phase(p) == [m EXCEPT !.heading.lock = p, !.heading.at = (p = "locked")]
           halted(p) == [phase(p) EXCEPT !.claim = FALSE]
           gone == [HeadingStopped(m, FALSE, "cut") EXCEPT !.heading.lock = "failed"]
<1>1. ASSUME NEW p \in LockPhases PROVE Going(m, phase(p)) /\ Going(m, halted(p))
  <2> DEFINE h == [m.heading EXCEPT !.lock = p, !.at = (p = "locked")]
  <2>1. h \in HeadingStates /\ h.mode = m.heading.mode /\ h.rolling = m.heading.rolling
    BY CarHas DEF HeadingStates
  <2>2. phase(p) = [m EXCEPT !.heading = h]
    OBVIOUS
  <2> HIDE DEF h
  <2>3. [m EXCEPT !.heading = h] \in Cars
    BY <2>1, CarExcept
  <2>4. Going(m, phase(p))
    BY <2>1, <2>2, <2>3 DEF Cars, Going
  <2>5. Going(m, phase(p)) /\ phase(p) \in Cars
    BY <2>2, <2>3, <2>4
  <2> HIDE DEF phase
  <2>6. Touched(phase(p), halted(p)) /\ halted(p).fault = phase(p).fault
    BY <2>5, ClaimDoes
  <2>7. Going(m, halted(p))
    BY <2>5, <2>6 DEF Going, Touched
  <2> QED BY <2>4, <2>7
<1>2. CarHalted(m, gone) /\ CarHalted(m, Faulted(gone))
  <2> DEFINE s == HeadingStopped(m, FALSE, "cut")
             h == [s.heading EXCEPT !.lock = "failed"]
  <2>1. CarHalted(m, s)
    BY StoppedHere DEF Endings
  <2> HIDE DEF s
  <2>2. s \in Cars /\ s.heading \in HeadingStates
    BY <2>1, CarHas DEF CarHalted
  <2>3. h \in HeadingStates /\ h.mode = s.heading.mode /\ h.rolling = s.heading.rolling
    BY <2>2 DEF HeadingStates, LockPhases
  <2>4. [s EXCEPT !.heading.lock = "failed"] = [s EXCEPT !.heading = h]
    OBVIOUS
  <2> HIDE DEF h
  <2>5. [s EXCEPT !.heading = h] \in Cars
    BY <2>2, <2>3, CarExcept
  <2>6. CarHalted(m, [s EXCEPT !.heading = h])
    BY <2>1, <2>2, <2>3, <2>5 DEF CarHalted, Cars
  <2>7. CarHalted(m, gone) /\ gone \in Cars
    BY <2>4, <2>5, <2>6 DEF s
  <2> HIDE DEF gone
  <2> QED BY <2>7, FaultedDoes DEF CarHalted, Touched
<1>3. \/ n \in {gone, Faulted(gone)}
      \/ \E p \in LockPhases : n \in {phase(p), halted(p)}
      \/ n = Driven(m)
      \/ \E u \in Undriven(m) : n = Faulted(HeadingSafetyStop(u, FALSE))
  BY Zenon DEF LockUpdate, LockTimeoutStop, LockPhases
<1> QED BY <1>1, <1>2, <1>3, DrivenGoes, HeldUp

(* A distance that is not handed over stops before it counts as driven. *)
Braked(c) == c.heading.mode = "distance" /\ ~c.heading.rolling /\ c.heading.at => ~c.claim

(* What Heading_Update may make of m. *)
HeadingGives(m, n) ==
    /\ n \in Cars /\ n.line = m.line /\ n.road = m.road /\ n.adc8 = m.adc8 /\ (m.fault => n.fault)
    /\ n.heading.mode \in {m.heading.mode, "idle"} /\ (n.heading.rolling => m.heading.rolling)
    /\ m.heading.mode = "idle" => n = m
    /\ Braked(m) =>
          /\ Braked(n)
          /\ n.claim => \/ n.heading.mode # "idle"
                        \/ n = m
                        \/ m.heading.mode = "distance" /\ m.heading.rolling /\ n.heading.ok
    /\ m.heading.mode = "distance" /\ ~m.heading.rolling =>
          \/ n.heading.mode = "distance" /\ ~n.heading.rolling
          \/ n.fault
          \/ n.heading.ended = "reached"

LEMMA DistanceGives ==
    ASSUME NEW m \in Cars, NEW after, NEW n \in DistanceUpdate(m, after), m.heading.mode = "distance"
    PROVE  HeadingGives(m, n)
<1>1. ASSUME CarHalted(m, n), n.fault PROVE HeadingGives(m, n)
  BY <1>1 DEF CarHalted, HeadingGives, Braked
<1>2. CASE n = Faulted(HeadingSafetyStop(m, FALSE))
  BY <1>1, <1>2, StoppedHere
<1>3. ASSUME NEW u \in Undriven(m), n = Faulted(HeadingSafetyStop(u, FALSE)) PROVE HeadingGives(m, n)
  BY <1>1, <1>3, HeldUp
<1>4. CASE n = Driven(m) /\ (m.heading.rolling \/ ~m.heading.at)
  BY <1>4, FaultedDoes DEF Touched, HeadingGives, Braked
<1>5. CASE n = HeadingIdle(m, TRUE, "reached") /\ (m.heading.rolling \/ m.heading.at)
  <2>1. Stilled(m, n, TRUE, "reached") /\ n.claim = m.claim
    BY <1>5, IdleDoes DEF Endings
  <2>2. m.heading.rolling \in BOOLEAN
    BY CarHas DEF HeadingStates
  <2> QED BY <1>5, <2>1, <2>2 DEF Stilled, HeadingGives, Braked
<1>6. CASE n = m
  BY <1>6 DEF HeadingGives
<1>7. CASE n = [m EXCEPT !.heading.at = TRUE, !.claim = FALSE] /\ ~m.heading.rolling
  <2> DEFINE o == [m EXCEPT !.heading.at = TRUE]
  <2>1. Going(m, o) /\ o \in Cars /\ o.fault = m.fault
    BY AtDoes DEF Going
  <2>2. n = [o EXCEPT !.claim = FALSE]
    BY <1>7
  <2> HIDE DEF o
  <2>3. Touched(o, n) /\ n.claim = FALSE /\ n.fault = o.fault
    BY <2>1, <2>2, ClaimDoes
  <2> QED BY <1>7, <2>1, <2>3 DEF Touched, Going, HeadingGives, Braked
<1>8. CASE "heading" \in after
  BY <1>2, <1>8 DEF DistanceUpdate
<1>9. CASE "heading" \notin after /\ m.heading.rolling
  <2>1. n \in {HeadingIdle(m, TRUE, "reached"), Driven(m)}
               \cup {Faulted(HeadingSafetyStop(u, FALSE)) : u \in Undriven(m)}
    BY <1>9 DEF DistanceUpdate
  <2> QED BY <1>3, <1>4, <1>5, <1>9, <2>1
<1>10. CASE "heading" \notin after /\ ~m.heading.rolling /\ m.heading.at
  <2>1. n \in {m, HeadingIdle(m, TRUE, "reached")}
    BY <1>10 DEF DistanceUpdate
  <2> QED BY <1>5, <1>6, <1>10, <2>1
<1>11. CASE "heading" \notin after /\ ~m.heading.rolling /\ ~m.heading.at
  <2>1. n \in {[m EXCEPT !.heading.at = TRUE, !.claim = FALSE], Faulted(HeadingSafetyStop(m, FALSE)), Driven(m)}
              \cup {Faulted(HeadingSafetyStop(u, FALSE)) : u \in Undriven(m)}
    BY <1>11, Zenon DEF DistanceUpdate
  <2> QED BY <1>2, <1>3, <1>4, <1>7, <1>11, <2>1
<1>12. m.heading.rolling \in BOOLEAN /\ m.heading.at \in BOOLEAN
  BY CarHas DEF HeadingStates
<1> QED BY <1>8, <1>9, <1>10, <1>11

LEMMA HeadingGivesThat ==
    ASSUME NEW m \in Cars, NEW after, NEW n \in HeadingUpdate(m, after)
    PROVE  HeadingGives(m, n)
<1>1. ASSUME CarHalted(m, n), m.heading.mode # "idle", m.heading.mode # "distance" \/ n.fault PROVE HeadingGives(m, n)
  BY <1>1 DEF CarHalted, HeadingGives, Braked
<1>2. ASSUME Going(m, n), m.heading.mode \notin {"distance", "idle"} PROVE HeadingGives(m, n)
  BY <1>2 DEF Going, HeadingGives, Braked
<1>3. CASE n = m
  BY <1>3 DEF HeadingGives
<1>4. m.heading.mode \in HeadingModes /\ m.heading.ok \in BOOLEAN
  BY CarHas DEF HeadingStates
<1>5. CASE m.heading.mode # "idle" /\ m.fault /\ n = HeadingSafetyStop(m, m.heading.ok)
  <2>1. CarHalted(m, n)
    BY <1>4, <1>5, StoppedHere
  <2>2. n.fault
    BY <1>5, <2>1 DEF CarHalted
  <2> QED BY <1>1, <1>5, <2>1, <2>2
<1>6. CASE m.heading.mode # "idle" /\ n = Faulted(HeadingSafetyStop(m, m.heading.ok))
  <2>1. CarHalted(m, n) /\ n.fault
    BY <1>4, <1>6, StoppedHere
  <2> QED BY <1>1, <1>6, <2>1
<1>7. CASE m.heading.mode = "hold" /\ n \in HoldUpdate(m)
  BY <1>1, <1>2, <1>7, HoldGoes
<1>8. CASE m.heading.mode = "turn" /\ n \in TurnUpdate(m, after)
  BY <1>1, <1>2, <1>8, TurnGoes
<1>9. CASE m.heading.mode = "lock" /\ n \in LockUpdate(m, after)
  BY <1>1, <1>2, <1>9, LockGoes
<1>10. CASE m.heading.mode = "arc" /\ n \in ArcUpdate(m, after)
  BY <1>1, <1>2, <1>10, ArcGoes
<1>11. CASE m.heading.mode = "distance" /\ n \in DistanceUpdate(m, after)
  BY <1>11, DistanceGives
<1>12. CASE m.heading.mode = "idle"
  BY <1>3, <1>12 DEF HeadingUpdate
<1>13. CASE m.heading.mode # "idle" /\ m.fault
  BY <1>5, <1>13 DEF HeadingUpdate
<1>14. CASE m.heading.mode # "idle" /\ ~m.fault
  <2>1. \/ n = Faulted(HeadingSafetyStop(m, m.heading.ok))
        \/ n \in CASE m.heading.mode = "hold"     -> HoldUpdate(m)
                   [] m.heading.mode = "turn"     -> TurnUpdate(m, after)
                   [] m.heading.mode = "lock"     -> LockUpdate(m, after)
                   [] m.heading.mode = "arc"      -> ArcUpdate(m, after)
                   [] m.heading.mode = "distance" -> DistanceUpdate(m, after)
    BY <1>14, Zenon DEF HeadingUpdate
  <2>2. m.heading.mode \in {"hold", "turn", "lock", "arc", "distance"}
    BY <1>4, <1>14 DEF HeadingModes
  <2>3. \/ n = Faulted(HeadingSafetyStop(m, m.heading.ok))
        \/ m.heading.mode = "hold" /\ n \in HoldUpdate(m)
        \/ m.heading.mode = "turn" /\ n \in TurnUpdate(m, after)
        \/ m.heading.mode = "lock" /\ n \in LockUpdate(m, after)
        \/ m.heading.mode = "arc" /\ n \in ArcUpdate(m, after)
        \/ m.heading.mode = "distance" /\ n \in DistanceUpdate(m, after)
    BY <2>1, <2>2
  <2> QED BY <1>6, <1>7, <1>8, <1>9, <1>10, <1>11, <1>14, <2>3
<1> QED BY <1>12, <1>13, <1>14

-----------------------------------------------------------------------------
(* n is m with the road controller in state r. *)
RoadSet(m, n, r) ==
    /\ n \in Cars /\ n.road = r /\ n.heading = m.heading /\ n.line = m.line
    /\ n.claim = m.claim /\ n.fault = m.fault /\ n.adc8 = m.adc8

LEMMA RoadDoes ==
    ASSUME NEW m \in Cars, NEW r \in RoadStates PROVE RoadSet(m, [m EXCEPT !.road = r], r)
<1>1. [m EXCEPT !.road = r] \in Cars
  BY CarExcept
<1> QED BY <1>1 DEF RoadSet, Cars

LEMMA LineDoes ==
    ASSUME NEW m \in Cars, NEW l \in LineStates
    PROVE  LET n == [m EXCEPT !.line = l] IN
           /\ n \in Cars /\ n.line = l /\ n.heading = m.heading /\ n.road = m.road
           /\ n.claim = m.claim /\ n.fault = m.fault /\ n.adc8 = m.adc8
<1>1. [m EXCEPT !.line = l] \in Cars
  BY CarExcept
<1> QED BY <1>1 DEF Cars

(* n is m without line following. *)
Unlined(m, n) ==
    /\ n \in Cars /\ n.line.mode = "idle" /\ n.heading = m.heading /\ n.road = m.road
    /\ n.fault = m.fault /\ n.adc8 = m.adc8

LEMMA LineEnds ==
    ASSUME NEW m \in Cars
    PROVE  /\ Unlined(m, LineIdle(m)) /\ LineIdle(m).claim = m.claim
           /\ Unlined(m, LineStop(m)) /\ LineStop(m).claim = FALSE
<1> DEFINE l == [mode |-> "idle", timed |-> FALSE]
           n == LineIdle(m)
<1>1. l \in LineStates
  BY DEF LineStates, LineModes
<1>2. n = [m EXCEPT !.line = l]
  BY DEF LineIdle
<1>3. l.mode = "idle"
  OBVIOUS
<1> HIDE DEF l, n
<1>4. Unlined(m, n) /\ n.claim = m.claim
  BY <1>1, <1>2, <1>3, LineDoes DEF Unlined
<1>5. n \in Cars
  BY <1>4 DEF Unlined
<1>6. Touched(n, [n EXCEPT !.claim = FALSE]) /\ [n EXCEPT !.claim = FALSE].claim = FALSE
      /\ [n EXCEPT !.claim = FALSE].fault = n.fault
  BY <1>5, ClaimDoes
<1>7. LineStop(m) = [n EXCEPT !.claim = FALSE]
  BY DEF LineStop, n
<1>8. Unlined(m, LineStop(m)) /\ LineStop(m).claim = FALSE
  BY <1>4, <1>6, <1>7 DEF Unlined, Touched
<1> QED BY <1>4, <1>8 DEF n

(* Nothing drives and nothing is under way. *)
Rested(n) == AtRest(n) /\ n.line.mode = "idle" /\ ~n.road.active

(* A motion that the road controller ends is taken in the automatic mode. *)
TakenOver(m, n) ==
    /\ n.heading.mode = "idle"
    /\ n.heading.ended = IF m.heading.mode = "idle" THEN m.heading.ended ELSE "taken"

LEMMA AllStoppedDoes ==
    ASSUME NEW m \in Cars
    PROVE  LET n == AllStopped(m) IN
           /\ n \in Cars /\ n.heading.mode = "idle" /\ n.line.mode = "idle" /\ n.claim = FALSE
           /\ n.road = m.road /\ n.fault = m.fault /\ n.adc8 = m.adc8
           /\ m.road.auto => TakenOver(m, n)
<1> DEFINE ended == CASE m.heading.mode = "idle" -> m.heading.ended
                      [] m.heading.mode # "idle" /\ m.road.auto -> "taken"
                      [] OTHER -> "cut"
           s == HeadingStopped(m, TRUE, ended)
<1>1. ended \in Endings
  BY CarHas DEF HeadingStates, Endings
<1>2. AllStopped(m) = LineStop(s)
  BY DEF AllStopped
<1>3. m.road.auto => ended = IF m.heading.mode = "idle" THEN m.heading.ended ELSE "taken"
  OBVIOUS
<1> HIDE DEF ended
<1>4. Stilled(m, s, TRUE, ended)
  BY <1>1, StoppedDoes
<1> HIDE DEF s
<1>5. s \in Cars
  BY <1>4 DEF Stilled
<1>6. Unlined(s, LineStop(s)) /\ LineStop(s).claim = FALSE
  BY <1>5, LineEnds
<1> QED BY <1>2, <1>3, <1>4, <1>6 DEF Stilled, Unlined, TakenOver

(* What the road controller never does to a car, whoever has started what. *)
Agreed(c) == c.road.active <=> c.road.result = "running"
Kin(m, n) ==
    n \in Cars /\ Answering(n) /\ n.road.auto = m.road.auto /\ n.adc8 = m.adc8 /\ (m.fault => n.fault)

LEMMA EndedIs ==
    ASSUME NEW r \in RoadStates, NEW p \in RoadPhases, NEW result \in RouteResults, result # "running",
           r.active <=> r.result = "running"
    PROVE  /\ RoadEnded(r, p, result) \in RoadStates /\ RoadEnded(r, p, result).phase = p
           /\ RoadEnded(r, p, result).active = FALSE /\ RoadEnded(r, p, result).result # "running"
           /\ RoadEnded(r, p, result).auto = r.auto
<1> DEFINE v == IF r.active THEN result ELSE r.result
<1>1. v \in RouteResults /\ v # "running"
  BY DEF RoadStates
<1>2. RoadEnded(r, p, result) = [r EXCEPT !.phase = p, !.frames = 0, !.active = FALSE, !.result = v]
  BY DEF RoadEnded
<1>3. 0 \in RunnerFrames
  BY DEF RunnerFrames
<1> HIDE DEF v
<1>4. RoadEnded(r, p, result) = [phase |-> p, auto |-> r.auto, active |-> FALSE, route |-> r.route,
                                result |-> v, pivot |-> r.pivot, frames |-> 0]
  BY <1>2 DEF RoadStates
<1> QED BY <1>1, <1>3, <1>4 DEF RoadStates

LEMMA FinishDoes ==
    ASSUME NEW m \in Cars, NEW l \in Cars, NEW result \in RouteResults, result # "running",
           Agreed(l), l.road.auto = m.road.auto, l.adc8 = m.adc8, m.fault => l.fault
    PROVE  /\ Kin(m, FinishStopped(l, result)) /\ Rested(FinishStopped(l, result))
           /\ Kin(m, RoadCancel(l)) /\ Rested(RoadCancel(l))
<1> DEFINE a == AllStopped(l)
<1>1. /\ a \in Cars /\ a.heading.mode = "idle" /\ a.line.mode = "idle" /\ a.claim = FALSE
      /\ a.road = l.road /\ a.fault = l.fault /\ a.adc8 = l.adc8
  BY AllStoppedDoes
<1> HIDE DEF a
<1>2. ASSUME NEW p \in {"stopped", "idle"}, NEW res \in RouteResults, res # "running"
      PROVE  Kin(m, [a EXCEPT !.road = RoadEnded(l.road, p, res)])
             /\ Rested([a EXCEPT !.road = RoadEnded(l.road, p, res)])
  <2> DEFINE r == RoadEnded(l.road, p, res)
  <2>1. l.road \in RoadStates /\ p \in RoadPhases
    BY CarHas DEF RoadPhases
  <2>2. r \in RoadStates /\ r.phase = p /\ r.active = FALSE /\ r.auto = l.road.auto /\ r.result # "running"
    BY <1>2, <2>1, EndedIs DEF Agreed
  <2> HIDE DEF r
  <2>3. RoadSet(a, [a EXCEPT !.road = r], r)
    BY <1>1, <2>2, RoadDoes
  <2>4. Kin(m, [a EXCEPT !.road = r]) /\ Rested([a EXCEPT !.road = r])
    BY <1>1, <2>2, <2>3 DEF RoadSet, Kin, Rested, AtRest, Answering, Manoeuvring
  <2> QED BY <2>4 DEF r
<1>3. "cancelled" \in RouteResults
  BY DEF RouteResults
<1> QED BY <1>2, <1>3 DEF FinishStopped, RoadCancel, a

LEMMA FinishTakes ==
    ASSUME NEW m \in Cars, m.road.auto, NEW result PROVE TakenOver(m, FinishStopped(m, result))
<1>1. AllStopped(m) \in Cars /\ TakenOver(m, AllStopped(m))
  BY AllStoppedDoes
<1>2. FinishStopped(m, result).heading = AllStopped(m).heading
  BY <1>1 DEF FinishStopped, Cars
<1> QED BY <1>1, <1>2 DEF TakenOver

LEMMA RoadFinishedDoes ==
    ASSUME NEW m \in Cars, NEW l \in Cars, Agreed(l), l.road.auto = m.road.auto, l.adc8 = m.adc8, m.fault => l.fault
    PROVE  /\ Kin(m, RoadFinished(l)) /\ RoadFinished(l).heading = l.heading /\ RoadFinished(l).line = l.line
           /\ RoadFinished(l).claim = l.claim /\ RoadFinished(l).road.phase = "idle"
<1> DEFINE r == RoadEnded(l.road, "idle", "success")
<1>1. l.road \in RoadStates /\ "idle" \in RoadPhases /\ "success" \in RouteResults
  BY CarHas DEF RoadPhases, RouteResults
<1>2. r \in RoadStates /\ r.phase = "idle" /\ r.active = FALSE /\ r.auto = l.road.auto /\ r.result # "running"
  BY <1>1, EndedIs DEF Agreed
<1>3. RoadFinished(l) = [l EXCEPT !.road = r]
  BY DEF RoadFinished
<1> HIDE DEF r
<1>4. RoadSet(l, [l EXCEPT !.road = r], r)
  BY <1>2, RoadDoes
<1> QED BY <1>2, <1>3, <1>4 DEF RoadSet, Kin, Answering
-----------------------------------------------------------------------------
(* The wheels have an owner; and heading has them only for a manoeuvre. *)
Owned(c)  == Coherent(c) /\ Claimed(c)
InHand(c) == Owned(c) /\ Unheld(c)

LEMMA RestedInHand ==
    ASSUME NEW c, AtRest(c) PROVE InHand(c) /\ Parked(c)
BY DEF AtRest, InHand, Owned, Coherent, Claimed, Unheld, Parked, Turns, Manoeuvring

(* l is m as far as the road controller's settings and faults go. *)
Same(m, l) == l \in Cars /\ l.road.auto = m.road.auto /\ l.adc8 = m.adc8 /\ (m.fault => l.fault)

LEMMA FinishInHand ==
    ASSUME NEW m \in Cars, NEW l, Same(m, l), Agreed(l), NEW result \in RouteResults, result # "running"
    PROVE  Kin(m, FinishStopped(l, result)) /\ Rested(FinishStopped(l, result)) /\ InHand(FinishStopped(l, result))
<1>1. Kin(m, FinishStopped(l, result)) /\ Rested(FinishStopped(l, result))
  BY FinishDoes DEF Same
<1> QED BY <1>1, RestedInHand DEF Rested

LEMMA ControlErrorInHand ==
    ASSUME NEW m \in Cars, NEW l, Same(m, l), Agreed(l), NEW n, n = FinishStopped(l, "controlError")
    PROVE  Kin(m, n) /\ Rested(n) /\ InHand(n)
BY FinishInHand DEF RouteResults

(* n is m in phase p. *)
RoadNow(m, n, p) ==
    /\ n \in Cars /\ n.road.phase = p
    /\ n.road.active = m.road.active /\ n.road.result = m.road.result /\ n.road.auto = m.road.auto
    /\ n.heading = m.heading /\ n.line = m.line
    /\ n.claim = m.claim /\ n.fault = m.fault /\ n.adc8 = m.adc8

LEMMA PhaseDoes ==
    ASSUME NEW m \in Cars, NEW p \in RoadPhases, NEW k \in RunnerFrames, NEW b \in BOOLEAN
    PROVE  /\ RoadNow(m, [m EXCEPT !.road.phase = p], p)
           /\ RoadNow(m, [m EXCEPT !.road.frames = k], m.road.phase)
           /\ RoadNow(m, [m EXCEPT !.road.phase = p, !.road.frames = k], p)
           /\ RoadNow(m, [m EXCEPT !.road.pivot = b, !.road.frames = k], m.road.phase)
<1> DEFINE r == m.road
           r1 == [r EXCEPT !.phase = p]
           r2 == [r EXCEPT !.frames = k]
           r3 == [r EXCEPT !.phase = p, !.frames = k]
           r4 == [r EXCEPT !.pivot = b, !.frames = k]
<1>1. r \in RoadStates
  BY CarHas
<1>2. /\ r1 \in RoadStates /\ r1.phase = p /\ r1.active = r.active /\ r1.result = r.result /\ r1.auto = r.auto
      /\ r2 \in RoadStates /\ r2.phase = r.phase /\ r2.active = r.active /\ r2.result = r.result /\ r2.auto = r.auto
  BY <1>1 DEF RoadStates
<1>3. /\ r3 \in RoadStates /\ r3.phase = p /\ r3.active = r.active /\ r3.result = r.result /\ r3.auto = r.auto
  BY <1>1 DEF RoadStates
<1>4. /\ r4 \in RoadStates /\ r4.phase = r.phase /\ r4.active = r.active /\ r4.result = r.result /\ r4.auto = r.auto
  BY <1>1 DEF RoadStates
<1>5. /\ [m EXCEPT !.road.phase = p] = [m EXCEPT !.road = r1]
      /\ [m EXCEPT !.road.frames = k] = [m EXCEPT !.road = r2]
      /\ [m EXCEPT !.road.phase = p, !.road.frames = k] = [m EXCEPT !.road = r3]
      /\ [m EXCEPT !.road.pivot = b, !.road.frames = k] = [m EXCEPT !.road = r4]
  BY DEF Cars
<1> HIDE DEF r1, r2, r3, r4
<1>6. /\ RoadSet(m, [m EXCEPT !.road = r1], r1) /\ RoadSet(m, [m EXCEPT !.road = r2], r2)
      /\ RoadSet(m, [m EXCEPT !.road = r3], r3) /\ RoadSet(m, [m EXCEPT !.road = r4], r4)
  BY <1>2, <1>3, <1>4, RoadDoes
<1> QED BY <1>2, <1>3, <1>4, <1>5, <1>6 DEF RoadNow, RoadSet

(* n is m with a motion of heading that has just begun. *)
Begun(m, n, mode) ==
    /\ n \in Cars /\ n.heading.mode = mode /\ n.heading.at = FALSE
    /\ n.line = m.line /\ n.road = m.road
    /\ n.claim = m.claim /\ n.fault = m.fault /\ n.adc8 = m.adc8

LEMMA StartedDoes ==
    ASSUME NEW m \in Cars, NEW mode \in HeadingModes
    PROVE  /\ Begun(m, MotionStarted(m, mode), mode) /\ MotionStarted(m, mode).heading.rolling = FALSE
           /\ Begun(m, [MotionStarted(m, mode) EXCEPT !.heading.rolling = TRUE], mode)
<1> DEFINE i == HeadingIdle(m, TRUE, "cut")
           h == [i.heading EXCEPT !.mode = mode]
           s == MotionStarted(m, mode)
           g == [s.heading EXCEPT !.rolling = TRUE]
<1>1. Stilled(m, i, TRUE, "cut") /\ i.claim = m.claim
  BY IdleDoes DEF Endings
<1>2. s = [i EXCEPT !.heading = h]
  BY DEF MotionStarted
<1> HIDE DEF i, s
<1>3. i \in Cars /\ i.heading \in HeadingStates
  BY <1>1, CarHas DEF Stilled
<1>4. h \in HeadingStates /\ h.mode = mode /\ h.at = FALSE /\ h.rolling = FALSE
  BY <1>1, <1>3 DEF HeadingStates, Stilled
<1> HIDE DEF h
<1>5. s \in Cars /\ s.heading = h /\ Begun(m, s, mode)
  <2>1. [i EXCEPT !.heading = h] \in Cars
    BY <1>3, <1>4, CarExcept
  <2> QED BY <1>1, <1>2, <1>3, <1>4, <2>1 DEF Cars, Begun, Stilled
<1>6. g \in HeadingStates /\ g.mode = mode /\ g.at = FALSE
  BY <1>4, <1>5 DEF HeadingStates
<1>7. [s EXCEPT !.heading.rolling = TRUE] = [s EXCEPT !.heading = g]
  OBVIOUS
<1> HIDE DEF g
<1>8. Begun(m, [s EXCEPT !.heading = g], mode)
  <2>1. [s EXCEPT !.heading = g] \in Cars
    BY <1>5, <1>6, CarExcept
  <2> QED BY <1>5, <1>6, <2>1 DEF Cars, Begun
<1> QED BY <1>4, <1>5, <1>7, <1>8 DEF s

LEMMA TurnInHand ==
    ASSUME NEW m \in Cars, NEW l, Same(m, l), Agreed(l), NEW n \in StartTurn(l)
    PROVE  Kin(m, n) /\ (l.line.mode # "follow" /\ l.adc8 => InHand(n))
<1>1. l \in Cars
  BY DEF Same
<1>2. CASE n = FinishStopped(l, "controlError")
  BY <1>2, ControlErrorInHand
<1>3. ASSUME NEW t, NEW p \in {"turning", "pivotTurning"}, n = [t EXCEPT !.road.phase = p], t \in Cars,
             t.heading.mode \in {"arc", "turn"}, t.line = l.line, t.road = l.road, t.fault = l.fault, t.adc8 = l.adc8
      PROVE  Kin(m, n) /\ (l.line.mode # "follow" /\ l.adc8 => InHand(n))
  <2>1. p \in RoadPhases /\ 0 \in RunnerFrames
    BY DEF RoadPhases, RunnerFrames
  <2>2. RoadNow(t, n, p)
    BY <1>3, <2>1, PhaseDoes
  <2>3. Kin(m, n)
    BY <1>3, <2>2 DEF RoadNow, Kin, Same, Agreed, Answering, Manoeuvring
  <2>4. l.line.mode # "follow" /\ l.adc8 => InHand(n)
    BY <1>3, <2>2 DEF RoadNow, InHand, Owned, Coherent, Claimed, Unheld, Manoeuvring, Turns
  <2> QED BY <2>3, <2>4
<1>4. ASSUME NEW t \in ArcTurnStart(l), n = [t EXCEPT !.road.phase = "turning"]
      PROVE  Kin(m, n) /\ (l.line.mode # "follow" /\ l.adc8 => InHand(n))
  <2>1. t = MotionStarted(l, "arc") /\ "arc" \in HeadingModes
    BY <1>4 DEF ArcTurnStart, HeadingModes
  <2>2. Begun(l, t, "arc")
    BY <1>1, <2>1, StartedDoes
  <2> QED BY <1>3, <1>4, <2>2 DEF Begun
<1>5. ASSUME NEW t \in TurnStart(HeadingStopped(l, TRUE, l.heading.ended)),
       n = [t EXCEPT !.road.phase = "pivotTurning"]
      PROVE  Kin(m, n) /\ (l.line.mode # "follow" /\ l.adc8 => InHand(n))
  <2> DEFINE s == HeadingStopped(l, TRUE, l.heading.ended)
  <2>1. l.heading.ended \in Endings
    BY <1>1, CarHas DEF HeadingStates
  <2>2. Stilled(l, s, TRUE, l.heading.ended)
    BY <1>1, <2>1, StoppedDoes
  <2> HIDE DEF s
  <2>3. t = MotionStarted(s, "turn") /\ "turn" \in HeadingModes
    BY <1>5 DEF TurnStart, HeadingModes, s
  <2>4. Begun(s, t, "turn")
    BY <2>2, <2>3, StartedDoes DEF Stilled
  <2> QED BY <1>3, <1>5, <2>2, <2>4 DEF Begun, Stilled
<1>6. \/ n = FinishStopped(l, "controlError")
      \/ \E t \in ArcTurnStart(l) : n = [t EXCEPT !.road.phase = "turning"]
      \/ \E t \in TurnStart(HeadingStopped(l, TRUE, l.heading.ended)) : n = [t EXCEPT !.road.phase = "pivotTurning"]
  <2> DEFINE s == HeadingStopped(l, TRUE, l.heading.ended)
  <2>1. CASE l.road.pivot
    <3> HIDE DEF s
    <3>1. \/ n = FinishStopped(l, "controlError")
          \/ n \in UNION {{[t EXCEPT !.road.phase = "pivotTurning"] : t \in TurnStart(u)} : u \in {s}}
      BY <2>1 DEF StartTurn, OrStopped, s
    <3>2. \/ n = FinishStopped(l, "controlError")
          \/ \E t \in TurnStart(s) : n = [t EXCEPT !.road.phase = "pivotTurning"]
      BY <3>1
    <3> QED BY <3>2 DEF s
  <2>2. CASE ~l.road.pivot
    BY <2>2 DEF StartTurn, OrStopped
  <2> QED BY <2>1, <2>2
<1> QED BY <1>2, <1>4, <1>5, <1>6

LEMMA ManoeuvreInHand ==
    ASSUME NEW m \in Cars, NEW l, Same(m, l), Agreed(l), NEW pivot \in BOOLEAN, NEW n \in StartManeuver(l, pivot)
    PROVE  Kin(m, n) /\ (l.adc8 => InHand(n)) /\ (l.line.mode # "follow" => Rested(n))
<1> DEFINE u == LineIdle(l)
           o == [u EXCEPT !.road.pivot = pivot, !.road.frames = 0]
           d == [MotionStarted(o, "distance") EXCEPT !.heading.rolling = TRUE]
<1>1. l \in Cars
  BY DEF Same
<1>2. CASE l.line.mode # "follow"
  <2>1. n = FinishStopped(l, "controlError")
    BY <1>2 DEF StartManeuver
  <2> QED BY <2>1, ControlErrorInHand
<1>3. Unlined(l, u) /\ u \in Cars
  BY <1>1, LineEnds DEF Unlined
<1> HIDE DEF u
<1>4. RoadNow(u, o, u.road.phase)
  <2>1. "idle" \in RoadPhases /\ 0 \in RunnerFrames
    BY DEF RoadPhases, RunnerFrames
  <2> QED BY <1>3, <2>1, PhaseDoes
<1> HIDE DEF o
<1>5. Same(m, o) /\ Agreed(o) /\ o.line.mode # "follow" /\ o.adc8 = l.adc8 /\ o \in Cars
  BY <1>3, <1>4 DEF RoadNow, Unlined, Same, Agreed
<1>6. ASSUME n \in StartTurn(o) PROVE Kin(m, n) /\ (l.adc8 => InHand(n))
  BY <1>5, <1>6, TurnInHand
<1>7. ASSUME n = FinishStopped(o, "controlError") PROVE Kin(m, n) /\ (l.adc8 => InHand(n))
  BY <1>5, <1>7, ControlErrorInHand
<1>8. ASSUME n = [d EXCEPT !.road.phase = "aligning"] PROVE Kin(m, n) /\ (l.adc8 => InHand(n))
  <2>1. Begun(o, d, "distance")
    BY <1>5, StartedDoes DEF HeadingModes
  <2> HIDE DEF d
  <2>2. RoadNow(d, n, "aligning")
    <3>1. "aligning" \in RoadPhases /\ 0 \in RunnerFrames
      BY DEF RoadPhases, RunnerFrames
    <3> QED BY <1>8, <2>1, <3>1, PhaseDoes DEF Begun
  <2>3. Kin(m, n)
    BY <1>5, <2>1, <2>2 DEF RoadNow, Begun, Kin, Same, Agreed, Answering, Manoeuvring
  <2>4. l.adc8 => InHand(n)
    BY <1>5, <2>1, <2>2 DEF RoadNow, Begun, InHand, Owned, Coherent, Claimed, Unheld, Manoeuvring, Turns
  <2> QED BY <2>3, <2>4
<1>9. CASE l.line.mode = "follow"
  <2>1. \/ n \in StartTurn(o)
        \/ \E c \in RollingStart(o) : n = [c EXCEPT !.road.phase = "aligning"]
        \/ n = FinishStopped(o, "controlError")
    BY <1>9 DEF StartManeuver, OrStopped, o, u
  <2>2. \A c \in RollingStart(o) : c = d
    BY DEF RollingStart
  <2> QED BY <1>6, <1>7, <1>8, <1>9, <2>1, <2>2
<1> QED BY <1>2, <1>9

LEMMA LineStarts ==
    ASSUME NEW m \in Cars, NEW timed \in BOOLEAN, NEW n \in LineStart(m, timed)
    PROVE  /\ n \in Cars /\ n.line.mode = "follow" /\ n.heading = m.heading /\ n.road = m.road
           /\ n.claim = m.claim /\ n.fault = m.fault /\ n.adc8 = m.adc8
           /\ ~m.fault /\ m.line.mode = "idle"
<1> DEFINE l == [mode |-> "follow", timed |-> timed]
<1>1. l \in LineStates /\ l.mode = "follow"
  BY DEF LineStates, LineModes
<1>2. n = [m EXCEPT !.line = l] /\ ~m.fault /\ m.line.mode = "idle"
  BY DEF LineStart
<1> HIDE DEF l
<1> QED BY <1>1, <1>2, LineDoes

LEMMA HandoffInHand ==
    ASSUME NEW m \in Cars, NEW l, Same(m, l), Agreed(l), NEW mode, NEW n \in LineHandoff(l, mode)
    PROVE  Kin(m, n) /\ InHand(n)
<1>1. l \in Cars
  BY DEF Same
<1>2. CASE n = FinishStopped(l, "controlError")
  BY <1>2, ControlErrorInHand
<1>3. ASSUME NEW f \in LineStart(l, TRUE) \cup LineStart(l, FALSE), n = FinishStopped(f, "controlError")
      PROVE  Kin(m, n) /\ InHand(n)
  <2>1. f \in Cars /\ f.road = l.road /\ f.fault = l.fault /\ f.adc8 = l.adc8
    BY <1>1, <1>3, LineStarts
  <2>2. Same(m, f) /\ Agreed(f)
    BY <2>1 DEF Same, Agreed
  <2> QED BY <1>3, <2>2, ControlErrorInHand
<1>4. ASSUME NEW f \in LineStart(l, TRUE) \cup LineStart(l, FALSE), NEW r \in Released(f, mode), n = RoadFinished(r)
      PROVE  Kin(m, n) /\ InHand(n)
  <2>1. f \in Cars /\ f.line.mode = "follow" /\ f.road = l.road /\ f.fault = l.fault /\ f.adc8 = l.adc8
    BY <1>1, <1>4, LineStarts
  <2>2. r = HeadingIdle(f, TRUE, "reached") \/ r = HeadingIdle(f, TRUE, "cut")
    BY <1>4 DEF Released, ReleaseForMotionHandoff, HoldReleaseForMotionHandoff
  <2>3. r \in Cars /\ r.heading.mode = "idle" /\ r.line = f.line
         /\ r.road = f.road /\ r.fault = f.fault /\ r.adc8 = f.adc8
    <3>1. Stilled(f, HeadingIdle(f, TRUE, "reached"), TRUE, "reached")
           /\ Stilled(f, HeadingIdle(f, TRUE, "cut"), TRUE, "cut")
      BY <2>1, IdleDoes DEF Endings
    <3> QED BY <2>2, <3>1 DEF Stilled
  <2>4. Same(m, r) /\ Agreed(r)
    BY <2>1, <2>3 DEF Same, Agreed
  <2>5. Kin(m, n) /\ n.heading.mode = "idle" /\ n.line.mode = "follow" /\ n.road.phase = "idle"
    BY <1>4, <2>1, <2>3, <2>4, RoadFinishedDoes DEF Same
  <2>6. InHand(n)
    BY <2>5 DEF InHand, Owned, Coherent, Claimed, Unheld, Manoeuvring, Turns
  <2> QED BY <2>5, <2>6
<1>5. CASE l.road.frames < 2
  <2>1. n \in {}
    BY <1>5, Zenon DEF LineHandoff
  <2> QED BY <2>1
<1>6. CASE ~(l.road.frames < 2) /\ l.line.mode # "idle"
  BY <1>2, <1>6 DEF LineHandoff
<1>7. CASE ~(l.road.frames < 2) /\ l.line.mode = "idle"
  <2>1. PICK f \in LineStart(l, TRUE) \cup LineStart(l, FALSE) :
           n \in LET let == Released(f, mode)
                 IN  IF let = {} THEN {FinishStopped(f, "controlError")} ELSE {RoadFinished(r) : r \in let}
    BY <1>7 DEF LineHandoff
  <2>2. n = FinishStopped(f, "controlError") \/ \E r \in Released(f, mode) : n = RoadFinished(r)
    BY <2>1
  <2> QED BY <1>3, <1>4, <2>2
<1> QED BY <1>5, <1>6, <1>7

LEMMA ObservedIs ==
    ASSUME NEW m \in Cars, NEW enabled, NEW n \in Observed(m, enabled)
    PROVE  RoadNow(m, n, m.road.phase)
<1>1. m.road \in RoadStates /\ m.road.phase \in RoadPhases /\ m.road.frames \in 0 .. 2
  BY CarHas DEF RoadStates, RunnerFrames
<1>2. PICK k \in (IF enabled THEN {m.road.frames, 0, IF m.road.frames < 2 THEN m.road.frames + 1 ELSE 2} ELSE {0}) :
         n = [m EXCEPT !.road.frames = k]
  BY DEF Observed
<1>3. k \in RunnerFrames
  BY <1>1, <1>2 DEF RunnerFrames
<1> QED BY <1>1, <1>2, <1>3, PhaseDoes

-----------------------------------------------------------------------------
(* The road controller, phase by phase: what it holds of a car in a manoeuvre. *)
(* n is what the road controller makes of m in a manoeuvre. *)
Steered(m, n) == Kin(m, n) /\ (Owned(m) => InHand(n))

LEMMA InterruptedSteers ==
    ASSUME NEW m \in Cars, Answering(m), NEW n \in Interrupted(m) PROVE Steered(m, n)
BY ControlErrorInHand DEF Interrupted, Steered, Same, Agreed, Answering

(* A manoeuvre that goes on, perhaps in its next phase. *)
LEMMA OnwardSteers ==
    ASSUME NEW m \in Cars, Answering(m), Manoeuvring(m), ~HandedOver(m),
           NEW p \in RoadPhases \ {"idle", "stopped"}, NEW n, RoadNow(m, n, p),
           p \in Turns <=> m.road.phase \in Turns, m.heading.mode = "distance" => p = m.road.phase
    PROVE  Steered(m, n)
<1>1. Kin(m, n)
  BY DEF RoadNow, Kin, Answering, Manoeuvring
<1>2. m.road.phase \in RoadPhases
  BY CarHas DEF RoadStates
<1>3. Coherent(m) /\ Claimed(m) => InHand(n)
  BY <1>2 DEF RoadNow, InHand, Owned, Coherent, Claimed, Unheld, Manoeuvring, Turns, RoadPhases
<1> QED BY <1>1, <1>3 DEF Steered, Owned

LEMMA ItselfSteers ==
    ASSUME NEW m \in Cars, Answering(m), Manoeuvring(m), ~HandedOver(m) PROVE Steered(m, m)
<1>1. RoadNow(m, m, m.road.phase)
  BY DEF RoadNow
<1>2. m.road.phase \in RoadPhases \ {"idle", "stopped"}
  BY CarHas DEF RoadStates, Manoeuvring
<1> QED BY <1>1, <1>2, OnwardSteers

LEMMA ArmingSteers ==
    ASSUME NEW m \in Cars, Answering(m), m.road.phase = "arming", NEW n \in ArmingUpdate(m) PROVE Steered(m, n)
<1>1. Manoeuvring(m) /\ ~HandedOver(m)
  BY DEF Manoeuvring, HandedOver
<1>2. CASE n = m
  BY <1>1, <1>2, ItselfSteers
<1>3. CASE n = [m EXCEPT !.road.phase = "following"] /\ m.heading.mode # "distance"
  <2>1. "following" \in RoadPhases \ {"idle", "stopped"} /\ "following" \notin Turns /\ "arming" \notin Turns
        /\ 0 \in RunnerFrames
    BY DEF RoadPhases, Turns, RunnerFrames
  <2>2. RoadNow(m, n, "following")
    BY <1>3, <2>1, PhaseDoes
  <2> QED BY <1>1, <1>3, <2>1, <2>2, OnwardSteers
<1>4. CASE n = [m EXCEPT !.road.phase = "following"] /\ m.heading.mode = "distance"
  <2>1. "following" \in RoadPhases /\ 0 \in RunnerFrames
    BY DEF RoadPhases, RunnerFrames
  <2>2. RoadNow(m, n, "following")
    BY <1>4, <2>1, PhaseDoes
  <2>3. Kin(m, n)
    BY <1>1, <2>2 DEF RoadNow, Kin, Answering, Manoeuvring
  <2> QED BY <1>4, <2>3 DEF Steered, Owned, Coherent
<1> QED BY <1>2, <1>3, <1>4, InterruptedSteers DEF ArmingUpdate

LEMMA RouteSteers ==
    ASSUME NEW m \in Cars, Answering(m), m.road.phase = "following", m.line.mode = "follow", NEW n \in RouteEvent(m)
    PROVE  Steered(m, n)
<1>1. Same(m, m) /\ Agreed(m) /\ Manoeuvring(m)
  BY DEF Same, Agreed, Answering, Manoeuvring
<1>2. CASE n = FinishStopped(m, "unavailable")
  BY <1>1, <1>2, FinishInHand DEF RouteResults, Steered
<1>3. CASE n = RoadFinished(m)
  <2>1. /\ Kin(m, n) /\ n.heading = m.heading /\ n.line = m.line /\ n.claim = m.claim /\ n.road.phase = "idle"
    BY <1>1, <1>3, RoadFinishedDoes
  <2>2. Owned(m) => InHand(n)
    BY <2>1 DEF InHand, Owned, Coherent, Claimed, Unheld, Manoeuvring, Turns
  <2> QED BY <2>1, <2>2 DEF Steered
<1>4. ASSUME NEW b \in BOOLEAN, n \in StartManeuver(m, b) PROVE Steered(m, n)
  BY <1>1, <1>4, ManoeuvreInHand DEF Steered, Owned, Coherent
<1> QED BY <1>2, <1>3, <1>4 DEF RouteEvent

LEMMA FollowingSteers ==
    ASSUME NEW m \in Cars, Answering(m), m.road.phase = "following", NEW n \in FollowingUpdate(m)
    PROVE Steered(m, n)
<1>1. Manoeuvring(m) /\ ~HandedOver(m)
  BY DEF Manoeuvring, HandedOver
<1> QED BY <1>1, ItselfSteers, RouteSteers, InterruptedSteers DEF FollowingUpdate

LEMMA AligningSteers ==
    ASSUME NEW m \in Cars, Answering(m), m.road.phase = "aligning", NEW n \in AligningUpdate(m) PROVE Steered(m, n)
<1>1. Same(m, m) /\ Agreed(m) /\ Manoeuvring(m) /\ "aligning" \in Turns
  BY DEF Same, Agreed, Answering, Manoeuvring, Turns
<1>2. CASE m.heading.mode = "distance"
  <2>1. n = m /\ ~HandedOver(m)
    BY <1>2 DEF AligningUpdate, HandedOver
  <2> QED BY <1>1, <2>1, ItselfSteers
<1>3. CASE m.heading.mode = "idle" /\ m.heading.ok
  <2>1. n \in StartTurn(m)
    BY <1>3 DEF AligningUpdate
  <2> QED BY <1>1, <2>1, TurnInHand DEF Steered, Owned, Coherent
<1>4. CASE m.heading.mode # "distance" /\ ~(m.heading.mode = "idle" /\ m.heading.ok)
  BY <1>4, InterruptedSteers DEF AligningUpdate
<1> QED BY <1>2, <1>3, <1>4

(* A frame is looked at in the course of a turn, then the car goes on or is handed over. *)
LEMMA ObservedSteers ==
    ASSUME NEW m \in Cars, Answering(m), m.road.phase \in Turns \ {"aligning"}, m.heading.mode # "distance",
           NEW enabled, NEW o \in Observed(m, enabled)
    PROVE  /\ Steered(m, o)
           /\ \A mode : \A n \in LineHandoff(o, mode) : Steered(m, n)
           /\ Steered(m, FinishStopped(o, "reacquireFailed"))
           /\ Steered(m, [o EXCEPT !.road.phase = "reacquire"])
<1>1. RoadNow(m, o, m.road.phase)
  BY ObservedIs
<1>2. Manoeuvring(m) /\ ~HandedOver(m) /\ m.road.phase \in RoadPhases \ {"idle", "stopped"}
  BY DEF Manoeuvring, HandedOver, Turns, RoadPhases
<1>3. Steered(m, o)
  BY <1>1, <1>2, OnwardSteers
<1>4. Same(m, o) /\ Agreed(o)
  BY <1>1 DEF RoadNow, Same, Agreed, Answering
<1>5. \A mode : \A n \in LineHandoff(o, mode) : Steered(m, n)
  BY <1>4, HandoffInHand DEF Steered
<1>6. Steered(m, FinishStopped(o, "reacquireFailed"))
  BY <1>4, FinishInHand DEF RouteResults, Steered
<1>7. Steered(m, [o EXCEPT !.road.phase = "reacquire"])
  <2>1. "reacquire" \in RoadPhases \ {"idle", "stopped"} /\ "reacquire" \in Turns /\ 0 \in RunnerFrames /\ o \in Cars
    BY <1>1 DEF RoadPhases, Turns, RunnerFrames, RoadNow
  <2>2. RoadNow(o, [o EXCEPT !.road.phase = "reacquire"], "reacquire")
    BY <2>1, PhaseDoes
  <2>3. RoadNow(m, [o EXCEPT !.road.phase = "reacquire"], "reacquire")
    BY <1>1, <2>2 DEF RoadNow
  <2> QED BY <1>2, <2>1, <2>3, OnwardSteers
<1> QED BY <1>3, <1>5, <1>6, <1>7

LEMMA TurningSteers ==
    ASSUME NEW m \in Cars, Answering(m), m.road.phase = "turning", NEW n \in TurningUpdate(m) PROVE Steered(m, n)
<1>1. CASE m.heading.mode # "arc"
  BY <1>1, InterruptedSteers DEF TurningUpdate
<1>2. CASE m.heading.mode = "arc"
  <2>1. PICK o \in Observed(m, TRUE) :
           n = o \/ n = [o EXCEPT !.road.phase = "reacquire"] \/ n \in LineHandoff(o, "arc")
    BY <1>2 DEF TurningUpdate
  <2>2. m.road.phase \in Turns \ {"aligning"}
    BY DEF Turns
  <2> QED BY <1>2, <2>1, <2>2, ObservedSteers
<1> QED BY <1>1, <1>2

LEMMA PivotSteers ==
    ASSUME NEW m \in Cars, Answering(m), m.road.phase = "pivotTurning", NEW n \in PivotTurningUpdate(m)
    PROVE  Steered(m, n)
<1>1. Same(m, m) /\ Agreed(m) /\ Manoeuvring(m) /\ ~HandedOver(m) /\ "pivotTurning" \in Turns
  BY DEF Same, Agreed, Answering, Manoeuvring, Turns, HandedOver
<1>2. CASE m.heading.mode = "turn"
  BY <1>1, <1>2, ItselfSteers DEF PivotTurningUpdate
<1>3. ASSUME NEW h \in HoldStart(m), n = [h EXCEPT !.road.phase = "pivotReacquire", !.road.frames = 0]
      PROVE  Steered(m, n)
  <2>1. h = MotionStarted(m, "hold") /\ "hold" \in HeadingModes
    BY <1>3 DEF HoldStart, HeadingModes
  <2>2. Begun(m, h, "hold")
    BY <2>1, StartedDoes
  <2>3. RoadNow(h, n, "pivotReacquire")
    <3>1. "pivotReacquire" \in RoadPhases /\ 0 \in RunnerFrames /\ h \in Cars
      BY <2>2 DEF RoadPhases, RunnerFrames, Begun
    <3> QED BY <1>3, <3>1, PhaseDoes
  <2>4. Kin(m, n)
    BY <1>1, <2>2, <2>3 DEF Begun, RoadNow, Kin, Answering, Manoeuvring
  <2>5. Owned(m) => InHand(n)
    BY <1>1, <2>2, <2>3 DEF Begun, RoadNow, InHand, Owned, Coherent, Claimed, Unheld, Manoeuvring, Turns
  <2> QED BY <2>4, <2>5 DEF Steered
<1>4. CASE m.heading.mode = "idle" /\ m.heading.ok
  <2>1. \/ n = FinishStopped(m, "controlError")
        \/ \E h \in HoldStart(m) : n = [h EXCEPT !.road.phase = "pivotReacquire", !.road.frames = 0]
    BY <1>4 DEF PivotTurningUpdate, OrStopped
  <2> QED BY <1>1, <1>3, <2>1, ControlErrorInHand DEF Steered
<1>5. CASE m.heading.mode # "turn" /\ ~(m.heading.mode = "idle" /\ m.heading.ok)
  BY <1>5, InterruptedSteers DEF PivotTurningUpdate
<1> QED BY <1>2, <1>4, <1>5

LEMMA ReacquireSteers ==
    ASSUME NEW m \in Cars, Answering(m), m.road.phase \in {"reacquire", "pivotReacquire"}, NEW after,
           NEW mode \in {"arc", "hold"}, NEW n \in ReacquireUpdate(m, after, mode)
    PROVE  Steered(m, n)
<1>1. CASE m.heading.mode # mode
  BY <1>1, InterruptedSteers DEF ReacquireUpdate
<1>2. CASE m.heading.mode = mode
  <2> DEFINE enabled == mode = "hold" \/ m.heading.at
  <2>1. PICK o \in Observed(m, enabled) :
           n = o \/ n = FinishStopped(o, "reacquireFailed") \/ n \in LineHandoff(o, mode)
    BY <1>2 DEF ReacquireUpdate
  <2>2. m.road.phase \in Turns \ {"aligning"}
    BY DEF Turns
  <2> HIDE DEF enabled
  <2> QED BY <1>2, <2>1, <2>2, ObservedSteers
<1> QED BY <1>1, <1>2

(* What RoadEventController_Update may make of m, in a manoeuvre or out of one. *)
RoadGives(m, n) ==
    /\ Kin(m, n)
    /\ Owned(m) => Owned(n) /\ (Unheld(m) => Unheld(n))
    /\ Parked(m) => n = m \/ (Rested(n) /\ TakenOver(m, n))

LEMMA SteeredGives ==
    ASSUME NEW m, NEW n, Steered(m, n), Manoeuvring(m) PROVE RoadGives(m, n)
BY DEF Steered, RoadGives, InHand, Parked

LEMMA UnchangedGives ==
    ASSUME NEW m \in Cars, Answering(m), ~Manoeuvring(m) \/ ~m.adc8 PROVE RoadGives(m, m)
BY DEF RoadGives, Kin, Owned, Coherent, Manoeuvring

(* Out of a manoeuvre, the controller takes a free junction or leaves the car alone. *)
LEMMA FreeGives ==
    ASSUME NEW m \in Cars, Answering(m), ~Manoeuvring(m), m.adc8,
           NEW n \in FreeEvent(IF m.road.phase = "stopped" /\ m.line.mode = "follow"
                               THEN [m EXCEPT !.road.phase = "idle"] ELSE m)
    PROVE  RoadGives(m, n)
<1> DEFINE o == IF m.road.phase = "stopped" /\ m.line.mode = "follow" THEN [m EXCEPT !.road.phase = "idle"] ELSE m
<1>1. RoadNow(m, o, m.road.phase) \/ (RoadNow(m, o, "idle") /\ m.line.mode = "follow")
  <2>1. "idle" \in RoadPhases /\ 0 \in RunnerFrames
    BY DEF RoadPhases, RunnerFrames
  <2>2. RoadNow(m, m, m.road.phase)
    BY DEF RoadNow
  <2> QED BY <2>1, <2>2, PhaseDoes
<1>2. m.line.mode # "follow" => o = m
  OBVIOUS
<1> HIDE DEF o
<1>3. Same(m, o) /\ Agreed(o) /\ ~Manoeuvring(o) /\ ~o.road.active /\ o.line = m.line
  BY <1>1 DEF RoadNow, Same, Agreed, Answering, Manoeuvring
<1>4. Kin(m, o) /\ (Owned(m) => Owned(o) /\ (Unheld(m) => Unheld(o)))
  BY <1>1, <1>3 DEF RoadNow, Kin, Agreed, Same, Answering, Owned, Coherent, Claimed, HandedOver, Unheld,
                    Manoeuvring, Turns
<1>5. CASE n = o
  BY <1>2, <1>4, <1>5 DEF RoadGives, Parked
<1>6. CASE o.road.auto /\ n \in StartManeuver(o, FALSE)
  <2>1. Kin(m, n) /\ (o.adc8 => InHand(n)) /\ (o.line.mode # "follow" => Rested(n))
    BY <1>3, <1>6, ManoeuvreInHand
  <2>2. o.line.mode # "follow" => TakenOver(o, n)
    <3> SUFFICES ASSUME o.line.mode # "follow" PROVE TakenOver(o, n)
      OBVIOUS
    <3>1. n = FinishStopped(o, "controlError")
      BY <1>6 DEF StartManeuver
    <3> QED BY <1>3, <1>6, <3>1, FinishTakes DEF Same
  <2> QED BY <1>2, <1>3, <1>6, <2>1, <2>2 DEF RoadGives, InHand, Same, Parked
<1>7. CASE o.line.mode = "follow" /\ n = FinishStopped(o, "controlError")
  <2>1. Kin(m, n) /\ InHand(n)
    BY <1>3, <1>7, ControlErrorInHand
  <2> QED BY <1>3, <1>7, <2>1 DEF RoadGives, InHand, Parked
<1>8. n = o \/ (o.road.auto /\ n \in StartManeuver(o, FALSE))
       \/ (o.line.mode = "follow" /\ n = FinishStopped(o, "controlError"))
  BY DEF FreeEvent, o
<1> QED BY <1>5, <1>6, <1>7, <1>8

LEMMA RoadGivesThat ==
    ASSUME NEW m \in Cars, Answering(m), NEW after, NEW n \in RoadUpdate(m, after)
    PROVE  RoadGives(m, n)
<1>1. Same(m, m) /\ Agreed(m) /\ m.adc8 \in BOOLEAN /\ m.fault \in BOOLEAN
  BY CarHas DEF Same, Agreed, Answering
<1>2. ASSUME NEW result \in RouteResults, result # "running", RoadBusy(m), n = FinishStopped(m, result)
      PROVE  RoadGives(m, n)
  <2>1. Kin(m, n) /\ InHand(n)
    BY <1>1, <1>2, FinishInHand
  <2>2. Manoeuvring(m)
    BY <1>2 DEF RoadBusy, Answering
  <2> QED BY <2>1, <2>2 DEF RoadGives, InHand, Parked
<1>3. CASE ~m.adc8
  BY <1>3, UnchangedGives DEF RoadUpdate
<1>4. CASE m.adc8 /\ m.fault
  <2>1. n \in IF RoadBusy(m) THEN {FinishStopped(m, "fault")} ELSE {m}
    BY <1>4 DEF RoadUpdate
  <2> QED BY <1>2, <2>1, UnchangedGives DEF RoadBusy, RouteResults
<1>5. CASE m.adc8 /\ ~m.fault /\ m.road.active /\ "route" \in after
  <2>1. n = FinishStopped(m, "timeout")
    BY <1>5 DEF RoadUpdate
  <2> QED BY <1>2, <1>5, <2>1 DEF RoadBusy, RouteResults
<1>6. CASE m.adc8 /\ ~m.fault /\ ~(m.road.active /\ "route" \in after)
  <2>1. n \in CASE m.road.phase = "arming"         -> ArmingUpdate(m)
                [] m.road.phase = "following"      -> FollowingUpdate(m)
                [] m.road.phase = "aligning"       -> AligningUpdate(m)
                [] m.road.phase = "turning"        -> TurningUpdate(m)
                [] m.road.phase = "pivotTurning"   -> PivotTurningUpdate(m)
                [] m.road.phase = "reacquire"      -> ReacquireUpdate(m, after, "arc")
                [] m.road.phase = "pivotReacquire" -> ReacquireUpdate(m, after, "hold")
                [] OTHER -> FreeEvent(IF m.road.phase = "stopped" /\ m.line.mode = "follow"
                                      THEN [m EXCEPT !.road.phase = "idle"] ELSE m)
    BY <1>6 DEF RoadUpdate
  <2>2. m.road.phase \in RoadPhases
    BY CarHas DEF RoadStates
  <2>3. CASE m.road.phase = "arming"
    <3>1. n \in ArmingUpdate(m) /\ Manoeuvring(m)
      BY <2>1, <2>3 DEF Manoeuvring
    <3> QED BY <2>3, <3>1, ArmingSteers, SteeredGives
  <2>4. CASE m.road.phase = "following"
    <3>1. n \in FollowingUpdate(m) /\ Manoeuvring(m)
      BY <2>1, <2>4 DEF Manoeuvring
    <3> QED BY <2>4, <3>1, FollowingSteers, SteeredGives
  <2>5. CASE m.road.phase = "aligning"
    <3>1. n \in AligningUpdate(m) /\ Manoeuvring(m)
      BY <2>1, <2>5 DEF Manoeuvring
    <3> QED BY <2>5, <3>1, AligningSteers, SteeredGives
  <2>6. CASE m.road.phase = "turning"
    <3>1. n \in TurningUpdate(m) /\ Manoeuvring(m)
      BY <2>1, <2>6 DEF Manoeuvring
    <3> QED BY <2>6, <3>1, TurningSteers, SteeredGives
  <2>7. CASE m.road.phase = "pivotTurning"
    <3>1. n \in PivotTurningUpdate(m) /\ Manoeuvring(m)
      BY <2>1, <2>7 DEF Manoeuvring
    <3> QED BY <2>7, <3>1, PivotSteers, SteeredGives
  <2>8. CASE m.road.phase = "reacquire"
    <3>1. n \in ReacquireUpdate(m, after, "arc") /\ Manoeuvring(m)
      BY <2>1, <2>8 DEF Manoeuvring
    <3> QED BY <2>8, <3>1, ReacquireSteers, SteeredGives
  <2>9. CASE m.road.phase = "pivotReacquire"
    <3>1. n \in ReacquireUpdate(m, after, "hold") /\ Manoeuvring(m)
      BY <2>1, <2>9 DEF Manoeuvring
    <3> QED BY <2>9, <3>1, ReacquireSteers, SteeredGives
  <2>10. CASE m.road.phase \in {"idle", "stopped"}
    <3>1. n \in FreeEvent(IF m.road.phase = "stopped" /\ m.line.mode = "follow"
                          THEN [m EXCEPT !.road.phase = "idle"] ELSE m)
      BY <2>1, <2>10
    <3> QED BY <1>6, <2>10, <3>1, FreeGives DEF Manoeuvring
  <2> QED BY <2>2, <2>3, <2>4, <2>5, <2>6, <2>7, <2>8, <2>9, <2>10 DEF RoadPhases
<1> QED BY <1>1, <1>3, <1>4, <1>5, <1>6

-----------------------------------------------------------------------------
(* Line following, which only ever drives a car that follows the line. *)
LineGives(m, n) ==
    /\ n \in Cars /\ n.heading = m.heading /\ n.road = m.road /\ n.adc8 = m.adc8 /\ (m.fault => n.fault)
    /\ n.line.mode = m.line.mode \/ (n.line.mode = "idle" /\ (m.line.mode = "follow" => ~n.claim))
    /\ n.claim => m.claim \/ m.line.mode = "follow"

LEMMA LineGivesThat ==
    ASSUME NEW m \in Cars, NEW after, NEW n \in LineUpdate(m, after) PROVE LineGives(m, n)
<1>1. m.line.mode \in LineModes
  BY CarHas DEF LineStates
<1>2. CASE n = m
  BY <1>2 DEF LineGives
<1>3. CASE m.line.mode = "cal" /\ n = LineIdle(m)
  BY <1>3, LineEnds DEF LineGives, Unlined
<1>4. CASE n = LineStop(m) \/ n = Faulted(LineStop(m))
  <2>1. Unlined(m, LineStop(m)) /\ LineStop(m).claim = FALSE /\ LineStop(m) \in Cars
    BY LineEnds DEF Unlined
  <2>2. Touched(LineStop(m), Faulted(LineStop(m))) /\ Faulted(LineStop(m)).claim = LineStop(m).claim
        /\ Faulted(LineStop(m)).fault
    BY <2>1, FaultedDoes
  <2>3. Unlined(m, LineStop(m)) /\ LineGives(m, LineStop(m))
    BY <2>1 DEF LineGives, Unlined
  <2>4. LineGives(m, Faulted(LineStop(m)))
    BY <2>1, <2>2 DEF LineGives, Unlined, Touched
  <2> QED BY <1>4, <2>3, <2>4
<1>5. CASE m.line.mode = "follow" /\ n = Driven(m)
  BY <1>5, FaultedDoes DEF LineGives, Touched
<1>6. \/ n = m
      \/ m.line.mode = "cal" /\ n = LineIdle(m)
      \/ n = LineStop(m)
      \/ n = Faulted(LineStop(m))
      \/ m.line.mode = "follow" /\ n = Driven(m)
  BY <1>1 DEF LineUpdate, LineModes
<1> QED BY <1>2, <1>3, <1>4, <1>5, <1>6

-----------------------------------------------------------------------------
(* The runner.  A pair of a car and a run is what its operations work on. *)
CarPlaces == 1 .. Count + 1
Laps == [DOMAIN program -> 0 .. Repeats]
CarRuns == [on : BOOLEAN, at : CarPlaces, started : BOOLEAN, preserve : BOOLEAN, success : BOOLEAN,
         result : Results, laps : Laps]
Pairs == [car : Cars, run : CarRuns]
StepLoaded == program \in RunnerPrograms

LEMMA CarProgramIs ==
    ASSUME RunnerConstants, StepLoaded
    PROVE  /\ Count \in Nat \ {0} /\ DOMAIN program = 1 .. Count
           /\ \A i \in 1 .. Count : program[i].next \in 0 .. Count /\ program[i].other \in 0 .. Count
<1>1. LegalPlan(program)
  BY DEF RunnerConstants, StepLoaded
<1>2. Count \in Nat /\ DOMAIN program = 1 .. Count /\ Count > 0
  BY <1>1 DEF LegalPlan, Count
<1> QED BY <1>1, <1>2 DEF LegalPlan, Count, TargetsOf

LEMMA OpeningIs ==
    ASSUME RunnerConstants PROVE Opening \in Laps
BY DEF Opening, Laps, RunnerConstants

(* q is r in the same place with the same counts. *)
Like(r, q) == q \in CarRuns /\ q.at = r.at /\ q.on = r.on /\ q.laps = r.laps /\ q.result = r.result

LEMMA PreserveIs ==
    ASSUME NEW r \in CarRuns, NEW b \in BOOLEAN
    PROVE  LET q == [r EXCEPT !.preserve = b] IN
           Like(r, q) /\ q.preserve = b /\ q.started = r.started /\ q.success = r.success
BY DEF CarRuns, Like

LEMMA SuccessIs ==
    ASSUME NEW r \in CarRuns, NEW b \in BOOLEAN
    PROVE  LET q == [r EXCEPT !.success = b] IN
           Like(r, q) /\ q.preserve = r.preserve /\ q.started = r.started /\ q.success = b
BY DEF CarRuns, Like

LEMMA StartedIs ==
    ASSUME NEW r \in CarRuns, NEW b \in BOOLEAN, NEW d \in BOOLEAN
    PROVE  LET p == [r EXCEPT !.started = b]
               q == [r EXCEPT !.started = b, !.preserve = d]
               u == [r EXCEPT !.started = b, !.success = d]
           IN  /\ Like(r, p) /\ p.preserve = r.preserve /\ p.started = b /\ p.success = r.success
               /\ Like(r, q) /\ q.preserve = d /\ q.started = b /\ q.success = r.success
               /\ Like(r, u) /\ u.preserve = r.preserve /\ u.started = b /\ u.success = d
BY DEF CarRuns, Like

LEMMA PlaceIs ==
    ASSUME NEW r \in CarRuns, NEW k \in CarPlaces
    PROVE  LET q == [r EXCEPT !.at = k] IN
           /\ q \in CarRuns /\ q.at = k /\ q.on = r.on
           /\ q.preserve = r.preserve /\ q.started = r.started /\ q.success = r.success
BY DEF CarRuns

LEMMA LapsIs ==
    ASSUME NEW r \in CarRuns, NEW b \in BOOLEAN, NEW l \in Laps
    PROVE  LET q == [r EXCEPT !.success = b, !.laps = l] IN
           q \in CarRuns /\ q.at = r.at /\ q.on = r.on /\ q.preserve = r.preserve /\ q.started = r.started
BY DEF CarRuns

LEMMA EndedDoes ==
    ASSUME RunnerConstants, NEW r \in CarRuns, NEW b \in BOOLEAN, NEW result \in Results
    PROVE  /\ Ended(r, b, result) \in CarRuns /\ Ended(r, b, result).on = FALSE
           /\ Ended(r, b, result).success = b /\ Ended(r, b, result).started = r.started
BY OpeningIs DEF Ended, CarRuns

LEMMA PairHas ==
    ASSUME NEW s \in Pairs
    PROVE  s.car \in Cars /\ s.run \in CarRuns /\ s = [car |-> s.car, run |-> s.run]
BY DEF Pairs

LEMMA PairOf ==
    ASSUME NEW s \in Pairs, NEW r \in CarRuns, NEW c \in Cars
    PROVE  /\ [s EXCEPT !.run = r] \in Pairs /\ [s EXCEPT !.run = r].car = s.car /\ [s EXCEPT !.run = r].run = r
           /\ [car |-> c, run |-> r] \in Pairs
BY DEF Pairs

-----------------------------------------------------------------------------
(* In the course of a program, and the wheels as they may be between two steps of it. *)
Between(s) == s \in Pairs /\ Answering(s.car) /\ s.run.on /\ s.run.at <= Count
CarFree(s) ==
    /\ Owned(s.car)
    /\ s.run.preserve => Unheld(s.car)
    /\ ~s.run.preserve => AtRest(s.car)

(* The next step has yet to start, or the program has ended. *)
Settled(s) ==
    /\ s \in Pairs /\ Answering(s.car)
    /\ s.run.on => s.run.at <= Count /\ ~s.run.started
    /\ ~s.run.on => AtRest(s.car)

LEMMA CancelDoes ==
    ASSUME NEW c \in Cars, Answering(c)
    PROVE  /\ Kin(c, RoadCancel(c)) /\ Rested(RoadCancel(c)) /\ AtRest(RoadCancel(c)) /\ InHand(RoadCancel(c))
<1>1. Kin(c, RoadCancel(c)) /\ Rested(RoadCancel(c))
  BY FinishDoes DEF Agreed, Answering, RouteResults
<1> QED BY <1>1, RestedInHand DEF Rested

LEMMA StopAllDoes ==
    ASSUME NEW s, Between(s)
    PROVE  LET t == StopAll(s) IN
           /\ Between(t) /\ CarFree(t) /\ AtRest(t.car) /\ Like(s.run, t.run) /\ t.run.preserve = FALSE
           /\ t.run.started = s.run.started /\ t.run.success = s.run.success
<1> DEFINE c == RoadCancel(s.car)
           r == [s.run EXCEPT !.preserve = FALSE]
<1>1. s.car \in Cars /\ s.run \in CarRuns /\ Answering(s.car)
  BY PairHas DEF Between
<1>2. Kin(s.car, c) /\ AtRest(c) /\ InHand(c)
  BY <1>1, CancelDoes
<1>3. Like(s.run, r) /\ r.preserve = FALSE /\ r.started = s.run.started /\ r.success = s.run.success
  BY <1>1, PreserveIs
<1> DEFINE t == StopAll(s)
<1>4. t = [car |-> c, run |-> r]
  BY DEF StopAll
<1> HIDE DEF c, r, t
<1>5. t.car = c /\ t.run = r /\ t \in Pairs
  BY <1>2, <1>3, <1>4 DEF Pairs, Kin, Like
<1>6. Between(t) /\ CarFree(t)
  BY <1>2, <1>3, <1>5 DEF Between, CarFree, Kin, Like, InHand
<1> QED BY <1>2, <1>3, <1>5, <1>6 DEF t

LEMMA EndDoes ==
    ASSUME RunnerConstants, NEW c \in Cars, Answering(c), NEW r \in CarRuns, NEW result \in Results
    PROVE  /\ Settled(Aborted(c, r, result)) /\ CarFree(Aborted(c, r, result))
           /\ ~Aborted(c, r, result).run.on /\ ~Aborted(c, r, result).run.success
           /\ Settled(ProgramFinished(c, r)) /\ CarFree(ProgramFinished(c, r))
<1> DEFINE d == RoadCancel(c)
           a == Ended(r, FALSE, result)
           f == Ended(r, TRUE, "success")
<1>1. Kin(c, d) /\ AtRest(d) /\ InHand(d)
  BY CancelDoes
<1>2. a \in CarRuns /\ a.on = FALSE /\ a.success = FALSE /\ f \in CarRuns /\ f.on = FALSE
  BY EndedDoes DEF Results
<1>3. Aborted(c, r, result) = [car |-> d, run |-> a] /\ ProgramFinished(c, r) = [car |-> d, run |-> f]
  BY DEF Aborted, ProgramFinished
<1> HIDE DEF d, a, f
<1>4. d \in Cars /\ Answering(d) /\ Owned(d) /\ Unheld(d)
  BY <1>1 DEF Kin, InHand
<1> QED BY <1>1, <1>2, <1>3, <1>4 DEF Settled, CarFree, Pairs

LEMMA GotoNextDoes ==
    ASSUME RunnerConstants, StepLoaded, NEW s, Between(s), NEW target \in 0 .. Count
    PROVE  Settled(GotoNext(s, target)) /\ (CarFree(s) => CarFree(GotoNext(s, target)))
<1> DEFINE r == [s.run EXCEPT !.started = FALSE]
<1>1. s \in Pairs /\ s.car \in Cars /\ s.run \in CarRuns /\ Answering(s.car) /\ s.run.at \in CarPlaces
  BY PairHas DEF Between, CarRuns
<1>2. Like(s.run, r) /\ r.preserve = s.run.preserve /\ r.started = FALSE
  BY <1>1, StartedIs
<1>3. Count \in Nat \ {0}
  BY CarProgramIs
<1>4. ASSUME NEW k \in 1 .. Count
      PROVE  /\ Settled([s EXCEPT !.run = [r EXCEPT !.at = k]])
             /\ CarFree(s) => CarFree([s EXCEPT !.run = [r EXCEPT !.at = k]])
  <2> DEFINE q == [r EXCEPT !.at = k]
  <2>1. r \in CarRuns /\ k \in CarPlaces
    BY <1>2, <1>3 DEF Like, CarPlaces
  <2>2. q \in CarRuns /\ q.at = k /\ q.started = FALSE /\ q.preserve = s.run.preserve /\ q.on = s.run.on
    <3> HIDE DEF r
    <3> QED BY <1>2, <2>1, PlaceIs DEF Like
  <2> DEFINE t == [s EXCEPT !.run = q]
  <2> HIDE DEF q
  <2>3. t \in Pairs /\ t.car = s.car /\ t.run = q
    BY <1>1, <2>2, PairOf
  <2> HIDE DEF t
  <2>4. Settled(t) /\ (CarFree(s) => CarFree(t))
    <3>1. CarFree(s) => CarFree(t)
      BY <2>2, <2>3 DEF CarFree
    <3>2. t.run.on /\ t.run.at <= Count /\ ~t.run.started
      <4>1. t.run.on
        BY <2>2, <2>3 DEF Between
      <4>2. t.run.at <= Count
        BY <1>3, <2>2, <2>3
      <4>3. ~t.run.started
        BY <2>2, <2>3
      <4> QED BY <4>1, <4>2, <4>3
    <3>3. Settled(t)
      BY <1>1, <2>3, <3>2 DEF Settled
    <3> QED BY <3>1, <3>3
  <2> QED BY <2>4 DEF q, t
<1>5. CASE target # 0
  <2>1. GotoNext(s, target) = [s EXCEPT !.run = [r EXCEPT !.at = target]] /\ target \in 1 .. Count
    BY <1>3, <1>5 DEF GotoNext
  <2> HIDE DEF r
  <2> QED BY <1>4, <2>1
<1>6. CASE target = 0 /\ r.at = Count
  <2> DEFINE q == [r EXCEPT !.at = Count + 1]
  <2>1. GotoNext(s, target) = ProgramFinished(s.car, q)
    BY <1>6 DEF GotoNext
  <2> HIDE DEF r
  <2>2. q \in CarRuns
    <3>1. Count + 1 \in CarPlaces /\ r \in CarRuns
      BY <1>2, <1>3 DEF CarPlaces, Like
    <3> QED BY <3>1, PlaceIs
  <2> HIDE DEF q
  <2> QED BY <1>1, <2>1, <2>2, EndDoes DEF Results
<1>7. CASE target = 0 /\ r.at # Count
  <2>1. GotoNext(s, target) = [s EXCEPT !.run = [r EXCEPT !.at = r.at + 1]]
    BY <1>7 DEF GotoNext
  <2>2. r.at = s.run.at
    BY <1>2 DEF Like
  <2> HIDE DEF r
  <2>3. r.at + 1 \in 1 .. Count
    BY <1>1, <1>3, <1>7, <2>2 DEF Between, CarPlaces
  <2> QED BY <1>4, <2>1, <2>3
<1> QED BY <1>5, <1>6, <1>7

LEMMA GotoOtherDoes ==
    ASSUME RunnerConstants, StepLoaded, NEW s, Between(s), NEW target \in 0 .. Count
    PROVE  /\ Settled(GotoOther(s, target)) /\ (CarFree(s) => CarFree(GotoOther(s, target)))
           /\ ~GotoOther(s, target).run.success
<1> DEFINE r == [s.run EXCEPT !.started = FALSE, !.success = FALSE]
<1>1. s \in Pairs /\ s.car \in Cars /\ s.run \in CarRuns /\ Answering(s.car) /\ s.run.at \in CarPlaces
  BY PairHas DEF Between, CarRuns
<1>2. Like(s.run, r) /\ r.preserve = s.run.preserve /\ r.started = FALSE /\ r.success = FALSE
  BY <1>1, StartedIs
<1>3. Count \in Nat \ {0}
  BY CarProgramIs
<1>4. CASE target # 0
  <2> DEFINE q == [r EXCEPT !.at = target]
  <2>1. GotoOther(s, target) = [s EXCEPT !.run = q]
    BY <1>4 DEF GotoOther
  <2> HIDE DEF r
  <2>2. q \in CarRuns /\ q.at = target /\ q.started = FALSE /\ q.preserve = s.run.preserve /\ q.on = s.run.on
        /\ q.success = FALSE
    <3>1. r \in CarRuns /\ target \in CarPlaces
      BY <1>2, <1>3, <1>4 DEF Like, CarPlaces
    <3> QED BY <1>2, <3>1, PlaceIs DEF Like
  <2> DEFINE t == [s EXCEPT !.run = q]
  <2> HIDE DEF q
  <2>3. t \in Pairs /\ t.car = s.car /\ t.run = q
    BY <1>1, <2>2, PairOf
  <2> HIDE DEF t
  <2>4. Settled(t) /\ (CarFree(s) => CarFree(t)) /\ ~t.run.success
    <3>1. CarFree(s) => CarFree(t)
      BY <2>2, <2>3 DEF CarFree
    <3>2. t.run.on /\ t.run.at <= Count /\ ~t.run.started /\ ~t.run.success
      <4>1. t.run.on
        BY <2>2, <2>3 DEF Between
      <4>2. t.run.at <= Count
        BY <1>3, <1>4, <2>2, <2>3
      <4>3. ~t.run.started /\ ~t.run.success
        BY <2>2, <2>3
      <4> QED BY <4>1, <4>2, <4>3
    <3>3. Settled(t)
      BY <1>1, <2>3, <3>2 DEF Settled
    <3> QED BY <3>1, <3>2, <3>3
  <2> QED BY <2>1, <2>4 DEF t
<1>5. CASE target = 0
  <2>1. GotoOther(s, target) = Aborted(s.car, r, "aborted")
    BY <1>5 DEF GotoOther
  <2>2. r \in CarRuns
    BY <1>2 DEF Like
  <2> HIDE DEF r
  <2> QED BY <1>1, <2>1, <2>2, EndDoes DEF Results
<1> QED BY <1>4, <1>5

LEMMA RoadStoppedDoes ==
    ASSUME NEW s, Settled(s) PROVE Settled(RoadStopped(s)) /\ (CarFree(s) => CarFree(RoadStopped(s)))
<1>1. CASE RoadStopped(s) = s
  BY <1>1
<1>2. CASE s.run.on /\ RoadStopped(s) = StopAll(s)
  <2> DEFINE t == StopAll(s)
  <2>1. Between(s) /\ ~s.run.started
    BY <1>2 DEF Settled, Between
  <2>2. Between(t) /\ CarFree(t) /\ t.run.started = s.run.started
    BY <2>1, StopAllDoes
  <2> HIDE DEF t
  <2>3. Settled(t)
    BY <2>1, <2>2 DEF Settled, Between
  <2> QED BY <1>2, <2>2, <2>3 DEF t
<1> QED BY <1>1, <1>2 DEF RoadStopped

-----------------------------------------------------------------------------
(* What a step, or a command of the shell, may start with. *)
LEMMA MotionBegins ==
    ASSUME NEW m \in Cars, Answering(m), NEW mode \in {"hold", "turn", "distance"},
           NEW c, c = MotionStarted(m, mode)
    PROVE  /\ c \in Cars /\ Answering(c) /\ c.heading.mode = mode /\ c.heading.rolling = FALSE
           /\ AtRest(m) => Owned(c) /\ Parked(c)
<1>1. Begun(m, c, mode) /\ c.heading.rolling = FALSE
  BY StartedDoes DEF HeadingModes
<1>2. Answering(c)
  BY <1>1 DEF Begun, Answering, Manoeuvring
<1>3. AtRest(m) => Owned(c) /\ Parked(c)
  BY <1>1 DEF Begun, AtRest, Owned, Coherent, Claimed, Parked, Manoeuvring, Turns
<1> QED BY <1>1, <1>2, <1>3 DEF Begun

LEMMA LineBegins ==
    ASSUME NEW m \in Cars, Answering(m), NEW timed \in BOOLEAN, NEW c \in LineStart(m, timed)
    PROVE  c \in Cars /\ Answering(c) /\ (AtRest(m) => Owned(c))
<1>1. /\ c \in Cars /\ c.line.mode = "follow" /\ c.heading = m.heading /\ c.road = m.road
      /\ c.claim = m.claim /\ c.fault = m.fault /\ c.adc8 = m.adc8
  BY LineStarts
<1>2. Answering(c)
  BY <1>1 DEF Answering, Manoeuvring
<1>3. AtRest(m) => Owned(c)
  BY <1>1 DEF AtRest, Owned, Coherent, Claimed, Manoeuvring, Turns
<1> QED BY <1>1, <1>2, <1>3

LEMMA LineContinues ==
    ASSUME NEW m \in Cars, NEW c \in LineContinue(m)
    PROVE  /\ c \in Cars /\ c.line.mode = "follow" /\ c.heading = m.heading /\ c.road = m.road
           /\ c.claim = m.claim /\ c.fault = m.fault /\ c.adc8 = m.adc8
<1> DEFINE l == [m.line EXCEPT !.timed = FALSE]
<1>1. m.line.mode = "follow" /\ c = [m EXCEPT !.line.timed = FALSE]
  BY DEF LineContinue
<1>2. l \in LineStates /\ l.mode = m.line.mode
  BY CarHas DEF LineStates
<1>3. c = [m EXCEPT !.line = l] /\ m.line.mode = "follow"
  BY <1>1
<1> HIDE DEF l
<1>4. l.mode = "follow" /\ l \in LineStates
  BY <1>2, <1>3
<1> QED BY <1>3, <1>4, LineDoes

LEMMA EnteredIs ==
    ASSUME NEW r \in RoadStates, NEW p \in RoadPhases, NEW route \in Routes
    PROVE  /\ RoadEntered(r, p, route) \in RoadStates /\ RoadEntered(r, p, route).phase = p
           /\ RoadEntered(r, p, route).active = TRUE /\ RoadEntered(r, p, route).result = "running"
<1>1. 0 \in RunnerFrames /\ "running" \in RouteResults
  BY DEF RunnerFrames, RouteResults
<1>2. ASSUME NEW v \in RouteResults, NEW k \in RunnerFrames
      PROVE  LET n == [r EXCEPT !.phase = p, !.active = TRUE, !.route = route, !.result = v, !.frames = k] IN
             n \in RoadStates /\ n.phase = p /\ n.active = TRUE /\ n.result = v
  <2> DEFINE n == [r EXCEPT !.phase = p, !.active = TRUE, !.route = route, !.result = v, !.frames = k]
  <2>1. n \in RoadStates
    BY DEF RoadStates
  <2>2. n.phase = p /\ n.active = TRUE /\ n.result = v
    BY DEF RoadStates
  <2> QED BY <2>1, <2>2
<1> DEFINE n == [r EXCEPT !.phase = p, !.active = TRUE, !.route = route, !.result = "running", !.frames = 0]
<1>3. n \in RoadStates /\ n.phase = p /\ n.active = TRUE /\ n.result = "running"
  BY <1>1, <1>2, Zenon
<1>4. RoadEntered(r, p, route) = n
  BY DEF RoadEntered
<1> HIDE DEF n
<1> QED BY <1>3, <1>4

LEMMA RouteBegins ==
    ASSUME NEW m \in Cars, Answering(m), NEW route \in Routes, NEW c \in StartRoute(m, route)
    PROVE  c \in Cars /\ Answering(c) /\ (Owned(m) /\ Unheld(m) => InHand(c))
<1>1. ~RoadBusy(m) /\ m.adc8
  BY DEF StartRoute
<1>2. PICK l \in (IF m.line.mode = "follow" THEN LineContinue(m) ELSE LineStart(m, FALSE)),
       p \in {"arming", "following"} :
         c = [l EXCEPT !.road = RoadEntered(l.road, p, route)]
  BY DEF StartRoute
<1>3. /\ l \in Cars /\ l.line.mode = "follow" /\ l.heading = m.heading /\ l.road = m.road
      /\ l.claim = m.claim /\ l.fault = m.fault /\ l.adc8 = m.adc8
  BY <1>2, LineContinues, LineStarts
<1> DEFINE r == RoadEntered(l.road, p, route)
<1>4. r \in RoadStates /\ r.phase = p /\ r.active = TRUE /\ r.result = "running"
  <2>1. l.road \in RoadStates /\ p \in RoadPhases
    BY <1>3, CarHas DEF RoadPhases
  <2> QED BY <2>1, EnteredIs
<1>5. c = [l EXCEPT !.road = r]
  BY <1>2
<1> HIDE DEF r
<1>6. RoadSet(l, c, r)
  BY <1>3, <1>4, <1>5, RoadDoes
<1>7. Answering(c)
  BY <1>4, <1>6 DEF RoadSet, Answering, Manoeuvring
<1>8. Owned(m) /\ Unheld(m) => m.heading.mode = "idle"
  BY <1>1 DEF RoadBusy, Unheld
<1>9. m.heading.mode = "idle" => InHand(c)
  BY <1>1, <1>3, <1>4, <1>6 DEF RoadSet, InHand, Owned, Coherent, Claimed, Unheld, Manoeuvring, Turns
<1> QED BY <1>6, <1>7, <1>8, <1>9 DEF RoadSet

(* A step that starts on a car at rest, or a route on a car that follows the line. *)
StartsWell(m, c, op) ==
    /\ AtRest(m) => Owned(c)
    /\ op \in Roads /\ Owned(m) /\ Unheld(m) => InHand(c)
    /\ op \in {"wait", "if", "loop"} => c = m
    /\ op = "driveMm" =>
          /\ c.heading.mode = "distance" /\ ~c.heading.rolling
          /\ AtRest(m) => Parked(c)

LEMMA StartOpDoes ==
    ASSUME NEW m \in Cars, Answering(m), NEW op, NEW c \in StartOp(m, op)
    PROVE  c \in Cars /\ Answering(c) /\ StartsWell(m, c, op)
<1>1. CASE op = "drive"
  <2>1. c = MotionStarted(m, "hold")
    BY <1>1 DEF StartOp, HoldStart, Roads
  <2> QED BY <1>1, <2>1, MotionBegins DEF StartsWell, Roads
<1>2. CASE op = "turn"
  <2>1. c = MotionStarted(m, "turn")
    BY <1>2 DEF StartOp, TurnStart, Roads
  <2> QED BY <1>2, <2>1, MotionBegins DEF StartsWell, Roads
<1>3. CASE op = "driveMm"
  <2>1. c = MotionStarted(m, "distance")
    BY <1>3 DEF StartOp, DistanceStart, Roads
  <2> QED BY <1>3, <2>1, MotionBegins DEF StartsWell, Roads
<1>4. CASE op = "follow"
  <2>1. c \in LineStart(m, TRUE)
    BY <1>4 DEF StartOp, Roads
  <2> QED BY <1>4, <2>1, LineBegins DEF StartsWell, Roads
<1>5. CASE op \in Roads
  <2>1. c \in StartRoute(m, RouteOf[op]) /\ RouteOf[op] \in Routes
    BY <1>5 DEF StartOp, Roads, RouteOf, Routes
  <2>2. c \in Cars /\ Answering(c) /\ (Owned(m) /\ Unheld(m) => InHand(c))
    BY <2>1, RouteBegins
  <2> QED BY <1>5, <2>2, RestedInHand DEF StartsWell, Roads, InHand
<1>6. CASE op = "stop"
  <2>1. c = RoadCancel(m)
    BY <1>6 DEF StartOp, Roads
  <2> QED BY <1>6, <2>1, CancelDoes DEF StartsWell, Roads, Kin, InHand
<1>7. CASE op \notin {"drive", "turn", "driveMm", "follow", "stop"} \cup Roads
  <2>1. c = m
    BY <1>7 DEF StartOp
  <2> QED BY <1>7, <2>1, RestedInHand DEF StartsWell, InHand
<1> QED BY <1>1, <1>2, <1>3, <1>4, <1>5, <1>6, <1>7

-----------------------------------------------------------------------------
(* The car and the step that the runner waits on. *)
Coupled(c, r) ==
    /\ ~r.on => AtRest(c)
    /\ r.on /\ ~r.started /\ ~r.preserve => AtRest(c)
    /\ r.on /\ r.preserve => ~r.started /\ Unheld(c)
    /\ r.on /\ r.started =>
          /\ program[r.at].op \in Roads => Unheld(c)
          /\ program[r.at].op \in {"wait", "if"} => AtRest(c)
          /\ program[r.at].op = "driveMm" => Parked(c)

Driving(r) == r.on /\ r.started /\ program[r.at].op = "driveMm"
Measured(c) == c.heading.mode = "distance" /\ ~c.heading.rolling

(* What the runner finds, and what it leaves. *)
CarReady(s) == Owned(s.car) /\ Coupled(s.car, s.run)
            /\ (Driving(s.run) => Measured(s.car) \/ s.car.heading.mode = "idle" \/ s.car.fault)
Good(s)  == Owned(s.car) /\ Coupled(s.car, s.run) /\ (Driving(s.run) => Measured(s.car) \/ s.car.fault)

Sane(s) == s \in Pairs /\ Answering(s.car) /\ (s.run.on => s.run.at <= Count)

LEMMA SettledIsGood ==
    ASSUME NEW s, Settled(s) PROVE Sane(s) /\ (CarFree(s) => Good(s))
<1>1. Sane(s)
  BY DEF Settled, Sane
<1>2. CarFree(s) => Good(s)
  BY DEF Settled, CarFree, Good, Coupled, Driving
<1> QED BY <1>1, <1>2

LEMMA LoopedDoes ==
    ASSUME RunnerConstants, StepLoaded, NEW s, Between(s), s.run.at = run.at
    PROVE  Settled(Looped(s)) /\ (Owned(s.car) /\ (s.run.preserve => Unheld(s.car)) => CarFree(Looped(s)))
<1> DEFINE t == IF s.run.preserve THEN s ELSE StopAll(s)
           laps == t.run.laps[t.run.at]
           again == laps < Repeats
           n == IF again THEN laps + 1 ELSE 0
           q == Lapped(t.run, n)
           u == [t EXCEPT !.run = q]
           target == IF again THEN Step.next ELSE Step.other
           Premise == Owned(s.car) /\ (s.run.preserve => Unheld(s.car))
<1>1. Between(t) /\ t.run.at = run.at /\ (Premise => CarFree(t))
  <2>1. CASE s.run.preserve
    BY <2>1 DEF CarFree
  <2>2. CASE ~s.run.preserve
    <3>1. Between(StopAll(s)) /\ CarFree(StopAll(s)) /\ Like(s.run, StopAll(s).run)
      BY StopAllDoes
    <3> QED BY <2>2, <3>1 DEF Like
  <2> QED BY <2>1, <2>2
<1> HIDE DEF t, Premise
<1>2. t \in Pairs /\ t.run \in CarRuns /\ t.run.at \in 1 .. Count /\ Count \in Nat
  <2>1. t \in Pairs /\ t.run \in CarRuns /\ t.run.at <= Count
    BY <1>1, PairHas DEF Between
  <2>2. t.run.at \in CarPlaces
    BY <2>1 DEF CarRuns
  <2> QED BY <2>1, <2>2, CarProgramIs DEF CarPlaces
<1>3. laps \in 0 .. Repeats /\ Repeats \in Nat
  <2>1. t.run.laps \in Laps
    BY <1>2 DEF CarRuns
  <2> QED BY <1>2, <2>1, CarProgramIs DEF Laps, RunnerConstants
<1> HIDE DEF laps
<1>4. n \in 0 .. Repeats
  BY <1>3
<1> HIDE DEF n
<1>5. q \in CarRuns /\ q.at = t.run.at /\ q.on = t.run.on /\ q.preserve = t.run.preserve
  <2> DEFINE l == [t.run.laps EXCEPT ![t.run.at] = n]
  <2>1. t.run.laps \in Laps
    BY <1>2 DEF CarRuns
  <2>2. l \in Laps
    BY <1>4, <2>1 DEF Laps
  <2>3. q = [t.run EXCEPT !.success = TRUE, !.laps = l]
    BY DEF Lapped
  <2> HIDE DEF l, q
  <2> QED BY <1>2, <2>2, <2>3, LapsIs
<1> HIDE DEF q
<1>6. u \in Pairs /\ u.car = t.car /\ u.run = q
  BY <1>2, <1>5, PairHas, PairOf
<1> HIDE DEF u
<1>7. Between(u) /\ (Premise => CarFree(u))
  <2>1. Premise => CarFree(u)
    BY <1>1, <1>5, <1>6 DEF CarFree
  <2>2. u.run.on
    BY <1>1, <1>5, <1>6 DEF Between
  <2>3. u.run.at <= Count
    BY <1>2, <1>5, <1>6
  <2> QED BY <1>1, <1>6, <2>1, <2>2, <2>3 DEF Between
<1>8. target \in 0 .. Count
  BY <1>1, <1>2, CarProgramIs DEF Step
<1>9. Looped(s) = RoadStopped(GotoNext(u, target))
  BY DEF Looped, t, u, q, n, laps
<1> HIDE DEF target
<1>10. Settled(GotoNext(u, target)) /\ (CarFree(u) => CarFree(GotoNext(u, target)))
  BY <1>7, <1>8, GotoNextDoes
<1>11. Settled(Looped(s)) /\ (Premise => CarFree(Looped(s)))
  BY <1>7, <1>9, <1>10, RoadStoppedDoes
<1> QED BY <1>11 DEF Premise

(* The runner notes that a step succeeded, and that a route leaves the car on the line. *)
LEMMA NotedDoes ==
    ASSUME NEW s, Between(s), NEW b \in BOOLEAN
    PROVE  /\ Between([s EXCEPT !.run.success = b]) /\ (CarFree(s) => CarFree([s EXCEPT !.run.success = b]))
           /\ Between([s EXCEPT !.run.preserve = TRUE])
           /\ InHand(s.car) => CarFree([s EXCEPT !.run.preserve = TRUE])
<1> DEFINE q == [s.run EXCEPT !.success = b]
           p == [s.run EXCEPT !.preserve = TRUE]
           t == [s EXCEPT !.run.success = b]
           u == [s EXCEPT !.run.preserve = TRUE]
<1>1. s \in Pairs /\ s.car \in Cars /\ s.run \in CarRuns
  BY PairHas DEF Between
<1>2. t = [s EXCEPT !.run = q] /\ u = [s EXCEPT !.run = p]
  BY <1>1 DEF Pairs
<1>3. Like(s.run, q) /\ q.preserve = s.run.preserve /\ Like(s.run, p) /\ p.preserve = TRUE
  <2>1. Like(s.run, q) /\ q.preserve = s.run.preserve
    BY <1>1, SuccessIs
  <2>2. Like(s.run, p) /\ p.preserve = TRUE
    BY <1>1, PreserveIs
  <2> QED BY <2>1, <2>2
<1> HIDE DEF q, p, t, u
<1>4. t \in Pairs /\ t.car = s.car /\ t.run = q /\ u \in Pairs /\ u.car = s.car /\ u.run = p
  BY <1>1, <1>2, <1>3, PairOf DEF Like
<1>5. t.run.on /\ u.run.on
  BY <1>3, <1>4 DEF Between, Like
<1>6. t.run.at <= Count /\ u.run.at <= Count
  BY <1>3, <1>4 DEF Between, Like
<1>7. Between(t) /\ Between(u)
  BY <1>4, <1>5, <1>6 DEF Between
<1>8. CarFree(s) => CarFree(t)
  BY <1>3, <1>4 DEF CarFree
<1>9. InHand(s.car) => CarFree(u)
  BY <1>3, <1>4 DEF CarFree, InHand
<1> QED BY <1>7, <1>8, <1>9 DEF t, u

LEMMA JudgedDoes ==
    ASSUME RunnerConstants, StepLoaded, NEW s, Between(s), s.run.at = run.at, s.run.started, NEW verdict,
           verdict = "running" /\ Step.op = "driveMm" => s.car.heading.mode # "idle",
           NEW t, t = Judged(s, verdict)
    PROVE  /\ Sane(t) /\ (CarReady(s) => Good(t))
           /\ ~t.run.started /\ t.run.success => verdict = "success"
<1>1. s \in Pairs /\ s.car \in Cars /\ s.run \in CarRuns /\ Answering(s.car) /\ s.run.on
  BY PairHas DEF Between
<1>2. Step.next \in 0 .. Count /\ Step.other \in 0 .. Count
  <2>1. run.at \in CarPlaces /\ run.at <= Count
    BY <1>1 DEF CarRuns, Between
  <2> QED BY <2>1, CarProgramIs DEF Step, CarPlaces
<1>3. CASE verdict = "running"
  <2>1. t = s
    BY <1>3 DEF Judged
  <2>2. CarReady(s) => Good(s)
    BY <1>3 DEF CarReady, Good, Driving, Step
  <2>3. Sane(s)
    BY DEF Between, Sane
  <2> QED BY <2>1, <2>2, <2>3
<1>4. CASE verdict = "fault"
  <2>1. t = Aborted(s.car, s.run, "fault")
    BY <1>4 DEF Judged
  <2>2. Settled(t) /\ CarFree(t) /\ ~t.run.success
    BY <1>1, <2>1, EndDoes DEF Results
  <2> QED BY <2>2, SettledIsGood
<1>5. CASE verdict = "success"
  <2> DEFINE u == IF Step.op \in Roads THEN [s EXCEPT !.run.preserve = TRUE] ELSE StopAll(s)
             w == [u EXCEPT !.run.success = TRUE]
             x == GotoNext(w, Step.next)
  <2>1. Between(u) /\ (CarReady(s) => CarFree(u))
    <3>1. CASE Step.op \in Roads
      <4>1. CarReady(s) => InHand(s.car)
        BY <1>1, <3>1 DEF CarReady, Coupled, InHand, Step
      <4> QED BY <3>1, <4>1, NotedDoes
    <3>2. CASE Step.op \notin Roads
      BY <3>2, StopAllDoes
    <3> QED BY <3>1, <3>2
  <2>2. t = RoadStopped(x)
    BY <1>5 DEF Judged
  <2> HIDE DEF u
  <2>3. Between(w) /\ (CarFree(u) => CarFree(w))
    BY <2>1, NotedDoes
  <2> HIDE DEF w
  <2>4. Settled(x) /\ (CarFree(w) => CarFree(x))
    BY <1>2, <2>3, GotoNextDoes
  <2> HIDE DEF x
  <2>5. Settled(t) /\ (CarFree(x) => CarFree(t))
    BY <2>2, <2>4, RoadStoppedDoes
  <2> QED BY <1>5, <2>1, <2>3, <2>4, <2>5, SettledIsGood
<1>6. CASE verdict \notin {"running", "fault", "success"}
  <2>1. t = GotoOther(StopAll(s), Step.other)
    BY <1>6 DEF Judged
  <2>2. Between(StopAll(s)) /\ CarFree(StopAll(s))
    BY StopAllDoes
  <2>3. Settled(t) /\ CarFree(t) /\ ~t.run.success
    BY <1>2, <2>1, <2>2, GotoOtherDoes
  <2> QED BY <2>3, SettledIsGood
<1> QED BY <1>3, <1>4, <1>5, <1>6

(* A step that is started now: what begins. *)
LEMMA BegunDoes ==
    ASSUME NEW s, Between(s), s.run.at = run.at, ~s.run.started,
           s.run.preserve => Step.op \in Roads \cup {"loop"},
           NEW c \in StartOp(s.car, Step.op),
           NEW b, b = [car |-> c, run |->
                    [s.run EXCEPT !.started = TRUE, !.preserve = s.run.preserve /\ Step.op \notin Roads]]
    PROVE  /\ Between(b) /\ b.run.at = run.at /\ b.run.started
           /\ Step.op = "driveMm" => b.car.heading.mode # "idle"
           /\ CarReady(s) => Owned(b.car)
           /\ CarReady(s) /\ Step.op = "loop" => (b.run.preserve => Unheld(b.car))
           /\ CarReady(s) /\ Step.op # "loop" => CarReady(b)
<1> DEFINE p == s.run.preserve /\ Step.op \notin Roads
           r == [s.run EXCEPT !.started = TRUE, !.preserve = p]
<1>1. s \in Pairs /\ s.car \in Cars /\ s.run \in CarRuns /\ Answering(s.car) /\ s.run.on
  BY PairHas DEF Between
<1>2. p \in BOOLEAN
  OBVIOUS
<1>3. b = [car |-> c, run |-> r]
  OBVIOUS
<1>4. Like(s.run, r) /\ r.preserve = p /\ r.started = TRUE
  <2>1. ASSUME NEW q \in CarRuns, NEW d \in BOOLEAN
        PROVE  LET n == [q EXCEPT !.started = TRUE, !.preserve = d] IN Like(q, n)
                   /\ n.preserve = d /\ n.started = TRUE
    BY DEF CarRuns, Like
  <2> HIDE DEF p
  <2> QED BY <1>1, <1>2, <2>1
<1> HIDE DEF r
<1>5. c \in Cars /\ Answering(c) /\ StartsWell(s.car, c, Step.op)
  BY <1>1, StartOpDoes
<1>6. b \in Pairs /\ b.car = c /\ b.run = r
  BY <1>3, <1>4, <1>5 DEF Pairs, Like
<1>7. b.run.on /\ b.run.at = s.run.at /\ b.run.started
  BY <1>1, <1>4, <1>6 DEF Like
<1>8. Between(b)
  <2>1. b.run.at <= Count
    BY <1>7 DEF Between
  <2> QED BY <1>5, <1>6, <1>7, <2>1 DEF Between
<1>9. b.run.preserve <=> p
  BY <1>2, <1>4, <1>6
<1>10. CarReady(s) /\ ~s.run.preserve => AtRest(s.car)
  BY <1>1 DEF CarReady, Coupled
<1>11. CarReady(s) /\ s.run.preserve => Owned(s.car) /\ Unheld(s.car)
  BY <1>1 DEF CarReady, Coupled
<1>12. CarReady(s) => Owned(c) /\ (Step.op \in Roads => Unheld(c))
  <2>1. CarReady(s) => InHand(s.car)
    BY <1>10, <1>11, RestedInHand DEF InHand
  <2>2. CASE Step.op \in Roads
    BY <1>5, <2>1, <2>2 DEF StartsWell, InHand
  <2>3. CASE Step.op = "loop"
    BY <1>5, <2>1, <2>3 DEF StartsWell, InHand, Roads
  <2>4. CASE Step.op \notin Roads \cup {"loop"}
    BY <1>5, <1>10, <2>4 DEF StartsWell
  <2> QED BY <2>2, <2>3, <2>4
<1>13. CarReady(s) /\ Step.op = "loop" => (b.run.preserve => Unheld(b.car))
  <2>1. Step.op = "loop" => c = s.car
    BY <1>5 DEF StartsWell
  <2> QED BY <1>6, <1>9, <1>11, <2>1
<1>14. Step.op = "driveMm" => Measured(c) /\ c.heading.mode # "idle"
  BY <1>5 DEF StartsWell, Measured
<1>15. CarReady(s) /\ Step.op # "loop" => CarReady(b)
  <2> SUFFICES ASSUME CarReady(s), Step.op # "loop" PROVE CarReady(b)
    OBVIOUS
  <2>1. ~b.run.preserve
    BY <1>9
  <2>2. Step.op \in {"wait", "if"} => AtRest(c)
    BY <1>5, <1>10 DEF StartsWell, Roads
  <2>3. Step.op = "driveMm" => Parked(c)
    BY <1>5, <1>10 DEF StartsWell, Roads
  <2>4. program[b.run.at].op = Step.op
    BY <1>7 DEF Step
  <2>5. Coupled(b.car, b.run)
    BY <1>6, <1>7, <1>12, <2>1, <2>2, <2>3, <2>4 DEF Coupled
  <2> QED BY <1>6, <1>12, <1>14, <2>4, <2>5 DEF CarReady, Driving
<1> QED BY <1>6, <1>7, <1>8, <1>12, <1>13, <1>14, <1>15

LEMMA VerdictsAre ==
    ASSUME NEW c, NEW expired, NEW verdict \in Verdicts(c, "driveMm", expired)
    PROVE  verdict = IF c.heading.mode = "idle" THEN "success" ELSE "running"
BY DEF Verdicts, Roads

(* What the runner may make of a pair. *)
RunsTo(s, t) ==
    /\ Sane(t)
    /\ CarReady(s) => Good(t)
    /\ CarReady(s) /\ Step.op = "driveMm" /\ s.run.started /\ ~t.run.started /\ t.run.success =>
          s.car.heading.mode = "idle"

LEMMA ExecutedDoes ==
    ASSUME RunnerConstants, StepLoaded, NEW s, Between(s), s.run.at = run.at,
           s.run.preserve => Step.op \in Roads \cup {"loop"}, NEW t \in Executed(s)
    PROVE  RunsTo(s, t)
<1> DEFINE op == Step.op
           begun == IF s.run.started THEN {s}
                    ELSE {[car |-> c, run |->
                            [s.run EXCEPT !.started = TRUE, !.preserve = s.run.preserve /\ op \notin Roads]]
                          : c \in StartOp(s.car, op)}
           expired == s.run.started /\ "instr" \in late
<1>1. s \in Pairs /\ s.car \in Cars /\ s.run \in CarRuns /\ Answering(s.car) /\ s.run.on
  BY PairHas DEF Between
<1>2. CASE ~s.run.started /\ t = GotoOther(StopAll(s), Step.other)
  <2>1. Step.other \in 0 .. Count
    <3>1. run.at \in CarPlaces /\ run.at <= Count
      BY <1>1 DEF CarRuns, Between
    <3> QED BY <3>1, CarProgramIs DEF Step, CarPlaces
  <2>2. Between(StopAll(s)) /\ CarFree(StopAll(s))
    BY StopAllDoes
  <2>3. Settled(t) /\ CarFree(t) /\ ~t.run.success
    BY <1>2, <2>1, <2>2, GotoOtherDoes
  <2> QED BY <2>3, SettledIsGood DEF RunsTo
<1>3. ASSUME NEW b \in begun
      PROVE  /\ Between(b) /\ b.run.at = run.at /\ b.run.started
             /\ s.run.started => b = s
             /\ ~s.run.started /\ op = "driveMm" => b.car.heading.mode # "idle"
             /\ CarReady(s) => Owned(b.car)
             /\ CarReady(s) /\ op = "loop" => (b.run.preserve => Unheld(b.car))
             /\ CarReady(s) /\ op # "loop" => CarReady(b)
  <2>1. CASE s.run.started
    <3>1. b = s
      BY <2>1
    <3>2. CarReady(s) => Owned(s.car) /\ ~s.run.preserve
      BY <1>1, <2>1 DEF CarReady, Coupled
    <3> HIDE DEF op, begun
    <3>3. Between(b) /\ b.run.at = run.at /\ b.run.started
      BY <2>1, <3>1
    <3>4. CarReady(s) => Owned(b.car) /\ ~b.run.preserve /\ CarReady(b)
      BY <3>1, <3>2
    <3> QED BY <2>1, <3>1, <3>3, <3>4
  <2>2. CASE ~s.run.started
    <3>1. PICK c \in StartOp(s.car, Step.op) :
             b = [car |-> c, run |->
                     [s.run EXCEPT !.started = TRUE, !.preserve = s.run.preserve /\ Step.op \notin Roads]]
      BY <2>2
    <3> HIDE DEF begun, expired
    <3>2. /\ Between(b) /\ b.run.at = run.at /\ b.run.started
          /\ Step.op = "driveMm" => b.car.heading.mode # "idle"
          /\ CarReady(s) => Owned(b.car)
          /\ CarReady(s) /\ Step.op = "loop" => (b.run.preserve => Unheld(b.car))
          /\ CarReady(s) /\ Step.op # "loop" => CarReady(b)
      BY <2>2, <3>1, BegunDoes, ZenonT(40)
    <3> QED BY <2>2, <3>2
  <2> QED BY <2>1, <2>2
<1>4. ASSUME NEW b \in begun, op = "loop", t = Looped(b) PROVE RunsTo(s, t)
  <2>1. Settled(t) /\ (Owned(b.car) /\ (b.run.preserve => Unheld(b.car)) => CarFree(t))
    BY <1>3, <1>4, LoopedDoes
  <2> QED BY <1>3, <1>4, <2>1, SettledIsGood DEF RunsTo
<1>5. ASSUME NEW b \in begun, op # "loop", NEW verdict \in Verdicts(b.car, op, expired), t = Judged(b, verdict)
      PROVE  RunsTo(s, t)
  <2>1. op = "driveMm" => verdict = IF b.car.heading.mode = "idle" THEN "success" ELSE "running"
    BY <1>5, VerdictsAre
  <2>2. Between(b) /\ b.run.at = run.at /\ b.run.started
    BY <1>3
  <2>3. verdict = "running" /\ Step.op = "driveMm" => b.car.heading.mode # "idle"
    BY <2>1
  <2>4. Sane(t) /\ (CarReady(b) => Good(t)) /\ (~t.run.started /\ t.run.success => verdict = "success")
    BY <1>5, <2>2, <2>3, JudgedDoes
  <2> QED BY <1>3, <1>5, <2>1, <2>4 DEF RunsTo
<1>6. \/ ~s.run.started /\ t = GotoOther(StopAll(s), Step.other)
      \/ op = "loop" /\ \E b \in begun : t = Looped(b)
      \/ op # "loop" /\ \E b \in begun : \E v \in Verdicts(b.car, op, expired) : t = Judged(b, v)
  <2>1. t \in (IF ~s.run.started /\ (Refused(op) \/ begun = {}) THEN {GotoOther(StopAll(s), Step.other)} ELSE {})
             \cup (IF op = "loop" THEN {Looped(b) : b \in begun}
                   ELSE UNION {{Judged(b, v) : v \in Verdicts(b.car, op, expired)} : b \in begun})
    BY DEF Executed
  <2> HIDE DEF op, expired, begun
  <2> QED BY <2>1
<1> HIDE DEF begun, op, expired
<1> QED BY <1>2, <1>4, <1>5, <1>6

LEMMA UpdatedDoes ==
    ASSUME RunnerConstants, StepLoaded, NEW s, Sane(s), s.run.at = run.at, NEW t \in Updated(s)
    PROVE  RunsTo(s, t) /\ (s.run.on /\ s.car.fault => ~t.run.success)
<1>1. s \in Pairs /\ s.car \in Cars /\ s.run \in CarRuns /\ Answering(s.car)
  BY PairHas DEF Sane
<1>2. CASE ~s.run.on
  <2>1. t = s
    BY <1>2 DEF Updated
  <2>2. CarReady(s) => Good(s)
    BY <1>2 DEF CarReady, Good, Driving
  <2> QED BY <1>2, <2>1, <2>2 DEF RunsTo
<1>3. ASSUME NEW result \in Results, t = Aborted(s.car, s.run, result) PROVE RunsTo(s, t) /\ ~t.run.success
  <2>1. Settled(t) /\ CarFree(t) /\ ~t.run.success
    BY <1>1, <1>3, EndDoes
  <2> QED BY <2>1, SettledIsGood DEF RunsTo
<1>4. CASE s.run.on /\ s.car.fault
  <2>1. t = Aborted(s.car, s.run, "fault")
    BY <1>4 DEF Updated
  <2> QED BY <1>3, <2>1 DEF Results
<1>5. CASE s.run.on /\ ~s.car.fault /\ "sequence" \in late
  <2>1. t = Aborted(s.car, s.run, "timeout")
    BY <1>5 DEF Updated
  <2> QED BY <1>3, <2>1 DEF Results
<1>6. CASE s.run.on /\ ~s.car.fault /\ "sequence" \notin late
  <2> DEFINE stops == s.run.preserve /\ Step.op \notin Roads \cup {"loop"}
             u == IF stops THEN StopAll(s) ELSE s
  <2>1. t \in IF Step.op = "end" THEN {ProgramFinished(u.car, u.run)} ELSE Executed(u)
    BY <1>6 DEF Updated
  <2>2. Between(s)
    BY <1>6 DEF Between, Sane
  <2>3. /\ Between(u) /\ u.run.at = run.at /\ u.run.started = s.run.started
        /\ u.run.preserve => Step.op \in Roads \cup {"loop"}
        /\ CarReady(s) => CarReady(u)
        /\ u.run.started /\ CarReady(s) => u = s
    <3>1. CASE stops
      <4>1. Between(u) /\ AtRest(u.car) /\ Like(s.run, u.run)
             /\ u.run.preserve = FALSE /\ u.run.started = s.run.started
            /\ CarFree(u)
        BY <2>2, <3>1, StopAllDoes
      <4>2. CarReady(s) => ~s.run.started
        BY <1>6, <3>1 DEF CarReady, Coupled
      <4> HIDE DEF u
      <4>3. CarReady(s) => CarReady(u)
        BY <4>1, <4>2 DEF CarReady, Coupled, Driving, CarFree
      <4> QED BY <4>1, <4>2, <4>3 DEF Like
    <3>2. CASE ~stops
      <4>1. u = s
        BY <3>2
      <4> QED BY <2>2, <3>2, <4>1
    <3> QED BY <3>1, <3>2
  <2>4. CASE Step.op = "end"
    <3>1. t = ProgramFinished(u.car, u.run)
      BY <2>1, <2>4
    <3>2. u.car \in Cars /\ u.run \in CarRuns /\ Answering(u.car)
      BY <2>3, PairHas DEF Between
    <3> HIDE DEF u
    <3>3. Settled(t) /\ CarFree(t)
      BY <3>1, <3>2, EndDoes DEF Results
    <3> QED BY <1>6, <2>4, <3>3, SettledIsGood DEF RunsTo
  <2>5. CASE Step.op # "end"
    <3>1. t \in Executed(u)
      BY <2>1, <2>5
    <3> HIDE DEF u, stops
    <3>2. RunsTo(u, t)
      BY <2>3, <3>1, ExecutedDoes
    <3> QED BY <1>6, <2>3, <3>2 DEF RunsTo
  <2> QED BY <2>4, <2>5
<1> QED BY <1>1, <1>2, <1>4, <1>5, <1>6

-----------------------------------------------------------------------------
(* What the tasks before the runner do to the car it waits for. *)
Follows(m, n) ==
    /\ n \in Cars /\ Answering(n) /\ (m.fault => n.fault)
    /\ AtRest(m) => AtRest(n)
    /\ Parked(m) => Parked(n)

LEMMA TouchedFollows ==
    ASSUME NEW m \in Cars, Answering(m), NEW n, Touched(m, n), m.fault => n.fault, n.claim => m.claim
    PROVE  /\ Follows(m, n) /\ (Unheld(m) => Unheld(n)) /\ (Owned(m) => Owned(n)) /\ (Measured(m) => Measured(n))
           /\ n.heading = m.heading /\ n.road = m.road /\ n.line = m.line /\ (HandedOver(m) => HandedOver(n))
BY DEF Touched, Follows, Answering, Manoeuvring, AtRest, Parked, Unheld, Owned, Coherent,
   Claimed, Measured, HandedOver

LEMMA HeadingFollows ==
    ASSUME NEW m \in Cars, Answering(m), NEW after, NEW n \in HeadingUpdate(m, after)
    PROVE  /\ Follows(m, n) /\ (Unheld(m) => Unheld(n)) /\ (Owned(m) => Owned(n))
           /\ Measured(m) => Measured(n) \/ n.fault \/ (n.heading.mode = "idle" /\ n.heading.ended = "reached")
<1>1. HeadingGives(m, n)
  BY HeadingGivesThat
<1>2. Answering(n) /\ n \in Cars
  BY <1>1 DEF HeadingGives, Answering, Manoeuvring
<1>3. AtRest(m) => AtRest(n)
  BY <1>1 DEF HeadingGives, AtRest
<1>4. Parked(m) => Parked(n)
  BY <1>1 DEF HeadingGives, Parked, Manoeuvring
<1>5. Unheld(m) => Unheld(n)
  BY <1>1 DEF HeadingGives, Unheld, Manoeuvring
<1>6. Owned(m) => Coherent(n)
  BY <1>1 DEF HeadingGives, Owned, Coherent, Manoeuvring, Braked
<1>7. Owned(m) => Claimed(n)
  BY <1>1 DEF HeadingGives, Owned, Claimed, HandedOver, Coherent, Manoeuvring, Braked
<1>8. Measured(m) => Measured(n) \/ n.fault \/ (n.heading.mode = "idle" /\ n.heading.ended = "reached")
  BY <1>1 DEF HeadingGives, Measured
<1> QED BY <1>1, <1>2, <1>3, <1>4, <1>5, <1>6, <1>7, <1>8 DEF Follows, Owned, HeadingGives

LEMMA LineFollows ==
    ASSUME NEW m \in Cars, Answering(m), NEW after, NEW r \in RoadUpdate(m, after),
           NEW then, NEW n \in LineUpdate(r, then)
    PROVE  /\ Follows(m, n) /\ (Owned(m) => Owned(n)) /\ (Owned(m) /\ Unheld(m) => Unheld(n))
           /\ Parked(m) => n.heading = m.heading \/ TakenOver(m, n)
<1>1. RoadGives(m, r) /\ r \in Cars
  BY RoadGivesThat DEF RoadGives, Kin
<1>2. LineGives(r, n)
  BY <1>1, LineGivesThat
<1>3. Answering(n) /\ n \in Cars /\ (m.fault => n.fault)
  BY <1>1, <1>2 DEF RoadGives, LineGives, Kin, Answering, Manoeuvring
<1>4. AtRest(r) => AtRest(n)
  BY <1>2 DEF LineGives, AtRest, Manoeuvring
<1>5. Parked(m) => r = m \/ (AtRest(r) /\ TakenOver(m, r))
  BY <1>1 DEF RoadGives, Rested
<1>6. AtRest(m) => AtRest(n)
  BY <1>4, <1>5, RestedInHand
<1>7. Parked(m) => Parked(n)
  <2>1. Parked(r) => Parked(n)
    BY <1>2 DEF LineGives, Parked, Manoeuvring
  <2> QED BY <1>5, <2>1, RestedInHand
<1>8. Parked(m) => n.heading = m.heading \/ TakenOver(m, n)
  BY <1>2, <1>5 DEF LineGives, TakenOver
<1>9. Owned(r) => Owned(n)
  <2>1. Owned(r) => Coherent(n)
    BY <1>2 DEF LineGives, Owned, Coherent, Manoeuvring
  <2>2. Owned(r) => Claimed(n)
    BY <1>2 DEF LineGives, Owned, Coherent, Claimed, HandedOver
  <2> QED BY <2>1, <2>2 DEF Owned
<1>10. Unheld(r) => Unheld(n)
  BY <1>2 DEF LineGives, Unheld, Manoeuvring
<1>11. (Owned(m) => Owned(n)) /\ (Owned(m) /\ Unheld(m) => Unheld(n))
  BY <1>1, <1>9, <1>10 DEF RoadGives
<1> QED BY <1>3, <1>6, <1>7, <1>8, <1>11 DEF Follows

-----------------------------------------------------------------------------
(* The invariant.  A distance that the runner waits on is being driven, or it has   *)
(* ended in a way that the runner will tell from a success.                          *)
HasFinished(c) == c.heading.mode = "idle" /\ c.heading.ended \in {"reached", "taken"}
Watch(c, r) ==
    /\ Owned(c)
    /\ Coupled(c, r)
    /\ Driving(r) => Measured(c) \/ HasFinished(c) \/ c.fault

Typed ==
    /\ runnerPc \in {"chassis", "heading", "line", "action", "app", "shell"}
    /\ car \in Cars /\ run \in CarRuns /\ StepLoaded /\ (run.on => run.at <= Count)
    /\ late \subseteq TimersRunning
    /\ handled \in BOOLEAN /\ manual \in BOOLEAN /\ commands \in 0 .. MaxCommands

RunnerInv == Typed /\ Answering(car) /\ (~manual => Watch(car, run))

LEMMA InvFrom ==
    ASSUME program' = program, StepLoaded,
           runnerPc' \in {"chassis", "heading", "line", "action", "app", "shell"},
           handled' \in BOOLEAN, manual' \in BOOLEAN, commands' \in 0 .. MaxCommands,
           car' \in Cars, run' \in CarRuns, run'.on => run'.at <= Count, late' \subseteq TimersRunning',
           Answering(car'), ~manual' => Watch(car', run')
    PROVE  RunnerInv'
<1>1. Typed'
  BY DEF Typed, CarRuns, CarPlaces, Laps, Count, StepLoaded
<1>2. Answering(car)'
  BY DEF Answering, Manoeuvring
<1>3. (~manual => Watch(car, run))'
  BY DEF Watch, Owned, Coupled, Driving, Coherent, Claimed, HandedOver, AtRest, Unheld,
     Parked, Measured, HasFinished, Manoeuvring, Turns
<1> QED BY <1>1, <1>2, <1>3 DEF RunnerInv

LEMMA TimersTold ==
    ASSUME NEW c, NEW kept, Becomes(c, kept) PROVE car' = c /\ late' \subseteq Running(car') \cup (late \cap kept)
BY DEF Becomes, LateAfter

LEMMA TimersKept ==
    ASSUME late \subseteq TimersRunning, run' = run, NEW c, Becomes(c, RunnerTimers)
    PROVE  late' \subseteq TimersRunning'
<1>1. late' \subseteq Running(car') \cup (late \cap RunnerTimers)
  BY TimersTold
<1>2. Running(car) \cap RunnerTimers = {}
  BY DEF Running, RunnerTimers
<1>3. TimersRunning' = Running(car') \cup (IF run.on THEN {"sequence"} ELSE {})
                       \cup (IF run.on /\ run.started THEN {"instr"} ELSE {})
  BY DEF TimersRunning, Running, HeadingTimed
<1> QED BY <1>1, <1>2, <1>3 DEF TimersRunning

LEMMA TimersSame ==
    ASSUME late \subseteq TimersRunning, run' = run, late' = late,
           car'.heading = car.heading, car'.line = car.line, car'.road = car.road
    PROVE  late' \subseteq TimersRunning'
BY DEF TimersRunning, Running, HeadingTimed

(* What stays true of the run when the car goes on as it did. *)
LEMMA CoupledKept ==
    ASSUME NEW m, NEW n, NEW r, Follows(m, n), Coupled(m, r), Unheld(m) => Unheld(n)
    PROVE  Coupled(n, r)
BY DEF Follows, Coupled

LEMMA DrivingParked ==
    ASSUME NEW m, NEW r, Coupled(m, r), Driving(r) PROVE Parked(m)
BY DEF Coupled, Driving

LEMMA TouchedWatch ==
    ASSUME NEW m \in Cars, Answering(m), NEW n, Touched(m, n), m.fault => n.fault, n.claim => m.claim,
           NEW r, Watch(m, r)
    PROVE  Watch(n, r)
<1>1. /\ Follows(m, n) /\ (Unheld(m) => Unheld(n)) /\ (Owned(m) => Owned(n)) /\ (Measured(m) => Measured(n))
  BY TouchedFollows
<1>2. Coupled(n, r)
  BY <1>1, CoupledKept DEF Watch
<1>3. n.heading = m.heading
  BY TouchedFollows
<1> QED BY <1>1, <1>2, <1>3 DEF Watch, HasFinished, Follows

LEMMA ChassisKeeps ==
    ASSUME RunnerInv, ChassisTask PROVE RunnerInv'
<1>1. car \in Cars /\ Answering(car)
  BY DEF RunnerInv, Typed
<1>2. Touched(car, car') /\ (car.fault => car'.fault) /\ (car'.claim => car.claim)
  <2> DEFINE o == [car EXCEPT !.claim = FALSE]
  <2>1. Touched(car, o) /\ o.claim = FALSE /\ o.fault = car.fault /\ o \in Cars
    BY <1>1, ClaimDoes DEF Touched
  <2>2. car' = car \/ car' = Faulted(car) \/ car' = Faulted(o)
    BY DEF ChassisTask
  <2> HIDE DEF o
  <2>3. Touched(o, Faulted(o)) /\ Faulted(o).claim = o.claim /\ Faulted(o).fault
        /\ Touched(car, Faulted(car)) /\ Faulted(car).claim = car.claim /\ Faulted(car).fault
    BY <1>1, <2>1, FaultedDoes
  <2> QED BY <1>1, <2>1, <2>2, <2>3 DEF Touched
<1>3. /\ Follows(car, car') /\ car'.heading = car.heading /\ car'.line = car.line /\ car'.road = car.road
  BY <1>1, <1>2, TouchedFollows
<1>4. late' \subseteq TimersRunning'
  BY <1>3, TimersSame DEF RunnerInv, Typed, ChassisTask
<1>5. ~manual => Watch(car', run)
  BY <1>1, <1>2, TouchedWatch DEF RunnerInv, ChassisTask
<1> QED BY <1>3, <1>4, <1>5, InvFrom DEF RunnerInv, Typed, ChassisTask, DueFrom, Follows

LEMMA HeadingKeeps ==
    ASSUME RunnerInv, HeadingTask PROVE RunnerInv'
<1>1. PICK n \in HeadingUpdate(car, late) : Becomes(n, RunnerTimers)
  BY DEF HeadingTask
<1>2. /\ Follows(car, n) /\ (Unheld(car) => Unheld(n)) /\ (Owned(car) => Owned(n))
      /\ Measured(car) => Measured(n) \/ n.fault \/ (n.heading.mode = "idle" /\ n.heading.ended = "reached")
  BY HeadingFollows DEF RunnerInv, Typed
<1>3. car' = n /\ late' \subseteq TimersRunning'
  BY <1>1, TimersTold, TimersKept DEF RunnerInv, Typed, HeadingTask
<1>4. ~manual => Watch(n, run)
  <2> SUFFICES ASSUME ~manual PROVE Watch(n, run)
    OBVIOUS
  <2>1. Watch(car, run)
    BY DEF RunnerInv, HeadingTask
  <2>2. Coupled(n, run)
    BY <1>2, <2>1, CoupledKept DEF Watch
  <2>3. Owned(n)
    BY <1>2, <2>1 DEF Watch
  <2>4. HasFinished(car) => n.heading = car.heading
    BY <1>1 DEF HasFinished, HeadingUpdate
  <2> QED BY <1>2, <2>1, <2>2, <2>3, <2>4 DEF Watch, HasFinished, Follows
<1> QED BY <1>2, <1>3, <1>4, InvFrom DEF RunnerInv, Typed, HeadingTask, DueFrom, Follows

LEMMA LineKeeps ==
    ASSUME RunnerInv, LineTask PROVE RunnerInv'
<1>1. PICK r \in RoadUpdate(car, late) : \E n \in LineUpdate(r, LateAfter(late, car, r)) : Becomes(n, RunnerTimers)
  BY DEF LineTask
<1>2. PICK n \in LineUpdate(r, LateAfter(late, car, r)) : Becomes(n, RunnerTimers)
  BY <1>1
<1>3. /\ Follows(car, n) /\ (Owned(car) => Owned(n)) /\ (Owned(car) /\ Unheld(car) => Unheld(n))
      /\ Parked(car) => n.heading = car.heading \/ TakenOver(car, n)
  BY LineFollows DEF RunnerInv, Typed
<1>4. car' = n /\ late' \subseteq TimersRunning'
  BY <1>2, TimersTold, TimersKept DEF RunnerInv, Typed, LineTask
<1>5. ~manual => Watch(n, run)
  <2> SUFFICES ASSUME ~manual PROVE Watch(n, run)
    OBVIOUS
  <2>1. Watch(car, run)
    BY DEF RunnerInv, LineTask
  <2>2. Owned(car)
    BY <2>1 DEF Watch
  <2>3. Coupled(n, run)
    BY <1>3, <2>1, <2>2, CoupledKept DEF Watch
  <2>4. Driving(run) => Parked(car)
    BY <2>1, DrivingParked DEF Watch
  <2>5. Owned(n)
    BY <1>3, <2>2
  <2> QED BY <1>3, <2>1, <2>3, <2>4, <2>5 DEF Watch, Follows, Measured, HasFinished, TakenOver
<1> QED BY <1>3, <1>4, <1>5, InvFrom DEF RunnerInv, Typed, LineTask, DueFrom, Follows

LEMMA ActionKeeps ==
    ASSUME RunnerConstants, RunnerInv, ActionTask PROVE RunnerInv'
<1> DEFINE s == [car |-> car, run |-> run]
<1>1. PICK t \in Updated(s) : run' = t.run /\ Becomes(t.car, KeptTimers(t.run))
  BY DEF ActionTask
<1>2. car \in Cars /\ run \in CarRuns /\ StepLoaded /\ Answering(car)
       /\ (run.on => run.at <= Count) /\ late \subseteq TimersRunning
  BY DEF RunnerInv, Typed
<1>3. Sane(s) /\ s.run = run /\ s.car = car
  BY <1>2 DEF Sane, Pairs
<1> HIDE DEF s
<1>4. RunsTo(s, t)
  BY <1>2, <1>3, UpdatedDoes
<1>5. Sane(t) /\ t.car \in Cars /\ t.run \in CarRuns /\ Answering(t.car) /\ (t.run.on => t.run.at <= Count)
  BY <1>4, PairHas DEF RunsTo, Sane
<1>6. car' = t.car /\ late' \subseteq Running(car') \cup (late \cap KeptTimers(t.run))
  BY <1>1, TimersTold
<1>7. late' \subseteq TimersRunning'
  <2>1. TimersRunning' = Running(car') \cup (IF run'.on THEN {"sequence"} ELSE {})
                         \cup (IF run'.on /\ run'.started THEN {"instr"} ELSE {})
    BY DEF TimersRunning, Running, HeadingTimed
  <2>2. KeptTimers(t.run) \subseteq (IF t.run.on THEN {"sequence"} ELSE {})
                                  \cup (IF t.run.on /\ t.run.started THEN {"instr"} ELSE {})
    BY DEF KeptTimers
  <2> QED BY <1>1, <1>6, <2>1, <2>2
<1>8. ~manual => Watch(t.car, t.run)
  <2>1. ~manual => CarReady(s)
    BY <1>3 DEF RunnerInv, Watch, CarReady, HasFinished, ActionTask
  <2> QED BY <1>4, <2>1 DEF RunsTo, Good, Watch
<1> QED BY <1>1, <1>2, <1>5, <1>6, <1>7, <1>8, InvFrom DEF RunnerInv, Typed, ActionTask

(* A program that is cancelled leaves a car at rest. *)
LEMMA CancelledDoes ==
    ASSUME RunnerConstants, RunnerInv, NEW t, t = Cancelled([car |-> car, run |-> run])
    PROVE  /\ t.car \in Cars /\ t.run \in CarRuns /\ Answering(t.car) /\ ~t.run.on
           /\ Watch(t.car, t.run)
<1>1. car \in Cars /\ run \in CarRuns /\ Answering(car)
  BY DEF RunnerInv, Typed
<1>2. t = Aborted(car, run, "cancelled")
  BY DEF Cancelled
<1>3. Settled(t) /\ CarFree(t) /\ ~t.run.on
  BY <1>1, <1>2, EndDoes DEF Results
<1>4. Sane(t) /\ Good(t)
  BY <1>3, SettledIsGood
<1>5. Watch(t.car, t.run)
  BY <1>4 DEF Good, Watch, Owned
<1> QED BY <1>3, <1>4, <1>5, PairHas DEF Sane

LEMMA CancelledKeeps ==
    ASSUME RunnerConstants, RunnerInv, NEW t, t = Cancelled([car |-> car, run |-> run]),
           run' = t.run, Becomes(t.car, {}), program' = program, handled' \in BOOLEAN, manual' \in BOOLEAN,
           commands' \in 0 .. MaxCommands, runnerPc' \in {"chassis", "heading", "line", "action", "app", "shell"}
    PROVE  RunnerInv'
<1>1. /\ t.car \in Cars /\ t.run \in CarRuns /\ Answering(t.car) /\ ~t.run.on
      /\ Watch(t.car, t.run)
  BY CancelledDoes
<1>2. car' = t.car /\ late' \subseteq Running(car')
  BY TimersTold
<1>3. late' \subseteq TimersRunning'
  BY <1>2 DEF TimersRunning, Running, HeadingTimed
<1> QED BY <1>1, <1>2, <1>3, InvFrom DEF RunnerInv, Typed

LEMMA AppKeeps ==
    ASSUME RunnerConstants, RunnerInv, AppRun PROVE RunnerInv'
<1>1. CASE car.fault /\ ~handled
  <2> DEFINE t == Cancelled([car |-> car, run |-> run])
  <2>1. run' = t.run /\ Becomes(t.car, {}) /\ handled' = TRUE
    BY <1>1 DEF AppRun
  <2> HIDE DEF t
  <2>2. t = Cancelled([car |-> car, run |-> run])
    BY DEF t
  <2> QED BY <2>1, <2>2, CancelledKeeps DEF AppRun, RunnerInv, Typed
<1>2. CASE ~(car.fault /\ ~handled)
  <2>1. car \in Cars /\ Answering(car)
    BY DEF RunnerInv, Typed
  <2>2. UNCHANGED <<late, run, handled, program, commands, manual>> /\ runnerPc = "app" /\ runnerPc' = "shell"
    BY <1>2 DEF AppRun
  <2>3. Touched(car, car') /\ (car.fault => car'.fault) /\ (car'.claim => car.claim)
    <3> DEFINE o == [car EXCEPT !.claim = FALSE]
    <3>1. car' = car \/ car' = o
      BY <1>2 DEF AppRun
    <3>2. Touched(car, o) /\ o.claim = FALSE /\ o.fault = car.fault
      BY <2>1, ClaimDoes
    <3> HIDE DEF o
    <3> QED BY <2>1, <3>1, <3>2 DEF Touched
  <2>4. Follows(car, car') /\ car'.heading = car.heading /\ car'.line = car.line /\ car'.road = car.road
    BY <2>1, <2>3, TouchedFollows
  <2>5. late' \subseteq TimersRunning'
    BY <2>2, <2>4, TimersSame DEF RunnerInv, Typed
  <2>6. ~manual => Watch(car', run)
    BY <2>1, <2>2, <2>3, TouchedWatch DEF RunnerInv
  <2> QED BY <2>2, <2>4, <2>5, <2>6, InvFrom DEF RunnerInv, Typed, Follows
<1> QED BY <1>1, <1>2

LEMMA RoundKeeps ==
    ASSUME RunnerInv, RoundDone PROVE RunnerInv'
<1>1. car \in Cars /\ Answering(car)
  BY DEF RunnerInv, Typed
<1>2. late' \subseteq TimersRunning'
  BY TimersSame DEF RunnerInv, Typed, RoundDone
<1> QED BY <1>1, <1>2, InvFrom DEF RunnerInv, Typed, RoundDone

-----------------------------------------------------------------------------
(* What the shell does. *)
LEMMA CommandIs ==
    ASSUME RunnerConstants, RunnerInv, Command
    PROVE  /\ runnerPc = "shell" /\ runnerPc' = "shell" /\ handled' \in BOOLEAN
           /\ commands' \in 0 .. MaxCommands
<1>1. commands \in 0 .. MaxCommands /\ commands < MaxCommands /\ commands' = commands + 1 /\ MaxCommands \in Nat
  BY DEF RunnerInv, Typed, Command, RunnerConstants
<1> QED BY <1>1 DEF RunnerInv, Typed, Command

LEMMA MeddlesKeeps ==
    ASSUME RunnerConstants, RunnerInv, Command, NEW c \in Cars, Answering(c), Meddles(c)
    PROVE  RunnerInv'
<1>1. runnerPc' = "shell" /\ handled' \in BOOLEAN /\ commands' \in 0 .. MaxCommands
  BY CommandIs
<1>2. run' = run /\ program' = program /\ manual' = TRUE /\ Becomes(c, RunnerTimers)
  BY DEF Meddles
<1>3. car' = c /\ late' \subseteq TimersRunning'
  BY <1>2, TimersTold, TimersKept DEF RunnerInv, Typed
<1> QED BY <1>1, <1>2, <1>3, InvFrom DEF RunnerInv, Typed

LEMMA ShellRunKeeps ==
    ASSUME RunnerConstants, RunnerInv, ShellRun PROVE RunnerInv'
<1>1. car' = car /\ late' = late /\ manual' = ~AtRest(car) /\ ~run.on
  BY DEF ShellRun
<1>2. /\ program' \in RunnerPrograms
      /\ run' = [on |-> TRUE, at |-> 1, started |-> FALSE, preserve |-> FALSE, success |-> FALSE,
                 result |-> "running", laps |-> Opening']
  BY DEF ShellRun, Opening
<1>3. Count' \in Nat \ {0} /\ DOMAIN program' = 1 .. Count'
  <2>1. LegalPlan(program')
    BY <1>2 DEF RunnerConstants
  <2> QED BY <2>1 DEF LegalPlan, Count
<1>4. Opening' \in Laps' /\ 1 \in CarPlaces'
  <2>1. 0 \in 0 .. Repeats
    BY DEF RunnerConstants
  <2>2. Opening' = [i \in DOMAIN program' |-> 0] /\ Laps' = [DOMAIN program' -> 0 .. Repeats]
    BY DEF Opening, Laps, RunnerConstants
  <2>3. Opening' \in Laps'
    BY <2>1, <2>2
  <2>4. CarPlaces' = 1 .. Count' + 1
    BY DEF CarPlaces
  <2>5. \A n \in Nat \ {0} : 1 \in 1 .. n + 1
    OBVIOUS
  <2>6. 1 \in CarPlaces'
    BY <1>3, <2>4, <2>5, Zenon
  <2> QED BY <2>3, <2>6
<1>5. run' \in CarRuns'
  <2>1. CarRuns' = [on : BOOLEAN, at : CarPlaces', started : BOOLEAN, preserve : BOOLEAN, success : BOOLEAN,
                 result : Results, laps : Laps']
    BY DEF CarRuns
  <2> QED BY <1>2, <1>4, <2>1 DEF Results
<1>6. run'.on /\ run'.at <= Count' /\ ~run'.started /\ ~run'.preserve
  BY <1>2, <1>3
<1>7. late' \subseteq TimersRunning'
  BY <1>1 DEF RunnerInv, Typed, TimersRunning, Running, HeadingTimed
<1>8. Typed'
  <2>1. runnerPc' = "shell" /\ handled' \in BOOLEAN /\ commands' \in 0 .. MaxCommands
    BY CommandIs DEF ShellRun
  <2>2. car' \in Cars /\ manual' \in BOOLEAN
    BY <1>1 DEF RunnerInv, Typed
  <2>3. StepLoaded'
    BY <1>2 DEF StepLoaded
  <2> QED BY <1>5, <1>6, <1>7, <2>1, <2>2, <2>3 DEF Typed
<1>9. Answering(car)'
  BY <1>1 DEF RunnerInv, Answering, Manoeuvring
<1>10. (~manual => Watch(car, run))'
  <2> SUFFICES ASSUME AtRest(car) PROVE Watch(car, run)'
    BY <1>1
  <2>1. InHand(car)
    BY RestedInHand
  <2>2. Owned(car)' /\ AtRest(car)'
    BY <1>1, <2>1 DEF InHand, Owned, Coherent, Claimed, AtRest, Manoeuvring, Turns
  <2>3. Coupled(car, run)' /\ ~Driving(run)'
    BY <1>6, <2>2 DEF Coupled, Driving
  <2> QED BY <2>2, <2>3 DEF Watch, Owned
<1> QED BY <1>8, <1>9, <1>10 DEF RunnerInv

LEMMA ShellCancelKeeps ==
    ASSUME RunnerConstants, RunnerInv, ShellCancel PROVE RunnerInv'
<1> DEFINE t == Cancelled([car |-> car, run |-> run])
<1>1. run' = t.run /\ Becomes(t.car, {}) /\ manual' = FALSE /\ program' = program /\ Command
  BY DEF ShellCancel
<1>2. t = Cancelled([car |-> car, run |-> run])
  OBVIOUS
<1> HIDE DEF t
<1> QED BY <1>1, <1>2, CommandIs, CancelledKeeps

LEMMA ShellStartKeeps ==
    ASSUME RunnerConstants, RunnerInv, ShellStart PROVE RunnerInv'
<1>1. car \in Cars /\ Answering(car) /\ Command
  BY DEF RunnerInv, Typed, ShellStart
<1>2. PICK c \in HoldStart(car) \cup TurnStart(car) \cup DistanceStart(car) \cup LineStart(car, TRUE)
                 \cup LineCalibrate(car) \cup (IF car.fault THEN {} ELSE {Driven(car)}) : Meddles(c)
  BY DEF ShellStart
<1>3. CASE c \in HoldStart(car) \cup TurnStart(car) \cup DistanceStart(car)
  <2>1. PICK mode \in {"hold", "turn", "distance"} : c = MotionStarted(car, mode)
    BY <1>3 DEF HoldStart, TurnStart, DistanceStart
  <2>2. c \in Cars /\ Answering(c)
    BY <1>1, <2>1, MotionBegins
  <2> QED BY <1>1, <1>2, <2>2, MeddlesKeeps
<1>4. CASE c \in LineStart(car, TRUE)
  <2>1. c \in Cars /\ Answering(c)
    BY <1>1, <1>4, LineBegins
  <2> QED BY <1>1, <1>2, <2>1, MeddlesKeeps
<1>5. CASE c \in LineCalibrate(car)
  <2> DEFINE l == [car.line EXCEPT !.mode = "cal"]
  <2>1. l \in LineStates
    BY <1>1, CarHas DEF LineStates, LineModes
  <2>2. c = [car EXCEPT !.line = l]
    BY <1>5 DEF LineCalibrate
  <2> HIDE DEF l
  <2>3. c \in Cars /\ c.road = car.road
    BY <1>1, <2>1, <2>2, LineDoes
  <2>4. Answering(c)
    BY <1>1, <2>3 DEF Answering, Manoeuvring
  <2> QED BY <1>1, <1>2, <2>3, <2>4, MeddlesKeeps
<1>6. CASE c = Driven(car)
  <2>1. c \in Cars /\ c.road = car.road
    BY <1>1, <1>6, FaultedDoes DEF Touched
  <2>2. Answering(c)
    BY <1>1, <2>1 DEF Answering, Manoeuvring
  <2> QED BY <1>1, <1>2, <2>1, <2>2, MeddlesKeeps
<1> QED BY <1>2, <1>3, <1>4, <1>5, <1>6

LEMMA ShellLockKeeps ==
    ASSUME RunnerConstants, RunnerInv, ShellLock PROVE RunnerInv'
<1>1. car \in Cars /\ Answering(car) /\ Command
  BY DEF RunnerInv, Typed, ShellLock
<1>2. PICK c \in LockStart(car) : Meddles(c)
  BY DEF ShellLock
<1> DEFINE m == MotionStarted(car, "lock")
           h == [m.heading EXCEPT !.lock = "locked", !.at = TRUE]
<1>3. c = [m EXCEPT !.heading.lock = "locked", !.heading.at = TRUE]
  BY <1>2 DEF LockStart
<1>4. Begun(car, m, "lock")
  BY <1>1, StartedDoes DEF HeadingModes
<1> HIDE DEF m
<1>5. m \in Cars /\ m.road = car.road
  BY <1>4 DEF Begun
<1>6. h \in HeadingStates
  BY <1>5, CarHas DEF HeadingStates, LockPhases
<1>7. c = [m EXCEPT !.heading = h]
  BY <1>3
<1> HIDE DEF h
<1>8. c \in Cars /\ c.road = m.road
  <2>1. [m EXCEPT !.heading = h] \in Cars
    BY <1>5, <1>6, CarExcept
  <2> QED BY <1>5, <1>7, <2>1 DEF Cars
<1>9. Answering(c)
  BY <1>1, <1>5, <1>8 DEF Answering, Manoeuvring
<1> QED BY <1>1, <1>2, <1>8, <1>9, MeddlesKeeps

LEMMA ShellHeadingStopKeeps ==
    ASSUME RunnerConstants, RunnerInv, ShellHeadingStop PROVE RunnerInv'
<1>1. car \in Cars /\ Answering(car) /\ Command
  BY DEF RunnerInv, Typed, ShellHeadingStop
<1>2. PICK c \in HeadingStop(car) : Meddles(c)
  BY DEF ShellHeadingStop
<1> DEFINE ended == IF car.heading.mode = "idle" THEN car.heading.ended ELSE "cut"
<1>3. PICK ok \in BOOLEAN : c = HeadingStopped(car, ok, ended)
  BY <1>2 DEF HeadingStop
<1>4. ended \in Endings
  BY <1>1, CarHas DEF HeadingStates, Endings
<1> HIDE DEF ended
<1>5. Stilled(car, c, ok, ended)
  BY <1>1, <1>3, <1>4, StoppedDoes
<1>6. c \in Cars /\ Answering(c)
  BY <1>1, <1>5 DEF Stilled, Answering, Manoeuvring
<1> QED BY <1>1, <1>2, <1>6, MeddlesKeeps

LEMMA ShellLineStopKeeps ==
    ASSUME RunnerConstants, RunnerInv, ShellLineStop PROVE RunnerInv'
<1>1. car \in Cars /\ Answering(car) /\ Command
  BY DEF RunnerInv, Typed, ShellLineStop
<1> DEFINE c == IF RoadBusy(car) THEN RoadCancel(car) ELSE LineStop(car)
<1>2. Meddles(c)
  BY DEF ShellLineStop
<1>3. Kin(car, RoadCancel(car)) /\ Unlined(car, LineStop(car))
  BY <1>1, CancelDoes, LineEnds
<1>4. c \in Cars /\ Answering(c)
  <2>1. Unlined(car, LineStop(car)) => Answering(LineStop(car))
    BY <1>1 DEF Unlined, Answering, Manoeuvring
  <2> QED BY <1>3, <2>1 DEF Kin, Unlined
<1> HIDE DEF c
<1> QED BY <1>1, <1>2, <1>4, MeddlesKeeps

LEMMA ShellChassisStopKeeps ==
    ASSUME RunnerConstants, RunnerInv, ShellChassisStop PROVE RunnerInv'
<1>1. car \in Cars /\ Answering(car) /\ Command
  BY DEF RunnerInv, Typed, ShellChassisStop
<1> DEFINE c == [car EXCEPT !.claim = FALSE]
<1>2. Meddles(c)
  BY DEF ShellChassisStop
<1>3. Touched(car, c)
  BY <1>1, ClaimDoes
<1> HIDE DEF c
<1>4. c \in Cars /\ Answering(c)
  BY <1>1, <1>3 DEF Touched, Answering, Manoeuvring
<1> QED BY <1>1, <1>2, <1>4, MeddlesKeeps

(* n is m in another mode of the road controller. *)
Remoded(m, n) ==
    /\ n \in Cars /\ Answering(n) /\ n.heading = m.heading /\ n.line = m.line /\ n.claim = m.claim
    /\ n.fault = m.fault /\ n.adc8 = m.adc8
    /\ n.road.phase = m.road.phase /\ n.road.active = m.road.active

LEMMA ModeDoes ==
    ASSUME NEW m \in Cars, Answering(m), NEW auto \in BOOLEAN
    PROVE  Remoded(m, [m EXCEPT !.road.auto = auto])
<1> DEFINE r == [m.road EXCEPT !.auto = auto]
           n == [m EXCEPT !.road = r]
<1>1. m.road \in RoadStates
  BY CarHas
<1>2. r \in RoadStates /\ r.phase = m.road.phase /\ r.active = m.road.active /\ r.result = m.road.result
  BY <1>1 DEF RoadStates
<1>3. [m EXCEPT !.road.auto = auto] = n
  OBVIOUS
<1> HIDE DEF r
<1>4. RoadSet(m, n, r)
  BY <1>2, RoadDoes
<1> HIDE DEF n
<1> QED BY <1>2, <1>3, <1>4 DEF Remoded, RoadSet, Answering, Manoeuvring

LEMMA SetModeDoes ==
    ASSUME NEW m \in Cars, Answering(m), NEW auto \in BOOLEAN, NEW c, c = RoadSetMode(m, auto)
    PROVE  /\ c \in Cars /\ Answering(c)
           /\ \/ AtRest(c) /\ Manoeuvring(m)
              \/ ~Manoeuvring(c) /\ ~Manoeuvring(m) /\ c.heading = m.heading /\ c.line = m.line
                 /\ c.claim = m.claim /\ c.fault = m.fault /\ c.adc8 = m.adc8
              \/ c = m
<1>1. CASE auto /\ ~m.adc8
  BY <1>1 DEF RoadSetMode
<1>2. CASE ~(auto /\ ~m.adc8) /\ RoadBusy(m)
  <2> DEFINE k == RoadCancel(m)
  <2>1. Kin(m, k) /\ AtRest(k)
    BY CancelDoes
  <2>2. c = [k EXCEPT !.road.auto = auto]
    BY <1>2 DEF RoadSetMode
  <2> HIDE DEF k
  <2>3. Remoded(k, c)
    BY <2>1, <2>2, ModeDoes DEF Kin
  <2>4. Manoeuvring(m)
    BY <1>2 DEF RoadBusy, Answering
  <2> QED BY <2>1, <2>3, <2>4 DEF Remoded, AtRest, Manoeuvring
<1>3. CASE ~(auto /\ ~m.adc8) /\ ~RoadBusy(m)
  <2>1. c = [m EXCEPT !.road.auto = auto]
    BY <1>3 DEF RoadSetMode
  <2>2. Remoded(m, c)
    BY <2>1, ModeDoes
  <2> QED BY <1>3, <2>2 DEF Remoded, RoadBusy, Manoeuvring
<1> QED BY <1>1, <1>2, <1>3

LEMMA ShellRoadModeKeeps ==
    ASSUME RunnerConstants, RunnerInv, ShellRoadMode PROVE RunnerInv'
<1>1. car \in Cars /\ Answering(car) /\ Command /\ UNCHANGED <<program, run, manual>>
  BY DEF RunnerInv, Typed, ShellRoadMode
<1>2. PICK auto \in BOOLEAN : Becomes(RoadSetMode(car, auto), RunnerTimers)
  BY DEF ShellRoadMode
<1> DEFINE c == RoadSetMode(car, auto)
<1>3. c = RoadSetMode(car, auto)
  OBVIOUS
<1>4. Becomes(c, RunnerTimers)
  BY <1>2
<1> HIDE DEF c
<1>5. /\ c \in Cars /\ Answering(c)
      /\ \/ AtRest(c) /\ Manoeuvring(car)
         \/ ~Manoeuvring(c) /\ ~Manoeuvring(car) /\ c.heading = car.heading /\ c.line = car.line
            /\ c.claim = car.claim /\ c.fault = car.fault /\ c.adc8 = car.adc8
         \/ c = car
  BY <1>1, <1>3, SetModeDoes
<1>6. car' = c /\ late' \subseteq TimersRunning'
  BY <1>1, <1>4, TimersTold, TimersKept DEF RunnerInv, Typed
<1>7. runnerPc = "shell" /\ runnerPc' = "shell" /\ handled' \in BOOLEAN /\ commands' \in 0 .. MaxCommands
  BY <1>1, CommandIs
<1>8. ~manual => Watch(c, run)
  <2> SUFFICES ASSUME ~manual PROVE Watch(c, run)
    OBVIOUS
  <2>1. Watch(car, run)
    BY <1>7 DEF RunnerInv
  <2>2. CASE AtRest(c) /\ Manoeuvring(car)
    <3>1. InHand(c) /\ Parked(c)
      BY <2>2, RestedInHand
    <3>2. ~Driving(run)
      BY <2>1, <2>2, DrivingParked DEF Watch, Parked
    <3>3. Coupled(c, run)
      BY <2>1, <2>2, <3>1 DEF Watch, Coupled, InHand
    <3> QED BY <3>1, <3>2, <3>3 DEF Watch, InHand, Owned
  <2>3. CASE ~Manoeuvring(c) /\ ~Manoeuvring(car) /\ c.heading = car.heading /\ c.line = car.line
             /\ c.claim = car.claim /\ c.fault = car.fault /\ c.adc8 = car.adc8
    <3>1. Owned(c)
      BY <2>1, <2>3 DEF Watch, Owned, Coherent, Claimed, HandedOver, Manoeuvring, Turns
    <3>2. Coupled(c, run)
      BY <2>1, <2>3 DEF Watch, Coupled, AtRest, Unheld, Parked
    <3> QED BY <2>1, <2>3, <3>1, <3>2 DEF Watch, Measured, HasFinished
  <2>4. CASE c = car
    BY <2>1, <2>4
  <2> QED BY <1>5, <2>2, <2>3, <2>4
<1> QED BY <1>1, <1>5, <1>6, <1>7, <1>8, InvFrom DEF RunnerInv, Typed

LEMMA ShellSourceKeeps ==
    ASSUME RunnerConstants, RunnerInv, ShellSource PROVE RunnerInv'
<1>1. /\ car \in Cars /\ Answering(car) /\ Command /\ UNCHANGED <<program, run, manual>>
      /\ ~SensorBusy(car) /\ ~run.on
  BY DEF RunnerInv, Typed, ShellSource
<1>2. PICK adc8 \in BOOLEAN : Becomes(SetSource(car, adc8), RunnerTimers)
  BY DEF ShellSource
<1> DEFINE m == [car EXCEPT !.adc8 = adc8]
           c == SetSource(car, adc8)
<1>3. c = RoadSetMode(m, FALSE) /\ Becomes(c, RunnerTimers)
  BY <1>2 DEF SetSource
<1>4. m \in Cars /\ m.heading = car.heading /\ m.line = car.line /\ m.road = car.road /\ m.claim = car.claim
  <2>1. m = [heading |-> car.heading, line |-> car.line, road |-> car.road,
             claim |-> car.claim, fault |-> car.fault, adc8 |-> adc8]
    BY <1>1 DEF Cars
  <2> HIDE DEF m
  <2>2. m \in Cars
    BY <1>1, <2>1, CarHas, CarOf
  <2> QED BY <2>1, <2>2
<1> HIDE DEF c, m
<1>5. Answering(m)
  BY <1>1, <1>4 DEF Answering, Manoeuvring
<1>6. /\ c \in Cars /\ Answering(c)
      /\ \/ AtRest(c) /\ Manoeuvring(m)
         \/ ~Manoeuvring(c) /\ ~Manoeuvring(m) /\ c.heading = m.heading /\ c.line = m.line
            /\ c.claim = m.claim /\ c.fault = m.fault /\ c.adc8 = m.adc8
         \/ c = m
  BY <1>3, <1>4, <1>5, SetModeDoes
<1>7. car' = c /\ late' \subseteq TimersRunning'
  BY <1>1, <1>3, TimersTold, TimersKept DEF RunnerInv, Typed
<1>8. runnerPc = "shell" /\ runnerPc' = "shell" /\ handled' \in BOOLEAN /\ commands' \in 0 .. MaxCommands
  BY <1>1, CommandIs
<1>9. ~manual => Watch(c, run)
  <2> SUFFICES ASSUME ~manual PROVE Watch(c, run)
    OBVIOUS
  <2>1. AtRest(car)
    BY <1>1, <1>8 DEF RunnerInv, Watch, Coupled
  <2>2. AtRest(m)
    BY <1>4, <2>1 DEF AtRest, Manoeuvring
  <2>3. AtRest(c)
    BY <1>6, <2>2 DEF AtRest
  <2>4. InHand(c)
    BY <2>3, RestedInHand
  <2> QED BY <1>1, <2>3, <2>4 DEF Watch, Coupled, Driving, InHand, Owned
<1> QED BY <1>1, <1>6, <1>7, <1>8, <1>9, InvFrom DEF RunnerInv, Typed

LEMMA ClockKeeps ==
    ASSUME RunnerInv, Clock PROVE RunnerInv'
<1>1. PICK t \in Timers \cup RunnerTimers : Expire(t)
  BY DEF Clock
<1>2. /\ t \in TimersRunning /\ late' = late \cup {t}
      /\ UNCHANGED <<runnerPc, car, program, run, handled, commands, manual>>
  BY <1>1 DEF Expire
<1>3. TimersRunning' = TimersRunning
  BY <1>2 DEF TimersRunning, Running, HeadingTimed
<1>4. late' \subseteq TimersRunning'
  BY <1>2, <1>3 DEF RunnerInv, Typed
<1> QED BY <1>2, <1>4, InvFrom DEF RunnerInv, Typed

LEMMA IdleKeeps ==
    ASSUME RunnerInv, UNCHANGED runnerVars PROVE RunnerInv'
<1>1. TimersRunning' = TimersRunning
  BY DEF runnerVars, TimersRunning, Running, HeadingTimed
<1> QED BY <1>1, InvFrom DEF RunnerInv, Typed, runnerVars

-----------------------------------------------------------------------------
(* The car is reset with either sensor, and no program runs.                         *)
LEMMA RunnerInitially ==
    ASSUME RunnerConstants, RunnerInit PROVE RunnerInv
<1>1. car \in Cars /\ car.heading.mode = "idle" /\ car.line.mode = "idle" /\ car.road.phase = "idle"
      /\ car.road.active = FALSE /\ car.road.result = "idle" /\ car.claim = FALSE
  <2>1. /\ ResetCar.heading \in HeadingStates /\ ResetCar.line \in LineStates /\ ResetCar.road \in RoadStates
    BY DEF ResetCar, HeadingStates, HeadingModes, LockPhases, LineStates, LineModes, RoadStates, RoadPhases,
           Routes, RouteResults, RunnerFrames, Endings
  <2>2. PICK adc8 \in BOOLEAN : car = [heading |-> ResetCar.heading, line |-> ResetCar.line, road |-> ResetCar.road,
                                      claim |-> FALSE, fault |-> FALSE, adc8 |-> adc8]
    BY DEF RunnerInit, ResetCar
  <2>3. car \in Cars
    BY <2>1, <2>2, CarOf
  <2> QED BY <2>2, <2>3 DEF ResetCar
<1>2. AtRest(car) /\ Answering(car)
  BY <1>1 DEF AtRest, Answering, Manoeuvring
<1>3. StepLoaded
  BY DEF RunnerInit, StepLoaded
<1>4. run \in CarRuns /\ run.on = FALSE
  <2>1. Opening \in Laps /\ 1 \in CarPlaces
    BY <1>3, OpeningIs, CarProgramIs DEF CarPlaces
  <2> QED BY <2>1 DEF RunnerInit, CarRuns, Results
<1>5. Typed
  <2>1. late \subseteq TimersRunning /\ runnerPc = "chassis" /\ handled = FALSE /\ manual = FALSE
    BY DEF RunnerInit
  <2>2. commands \in 0 .. MaxCommands
    BY DEF RunnerInit, RunnerConstants
  <2> QED BY <1>1, <1>3, <1>4, <2>1, <2>2 DEF Typed
<1>6. Watch(car, run)
  BY <1>2, <1>4, RestedInHand DEF Watch, Coupled, Driving, InHand, Owned
<1> QED BY <1>2, <1>5, <1>6 DEF RunnerInv

(* The invariant, task by task and command by command.                               *)
LEMMA RunnerSteps ==
    ASSUME RunnerConstants, RunnerInv, [RunnerNext]_runnerVars PROVE RunnerInv'
<1>1. CASE MainLoop
  BY <1>1, ChassisKeeps, HeadingKeeps, LineKeeps, ActionKeeps, AppKeeps, RoundKeeps DEF MainLoop
<1>2. CASE Shell
  BY <1>2, ShellRunKeeps, ShellCancelKeeps, ShellStartKeeps, ShellLockKeeps, ShellHeadingStopKeeps,
     ShellLineStopKeeps, ShellChassisStopKeeps, ShellRoadModeKeeps, ShellSourceKeeps DEF Shell
<1>3. CASE Clock
  BY <1>3, ClockKeeps
<1>4. CASE UNCHANGED runnerVars
  BY <1>4, IdleKeeps
<1> QED BY <1>1, <1>2, <1>3, <1>4 DEF RunnerNext

(* The invariant behind the theorems that follow: types; a route is active exactly   *)
(* while its result is running; and, unless the shell has had a hand in what moves,  *)
(* the wheels have one owner, the step the runner waits on fits what the car does,   *)
(* and a distance it waits on is being driven or has not ended as a success          *)
(* (heading.cpp, linefollow.cpp, road_event_controller.cpp, action.cpp).             *)
THEOREM RunnerHolds ==
    ASSUME RunnerConstants PROVE RunnerSpec => []RunnerInv
<1>1. RunnerInit => RunnerInv
  BY RunnerInitially
<1>2. RunnerInv /\ [RunnerNext]_runnerVars => RunnerInv'
  BY RunnerSteps
<1> QED BY <1>1, <1>2, PTL DEF RunnerSpec

(* Types: the runner is at a step of its program as long as it runs, no loop counts  *)
(* past its repeats, and only a timer that runs is ever late (action.cpp).           *)
THEOREM RunnerTypes ==
    ASSUME RunnerConstants PROVE RunnerSpec => []RunnerTypeOK
<1>1. RunnerInv => RunnerTypeOK
  <2>1. RunnerInv => run \in [on : BOOLEAN, at : 1 .. Count + 1, started : BOOLEAN,
         preserve : BOOLEAN, success : BOOLEAN,
                              result : Results, laps : [DOMAIN program -> 0 .. Repeats]]
    BY DEF RunnerInv, Typed, CarRuns, CarPlaces, Laps
  <2> QED BY <2>1 DEF RunnerInv, Typed, RunnerTypeOK, StepLoaded
<1>2. RunnerSpec => []RunnerInv
  BY RunnerHolds
<1> QED BY <1>1, <1>2, PTL

(* At every point of a round the wheels turn only for a controller that will stop    *)
(* them or for the manoeuvre they are handed over to, and heading and line following *)
(* never have them both: whichever tasks are due, no handoff of the road controller  *)
(* and no change from one step to the next loses them or gives them twice            *)
(* (heading.cpp, linefollow.cpp, road_event_controller.cpp, action.cpp).             *)
THEOREM WheelsAreOwned ==
    ASSUME RunnerConstants PROVE RunnerSpec => []WheelsOwned
<1>1. RunnerInv => WheelsOwned
  BY DEF RunnerInv, Watch, Owned, Claimed, Coherent, WheelsOwned, NoOrphanMotion, OneOwner
<1>2. RunnerSpec => []RunnerInv
  BY RunnerHolds
<1> QED BY <1>1, <1>2, PTL

(* Only ActionRunner_Update takes a distance for driven, and it finds heading idle   *)
(* and no fault: the invariant says how that came about.                             *)
LEMMA DistancesDriven ==
    ASSUME RunnerConstants, RunnerInv, [RunnerNext]_runnerVars PROVE [DistanceDoneStep]_runnerVars
<1> SUFFICES ASSUME Succeeds("driveMm"), ~manual PROVE car.heading.ended \in {"reached", "taken"}
  BY DEF DistanceDoneStep
<1>1. runnerPc = "action" /\ run.on /\ run.started /\ Step.op = "driveMm" /\ ~run'.started /\ run'.success
  BY DEF Succeeds
<1>2. run' # run
  BY <1>1
<1>3. ActionTask
  BY <1>1, <1>2 DEF RunnerNext, MainLoop, ChassisTask, HeadingTask, LineTask,
     AppRun, RoundDone, Clock, Expire, Shell,
     ShellRun, ShellCancel, ShellStart, ShellLock, ShellHeadingStop, ShellLineStop, ShellChassisStop, ShellRoadMode,
     ShellSource, Command, runnerVars
<1> DEFINE s == [car |-> car, run |-> run]
<1>4. PICK t \in Updated(s) : run' = t.run
  BY <1>3 DEF ActionTask
<1>5. car \in Cars /\ run \in CarRuns /\ StepLoaded /\ Answering(car)
       /\ (run.on => run.at <= Count) /\ Watch(car, run)
  BY <1>1 DEF RunnerInv, Typed
<1>6. Sane(s) /\ s.run = run /\ s.car = car
  BY <1>5 DEF Sane, Pairs
<1> HIDE DEF s
<1>7. RunsTo(s, t) /\ (s.run.on /\ s.car.fault => ~t.run.success)
  BY <1>5, <1>6, UpdatedDoes
<1>8. Driving(run)
  BY <1>1 DEF Driving, Step
<1>9. CarReady(s)
  BY <1>5, <1>6 DEF Watch, CarReady, HasFinished
<1>10. car.heading.mode = "idle" /\ ~car.fault
  BY <1>1, <1>4, <1>6, <1>7, <1>9 DEF RunsTo
<1> QED BY <1>5, <1>8, <1>10 DEF Watch, Measured, HasFinished

(* A step that waits does so at rest, a program that has ended leaves nothing        *)
(* moving, every route is answered, and a distance that passes for a success was     *)
(* driven (ActionRunner_Update of action.cpp, Heading_Update of heading.cpp).        *)
THEOREM ProgramsAreAnswered ==
    ASSUME RunnerConstants PROVE RunnerSpec => ProgramsAnswered
<1>1. RunnerInv => WaitsAtRest /\ NothingAfterProgram /\ RouteAnswered
  BY DEF RunnerInv, Answering, Watch, Coupled, WaitsAtRest, NothingAfterProgram, RouteAnswered, Step
<1>2. RunnerInv /\ [RunnerNext]_runnerVars => [DistanceDoneStep]_runnerVars
  BY DistancesDriven
<1>3. RunnerSpec => []RunnerInv
  BY RunnerHolds
<1>4. RunnerSpec => [][RunnerNext]_runnerVars
  BY PTL DEF RunnerSpec
<1> QED BY <1>1, <1>2, <1>3, <1>4, PTL DEF ProgramsAnswered
=============================================================================
