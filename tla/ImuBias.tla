------------------------------- MODULE ImuBias -------------------------------
(* The gyroscope bias of gugaPI: the estimator that learns it while the car      *)
(* stands still (app/imu_bias_estimator.cpp), the IMU task that feeds it and      *)
(* freezes the yaw meanwhile (app/app_imu.cpp), and `imu bias save`, which moves  *)
(* what was learnt into the parameters and the FRAM (ConfigStore).  One tick is   *)
(* one run of the 5 ms task; biases count in small units.                         *)
EXTENDS ConfigStore

CONSTANTS Truths,           \* the bias the sensor really has
          RequiredSamples, Window, Cooldown,   \* in samples and ticks
          RuntimeLimit, MeanLimit, FilterDivisor, StepLimit,
          MaxImuCommands    \* bound: shell commands and environment changes

VARIABLES est,       \* g_status and the collection of the estimator
          lastFixed, \* g_lastFixedBiasZMdps
          yaw,       \* the last task run integrated the yaw, froze it, or neither
          rest,      \* environment: the car stands still, with nothing active
          truth,     \* environment: the bias of the sensor
          seen,      \* history: what the last sample met
          still,     \* history: samples at rest in a row
          learntFor, \* history: the fixed bias the runtime bias was learnt beside
          imuCommands

imuVars ==
    << configVars, est, lastFixed, yaw, rest, truth, seen, still, learntFor, imuCommands >>

ImuConstants ==
    /\ ConfigConstants /\ Truths \subseteq Int
    /\ RequiredSamples \in Nat \ {0} /\ FilterDivisor \in Nat \ {0}
    /\ Window \in Nat /\ Cooldown \in Nat
    /\ RuntimeLimit \in Nat /\ MeanLimit \in Nat /\ StepLimit \in Nat
    /\ MaxImuCommands \in Nat

Low(a, b) == IF a < b THEN a ELSE b
Clamp(v, limit) == IF v > limit THEN limit ELSE IF v < -limit THEN -limit ELSE v
Magnitude(v) == IF v < 0 THEN -v ELSE v
Quotient(a, d) == IF a < 0 THEN -((-a) \div d) ELSE a \div d  \* C++ division

Total == params.bias + est.runtime

Requested(e) == e.auto \/ e.manual

(* ClearCollection *)
Cleared(e) == [e EXCEPT !.samples = 0, !.sum = 0, !.elapsed = 0, !.freeze = FALSE]

(* EnterWaiting; NotifyBlocked does nothing else but count. *)
Waiting(e) ==
    [Cleared(e) EXCEPT !.state = IF Requested(e) THEN "waiting" ELSE "disabled"]

(* ImuBiasEstimator_ResetRuntime, also CommitRuntimeToFixed *)
FreshEstimator(auto) ==
    [state |-> IF auto THEN "waiting" ELSE "disabled", auto |-> auto, manual |-> FALSE,
     valid |-> FALSE, runtime |-> 0, samples |-> 0, sum |-> 0, elapsed |-> 0,
     freeze |-> FALSE, cooling |-> 0]

(* FinishCollection: a maintenance window moves the bias by a fraction of its mean. *)
Adjustment(e, mean) ==
    IF e.valid /\ ~e.manual THEN Clamp(Quotient(mean, FilterDivisor), StepLimit) ELSE mean

WindowFinished(e, noisy) ==
    LET mean == Quotient(e.sum, e.samples) IN
    IF noisy \/ Magnitude(mean) > MeanLimit THEN Waiting(e)
    ELSE [Cleared(e) EXCEPT
             !.runtime = Clamp(e.runtime + Adjustment(e, mean), RuntimeLimit),
             !.valid = TRUE, !.manual = FALSE, !.cooling = 0,
             !.state = IF e.auto THEN "cooldown" ELSE "disabled"]

(* ImuBiasEstimator_Update: cause is what the sample shows against learning. *)
Sampled(e, z) ==
    LET c == IF e.state = "collecting" THEN e ELSE Cleared(e) IN
    [c EXCEPT !.state = "collecting", !.samples = Low(@ + 1, RequiredSamples + 1),
              !.sum = @ + z, !.freeze = TRUE,
              !.elapsed = IF e.state = "collecting" THEN @ + 1 ELSE 0]

(* Mutant: motion suspends a window instead of ending it. *)
BiasUpdatedPausing(e, z, cause) ==
    LET cooled == [e EXCEPT !.cooling = Low(@ + 1, Cooldown)]
        s == Sampled(e, z)
    IN  IF ~Requested(e) THEN Waiting(e)
        ELSE IF e.state = "cooldown" /\ cooled.cooling < Cooldown THEN cooled
        ELSE IF cause = "blocked" THEN e
        ELSE IF s.samples >= RequiredSamples /\ s.elapsed >= Window
             THEN WindowFinished(s, cause = "noise")
             ELSE s

BiasUpdated(e, z, cause) ==
    LET cooled == [e EXCEPT !.cooling = Low(@ + 1, Cooldown)]
        s == Sampled(e, z)
    IN  IF ~Requested(e) THEN Waiting(e)
        ELSE IF e.state = "cooldown" /\ cooled.cooling < Cooldown THEN cooled
        ELSE IF cause = "blocked" THEN Waiting(e)
        ELSE IF s.samples >= RequiredSamples /\ s.elapsed >= Window
             THEN WindowFinished(s, cause = "noise")
             ELSE s

-----------------------------------------------------------------------------
Causes == {"none", "sensor", "blocked", "noise"}

(* App_ImuUpdate.  A fixed bias changed behind the estimator restarts it. *)
Noticed == IF params.bias = lastFixed THEN est ELSE FreshEstimator(est.auto)

(* g_collection sees the residual: what the sensor adds beyond the correction. *)
ImuUpdate ==
    \E cause \in IF rest THEN {"none"} ELSE Causes :
        LET e == BiasUpdated(Noticed, truth - params.bias - Noticed.runtime, cause)
            learnt == /\ cause # "sensor"
                      /\ e.state \in {"cooldown", "disabled"} /\ Noticed.state # e.state
        IN  /\ IF cause = "sensor"
               THEN est' = Waiting(est) /\ yaw' = "stale" /\ UNCHANGED lastFixed
               ELSE /\ est' = e
                    /\ lastFixed' = params.bias
                    /\ yaw' = IF e.freeze \/ (learnt /\ e.valid) THEN "frozen" ELSE "moving"
            /\ seen' = cause
            /\ still' = IF cause \in {"none", "noise"}
                        THEN Low(still + 1, RequiredSamples) ELSE 0
            /\ learntFor' = IF learnt THEN params.bias ELSE learntFor
            /\ UNCHANGED << configVars, rest, truth, imuCommands >>

(* App_ImuBiasSave: refused without an estimate, while anything moves and beyond *)
(* the range of the parameter; a failed save takes the old value back.            *)
BiasSave ==
    /\ rest /\ est.valid /\ Total \in Biases
    /\ LET p == Named("bias", Total) IN
       \/ /\ SaveOk(p)
          /\ params' = p
          /\ est' = FreshEstimator(est.auto)
          /\ lastFixed' = Total
       \/ /\ configFram' \in IF configFram.ready THEN SavedPartly(p) ELSE {configFram}
          /\ config' = [config EXCEPT !.dirty = TRUE, !.saved = "error"]
          /\ UNCHANGED << params, est, lastFixed >>

Learner == << est, lastFixed, yaw, rest, truth, seen, still, learntFor >>

(* `imu bias auto`, `imu bias calibrate`, `imu bias reset` *)
SetAutoEnabled(auto) ==
    LET e == [est EXCEPT !.auto = auto] IN
    est' = IF ~Requested(e) THEN Waiting(e)
           ELSE IF e.state = "disabled" THEN [e EXCEPT !.state = "waiting"] ELSE e

BiasCommand ==
    /\ \/ \E auto \in BOOLEAN : SetAutoEnabled(auto)
       \/ est' = Waiting([est EXCEPT !.manual = TRUE])
       \/ est' = FreshEstimator(est.auto)
    /\ UNCHANGED << configVars, lastFixed >>

(* The car starts or stops, or its bias drifts with the temperature. *)
Environment ==
    /\ \/ rest' = ~rest /\ UNCHANGED truth
       \/ truth' \in Truths /\ UNCHANGED rest
    /\ UNCHANGED << configVars, est, lastFixed, yaw, seen, still, learntFor >>

(* The supply fails: App_ImuInit starts the estimator with nothing learnt. *)
Restart ==
    /\ PowerCycle
    /\ est' = FreshEstimator(TRUE) /\ lastFixed' = params'.bias
    /\ yaw' = "stale" /\ seen' = "none" /\ still' = 0 /\ learntFor' = 0
    /\ UNCHANGED << rest, truth >>

ImuCommand ==
    /\ imuCommands < MaxImuCommands
    /\ imuCommands' = imuCommands + 1
    /\ \/ (BiasSave \/ BiasCommand) /\ UNCHANGED << yaw, rest, truth, seen, still, learntFor >>
       \/ (ParamLoad \/ ParamReset \/ ParamSet \/ ParamSave) /\ UNCHANGED Learner
       \/ Environment
       \/ Restart

ImuInit ==
    /\ ConfigInit
    /\ est = FreshEstimator(TRUE)
    /\ lastFixed = params.bias
    /\ yaw = "stale"
    /\ rest \in BOOLEAN
    /\ truth \in Truths
    /\ seen = "none" /\ still = 0 /\ learntFor = 0 /\ imuCommands = 0

ImuNext == ImuUpdate \/ ImuCommand

ImuSpec == ImuInit /\ [][ImuNext]_imuVars /\ WF_imuVars(ImuUpdate)

-----------------------------------------------------------------------------
ImuTypeOK ==
    /\ ConfigTypeOK
    /\ est.state \in {"disabled", "waiting", "collecting", "cooldown"}
    /\ est.runtime \in -RuntimeLimit .. RuntimeLimit
    /\ est.samples \in 0 .. RequiredSamples + 1
    /\ lastFixed \in Biases
    /\ yaw \in {"stale", "frozen", "moving"}

(* The yaw stands frozen only over samples taken with the car at rest: motion that  *)
(* starts in the middle of a window turns it loose at the very sample that shows    *)
(* it.                                                                              *)
FrozenAtRest == yaw = "frozen" => seen \in {"none", "noise"}

(* The bias changes only by a window every sample of which was at rest. *)
LearnsAtRestStep ==
    est'.runtime # est.runtime /\ est'.runtime # 0 => still' >= RequiredSamples

(* A runtime bias is never applied beside another fixed bias than the one it was *)
(* learnt with, once the task has run on the new one: `param load`, `param set`   *)
(* and a save that reached the FRAM yet reported an error change it in between.   *)
LearntForFixed ==
    est.runtime # 0 /\ lastFixed = params.bias => learntFor = params.bias

(* `imu bias save`, whether the FRAM takes it or not, leaves the correction in force *)
(* as it was: nothing is lost and nothing is applied twice.                          *)
SaveKeepsTotalStep == BiasSave => params'.bias + est'.runtime = params.bias + est.runtime

(* The bias is learnt at rest, for the fixed bias it belongs to, and saving it      *)
(* changes nothing in force (imu_bias_estimator.cpp, app_imu.cpp).                  *)
BiasHonest ==
    /\ [](FrozenAtRest /\ LearntForFixed)
    /\ [][LearnsAtRestStep]_imuVars /\ [][SaveKeepsTotalStep]_imuVars

(* Left at rest with automatic learning on, the estimator ends within a fraction of  *)
(* the true bias, unless the residual is more than a window may correct.             *)
Near ==
    est.auto => \/ Magnitude(truth - Total) < FilterDivisor
                \/ Magnitude(truth - Total) > MeanLimit
                \/ Magnitude(truth - params.bias) > RuntimeLimit
=============================================================================
