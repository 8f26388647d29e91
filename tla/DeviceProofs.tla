------------------------------ MODULE DeviceProofs ------------------------------
(* Theorems about what gugaPI keeps in its parameters, what it senses and how it       *)
(* talks to whoever stands beside it: the parameters (config_store.cpp), the bias of   *)
(* the IMU (app_imu.cpp), the grayscale array and what is read out of it               *)
(* (grayscale.cpp, grayscale_processing.cpp, app_grayscale.cpp), the display           *)
(* (app_display.cpp), and the two sides of the console (debug_uart.cpp, shell.cpp),    *)
(* proved for every value of their constants.                                          *)
EXTENDS ImuBias, GrayScan, GrayLine, Display, DebugUart, ShellInput, TLAPS, SequenceTheorems,
        FiniteSetTheorems, WellFoundedInduction

(* What is in the FRAM is an image of some firmware, whole or spoilt. *)
StoredImages == [layout : {"v17", "v16", "old", "none"}, params : Params, other : Params]

ConfigInv ==
    /\ configFram \in [main : StoredImages, ext : Infrareds \cup {NoExtension}, ready : BOOLEAN]
    /\ params \in Params
    /\ config \in [dirty : BOOLEAN, outcome : {"fram", "io", "invalid", "explicit"},
                   saved : {"none", "ok", "error"}]
    /\ ConfigSound

(* Whatever is decoded is a set of parameters, and what is taken over is valid. *)
LEMMA StoredParams ==
    ASSUME ConfigConstants, NEW image \in StoredImages, NEW ext \in Infrareds \cup {NoExtension}
    PROVE  /\ Stored(image, ext) \in Params
           /\ Readable(image) => ValidateParams(Stored(image, ext))
           /\ ~NeedsSave(image, ext) => image.layout = "v17" /\ ext # NoExtension
<1>1. DecodedImage(image) \in Params
  BY DEF DecodedImage, Migrated, ConfigConstants, Params, StoredImages
<1>2. CASE ExtensionLoads(image, ext)
  BY <1>1, <1>2 DEF ExtensionLoads, Stored, Params, NeedsSave
<1>3. CASE ~ExtensionLoads(image, ext)
  BY <1>1, <1>3 DEF Stored, Readable, NeedsSave
<1> QED BY <1>2, <1>3

(* What is saved is what comes back. *)
LEMMA SavedComesBack ==
    ASSUME ConfigConstants, NEW p \in Params, ValidateParams(p)
    PROVE  Current(p) \in StoredImages /\ Stored(Current(p), p.infrared) = p
<1>1. Current(p) \in StoredImages /\ p.infrared # NoExtension /\ Current(p).layout = "v17"
  BY DEF Current, StoredImages, ConfigConstants, Params
<1>2. DecodedImage(Current(p)) = [p EXCEPT !.infrared = Defaults.infrared]
  BY DEF Current, DecodedImage, ForkLayout, Migrated
<1>3. [DecodedImage(Current(p)) EXCEPT !.infrared = p.infrared] = p
  BY <1>2 DEF Params
<1>4. ~ForkLayout(Current(p))
  BY DEF Current, ForkLayout
<1> QED BY <1>1, <1>3, <1>4 DEF Stored, ExtensionLoads

LEMMA SavedPartlyIs ==
    ASSUME ConfigConstants, ConfigInv, NEW p \in Params, ValidateParams(p),
           NEW f \in SavedPartly(p)
    PROVE  f \in [main : StoredImages, ext : Infrareds \cup {NoExtension}, ready : BOOLEAN]
<1>1. Current(p) \in StoredImages /\ NoImage \in StoredImages /\ p.infrared \in Infrareds
  BY SavedComesBack DEF NoImage, StoredImages, ConfigConstants, Params
<1> DEFINE Stores == [main : StoredImages, ext : Infrareds \cup {NoExtension}, ready : BOOLEAN]
<1>2. configFram \in Stores
  BY DEF ConfigInv
<1>3. ASSUME NEW e \in Infrareds \cup {NoExtension} PROVE [configFram EXCEPT !.ext = e] \in Stores
  BY <1>2
<1>4. ASSUME NEW g \in Stores, NEW i \in StoredImages PROVE [g EXCEPT !.main = i] \in Stores
  OBVIOUS
<1>5. configFram.ext \in Infrareds \cup {NoExtension} /\ configFram.main \in StoredImages
  BY <1>2
<1> HIDE DEF Stores
<1>6. CASE f \in {[configFram EXCEPT !.ext = e] : e \in Partial(configFram.ext, p.infrared, NoExtension)}
  BY <1>1, <1>3, <1>5, <1>6 DEF Partial, Stores
<1>7. ASSUME NEW i \in Partial(configFram.main, Current(p), NoImage),
             f = [configFram EXCEPT !.ext = p.infrared, !.main = i]
      PROVE  f \in Stores
  <2>1. [configFram EXCEPT !.ext = p.infrared] \in Stores /\ i \in StoredImages
    BY <1>1, <1>3, <1>5 DEF Partial
  <2> QED BY <1>4, <1>7, <2>1
<1> QED BY <1>6, <1>7 DEF SavedPartly, Stores

LEMMA LoadSoundly ==
    ASSUME ConfigConstants, ConfigInv, LoadAny, UNCHANGED configFram PROVE ConfigInv'
<1>1. ASSUME NEW o \in {"io", "invalid", "explicit"}, ToDefaults(o) PROVE ConfigInv'
  BY <1>1 DEF ToDefaults, ConfigInv, ConfigSound, ParamsValid, CleanIsStored, ConfigConstants
<1>2. ASSUME configFram.ready, NEW ext \in {configFram.ext, NoExtension},
             LoadFrom(configFram.main, ext)
      PROVE  ConfigInv'
  <2>1. configFram.main \in StoredImages /\ ext \in Infrareds \cup {NoExtension}
    BY <1>2 DEF ConfigInv
  <2>2. CASE Readable(configFram.main)
    <3>1. params' = Stored(configFram.main, ext) /\ params' \in Params /\ ParamsValid'
      BY <1>2, <2>1, <2>2, StoredParams DEF LoadFrom, ParamsValid
    <3>2. config' = [config EXCEPT !.dirty = NeedsSave(configFram.main, ext), !.outcome = "fram"]
      BY <1>2, <2>2 DEF LoadFrom
    <3>3. NeedsSave(configFram.main, ext) \in BOOLEAN
      BY DEF NeedsSave, ExtensionLoads, ValidateParams
    <3>4. CleanIsStored'
      <4>1. CASE NeedsSave(configFram.main, ext)
        BY <3>2, <4>1 DEF CleanIsStored, ConfigInv
      <4>2. CASE ~NeedsSave(configFram.main, ext)
        BY <2>1, <3>1, <4>2, <1>2, StoredParams DEF CleanIsStored
      <4> QED BY <4>1, <4>2
    <3> QED BY <3>1, <3>2, <3>3, <3>4 DEF ConfigInv, ConfigSound
  <2>3. CASE ~Readable(configFram.main)
    BY <1>1, <1>2, <2>3 DEF LoadFrom
  <2> QED BY <2>2, <2>3
<1> QED BY <1>1, <1>2 DEF LoadAny

LEMMA ResetSoundly ==
    ASSUME ConfigConstants, ConfigInv, ParamReset PROVE ConfigInv'
BY DEF ParamReset, ToDefaults, ConfigInv, ConfigSound, ParamsValid, CleanIsStored, ConfigConstants

LEMMA SetSoundly ==
    ASSUME ConfigConstants, ConfigInv, ParamSet PROVE ConfigInv'
<1>1. ASSUME NEW p \in Params, SetTo(p), UNCHANGED configFram PROVE ConfigInv'
  BY <1>1 DEF SetTo, ConfigInv, ConfigSound, ParamsValid, CleanIsStored
<1>2. \E p \in Params : SetTo(p)
  <2>1. ASSUME NEW v \in Levels PROVE Named("trip", v) \in Params /\ Named("release", v) \in Params
    BY DEF Named, Params, ConfigInv
  <2>2. ASSUME NEW v \in Masks PROVE Named("mask", v) \in Params
    BY DEF Named, Params, ConfigInv
  <2>3. ASSUME NEW v \in Infrareds PROVE Named("infrared", v) \in Params
    BY DEF Named, Params, ConfigInv
  <2>4. ASSUME NEW v \in Biases PROVE Named("bias", v) \in Params
    BY DEF Named, Params, ConfigInv
  <2> QED BY <2>1, <2>2, <2>3, <2>4 DEF ParamSet
<1> QED BY <1>1, <1>2 DEF ParamSet

LEMMA SaveSoundly ==
    ASSUME ConfigConstants, ConfigInv, NEW p \in Params, ValidateParams(p), params' = p
    PROVE  /\ SaveOk(p) => ConfigInv'
           /\ SaveFails(p) => ConfigInv'
           /\ ConfigInv /\ config' = [config EXCEPT !.dirty = TRUE, !.saved = "error"]
              /\ configFram' \in (IF configFram.ready THEN SavedPartly(p) ELSE {configFram})
              => ConfigInv'
<1>1. ASSUME SaveOk(p) PROVE ConfigInv'
  <2>1. Current(p) \in StoredImages /\ Stored(Current(p), p.infrared) = p
        /\ p.infrared \in Infrareds /\ Current(p).layout = "v17"
    BY SavedComesBack DEF Current, Params
  <2> QED BY <1>1, <2>1 DEF SaveOk, SavedWhole, ConfigInv, ConfigSound, ParamsValid, CleanIsStored
<1>2. ASSUME configFram' \in IF configFram.ready THEN SavedPartly(p) ELSE {configFram}
      PROVE  configFram' \in [main : StoredImages, ext : Infrareds \cup {NoExtension},
                              ready : BOOLEAN]
  BY <1>2, SavedPartlyIs DEF ConfigInv
<1>3. ASSUME SaveFails(p) PROVE ConfigInv'
  BY <1>2, <1>3 DEF SaveFails, ConfigInv, ConfigSound, ParamsValid, CleanIsStored
<1>4. ASSUME config' = [config EXCEPT !.dirty = TRUE, !.saved = "error"],
             configFram' \in IF configFram.ready THEN SavedPartly(p) ELSE {configFram}
      PROVE  ConfigInv'
  BY <1>2, <1>4 DEF ConfigInv, ConfigSound, ParamsValid, CleanIsStored
<1> QED BY <1>1, <1>3, <1>4

LEMMA BootsSoundly ==
    ASSUME ConfigConstants,
           NEW f \in [main : StoredImages, ext : Infrareds \cup {NoExtension}, ready : BOOLEAN],
           NEW r \in BOOLEAN
    PROVE  /\ Booted(f, r).params \in Params /\ ValidateParams(Booted(f, r).params)
           /\ Booted(f, r).config \in
                  [dirty : BOOLEAN, outcome : {"fram", "io", "invalid", "explicit"},
                   saved : {"none", "ok", "error"}]
           /\ ~Booted(f, r).config.dirty =>
                  f.main.layout = "v17" /\ Stored(f.main, f.ext) = Booted(f, r).params
<1>1. f.main \in StoredImages /\ f.ext \in Infrareds \cup {NoExtension}
  OBVIOUS
<1>2. CASE r /\ Readable(f.main)
  <2>1. NeedsSave(f.main, f.ext) \in BOOLEAN
    BY DEF NeedsSave, ExtensionLoads, ValidateParams
  <2> QED BY <1>1, <1>2, <2>1, StoredParams DEF Booted
<1>3. CASE ~(r /\ Readable(f.main))
  BY <1>3 DEF Booted, ConfigConstants
<1> QED BY <1>2, <1>3

LEMMA PowerCycleSoundly ==
    ASSUME ConfigConstants, ConfigInv, PowerCycle PROVE ConfigInv'
<1>1. PICK f \in {configFram} \cup (IF configFram.ready THEN SavedPartly(params) ELSE {}),
           r \in BOOLEAN :
        /\ configFram' = [f EXCEPT !.ready = r]
        /\ params' = Booted(f, r).params
        /\ config' = Booted(f, r).config
  BY DEF PowerCycle
<1>2. f \in [main : StoredImages, ext : Infrareds \cup {NoExtension}, ready : BOOLEAN]
  BY SavedPartlyIs DEF ConfigInv, ConfigSound, ParamsValid
<1> QED BY <1>1, <1>2, BootsSoundly DEF ConfigInv, ConfigSound, ParamsValid, CleanIsStored

LEMMA ConfigStarts == ASSUME ConfigConstants, ConfigInit PROVE ConfigInv
<1>1. configFram \in [main : StoredImages, ext : Infrareds \cup {NoExtension}, ready : BOOLEAN]
  BY DEF ConfigInit, ConfigConstants, StoredImages, NoImage
<1> QED BY <1>1, BootsSoundly DEF ConfigInit, ConfigInv, ConfigSound, ParamsValid, CleanIsStored

LEMMA ConfigKeeps == ASSUME ConfigConstants, ConfigInv, [ConfigNext]_configVars PROVE ConfigInv'
<1>1. CASE ParamLoad BY <1>1, LoadSoundly DEF ParamLoad
<1>2. CASE ParamReset BY <1>2, ResetSoundly
<1>3. CASE ParamSet BY <1>3, SetSoundly
<1>4. CASE ParamSave
  BY <1>4, SaveSoundly DEF ParamSave, ConfigInv, ConfigSound, ParamsValid
<1>5. CASE PowerCycle BY <1>5, PowerCycleSoundly
<1>6. CASE UNCHANGED configVars
  BY <1>6 DEF configVars, ConfigInv, ConfigSound, ParamsValid, CleanIsStored
<1> QED BY <1>1, <1>2, <1>3, <1>4, <1>5, <1>6 DEF ConfigNext

(* Whatever image a load finds and whatever is set, saved, cut off or lost on the  *)
(* bus, the parameters in use are valid, and those called clean are stored         *)
(* (config_store.cpp).                                                             *)
THEOREM ConfigIsSound == ASSUME ConfigConstants PROVE ConfigSpec => []ConfigSound
<1>1. ConfigInit => ConfigInv BY ConfigStarts
<1>2. ConfigInv /\ [ConfigNext]_configVars => ConfigInv' BY ConfigKeeps
<1>3. ConfigInv => ConfigSound BY DEF ConfigInv
<1> QED BY <1>1, <1>2, <1>3, PTL DEF ConfigSpec

(* An estimator is requested unless it is disabled, and freezes the yaw only while *)
(* it collects.                                                                    *)
Estimators ==
    [state : {"disabled", "waiting", "collecting", "cooldown"}, auto : BOOLEAN,
     manual : BOOLEAN, valid : BOOLEAN, runtime : -RuntimeLimit .. RuntimeLimit,
     samples : 0 .. RequiredSamples + 1, sum : Int, elapsed : Int, freeze : BOOLEAN,
     cooling : Int]

EstimatorOK(e) ==
    /\ e \in Estimators
    /\ Requested(e) <=> e.state # "disabled"
    /\ e.freeze => e.state = "collecting"

(* The residual a correction was learnt from belongs to the fixed bias the task     *)
(* last ran on, and a window has not more samples than were at rest in a row.       *)
ImuInv ==
    /\ ConfigInv /\ EstimatorOK(est)
    /\ lastFixed \in Biases /\ yaw \in {"stale", "frozen", "moving"}
    /\ rest \in BOOLEAN /\ truth \in Truths /\ seen \in Causes
    /\ still \in 0 .. RequiredSamples /\ learntFor \in Int
    /\ FrozenAtRest
    /\ est.runtime # 0 \/ est.state = "cooldown" => learntFor = lastFixed
    /\ est.state = "collecting" => est.samples <= still \/ still >= RequiredSamples

LEMMA FreshOK ==
    ASSUME ImuConstants, NEW auto \in BOOLEAN
    PROVE  /\ EstimatorOK(FreshEstimator(auto)) /\ FreshEstimator(auto).runtime = 0
           /\ FreshEstimator(auto).state \in {"waiting", "disabled"}
           /\ FreshEstimator(auto).samples = 0
BY DEF ImuConstants, FreshEstimator, EstimatorOK, Estimators, Requested

LEMMA ClearedOK ==
    ASSUME ImuConstants, NEW e \in Estimators
    PROVE  /\ Cleared(e) \in Estimators
           /\ Cleared(e).samples = 0 /\ Cleared(e).freeze = FALSE
           /\ Cleared(e).state = e.state /\ Cleared(e).runtime = e.runtime
           /\ Cleared(e).auto = e.auto /\ Cleared(e).manual = e.manual
<1> DEFINE e1 == [e EXCEPT !.samples = 0]
           e2 == [e1 EXCEPT !.sum = 0]
           e3 == [e2 EXCEPT !.elapsed = 0]
<1>1. e3 \in Estimators
  <2>1. e1 \in Estimators BY DEF Estimators, ImuConstants
  <2> HIDE DEF e1
  <2>2. e2 \in Estimators BY <2>1 DEF Estimators
  <2> HIDE DEF e2
  <2> QED BY <2>2 DEF Estimators
<1>2. Cleared(e) = [e3 EXCEPT !.freeze = FALSE]
  BY DEF Cleared, Estimators
<1>3. Cleared(e) \in Estimators
  <2> HIDE DEF e3
  <2> QED BY <1>1, <1>2 DEF Estimators
<1> QED BY <1>3 DEF Cleared, Estimators

LEMMA WaitingOK ==
    ASSUME ImuConstants, NEW e \in Estimators
    PROVE  /\ EstimatorOK(Waiting(e)) /\ Waiting(e).runtime = e.runtime
           /\ Waiting(e).state = IF Requested(e) THEN "waiting" ELSE "disabled"
           /\ ~Waiting(e).freeze /\ Waiting(e).auto = e.auto /\ Waiting(e).manual = e.manual
<1> DEFINE st == IF Requested(e) THEN "waiting" ELSE "disabled"
<1>1. st \in {"waiting", "disabled"}
  OBVIOUS
<1>2. Waiting(e) = [Cleared(e) EXCEPT !.state = st]
  BY DEF Waiting
<1>3. Waiting(e) \in Estimators
  <2> HIDE DEF st
  <2> QED BY <1>1, <1>2, ClearedOK DEF Estimators
<1> DEFINE c == Cleared(e)
           u == Waiting(e)
<1>4. /\ c \in Estimators /\ c.freeze = FALSE /\ c.runtime = e.runtime
      /\ c.auto = e.auto /\ c.manual = e.manual
  BY ClearedOK
<1>5. u = [c EXCEPT !.state = st]
  BY <1>2
<1> HIDE DEF st, c, u
<1>6. u.runtime = e.runtime /\ u.state = st /\ u.freeze = FALSE /\ u.auto = e.auto
      /\ u.manual = e.manual
  BY <1>4, <1>5 DEF Estimators
<1> QED BY <1>3, <1>6 DEF EstimatorOK, Requested, st, u

LEMMA SampledIs ==
    ASSUME ImuConstants, NEW e, EstimatorOK(e), NEW z \in Int
    PROVE  LET s == Sampled(e, z) IN
           /\ s \in Estimators /\ s.state = "collecting" /\ s.runtime = e.runtime
           /\ s.auto = e.auto /\ s.manual = e.manual /\ s.samples >= 1
           /\ s.samples <= (IF e.state = "collecting" THEN e.samples + 1 ELSE 1)
<1> DEFINE c == IF e.state = "collecting" THEN e ELSE Cleared(e)
           m == Low(c.samples + 1, RequiredSamples + 1)
           v == IF e.state = "collecting" THEN c.elapsed + 1 ELSE 0
           s == Sampled(e, z)
<1>1. c \in Estimators /\ c.runtime = e.runtime /\ c.auto = e.auto /\ c.manual = e.manual
  BY ClearedOK DEF EstimatorOK
<1>2. c.samples = IF e.state = "collecting" THEN e.samples ELSE 0
  BY ClearedOK DEF EstimatorOK
<1> HIDE DEF c
<1>3. m \in 0 .. RequiredSamples + 1 /\ m >= 1 /\ m <= c.samples + 1 /\ v \in Int
      /\ c.sum + z \in Int
  BY <1>1 DEF Low, Estimators, ImuConstants
<1>4. s = [c EXCEPT !.state = "collecting", !.samples = m, !.sum = @ + z, !.freeze = TRUE,
                    !.elapsed = v]
  BY DEF Sampled, c
<1> HIDE DEF m, v
<1> DEFINE c1 == [c EXCEPT !.state = "collecting"]
           c2 == [c1 EXCEPT !.samples = m]
           c3 == [c2 EXCEPT !.sum = @ + z]
           c4 == [c3 EXCEPT !.freeze = TRUE]
<1>5. c4 \in Estimators
  <2>1. c1 \in Estimators BY <1>1 DEF Estimators
  <2> HIDE DEF c1
  <2>2. c2 \in Estimators BY <1>3, <2>1 DEF Estimators
  <2> HIDE DEF c2
  <2>3. c3 \in Estimators BY <2>2 DEF Estimators
  <2> HIDE DEF c3
  <2> QED BY <2>3 DEF Estimators
<1>6. s = [c4 EXCEPT !.elapsed = v]
  BY <1>1, <1>4 DEF Estimators
<1>7. s \in Estimators
  <2> HIDE DEF c4, s
  <2> QED BY <1>3, <1>5, <1>6 DEF Estimators
<1>8. s.state = "collecting" /\ s.runtime = c.runtime
      /\ s.auto = c.auto /\ s.manual = c.manual /\ s.samples = m
  BY <1>1, <1>4 DEF Estimators
<1> QED BY <1>1, <1>2, <1>3, <1>7, <1>8

LEMMA QuotientIs ==
    ASSUME NEW a \in Int, NEW d \in Nat \ {0} PROVE Quotient(a, d) \in Int
BY DEF Quotient

LEMMA FinishedIs ==
    ASSUME ImuConstants, NEW s \in Estimators, s.samples >= 1, Requested(s), NEW noisy \in BOOLEAN
    PROVE  LET w == WindowFinished(s, noisy) IN
           /\ EstimatorOK(w) /\ ~w.freeze
           /\ w = Waiting(s) \/ w.state \in {"cooldown", "disabled"}
<1> DEFINE mean == Quotient(s.sum, s.samples)
<1>1. mean \in Int
  BY QuotientIs DEF Estimators
<1>2. CASE noisy \/ Magnitude(mean) > MeanLimit
  BY <1>2, WaitingOK DEF WindowFinished
<1>3. CASE ~(noisy \/ Magnitude(mean) > MeanLimit)
  <2>1. Quotient(mean, FilterDivisor) \in Int
    BY <1>1, QuotientIs DEF ImuConstants
  <2>2. Adjustment(s, mean) \in Int
    BY <1>1, <2>1 DEF Adjustment, Clamp, ImuConstants
  <2> DEFINE v == Clamp(s.runtime + Adjustment(s, mean), RuntimeLimit)
  <2>3. v \in -RuntimeLimit .. RuntimeLimit
    BY <2>2 DEF Clamp, ImuConstants, Estimators
  <2>4. WindowFinished(s, noisy) =
          [Cleared(s) EXCEPT !.runtime = v, !.valid = TRUE, !.manual = FALSE, !.cooling = 0,
                             !.state = IF s.auto THEN "cooldown" ELSE "disabled"]
    BY <1>3 DEF WindowFinished
  <2> HIDE DEF v
  <2> DEFINE w == WindowFinished(s, noisy)
             st == IF s.auto THEN "cooldown" ELSE "disabled"
             w1 == [Cleared(s) EXCEPT !.runtime = v]
             w2 == [w1 EXCEPT !.valid = TRUE]
             w3 == [w2 EXCEPT !.manual = FALSE]
             w4 == [w3 EXCEPT !.cooling = 0]
  <2>5. w = [w4 EXCEPT !.state = st]
    BY <2>4, ClearedOK DEF Estimators
  <2>6. st \in {"cooldown", "disabled"} /\ s.auto = (st # "disabled")
    BY DEF Estimators
  <2>7. w4 \in Estimators
    <3>1. w1 \in Estimators BY <2>3, ClearedOK DEF Estimators
    <3> HIDE DEF w1
    <3>2. w2 \in Estimators BY <3>1 DEF Estimators
    <3> HIDE DEF w2
    <3>3. w3 \in Estimators BY <3>2 DEF Estimators
    <3> HIDE DEF w3
    <3> QED BY <3>3 DEF Estimators
  <2>8. w4.auto = s.auto /\ w4.manual = FALSE /\ w4.freeze = FALSE
    BY ClearedOK DEF Estimators
  <2> HIDE DEF w, w4, st
  <2>9. w \in Estimators
    BY <2>5, <2>6, <2>7 DEF Estimators
  <2>10. w.state = st /\ w.auto = s.auto /\ w.manual = FALSE /\ w.freeze = FALSE
    BY <2>5, <2>7, <2>8 DEF Estimators
  <2>11. EstimatorOK(w) /\ ~w.freeze /\ w.state \in {"cooldown", "disabled"}
    BY <2>6, <2>9, <2>10 DEF EstimatorOK, Requested
  <2> QED BY <2>11 DEF w
<1> QED BY <1>2, <1>3

(* What one run of the estimator does.                                             *)
LEMMA UpdateIs ==
    ASSUME ImuConstants, NEW e, EstimatorOK(e), NEW z \in Int, NEW cause \in Causes
    PROVE  LET u == BiasUpdated(e, z, cause)
               s == Sampled(e, z)
           IN  /\ EstimatorOK(u)
               /\ \/ u = Waiting(e)
                  \/ e.state = "cooldown" /\ u.state = "cooldown" /\ u.runtime = e.runtime
                     /\ ~u.freeze
                  \/ cause # "blocked" /\ u = s
                  \/ /\ cause # "blocked" /\ s.samples >= RequiredSamples
                     /\ e.state # "disabled" /\ ~u.freeze
                     /\ u = Waiting(s) \/ u.state \in {"cooldown", "disabled"}
<1> DEFINE cooled == [e EXCEPT !.cooling = Low(@ + 1, Cooldown)]
           s == Sampled(e, z)
           u == BiasUpdated(e, z, cause)
<1>1. CASE ~Requested(e) \/ (~(e.state = "cooldown" /\ cooled.cooling < Cooldown) /\ cause = "blocked")
  BY <1>1, WaitingOK DEF BiasUpdated, EstimatorOK
<1>2. CASE Requested(e) /\ e.state = "cooldown" /\ cooled.cooling < Cooldown
  <2>1. u = cooled
    BY <1>2 DEF BiasUpdated
  <2>2. Low(e.cooling + 1, Cooldown) \in Int
    BY DEF EstimatorOK, Estimators, ImuConstants, Low
  <2>3. EstimatorOK(cooled) /\ cooled.state = "cooldown" /\ cooled.runtime = e.runtime
        /\ ~cooled.freeze
    BY <1>2, <2>2 DEF EstimatorOK, Estimators, Requested
  <2> QED BY <1>2, <2>1, <2>3
<1>3. CASE /\ Requested(e) /\ ~(e.state = "cooldown" /\ cooled.cooling < Cooldown)
           /\ cause # "blocked"
  <2>1. s \in Estimators /\ s.state = "collecting" /\ s.samples >= 1 /\ Requested(s)
        /\ EstimatorOK(s)
    BY <1>3, SampledIs DEF Requested, EstimatorOK
  <2>2. CASE s.samples >= RequiredSamples /\ s.elapsed >= Window
    <3>1. u = WindowFinished(s, cause = "noise")
      BY <1>3, <2>2 DEF BiasUpdated
    <3> QED BY <1>3, <2>1, <2>2, <3>1, FinishedIs DEF EstimatorOK
  <2>3. CASE ~(s.samples >= RequiredSamples /\ s.elapsed >= Window)
    <3>1. u = s
      BY <1>3, <2>3 DEF BiasUpdated
    <3> QED BY <1>3, <2>1, <3>1
  <2> QED BY <2>2, <2>3
<1> QED BY <1>1, <1>2, <1>3

(* A run of the IMU task, step by step.                                            *)
LEMMA ImuUpdateKeeps ==
    ASSUME ImuConstants, ImuInv, ImuUpdate PROVE ImuInv' /\ LearnsAtRestStep
<1>1. PICK cause \in IF rest THEN {"none"} ELSE Causes :
        LET e == BiasUpdated(Noticed, truth - params.bias - Noticed.runtime, cause)
            learnt == /\ cause # "sensor"
                      /\ e.state \in {"cooldown", "disabled"} /\ Noticed.state # e.state
        IN  /\ IF cause = "sensor"
               THEN est' = Waiting(est) /\ yaw' = "stale" /\ UNCHANGED lastFixed
               ELSE /\ est' = e
                    /\ lastFixed' = params.bias
                    /\ yaw' = IF e.freeze \/ (learnt /\ e.valid) THEN "frozen" ELSE "moving"
            /\ seen' = cause
            /\ still' = IF cause \in {"none", "noise"}
                        THEN Low(still + 1, RequiredSamples) ELSE 0
            /\ learntFor' = IF learnt THEN params.bias ELSE learntFor
            /\ UNCHANGED << configVars, rest, truth, imuCommands >>
  BY DEF ImuUpdate
<1> DEFINE n == Noticed
           z == truth - params.bias - n.runtime
           e == BiasUpdated(n, z, cause)
           s == Sampled(n, z)
<1>2. cause \in Causes
  BY DEF Causes
<1>3. /\ EstimatorOK(n) /\ params.bias \in Biases /\ params.bias \in Int
      /\ n.runtime = est.runtime \/ n.runtime = 0
      /\ n.runtime # 0 \/ n.state = "cooldown" => learntFor = params.bias
      /\ n.state = "collecting" => n.samples <= still \/ still >= RequiredSamples
  <2>1. params.bias \in Biases /\ params.bias \in Int
    BY DEF ImuInv, ConfigInv, Params, ImuConstants, ConfigConstants
  <2>2. CASE params.bias = lastFixed
    BY <2>1, <2>2 DEF Noticed, ImuInv
  <2>3. CASE params.bias # lastFixed
    BY <2>1, <2>3, FreshOK DEF Noticed, ImuInv, EstimatorOK, Estimators
  <2> QED BY <2>2, <2>3, <2>1
<1>4. z \in Int
  BY <1>3 DEF ImuInv, ImuConstants, EstimatorOK, Estimators
<1>5. still' \in 0 .. RequiredSamples
  BY <1>1 DEF ImuInv, Low, ImuConstants
<1>6. ConfigInv' /\ rest' \in BOOLEAN /\ truth' \in Truths /\ seen' \in Causes
      /\ learntFor' \in Int
  BY <1>1, <1>2, <1>3
     DEF ImuInv, ConfigInv, ConfigSound, ParamsValid, CleanIsStored, configVars
<1>7. CASE cause = "sensor"
  <2>1. EstimatorOK(Waiting(est)) /\ Waiting(est).runtime = est.runtime
        /\ Waiting(est).state \in {"waiting", "disabled"}
    BY WaitingOK DEF ImuInv, EstimatorOK
  <2> QED BY <1>1, <1>5, <1>6, <1>7, <2>1 DEF ImuInv, FrozenAtRest, LearnsAtRestStep
<1>8. CASE cause # "sensor"
  <2> DEFINE learnt == e.state \in {"cooldown", "disabled"} /\ n.state # e.state
  <2>1. /\ est' = e /\ lastFixed' = params.bias
        /\ yaw' = (IF e.freeze \/ (learnt /\ e.valid) THEN "frozen" ELSE "moving")
        /\ learntFor' = IF learnt THEN params.bias ELSE learntFor
        /\ seen' = cause
    BY <1>1, <1>8
  <2>2. /\ EstimatorOK(e)
        /\ \/ e = Waiting(n)
           \/ n.state = "cooldown" /\ e.state = "cooldown" /\ e.runtime = n.runtime /\ ~e.freeze
           \/ cause # "blocked" /\ e = s
           \/ /\ cause # "blocked" /\ s.samples >= RequiredSamples
              /\ n.state # "disabled" /\ ~e.freeze
              /\ e = Waiting(s) \/ e.state \in {"cooldown", "disabled"}
    BY <1>2, <1>3, <1>4, UpdateIs
  <2>3. /\ s \in Estimators /\ s.state = "collecting" /\ s.runtime = n.runtime
        /\ s.auto = n.auto /\ s.manual = n.manual
        /\ s.samples <= (IF n.state = "collecting" THEN n.samples + 1 ELSE 1)
    BY <1>3, <1>4, SampledIs
  <2>4. /\ Waiting(n).runtime = n.runtime /\ ~Waiting(n).freeze
        /\ Waiting(n).state = IF Requested(n) THEN "waiting" ELSE "disabled"
        /\ Waiting(s).runtime = s.runtime /\ ~Waiting(s).freeze
        /\ Waiting(s).state = IF Requested(s) THEN "waiting" ELSE "disabled"
    BY <1>3, <2>3, WaitingOK DEF EstimatorOK
  <2>5. Requested(s) <=> n.state # "disabled"
    BY <1>3, <2>3 DEF EstimatorOK, Requested
  <2>6. cause # "blocked" => still' = Low(still + 1, RequiredSamples)
    BY <1>1, <1>2, <1>8 DEF Causes
  <2>7. /\ s.samples \in Int /\ n.samples \in Int /\ still \in 0 .. RequiredSamples
        /\ RequiredSamples \in Nat \ {0}
    BY <1>3, <2>3 DEF EstimatorOK, Estimators, ImuInv, ImuConstants
  <2>8. cause # "blocked" => s.samples <= still' \/ still' >= RequiredSamples
    BY <1>3, <2>3, <2>6, <2>7 DEF Low
  <2> HIDE DEF e, s, n
  <2>9. CASE e = Waiting(n)
    <3>1. e.state = (IF n.state # "disabled" THEN "waiting" ELSE "disabled") /\ ~learnt
      BY <2>4, <2>9, <1>3 DEF EstimatorOK
    <3> QED BY <1>3, <1>5, <1>6, <2>1, <2>2, <2>4, <2>9, <3>1
            DEF ImuInv, FrozenAtRest, LearnsAtRestStep
  <2>10. CASE n.state = "cooldown" /\ e.state = "cooldown" /\ e.runtime = n.runtime /\ ~e.freeze
    BY <1>3, <1>5, <1>6, <2>1, <2>2, <2>10 DEF ImuInv, FrozenAtRest, LearnsAtRestStep
  <2>11. CASE cause # "blocked" /\ e = s
    BY <1>2, <1>3, <1>5, <1>6, <1>8, <2>1, <2>2, <2>3, <2>8, <2>11
       DEF ImuInv, FrozenAtRest, LearnsAtRestStep, Causes
  <2>12. CASE /\ cause # "blocked" /\ s.samples >= RequiredSamples
              /\ n.state # "disabled" /\ ~e.freeze
              /\ e = Waiting(s) \/ e.state \in {"cooldown", "disabled"}
    <3>1. still' >= RequiredSamples
      BY <2>6, <2>7, <2>8, <2>12, <1>5
    <3>2. CASE e = Waiting(s)
      <4>1. e.state = "waiting" /\ e.runtime = n.runtime /\ ~learnt
        BY <2>3, <2>4, <2>5, <2>12, <3>2
      <4> QED BY <1>2, <1>3, <1>5, <1>6, <1>8, <2>1, <2>2, <2>12, <3>1, <4>1
              DEF ImuInv, FrozenAtRest, LearnsAtRestStep, Causes
    <3>3. CASE e.state \in {"cooldown", "disabled"}
      <4>1. learntFor' = params.bias
        BY <1>3, <2>1, <2>12, <3>3
      <4> QED BY <1>2, <1>3, <1>5, <1>6, <1>8, <2>1, <2>2, <2>12, <3>1, <3>3, <4>1
              DEF ImuInv, FrozenAtRest, LearnsAtRestStep, Causes
    <3> QED BY <2>12, <3>2, <3>3
  <2> QED BY <2>2, <2>9, <2>10, <2>11, <2>12
<1> QED BY <1>7, <1>8

(* `imu bias save`: what it would store is a set of valid parameters.              *)
LEMMA BiasSaveKeeps ==
    ASSUME ImuConstants, ImuInv, BiasSave,
           UNCHANGED << yaw, rest, truth, seen, still, learntFor >>
    PROVE  ImuInv' /\ LearnsAtRestStep
<1> DEFINE p == Named("bias", Total)
<1>1. p \in Params /\ ValidateParams(p) /\ p.bias = Total /\ Total \in Biases
  BY DEF BiasSave, Named, Params, ValidateParams, ImuInv, ConfigInv, ConfigSound, ParamsValid
<1>2. CASE /\ SaveOk(p)
           /\ params' = p
           /\ est' = FreshEstimator(est.auto)
           /\ lastFixed' = Total
  <2>1. ConfigInv'
    BY <1>1, <1>2, SaveSoundly DEF ImuInv, ImuConstants
  <2>2. EstimatorOK(est') /\ est'.runtime = 0 /\ est'.state \in {"waiting", "disabled"}
    BY <1>2, FreshOK DEF ImuInv, EstimatorOK, Estimators
  <2> QED BY <1>1, <1>2, <2>1, <2>2 DEF ImuInv, FrozenAtRest, LearnsAtRestStep
<1>3. CASE /\ configFram' \in IF configFram.ready THEN SavedPartly(p) ELSE {configFram}
           /\ config' = [config EXCEPT !.dirty = TRUE, !.saved = "error"]
           /\ UNCHANGED << params, est, lastFixed >>
  <2>1. configFram' \in [main : StoredImages, ext : Infrareds \cup {NoExtension},
                         ready : BOOLEAN]
    BY <1>1, <1>3, SavedPartlyIs DEF ImuInv, ConfigInv, ImuConstants
  <2>2. ConfigInv'
    BY <1>3, <2>1 DEF ImuInv, ConfigInv, ConfigSound, ParamsValid, CleanIsStored
  <2> QED BY <1>3, <2>2 DEF ImuInv, FrozenAtRest, LearnsAtRestStep
<1> QED BY <1>2, <1>3 DEF BiasSave

LEMMA BiasCommandKeeps ==
    ASSUME ImuConstants, ImuInv, BiasCommand,
           UNCHANGED << yaw, rest, truth, seen, still, learntFor >>
    PROVE  ImuInv' /\ LearnsAtRestStep
<1>1. UNCHANGED configVars /\ UNCHANGED lastFixed /\ est \in Estimators
  BY DEF BiasCommand, ImuInv, EstimatorOK
<1>2. ConfigInv'
  BY <1>1 DEF ImuInv, ConfigInv, ConfigSound, ParamsValid, CleanIsStored, configVars
<1>3. ASSUME EstimatorOK(est'), est'.runtime \in {0, est.runtime},
             est'.state = "cooldown" => est.state = "cooldown" /\ est'.runtime = est.runtime,
             est'.state = "collecting" => est.state = "collecting" /\ est'.samples = est.samples
      PROVE  ImuInv' /\ LearnsAtRestStep
  BY <1>1, <1>2, <1>3 DEF ImuInv, FrozenAtRest, LearnsAtRestStep
<1>4. ASSUME NEW auto \in BOOLEAN, SetAutoEnabled(auto) PROVE ImuInv' /\ LearnsAtRestStep
  <2> DEFINE e == [est EXCEPT !.auto = auto]
  <2>1. e \in Estimators /\ e.runtime = est.runtime /\ e.state = est.state
        /\ e.samples = est.samples /\ e.freeze = est.freeze /\ e.auto = auto
    BY <1>1 DEF Estimators
  <2>2. est' = IF ~Requested(e) THEN Waiting(e)
               ELSE IF e.state = "disabled" THEN [e EXCEPT !.state = "waiting"] ELSE e
    BY <1>4 DEF SetAutoEnabled
  <2> HIDE DEF e
  <2>3. CASE ~Requested(e)
    BY <1>3, <2>1, <2>2, <2>3, WaitingOK
  <2>4. CASE Requested(e) /\ e.state = "disabled"
    <3>1. est' = [e EXCEPT !.state = "waiting"]
      BY <2>2, <2>4
    <3>2. est' \in Estimators /\ est'.state = "waiting" /\ est'.runtime = e.runtime
          /\ est'.freeze = e.freeze /\ est'.auto = e.auto /\ est'.manual = e.manual
      BY <2>1, <3>1 DEF Estimators
    <3>3. EstimatorOK(est')
      BY <2>1, <2>4, <3>2 DEF EstimatorOK, Requested, ImuInv
    <3> QED BY <1>3, <2>1, <3>2, <3>3
  <2>5. CASE Requested(e) /\ e.state # "disabled"
    <3>1. est' = e /\ EstimatorOK(e)
      BY <2>1, <2>2, <2>5 DEF EstimatorOK, ImuInv
    <3> QED BY <1>3, <2>1, <3>1
  <2> QED BY <2>3, <2>4, <2>5
<1>5. ASSUME est' = Waiting([est EXCEPT !.manual = TRUE]) PROVE ImuInv' /\ LearnsAtRestStep
  <2>1. [est EXCEPT !.manual = TRUE] \in Estimators
        /\ [est EXCEPT !.manual = TRUE].runtime = est.runtime
    BY <1>1 DEF Estimators
  <2> QED BY <1>3, <1>5, <2>1, WaitingOK
<1>6. ASSUME est' = FreshEstimator(est.auto) PROVE ImuInv' /\ LearnsAtRestStep
  BY <1>1, <1>3, <1>6, FreshOK DEF Estimators
<1> QED BY <1>4, <1>5, <1>6 DEF BiasCommand

LEMMA ImuRestartKeeps ==
    ASSUME ImuConstants, ImuInv, Restart PROVE ImuInv' /\ LearnsAtRestStep
<1>1. ConfigInv'
  BY PowerCycleSoundly DEF Restart, ImuInv, ImuConstants
<1>2. EstimatorOK(est') /\ est'.runtime = 0 /\ est'.state \in {"waiting", "disabled"}
  BY FreshOK DEF Restart
<1>3. lastFixed' \in Biases
  BY <1>1 DEF Restart, ConfigInv, Params
<1>4. yaw' = "stale" /\ seen' = "none" /\ still' = 0 /\ learntFor' = 0 /\ rest' = rest
      /\ truth' = truth /\ 0 \in 0 .. RequiredSamples
  BY DEF Restart, ImuConstants
<1> QED BY <1>1, <1>2, <1>3, <1>4 DEF ImuInv, FrozenAtRest, LearnsAtRestStep, Causes

LEMMA ImuKeeps ==
    ASSUME ImuConstants, ImuInv, [ImuNext]_imuVars PROVE ImuInv' /\ LearnsAtRestStep
<1>1. CASE ImuUpdate
  BY <1>1, ImuUpdateKeeps
<1>2. CASE ImuCommand
  <2>1. CASE BiasSave /\ UNCHANGED << yaw, rest, truth, seen, still, learntFor >>
    BY <2>1, BiasSaveKeeps
  <2>2. CASE BiasCommand /\ UNCHANGED << yaw, rest, truth, seen, still, learntFor >>
    BY <2>2, BiasCommandKeeps
  <2>3. CASE (ParamLoad \/ ParamReset \/ ParamSet \/ ParamSave) /\ UNCHANGED Learner
    <3>1. ConfigInv'
      BY <2>3, ConfigKeeps DEF ConfigNext, ImuInv, ImuConstants
    <3> QED BY <2>3, <3>1 DEF Learner, ImuInv, FrozenAtRest, LearnsAtRestStep
  <2>4. CASE Environment
    <3>1. ConfigInv'
      BY <2>4 DEF Environment, ImuInv, ConfigInv, ConfigSound, ParamsValid, CleanIsStored,
                  configVars
    <3>2. rest' \in BOOLEAN /\ truth' \in Truths
      BY <2>4 DEF Environment, ImuInv
    <3>3. UNCHANGED << est, lastFixed, yaw, seen, still, learntFor >>
      BY <2>4 DEF Environment
    <3> QED BY <3>1, <3>2, <3>3 DEF ImuInv, FrozenAtRest, LearnsAtRestStep
  <2>5. CASE Restart
    BY <2>5, ImuRestartKeeps
  <2> QED BY <1>2, <2>1, <2>2, <2>3, <2>4, <2>5 DEF ImuCommand
<1>3. CASE UNCHANGED imuVars
  BY <1>3 DEF imuVars, ImuInv, ConfigInv, ConfigSound, ParamsValid, CleanIsStored,
              configVars, FrozenAtRest, LearnsAtRestStep
<1> QED BY <1>1, <1>2, <1>3 DEF ImuNext

LEMMA ImuStarts == ASSUME ImuConstants, ImuInit PROVE ImuInv
<1>1. ConfigInv
  BY ConfigStarts DEF ImuInit, ImuConstants
<1>2. EstimatorOK(est) /\ est.runtime = 0 /\ est.state \in {"waiting", "disabled"}
  BY FreshOK DEF ImuInit
<1>3. lastFixed \in Biases
  BY <1>1 DEF ImuInit, ConfigInv, Params
<1>4. yaw = "stale" /\ seen = "none" /\ still = 0 /\ learntFor = 0 /\ rest \in BOOLEAN
      /\ truth \in Truths /\ 0 \in 0 .. RequiredSamples
  BY DEF ImuInit, ImuConstants
<1> QED BY <1>1, <1>2, <1>3, <1>4 DEF ImuInv, FrozenAtRest, Causes

LEMMA SaveKeepsTotal ==
    ASSUME ImuConstants, ImuInv, [ImuNext]_imuVars PROVE SaveKeepsTotalStep
<1>1. ASSUME BiasSave PROVE params'.bias + est'.runtime = params.bias + est.runtime
  <2>1. params \in Params /\ params.bias \in Int
    BY DEF ImuInv, ConfigInv, ImuConstants, ConfigConstants, Params
  <2>0. est.runtime \in Int
    BY DEF ImuInv, ImuConstants, EstimatorOK, Estimators
  <2>2. CASE params' = Named("bias", Total) /\ est' = FreshEstimator(est.auto)
    <3>1. params'.bias = Total
      BY <2>1, <2>2 DEF Named, Params
    <3>2. est'.runtime = 0
      BY <2>2 DEF FreshEstimator
    <3> QED BY <2>0, <2>1, <3>1, <3>2 DEF Total
  <2>3. CASE UNCHANGED << params, est, lastFixed >>
    BY <2>3
  <2> QED BY <1>1, <2>2, <2>3 DEF BiasSave
<1> QED BY <1>1 DEF SaveKeepsTotalStep

LEMMA ImuInvariant == ASSUME ImuConstants PROVE ImuSpec => []ImuInv /\ [][LearnsAtRestStep]_imuVars
    /\ [][SaveKeepsTotalStep]_imuVars
<1>1. ImuInit => ImuInv BY ImuStarts
<1>2. ImuInv /\ [ImuNext]_imuVars => ImuInv' /\ LearnsAtRestStep BY ImuKeeps
<1>3. ImuInv /\ [ImuNext]_imuVars => SaveKeepsTotalStep BY SaveKeepsTotal
<1> QED BY <1>1, <1>2, <1>3, PTL DEF ImuSpec

(* The types of the parameters and of the estimator: what was learnt stays within  *)
(* its limit, and a window within its samples.                                     *)
THEOREM ImuTypes == ASSUME ImuConstants PROVE ImuSpec => []ImuTypeOK
<1>1. ImuInv => ImuTypeOK
  BY DEF ImuInv, ImuTypeOK, ConfigInv, ConfigTypeOK, EstimatorOK, Estimators, ConfigSound
<1> QED BY <1>1, ImuInvariant, PTL

(* Under the commands of the IMU too, restarts and bus failures in between, the    *)
(* parameters are valid and, when clean, stored.                                   *)
THEOREM ImuKeepsConfigSound == ASSUME ImuConstants PROVE ImuSpec => []ConfigSound
<1>1. ImuInv => ConfigSound
  BY DEF ImuInv, ConfigInv
<1> QED BY <1>1, ImuInvariant, PTL

(* The yaw freezes and the bias moves only over samples at rest, what was learnt is *)
(* never applied beside another fixed bias, and saving it changes nothing in force,  *)
(* for every window, cool-down, filter and limit (imu_bias_estimator.cpp,            *)
(* app_imu.cpp).                                                                     *)
THEOREM BiasIsHonest == ASSUME ImuConstants PROVE ImuSpec => BiasHonest
<1>1. ImuInv => FrozenAtRest /\ LearntForFixed
  BY DEF ImuInv, LearntForFixed
<1> QED BY <1>1, ImuInvariant, PTL DEF BiasHonest

(* A classifier state as its updates leave it.                                     *)
Classifiers ==
    [phase : {"normal", "observing", "latched"}, evidence : [Sides -> Nat], observed : Nat,
     absent : Nat, exits : Nat, rearm : 0 .. Rearm - 1, number : 0 .. MaxNumber]

Tracks ==
    [at : Segments \cup {0}, bridged : 0 .. MaxWeak, eligible : BOOLEAN, valid : BOOLEAN]

Evidence(r) == r.evidence["left"] + r.evidence["right"]

(* While no side is confirmed the frames observed are bounded by the evidence, every *)
(* frame of which the empty frames behind it can stretch ExitConfirm times.          *)
Waited(r) ==
    /\ r.exits < ExitConfirm /\ r.observed < MaxObserve
    /\ r.observed + (ExitConfirm - 1 - r.exits) <= ExitConfirm * Evidence(r)
           \/ Confirmed(r) # {}

(* The observation a frame adds to: a new one if there is none.                     *)
Opened(r) ==
    IF r.phase = "normal" THEN [Unobserved(r) EXCEPT !.phase = "observing"] ELSE r

(* The budget of bridged frames covers the frames since the line was strong.        *)
Bridged(t, n) ==
    /\ t \in Tracks /\ n \in Nat
    /\ t.eligible => n <= t.bridged \/ t.bridged = MaxWeak
    /\ t.valid => n <= t.bridged

CaptureStates ==
    [mode : Captures \cup {"idle", "sweep"}, samples : 0 .. CaptureFrames - 1,
     seen : SUBSET Surfaces, white : SUBSET Surfaces, black : SUBSET Surfaces]

RoadOK == road \in Classifiers /\ (road.phase = "observing" => Waited(road))
CentredIs == centred = IF road.phase = "latched" THEN road.rearm ELSE Rearm
EventIs ==
    /\ event \in [number : 0 .. MaxNumber, sides : SUBSET Sides, forward : BOOLEAN,
                  seen : BOOLEAN, away : BOOLEAN]
    /\ handledEvent \in 0 .. MaxNumber
    /\ EventHasSide
ConsumerIs ==
    /\ watcher \in Watchers /\ looked \in BOOLEAN /\ missed \in 0 .. MaxMissed
    /\ event.seen => event.number = handledEvent

(* Until a reset, the event that is there is the one the road counted last, and the  *)
(* consumer is behind by the events that it has missed, over the wrap of the numbers. *)
LagsBy(n) == handledEvent = 0 \/ handledEvent + missed - n \in {0, MaxNumber}

(* An event that awaits a consumer who looks is as young as the last frame.          *)
FreshIsYoung ==
    event.number # 0 /\ ~event.seen /\ ~event.away =>
        /\ looked = FALSE /\ road.phase = "latched"
        /\ event.number # handledEvent /\ watcher \in Watching

NumbersAgree ==
    lineResets = 0 => event.number \in {0, road.number} /\ LagsBy(road.number) /\ FreshIsYoung

LineInv ==
    /\ Bridged(track, gap) /\ RoadOK /\ CentredIs /\ EventIs /\ ConsumerIs /\ NumbersAgree
    /\ capture \in CaptureStates /\ surface \in Surfaces /\ lineResets \in Nat
    /\ CalibrationSpan

(* A frame keeps the budget of the bridged gap.                                     *)
LEMMA TrackedIs ==
    ASSUME LineConstants, NEW t, NEW n, Bridged(t, n), NEW f \in LineShapes
    PROVE  Bridged(Tracked(t, f), IF f.kind = "strong" THEN 0 ELSE Least(n + 1, MaxWeak + 1))
<1> DEFINE u == Tracked(t, f)
           m == IF f.kind = "strong" THEN 0 ELSE Least(n + 1, MaxWeak + 1)
<1>0. MaxWeak \in Nat /\ n \in Nat /\ t \in Tracks /\ m \in Nat
  BY DEF LineConstants, Bridged, Least
<1>1. CASE f.kind = "strong"
  <2>1. f.at \in Segments
    BY <1>1 DEF LineShapes, Strong, Weak, BlankSurface, Shape
  <2>2. u = [at |-> f.at, bridged |-> 0, eligible |-> TRUE, valid |-> TRUE] /\ m = 0
    BY <1>1 DEF Tracked
  <2> QED BY <1>0, <2>1, <2>2 DEF Bridged, Tracks
<1>2. CASE f.kind # "strong" /\ CanContinue(t, f)
  <2>1. f.at \in Segments
    BY <1>2 DEF LineShapes, Strong, Weak, BlankSurface, Shape, CanContinue
  <2>2. u = [at |-> f.at, bridged |-> t.bridged + 1, eligible |-> t.eligible, valid |-> TRUE]
    BY <1>0, <1>2 DEF Tracked, Tracks
  <2>3. m <= n + 1 /\ n <= t.bridged /\ t.bridged < MaxWeak
    BY <1>0, <1>2 DEF CanContinue, Bridged, Least, Tracks
  <2> QED BY <1>0, <2>1, <2>2, <2>3 DEF Bridged, Tracks
<1>3. CASE f.kind = "shape"
  <2>1. u = [at |-> t.at, bridged |-> 0, eligible |-> FALSE, valid |-> FALSE]
    BY <1>0, <1>3 DEF Tracked, Tracks, CanContinue
  <2> QED BY <1>0, <2>1 DEF Bridged, Tracks
<1>4. CASE f.kind \notin {"strong", "shape"} /\ ~CanContinue(t, f)
  <2>1. u = Lost(t) /\ m <= n + 1
    BY <1>0, <1>4 DEF Tracked, Least
  <2>2. CASE t.eligible /\ t.bridged < MaxWeak
    <3>1. u = [at |-> t.at, bridged |-> t.bridged + 1, eligible |-> t.bridged + 1 < MaxWeak,
               valid |-> FALSE]
      BY <1>0, <2>1, <2>2 DEF Lost, Tracks
    <3>2. n <= t.bridged
      BY <1>0, <2>2 DEF Bridged, Tracks
    <3> QED BY <1>0, <2>1, <2>2, <3>1, <3>2 DEF Bridged, Tracks
  <2>3. CASE ~(t.eligible /\ t.bridged < MaxWeak)
    <3>1. u = [at |-> t.at, bridged |-> t.bridged, eligible |-> t.eligible, valid |-> FALSE]
      BY <1>0, <2>1, <2>3 DEF Lost, Tracks
    <3>2. t.eligible => t.bridged = MaxWeak
      BY <1>0, <2>3 DEF Tracks
    <3> QED BY <1>0, <3>1, <3>2 DEF Bridged, Tracks
  <2> QED BY <2>2, <2>3
<1> QED BY <1>1, <1>2, <1>3, <1>4

LEMMA UnobservedIs ==
    ASSUME LineConstants, NEW r \in Classifiers
    PROVE  /\ Unobserved(r) = [phase |-> r.phase, evidence |-> NoEvidence, observed |-> 0,
                               absent |-> 0, exits |-> 0, rearm |-> r.rearm,
                               number |-> r.number]
           /\ Unobserved(r) \in Classifiers
           /\ [Unobserved(r) EXCEPT !.phase = "normal"] \in Classifiers
           /\ [Unobserved(r) EXCEPT !.phase = "normal"].number = r.number
           /\ [Unobserved(r) EXCEPT !.phase = "normal"].phase = "normal"
<1>1. NoEvidence \in [Sides -> Nat]
  BY DEF NoEvidence
<1> HIDE DEF NoEvidence
<1>2. Unobserved(r) = [phase |-> r.phase, evidence |-> NoEvidence, observed |-> 0,
                       absent |-> 0, exits |-> 0, rearm |-> r.rearm, number |-> r.number]
  <2>1. r = [phase |-> r.phase, evidence |-> r.evidence, observed |-> r.observed,
             absent |-> r.absent, exits |-> r.exits, rearm |-> r.rearm, number |-> r.number]
    BY DEF Classifiers
  <2> DEFINE a == [r EXCEPT !.evidence = NoEvidence]
             b == [a EXCEPT !.observed = 0]
             c == [b EXCEPT !.absent = 0]
             d == [c EXCEPT !.exits = 0]
  <2>2. Unobserved(r) = d
    BY DEF Unobserved
  <2>3. a = [phase |-> r.phase, evidence |-> NoEvidence, observed |-> r.observed,
             absent |-> r.absent, exits |-> r.exits, rearm |-> r.rearm, number |-> r.number]
    BY <2>1 DEF Classifiers
  <2> HIDE DEF a
  <2>4. b = [phase |-> r.phase, evidence |-> NoEvidence, observed |-> 0,
             absent |-> r.absent, exits |-> r.exits, rearm |-> r.rearm, number |-> r.number]
    BY <2>3
  <2> HIDE DEF b
  <2>5. c = [phase |-> r.phase, evidence |-> NoEvidence, observed |-> 0,
             absent |-> 0, exits |-> r.exits, rearm |-> r.rearm, number |-> r.number]
    BY <2>4
  <2> HIDE DEF c
  <2> QED BY <2>2, <2>5
<1>3. Classifiers # {} /\ r.number \in 0 .. MaxNumber /\ r.rearm \in 0 .. Rearm - 1
      /\ r.phase \in {"normal", "observing", "latched"} /\ 0 \in Nat
  BY DEF Classifiers
<1> DEFINE u == Unobserved(r)
           v == [u EXCEPT !.phase = "normal"]
<1>4. u \in Classifiers
  BY <1>1, <1>2, <1>3 DEF Classifiers
<1>5. v = [phase |-> "normal", evidence |-> NoEvidence, observed |-> 0,
           absent |-> 0, exits |-> 0, rearm |-> r.rearm, number |-> r.number]
  BY <1>2
<1>6. v \in Classifiers /\ v.number = r.number /\ v.phase = "normal"
  BY <1>1, <1>3, <1>5 DEF Classifiers
<1> QED BY <1>2, <1>4, <1>6

(* What one frame adds to an observation. *)
LEMMA PathsSeenIs ==
    ASSUME LineConstants, NEW r \in Classifiers, r.phase \in {"normal", "observing"},
           NEW p \in SUBSET Sides, NEW ahead \in BOOLEAN, NEW o, o = PathsObserved(r, p, ahead)
    PROVE  /\ Opened(r) \in Classifiers /\ o \in Classifiers
           /\ o.phase = "observing" /\ o.number = r.number /\ o.rearm = r.rearm
           /\ o.observed = Opened(r).observed + 1
           /\ o.exits = IF p = {} THEN Opened(r).exits + 1 ELSE 0
           /\ \A s \in Sides :
                  o.evidence[s] = IF s \in p THEN Least(Opened(r).evidence[s] + 1, Confirm)
                                  ELSE Opened(r).evidence[s]
<1> DEFINE b == Opened(r)
           ev == [s \in Sides |-> IF s \in p THEN Least(b.evidence[s] + 1, Confirm)
                                  ELSE b.evidence[s]]
           ab == IF p # {} /\ ~ahead THEN Least(b.absent + 1, Confirm) ELSE 0
<1>1. b \in Classifiers /\ b.phase = "observing" /\ b.number = r.number /\ b.rearm = r.rearm
  <2>1. CASE r.phase = "normal"
    <3>1. NoEvidence \in [Sides -> Nat]
      BY DEF NoEvidence
    <3>2. b = [phase |-> "observing", evidence |-> NoEvidence, observed |-> 0, absent |-> 0,
               exits |-> 0, rearm |-> r.rearm, number |-> r.number]
      <4>1. Unobserved(r) = [phase |-> r.phase, evidence |-> NoEvidence, observed |-> 0,
                             absent |-> 0, exits |-> 0, rearm |-> r.rearm,
                             number |-> r.number]
        BY UnobservedIs
      <4>2. b = [Unobserved(r) EXCEPT !.phase = "observing"]
        BY <2>1 DEF Opened
      <4> QED BY <4>1, <4>2
    <3> HIDE DEF b, NoEvidence
    <3> QED BY <3>1, <3>2 DEF Classifiers
  <2>2. CASE r.phase = "observing"
    BY <2>2 DEF Opened
  <2> QED BY <2>1, <2>2
<1>2. o = [b EXCEPT !.observed = @ + 1, !.evidence = ev, !.absent = ab,
                    !.exits = IF p = {} THEN @ + 1 ELSE 0]
  BY DEF PathsObserved, Opened
<1> HIDE DEF b
<1>3. Confirm \in Nat /\ b.absent \in Nat /\ b.exits \in Nat /\ b.observed \in Nat
      /\ b.evidence \in [Sides -> Nat]
  BY <1>1 DEF LineConstants, Classifiers
<1>4. ev \in [Sides -> Nat] /\ ab \in Nat
  BY <1>3 DEF Least
<1>5. \A s \in Sides : ev[s] = IF s \in p THEN Least(b.evidence[s] + 1, Confirm)
                               ELSE b.evidence[s]
  OBVIOUS
<1> HIDE DEF ev, ab
<1>6. o = [phase |-> "observing", evidence |-> ev, observed |-> b.observed + 1, absent |-> ab,
           exits |-> IF p = {} THEN b.exits + 1 ELSE 0, rearm |-> r.rearm,
           number |-> r.number]
  BY <1>1, <1>2 DEF Classifiers
<1>7. o \in Classifiers
  BY <1>3, <1>4, <1>6 DEF Classifiers
<1>8. /\ o.phase = "observing" /\ o.number = r.number /\ o.rearm = r.rearm
      /\ o.observed = b.observed + 1 /\ o.evidence = ev
      /\ o.exits = IF p = {} THEN b.exits + 1 ELSE 0
  BY <1>6
<1>9. \A s \in Sides : o.evidence[s] = IF s \in p THEN Least(b.evidence[s] + 1, Confirm)
                                       ELSE b.evidence[s]
  BY <1>5, <1>8
<1>10. /\ Opened(r) \in Classifiers /\ o.observed = Opened(r).observed + 1
       /\ o.exits = IF p = {} THEN Opened(r).exits + 1 ELSE 0
  BY <1>1, <1>8 DEF b
<1>11. \A s \in Sides :
          o.evidence[s] = IF s \in p THEN Least(Opened(r).evidence[s] + 1, Confirm)
                          ELSE Opened(r).evidence[s]
  BY <1>9 DEF b
<1>12. o.phase = "observing" /\ o.number = r.number /\ o.rearm = r.rearm
  BY <1>8
<1> HIDE DEF b
<1>13. QED
  BY <1>7, <1>10, <1>11, <1>12

LEMMA TimesMonotone ==
    ASSUME NEW a \in Nat, NEW b \in Nat, NEW k \in Nat, a <= b
    PROVE  k * a <= k * b
OBVIOUS

LEMMA TimesNext ==
    ASSUME NEW a \in Nat, NEW k \in Nat PROVE k * (a + 1) = k * a + k
OBVIOUS

(* As long as nothing is confirmed, the window stays open.                           *)
LEMMA WaitsOn ==
    ASSUME LineConstants, NEW r \in Classifiers, r.phase \in {"normal", "observing"},
           r.phase = "observing" => Waited(r),
           NEW p \in SUBSET Sides, r.phase = "observing" \/ p # {}, NEW ahead \in BOOLEAN,
           NEW o, o = PathsObserved(r, p, ahead), Confirmed(o) = {}
    PROVE  o.exits < ExitConfirm =>
               /\ o.observed < MaxObserve
               /\ o.observed + (ExitConfirm - 1 - o.exits) <= ExitConfirm * Evidence(o)
<1> DEFINE b == Opened(r)
<1>1. /\ b \in Classifiers /\ o \in Classifiers
      /\ o.observed = b.observed + 1
      /\ o.exits = IF p = {} THEN b.exits + 1 ELSE 0
      /\ \A s \in Sides : o.evidence[s] = IF s \in p THEN Least(b.evidence[s] + 1, Confirm)
                                          ELSE b.evidence[s]
  <2>1. Opened(r) \in Classifiers /\ o \in Classifiers
    BY PathsSeenIs
  <2>2. /\ o.observed = Opened(r).observed + 1
        /\ o.exits = IF p = {} THEN Opened(r).exits + 1 ELSE 0
    BY PathsSeenIs
  <2>3. \A s \in Sides :
            o.evidence[s] = IF s \in p THEN Least(Opened(r).evidence[s] + 1, Confirm)
                            ELSE Opened(r).evidence[s]
    BY PathsSeenIs
  <2> QED BY <2>1, <2>2, <2>3
<1>2. /\ Sides = {"left", "right"} /\ Confirm \in Nat \ {0} /\ ExitConfirm \in Nat \ {0}
      /\ MaxObserve \in Nat /\ MaxObserve > 2 * (Confirm - 1) * ExitConfirm
  BY DEF LineConstants
<1>3. /\ b.observed \in Nat /\ b.exits \in Nat /\ o.exits \in Nat
      /\ b.evidence["left"] \in Nat /\ b.evidence["right"] \in Nat
      /\ o.evidence["left"] \in Nat /\ o.evidence["right"] \in Nat
  BY <1>1, <1>2 DEF Classifiers
<1>4. r.phase = "normal" => b.observed = 0 /\ b.exits = 0 /\ Evidence(b) = 0
  <2> SUFFICES ASSUME r.phase = "normal" PROVE b.observed = 0 /\ b.exits = 0 /\ Evidence(b) = 0
    OBVIOUS
  <2>1. Unobserved(r) = [phase |-> r.phase, evidence |-> NoEvidence, observed |-> 0,
                         absent |-> 0, exits |-> 0, rearm |-> r.rearm, number |-> r.number]
    BY UnobservedIs
  <2>2. b = [Unobserved(r) EXCEPT !.phase = "observing"]
    BY DEF Opened
  <2>3. b.observed = 0 /\ b.exits = 0 /\ b.evidence = NoEvidence
    BY <2>1, <2>2
  <2> HIDE DEF b
  <2> QED BY <1>2, <2>3 DEF Evidence, NoEvidence
<1>5. r.phase = "observing" => b = r
  BY DEF Opened
<1>6. o.evidence["left"] < Confirm /\ o.evidence["right"] < Confirm
  BY <1>2, <1>3 DEF Confirmed
<1> HIDE DEF b
<1>7. Confirmed(b) = {}
  <2> SUFFICES ASSUME NEW s \in Sides PROVE ~(b.evidence[s] >= Confirm)
    BY DEF Confirmed
  <2> QED BY <1>1, <1>2, <1>3, <1>6 DEF Least
<1>8. b.exits < ExitConfirm /\ (r.phase = "observing" =>
          b.observed + (ExitConfirm - 1 - b.exits) <= ExitConfirm * Evidence(b))
  BY <1>2, <1>4, <1>5, <1>7 DEF Waited
<1> DEFINE e == Evidence(b)
           n == Evidence(o)
           k == ExitConfirm
<1>9. e \in Nat /\ n \in Nat /\ k \in Nat /\ k > 0
  BY <1>2, <1>3 DEF Evidence
<1>10. e <= n /\ (p # {} => e + 1 <= n)
  <2>1. \A s \in Sides : o.evidence[s] = IF s \in p THEN b.evidence[s] + 1 ELSE b.evidence[s]
    BY <1>1, <1>2, <1>3, <1>6 DEF Least
  <2>2. p # {} => "left" \in p \/ "right" \in p
    BY <1>2
  <2> QED BY <1>2, <1>3, <2>1, <2>2 DEF Evidence
<1>11. n <= 2 * (Confirm - 1)
  BY <1>2, <1>3, <1>6 DEF Evidence
<1>12. k * n <= 2 * (Confirm - 1) * k
  <2>1. 2 * (Confirm - 1) \in Nat
    BY <1>2
  <2>2. k * n <= k * (2 * (Confirm - 1))
    BY <1>9, <1>11, <2>1, TimesMonotone
  <2> QED BY <1>2, <2>2
<1>13. k * e <= k * n /\ (p # {} => k * e + k <= k * n)
  <2>1. k * e <= k * n
    BY <1>9, <1>10, TimesMonotone
  <2>2. ASSUME p # {} PROVE k * e + k <= k * n
    <3>1. k * (e + 1) <= k * n
      BY <1>9, <1>10, <2>2, TimesMonotone
    <3> QED BY <1>9, <3>1, TimesNext
  <2> QED BY <2>1, <2>2
<1>14. r.phase = "normal" => b.observed = 0 /\ b.exits = 0 /\ e = 0 /\ p # {}
  BY <1>4
<1>15. b.exits < k /\ (r.phase = "observing" => b.observed + (k - 1 - b.exits) <= k * e)
  BY <1>8
<1>16. k * e \in Nat /\ k * n \in Nat /\ 2 * (Confirm - 1) * k \in Nat /\ (e = 0 => k * e = 0)
  BY <1>2, <1>9
<1>17. o.observed \in Nat /\ b.observed \in Nat /\ b.exits \in Nat /\ o.exits \in Nat
       /\ MaxObserve \in Nat /\ MaxObserve > 2 * (Confirm - 1) * k
  BY <1>1, <1>2, <1>3
<1> HIDE DEF e, n, k
<1>18. o.exits < k => o.observed + (k - 1 - o.exits) <= k * n
  <2>1. CASE p = {}
    BY <1>1, <1>9, <1>13, <1>14, <1>15, <1>16, <1>17, <2>1
  <2>2. CASE p # {}
    BY <1>1, <1>9, <1>13, <1>14, <1>15, <1>16, <1>17, <2>2
  <2> QED BY <2>1, <2>2
<1>19. o.exits < k => o.observed < MaxObserve
  BY <1>9, <1>12, <1>16, <1>17, <1>18
<1> QED BY <1>18, <1>19 DEF n, k

LEMMA RearmedIs ==
    ASSUME LineConstants, NEW r \in Classifiers, r.phase = "latched", NEW centre \in BOOLEAN,
           NEW u, u = Rearmed(r, centre)
    PROVE  /\ u \in Classifiers /\ u.number = r.number
           /\ IF centre /\ r.rearm + 1 >= Rearm THEN u.phase = "normal"
              ELSE u.phase = "latched" /\ u.rearm = IF centre THEN r.rearm + 1 ELSE 0
<1>1. Rearm \in Nat \ {0} /\ r.rearm \in 0 .. Rearm - 1 /\ 0 \in 0 .. Rearm - 1
  BY DEF LineConstants, Classifiers
<1>2. CASE ~centre
  <2>1. u = [r EXCEPT !.rearm = 0]
    BY <1>2 DEF Rearmed
  <2> QED BY <1>1, <1>2, <2>1 DEF Classifiers
<1>3. CASE centre /\ r.rearm + 1 >= Rearm
  <2> DEFINE a == Unobserved(r)
             b == [a EXCEPT !.phase = "normal"]
  <2>1. u = [b EXCEPT !.rearm = 0]
    BY <1>3 DEF Rearmed
  <2>2. b \in Classifiers /\ b.number = r.number /\ b.phase = "normal"
    BY UnobservedIs
  <2> HIDE DEF b
  <2> QED BY <1>1, <1>3, <2>1, <2>2 DEF Classifiers
<1>4. CASE centre /\ ~(r.rearm + 1 >= Rearm)
  <2>1. u = [r EXCEPT !.rearm = r.rearm + 1] /\ r.rearm + 1 \in 0 .. Rearm - 1
    BY <1>1, <1>4 DEF Rearmed
  <2> QED BY <1>1, <1>4, <2>1 DEF Classifiers
<1> QED BY <1>2, <1>3, <1>4

(* What the classifier makes of a frame.                                             *)
LEMMA LatchedIs ==
    ASSUME LineConstants, NEW o \in Classifiers, NEW u, u = Latched(o)
    PROVE  /\ u \in Classifiers /\ u.phase = "latched" /\ u.rearm = 0
           /\ u.number \in 1 .. MaxNumber /\ u.number # o.number
           /\ u.number \in {o.number + 1, o.number + 1 - MaxNumber}
<1> DEFINE m == IF o.number = MaxNumber THEN 1 ELSE o.number + 1
<1>1. MaxNumber \in Nat /\ MaxNumber > 1 /\ Rearm \in Nat \ {0} /\ o.number \in 0 .. MaxNumber
  BY DEF LineConstants, Classifiers
<1>2. /\ m \in 1 .. MaxNumber /\ m # o.number /\ m \in 0 .. MaxNumber /\ 0 \in 0 .. Rearm - 1
      /\ m \in {o.number + 1, o.number + 1 - MaxNumber}
  BY <1>1
<1> HIDE DEF m
<1> DEFINE a == [o EXCEPT !.phase = "latched"]
           b == [a EXCEPT !.rearm = 0]
<1>3. u = [b EXCEPT !.number = m]
  BY DEF Latched, m
<1>4. a \in Classifiers /\ a.phase = "latched"
  BY DEF Classifiers
<1> HIDE DEF a
<1>5. b \in Classifiers /\ b.phase = "latched" /\ b.rearm = 0
  BY <1>2, <1>4 DEF Classifiers
<1> HIDE DEF b
<1> QED BY <1>2, <1>3, <1>5 DEF Classifiers

(* What GrayscaleRoad_Update makes of a classifier: it counts on, gives up, or        *)
(* publishes under the next number what was confirmed.                                *)
ClassifiedOK(r, p, ahead, c) ==
    /\ c.road \in Classifiers /\ c.news \in BOOLEAN
    /\ c.road.phase = "observing" => Waited(c.road)
    /\ c.news => /\ r.phase # "latched" /\ c.road.phase = "latched" /\ c.road.rearm = 0
                 /\ c.sides # {} /\ c.sides \subseteq Sides /\ c.forward \in BOOLEAN
                 /\ c.road.number \in 1 .. MaxNumber /\ c.road.number # r.number
                 /\ c.road.number \in {r.number + 1, r.number + 1 - MaxNumber}
    /\ ~c.news => /\ c.road.number = r.number
                  /\ IF r.phase = "latched" THEN c.road = Rearmed(r, p = {} /\ ahead)
                     ELSE c.road.phase # "latched"

LEMMA ClassifiedIs ==
    ASSUME LineConstants, NEW r \in Classifiers, r.phase = "observing" => Waited(r),
           NEW p \in SUBSET Sides, NEW ahead \in BOOLEAN
    PROVE  ClassifiedOK(r, p, ahead, Classified(r, p, ahead))
<1> DEFINE c == Classified(r, p, ahead)
           o == PathsObserved(r, p, ahead)
<1>0. r.phase \in {"normal", "observing", "latched"}
  BY DEF Classifiers
<1>1. CASE r.phase = "latched"
  <2> DEFINE u == Rearmed(r, p = {} /\ ahead)
  <2>1. u \in Classifiers /\ u.number = r.number /\ u.phase \in {"normal", "latched"}
    <3>1. (p = {} /\ ahead) \in BOOLEAN
      OBVIOUS
    <3> QED BY <1>1, <3>1, RearmedIs
  <2>2. c.road = u /\ c.news = FALSE
    BY <1>1 DEF Classified
  <2> HIDE DEF u, c
  <2>3. ClassifiedOK(r, p, ahead, c)
    BY <1>1, <2>1, <2>2 DEF ClassifiedOK, u
  <2> QED BY <2>3 DEF c
<1>2. CASE r.phase = "normal" /\ p = {}
  <2>1. c.road = r /\ c.news = FALSE
    BY <1>2 DEF Classified
  <2> HIDE DEF c
  <2>2. ClassifiedOK(r, p, ahead, c)
    BY <1>2, <2>1 DEF ClassifiedOK
  <2> QED BY <2>2 DEF c
<1>3. CASE r.phase \in {"normal", "observing"} /\ (r.phase = "observing" \/ p # {})
  <2>1. o \in Classifiers /\ o.phase = "observing" /\ o.number = r.number
    BY <1>3, PathsSeenIs
  <2>2. Confirmed(o) \subseteq Sides
    BY DEF Confirmed
  <2>3. o.exits < ExitConfirm /\ Confirmed(o) = {} =>
            /\ o.observed < MaxObserve
            /\ o.observed + (ExitConfirm - 1 - o.exits) <= ExitConfirm * Evidence(o)
    BY <1>3, WaitsOn
  <2>4. /\ o.exits \in Nat /\ o.observed \in Nat /\ MaxObserve \in Nat
        /\ ExitConfirm \in Nat
    BY <2>1 DEF Classifiers, LineConstants
  <2>5. c = IF DeadEnd(o) THEN [road |-> Latched(o), sides |-> Confirmed(o),
                                forward |-> FALSE, news |-> TRUE]
            ELSE IF GivenUp(o) THEN [road |-> [Unobserved(o) EXCEPT !.phase = "normal"],
                                     sides |-> {}, forward |-> ahead, news |-> FALSE]
            ELSE IF Passed(o) THEN [road |-> Latched(o), sides |-> Confirmed(o),
                                    forward |-> ahead, news |-> TRUE]
            ELSE [road |-> o, sides |-> {}, forward |-> ahead, news |-> FALSE]
    BY <1>3 DEF Classified
  <2> DEFINE l == Latched(o)
  <2>6. /\ l \in Classifiers /\ l.phase = "latched" /\ l.rearm = 0
        /\ l.number \in 1 .. MaxNumber /\ l.number # r.number
        /\ l.number \in {r.number + 1, r.number + 1 - MaxNumber}
    BY <2>1, LatchedIs
  <2> DEFINE v == [Unobserved(o) EXCEPT !.phase = "normal"]
  <2>7. v \in Classifiers /\ v.phase = "normal" /\ v.number = r.number
    BY <2>1, UnobservedIs
  <2> HIDE DEF o, c, l, v
  <2>8. ASSUME DeadEnd(o)
         PROVE  ClassifiedOK(r, p, ahead, c)
    <3>1. c = [road |-> l, sides |-> Confirmed(o), forward |-> FALSE, news |-> TRUE]
      BY <2>5, <2>8 DEF l
    <3>2. Confirmed(o) # {}
      BY <2>8 DEF DeadEnd
    <3> QED BY <1>3, <2>2, <2>6, <3>1, <3>2 DEF ClassifiedOK
  <2>9. ASSUME ~DeadEnd(o) /\ GivenUp(o)
         PROVE  ClassifiedOK(r, p, ahead, c)
    <3>1. c = [road |-> v, sides |-> {}, forward |-> ahead, news |-> FALSE]
      BY <2>5, <2>9 DEF v
    <3> QED BY <1>3, <2>7, <3>1 DEF ClassifiedOK
  <2>10. ASSUME ~DeadEnd(o) /\ ~GivenUp(o) /\ Passed(o)
         PROVE  ClassifiedOK(r, p, ahead, c)
    <3>1. c = [road |-> l, sides |-> Confirmed(o), forward |-> ahead, news |-> TRUE]
      BY <2>5, <2>10 DEF l
    <3>2. Confirmed(o) # {}
      BY <2>3, <2>4, <2>10 DEF GivenUp, Passed
    <3> QED BY <1>3, <2>2, <2>6, <3>1, <3>2 DEF ClassifiedOK
  <2>11. ASSUME ~DeadEnd(o) /\ ~GivenUp(o) /\ ~Passed(o)
         PROVE  ClassifiedOK(r, p, ahead, c)
    <3>1. c = [road |-> o, sides |-> {}, forward |-> ahead, news |-> FALSE]
      BY <2>5, <2>11
    <3>2. Waited(o)
      BY <2>3, <2>4, <2>11 DEF Passed, Waited
    <3> QED BY <1>3, <2>1, <3>1, <3>2 DEF ClassifiedOK
  <2>12. ClassifiedOK(r, p, ahead, c)
    BY <2>8, <2>9, <2>10, <2>11
  <2> QED BY <2>12 DEF c
<1> QED BY <1>0, <1>1, <1>2, <1>3

LEMMA CapturedIs ==
    ASSUME LineConstants, capture \in CaptureStates, surface \in Surfaces
    PROVE  Captured \in CaptureStates
<1> DEFINE s == capture.seen \cup {surface}
<1>1. /\ capture.seen \in SUBSET Surfaces /\ s \in SUBSET Surfaces /\ {} \in SUBSET Surfaces
      /\ capture.samples \in 0 .. CaptureFrames - 1 /\ CaptureFrames \in Nat \ {0}
      /\ 0 \in 0 .. CaptureFrames - 1
      /\ capture.mode \in Captures \cup {"idle", "sweep"}
  BY DEF CaptureStates, LineConstants
<1>2. CASE capture.mode \in {"idle", "sweep"} \/ capture.samples + 1 < CaptureFrames
  <2> DEFINE e1 == IF capture.mode = "idle" THEN {} ELSE s
             e2 == IF capture.mode \in Captures THEN capture.samples + 1 ELSE 0
             a == [capture EXCEPT !.seen = e1]
  <2>1. Captured = [a EXCEPT !.samples = e2]
    BY <1>2 DEF Captured, CaptureStates
  <2>2. e1 \in SUBSET Surfaces /\ e2 \in 0 .. CaptureFrames - 1
    BY <1>1, <1>2 DEF Captures
  <2> HIDE DEF e1, e2
  <2>3. a \in CaptureStates
    BY <2>2 DEF CaptureStates
  <2> HIDE DEF a
  <2> QED BY <2>1, <2>2, <2>3 DEF CaptureStates
<1>3. CASE ~(capture.mode \in {"idle", "sweep"} \/ capture.samples + 1 < CaptureFrames)
  <2>1. capture.mode \in Captures
    BY <1>1, <1>3
  <2> DEFINE a == [capture EXCEPT !.mode = "idle"]
             b == [a EXCEPT !.samples = 0]
             d == [b EXCEPT !.seen = {}]
  <2> HIDE DEF s
  <2>2. Captured = [d EXCEPT ![capture.mode] = s]
    BY <1>3 DEF Captured, s
  <2>3. a \in CaptureStates
    BY DEF CaptureStates
  <2> HIDE DEF a
  <2>4. b \in CaptureStates
    BY <1>1, <2>3 DEF CaptureStates
  <2> HIDE DEF b
  <2>5. d \in CaptureStates
    BY <1>1, <2>4 DEF CaptureStates
  <2> HIDE DEF d
  <2>6. CASE capture.mode = "white"
    BY <1>1, <2>2, <2>5, <2>6 DEF CaptureStates
  <2>7. CASE capture.mode = "black"
    BY <1>1, <2>2, <2>5, <2>7 DEF CaptureStates
  <2> QED BY <2>1, <2>6, <2>7 DEF Captures
<1> QED BY <1>2, <1>3

LEMMA FreshLine ==
    ASSUME LineConstants
    PROVE  /\ FreshRoad \in Classifiers /\ FreshRoad.phase = "normal" /\ FreshRoad.number = 0
           /\ Bridged(NoTrack, 0) /\ \A n \in Nat : Bridged(NoTrack, n)
<1>1. NoEvidence \in [Sides -> Nat] /\ 0 \in 0 .. Rearm - 1 /\ 0 \in 0 .. MaxNumber /\ MaxWeak \in Nat
  BY DEF NoEvidence, LineConstants
<1> HIDE DEF NoEvidence
<1>2. FreshRoad \in Classifiers /\ FreshRoad.phase = "normal" /\ FreshRoad.number = 0
  BY <1>1 DEF FreshRoad, Classifiers
<1>3. \A n \in Nat : Bridged(NoTrack, n)
  BY <1>1 DEF NoTrack, Bridged, Tracks
<1> QED BY <1>2, <1>3

LEMMA ArrayStarts == LineConstants /\ LineInit => LineInv
<1> SUFFICES ASSUME LineConstants, LineInit PROVE LineInv
  OBVIOUS
<1>1. Bridged(track, gap) /\ RoadOK /\ CentredIs
  BY FreshLine DEF LineInit, RoadOK, CentredIs
<1>2. EventIs /\ ConsumerIs /\ NumbersAgree
  <2>1. /\ 0 \in 0 .. MaxNumber /\ 0 \in 0 .. MaxMissed
        /\ NoRoadEvent.number = 0 /\ NoRoadEvent.seen = FALSE
    BY DEF LineConstants, NoRoadEvent
  <2>2. NoRoadEvent \in [number : 0 .. MaxNumber, sides : SUBSET Sides, forward : BOOLEAN,
                         seen : BOOLEAN, away : BOOLEAN]
    BY <2>1 DEF NoRoadEvent
  <2>3. EventIs /\ ConsumerIs
    BY <2>1, <2>2 DEF LineInit, EventIs, EventHasSide, ConsumerIs, Watchers, Watching
  <2>4. NumbersAgree
    BY <2>1, FreshLine DEF LineInit, NumbersAgree, LagsBy, FreshIsYoung
  <2> QED BY <2>3, <2>4
<1>3. capture \in CaptureStates
  <2>1. 0 \in 0 .. CaptureFrames - 1
    BY DEF LineConstants
  <2> QED BY <2>1 DEF LineInit, CaptureStates
<1>4. surface \in Surfaces /\ lineResets \in Nat /\ CalibrationSpan
  BY DEF LineInit, Surfaces, CalibrationSpan
<1> QED BY <1>1, <1>2, <1>3, <1>4 DEF LineInv

(* A frame: the event it publishes bears a number that its consumer has not handled. *)
LEMMA FrameKeeps ==
    ASSUME LineConstants, LineInv, Frame PROVE LineInv' /\ EventOnceStep /\ EventKeptStep
<1> PICK p \in SUBSET Sides, ahead \in BOOLEAN :
        LET c == Classified(road, p, ahead)
            centre == p = {} /\ ahead
        IN  /\ looked /\ looked' = FALSE
            /\ c.news => missed < MaxMissed
            /\ road' = c.road
            /\ event' = IF c.news THEN [number |-> c.road.number, sides |-> c.sides,
                                        forward |-> c.forward, seen |-> FALSE,
                                        away |-> watcher \notin Watching]
                        ELSE event
            /\ missed' = IF c.news THEN missed + 1 ELSE missed
            /\ centred' = IF c.news THEN 0
                          ELSE IF centred = Rearm THEN Rearm
                          ELSE IF centre THEN centred + 1 ELSE 0
            /\ \E f \in LineShapes :
                   /\ track' = Tracked(track, f)
                   /\ gap' = IF f.kind = "strong" THEN 0 ELSE Least(gap + 1, MaxWeak + 1)
            /\ capture' = Captured
            /\ UNCHANGED << handledEvent, watcher, surface, used, lineResets, lineCommands >>
  BY Zenon DEF Frame
<1> PICK f \in LineShapes :
        /\ track' = Tracked(track, f)
        /\ gap' = IF f.kind = "strong" THEN 0 ELSE Least(gap + 1, MaxWeak + 1)
  BY Zenon
<1> DEFINE c == Classified(road, p, ahead)
<1>1. /\ looked /\ looked' = FALSE /\ watcher' = watcher
      /\ c.news => missed < MaxMissed
      /\ track' = Tracked(track, f) /\ road' = c.road
      /\ event' = IF c.news THEN [number |-> c.road.number, sides |-> c.sides,
                                  forward |-> c.forward, seen |-> FALSE,
                                  away |-> watcher \notin Watching]
                  ELSE event
      /\ missed' = IF c.news THEN missed + 1 ELSE missed
      /\ centred' = IF c.news THEN 0
                    ELSE IF centred = Rearm THEN Rearm
                    ELSE IF p = {} /\ ahead THEN centred + 1 ELSE 0
      /\ gap' = IF f.kind = "strong" THEN 0 ELSE Least(gap + 1, MaxWeak + 1)
      /\ capture' = Captured
      /\ handledEvent' = handledEvent /\ surface' = surface /\ used' = used
      /\ lineResets' = lineResets
  OBVIOUS
<1>2. ClassifiedOK(road, p, ahead, c)
  BY ClassifiedIs DEF LineInv, RoadOK
<1> HIDE DEF c
<1>3. Bridged(track', gap')
  BY <1>1, TrackedIs DEF LineInv
<1>4. RoadOK'
  BY <1>1, <1>2 DEF RoadOK, ClassifiedOK
<1>5. /\ road \in Classifiers /\ road.rearm \in 0 .. Rearm - 1 /\ Rearm \in Nat \ {0}
      /\ road.number \in 0 .. MaxNumber
      /\ centred = IF road.phase = "latched" THEN road.rearm ELSE Rearm
  BY DEF LineConstants, LineInv, RoadOK, Classifiers, CentredIs
<1>6. CentredIs'
  <2>1. CASE c.news
    BY <1>1, <1>2, <2>1 DEF CentredIs, ClassifiedOK
  <2>2. CASE ~c.news /\ road.phase # "latched"
    BY <1>1, <1>2, <1>5, <2>2 DEF CentredIs, ClassifiedOK
  <2>3. CASE ~c.news /\ road.phase = "latched"
    <3> DEFINE centre == p = {} /\ ahead
               u == Rearmed(road, centre)
    <3>1. road' = u /\ centre \in BOOLEAN
      BY <1>1, <1>2, <2>3 DEF ClassifiedOK
    <3>2. IF centre /\ road.rearm + 1 >= Rearm THEN u.phase = "normal"
          ELSE u.phase = "latched" /\ u.rearm = IF centre THEN road.rearm + 1 ELSE 0
      BY <1>5, <2>3, <3>1, RearmedIs
    <3>3. centred' = IF centre THEN road.rearm + 1 ELSE 0
      BY <1>1, <1>5, <2>3
    <3> HIDE DEF u, centre
    <3> QED BY <1>5, <3>1, <3>2, <3>3 DEF CentredIs
  <2> QED BY <2>1, <2>2, <2>3
<1>7. EventIs'
  <2>1. CASE c.news
    <3>1. event' = [number |-> c.road.number, sides |-> c.sides, forward |-> c.forward,
                    seen |-> FALSE, away |-> watcher \notin Watching]
      BY <1>1, <2>1
    <3>2. /\ c.road.number \in 0 .. MaxNumber /\ c.sides \in SUBSET Sides
          /\ c.forward \in BOOLEAN /\ c.sides # {}
      BY <1>2, <2>1 DEF ClassifiedOK, LineConstants
    <3> DEFINE n == c.road.number
               s == c.sides
               w == c.forward
               a == watcher \notin Watching
    <3> HIDE DEF n, s, w
    <3>3. event' = [number |-> n, sides |-> s, forward |-> w, seen |-> FALSE, away |-> a]
      BY <3>1 DEF n, s, w
    <3>4. n \in 0 .. MaxNumber /\ s \in SUBSET Sides /\ w \in BOOLEAN /\ s # {} /\ a \in BOOLEAN
      BY <3>2 DEF n, s, w
    <3> HIDE DEF a
    <3>5. /\ event' \in [number : 0 .. MaxNumber, sides : SUBSET Sides, forward : BOOLEAN,
                         seen : BOOLEAN, away : BOOLEAN]
          /\ event'.sides # {}
      <4>1. event'.sides = s
        BY <3>3
      <4>2. FALSE \in BOOLEAN
        OBVIOUS
      <4>3. [number |-> n, sides |-> s, forward |-> w, seen |-> FALSE, away |-> a]
                \in [number : 0 .. MaxNumber, sides : SUBSET Sides, forward : BOOLEAN,
                    seen : BOOLEAN, away : BOOLEAN]
        BY <3>4, <4>2, Zenon
      <4> QED BY <3>3, <3>4, <4>1, <4>3
    <3> QED BY <1>1, <3>5 DEF LineInv, EventIs, EventHasSide
  <2>2. CASE ~c.news
    BY <1>1, <2>2 DEF LineInv, EventIs, EventHasSide
  <2> QED BY <2>1, <2>2
<1>11. ConsumerIs'
  <2>1. watcher' \in Watchers /\ looked' \in BOOLEAN
    BY <1>1 DEF LineInv, ConsumerIs
  <2>2. missed' \in 0 .. MaxMissed
    BY <1>1 DEF LineInv, ConsumerIs, LineConstants
  <2>3. event'.seen => event'.number = handledEvent'
    BY <1>1 DEF LineInv, ConsumerIs
  <2> QED BY <2>1, <2>2, <2>3 DEF ConsumerIs
<1>8. NumbersAgree' /\ EventKeptStep
  <2> SUFFICES ASSUME lineResets' = 0 PROVE NumbersAgree' /\ EventKeptStep
    BY DEF NumbersAgree, EventKeptStep
  <2>0. event.number \in {0, road.number} /\ LagsBy(road.number) /\ FreshIsYoung
    BY <1>1 DEF LineInv, NumbersAgree
  <2>3. event.number # 0 => event.seen \/ event.away
    BY <1>1, <2>0 DEF FreshIsYoung
  <2>1. CASE c.news
    <3>1. /\ event'.number = c.road.number /\ event'.away = (watcher \notin Watching)
          /\ road'.number = c.road.number /\ road'.phase = "latched"
      BY <1>1, <1>2, <2>1 DEF ClassifiedOK
    <3>2. PICK n : n = c.road.number
      OBVIOUS
    <3>3. n \in 1 .. MaxNumber /\ n \in {road.number + 1, road.number + 1 - MaxNumber}
      BY <1>2, <2>1, <3>2 DEF ClassifiedOK
    <3>4. /\ missed' = missed + 1 /\ missed < MaxMissed /\ missed \in Nat
          /\ MaxMissed \in Nat /\ MaxNumber \in Nat /\ MaxMissed < MaxNumber
          /\ handledEvent \in 0 .. MaxNumber /\ handledEvent' = handledEvent
      BY <1>1, <2>1 DEF LineInv, ConsumerIs, EventIs, LineConstants
    <3>9. PICK k \in 0 .. MaxNumber : k = road.number
      BY <1>5
    <3>5. handledEvent = 0 \/ handledEvent + missed + 1 - n \in {0, MaxNumber}
      <4>1. n \in {k + 1, k + 1 - MaxNumber}
        BY <3>3, <3>9
      <4>2. handledEvent = 0 \/ handledEvent + missed - k \in {0, MaxNumber}
        BY <2>0, <3>9 DEF LagsBy
      <4> QED BY <3>3, <3>4, <4>1, <4>2
    <3>6. n # handledEvent
      BY <3>3, <3>4, <3>5
    <3>7. LagsBy(road.number)'
      <4>1. road'.number = n
        BY <3>1, <3>2
      <4>2. handledEvent = 0 \/ handledEvent + (missed + 1) - n \in {0, MaxNumber}
        BY <3>3, <3>4, <3>5
      <4> QED BY <3>4, <4>1, <4>2 DEF LagsBy
    <3>8. FreshIsYoung'
      BY <1>1, <3>1, <3>2, <3>4, <3>6 DEF FreshIsYoung
    <3> QED BY <2>3, <3>1, <3>7, <3>8 DEF NumbersAgree, EventKeptStep
  <2>2. CASE ~c.news
    <3>1. road'.number = road.number /\ event' = event /\ missed' = missed
      BY <1>1, <1>2, <2>2 DEF ClassifiedOK
    <3>2. LagsBy(road.number)'
      BY <1>1, <2>0, <3>1 DEF LagsBy
    <3>3. FreshIsYoung'
      BY <2>3, <3>1 DEF FreshIsYoung
    <3> QED BY <2>0, <2>3, <3>1, <3>2, <3>3 DEF NumbersAgree, EventKeptStep
  <2> QED BY <2>1, <2>2
<1>9. capture' \in CaptureStates /\ surface' \in Surfaces /\ lineResets' \in Nat /\ CalibrationSpan'
  BY <1>1, CapturedIs DEF LineInv, CalibrationSpan
<1>10. EventOnceStep
  BY <1>1, <1>2, <1>5 DEF EventOnceStep, ClassifiedOK
<1> QED BY <1>3, <1>4, <1>6, <1>7, <1>8, <1>9, <1>10, <1>11 DEF LineInv

(* The sensor or its calibration starts over.                                        *)
LEMMA StartOverKeeps ==
    ASSUME LineConstants, LineInv, track' = NoTrack, road' = FreshRoad, centred' = Rearm,
           event' \in {event, NoRoadEvent}, UNCHANGED consumer,
           lineResets' = lineResets + 1, gap' = gap
    PROVE  /\ Bridged(track', gap') /\ RoadOK' /\ CentredIs' /\ EventIs' /\ ConsumerIs'
           /\ NumbersAgree' /\ lineResets' \in Nat
           /\ EventOnceStep /\ EventKeptStep
<1>1. Bridged(track', gap') /\ RoadOK' /\ CentredIs'
  BY FreshLine DEF LineInv, Bridged, RoadOK, CentredIs
<1>2. lineResets' \in Nat /\ lineResets' # 0
  BY DEF LineInv
<1>3. EventIs'
  <2>1. CASE event' = event
    BY <2>1 DEF LineInv, EventIs, EventHasSide, consumer
  <2>2. CASE event' = NoRoadEvent
    <3>1. 0 \in 0 .. MaxNumber /\ NoRoadEvent.number = 0
      BY DEF LineConstants, NoRoadEvent
    <3>2. NoRoadEvent \in [number : 0 .. MaxNumber, sides : SUBSET Sides, forward : BOOLEAN,
                           seen : BOOLEAN, away : BOOLEAN]
      BY <3>1 DEF NoRoadEvent
    <3> QED BY <2>2, <3>1, <3>2 DEF LineInv, EventIs, EventHasSide, consumer
  <2> QED BY <2>1, <2>2
<1>4. EventOnceStep /\ EventKeptStep
  BY <1>2 DEF EventOnceStep, EventKeptStep, NoRoadEvent
<1>5. ConsumerIs'
  BY DEF LineInv, ConsumerIs, consumer, NoRoadEvent
<1> QED BY <1>1, <1>2, <1>3, <1>4, <1>5 DEF NumbersAgree

LEMMA FailureKeeps == ASSUME LineConstants, LineInv, Failure PROVE LineInv' /\ EventOnceStep /\ EventKeptStep
<1>1. /\ Bridged(track', gap') /\ RoadOK' /\ CentredIs' /\ EventIs' /\ ConsumerIs'
      /\ NumbersAgree' /\ lineResets' \in Nat
      /\ EventOnceStep /\ EventKeptStep
  BY StartOverKeeps DEF Failure
<1>2. capture' = capture /\ surface' = surface /\ used' = used
  BY DEF Failure, array
<1> QED BY <1>1, <1>2 DEF LineInv, CalibrationSpan

(* The consumer and `road clear` leave the classifier alone, and the number of the    *)
(* event unless it is cleared.                                                       *)
LEMMA ConsumerKeeps ==
    ASSUME LineConstants, LineInv,
           UNCHANGED << track, road, array, gap, centred, lineResets >>,
           ConsumerIs', lineResets = 0 => FreshIsYoung',
           \/ UNCHANGED << handledEvent, missed >>
           \/ handledEvent' = event.number /\ missed' = 0,
           \/ event' = event
           \/ event' = [event EXCEPT !.seen = TRUE]
           \/ event' = [event EXCEPT !.away = ~event.seen]
           \/ event' = NoRoadEvent
    PROVE  LineInv' /\ EventOnceStep /\ EventKeptStep
<1> DEFINE Events == [number : 0 .. MaxNumber, sides : SUBSET Sides, forward : BOOLEAN,
                      seen : BOOLEAN, away : BOOLEAN]
<1>1. event \in Events /\ handledEvent \in 0 .. MaxNumber /\ EventHasSide
  BY DEF LineInv, EventIs
<1>2. /\ event' \in Events
      /\ \/ event'.number = event.number /\ event'.sides = event.sides
         \/ event'.number = 0
  <2>1. CASE event' = event
    BY <1>1, <2>1
  <2>2. CASE event' = [event EXCEPT !.seen = TRUE]
    BY <1>1, <2>2
  <2>3. CASE event' = [event EXCEPT !.away = ~event.seen]
    <3>1. PICK a : a = ~event.seen
      OBVIOUS
    <3>2. event' = [event EXCEPT !.away = a] /\ a \in BOOLEAN
      BY <1>1, <2>3, <3>1
    <3> QED BY <1>1, <3>2
  <2>4. CASE event' = NoRoadEvent
    BY <2>4 DEF NoRoadEvent, LineConstants
  <2> QED BY <2>1, <2>2, <2>3, <2>4
<1>3. /\ Bridged(track', gap') /\ RoadOK' /\ CentredIs' /\ capture' \in CaptureStates
      /\ surface' \in Surfaces /\ lineResets' \in Nat /\ CalibrationSpan'
  BY DEF LineInv, RoadOK, CentredIs, CalibrationSpan, array
<1>4. EventIs'
  <2>1. handledEvent' \in 0 .. MaxNumber
    BY <1>1
  <2> QED BY <1>1, <1>2, <2>1 DEF EventIs, EventHasSide
<1>5. EventOnceStep /\ EventKeptStep
  BY <1>2 DEF EventOnceStep, EventKeptStep
<1>6. NumbersAgree'
  <2> SUFFICES ASSUME lineResets = 0 PROVE NumbersAgree'
    BY DEF NumbersAgree
  <2>1. /\ event.number \in {0, road.number} /\ LagsBy(road.number) /\ road' = road
        /\ road.number \in 0 .. MaxNumber /\ MaxNumber \in Nat
    BY DEF LineInv, NumbersAgree, RoadOK, Classifiers, LineConstants
  <2>2. LagsBy(road.number)'
    <3>1. CASE UNCHANGED << handledEvent, missed >>
      BY <2>1, <3>1 DEF LagsBy
    <3>2. CASE handledEvent' = event.number /\ missed' = 0
      BY <2>1, <3>2 DEF LagsBy
    <3> QED BY <3>1, <3>2
  <2>3. event'.number \in {0, road'.number}
    BY <1>2, <2>1
  <2> QED BY <2>2, <2>3 DEF NumbersAgree
<1> QED BY <1>3, <1>4, <1>5, <1>6 DEF LineInv

(* An action of the consumer: an event that awaits it is taken or stays young.        *)
LEMMA ConsumerActs ==
    ASSUME LineConstants, LineInv, Consumer
    PROVE  LineInv' /\ EventOnceStep /\ EventKeptStep
<1> DEFINE Events == [number : 0 .. MaxNumber, sides : SUBSET Sides, forward : BOOLEAN,
                      seen : BOOLEAN, away : BOOLEAN]
<1>1. /\ event \in Events /\ ConsumerIs /\ (lineResets = 0 => FreshIsYoung)
      /\ 0 \in 0 .. MaxMissed
  BY DEF LineInv, EventIs, NumbersAgree, LineConstants
<1>2. UNCHANGED << track, road, array, gap, centred, lineResets >>
  BY DEF Consumer, Poll, RouteEnds, ArmRoute, FaultSets, FaultClears, ConsumerOnly
<1>3. CASE Poll /\ Handle
  <2>1. /\ looked' = TRUE /\ handledEvent' = event.number /\ missed' = 0
        /\ event' = [event EXCEPT !.seen = TRUE] /\ watcher' \in {"idle", "turning"}
    BY <1>3 DEF Poll, Handle, Take, CatchUp
  <2>2. event'.seen = TRUE /\ event'.number = event.number
    BY <1>1, <2>1
  <2>3. ConsumerIs' /\ FreshIsYoung'
    BY <1>1, <2>1, <2>2 DEF ConsumerIs, FreshIsYoung, Watchers, Watching
  <2> QED BY <1>2, <2>1, <2>3, ConsumerKeeps
<1>4. CASE Poll /\ (TurnEarly \/ Armed \/ Handoff)
  <2>1. /\ looked' = TRUE /\ handledEvent' = event.number /\ missed' = 0 /\ event' = event
        /\ watcher' \in {"idle", "turning", "following"}
        /\ watcher \notin Watching \/ road.phase # "latched"
    BY <1>4 DEF Poll, TurnEarly, Armed, Handoff, PassBy, CatchUp, Watching
  <2>2. ConsumerIs' /\ (lineResets = 0 => FreshIsYoung')
    BY <1>1, <2>1 DEF ConsumerIs, FreshIsYoung, Watchers, Watching
  <2> QED BY <1>2, <2>1, <2>2, ConsumerKeeps
<1>5. CASE Poll /\ NoAction
  <2>1. /\ looked' = TRUE /\ UNCHANGED << event, handledEvent, watcher, missed >>
        /\ watcher \notin Watching \/ ~IsNew
    BY <1>5 DEF Poll, NoAction, Watching
  <2>2. ConsumerIs' /\ (lineResets = 0 => FreshIsYoung')
    BY <1>1, <2>1 DEF ConsumerIs, FreshIsYoung, IsNew
  <2> QED BY <1>2, <2>1, <2>2, ConsumerKeeps
<1>6. CASE RouteEnds
  <2>1. watcher' = "idle" /\ UNCHANGED << event, handledEvent, looked, missed >>
    BY <1>6 DEF RouteEnds
  <2>2. ConsumerIs' /\ (lineResets = 0 => FreshIsYoung')
    BY <1>1, <1>2, <2>1 DEF ConsumerIs, FreshIsYoung, Watchers, Watching
  <2> QED BY <1>2, <2>1, <2>2, ConsumerKeeps
<1>7. CASE ArmRoute
  <2>1. /\ looked' = looked /\ handledEvent' = event.number /\ missed' = 0
        /\ event' = [event EXCEPT !.seen = TRUE] /\ watcher' \in {"following", "arming"}
    BY <1>7 DEF ArmRoute, Take, CatchUp
  <2>2. event'.seen = TRUE /\ event'.number = event.number
    BY <1>1, <2>1
  <2>3. ConsumerIs' /\ FreshIsYoung'
    BY <1>1, <2>1, <2>2 DEF ConsumerIs, FreshIsYoung, Watchers, Watching
  <2> QED BY <1>2, <2>1, <2>3, ConsumerKeeps
<1>8. CASE FaultSets
  <2>1. /\ watcher' = "faulted" /\ event' = [event EXCEPT !.away = ~event.seen]
        /\ UNCHANGED << handledEvent, looked, missed >>
    BY <1>8 DEF FaultSets
  <2>2. event'.seen = event.seen /\ event'.number = event.number /\ event'.away = ~event.seen
    BY <1>1, <2>1
  <2>3. ConsumerIs' /\ FreshIsYoung'
    BY <1>1, <2>1, <2>2 DEF ConsumerIs, FreshIsYoung, Watchers
  <2> QED BY <1>2, <2>1, <2>3, ConsumerKeeps
<1>9. CASE FaultClears
  <2>1. /\ watcher = "faulted" /\ watcher' = "idle"
        /\ UNCHANGED << event, handledEvent, looked, missed >>
    BY <1>9 DEF FaultClears
  <2>2. ConsumerIs' /\ (lineResets = 0 => FreshIsYoung')
    BY <1>1, <1>2, <2>1 DEF ConsumerIs, FreshIsYoung, Watchers, Watching
  <2> QED BY <1>2, <2>1, <2>2, ConsumerKeeps
<1> QED BY <1>3, <1>4, <1>5, <1>6, <1>7, <1>8, <1>9 DEF Consumer, Poll

(* The captures that a commit, and the extremes that a sweep is judged by, are of two *)
(* different surfaces.                                                               *)
LEMMA CalibratedKeeps ==
    ASSUME LineConstants, LineInv, UNCHANGED consumer, surface' = surface,
           gap' = gap, Commit \/ SweepEnd
    PROVE  LineInv' /\ EventOnceStep /\ EventKeptStep
<1>1. ASSUME NEW w, NEW b, Calibrated(w, b), {w, b} = {{"floor"}, {"line"}},
             capture' \in CaptureStates
      PROVE  LineInv' /\ EventOnceStep /\ EventKeptStep
  <2>1. /\ Bridged(track', gap') /\ RoadOK' /\ CentredIs' /\ EventIs' /\ ConsumerIs'
        /\ NumbersAgree' /\ lineResets' \in Nat
        /\ EventOnceStep /\ EventKeptStep
    BY <1>1, StartOverKeeps DEF Calibrated
  <2>2. CalibrationSpan'
    BY <1>1 DEF CalibrationSpan, Calibrated
  <2> QED BY <1>1, <2>1, <2>2 DEF LineInv
<1>2. CASE Commit
  <2>1. PICK s \in Surfaces : capture.white = {s}
    BY <1>2 DEF Commit, Captures
  <2>2. PICK u \in Surfaces : capture.black = {u}
    BY <1>2 DEF Commit, Captures
  <2>3. s # u
    BY <1>2, <2>1, <2>2 DEF Commit
  <2>4. {capture.white, capture.black} = {{"floor"}, {"line"}}
    BY <2>1, <2>2, <2>3 DEF Surfaces
  <2>5. Calibrated(capture.white, capture.black) /\ capture' = capture
    BY <1>2 DEF Commit
  <2> QED BY <1>1, <2>4, <2>5 DEF LineInv
<1>3. CASE SweepEnd
  <2> DEFINE a == [capture EXCEPT !.mode = "idle"]
  <2>1. capture' = [a EXCEPT !.seen = {}]
    BY <1>3 DEF SweepEnd
  <2>2. a \in CaptureStates
    BY DEF LineInv, CaptureStates
  <2> HIDE DEF a
  <2>3. capture' \in CaptureStates
    BY <2>1, <2>2 DEF CaptureStates
  <2>4. CASE capture.seen = Surfaces
    BY <1>1, <1>3, <2>3, <2>4 DEF SweepEnd
  <2>5. CASE capture.seen # Surfaces
    <3>1. UNCHANGED << track, road, event, used, lineResets, centred >>
      BY <1>3, <2>5 DEF SweepEnd
    <3> QED BY <2>3, <3>1 DEF LineInv, RoadOK, CentredIs, EventIs, EventHasSide, ConsumerIs,
                              NumbersAgree, LagsBy, FreshIsYoung, consumer, CalibrationSpan,
                              EventOnceStep, EventKeptStep
  <2> QED BY <2>4, <2>5
<1> QED BY <1>2, <1>3

LEMMA CaptureCommandKeeps ==
    ASSUME LineConstants, LineInv, CaptureStart \/ CaptureCancel
    PROVE  capture' \in CaptureStates
<1>1. PICK m \in Captures \cup {"idle", "sweep"} :
          capture' = [capture EXCEPT !.mode = m, !.seen = {}, !.samples = 0]
  <2>1. CASE CaptureStart
    BY <2>1 DEF CaptureStart
  <2>2. CASE CaptureCancel
    <3>1. capture' = [capture EXCEPT !.mode = "idle", !.samples = 0, !.seen = {}]
      BY <2>2 DEF CaptureCancel
    <3>2. capture' = [capture EXCEPT !.mode = "idle", !.seen = {}, !.samples = 0]
      BY <3>1
    <3> QED BY <3>2
  <2> QED BY <2>1, <2>2
<1> DEFINE a == [capture EXCEPT !.mode = m]
           b == [a EXCEPT !.seen = {}]
<1>2. capture' = [b EXCEPT !.samples = 0] /\ 0 \in 0 .. CaptureFrames - 1
  BY <1>1 DEF LineConstants
<1>3. a \in CaptureStates
  BY DEF LineInv, CaptureStates
<1> HIDE DEF a
<1>4. b \in CaptureStates
  BY <1>3 DEF CaptureStates
<1> HIDE DEF b
<1> QED BY <1>2, <1>4 DEF CaptureStates

LEMMA LineCommandKeeps ==
    ASSUME LineConstants, LineInv, LineCommand PROVE LineInv' /\ EventOnceStep /\ EventKeptStep
<1>0. gap' = gap
  BY DEF LineCommand
<1>1. CASE (CaptureStart \/ CaptureCancel) /\ UNCHANGED << consumer, surface >>
  <2>1. capture' \in CaptureStates /\ UNCHANGED << track, road, event, used, lineResets, centred >>
    BY <1>1, CaptureCommandKeeps DEF CaptureStart, CaptureCancel
  <2> QED BY <1>0, <1>1, <2>1 DEF LineInv, RoadOK, CentredIs, EventIs, EventHasSide, ConsumerIs,
                                  NumbersAgree, LagsBy, FreshIsYoung, consumer, CalibrationSpan,
                                  EventOnceStep, EventKeptStep
<1>2. CASE (Commit \/ SweepEnd) /\ UNCHANGED << consumer, surface >>
  BY <1>0, <1>2, CalibratedKeeps
<1>3. CASE Place /\ UNCHANGED << consumer, lineResets >>
  BY <1>0, <1>3 DEF Place, LineInv, RoadOK, CentredIs, EventIs, EventHasSide, ConsumerIs,
                    NumbersAgree, LagsBy, FreshIsYoung, consumer, CalibrationSpan,
                    EventOnceStep, EventKeptStep
<1>4. CASE ClearEvent /\ UNCHANGED lineResets
  <2>1. /\ handledEvent' = event.number /\ missed' = 0 /\ event' = NoRoadEvent
        /\ UNCHANGED << track, road, array, gap, centred, lineResets, watcher, looked >>
    BY <1>0, <1>4 DEF ClearEvent, CatchUp
  <2>2. ConsumerIs' /\ FreshIsYoung'
    BY <2>1 DEF LineInv, ConsumerIs, FreshIsYoung, NoRoadEvent, LineConstants
  <2> QED BY <2>1, <2>2, ConsumerKeeps
<1> QED BY <1>1, <1>2, <1>3, <1>4 DEF LineCommand

LEMMA ArrayKeeps ==
    ASSUME LineConstants, LineInv, [LineNext]_lineVars
    PROVE  LineInv' /\ ((EventOnceStep /\ EventKeptStep) \/ UNCHANGED lineVars)
<1>1. CASE UNCHANGED lineVars
  BY <1>1 DEF lineVars, consumer, array, LineInv, RoadOK, CentredIs, EventIs, EventHasSide,
              ConsumerIs, NumbersAgree, LagsBy, FreshIsYoung, CalibrationSpan
<1> QED BY <1>1, FrameKeeps, FailureKeeps, ConsumerActs, LineCommandKeeps DEF LineNext

(* The invariant of the line gives what its module states.                           *)
LEMMA LineInvTells ==
    ASSUME LineConstants, LineInv
    PROVE  LineTypeOK /\ EventHasSide /\ EventsSeen /\ WeakBounded /\ CalibrationSpan
<1>1. LineTypeOK
  <2>1. /\ track.at \in Segments \cup {0} /\ track.bridged \in 0 .. MaxWeak
        /\ track.eligible \in BOOLEAN /\ track.valid \in BOOLEAN
    BY DEF LineInv, Bridged, Tracks
  <2>2. /\ road.phase \in {"normal", "observing", "latched"}
        /\ road.phase = "observing" => road.exits < ExitConfirm /\ road.observed < MaxObserve
        /\ road.rearm \in 0 .. Rearm - 1 /\ road.number \in 0 .. MaxNumber
    BY DEF LineInv, RoadOK, Classifiers, Waited
  <2>3. /\ handledEvent \in 0 .. MaxNumber /\ event.number \in 0 .. MaxNumber
        /\ watcher \in Watchers /\ looked \in BOOLEAN /\ missed \in 0 .. MaxMissed
        /\ capture.mode \in Captures \cup {"idle", "sweep"}
        /\ capture.samples \in 0 .. CaptureFrames - 1
    BY DEF LineInv, EventIs, ConsumerIs, CaptureStates
  <2> QED BY <2>1, <2>2, <2>3 DEF LineTypeOK
<1>2. WeakBounded
  <2>1. track.bridged \in 0 .. MaxWeak /\ gap \in Nat /\ MaxWeak \in Nat
        /\ (track.valid => gap <= track.bridged)
    BY DEF LineInv, Bridged, Tracks, LineConstants
  <2> QED BY <2>1 DEF WeakBounded
<1>3. EventHasSide /\ EventsSeen /\ CalibrationSpan
  BY DEF LineInv, EventIs, ConsumerIs, NumbersAgree, FreshIsYoung, EventsSeen
<1> QED BY <1>1, <1>2, <1>3

LEMMA LineInvariant == ASSUME LineConstants PROVE LineSpec => []LineInv
<1>1. LineInit => LineInv
  BY ArrayStarts
<1>2. LineInv /\ [LineNext]_lineVars => LineInv'
  BY ArrayKeeps
<1> QED BY <1>1, <1>2, PTL DEF LineSpec

(* The classifier, its consumer and the calibration keep their types; the window of  *)
(* an observation always closes in time (grayscale_road.cpp GrayscaleRoad_Update).   *)
THEOREM LineTypes == ASSUME LineConstants PROVE LineSpec => []LineTypeOK
<1>1. LineInv => LineTypeOK
  BY LineInvTells
<1> QED BY <1>1, LineInvariant, PTL

(* Every junction is counted once, for a side that was confirmed, and a consumer that *)
(* is not on a turn acts on it once, before the next (grayscale_road.cpp,            *)
(* road_event_controller.cpp).                                                       *)
THEOREM JunctionsAreCounted == ASSUME LineConstants PROVE LineSpec => JunctionsCounted
<1>1. LineInv => EventHasSide /\ EventsSeen
  BY LineInvTells
<1>2. LineInv /\ [LineNext]_lineVars => [EventOnceStep /\ EventKeptStep]_lineVars
  BY ArrayKeeps
<1> QED BY <1>1, <1>2, LineInvariant, PTL DEF LineSpec, JunctionsCounted

(* A position is not older than the bridging allows, and is computed between two      *)
(* surfaces that differ (grayscale_processing.cpp, app_grayscale.cpp).               *)
THEOREM PositionsAreTrue ==
    ASSUME LineConstants PROVE LineSpec => [](WeakBounded /\ CalibrationSpan)
<1>1. LineInv => WeakBounded /\ CalibrationSpan
  BY LineInvTells
<1> QED BY <1>1, LineInvariant, PTL

(* Sampling of the array: a conversion is of the channel it was started for, and the  *)
(* ages of the samples follow from the phase of the scan.                             *)
Samples ==
    [of : Channels \cup {"none"}, settled : BOOLEAN, age : 0 .. Length, before : BOOLEAN]
SampleOf(c) == [of |-> c, settled |-> TRUE, age |-> 0, before |-> FALSE]
Conversion(c, n) == [channel |-> c, next |-> n, sample |-> SampleOf(c)]
Conversions == {Conversion(c, n) : c \in Channels, n \in Channels} \cup {NoConversion}

AdcOK(a) ==
    /\ a \in [mux : Channels, settled : BOOLEAN, conversion : Conversions, result : Conversions]
    /\ a.result = NoConversion \/ a.conversion = NoConversion

(* What is initialized was sampled since the last failure.                            *)
SampledTrue(w, known) == \A c \in known : w[c].of = c /\ w[c].settled /\ ~w[c].before

(* The core channels this sweep has come by.                                          *)
CoreAges(w, ph) ==
    \A i \in DOMAIN Core : i < ph % Sweep => w[Core[i]].age = (ph % Sweep) - 1 - i

(* The samples taken since the scan last came by a road channel.                      *)
SinceOuter(i, ph) ==
    IF ph > (i - 1) * Sweep THEN ph - 1 - (i - 1) * Sweep
    ELSE ph - 1 - (i - 1) * Sweep + Length
OuterAges(w, known, ph) ==
    \A i \in DOMAIN Outer : Outer[i] \in known => w[Outer[i]].age <= SinceOuter(i, ph)

ScanInv ==
    /\ AdcOK(adc)
    /\ scan \in [phase : 0 .. Length - 1, initialized : SUBSET Channels, fresh : SUBSET Channels]
    /\ scan.fresh \subseteq scan.initialized
    /\ working \in [Channels -> Samples]
    /\ SampledTrue(working, scan.initialized)
    /\ CoreAges(working, scan.phase) /\ OuterAges(working, scan.initialized, scan.phase)
    /\ valid \in BOOLEAN /\ FrameTrue /\ FrameCoherent

(* A phase is a sweep and a place in it.                                              *)
LEMMA ScanLengths ==
    ASSUME ScanConstants
    PROVE  /\ Sweep \in Nat /\ Sweep >= 2 /\ Sweep = Len(Core) + 1
           /\ Length \in Nat /\ Length = Len(Outer) * Sweep /\ Length >= Sweep
           /\ Len(Outer) \in Nat \ {0} /\ Len(Core) \in Nat \ {0}
<1>1. Len(Outer) \in Nat \ {0} /\ Len(Core) \in Nat \ {0}
  BY DEF ScanConstants
<1>2. Sweep \in Nat /\ Sweep >= 2 /\ Sweep = Len(Core) + 1
  BY <1>1 DEF Sweep
<1> DEFINE n == Len(Outer)
<1>3. n * Sweep \in Nat /\ n * Sweep >= Sweep
  <2>1. n \in Nat /\ n >= 1
    BY <1>1
  <2> HIDE DEF n
  <2>2. Sweep * 1 <= Sweep * n
    BY <1>2, <2>1, TimesMonotone
  <2> QED BY <1>2, <2>1, <2>2
<1> QED BY <1>1, <1>2, <1>3 DEF Length

LEMMA PhaseAt ==
    ASSUME ScanConstants, NEW ph \in 0 .. Length - 1
    PROVE  \E q \in 0 .. Len(Outer) - 1, j \in 0 .. Len(Core) :
               ph = q * Sweep + j /\ ph % Sweep = j /\ ph \div Sweep = q
<1> DEFINE q == ph \div Sweep
           j == ph % Sweep
<1>1. Sweep \in Nat /\ Sweep >= 2 /\ Length \in Nat /\ ph \in Nat /\ ph < Length
  BY ScanLengths
<1>2. q \in Nat /\ j \in 0 .. Sweep - 1 /\ ph = q * Sweep + j
  BY <1>1
<1>3. j \in 0 .. Len(Core)
  BY <1>2, ScanLengths
<1>4. q < Len(Outer)
  <2> SUFFICES ASSUME q >= Len(Outer) PROVE FALSE
    BY <1>2, ScanLengths
  <2>1. Sweep * Len(Outer) <= Sweep * q
    BY <1>1, <1>2, ScanLengths, TimesMonotone
  <2>2. Length <= q * Sweep
    BY <1>1, <1>2, <2>1, ScanLengths
  <2> HIDE DEF q, j
  <2> QED BY <1>1, <1>2, <2>2
<1>5. q \in 0 .. Len(Outer) - 1
  BY <1>2, <1>4, ScanLengths
<1> QED BY <1>2, <1>3, <1>5

LEMMA RemainderIs ==
    ASSUME NEW q \in Nat, NEW m \in Nat, m > 0, NEW j \in 0 .. m - 1
    PROVE  (q * m + j) % m = j
<1> DEFINE a == q * m + j
           b == a \div m
           r == a % m
<1>1. a \in Nat /\ b \in Nat /\ r \in 0 .. m - 1 /\ a = b * m + r
  OBVIOUS
<1>2. q * m + j = b * m + r
  BY <1>1
<1> HIDE DEF b, r
<1>3. CASE q < b
  <2>1. m * (q + 1) <= m * b
    BY <1>1, <1>3, TimesMonotone
  <2>2. m * q + m <= m * b
    BY <2>1, TimesNext
  <2> QED BY <1>1, <1>2, <2>2
<1>4. CASE b < q
  <2>1. m * (b + 1) <= m * q
    BY <1>1, <1>4, TimesMonotone
  <2>2. m * b + m <= m * q
    BY <1>1, <2>1, TimesNext
  <2> QED BY <1>1, <1>2, <2>2
<1>5. CASE b = q
  <2>1. r = j
    BY <1>1, <1>2, <1>5
  <2> QED BY <2>1 DEF r
<1> QED BY <1>1, <1>3, <1>4, <1>5

LEMMA NextPhase ==
    ASSUME ScanConstants, NEW ph \in 0 .. Length - 1, NEW n, n = PhaseAfter(ph)
    PROVE  /\ n \in 0 .. Length - 1
           /\ IF ph + 1 < Length THEN n = ph + 1 ELSE n = 0
           /\ n % Sweep = IF ph % Sweep < Len(Core) THEN (ph % Sweep) + 1 ELSE 0
<1>1. /\ Sweep \in Nat /\ Sweep >= 2 /\ Sweep = Len(Core) + 1 /\ Length \in Nat
      /\ Length = Len(Outer) * Sweep /\ Length >= Sweep /\ Len(Outer) \in Nat \ {0}
  BY ScanLengths
<1>2. PICK q \in 0 .. Len(Outer) - 1, j \in 0 .. Len(Core) :
          ph = q * Sweep + j /\ ph % Sweep = j /\ ph \div Sweep = q
  BY PhaseAt
<1>3. n = IF ph + 1 < Length THEN ph + 1 ELSE 0
  <2>1. CASE ph + 1 < Length
    <3>1. (0 * Length + (ph + 1)) % Length = ph + 1
      BY <1>1, <2>1, RemainderIs
    <3> QED BY <1>1, <2>1, <3>1 DEF PhaseAfter
  <2>2. CASE ph + 1 = Length
    <3>1. (1 * Length + 0) % Length = 0
      BY <1>1, <2>2, RemainderIs
    <3> QED BY <1>1, <2>2, <3>1 DEF PhaseAfter
  <2> QED BY <1>1, <2>1, <2>2
<1>4. n \in 0 .. Length - 1
  BY <1>1, <1>3
<1>5. (0 * Sweep + 0) % Sweep = 0
  BY <1>1, RemainderIs
<1>6. 0 % Sweep = 0
  BY <1>1, <1>5
<1>7. CASE j < Len(Core)
  <2>1. (q * Sweep + (j + 1)) % Sweep = j + 1
    BY <1>1, <1>7, RemainderIs, SMTT(30)
  <2>2. q * Sweep \in Nat /\ ph + 1 = q * Sweep + (j + 1)
    BY <1>1, <1>2
  <2>3. ph + 1 < Length
    <3>1. Sweep * (q + 1) <= Sweep * Len(Outer)
      BY <1>1, TimesMonotone
    <3>2. Sweep * q + Sweep <= Sweep * Len(Outer)
      BY <1>1, <3>1, TimesNext
    <3>3. q * Sweep + Sweep <= Length
      BY <1>1, <3>2
    <3> QED BY <1>1, <1>7, <2>2, <3>3
  <2> QED BY <1>2, <1>3, <1>4, <1>7, <2>1, <2>2, <2>3
<1>8. CASE j = Len(Core)
  <2>1. ph + 1 = (q + 1) * Sweep + 0 /\ q + 1 \in Nat
    BY <1>1, <1>2, <1>8, TimesNext
  <2>2. (ph + 1) % Sweep = 0
    <3>1. ((q + 1) * Sweep + 0) % Sweep = 0
      <4>1. 0 \in 0 .. Sweep - 1 /\ Sweep > 0
        BY <1>1
      <4> HIDE DEF Sweep
      <4> QED BY <1>1, <2>1, <4>1, RemainderIs
    <3> QED BY <2>1, <3>1
  <2> QED BY <1>2, <1>3, <1>4, <1>6, <1>8, <2>2
<1> QED BY <1>7, <1>8

(* Every channel has its place in the scan.                                           *)
LEMMA ChannelIs ==
    ASSUME ScanConstants, NEW ph \in 0 .. Length - 1
    PROVE  /\ ChannelAt(ph) \in Channels
           /\ \A i \in DOMAIN Core : ChannelAt(ph) = Core[i] <=> ph % Sweep = i
           /\ \A i \in DOMAIN Outer : ChannelAt(ph) = Outer[i] <=> ph = (i - 1) * Sweep
<1>1. /\ Sweep \in Nat /\ Sweep >= 2 /\ Sweep = Len(Core) + 1 /\ Length \in Nat
      /\ Len(Outer) \in Nat \ {0} /\ Len(Core) \in Nat \ {0}
  BY ScanLengths
<1>2. DOMAIN Core = 1 .. Len(Core) /\ DOMAIN Outer = 1 .. Len(Outer)
  BY DEF ScanConstants
<1>3. PICK q \in 0 .. Len(Outer) - 1, j \in 0 .. Len(Core) :
          ph = q * Sweep + j /\ ph % Sweep = j /\ ph \div Sweep = q
  BY PhaseAt
<1>4. ChannelAt(ph) = IF j = 0 THEN Outer[q + 1] ELSE Core[j]
  BY <1>3 DEF ChannelAt
<1>5. q + 1 \in DOMAIN Outer /\ (j # 0 => j \in DOMAIN Core)
  BY <1>1, <1>2
<1>6. ChannelAt(ph) \in Channels
  BY <1>4, <1>5 DEF Channels
<1>7. ASSUME NEW i \in DOMAIN Core PROVE ChannelAt(ph) = Core[i] <=> ph % Sweep = i
  <2>1. i # 0 /\ (j = 0 => ChannelAt(ph) # Core[i])
    BY <1>2, <1>4, <1>5 DEF ScanConstants
  <2>2. j # 0 => (Core[j] = Core[i] <=> j = i)
    BY <1>5 DEF ScanConstants, OnePlaceEach
  <2> QED BY <1>3, <1>4, <2>1, <2>2
<1>8. ASSUME NEW i \in DOMAIN Outer PROVE ChannelAt(ph) = Outer[i] <=> ph = (i - 1) * Sweep
  <2>0. i - 1 \in Nat
    BY <1>2
  <2>1. j # 0 => ChannelAt(ph) # Outer[i]
    BY <1>4, <1>5 DEF ScanConstants
  <2>2. Outer[q + 1] = Outer[i] <=> q + 1 = i
    BY <1>5 DEF ScanConstants, OnePlaceEach
  <2>3. ph = (i - 1) * Sweep => j = 0 /\ q = i - 1
    <3> DEFINE h == i - 1
    <3> SUFFICES ASSUME ph = h * Sweep PROVE j = 0 /\ q = h
      OBVIOUS
    <3>0. h \in Nat /\ q \in Nat /\ 0 \in 0 .. Sweep - 1 /\ Sweep > 0 /\ Sweep \in Nat
      BY <1>1, <2>0
    <3> HIDE DEF h
    <3>1. (h * Sweep + 0) % Sweep = 0
      BY <3>0, RemainderIs
    <3>2. j = 0
      BY <1>3, <3>0, <3>1
    <3>3. Sweep * q = Sweep * h /\ Sweep * q \in Nat
      BY <1>3, <3>0, <3>2
    <3>4. CASE q < h
      <4>1. Sweep * (q + 1) <= Sweep * h
        BY <3>0, <3>4, TimesMonotone
      <4> QED BY <3>0, <3>3, <4>1, TimesNext
    <3>5. CASE q > h
      <4>1. Sweep * (h + 1) <= Sweep * q
        BY <3>0, <3>5, TimesMonotone
      <4> QED BY <3>0, <3>3, <4>1, TimesNext
    <3> QED BY <3>0, <3>2, <3>4, <3>5
  <2>4. CASE ph = (i - 1) * Sweep
    BY <1>4, <2>0, <2>2, <2>3, <2>4
  <2>5. CASE ph # (i - 1) * Sweep
    <3>1. j = 0 => q # i - 1
      BY <1>1, <1>3, <2>5
    <3> QED BY <1>4, <2>0, <2>1, <2>2, <2>5, <3>1
  <2> QED BY <2>4, <2>5
<1> QED BY <1>6, <1>7, <1>8

LEMMA SinceOuterIs ==
    ASSUME ScanConstants, NEW ph \in 0 .. Length - 1, NEW i \in DOMAIN Outer
    PROVE  /\ SinceOuter(i, PhaseAfter(ph)) \in 0 .. Length - 1
           /\ SinceOuter(i, PhaseAfter(ph)) = IF ph = (i - 1) * Sweep THEN 0
                                              ELSE SinceOuter(i, ph) + 1
<1>1. /\ Sweep \in Nat /\ Sweep >= 2 /\ Length \in Nat /\ Len(Outer) \in Nat \ {0}
      /\ Length = Len(Outer) * Sweep
  BY ScanLengths
<1>2. i - 1 \in Nat /\ i - 1 < Len(Outer)
  BY DEF ScanConstants
<1> DEFINE p == (i - 1) * Sweep
           n == PhaseAfter(ph)
<1>3. p \in Nat /\ p + Sweep <= Length
  <2>1. Sweep * ((i - 1) + 1) <= Sweep * Len(Outer)
    BY <1>1, <1>2, TimesMonotone
  <2>2. Sweep * ((i - 1) + 1) = Sweep * (i - 1) + Sweep
    BY <1>1, <1>2, TimesNext
  <2> QED BY <1>1, <1>2, <2>1, <2>2
<1>4. n \in 0 .. Length - 1 /\ IF ph + 1 < Length THEN n = ph + 1 ELSE n = 0
  BY NextPhase
<1>5. /\ SinceOuter(i, n) = IF n > p THEN n - 1 - p ELSE n - 1 - p + Length
      /\ SinceOuter(i, ph) = IF ph > p THEN ph - 1 - p ELSE ph - 1 - p + Length
  BY DEF SinceOuter
<1> HIDE DEF p, n
<1>6. /\ SinceOuter(i, n) \in 0 .. Length - 1
      /\ SinceOuter(i, n) = IF ph = p THEN 0 ELSE SinceOuter(i, ph) + 1
  BY <1>1, <1>3, <1>4, <1>5
<1> QED BY <1>6 DEF p, n

(* What the driver does with the converter.                                           *)
LEMMA NoConversionIs ==
    ASSUME ScanConstants
    PROVE  /\ NoConversion \in Conversions
           /\ \A k \in Conversions : k # NoConversion =>
                  k.channel \in Channels /\ k.next \in Channels /\ k.sample = SampleOf(k.channel)
BY DEF Conversions, Conversion

LEMMA PreparedOK ==
    ASSUME ScanConstants, NEW a, AdcOK(a), NEW c \in Channels, NEW b, b = PrepareChannel(a, c)
    PROVE  /\ AdcOK(b) /\ b.mux = c /\ b.conversion = a.conversion /\ b.result = a.result
           /\ b.settled => a.mux = c /\ b = a
<1> DEFINE s == IF a.mux = c THEN a.settled ELSE FALSE
           d == [a EXCEPT !.mux = c]
<1>1. b = [d EXCEPT !.settled = s] /\ s \in BOOLEAN
  BY DEF PrepareChannel, AdcOK
<1>2. s => a.mux = c /\ a.settled = TRUE
  BY DEF AdcOK
<1> HIDE DEF s
<1>3. AdcOK(d) /\ d.mux = c /\ d.conversion = a.conversion /\ d.result = a.result
  BY DEF AdcOK
<1>4. a.mux = c => d = a
  BY DEF AdcOK
<1> HIDE DEF d
<1>5. AdcOK(b) /\ b.mux = c /\ b.conversion = a.conversion /\ b.result = a.result /\ b.settled = s
  BY <1>1, <1>3 DEF AdcOK
<1>6. b.settled => a.mux = c /\ b = a
  <2> SUFFICES ASSUME b.settled PROVE a.mux = c /\ b = a
    OBVIOUS
  <2>1. a.mux = c /\ a.settled = TRUE /\ s = TRUE
    BY <1>1, <1>2, <1>5
  <2>2. b = [a EXCEPT !.settled = TRUE]
    BY <1>1, <1>4, <2>1
  <2> QED BY <2>1, <2>2 DEF AdcOK
<1> QED BY <1>5, <1>6

LEMMA CompletedOK ==
    ASSUME ScanConstants, NEW a, AdcOK(a), a.conversion # NoConversion PROVE AdcOK(Completed(a))
<1> DEFINE d == [a EXCEPT !.mux = a.conversion.next]
           e == [d EXCEPT !.settled = FALSE]
           g == [e EXCEPT !.conversion = NoConversion]
<1>1. Completed(a) = [g EXCEPT !.result = a.conversion]
  BY DEF Completed
<1>2. a.conversion \in Conversions /\ a.conversion.next \in Channels /\ NoConversion \in Conversions
  BY NoConversionIs DEF AdcOK
<1> DEFINE Adcs == [mux : Channels, settled : BOOLEAN, conversion : Conversions,
                    result : Conversions]
<1>3. d \in Adcs
  BY <1>2 DEF AdcOK
<1> HIDE DEF d
<1>4. e \in Adcs
  BY <1>3
<1> HIDE DEF e
<1>5. g \in Adcs /\ g.conversion = NoConversion
  BY <1>2, <1>4
<1> HIDE DEF g
<1> QED BY <1>1, <1>2, <1>5 DEF AdcOK

LEMMA AbortedOK ==
    ASSUME ScanConstants, NEW a, AdcOK(a)
    PROVE  /\ AdcOK(ConversionAborted(a))
           /\ AdcOK([a EXCEPT !.result = NoConversion])
           /\ AdcOK([ConversionAborted(a) EXCEPT !.result = NoConversion])
<1>1. NoConversion \in Conversions
  BY NoConversionIs
<1>2. \A b : AdcOK(b) => AdcOK([b EXCEPT !.result = NoConversion])
  BY <1>1 DEF AdcOK
<1>3. AdcOK([a EXCEPT !.conversion = NoConversion])
  BY <1>1 DEF AdcOK
<1> QED BY <1>2, <1>3 DEF ConversionAborted

LEMMA StartedOK ==
    ASSUME ScanConstants, NEW a, AdcOK(a), NEW c \in Channels, NEW n \in Channels
    PROVE  AdcOK(Start(a, c, n))
<1>1. CASE a.conversion # NoConversion \/ a.result # NoConversion
  BY <1>1 DEF Start
<1>2. CASE a.conversion = NoConversion /\ a.result = NoConversion
  <2> DEFINE b == PrepareChannel(a, c)
  <2>1. AdcOK(b) /\ (b.settled => a.mux = c)
    BY PreparedOK
  <2>2. CASE ~b.settled
    BY <1>2, <2>1, <2>2 DEF Start
  <2>3. CASE b.settled
    <3>1. a.mux = c
      BY <2>1, <2>3
    <3> DEFINE k == Conversion(c, n)
    <3>2. Start(a, c, n) = [a EXCEPT !.conversion = k]
      BY <1>2, <2>3, <3>1 DEF Start, Conversion, SampleOf
    <3>3. k \in Conversions
      BY DEF Conversions
    <3> HIDE DEF k
    <3> QED BY <1>2, <3>2, <3>3 DEF AdcOK
  <2> QED BY <2>2, <2>3
<1> QED BY <1>1, <1>2

LEMMA BlockingOK ==
    ASSUME ScanConstants, NEW a, AdcOK(a), NEW c \in Channels PROVE AdcOK(BlockingRead(a, c))
<1> DEFINE b == PrepareChannel(a, c)
           d == [b EXCEPT !.settled = TRUE]
<1>1. AdcOK(b)
  BY PreparedOK
<1> HIDE DEF b
<1>2. AdcOK(d) /\ a.mux \in Channels
  BY <1>1 DEF AdcOK
<1> HIDE DEF d
<1>3. AdcOK(PrepareChannel(d, a.mux))
  BY <1>2, PreparedOK
<1> QED BY <1>3 DEF BlockingRead, b, d

(* One more sample: the others grow older.                                            *)
LEMMA TakenIs ==
    ASSUME ScanConstants, working \in [Channels -> Samples], NEW c \in Channels, NEW s, s = SampleOf(c),
           NEW w, w = WithSample(c, s)
    PROVE  /\ w \in [Channels -> Samples] /\ w[c] = s
           /\ \A d \in Channels \ {c} :
                 /\ w[d].of = working[d].of /\ w[d].settled = working[d].settled
                 /\ w[d].before = working[d].before
                 /\ working[d].age \in 0 .. Length /\ w[d].age = Older(working[d].age)
<1>0. Length \in Nat /\ 0 \in 0 .. Length
  BY ScanLengths
<1>1. s \in Samples
  BY <1>0 DEF SampleOf, Samples
<1>2. ASSUME NEW d \in Channels
      PROVE  LET o == [working[d] EXCEPT !.age = Older(@)]
             IN  /\ o \in Samples /\ o.of = working[d].of /\ o.settled = working[d].settled
                 /\ o.before = working[d].before
                 /\ working[d].age \in 0 .. Length /\ o.age = Older(working[d].age)
  <2>1. working[d] \in Samples
    OBVIOUS
  <2>2. working[d].age \in 0 .. Length /\ Older(working[d].age) \in 0 .. Length
    BY <1>0, <2>1 DEF Samples, Older
  <2> DEFINE n == Older(working[d].age)
             u == working[d]
  <2> HIDE DEF n, u
  <2>3. [u EXCEPT !.age = n] \in Samples /\ [u EXCEPT !.age = n].of = u.of
        /\ [u EXCEPT !.age = n].settled = u.settled /\ [u EXCEPT !.age = n].before = u.before
        /\ [u EXCEPT !.age = n].age = n
    BY <2>1, <2>2 DEF Samples, n, u
  <2> QED BY <2>2, <2>3 DEF n, u
<1>3. w = [d \in Channels |-> IF d = c THEN s ELSE [working[d] EXCEPT !.age = Older(@)]]
  BY DEF WithSample
<1>4. w \in [Channels -> Samples]
  BY <1>1, <1>2, <1>3
<1> QED BY <1>2, <1>3, <1>4

LEMMA ZeroPhase ==
    ASSUME ScanConstants
    PROVE  /\ 0 \in 0 .. Length - 1 /\ 0 % Sweep = 0
           /\ \A w : CoreAges(w, 0) /\ OuterAges(w, {}, 0) /\ SampledTrue(w, {})
<1>1. Sweep \in Nat /\ Sweep > 0 /\ 0 \in 0 .. Sweep - 1 /\ 0 \in 0 .. Length - 1
      /\ DOMAIN Core = 1 .. Len(Core)
  BY ScanLengths DEF ScanConstants
<1>2. (0 * Sweep + 0) % Sweep = 0
  BY <1>1, RemainderIs
<1>3. 0 % Sweep = 0
  BY <1>1, <1>2
<1> QED BY <1>1, <1>3 DEF CoreAges, OuterAges, SampledTrue

LEMMA ScanStarts == ScanConstants /\ ScanInit => ScanInv
<1> SUFFICES ASSUME ScanConstants, ScanInit PROVE ScanInv
  OBVIOUS
<1>1. ChannelAt(0) \in Channels /\ NoConversion \in Conversions
  BY ZeroPhase, ChannelIs, NoConversionIs
<1>2. AdcOK(adc)
  BY <1>1 DEF ScanInit, AdcOK
<1>3. NoSample \in Samples
  BY ScanLengths DEF NoSample, Samples
<1>4. working \in [Channels -> Samples]
  BY <1>3 DEF ScanInit
<1>5. scan \in [phase : 0 .. Length - 1, initialized : SUBSET Channels, fresh : SUBSET Channels]
  BY ZeroPhase DEF ScanInit
<1>6. SampledTrue(working, scan.initialized)
      /\ CoreAges(working, scan.phase) /\ OuterAges(working, scan.initialized, scan.phase)
  BY ZeroPhase DEF ScanInit
<1>7. scan.fresh \subseteq scan.initialized /\ valid = FALSE
  BY DEF ScanInit
<1> QED BY <1>2, <1>4, <1>5, <1>6, <1>7 DEF ScanInv, FrameTrue, FrameCoherent

LEMMA FailedKeeps == ASSUME ScanConstants, ScanInv, MarkFailure PROVE ScanInv'
<1>1. AdcOK(adc')
  <2>1. AdcOK(ConversionAborted(adc)) /\ ChannelAt(0) \in Channels
    BY AbortedOK, ZeroPhase, ChannelIs DEF ScanInv
  <2> QED BY <2>1, PreparedOK DEF MarkFailure
<1>2. scan' = [phase |-> 0, initialized |-> {}, fresh |-> {}] /\ valid' = FALSE
  BY DEF MarkFailure
<1>3. scan' \in [phase : 0 .. Length - 1, initialized : SUBSET Channels, fresh : SUBSET Channels]
      /\ scan'.phase = 0 /\ scan'.initialized = {} /\ scan'.fresh = {}
  BY <1>2, ZeroPhase
<1>4. working' \in [Channels -> Samples]
  <2>1. ASSUME NEW c \in Channels PROVE [working[c] EXCEPT !.before = TRUE] \in Samples
    <3>1. working[c] \in Samples
      BY DEF ScanInv
    <3> QED BY <3>1 DEF Samples
  <2> QED BY <2>1 DEF MarkFailure
<1>5. SampledTrue(working', scan'.initialized)
      /\ CoreAges(working', scan'.phase) /\ OuterAges(working', scan'.initialized, scan'.phase)
  BY <1>3, ZeroPhase
<1> QED BY <1>1, <1>2, <1>3, <1>4, <1>5 DEF ScanInv, FrameTrue, FrameCoherent

(* A result of the channel the scan waits for: the sample is entered, and with the     *)
(* last core channel the frame is complete.                                            *)
LEMMA TakenKeeps ==
    ASSUME ScanConstants, ScanInv, TakeResult, adc.result.channel = ChannelAt(scan.phase)
    PROVE  ScanInv'
<1> DEFINE c == adc.result.channel
           ph == scan.phase
           known == scan.initialized \cup {c}
           news == scan.fresh \cup {c}
           n == PhaseAfter(ph)
           w == WithSample(c, adc.result.sample)
           full == Complete(c, known)
<1>0. /\ ph \in 0 .. Length - 1 /\ working \in [Channels -> Samples] /\ AdcOK(adc)
      /\ scan.initialized \in SUBSET Channels /\ scan.fresh \in SUBSET Channels
      /\ scan.fresh \subseteq scan.initialized
  BY DEF ScanInv
<1>1. /\ working' = w
      /\ scan' = [phase |-> n, initialized |-> known, fresh |-> IF full THEN {} ELSE news]
      /\ adc' = Start([adc EXCEPT !.result = NoConversion], ChannelAt(n), ChannelAt(PhaseAfter(n)))
      /\ frame' = IF full THEN [raw |-> w, fresh |-> news] ELSE frame
      /\ valid' = (full \/ valid)
  BY DEF TakeResult
<1>2. c \in Channels /\ c = ChannelAt(ph) /\ adc.result.sample = SampleOf(c)
  BY <1>0, NoConversionIs DEF TakeResult, AdcOK
<1>3. /\ w \in [Channels -> Samples] /\ w[c] = SampleOf(c)
      /\ \A d \in Channels \ {c} :
            /\ w[d].of = working[d].of /\ w[d].settled = working[d].settled
            /\ w[d].before = working[d].before
            /\ working[d].age \in 0 .. Length /\ w[d].age = Older(working[d].age)
  BY <1>0, <1>2, TakenIs
<1>4. /\ n \in 0 .. Length - 1
      /\ IF ph + 1 < Length THEN n = ph + 1 ELSE n = 0
      /\ n % Sweep = IF ph % Sweep < Len(Core) THEN (ph % Sweep) + 1 ELSE 0
  BY <1>0, NextPhase
<1>5. /\ \A i \in DOMAIN Core : c = Core[i] <=> ph % Sweep = i
      /\ \A i \in DOMAIN Outer : c = Outer[i] <=> ph = (i - 1) * Sweep
  BY <1>0, <1>2, ChannelIs
<1>6. AdcOK(adc')
  <2>1. AdcOK([adc EXCEPT !.result = NoConversion])
    BY <1>0, AbortedOK
  <2>2. ChannelAt(n) \in Channels /\ PhaseAfter(n) \in 0 .. Length - 1
    BY <1>4, ChannelIs, NextPhase
  <2>3. ChannelAt(PhaseAfter(n)) \in Channels
    BY <2>2, ChannelIs
  <2> QED BY <1>1, <2>1, <2>2, <2>3, StartedOK
<1>7. known \in SUBSET Channels /\ news \subseteq known
  BY <1>0, <1>2
<1>8. /\ Sweep \in Nat /\ Sweep >= 2 /\ Sweep = Len(Core) + 1 /\ Length \in Nat /\ Length >= Sweep
      /\ Len(Core) \in Nat \ {0} /\ DOMAIN Core = 1 .. Len(Core)
      /\ ph % Sweep \in 0 .. Len(Core)
  <2>1. Sweep \in Nat /\ Sweep >= 2 /\ Sweep = Len(Core) + 1 /\ Length \in Nat /\ Length >= Sweep
        /\ Len(Core) \in Nat \ {0} /\ DOMAIN Core = 1 .. Len(Core)
    BY ScanLengths DEF ScanConstants
  <2>2. ph % Sweep \in 0 .. Len(Core)
    BY <1>0, PhaseAt
  <2> QED BY <2>1, <2>2
<1> HIDE DEF c, ph, known, news, n, w, full
<1>9. SampledTrue(w, known)
  <2> SUFFICES ASSUME NEW d \in known PROVE w[d].of = d /\ w[d].settled /\ ~w[d].before
    BY DEF SampledTrue
  <2>1. CASE d = c
    BY <1>3, <2>1 DEF SampleOf
  <2>2. CASE d # c
    <3>1. d \in scan.initialized /\ d \in Channels \ {c}
      BY <1>0, <2>2 DEF known
    <3> QED BY <1>3, <3>1 DEF ScanInv, SampledTrue
  <2> QED BY <2>1, <2>2
<1>10. \A i \in DOMAIN Core : Core[i] \in Channels
  BY DEF Channels
<1>11. \A i \in DOMAIN Core :
           i <= ph % Sweep => w[Core[i]].age = (ph % Sweep) - i
  <2> SUFFICES ASSUME NEW i \in DOMAIN Core, i <= ph % Sweep
               PROVE  w[Core[i]].age = (ph % Sweep) - i
    OBVIOUS
  <2>1. CASE i = ph % Sweep
    <3>1. Core[i] = c
      BY <1>5, <2>1
    <3>2. w[Core[i]].age = 0
      BY <1>3, <3>1 DEF SampleOf
    <3> QED BY <1>8, <2>1, <3>2
  <2>2. CASE i < ph % Sweep
    <3>1. Core[i] # c /\ Core[i] \in Channels
      BY <1>5, <1>8, <1>10, <2>2
    <3>2. working[Core[i]].age = (ph % Sweep) - 1 - i
      BY <2>2 DEF ScanInv, CoreAges, ph
    <3>3. w[Core[i]].age = Older((ph % Sweep) - 1 - i)
      BY <1>3, <3>1, <3>2
    <3> QED BY <1>8, <2>2, <3>3 DEF Older
  <2> QED BY <1>8, <2>1, <2>2
<1>12. CoreAges(w, n)
  BY <1>4, <1>8, <1>11 DEF CoreAges
<1>13. \A i \in DOMAIN Outer : Outer[i] \in known =>
           w[Outer[i]].age <= SinceOuter(i, n) /\ w[Outer[i]].age < Length
  <2> SUFFICES ASSUME NEW i \in DOMAIN Outer, Outer[i] \in known
               PROVE  w[Outer[i]].age <= SinceOuter(i, n) /\ w[Outer[i]].age < Length
    OBVIOUS
  <2>0. /\ SinceOuter(i, n) \in 0 .. Length - 1
        /\ SinceOuter(i, n) = IF ph = (i - 1) * Sweep THEN 0 ELSE SinceOuter(i, ph) + 1
    BY <1>0, SinceOuterIs DEF n, ph
  <2>1. CASE Outer[i] = c
    <3>1. w[Outer[i]].age = 0
      BY <1>3, <2>1 DEF SampleOf
    <3> QED BY <1>8, <2>0, <3>1
  <2>2. CASE Outer[i] # c
    <3>1. Outer[i] \in scan.initialized /\ Outer[i] \in Channels \ {c}
      BY <1>0, <2>2 DEF known
    <3>2. working[Outer[i]].age <= SinceOuter(i, ph)
      BY <3>1 DEF ScanInv, OuterAges, ph
    <3>3. w[Outer[i]].age = Older(working[Outer[i]].age) /\ working[Outer[i]].age \in 0 .. Length
      BY <1>3, <3>1
    <3>4. SinceOuter(i, n) = SinceOuter(i, ph) + 1
      BY <1>5, <2>0, <2>2
    <3>5. w[Outer[i]].age <= working[Outer[i]].age + 1 /\ w[Outer[i]].age \in Nat
      BY <1>8, <3>3 DEF Older
    <3>6. SinceOuter(i, ph) \in Int
      BY <1>8, <2>0, <1>0 DEF SinceOuter, ScanConstants, ph
    <3> QED BY <1>8, <2>0, <3>2, <3>3, <3>4, <3>5, <3>6
  <2> QED BY <2>1, <2>2
<1>14. OuterAges(w, known, n)
  BY <1>13 DEF OuterAges
<1>15. full => /\ known = Channels /\ ph % Sweep = Len(Core)
  <2>1. Len(Core) \in DOMAIN Core
    BY <1>8
  <2> QED BY <1>5, <2>1 DEF full, Complete
<1>16. FrameTrue' /\ FrameCoherent'
  <2>1. CASE full
    <3>1. frame'.raw = w /\ known = Channels /\ ph % Sweep = Len(Core)
      BY <1>1, <1>15, <2>1
    <3>2. FrameTrue'
      BY <1>9, <3>1 DEF FrameTrue, SampledTrue
    <3>3. \A i \in DOMAIN Core : w[Core[i]].age = Len(Core) - i
      BY <1>8, <1>11, <3>1
    <3>4. \A i \in DOMAIN Outer : w[Outer[i]].age < Length
      BY <1>13, <3>1 DEF Channels
    <3> QED BY <3>1, <3>2, <3>3, <3>4 DEF FrameCoherent
  <2>2. CASE ~full
    <3>1. frame' = frame /\ valid' = valid
      <4>1. full \in BOOLEAN /\ valid \in BOOLEAN
        BY DEF ScanInv, full, Complete
      <4> QED BY <1>1, <2>2, <4>1
    <3> QED BY <3>1 DEF ScanInv, FrameTrue, FrameCoherent
  <2> QED BY <2>1, <2>2
<1>17. /\ scan' \in [phase : 0 .. Length - 1, initialized : SUBSET Channels, fresh : SUBSET Channels]
       /\ scan'.phase = n /\ scan'.initialized = known /\ scan'.fresh \subseteq known
  <2> DEFINE fr == IF full THEN {} ELSE news
  <2>1. fr \in SUBSET Channels /\ fr \subseteq known
    BY <1>7
  <2>2. scan' = [phase |-> n, initialized |-> known, fresh |-> fr]
    BY <1>1
  <2> HIDE DEF fr
  <2> QED BY <1>4, <1>7, <2>1, <2>2
<1>18. valid' \in BOOLEAN
  BY <1>1 DEF ScanInv, full, Complete
<1> QED BY <1>1, <1>3, <1>6, <1>9, <1>12, <1>14, <1>16, <1>17, <1>18 DEF ScanInv

LEMMA ReadKeeps ==
    ASSUME ScanConstants, ScanInv, AdcOK(adc'), UNCHANGED << scan, working, frame, valid >>
    PROVE  ScanInv'
BY DEF ScanInv, FrameTrue, FrameCoherent

LEMMA ScanKeeps == ASSUME ScanConstants, ScanInv, [ScanNext]_scanVars PROVE ScanInv'
<1>1. AdcOK(adc)
  BY DEF ScanInv
<1>2. CASE Settle
  <2>1. AdcOK(adc')
    BY <1>1, <1>2 DEF Settle, AdcOK
  <2> QED BY <1>2, <2>1, ReadKeeps DEF Settle
<1>3. CASE Interrupt
  <2>1. AdcOK(adc')
    BY <1>1, <1>3, CompletedOK DEF Interrupt
  <2> QED BY <1>3, <2>1, ReadKeeps DEF Interrupt
<1>4. CASE Update
  <2>1. CASE TakeResult
    <3>1. adc.result.channel # ChannelAt(scan.phase) => MarkFailure
      BY <2>1 DEF TakeResult
    <3> QED BY <2>1, <3>1, FailedKeeps, TakenKeeps
  <2>2. CASE /\ adc' = Start(adc, ChannelAt(scan.phase), ChannelAt(PhaseAfter(scan.phase)))
             /\ UNCHANGED << scan, working, frame, valid, errors, reads >>
    <3>1. scan.phase \in 0 .. Length - 1
      BY DEF ScanInv
    <3>2. PhaseAfter(scan.phase) \in 0 .. Length - 1
      BY <3>1, NextPhase
    <3>3. ChannelAt(scan.phase) \in Channels /\ ChannelAt(PhaseAfter(scan.phase)) \in Channels
      BY <3>1, <3>2, ChannelIs
    <3>4. AdcOK(adc')
      BY <1>1, <2>2, <3>3, StartedOK
    <3> QED BY <2>2, <3>4, ReadKeeps
  <2>3. CASE MarkFailure
    BY <2>3, FailedKeeps
  <2> QED BY <1>4, <2>1, <2>2, <2>3 DEF Update
<1>5. CASE ShellRead
  <2>1. AdcOK(adc')
    <3>1. CASE \E c \in Channels :
                   adc' = BlockingRead(IF adc.conversion = NoConversion THEN adc ELSE Completed(adc),
                                       c)
      <4> DEFINE a == IF adc.conversion = NoConversion THEN adc ELSE Completed(adc)
      <4>1. AdcOK(a)
        BY <1>1, CompletedOK
      <4> HIDE DEF a
      <4>2. \E c \in Channels : adc' = BlockingRead(a, c)
        BY <3>1 DEF a
      <4> QED BY <4>1, <4>2, BlockingOK
    <3>2. CASE adc' = [ConversionAborted(adc) EXCEPT !.result = NoConversion]
      BY <1>1, <3>2, AbortedOK
    <3> QED BY <1>5, <3>1, <3>2 DEF ShellRead
  <2> QED BY <1>5, <2>1, ReadKeeps DEF ShellRead
<1>6. CASE UNCHANGED scanVars
  BY <1>1, <1>6, ReadKeeps DEF scanVars
<1> QED BY <1>2, <1>3, <1>4, <1>5, <1>6 DEF ScanNext

LEMMA ScanInvariant == ASSUME ScanConstants PROVE ScanSpec => []ScanInv
<1>1. ScanInit => ScanInv
  BY ScanStarts
<1>2. ScanInv /\ [ScanNext]_scanVars => ScanInv'
  BY ScanKeeps
<1> QED BY <1>1, <1>2, PTL DEF ScanSpec

(* The converter, the scan and its masks keep their types (grayscale.cpp).            *)
THEOREM ScanTypes == ASSUME ScanConstants PROVE ScanSpec => []ScanTypeOK
<1>1. ScanInv => ScanTypeOK
  BY DEF ScanInv, ScanTypeOK, AdcOK
<1> QED BY <1>1, ScanInvariant, PTL

(* The display: what the timer can be, and what can be on the screen.                 *)
TimerStates ==
    [visible : BOOLEAN, running : BOOLEAN, saturated : BOOLEAN, accumulated : 0 .. LongestTime,
     since : 0 .. LongestTime, rendered : -1 .. LongestTime, preempted : BOOLEAN]
TimerOK(t) == t \in TimerStates /\ (t.running => t.visible /\ ~t.saturated)

Drawings == {Drawn(b) : b \in {"blank", "timer", "fault", "text"} \cup Monitors}
ScreenOK(s) == IF s.by = "comp" THEN s.page \in Pages ELSE s \in Drawings

DisplayInv ==
    /\ mode \in Racing \cup {"debug", "fault"} /\ selected \in Selections
    /\ ScreenOK(screen) /\ (cached = NoPage \/ cached \in Pages) /\ waited \in 0 .. Refresh
    /\ TimerOK(timer)
    /\ watching = {} \/ \E m \in Monitors : watching = {m}
    /\ mode \in Racing => watching = {}

LEMMA DrawnOK ==
    ASSUME DisplayConstants, NEW b \in {"blank", "timer", "fault", "text"} \cup Monitors
    PROVE  ScreenOK(Drawn(b))
<1>1. Drawn(b).by = b /\ b # "comp"
  BY DEF Drawn, DisplayConstants
<1>2. Drawn(b) \in Drawings
  BY DEF Drawings
<1> QED BY <1>1, <1>2 DEF ScreenOK

LEMMA ElapsedIs ==
    ASSUME DisplayConstants, NEW t \in TimerStates PROVE Elapsed(t) \in 0 .. LongestTime
BY DEF DisplayConstants, TimerStates, Elapsed

LEMMA CountedIs ==
    ASSUME DisplayConstants, NEW t, TimerOK(t)
    PROVE  TimerOK(Counted(t)) /\ Counted(t).visible = t.visible
<1>1. LongestTime \in 0 .. LongestTime /\ t \in TimerStates
  BY DEF DisplayConstants, TimerOK
<1>2. CASE Elapsed(t) >= LongestTime
  <2> DEFINE a == [t EXCEPT !.accumulated = LongestTime]
             b == [a EXCEPT !.running = FALSE]
  <2>1. Counted(t) = [b EXCEPT !.saturated = TRUE]
    BY <1>2 DEF Counted
  <2>2. a \in TimerStates /\ a.visible = t.visible
    BY <1>1 DEF TimerStates
  <2> HIDE DEF a
  <2>3. b \in TimerStates /\ b.visible = t.visible /\ b.running = FALSE
    BY <2>2 DEF TimerStates
  <2> HIDE DEF b
  <2>4. Counted(t) \in TimerStates /\ Counted(t).visible = t.visible /\ Counted(t).running = FALSE
    BY <2>1, <2>3 DEF TimerStates
  <2> QED BY <2>4 DEF TimerOK
<1>3. CASE ~(Elapsed(t) >= LongestTime)
  BY <1>3 DEF Counted
<1> QED BY <1>2, <1>3

LEMMA TimerFieldsOK ==
    ASSUME DisplayConstants, NEW t, TimerOK(t)
    PROVE  /\ \A x \in BOOLEAN : TimerOK([t EXCEPT !.preempted = x])
           /\ \A x \in -1 .. LongestTime : TimerOK([t EXCEPT !.rendered = x])
           /\ \A x \in 0 .. LongestTime : TimerOK([t EXCEPT !.since = x])
           /\ \A x \in 0 .. LongestTime : TimerOK([t EXCEPT !.accumulated = x])
           /\ TimerOK([t EXCEPT !.running = FALSE])
           /\ TimerOK([t EXCEPT !.saturated = FALSE])
           /\ t.visible /\ ~t.saturated => TimerOK([t EXCEPT !.running = TRUE])
           /\ ~t.running => TimerOK([t EXCEPT !.visible = FALSE])
<1>1. \A x \in BOOLEAN : TimerOK([t EXCEPT !.preempted = x])
  BY DEF TimerOK, TimerStates
<1>2. \A x \in -1 .. LongestTime : TimerOK([t EXCEPT !.rendered = x])
  BY DEF TimerOK, TimerStates
<1>3. \A x \in 0 .. LongestTime : TimerOK([t EXCEPT !.since = x])
  BY DEF TimerOK, TimerStates
<1>4. \A x \in 0 .. LongestTime : TimerOK([t EXCEPT !.accumulated = x])
  BY DEF TimerOK, TimerStates
<1>5. TimerOK([t EXCEPT !.running = FALSE]) /\ TimerOK([t EXCEPT !.saturated = FALSE])
  BY DEF TimerOK, TimerStates
<1>6. t.visible /\ ~t.saturated => TimerOK([t EXCEPT !.running = TRUE])
  BY DEF TimerOK, TimerStates
<1>7. ~t.running => TimerOK([t EXCEPT !.visible = FALSE])
  BY DEF TimerOK, TimerStates
<1> QED BY <1>1, <1>2, <1>3, <1>4, <1>5, <1>6, <1>7

LEMMA TimerUpdatedOK ==
    ASSUME DisplayConstants, NEW t, TimerOK(t), NEW s, ScreenOK(s)
    PROVE  TimerOK(TimerUpdated(t, s)[1]) /\ ScreenOK(TimerUpdated(t, s)[2])
<1>1. TimerOK(Counted(t))
  BY CountedIs
<1>2. TimerOK(Redrawn(t))
  <2> DEFINE u == Counted(t)
             a == [u EXCEPT !.preempted = FALSE]
             e == Elapsed(t)
  <2>1. Redrawn(t) = [a EXCEPT !.rendered = e]
    BY DEF Redrawn
  <2>2. e \in -1 .. LongestTime
    <3>1. e \in 0 .. LongestTime
      BY ElapsedIs DEF TimerOK
    <3> QED BY <3>1 DEF DisplayConstants
  <2> HIDE DEF u, e
  <2>3. TimerOK(a)
    BY <1>1, TimerFieldsOK DEF u
  <2> HIDE DEF a
  <2> QED BY <2>1, <2>2, <2>3, TimerFieldsOK
<1>3. TimerOK([t EXCEPT !.preempted = TRUE])
  BY TimerFieldsOK
<1>4. ScreenOK(Drawn("timer"))
  BY DrawnOK
<1>5. TimerUpdated(t, s) \in {<< t, s >>, << [t EXCEPT !.preempted = TRUE], s >>,
                              << Counted(t), s >>, << Redrawn(t), Drawn("timer") >>}
  BY DEF TimerUpdated
<1>6. \A x, y : << x, y >>[1] = x /\ << x, y >>[2] = y
  OBVIOUS
<1> DEFINE w == TimerUpdated(t, s)
<1> HIDE DEF w
<1>7. \/ w = << t, s >> \/ w = << [t EXCEPT !.preempted = TRUE], s >>
      \/ w = << Counted(t), s >> \/ w = << Redrawn(t), Drawn("timer") >>
  BY <1>5 DEF w
<1>8. TimerOK(w[1]) /\ ScreenOK(w[2])
  <2> DEFINE good(x, y) == TimerOK(x) /\ ScreenOK(y)
  <2>1. \A x, y : good(x, y) /\ w = << x, y >> => TimerOK(w[1]) /\ ScreenOK(w[2])
    BY <1>6
  <2>2. /\ good(t, s) /\ good([t EXCEPT !.preempted = TRUE], s)
        /\ good(Counted(t), s) /\ good(Redrawn(t), Drawn("timer"))
    BY <1>1, <1>2, <1>3, <1>4
  <2> HIDE DEF good
  <2> QED BY <1>7, <2>1, <2>2
<1> QED BY <1>8 DEF w

LEMMA HaltedOK == ASSUME DisplayConstants, NEW t, TimerOK(t)
                  PROVE  TimerOK(Halted(t)) /\ Halted(t).running = FALSE
<1> DEFINE e == Elapsed(t)
           a == [t EXCEPT !.accumulated = e]
<1>1. e \in 0 .. LongestTime
  BY ElapsedIs DEF TimerOK
<1>2. Halted(t) = [a EXCEPT !.running = FALSE]
  BY DEF Halted
<1> HIDE DEF e
<1>3. TimerOK(a)
  BY <1>1, TimerFieldsOK
<1> HIDE DEF a
<1>4. TimerOK(Halted(t))
  BY <1>2, <1>3, TimerFieldsOK
<1> QED BY <1>2, <1>3, <1>4 DEF TimerOK, TimerStates

LEMMA DisplayStarts == DisplayConstants /\ DisplayInit => DisplayInv
<1> SUFFICES ASSUME DisplayConstants, DisplayInit PROVE DisplayInv
  OBVIOUS
<1>1. ScreenOK(Drawn("blank"))
  BY DrawnOK
<1>2. TimerOK(TimerOff)
  BY DEF TimerOff, TimerOK, TimerStates, DisplayConstants
<1> QED BY <1>1, <1>2 DEF DisplayInit, DisplayInv, Racing, DisplayConstants

(* The orders of the shell draw only what they may, and a monitor is turned on only    *)
(* where it may stay on.                                                               *)
LEMMA PanelShellKeeps == ASSUME DisplayConstants, DisplayInv, PanelShell PROVE DisplayInv'
<1>0. TimerOK(timer) /\ ScreenOK(screen) /\ 0 \in 0 .. LongestTime /\ -1 \in -1 .. LongestTime
  BY DEF DisplayInv, DisplayConstants
<1>1. mode' = mode /\ selected' = selected /\ waited' = waited /\ cached' = cached
  BY DEF PanelShell, PanelMonitorOn, PanelMonitorOff, OledCommand, TimerStart, TimerStop,
         TimerResume, TimerReset, TimerHide, Quiet
<1>2. ASSUME watching' = watching, TimerOK(timer'), ScreenOK(screen') PROVE DisplayInv'
  BY <1>1, <1>2 DEF DisplayInv
<1>3. ASSUME NEW m \in Monitors, PanelMonitorOn(m) PROVE DisplayInv'
  <2>1. timer' = timer
    BY <1>3 DEF PanelMonitorOn
  <2>2. CASE CompetitionOwns
    BY <1>0, <1>2, <1>3, <2>1, <2>2 DEF PanelMonitorOn
  <2>3. CASE ~CompetitionOwns
    <3>1. watching' = {m} /\ screen' = Drawn(m) /\ mode \notin Racing
      BY <1>3, <2>3 DEF PanelMonitorOn, OnlyThis, CompetitionOwns
    <3>2. ScreenOK(screen')
      BY <3>1, DrawnOK
    <3> QED BY <1>1, <2>1, <3>1, <3>2 DEF DisplayInv
  <2> QED BY <2>2, <2>3
<1>4. ASSUME NEW m \in Monitors, PanelMonitorOff(m) PROVE DisplayInv'
  <2>1. watching' = watching \ {m} /\ timer' = timer /\ screen' = screen
    BY <1>4 DEF PanelMonitorOff
  <2> QED BY <1>1, <2>1 DEF DisplayInv
<1>5. CASE OledCommand
  <2>1. PICK b \in {"text"} \cup Monitors : screen' = Drawn(b)
    BY <1>5 DEF OledCommand
  <2>2. ScreenOK(screen')
    BY <2>1, DrawnOK
  <2> QED BY <1>0, <1>2, <1>5, <2>2 DEF OledCommand
<1>6. CASE TimerStart
  <2> DEFINE a == [TimerOff EXCEPT !.visible = TRUE]
             t == [a EXCEPT !.running = TRUE]
  <2>1. TimerOK(t)
    <3>1. a \in TimerStates /\ a.visible = TRUE /\ a.saturated = FALSE
      BY <1>0 DEF TimerOff, TimerStates
    <3> HIDE DEF a
    <3> QED BY <3>1 DEF TimerOK, TimerStates
  <2>2. timer' = TimerUpdated(t, screen)[1] /\ screen' = TimerUpdated(t, screen)[2]
        /\ watching' = watching
    BY <1>6 DEF TimerStart
  <2> HIDE DEF t
  <2> QED BY <1>0, <1>2, <2>1, <2>2, TimerUpdatedOK
<1>7. CASE TimerStop
  <2> DEFINE u == Halted(timer)
             t == [u EXCEPT !.rendered = -1]
  <2>1. TimerOK(t)
    BY <1>0, HaltedOK, TimerFieldsOK
  <2>2. timer' = TimerUpdated(t, screen)[1] /\ screen' = TimerUpdated(t, screen)[2]
        /\ watching' = watching
    BY <1>7 DEF TimerStop
  <2> HIDE DEF t
  <2> QED BY <1>0, <1>2, <2>1, <2>2, TimerUpdatedOK
<1>8. CASE TimerResume
  <2> DEFINE a == [timer EXCEPT !.running = TRUE]
  <2>1. timer' = [a EXCEPT !.since = 0] /\ screen' = screen /\ watching' = watching
    BY <1>8 DEF TimerResume
  <2>2. TimerOK(a)
    BY <1>0, <1>8, TimerFieldsOK DEF TimerResume
  <2> HIDE DEF a
  <2>3. TimerOK(timer')
    BY <1>0, <2>1, <2>2, TimerFieldsOK
  <2> QED BY <1>0, <1>2, <2>1, <2>3
<1>9. CASE TimerReset
  <2> DEFINE n == IF timer.running THEN 0 ELSE timer.since
             a == [timer EXCEPT !.accumulated = 0]
             b == [a EXCEPT !.saturated = FALSE]
             d == [b EXCEPT !.rendered = -1]
             t == [d EXCEPT !.since = n]
  <2>1. n \in 0 .. LongestTime
    BY <1>0 DEF TimerOK, TimerStates
  <2>2. t = [timer EXCEPT !.accumulated = 0, !.saturated = FALSE, !.rendered = -1,
                          !.since = IF timer.running THEN 0 ELSE @]
    OBVIOUS
  <2>3. timer' = TimerUpdated(t, screen)[1] /\ screen' = TimerUpdated(t, screen)[2]
        /\ watching' = watching
    BY <1>9, <2>2 DEF TimerReset
  <2>4. TimerOK(a)
    BY <1>0, TimerFieldsOK
  <2> HIDE DEF n, a
  <2>5. TimerOK(b)
    BY <2>4, TimerFieldsOK
  <2> HIDE DEF b
  <2>6. TimerOK(d)
    BY <1>0, <2>5, TimerFieldsOK
  <2> HIDE DEF d
  <2>7. TimerOK(t)
    BY <2>1, <2>6, TimerFieldsOK
  <2> HIDE DEF t
  <2> QED BY <1>0, <1>2, <2>3, <2>7, TimerUpdatedOK
<1>10. CASE TimerHide
  <2> DEFINE u == Halted(timer)
             a == [u EXCEPT !.visible = FALSE]
             b == [a EXCEPT !.rendered = -1]
  <2>1. timer' = [b EXCEPT !.preempted = FALSE] /\ screen' = Drawn("blank")
        /\ watching' = watching
    BY <1>10 DEF TimerHide
  <2>2. TimerOK(u) /\ u.running = FALSE
    BY <1>0, HaltedOK
  <2> HIDE DEF u
  <2>3. TimerOK(a)
    BY <2>2, TimerFieldsOK
  <2> HIDE DEF a
  <2>4. TimerOK(b)
    BY <1>0, <2>3, TimerFieldsOK
  <2> HIDE DEF b
  <2>5. TimerOK(timer')
    BY <2>1, <2>4, TimerFieldsOK
  <2>6. ScreenOK(screen')
    BY <2>1, DrawnOK
  <2> QED BY <1>2, <2>1, <2>5, <2>6
<1> QED BY <1>3, <1>4, <1>5, <1>6, <1>7, <1>8, <1>9, <1>10 DEF PanelShell

LEMMA StatusTaskKeeps == ASSUME DisplayConstants, DisplayInv, StatusTask PROVE DisplayInv'
<1>1. mode' = mode /\ selected' = selected /\ timer' = timer /\ watching' = watching
  BY DEF StatusTask
<1>2. ScreenOK(screen') /\ (cached' = NoPage \/ cached' \in Pages) /\ waited' \in 0 .. Refresh
  <2>1. CASE mode = "fault"
    <3>1. screen' \in {screen, Drawn("fault")} /\ cached' = cached /\ waited' = waited
      BY <2>1 DEF StatusTask
    <3> QED BY <3>1, DrawnOK DEF DisplayInv
  <2>2. CASE mode # "fault" /\ timer.visible
    <3>1. cached' = NoPage /\ screen' = screen /\ waited' = waited
      BY <2>2 DEF StatusTask
    <3> QED BY <3>1 DEF DisplayInv
  <2>3. CASE mode # "fault" /\ ~timer.visible
    <3>1. CompetitionPage
      BY <2>3 DEF StatusTask
    <3> DEFINE page == << mode, selected >>
    <3>2. CASE mode \in Racing /\ waited = Refresh /\ Outdated(page)
      <4>1. waited' = 0 /\ cached' = page /\ screen' = Page(mode, selected)
        BY <3>1, <3>2 DEF CompetitionPage
      <4>2. page \in Pages
        BY <3>2 DEF Pages, DisplayInv
      <4>3. ScreenOK(screen')
        BY <4>1, <4>2 DEF ScreenOK, Page
      <4> QED BY <4>1, <4>2, <4>3 DEF DisplayConstants
    <3>3. CASE ~(mode \in Racing /\ waited = Refresh /\ Outdated(page))
      <4>1. screen' = screen /\ cached' = cached /\ waited' = waited
        BY <3>1, <3>3 DEF CompetitionPage
      <4> QED BY <4>1 DEF DisplayInv
    <3> QED BY <3>2, <3>3
  <2> QED BY <2>1, <2>2, <2>3
<1> QED BY <1>1, <1>2 DEF DisplayInv

LEMMA DisplayKeeps ==
    ASSUME DisplayConstants, DisplayInv, [DisplayNext]_displayVars PROVE DisplayInv'
<1>0. TimerOK(timer) /\ ScreenOK(screen)
  BY DEF DisplayInv
<1>1. CASE TimerUpdate
  <2>1. timer' = TimerUpdated(timer, screen)[1] /\ screen' = TimerUpdated(timer, screen)[2]
        /\ UNCHANGED << mode, selected, cached, waited, watching >>
    BY <1>1 DEF TimerUpdate
  <2>2. TimerOK(timer') /\ ScreenOK(screen')
    BY <1>0, <2>1, TimerUpdatedOK
  <2> QED BY <2>1, <2>2 DEF DisplayInv
<1>2. CASE PanelTick
  <2>1. TimerOK(timer')
    <3>1. CASE timer.running
      <4>1. timer.since + 1 \in 0 .. LongestTime
        BY <1>0, <1>2, <3>1 DEF PanelTick, TimerOK, TimerStates, DisplayConstants
      <4>2. timer' = [timer EXCEPT !.since = timer.since + 1]
        BY <1>2, <3>1 DEF PanelTick
      <4> QED BY <1>0, <4>1, <4>2, TimerFieldsOK
    <3>2. CASE ~timer.running
      BY <1>0, <1>2, <3>2 DEF PanelTick
    <3> QED BY <3>1, <3>2
  <2>2. waited' \in 0 .. Refresh
    BY <1>2 DEF PanelTick, DisplayInv, DisplayConstants
  <2> QED BY <1>2, <2>1, <2>2 DEF PanelTick, DisplayInv
<1>3. CASE ModeChange
  <2>1. mode' \in Racing \cup {"debug", "fault"} /\ UNCHANGED << selected, waited, timer >>
    BY <1>3 DEF ModeChange
  <2>2. CASE CompetitionArm
    BY <2>1, <2>2 DEF CompetitionArm, StreamsDisabled, DisplayInv
  <2>3. CASE DebugModeEnter
    <3>1. ScreenOK(screen') /\ cached' = NoPage /\ mode' \notin Racing /\ watching' = watching
      BY <2>3, DrawnOK DEF DebugModeEnter, Racing
    <3> QED BY <2>1, <3>1 DEF DisplayInv
  <2>4. CASE Run
    <3>1. mode \in Racing
      BY <2>4 DEF Run, Racing
    <3> QED BY <2>1, <2>4, <3>1 DEF Run, DisplayInv
  <2>5. CASE FaultSet
    BY <2>1, <2>5 DEF FaultSet, DisplayInv, Racing
  <2> QED BY <1>3, <2>2, <2>3, <2>4, <2>5 DEF ModeChange
<1>4. CASE SelectPage
  BY <1>4 DEF SelectPage, DisplayInv
<1>5. ASSUME NEW m \in Monitors, MonitorTask(m) PROVE DisplayInv'
  <2>1. ScreenOK(screen')
    BY <1>5, DrawnOK DEF MonitorTask
  <2> QED BY <1>5, <2>1 DEF MonitorTask, DisplayInv
<1>6. CASE UNCHANGED displayVars
  BY <1>6 DEF displayVars, DisplayInv
<1> QED BY <1>1, <1>2, <1>3, <1>4, <1>5, <1>6, PanelShellKeeps, StatusTaskKeeps DEF DisplayNext

LEMMA DisplayInvariant == ASSUME DisplayConstants PROVE DisplaySpec => []DisplayInv
<1>1. DisplayInit => DisplayInv
  BY DisplayStarts
<1>2. DisplayInv /\ [DisplayNext]_displayVars => DisplayInv'
  BY DisplayKeeps
<1> QED BY <1>1, <1>2, PTL DEF DisplaySpec

(* The timer and the pages keep their types: it runs only while it is visible and has  *)
(* not saturated (app_large_timer.cpp).                                                *)
THEOREM DisplayTypes == ASSUME DisplayConstants PROVE DisplaySpec => []DisplayTypeOK
<1>1. DisplayInv => DisplayTypeOK
  BY DEF DisplayInv, DisplayTypeOK, ScreenOK, Drawings, TimerOK, TimerStates
<1> QED BY <1>1, DisplayInvariant, PTL

(* The monitors exclude each other and leave the display to the competition            *)
(* (ImuOledSetEnabled, GrayOledSetEnabled, AppShell_DisableOledStreams).               *)
THEOREM MonitorsYield == ASSUME DisplayConstants PROVE DisplaySpec => []OneMonitor
<1>1. ASSUME DisplayInv PROVE OneMonitor
  <2>1. CASE watching = {}
    BY <2>1, FS_EmptySet DEF OneMonitor
  <2>2. CASE \E m \in Monitors : watching = {m}
    BY <1>1, <2>2, FS_Singleton DEF OneMonitor, DisplayInv
  <2> QED BY <1>1, <2>1, <2>2 DEF DisplayInv
<1> QED BY <1>1, DisplayInvariant, PTL

(* The transmit ring: what is published and not yet freed.                            *)
UsedCells(from, to) == IF to >= from THEN to - from ELSE to - from + TxSize
Queued == UsedCells(tail, head)
Cell(from, n) == IF from + n < TxSize THEN from + n ELSE from + n - TxSize
FreedBytes == accepted - Queued     \* the bytes whose cells are free again

Steps == {"idle", "sized", "claim", "aim", "enable", "complete"}
AllRest == \A p \in Party : txAt[p] = Resting
OnlyAt(p, step, n) ==
    txAt[p] = [step |-> step, span |-> n] /\ \A o \in Party \ {p} : txAt[o] = Resting

(* A span that one party may start: contiguous and published.                          *)
Fits(n) == n \in 1 .. Block /\ tail + n <= TxSize /\ n <= Queued

(* Where a queue without faults is, with the bytes of the span in flight that are sent. *)
QueueRests(n) == n = 0 /\ AllRest /\ ~active /\ ~channel.on /\ ~done
Starting(n, p, s) ==
    /\ n = 0 /\ Fits(s) /\ ~channel.on /\ ~done
    /\ \/ OnlyAt(p, "sized", s) /\ ~active
       \/ OnlyAt(p, "claim", s) /\ ~active /\ length = s
       \/ OnlyAt(p, "aim", s) /\ active /\ length = s
       \/ OnlyAt(p, "enable", s) /\ active /\ length = s /\ channel.from = tail
Sending(n, s) ==
    /\ Fits(s) /\ active /\ length = s
    /\ \/ /\ AllRest /\ ~done /\ channel.on /\ channel.left \in 1 .. s
          /\ n = s - channel.left /\ channel.from = tail + n
       \/ AllRest /\ done /\ ~channel.on /\ n = s
       \/ OnlyAt("irq", "complete", 0) /\ ~done /\ ~channel.on /\ n = s
Flight(n) ==
    \/ QueueRests(n)
    \/ \E p \in Party, s \in 1 .. Block : Starting(n, p, s)
    \/ \E s \in 1 .. Block : Sending(n, s)

Published == \A k \in 1 .. Queued : ring[Cell(tail, k - 1)] = FreedBytes + k
SentSoFar == \A i \in 1 .. Len(sentBytes) : sentBytes[i] = i

TxStates ==
    /\ TxTypeOK /\ sentBytes \in Seq(Nat)
    /\ \A p \in Party : txAt[p].step = "idle" => txAt[p] = Resting
QueueSound == faults = 0 => Flight(Len(sentBytes) - FreedBytes) /\ Published /\ SentSoFar
TxInv == TxStates /\ QueueSound

LEMMA AdvanceIs ==
    ASSUME TxConstants, NEW c \in TxCells, NEW n \in 0 .. TxSize
    PROVE  AdvanceTxIndex(c, n) = Cell(c, n) /\ Cell(c, n) \in TxCells
<1>1. TxSize \in Nat /\ TxSize > 1 /\ c \in 0 .. TxSize - 1
  BY DEF TxConstants, TxCells
<1>2. CASE c + n < TxSize
  <2>1. (0 * TxSize + (c + n)) % TxSize = c + n
    BY <1>1, <1>2, RemainderIs
  <2> QED BY <1>1, <1>2, <2>1 DEF AdvanceTxIndex, Cell, TxCells
<1>3. CASE c + n >= TxSize
  <2> DEFINE j == c + n - TxSize
  <2>1. j \in 0 .. TxSize - 1 /\ c + n = 1 * TxSize + j /\ 1 \in Nat /\ TxSize > 0
    BY <1>1, <1>3
  <2> HIDE DEF j
  <2>2. (1 * TxSize + j) % TxSize = j
    BY <1>1, <2>1, RemainderIs
  <2> QED BY <1>1, <1>3, <2>1, <2>2 DEF AdvanceTxIndex, Cell, TxCells, j
<1> QED BY <1>1, <1>2, <1>3

LEMMA UsedIs ==
    ASSUME TxConstants, NEW c \in TxCells, NEW d \in TxCells
    PROVE  /\ UsedCells(c, d) \in 0 .. TxSize - 1 /\ Cell(c, UsedCells(c, d)) = d
           /\ UsedCells(c, d) = 0 <=> c = d
BY DEF TxConstants, TxCells, UsedCells, Cell

LEMMA FreeIs ==
    ASSUME TxConstants, head \in TxCells, tail \in TxCells
    PROVE  TxFreeSpace = TxSize - 1 - Queued /\ TxFreeSpace \in 0 .. TxSize - 1
<1>1. TxSize \in Nat /\ TxSize > 1 /\ head \in 0 .. TxSize - 1 /\ tail \in 0 .. TxSize - 1
  BY DEF TxConstants, TxCells
<1>2. CASE head >= tail
  <2> DEFINE j == TxSize - 1 - (head - tail)
  <2>1. j \in 0 .. TxSize - 1 /\ TxSize + tail - head - 1 = 0 * TxSize + j /\ TxSize > 0
    BY <1>1, <1>2
  <2> HIDE DEF j
  <2>2. (0 * TxSize + j) % TxSize = j
    BY <1>1, <2>1, RemainderIs
  <2> QED BY <1>1, <1>2, <2>1, <2>2 DEF TxFreeSpace, Queued, UsedCells, j
<1>3. CASE head < tail
  <2> DEFINE j == tail - head - 1
  <2>1. j \in 0 .. TxSize - 1 /\ TxSize + tail - head - 1 = 1 * TxSize + j /\ TxSize > 0
    BY <1>1, <1>3
  <2> HIDE DEF j
  <2>2. (1 * TxSize + j) % TxSize = j
    BY <1>1, <2>1, RemainderIs
  <2> QED BY <1>1, <1>3, <2>1, <2>2 DEF TxFreeSpace, Queued, UsedCells, j
<1> QED BY <1>1, <1>2, <1>3

LEMMA SpanIs ==
    ASSUME TxConstants, NEW c \in TxCells, NEW d \in TxCells, c # d
    PROVE  /\ Span(c, d) \in 1 .. Block /\ c + Span(c, d) <= TxSize
           /\ Span(c, d) <= UsedCells(c, d)
BY DEF TxConstants, TxCells, UsedCells, Span

LEMMA CheckedIs ==
    ASSUME TxConstants, NEW busy \in BOOLEAN, NEW c \in TxCells, NEW d \in TxCells
    PROVE  /\ Checked(busy, c, d) \in [step : Steps, span : 0 .. Block]
           /\ \/ Checked(busy, c, d) = Resting
              \/ /\ ~busy /\ c # d
                 /\ Checked(busy, c, d) = [step |-> "sized", span |-> Span(c, d)]
           /\ Checked(busy, c, d).step = "idle" => Checked(busy, c, d) = Resting
<1>1. CASE busy \/ c = d
  BY <1>1 DEF Checked, Resting, Steps, TxConstants
<1>2. CASE ~busy /\ c # d
  <2>1. Span(c, d) \in 0 .. Block
    BY <1>2, SpanIs DEF TxConstants
  <2> QED BY <1>2, <2>1 DEF Checked, Steps
<1> QED BY <1>1, <1>2

LEMMA TxStarts == TxConstants /\ TxInit => TxInv
<1> SUFFICES ASSUME TxConstants, TxInit PROVE TxInv
  OBVIOUS
<1>1. 0 \in TxCells /\ 0 \in 0 .. Block /\ 0 \in 0 .. MaxBytes /\ 0 \in 0 .. MaxFaults
  BY DEF TxConstants, TxCells
<1>2. TxStates
  <2>1. ring \in [TxCells -> 0 .. MaxBytes]
    BY <1>1 DEF TxInit
  <2>2. txAt \in [Party -> [step : Steps, span : 0 .. Block]] /\ (\A p \in Party : txAt[p] = Resting)
    BY <1>1 DEF TxInit, Resting, Steps
  <2>3. channel \in [on : BOOLEAN, from : Nat, left : 0 .. Block]
    BY <1>1 DEF TxInit
  <2>4. /\ head = 0 /\ tail = 0 /\ active = FALSE /\ length = 0 /\ done = FALSE
        /\ accepted = 0 /\ offered = 0 /\ sentBytes = <<>> /\ faults = 0
    BY DEF TxInit
  <2>5. << >> \in Seq(Nat)
    OBVIOUS
  <2>6. TxTypeOK
    <3>1. 0 \in 0 .. 0 /\ FALSE \in BOOLEAN
      OBVIOUS
    <3>2. accepted \in 0 .. offered
      BY <2>4, <3>1
    <3> QED BY <1>1, <2>1, <2>2, <2>3, <2>4, <3>1, <3>2 DEF TxTypeOK, Steps
  <2> QED BY <2>2, <2>4, <2>5, <2>6 DEF TxStates
<1>3. Queued = 0 /\ Len(sentBytes) = 0 /\ FreedBytes = 0
  BY <1>1, UsedIs DEF TxInit, Queued, FreedBytes
<1>4. QueueRests(0)
  BY DEF TxInit, QueueRests, AllRest
<1>5. QueueSound
  BY <1>3, <1>4 DEF QueueSound, Flight, Published, SentSoFar
<1> QED BY <1>2, <1>5 DEF TxInv

(* Types.                                                                              *)
LEMMA GoesOK ==
    ASSUME TxStates, NEW p \in Party, NEW step \in Steps \ {"idle"}, TxGoes(p, step)
    PROVE  /\ txAt' \in [Party -> [step : Steps, span : 0 .. Block]]
           /\ txAt'[p] = [step |-> step, span |-> txAt[p].span]
           /\ \A o \in Party \ {p} : txAt'[o] = txAt[o]
           /\ \A o \in Party : txAt'[o].step = "idle" => txAt'[o] = Resting
<1>1. txAt[p] \in [step : Steps, span : 0 .. Block] /\ txAt \in [Party -> [step : Steps, span : 0 .. Block]]
  BY DEF TxStates, TxTypeOK, Steps
<1> DEFINE e == [txAt[p] EXCEPT !.step = step]
<1>2. e = [step |-> step, span |-> txAt[p].span] /\ e \in [step : Steps, span : 0 .. Block]
  BY <1>1
<1>3. txAt' = [txAt EXCEPT ![p] = e]
  BY DEF TxGoes
<1> HIDE DEF e
<1>4. txAt' \in [Party -> [step : Steps, span : 0 .. Block]] /\ txAt'[p] = e
      /\ \A o \in Party \ {p} : txAt'[o] = txAt[o]
  BY <1>1, <1>2, <1>3
<1> QED BY <1>2, <1>4 DEF TxStates

LEMMA RestsOK ==
    ASSUME TxStates, NEW p \in Party, NEW e \in [step : Steps, span : 0 .. Block],
           e.step = "idle" => e = Resting, txAt' = [txAt EXCEPT ![p] = e]
    PROVE  /\ txAt' \in [Party -> [step : Steps, span : 0 .. Block]] /\ txAt'[p] = e
           /\ \A o \in Party \ {p} : txAt'[o] = txAt[o]
           /\ \A o \in Party : txAt'[o].step = "idle" => txAt'[o] = Resting
BY DEF TxStates, TxTypeOK, Steps

LEMMA TxStatesAre ==
    ASSUME TxConstants, TxStates
    PROVE  /\ txAt \in [Party -> [step : Steps, span : 0 .. Block]]
           /\ \A p \in Party : txAt[p].span \in 0 .. Block
           /\ head \in TxCells /\ tail \in TxCells /\ active \in BOOLEAN
           /\ channel \in [on : BOOLEAN, from : Nat, left : 0 .. Block]
           /\ Resting \in [step : Steps, span : 0 .. Block]
           /\ Queued \in 0 .. TxSize - 1 /\ tail \in Nat
           /\ accepted \in Nat /\ FreedBytes \in Int /\ Len(sentBytes) \in Nat
<1>1. /\ txAt \in [Party -> [step : Steps, span : 0 .. Block]]
      /\ head \in TxCells /\ tail \in TxCells /\ active \in BOOLEAN
      /\ channel \in [on : BOOLEAN, from : Nat, left : 0 .. Block]
      /\ accepted \in Nat
  BY DEF TxStates, TxTypeOK, Steps
<1>2. Resting \in [step : Steps, span : 0 .. Block]
  BY DEF Resting, Steps, TxConstants
<1>3. Queued \in 0 .. TxSize - 1 /\ tail \in Nat
  BY <1>1, UsedIs DEF Queued, TxCells
<1> QED BY <1>1, <1>2, <1>3 DEF FreedBytes, TxStates, TxConstants

LEMMA MovesOK ==
    ASSUME TxConstants, TxStates, NEW p \in Party,
           StoreLength(p) \/ Claim(p) \/ Aim(p) \/ Enable(p)
    PROVE  TxStates'
<1>0. UNCHANGED << ring, head, tail, done, accepted, offered, sentBytes, faults >>
  BY DEF StoreLength, Claim, Aim, Enable
<1>1. ASSUME txAt' \in [Party -> [step : Steps, span : 0 .. Block]],
             \A o \in Party : txAt'[o].step = "idle" => txAt'[o] = Resting,
             length' \in 0 .. Block, active' \in BOOLEAN,
             channel' \in [on : BOOLEAN, from : Nat, left : 0 .. Block]
      PROVE  TxStates'
  BY <1>0, <1>1 DEF TxStates, TxTypeOK, Steps
<1>2. length \in 0 .. Block /\ active \in BOOLEAN /\ 0 \in 0 .. Block
      /\ channel \in [on : BOOLEAN, from : Nat, left : 0 .. Block] /\ txAt[p].span \in 0 .. Block
  BY TxStatesAre DEF TxStates, TxTypeOK, TxConstants
<1>3. CASE StoreLength(p)
  <2>1. length' \in 0 .. Block /\ active' = active /\ channel' = channel /\ TxGoes(p, "claim")
    BY <1>2, <1>3 DEF StoreLength
  <2> QED BY <1>1, <1>2, <2>1, GoesOK DEF Steps
<1>4. CASE Claim(p)
  <2>1. length' = length /\ active' = TRUE /\ channel' = channel /\ TxGoes(p, "aim")
    BY <1>4 DEF Claim
  <2> QED BY <1>1, <1>2, <2>1, GoesOK DEF Steps
<1>5. CASE Aim(p)
  <2>1. length' = length /\ active' = active /\ TxGoes(p, "enable")
        /\ channel' = [on |-> FALSE, from |-> tail, left |-> 0]
    BY <1>5 DEF Aim
  <2>2. channel' \in [on : BOOLEAN, from : Nat, left : 0 .. Block]
    BY <1>2, <2>1, TxStatesAre
  <2> QED BY <1>1, <1>2, <2>1, <2>2, GoesOK DEF Steps
<1>6. CASE Enable(p)
  <2> DEFINE a == [channel EXCEPT !.on = TRUE]
             n == txAt[p].span
  <2>1. length' = length /\ active' = active /\ txAt' = [txAt EXCEPT ![p] = Resting]
        /\ channel' = [a EXCEPT !.left = n]
    BY <1>6 DEF Enable
  <2>2. a \in [on : BOOLEAN, from : Nat, left : 0 .. Block]
    BY <1>2
  <2> HIDE DEF a, n
  <2>3. channel' \in [on : BOOLEAN, from : Nat, left : 0 .. Block]
    BY <1>2, <2>1, <2>2 DEF n
  <2> QED BY <1>1, <1>2, <2>1, <2>3, RestsOK, TxStatesAre
<1> QED BY <1>3, <1>4, <1>5, <1>6

(* What a write puts into the ring.                                                     *)
LEMMA WrittenIs ==
    ASSUME TxConstants, TxStates, NEW n \in 1 .. LongestText, DebugUart_WriteData(n),
           NEW k, k = Taken(n)
    PROVE  /\ k \in 0 .. n /\ k <= TxSize - 1 - Queued
           /\ head' = Cell(head, k) /\ head' \in TxCells
           /\ accepted' = accepted + k /\ offered' = offered + n /\ offered' <= MaxBytes
           /\ txAt' = [txAt EXCEPT !["main"] = Checked(active, tail, head')]
           /\ \A i \in 1 .. k : ring'[Cell(head, i - 1)] = accepted + i
           /\ \A c \in TxCells : (\A i \in 1 .. k : Cell(head, i - 1) # c) => ring'[c] = ring[c]
           /\ ring' \in [TxCells -> 0 .. MaxBytes]
<1>0. head \in TxCells /\ tail \in TxCells /\ accepted \in Nat /\ offered \in Nat /\ accepted <= offered
      /\ TxSize \in Nat /\ TxSize > 1 /\ Queued \in 0 .. TxSize - 1 /\ ring \in [TxCells -> 0 .. MaxBytes]
      /\ MaxBytes \in Nat
  BY TxStatesAre DEF TxStates, TxTypeOK, TxConstants
<1>1. k \in 0 .. n /\ k <= TxSize - 1 - Queued
  BY <1>0, FreeIs DEF Taken, TxConstants
<1>2. AdvanceTxIndex(head, k) = Cell(head, k) /\ Cell(head, k) \in TxCells
  BY <1>0, <1>1, AdvanceIs
<1> DEFINE place == [i \in 1 .. k |-> AdvanceTxIndex(head, i - 1)]
<1>3. \A i \in 1 .. k : place[i] = Cell(head, i - 1) /\ Cell(head, i - 1) \in TxCells
  BY <1>0, <1>1, AdvanceIs, SMTT(30)
<1>4. /\ ring' = [c \in TxCells |-> IF \E i \in 1 .. k : place[i] = c
                                    THEN accepted + (CHOOSE i \in 1 .. k : place[i] = c)
                                    ELSE ring[c]]
      /\ head' = Cell(head, k) /\ accepted' = accepted + k
      /\ txAt' = [txAt EXCEPT !["main"] = Checked(active, tail, head')]
      /\ offered' = offered + n /\ offered + n <= MaxBytes
  BY <1>2 DEF DebugUart_WriteData
<1>5. \A i, j \in 1 .. k : Cell(head, i - 1) = Cell(head, j - 1) => i = j
  BY <1>0, <1>1 DEF Cell, TxCells
<1> HIDE DEF place
<1>6. ASSUME NEW i \in 1 .. k PROVE ring'[Cell(head, i - 1)] = accepted + i
  <2> DEFINE c == Cell(head, i - 1)
  <2>1. c \in TxCells /\ place[i] = c
    BY <1>3
  <2>2. (CHOOSE j \in 1 .. k : place[j] = c) = i
    <3>1. \A j \in 1 .. k : place[j] = c => j = i
      BY <1>3, <1>5
    <3> HIDE DEF c
    <3> QED BY <2>1, <3>1
  <2> QED BY <1>4, <2>1, <2>2
<1>7. \A c \in TxCells : (\A i \in 1 .. k : Cell(head, i - 1) # c) => ring'[c] = ring[c]
  BY <1>3, <1>4
<1>8. ring' \in [TxCells -> 0 .. MaxBytes]
  <2>1. ASSUME NEW c \in TxCells PROVE ring'[c] \in 0 .. MaxBytes
    <3>1. CASE \E i \in 1 .. k : Cell(head, i - 1) = c
      <4>1. PICK i \in 1 .. k : Cell(head, i - 1) = c
        BY <3>1
      <4>2. ring'[c] = accepted + i
        BY <1>6, <4>1
      <4> QED BY <1>0, <1>1, <1>4, <4>2
    <3>2. CASE \A i \in 1 .. k : Cell(head, i - 1) # c
      BY <1>0, <1>7, <3>2
    <3> QED BY <3>1, <3>2
  <2>2. ring' = [c \in TxCells |-> ring'[c]]
    BY <1>4
  <2> QED BY <2>1, <2>2
<1> QED BY <1>0, <1>1, <1>2, <1>4, <1>6, <1>7, <1>8

(* Types of the other steps.                                                           *)
LEMMA WriteTypes ==
    ASSUME TxConstants, TxStates, NEW n \in 1 .. LongestText, DebugUart_WriteData(n)
    PROVE  TxStates'
<1> DEFINE k == Taken(n)
<1>1. /\ k \in 0 .. n /\ head' \in TxCells /\ ring' \in [TxCells -> 0 .. MaxBytes]
      /\ accepted' = accepted + k /\ offered' = offered + n /\ offered' <= MaxBytes
      /\ txAt' = [txAt EXCEPT !["main"] = Checked(active, tail, head')]
  BY WrittenIs
<1>2. UNCHANGED << tail, active, length, channel, done, sentBytes, faults >>
  BY DEF DebugUart_WriteData
<1> DEFINE e == Checked(active, tail, head')
<1>3. e \in [step : Steps, span : 0 .. Block] /\ (e.step = "idle" => e = Resting)
  <2>1. head' \in TxCells /\ tail \in TxCells /\ active \in BOOLEAN
    BY <1>1, TxStatesAre
  <2> QED BY <2>1, CheckedIs, Zenon
<1> HIDE DEF k, e
<1>4. /\ txAt' \in [Party -> [step : Steps, span : 0 .. Block]]
      /\ \A o \in Party : txAt'[o].step = "idle" => txAt'[o] = Resting
  <2>1. txAt' = [txAt EXCEPT !["main"] = e] /\ "main" \in Party
    BY <1>1 DEF e, Party
  <2> QED BY <1>3, <2>1, RestsOK
<1>5. accepted' \in 0 .. offered' /\ offered' \in 0 .. MaxBytes
  <2>1. accepted \in 0 .. offered /\ offered \in 0 .. MaxBytes /\ MaxBytes \in Nat
    BY DEF TxStates, TxTypeOK, TxConstants
  <2> QED BY <1>1, <2>1
<1> QED BY <1>1, <1>2, <1>4, <1>5 DEF TxStates, TxTypeOK, Steps

LEMMA PumpTypes ==
    ASSUME TxConstants, TxStates, DebugUart_TxPump PROVE TxStates'
<1> DEFINE e == Checked(active, tail, head)
<1>1. e \in [step : Steps, span : 0 .. Block] /\ (e.step = "idle" => e = Resting)
  BY CheckedIs, TxStatesAre
<1>2. txAt' = [txAt EXCEPT !["main"] = e] /\ "main" \in Party
  BY DEF DebugUart_TxPump, Party
<1> HIDE DEF e
<1>3. /\ txAt' \in [Party -> [step : Steps, span : 0 .. Block]]
      /\ \A o \in Party : txAt'[o].step = "idle" => txAt'[o] = Resting
  BY <1>1, <1>2, RestsOK
<1>4. UNCHANGED << ring, head, tail, active, length, channel, done, accepted, offered, sentBytes,
                   faults >>
  BY DEF DebugUart_TxPump
<1> QED BY <1>3, <1>4 DEF TxStates, TxTypeOK, Steps

LEMMA TransferTypes ==
    ASSUME TxConstants, TxStates, Transfer PROVE TxStates'
<1>1. channel' \in [on : BOOLEAN, from : Nat, left : 0 .. Block]
  <2>1. channel.left \in 0 .. Block /\ channel.left > 0 /\ channel.from \in Nat /\ Block \in Nat
    BY TxStatesAre DEF Transfer, TxConstants
  <2>2. channel.from + 1 \in Nat /\ channel.left - 1 \in 0 .. Block /\ (channel.left > 1) \in BOOLEAN
    BY <2>1
  <2>3. channel' = [on |-> channel.left > 1, from |-> channel.from + 1, left |-> channel.left - 1]
    BY DEF Transfer
  <2> QED BY <2>2, <2>3
<1>2. sentBytes' \in Seq(Nat)
  <2>1. ring \in [TxCells -> 0 .. MaxBytes] /\ sentBytes \in Seq(Nat)
    BY DEF TxStates, TxTypeOK
  <2> DEFINE b == IF channel.from \in TxCells THEN ring[channel.from] ELSE 0
  <2>2. b \in Nat
    BY <2>1 DEF TxConstants
  <2> HIDE DEF b
  <2>3. sentBytes' = Append(sentBytes, b)
    BY DEF Transfer, b
  <2> QED BY <2>1, <2>2, <2>3
<1>3. UNCHANGED << ring, head, tail, active, length, txAt, accepted, offered, faults >>
      /\ done' = (done \/ channel.left = 1)
  BY DEF Transfer
<1> QED BY <1>1, <1>2, <1>3 DEF TxStates, TxTypeOK

LEMMA ChannelFieldsOK ==
    ASSUME NEW c \in [on : BOOLEAN, from : Nat, left : 0 .. Block], NEW x \in BOOLEAN
    PROVE  [c EXCEPT !.on = x] \in [on : BOOLEAN, from : Nat, left : 0 .. Block]
OBVIOUS

LEMMA CompleteEnterTypes ==
    ASSUME TxConstants, TxStates, CompleteEnter PROVE TxStates'
<1>1. channel' \in [on : BOOLEAN, from : Nat, left : 0 .. Block]
  BY ChannelFieldsOK, TxStatesAre DEF CompleteEnter
<1>2. "irq" \in Party /\ txAt["irq"] = Resting /\ 0 \in 0 .. Block
  BY DEF CompleteEnter, Party, TxConstants
<1>3. PICK x \in {"complete", "idle"} : txAt' = [txAt EXCEPT !["irq"].step = x]
  BY DEF CompleteEnter
<1> DEFINE e == [step |-> x, span |-> 0]
<1>4. [txAt["irq"] EXCEPT !.step = x] = e /\ e \in [step : Steps, span : 0 .. Block]
      /\ (e.step = "idle" => e = Resting)
  BY <1>2 DEF Resting, Steps
<1>5. txAt' = [txAt EXCEPT !["irq"] = e]
  BY <1>3, <1>4
<1> HIDE DEF e
<1>6. /\ txAt' \in [Party -> [step : Steps, span : 0 .. Block]]
      /\ \A o \in Party : txAt'[o].step = "idle" => txAt'[o] = Resting
  BY <1>2, <1>4, <1>5, RestsOK
<1>7. UNCHANGED << ring, head, tail, active, length, accepted, offered, sentBytes, faults >>
      /\ done' = FALSE
  BY DEF CompleteEnter
<1> QED BY <1>1, <1>6, <1>7 DEF TxStates, TxTypeOK, Steps

LEMMA FreedOK ==
    ASSUME TxConstants, TxStates
    PROVE  /\ Freed(length) = Cell(tail, length) /\ Freed(length) \in TxCells
           /\ length \in 0 .. Block
<1>1. length \in 0 .. Block /\ Block < TxSize /\ Block \in Nat /\ TxSize \in Nat /\ tail \in TxCells
  BY DEF TxStates, TxTypeOK, TxConstants
<1>2. length \in 0 .. TxSize
  BY <1>1
<1> QED BY <1>1, <1>2, AdvanceIs DEF Freed

LEMMA CompleteTypes ==
    ASSUME TxConstants, TxStates, CompleteTxDma PROVE TxStates'
<1>1. tail' \in TxCells /\ length' = 0 /\ active' = FALSE /\ 0 \in 0 .. Block
  BY FreedOK DEF CompleteTxDma, TxConstants
<1> DEFINE e == Checked(FALSE, tail', head)
<1>2. e \in [step : Steps, span : 0 .. Block] /\ (e.step = "idle" => e = Resting)
  <2>1. head \in TxCells /\ tail' \in TxCells /\ FALSE \in BOOLEAN
    BY <1>1, TxStatesAre
  <2> QED BY <2>1, CheckedIs, Zenon
<1>3. txAt' = [txAt EXCEPT !["irq"] = e] /\ "irq" \in Party
  BY DEF CompleteTxDma, Party
<1> HIDE DEF e
<1>4. /\ txAt' \in [Party -> [step : Steps, span : 0 .. Block]]
      /\ \A o \in Party : txAt'[o].step = "idle" => txAt'[o] = Resting
  BY <1>2, <1>3, RestsOK
<1>5. UNCHANGED << ring, head, channel, done, accepted, offered, sentBytes, faults >>
  BY DEF CompleteTxDma
<1> QED BY <1>1, <1>4, <1>5 DEF TxStates, TxTypeOK, Steps

LEMMA RecoverTypes ==
    ASSUME TxConstants, TxStates, RecoverTxDmaError PROVE TxStates'
<1> DEFINE to == IF active /\ length > 0 THEN Freed(length) ELSE tail
           next == Checked(FALSE, to, head)
<1>1. to \in TxCells
  BY FreedOK, TxStatesAre
<1>2. next \in [step : Steps, span : 0 .. Block]
  <2> HIDE DEF to
  <2> QED BY <1>1, CheckedIs, TxStatesAre
<1>3. /\ tail' = to /\ length' = next.span /\ active' = (next # Resting)
      /\ channel' = IF next = Resting THEN [channel EXCEPT !.on = FALSE]
                    ELSE [on |-> TRUE, from |-> to, left |-> next.span]
      /\ faults' = faults + 1 /\ faults < MaxFaults
      /\ UNCHANGED << ring, head, done, txAt, accepted, offered, sentBytes >>
  BY DEF RecoverTxDmaError
<1> HIDE DEF to, next
<1>4. next.span \in 0 .. Block /\ to \in Nat
  BY <1>1, <1>2 DEF TxCells, TxConstants
<1>5. channel' \in [on : BOOLEAN, from : Nat, left : 0 .. Block]
  <2>1. CASE next = Resting
    BY <1>3, <2>1, ChannelFieldsOK, TxStatesAre
  <2>2. CASE next # Resting
    BY <1>3, <1>4, <2>2
  <2> QED BY <2>1, <2>2
<1>6. faults' \in 0 .. MaxFaults
  BY <1>3 DEF TxStates, TxTypeOK, TxConstants
<1> QED BY <1>1, <1>3, <1>4, <1>5, <1>6 DEF TxStates, TxTypeOK

LEMMA TxTypesKept ==
    ASSUME TxConstants, TxStates, [TxNext]_txVars PROVE TxStates'
<1>1. CASE UNCHANGED txVars
  BY <1>1 DEF txVars, TxStates, TxTypeOK
<1>2. CASE MainStep
  BY <1>2, WriteTypes, PumpTypes, MovesOK DEF MainStep, Party
<1>3. CASE IrqStep
  BY <1>3, CompleteEnterTypes, CompleteTypes, MovesOK DEF IrqStep, Party
<1> QED BY <1>1, <1>2, <1>3, TransferTypes, RecoverTypes DEF TxNext

LEMMA CellsAre ==
    ASSUME TxConstants, NEW c \in TxCells, NEW d \in TxCells,
           NEW u, u = UsedCells(c, d), NEW k \in Nat, k <= TxSize - 1 - u
    PROVE  /\ u \in 0 .. TxSize - 1 /\ UsedCells(c, Cell(d, k)) = u + k
           /\ \A i \in 1 .. k : Cell(d, i - 1) = Cell(c, u + i - 1)
           /\ \A m \in 1 .. u, i \in 1 .. k : Cell(c, m - 1) # Cell(d, i - 1)
           /\ \A m \in 1 .. u + k : Cell(c, m - 1) \in TxCells
<1>1. TxSize \in Nat /\ TxSize > 1 /\ c \in 0 .. TxSize - 1 /\ d \in 0 .. TxSize - 1
  BY DEF TxConstants, TxCells
<1>2. u \in 0 .. TxSize - 1 /\ Cell(c, u) = d
  BY UsedIs
<1>3. UsedCells(c, Cell(d, k)) = u + k
  BY <1>1, <1>2 DEF UsedCells, Cell
<1>4. \A i \in 1 .. k : Cell(d, i - 1) = Cell(c, u + i - 1)
  BY <1>1, <1>2 DEF Cell
<1>5. \A m \in 1 .. u, i \in 1 .. k : Cell(c, m - 1) # Cell(d, i - 1)
  <2> SUFFICES ASSUME NEW m \in 1 .. u, NEW i \in 1 .. k PROVE Cell(c, m - 1) # Cell(d, i - 1)
    OBVIOUS
  <2>1. Cell(d, i - 1) = Cell(c, u + i - 1)
    BY <1>4
  <2>2. m - 1 < u + i - 1 /\ u + i - 1 < TxSize /\ m - 1 \in Nat /\ u + i - 1 \in Nat
    BY <1>1, <1>2
  <2> QED BY <1>1, <2>1, <2>2 DEF Cell
<1>6. \A m \in 1 .. u + k : Cell(c, m - 1) \in TxCells
  BY <1>1, <1>2 DEF Cell, TxCells
<1> QED BY <1>2, <1>3, <1>4, <1>5, <1>6

(* A write, or a round of the main loop, finds the queue at rest or in flight.          *)
LEMMA KickKeeps ==
    ASSUME TxConstants, TxStates, AllRest, NEW n, Flight(n),
           txAt' = [txAt EXCEPT !["main"] = Checked(active, tail, head')],
           head' \in TxCells, Queued <= Queued', Queued' = UsedCells(tail, head'),
           UNCHANGED << tail, active, length, channel, done >>
    PROVE  Flight(n)'
<1>0. tail \in TxCells /\ active \in BOOLEAN /\ head' \in TxCells /\ Party = {"main", "irq"}
  BY TxStatesAre DEF Party
<1> DEFINE e == Checked(active, tail, head')
<1>a. PICK s : s = Span(tail, head')
  OBVIOUS
<1>1. \/ e = Resting
      \/ ~active /\ tail # head' /\ e = [step |-> "sized", span |-> s]
  <2>1. \/ e = Resting
        \/ ~active /\ tail # head' /\ e = [step |-> "sized", span |-> Span(tail, head')]
    BY <1>0, CheckedIs, Zenon
  <2> HIDE DEF e
  <2> QED BY <1>a, <2>1
<1>2. txAt' = [txAt EXCEPT !["main"] = e]
  OBVIOUS
<1>3. ASSUME NEW m, Fits(m) PROVE Fits(m)'
  <2>1. tail' = tail /\ Queued \in Nat /\ Queued' \in Nat /\ Queued <= Queued'
    BY <1>0, UsedIs, TxStatesAre DEF TxConstants
  <2>2. Block \in Nat
    BY DEF TxConstants
  <2> QED BY <1>3, <2>1, <2>2 DEF Fits
<1>4. tail # head' => s \in 1 .. Block /\ tail + s <= TxSize /\ s <= Queued'
  BY <1>0, <1>a, SpanIs
<1>5. txAt \in [Party -> [step : Steps, span : 0 .. Block]]
  BY TxStatesAre
<1> HIDE DEF e
<1>6. txAt'["main"] = e /\ txAt'["irq"] = Resting
  BY <1>0, <1>2, <1>5 DEF AllRest
<1>7. ASSUME NEW p \in Party, NEW m \in 1 .. Block, Starting(n, p, m) PROVE FALSE
  BY <1>7 DEF Starting, OnlyAt, AllRest, Resting
<1>8. ASSUME NEW m \in 1 .. Block, Sending(n, m) PROVE Sending(n, m)'
  <2>1. active
    BY <1>8 DEF Sending
  <2>2. AllRest'
    BY <1>0, <1>1, <1>6, <2>1 DEF AllRest
  <2>3. ~OnlyAt("irq", "complete", 0)
    BY <1>0 DEF OnlyAt, AllRest, Resting
  <2> QED BY <1>3, <1>8, <2>1, <2>2, <2>3 DEF Sending
<1>9. ASSUME QueueRests(n) PROVE Flight(n)'
  <2>1. CASE e = Resting
    <3>1. AllRest'
      BY <1>0, <1>6, <2>1 DEF AllRest
    <3>2. QueueRests(n)'
      BY <1>9, <3>1 DEF QueueRests
    <3> QED BY <3>2 DEF Flight
  <2>2. CASE e # Resting
    <3>1. ~active /\ tail # head' /\ e = [step |-> "sized", span |-> s]
      BY <1>1, <2>2
    <3>2. s \in 1 .. Block /\ Fits(s)'
      BY <1>4, <3>1 DEF Fits
    <3>3. OnlyAt("main", "sized", s)'
      BY <1>0, <1>6, <3>1 DEF OnlyAt
    <3>4. Starting(n, "main", s)'
      BY <1>9, <3>1, <3>2, <3>3 DEF Starting, QueueRests
    <3> QED BY <1>0, <3>2, <3>4 DEF Flight
  <2> QED BY <2>1, <2>2
<1>10. \/ QueueRests(n)
       \/ \E p \in Party, m \in 1 .. Block : Starting(n, p, m)
       \/ \E m \in 1 .. Block : Sending(n, m)
  BY DEF Flight
<1>11. CASE \E m \in 1 .. Block : Sending(n, m)
  <2>1. PICK m \in 1 .. Block : Sending(n, m)
    BY <1>11
  <2>2. Sending(n, m)'
    BY <1>8, <2>1
  <2> QED BY <2>2 DEF Flight
<1> QED BY <1>7, <1>9, <1>10, <1>11

LEMMA RingWriteKeeps ==
    ASSUME TxConstants, TxStates, QueueSound,
           NEW n \in 1 .. LongestText, DebugUart_WriteData(n)
    PROVE  QueueSound'
<1> SUFFICES ASSUME faults' = 0 PROVE (Flight(Len(sentBytes) - FreedBytes) /\ Published /\ SentSoFar)'
  BY DEF QueueSound
<1>1. faults' = faults /\ sentBytes' = sentBytes /\ tail' = tail
      /\ UNCHANGED << tail, active, length, channel, done >>
  BY DEF DebugUart_WriteData
<1>2. Flight(Len(sentBytes) - FreedBytes) /\ Published /\ SentSoFar
  BY <1>1 DEF QueueSound
<1> DEFINE k == Taken(n)
<1>3. /\ k \in 0 .. n /\ k <= TxSize - 1 - Queued
      /\ head' = Cell(head, k) /\ head' \in TxCells /\ accepted' = accepted + k
      /\ txAt' = [txAt EXCEPT !["main"] = Checked(active, tail, head')]
      /\ \A i \in 1 .. k : ring'[Cell(head, i - 1)] = accepted + i
      /\ \A c \in TxCells : (\A i \in 1 .. k : Cell(head, i - 1) # c) => ring'[c] = ring[c]
  BY WrittenIs
<1> HIDE DEF k
<1>4. k \in Nat /\ Queued = UsedCells(tail, head) /\ head \in TxCells /\ tail \in TxCells
  BY <1>3, TxStatesAre DEF Queued
<1>5. /\ Queued \in 0 .. TxSize - 1 /\ UsedCells(tail, Cell(head, k)) = Queued + k
      /\ \A i \in 1 .. k : Cell(head, i - 1) = Cell(tail, Queued + i - 1)
      /\ \A m \in 1 .. Queued, i \in 1 .. k : Cell(tail, m - 1) # Cell(head, i - 1)
      /\ \A m \in 1 .. Queued + k : Cell(tail, m - 1) \in TxCells
  BY <1>3, <1>4, CellsAre
<1>6. Queued' = Queued + k /\ Queued' = UsedCells(tail, head')
  BY <1>1, <1>3, <1>5 DEF Queued
<1>7. FreedBytes' = FreedBytes /\ FreedBytes \in Int /\ accepted = FreedBytes + Queued
  BY <1>3, <1>4, <1>5, <1>6, TxStatesAre DEF FreedBytes
<1>8. Flight(Len(sentBytes) - FreedBytes)'
  <2>1. AllRest
    BY DEF DebugUart_WriteData, Runs, AllRest, Party
  <2>2. Queued <= Queued'
    BY <1>4, <1>5, <1>6
  <2> DEFINE g == Len(sentBytes) - FreedBytes
  <2>3. g' = g
    BY <1>1, <1>7
  <2>4. Flight(g)
    BY <1>2
  <2> HIDE DEF g
  <2>5. \A x : Flight(x) => Flight(x)'
    BY <1>1, <1>3, <1>6, <2>1, <2>2, KickKeeps
  <2> QED BY <2>3, <2>4, <2>5 DEF g
<1>9. Published'
  <2> SUFFICES ASSUME NEW m \in 1 .. Queued + k PROVE ring'[Cell(tail, m - 1)] = FreedBytes + m
    BY <1>1, <1>6, <1>7 DEF Published
  <2>1. CASE m <= Queued
    <3>1. m \in 1 .. Queued
      BY <1>4, <1>5, <2>1
    <3>2. ring[Cell(tail, m - 1)] = FreedBytes + m
      BY <1>2, <3>1 DEF Published
    <3>3. Cell(tail, m - 1) \in TxCells /\ \A i \in 1 .. k : Cell(head, i - 1) # Cell(tail, m - 1)
      BY <1>5, <3>1
    <3> QED BY <1>3, <3>2, <3>3
  <2>2. CASE m > Queued
    <3>1. m - Queued \in 1 .. k /\ m - 1 = Queued + (m - Queued) - 1
      BY <1>4, <1>5, <2>2
    <3>2. Cell(head, (m - Queued) - 1) = Cell(tail, m - 1)
      BY <1>5, <3>1
    <3>3. ring'[Cell(tail, m - 1)] = accepted + (m - Queued)
      BY <1>3, <3>1, <3>2
    <3> QED BY <1>5, <1>7, <3>1, <3>3
  <2> QED BY <1>4, <1>5, <2>1, <2>2
<1>10. SentSoFar'
  BY <1>1, <1>2 DEF SentSoFar
<1> QED BY <1>8, <1>9, <1>10

(* Steps that leave the ring and what is sent alone: what is in flight decides.          *)
LEMMA DataKept ==
    ASSUME QueueSound, UNCHANGED << ring, head, tail, accepted, sentBytes, faults >>,
           \A n : Flight(n) => Flight(n)'
    PROVE  QueueSound'
<1> SUFFICES ASSUME faults' = 0 PROVE (Flight(Len(sentBytes) - FreedBytes) /\ Published /\ SentSoFar)'
  BY DEF QueueSound
<1>1. Flight(Len(sentBytes) - FreedBytes) /\ Published /\ SentSoFar
  BY DEF QueueSound
<1>2. Queued' = Queued /\ FreedBytes' = FreedBytes /\ tail' = tail /\ ring' = ring /\ sentBytes' = sentBytes
  BY DEF FreedBytes, Queued
<1>3. PICK g : g = Len(sentBytes) - FreedBytes
  OBVIOUS
<1>4. (Len(sentBytes) - FreedBytes)' = g
  BY <1>2, <1>3
<1>5. Flight(g)'
  BY <1>1, <1>3
<1>6. Published' /\ SentSoFar'
  BY <1>1, <1>2 DEF Published, SentSoFar
<1>7. Flight(Len(sentBytes) - FreedBytes)'
  BY <1>4, <1>5
<1> QED BY <1>6, <1>7

LEMMA PumpQueueKeeps ==
    ASSUME TxConstants, TxStates, QueueSound, DebugUart_TxPump PROVE QueueSound'
<1>1. UNCHANGED << ring, head, tail, active, length, channel, done, accepted, sentBytes, faults >>
      /\ txAt' = [txAt EXCEPT !["main"] = Checked(active, tail, head')]
  BY DEF DebugUart_TxPump
<1>2. AllRest
  BY DEF DebugUart_TxPump, Runs, AllRest, Party
<1>3. head' \in TxCells /\ Queued' = Queued /\ Queued \in Nat /\ Queued' = UsedCells(tail, head')
  BY <1>1, TxStatesAre DEF Queued, TxConstants
<1>4. \A n : Flight(n) => Flight(n)'
  BY <1>1, <1>2, <1>3, KickKeeps
<1> QED BY <1>1, <1>4, DataKept

LEMMA MovesKeep ==
    ASSUME TxConstants, TxStates, QueueSound, NEW p \in Party,
           StoreLength(p) \/ Claim(p) \/ Aim(p) \/ Enable(p)
    PROVE  QueueSound'
<1>0. UNCHANGED << ring, head, tail, done, accepted, offered, sentBytes, faults >>
  BY DEF StoreLength, Claim, Aim, Enable
<1>1. txAt[p].step \in {"sized", "claim", "aim", "enable"}
  BY DEF StoreLength, Claim, Aim, Enable
<1> SUFFICES ASSUME NEW n, Flight(n) PROVE Flight(n)'
  BY <1>0, DataKept
<1>2. PICK s \in 1 .. Block : Starting(n, p, s)
  <2>1. ~AllRest /\ \A m : ~OnlyAt("irq", "complete", m)
    BY <1>1 DEF AllRest, OnlyAt, Resting, Party
  <2>2. ~QueueRests(n) /\ \A m : ~Sending(n, m)
    BY <2>1 DEF QueueRests, Sending
  <2>3. PICK q \in Party, m \in 1 .. Block : Starting(n, q, m)
    BY <2>2 DEF Flight
  <2>4. q = p
    BY <1>1, <2>3 DEF Starting, OnlyAt, Resting
  <2> QED BY <2>3, <2>4
<1>3. txAt \in [Party -> [step : Steps, span : 0 .. Block]]
      /\ channel \in [on : BOOLEAN, from : Nat, left : 0 .. Block] /\ tail \in Nat
  BY TxStatesAre
<1>4. n = 0 /\ Fits(s) /\ ~channel.on /\ ~done /\ (\A o \in Party \ {p} : txAt[o] = Resting)
      /\ txAt[p].span = s
  BY <1>2 DEF Starting, OnlyAt
<1>5. Queued' = Queued /\ Fits(s)' /\ ~done'
  BY <1>0, <1>4 DEF Queued, Fits
<1>6. ASSUME NEW step \in Steps \ {"idle"}, TxGoes(p, step) PROVE OnlyAt(p, step, s)'
  BY <1>4, <1>6, GoesOK DEF OnlyAt
<1>7. CASE StoreLength(p)
  <2>1. OnlyAt(p, "sized", s) /\ ~active
    BY <1>2, <1>7 DEF Starting, OnlyAt, StoreLength
  <2>2. length' = s /\ active' = active /\ channel' = channel /\ TxGoes(p, "claim")
    BY <1>4, <1>7 DEF StoreLength
  <2>3. OnlyAt(p, "claim", s)'
    BY <1>6, <2>2 DEF Steps
  <2>4. Starting(n, p, s)'
    BY <1>4, <1>5, <2>1, <2>2, <2>3 DEF Starting
  <2> QED BY <2>4 DEF Flight
<1>8. CASE Claim(p)
  <2>1. OnlyAt(p, "claim", s) /\ length = s
    BY <1>2, <1>8 DEF Starting, OnlyAt, Claim
  <2>2. length' = length /\ active' = TRUE /\ channel' = channel /\ TxGoes(p, "aim")
    BY <1>8 DEF Claim
  <2>3. OnlyAt(p, "aim", s)'
    BY <1>6, <2>2 DEF Steps
  <2>4. Starting(n, p, s)'
    BY <1>4, <1>5, <2>1, <2>2, <2>3 DEF Starting
  <2> QED BY <2>4 DEF Flight
<1>9. CASE Aim(p)
  <2>1. OnlyAt(p, "aim", s) /\ active /\ length = s
    BY <1>2, <1>9 DEF Starting, OnlyAt, Aim
  <2>2. length' = length /\ active' = active /\ TxGoes(p, "enable")
        /\ ~channel'.on /\ channel'.from = tail'
    BY <1>0, <1>9 DEF Aim
  <2>3. OnlyAt(p, "enable", s)'
    BY <1>6, <2>2 DEF Steps
  <2>4. Starting(n, p, s)'
    BY <1>4, <1>5, <2>1, <2>2, <2>3 DEF Starting
  <2> QED BY <2>4 DEF Flight
<1>10. CASE Enable(p)
  <2>1. OnlyAt(p, "enable", s) /\ active /\ length = s /\ channel.from = tail
    BY <1>2, <1>10 DEF Starting, OnlyAt, Enable
  <2>2. length' = length /\ active' = active /\ txAt' = [txAt EXCEPT ![p] = Resting]
        /\ channel' = [channel EXCEPT !.on = TRUE, !.left = txAt[p].span]
    BY <1>10 DEF Enable
  <2>3. channel'.on /\ channel'.left = s /\ channel'.from = tail
    BY <1>3, <1>4, <2>1, <2>2
  <2>4. AllRest'
    BY <1>3, <1>4, <2>2 DEF AllRest
  <2>5. s - s = 0 /\ tail + 0 = tail /\ s \in 1 .. s
    BY <1>3
  <2>6. channel'.left \in 1 .. s /\ n = s - channel'.left /\ channel'.from = tail + n
    BY <1>4, <2>3, <2>5
  <2>7. Sending(n, s)'
    BY <1>0, <1>5, <2>1, <2>2, <2>3, <2>4, <2>6 DEF Sending
  <2> QED BY <2>7 DEF Flight
<1> QED BY <1>7, <1>8, <1>9, <1>10

(* Steps of the DMA and of its interrupts.                                              *)
LEMMA TransferKeeps ==
    ASSUME TxConstants, TxStates, QueueSound, Transfer PROVE QueueSound'
<1> SUFFICES ASSUME faults' = 0 PROVE (Flight(Len(sentBytes) - FreedBytes) /\ Published /\ SentSoFar)'
  BY DEF QueueSound
<1>1. UNCHANGED << ring, head, tail, active, length, txAt, accepted, offered, faults >>
  BY DEF Transfer
<1>2. PICK n : n = Len(sentBytes) - FreedBytes
  OBVIOUS
<1>3. Flight(n) /\ Published /\ SentSoFar /\ channel.on /\ channel.left > 0
  BY <1>1, <1>2 DEF QueueSound, Transfer
<1>4. PICK s \in 1 .. Block : Sending(n, s)
  BY <1>3 DEF Flight, QueueRests, Starting
<1>5. /\ Fits(s) /\ active /\ length = s /\ AllRest /\ ~done
      /\ channel.left \in 1 .. s /\ n = s - channel.left /\ channel.from = tail + n
  BY <1>3, <1>4 DEF Sending
<1>6. /\ Queued' = Queued /\ FreedBytes' = FreedBytes /\ Fits(s)' /\ AllRest'
      /\ Queued \in Nat /\ FreedBytes \in Int /\ tail \in Nat /\ Len(sentBytes) \in Nat
      /\ s \in Nat /\ TxSize \in Nat
  BY <1>1, <1>5, TxStatesAre DEF Queued, FreedBytes, Fits, AllRest, TxConstants
<1>a. channel.left \in Nat /\ channel.from \in Nat
  BY TxStatesAre DEF TxConstants
<1>7. n \in Nat /\ n + 1 \in 1 .. Queued /\ tail + n < TxSize /\ Len(sentBytes) = FreedBytes + n
  BY <1>2, <1>5, <1>6 DEF Fits
<1>8. channel.from \in TxCells /\ Cell(tail, n) = channel.from
  <2>1. tail + n \in TxCells /\ Cell(tail, n) = tail + n
    BY <1>6, <1>7 DEF TxCells, Cell
  <2> QED BY <1>5, <2>1
<1>9. ring[channel.from] = Len(sentBytes) + 1
  <2>1. ring[Cell(tail, (n + 1) - 1)] = FreedBytes + (n + 1)
    BY <1>3, <1>7 DEF Published
  <2>2. (n + 1) - 1 = n
    BY <1>7
  <2> QED BY <1>6, <1>7, <1>8, <2>1, <2>2
<1>10. sentBytes' = Append(sentBytes, Len(sentBytes) + 1) /\ sentBytes \in Seq(Nat)
  BY <1>8, <1>9 DEF Transfer, TxStates
<1>11. Len(sentBytes') = Len(sentBytes) + 1
       /\ \A i \in 1 .. Len(sentBytes) + 1 : sentBytes'[i] = i
  BY <1>3, <1>10 DEF SentSoFar
<1>12. /\ channel'.on = (channel.left > 1) /\ channel'.left = channel.left - 1
       /\ channel'.from = channel.from + 1 /\ done' = (done \/ channel.left = 1)
  BY DEF Transfer
<1>13. Sending(n + 1, s)'
  <2>1. CASE channel.left = 1
    <3>1. (channel.left > 1) = FALSE
      BY <2>1
    <3>2. done' /\ ~channel'.on
      BY <1>12, <2>1, <3>1
    <3>3. n + 1 = s
      BY <1>5, <1>6, <2>1
    <3> QED BY <1>1, <1>5, <1>6, <3>2, <3>3 DEF Sending
  <2>2. CASE channel.left > 1
    <3>a. (channel.left > 1) = TRUE /\ channel.left # 1 /\ ~done
      BY <1>5, <1>a, <2>2
    <3>1. ~done' /\ channel'.on
      BY <1>12, <3>a
    <3> DEFINE m == channel.left
    <3>b. m \in 1 .. s /\ n = s - m /\ m > 1 /\ m \in Nat
      BY <1>5, <1>a, <2>2
    <3>c. channel'.left = m - 1 /\ channel'.from = tail + n + 1
      BY <1>5, <1>12
    <3> HIDE DEF m
    <3>2. /\ channel'.left \in 1 .. s /\ n + 1 = s - channel'.left
          /\ channel'.from = tail + (n + 1)
      BY <1>6, <1>7, <3>b, <3>c
    <3> QED BY <1>1, <1>5, <1>6, <3>1, <3>2 DEF Sending
  <2> QED BY <1>5, <1>6, <2>1, <2>2
<1>14. (Len(sentBytes) - FreedBytes)' = n + 1
  BY <1>6, <1>7, <1>11
<1>15. Flight(n + 1)'
  BY <1>13 DEF Flight
<1>16. PICK m : m = n + 1
  OBVIOUS
<1>17. Flight(m)' /\ (Len(sentBytes) - FreedBytes)' = m
  BY <1>14, <1>15, <1>16
<1>18. Published'
  BY <1>1, <1>3, <1>6 DEF Published
<1>19. SentSoFar'
  BY <1>11 DEF SentSoFar
<1> QED BY <1>17, <1>18, <1>19

LEMMA CompleteEnterKeeps ==
    ASSUME TxConstants, TxStates, QueueSound, CompleteEnter PROVE QueueSound'
<1>1. UNCHANGED << ring, head, tail, active, length, accepted, sentBytes, faults >>
  BY DEF CompleteEnter
<1> SUFFICES ASSUME NEW n, Flight(n) PROVE Flight(n)'
  BY <1>1, DataKept
<1>2. PICK s \in 1 .. Block : Sending(n, s)
  BY DEF Flight, QueueRests, Starting, CompleteEnter
<1>3. Fits(s) /\ active /\ length = s /\ AllRest /\ ~channel.on /\ n = s
  BY <1>2 DEF Sending, CompleteEnter
<1>4. s > 0 /\ txAt \in [Party -> [step : Steps, span : 0 .. Block]] /\ "irq" \in Party
      /\ channel \in [on : BOOLEAN, from : Nat, left : 0 .. Block]
  BY TxStatesAre DEF TxConstants, Party
<1>5. /\ txAt' = [txAt EXCEPT !["irq"].step = "complete"] /\ ~done'
      /\ channel' = [channel EXCEPT !.on = FALSE]
  BY <1>3, <1>4 DEF CompleteEnter
<1>6. txAt["irq"] = Resting
  BY DEF CompleteEnter
<1>7. TxGoes("irq", "complete")
  BY <1>5 DEF TxGoes
<1>8. OnlyAt("irq", "complete", 0)'
  <2>1. txAt'["irq"] = [step |-> "complete", span |-> 0]
        /\ \A o \in Party \ {"irq"} : txAt'[o] = txAt[o]
    BY <1>4, <1>6, <1>7, GoesOK DEF Steps, Resting
  <2> QED BY <1>3, <2>1 DEF OnlyAt, AllRest
<1>9. ~channel'.on
  BY <1>4, <1>5
<1>10. Fits(s)'
  BY <1>1, <1>3 DEF Fits, Queued
<1>11. Sending(n, s)'
  BY <1>1, <1>3, <1>5, <1>8, <1>9, <1>10 DEF Sending
<1> QED BY <1>11 DEF Flight

LEMMA FreeingIs ==
    ASSUME TxConstants, NEW c \in TxCells, NEW d \in TxCells, NEW s \in Nat,
           s <= UsedCells(c, d)
    PROVE  /\ Cell(c, s) \in TxCells /\ UsedCells(Cell(c, s), d) = UsedCells(c, d) - s
           /\ \A k \in 1 .. UsedCells(c, d) - s : Cell(Cell(c, s), k - 1) = Cell(c, s + k - 1)
BY DEF TxConstants, TxCells, UsedCells, Cell

LEMMA CompleteKeeps ==
    ASSUME TxConstants, TxStates, QueueSound, CompleteTxDma PROVE QueueSound'
<1> SUFFICES ASSUME faults' = 0 PROVE (Flight(Len(sentBytes) - FreedBytes) /\ Published /\ SentSoFar)'
  BY DEF QueueSound
<1>1. UNCHANGED << ring, head, channel, done, accepted, offered, sentBytes, faults >>
      /\ length' = 0 /\ active' = FALSE /\ txAt["irq"].step = "complete" /\ tail' = Freed(length)
      /\ txAt' = [txAt EXCEPT !["irq"] = Checked(FALSE, tail', head)]
  BY DEF CompleteTxDma
<1>2. PICK n : n = Len(sentBytes) - FreedBytes
  OBVIOUS
<1>3. Flight(n) /\ Published /\ SentSoFar
  BY <1>1, <1>2 DEF QueueSound
<1>4. PICK s \in 1 .. Block : Sending(n, s)
  <2>1. ~QueueRests(n)
    BY <1>1 DEF QueueRests, AllRest, Resting, Party
  <2>2. \A p \in Party, m \in 1 .. Block : ~Starting(n, p, m)
    BY <1>1 DEF Starting, OnlyAt, Resting, Party
  <2> QED BY <1>3, <2>1, <2>2 DEF Flight
<1>5. Fits(s) /\ length = s /\ n = s /\ ~done /\ ~channel.on /\ OnlyAt("irq", "complete", 0)
  BY <1>1, <1>4 DEF Sending, AllRest, Resting, Party
<1>6. /\ head \in TxCells /\ tail \in TxCells /\ s \in Nat /\ s <= Queued /\ Queued \in Nat
      /\ FreedBytes \in Int /\ accepted \in Nat /\ Len(sentBytes) \in Nat /\ tail' = Cell(tail, s)
  BY <1>1, <1>5, TxStatesAre, FreedOK DEF Fits, TxConstants
<1>7. tail' \in TxCells /\ Queued' = Queued - s
      /\ \A k \in 1 .. Queued - s : Cell(tail', k - 1) = Cell(tail, s + k - 1)
  BY <1>1, <1>6, FreeingIs DEF Queued
<1>8. FreedBytes' = FreedBytes + s
  BY <1>1, <1>6, <1>7 DEF FreedBytes
<1>9. (Len(sentBytes) - FreedBytes)' = 0
  BY <1>1, <1>2, <1>5, <1>6, <1>8
<1>10. Published'
  <2> SUFFICES ASSUME NEW k \in 1 .. Queued - s PROVE ring[Cell(tail', k - 1)] = FreedBytes + s + k
    BY <1>1, <1>7, <1>8 DEF Published
  <2>1. s + k \in 1 .. Queued
    BY <1>6
  <2>2. ring[Cell(tail, (s + k) - 1)] = FreedBytes + (s + k)
    BY <1>3, <2>1 DEF Published
  <2> QED BY <1>6, <1>7, <2>2
<1>11. SentSoFar'
  BY <1>1, <1>3 DEF SentSoFar
<1> DEFINE e == Checked(FALSE, tail', head)
<1>12. PICK m : m = Span(tail', head)
  OBVIOUS
<1>13. \/ e = Resting
       \/ tail' # head /\ e = [step |-> "sized", span |-> m]
  <2>1. \/ e = Resting
        \/ tail' # head /\ e = [step |-> "sized", span |-> Span(tail', head)]
    BY <1>6, <1>7, CheckedIs, Zenon
  <2> HIDE DEF e
  <2> QED BY <1>12, <2>1
<1>14. tail' # head => m \in 1 .. Block /\ tail' + m <= TxSize /\ m <= Queued'
  BY <1>1, <1>6, <1>7, <1>12, SpanIs DEF Queued
<1>15. txAt' = [txAt EXCEPT !["irq"] = e] /\ txAt \in [Party -> [step : Steps, span : 0 .. Block]]
       /\ "irq" \in Party
  BY <1>1, TxStatesAre DEF Party
<1> HIDE DEF e
<1>16. txAt'["irq"] = e /\ \A o \in Party \ {"irq"} : txAt'[o] = Resting
  BY <1>5, <1>15 DEF OnlyAt
<1>17. Flight(0)'
  <2>1. CASE e = Resting
    <3>1. AllRest'
      BY <1>16, <2>1 DEF AllRest
    <3>2. QueueRests(0)'
      BY <1>1, <1>5, <3>1 DEF QueueRests
    <3> QED BY <3>2 DEF Flight
  <2>2. CASE e # Resting
    <3>1. tail' # head /\ e = [step |-> "sized", span |-> m]
      BY <1>13, <2>2
    <3>2. m \in 1 .. Block /\ Fits(m)'
      BY <1>14, <3>1 DEF Fits
    <3>3. OnlyAt("irq", "sized", m)'
      BY <1>16, <3>1 DEF OnlyAt
    <3>4. Starting(0, "irq", m)'
      BY <1>1, <1>5, <3>2, <3>3 DEF Starting
    <3> QED BY <1>15, <3>2, <3>4 DEF Flight
  <2> QED BY <2>1, <2>2
<1>18. PICK z : z = 0
  OBVIOUS
<1>19. Flight(z)' /\ (Len(sentBytes) - FreedBytes)' = z
  BY <1>9, <1>17, <1>18
<1> QED BY <1>10, <1>11, <1>19

LEMMA RecoverKeeps ==
    ASSUME TxConstants, TxStates, RecoverTxDmaError PROVE QueueSound'
<1>1. faults \in Nat /\ faults' = faults + 1
  BY DEF TxStates, TxTypeOK, TxConstants, RecoverTxDmaError
<1> QED BY <1>1 DEF QueueSound

LEMMA TxInvKept ==
    ASSUME TxConstants, TxInv, [TxNext]_txVars PROVE TxInv'
<1>1. TxStates /\ QueueSound /\ TxStates'
  BY TxTypesKept DEF TxInv
<1>2. CASE UNCHANGED txVars
  <2>1. UNCHANGED << ring, head, tail, active, length, channel, done, txAt, accepted, sentBytes, faults >>
    BY <1>2 DEF txVars
  <2>2. \A n : Flight(n) => Flight(n)'
    BY <2>1, ZenonT(40) DEF Flight, QueueRests, Starting, Sending, Fits, Queued, AllRest, OnlyAt
  <2> QED BY <1>1, <2>1, <2>2, DataKept DEF TxInv
<1>3. CASE MainStep
  BY <1>1, <1>3, RingWriteKeeps, PumpQueueKeeps, MovesKeep DEF MainStep, Party, TxInv
<1>4. CASE IrqStep
  BY <1>1, <1>4, CompleteEnterKeeps, CompleteKeeps, MovesKeep DEF IrqStep, Party, TxInv
<1>5. CASE Transfer
  BY <1>1, <1>5, TransferKeeps DEF TxInv
<1>6. CASE RecoverTxDmaError
  BY <1>1, <1>6, RecoverKeeps DEF TxInv
<1> QED BY <1>2, <1>3, <1>4, <1>5, <1>6 DEF TxNext

LEMMA TxInvariant == ASSUME TxConstants PROVE TxSpec => []TxInv
<1>1. TxInit => TxInv
  BY TxStarts
<1>2. TxInv /\ [TxNext]_txVars => TxInv'
  BY TxInvKept
<1> QED BY <1>1, <1>2, PTL DEF TxSpec

(* The indices, the span in flight and the DMA channel of the transmit ring stay in their *)
(* ranges, whatever the order of main loop, interrupts and faults (debug_uart.cpp).       *)
THEOREM TxTypes == ASSUME TxConstants PROVE TxSpec => []TxTypeOK
<1>1. TxInv => TxTypeOK
  BY DEF TxInv, TxStates
<1> QED BY <1>1, TxInvariant, PTL

(* Without DMA faults the UART sends what the ring accepted, in that order, each byte     *)
(* once and none that was not published, for every size of the ring and of the block.     *)
THEOREM SentIsInOrder == ASSUME TxConstants PROVE TxSpec => []SentInOrder
<1>1. TxInv => SentInOrder
  <2> SUFFICES ASSUME TxInv, faults = 0 PROVE Len(sentBytes) <= accepted /\ SentSoFar
    BY DEF SentInOrder, SentSoFar
  <2>1. TxStates /\ Flight(Len(sentBytes) - FreedBytes) /\ SentSoFar
    BY DEF TxInv, QueueSound
  <2>2. Queued \in Nat /\ accepted \in Nat /\ Len(sentBytes) \in Nat /\ FreedBytes = accepted - Queued
    BY <2>1, TxStatesAre DEF FreedBytes, TxConstants
  <2>3. ASSUME NEW n, Flight(n) PROVE n = 0 \/ n \in 0 .. Queued
    <3>1. ASSUME NEW s \in 1 .. Block, Sending(n, s) PROVE n \in 0 .. Queued
      <4>1. s \in 1 .. Queued
        BY <2>2, <3>1 DEF Sending, Fits
      <4> QED BY <2>2, <3>1, <4>1 DEF Sending
    <3> QED BY <2>3, <3>1 DEF Flight, QueueRests, Starting
  <2>4. Len(sentBytes) - FreedBytes = 0 \/ Len(sentBytes) - FreedBytes \in 0 .. Queued
    BY <2>1, <2>3
  <2> QED BY <2>1, <2>2, <2>4
<1> QED BY <1>1, TxInvariant, PTL

(* The console: what one more byte does to the lines that were typed.                    *)
LineCount(bytes) == Cardinality(Ends(bytes))
RankOf(bytes, i) == Cardinality({j \in Ends(bytes) : j <= i})
LineFrom(bytes, n) == IF n = 1 THEN 1 ELSE EndAt(bytes, n - 1) + 1
CurrentLine(bytes) == SubSeq(bytes, LineFrom(bytes, LineCount(bytes) + 1), Len(bytes))

(* The line ends are numbered from 1 up, each number once.                               *)
Ranked(bytes) ==
    /\ \A n \in 1 .. LineCount(bytes) : \E i \in Ends(bytes) : RankOf(bytes, i) = n
    /\ \A i, j \in Ends(bytes) : RankOf(bytes, i) = RankOf(bytes, j) => i = j
    /\ \A i \in Ends(bytes) : RankOf(bytes, i) \in 1 .. LineCount(bytes)

LEMMA AppendedIs ==
    ASSUME NEW t \in Seq(Bytes), NEW b \in Bytes
    PROVE  /\ Append(t, b) \in Seq(Bytes) /\ Len(Append(t, b)) = Len(t) + 1 /\ Len(t) \in Nat
           /\ \A i \in 1 .. Len(t) : Append(t, b)[i] = t[i]
           /\ Append(t, b)[Len(t) + 1] = b
BY AppendProperties, LenProperties

LEMMA EndsAre ==
    ASSUME NEW t \in Seq(Bytes)
    PROVE  /\ Ends(t) \subseteq 1 .. Len(t) /\ IsFiniteSet(Ends(t)) /\ LineCount(t) \in Nat
           /\ \A i : RankOf(t, i) \in Nat /\ RankOf(t, i) <= LineCount(t)
<1>1. Ends(t) \subseteq 1 .. Len(t) /\ Len(t) \in Nat
  BY LenProperties DEF Ends
<1>2. IsFiniteSet(1 .. Len(t))
  BY <1>1, FS_Interval
<1>3. IsFiniteSet(Ends(t))
  BY <1>1, <1>2, FS_Subset
<1>4. LineCount(t) \in Nat
  BY <1>3, FS_CardinalityType DEF LineCount
<1>5. ASSUME NEW i PROVE RankOf(t, i) \in Nat /\ RankOf(t, i) <= LineCount(t)
  <2> DEFINE below == {j \in Ends(t) : j <= i}
  <2>1. below \in SUBSET Ends(t)
    OBVIOUS
  <2>2. IsFiniteSet(below) /\ Cardinality(below) <= Cardinality(Ends(t))
    BY <1>3, <2>1, FS_Subset
  <2>3. Cardinality(below) \in Nat
    BY <2>2, FS_CardinalityType
  <2> QED BY <2>2, <2>3 DEF RankOf, LineCount
<1> QED BY <1>1, <1>3, <1>4, <1>5

LEMMA EndsOld ==
    ASSUME NEW t \in Seq(Bytes), NEW b \in Bytes
    PROVE  \A i \in 1 .. Len(t) : i \in Ends(Append(t, b)) <=> i \in Ends(t)
<1> DEFINE u == Append(t, b)
<1>1. Len(u) = Len(t) + 1 /\ Len(t) \in Nat /\ \A i \in 1 .. Len(t) : u[i] = t[i]
  BY AppendedIs
<1> HIDE DEF u
<1> SUFFICES ASSUME NEW i \in 1 .. Len(t) PROVE i \in Ends(u) <=> i \in Ends(t)
  BY DEF u
<1>2. u[i] = t[i] /\ (i # 1 => u[i - 1] = t[i - 1])
  BY <1>1
<1>3. EndsLine(u, i) <=> EndsLine(t, i)
  BY <1>2 DEF EndsLine
<1> QED BY <1>1, <1>3 DEF Ends

LEMMA RanksStay ==
    ASSUME NEW t \in Seq(Bytes), NEW b \in Bytes, NEW i \in Ends(t)
    PROVE  RankOf(Append(t, b), i) = RankOf(t, i)
<1> DEFINE u == Append(t, b)
<1>1. Ends(t) \subseteq 1 .. Len(t) /\ Len(t) \in Nat
  BY EndsAre, LenProperties
<1>2. Ends(u) \subseteq 1 .. Len(t) + 1
  BY AppendedIs, EndsAre
<1>3. \A j \in 1 .. Len(t) : j \in Ends(u) <=> j \in Ends(t)
  BY EndsOld
<1> HIDE DEF u
<1>4. {j \in Ends(u) : j <= i} = {j \in Ends(t) : j <= i}
  BY <1>1, <1>2, <1>3
<1> QED BY <1>4 DEF RankOf, u

LEMMA EndsGrow ==
    ASSUME NEW t \in Seq(Bytes), NEW b \in Bytes, NEW u, u = Append(t, b), NEW m, m = Len(t) + 1
    PROVE  /\ EndsLine(u, m) => /\ Ends(u) = Ends(t) \cup {m} /\ LineCount(u) = LineCount(t) + 1
                                /\ RankOf(u, m) = LineCount(u)
           /\ ~EndsLine(u, m) => Ends(u) = Ends(t) /\ LineCount(u) = LineCount(t)
           /\ m \notin Ends(t)
<1>1. Len(u) = m /\ Len(t) \in Nat /\ u[m] = b /\ \A i \in 1 .. Len(t) : u[i] = t[i]
  BY AppendedIs
<1>2. \A i \in 1 .. Len(t) : i \in Ends(u) <=> i \in Ends(t)
  BY EndsOld
<1>3. Ends(t) \subseteq 1 .. Len(t) /\ IsFiniteSet(Ends(t)) /\ LineCount(t) \in Nat
  BY EndsAre
<1>4. m \notin Ends(t)
  BY <1>1, <1>3
<1>a. Ends(u) \subseteq 1 .. m /\ (m \in Ends(u) <=> EndsLine(u, m))
  BY <1>1 DEF Ends
<1>5. EndsLine(u, m) => Ends(u) = Ends(t) \cup {m}
  BY <1>1, <1>2, <1>3, <1>a
<1>6. ~EndsLine(u, m) => Ends(u) = Ends(t)
  <2> SUFFICES ASSUME ~EndsLine(u, m), NEW j PROVE j \in Ends(u) <=> j \in Ends(t)
    OBVIOUS
  <2>1. j \in Ends(u) => j \in 1 .. Len(t)
    BY <1>1, <1>a
  <2> QED BY <1>2, <1>3, <2>1
<1>8. ASSUME EndsLine(u, m) PROVE LineCount(u) = LineCount(t) + 1 /\ RankOf(u, m) = LineCount(u)
  <2>1. Ends(u) = Ends(t) \cup {m}
    BY <1>5, <1>8
  <2>2. LineCount(u) = LineCount(t) + 1
    BY <1>3, <1>4, <2>1, FS_AddElement DEF LineCount
  <2>3. \A j \in Ends(u) : j <= m
    BY <1>1, <1>3, <2>1
  <2>4. {j \in Ends(u) : j <= m} = Ends(u)
    BY <2>3
  <2> QED BY <2>2, <2>4 DEF RankOf, LineCount
<1> QED BY <1>4, <1>5, <1>6, <1>8 DEF LineCount

LEMMA EndAtIs ==
    ASSUME NEW t, Ranked(t), NEW n \in 1 .. LineCount(t)
    PROVE  /\ EndAt(t, n) \in Ends(t)
           /\ \A i \in Ends(t) : RankOf(t, i) = n => EndAt(t, n) = i
<1>1. PICK i \in Ends(t) : RankOf(t, i) = n
  BY DEF Ranked
<1>2. EndAt(t, n) = CHOOSE j \in Ends(t) : RankOf(t, j) = n
  BY DEF EndAt, RankOf
<1>3. EndAt(t, n) \in Ends(t) /\ RankOf(t, EndAt(t, n)) = n
  BY <1>1, <1>2
<1>4. \A j \in Ends(t) : RankOf(t, j) = n => EndAt(t, n) = j
  BY <1>3 DEF Ranked
<1> QED BY <1>3, <1>4

LEMMA RankedGrows ==
    ASSUME NEW t \in Seq(Bytes), NEW b \in Bytes, NEW u, u = Append(t, b), NEW m, m = Len(t) + 1,
           Ranked(t)
    PROVE  /\ Ranked(u)
           /\ \A n \in 1 .. LineCount(t) : EndAt(u, n) = EndAt(t, n)
           /\ EndsLine(u, m) => EndAt(u, LineCount(t) + 1) = m
<1>1. LineCount(t) \in Nat
  BY EndsAre
<1>a. \A i \in Ends(t) : RankOf(u, i) = RankOf(t, i)
  BY RanksStay
<1>b. EndsLine(u, m) => /\ Ends(u) = Ends(t) \cup {m} /\ LineCount(u) = LineCount(t) + 1
                        /\ RankOf(u, m) = LineCount(u)
  BY EndsGrow, ZenonT(30)
<1>c. ~EndsLine(u, m) => Ends(u) = Ends(t) /\ LineCount(u) = LineCount(t)
  BY EndsGrow, Zenon
<1>2. \A i \in Ends(t) : RankOf(u, i) = RankOf(t, i) /\ RankOf(t, i) \in 1 .. LineCount(t)
  BY <1>a DEF Ranked
<1>3. Ends(t) \subseteq Ends(u) /\ LineCount(u) >= LineCount(t)
  BY <1>1, <1>b, <1>c
<1>4. Ranked(u)
  <2>1. CASE ~EndsLine(u, m)
    <3>1. Ends(u) = Ends(t) /\ LineCount(u) = LineCount(t)
      BY <2>1, <1>c
    <3> QED BY <1>2, <3>1 DEF Ranked
  <2>2. CASE EndsLine(u, m)
    <3>1. /\ Ends(u) = Ends(t) \cup {m} /\ LineCount(u) = LineCount(t) + 1
          /\ RankOf(u, m) = LineCount(u)
      BY <2>2, <1>b
    <3>2. \A n \in 1 .. LineCount(u) : \E i \in Ends(u) : RankOf(u, i) = n
      <4> SUFFICES ASSUME NEW n \in 1 .. LineCount(u) PROVE \E i \in Ends(u) : RankOf(u, i) = n
        OBVIOUS
      <4>1. CASE n = LineCount(u)
        BY <3>1, <4>1
      <4>2. CASE n # LineCount(u)
        <5>1. n \in 1 .. LineCount(t)
          BY <1>1, <3>1, <4>2
        <5>2. PICK i \in Ends(t) : RankOf(t, i) = n
          BY <5>1 DEF Ranked
        <5> QED BY <1>2, <3>1, <5>2
      <4> QED BY <4>1, <4>2
    <3>3. \A i \in Ends(t) : RankOf(u, i) # LineCount(u)
      BY <1>1, <1>2, <3>1
    <3>4. \A i, j \in Ends(t) : RankOf(u, i) = RankOf(u, j) => i = j
      BY <1>2 DEF Ranked
    <3>5. \A i, j \in Ends(u) : RankOf(u, i) = RankOf(u, j) => i = j
      BY <3>1, <3>3, <3>4
    <3>6. \A i \in Ends(u) : RankOf(u, i) \in 1 .. LineCount(u)
      BY <1>1, <1>2, <3>1
    <3> QED BY <3>2, <3>5, <3>6 DEF Ranked
  <2> QED BY <2>1, <2>2
<1>5. ASSUME NEW n \in 1 .. LineCount(t) PROVE EndAt(u, n) = EndAt(t, n)
  <2>1. PICK i \in Ends(t) : RankOf(t, i) = n
    BY DEF Ranked
  <2>2. EndAt(t, n) = i
    BY <2>1, EndAtIs
  <2>3. n \in 1 .. LineCount(u) /\ i \in Ends(u) /\ RankOf(u, i) = n
    <3>1. LineCount(u) = LineCount(t) \/ LineCount(u) = LineCount(t) + 1
      BY <1>b, <1>c
    <3> QED BY <1>1, <1>2, <1>3, <2>1, <3>1
  <2>4. EndAt(u, n) = i
    BY <1>4, <2>3, EndAtIs
  <2> QED BY <2>2, <2>4
<1>6. ASSUME EndsLine(u, m) PROVE EndAt(u, LineCount(t) + 1) = m
  <2>1. m \in Ends(u) /\ LineCount(u) = LineCount(t) + 1 /\ RankOf(u, m) = LineCount(u)
    BY <1>6, <1>b
  <2>2. LineCount(t) + 1 \in 1 .. LineCount(u)
    BY <1>1, <2>1
  <2> QED BY <1>4, <2>1, <2>2, EndAtIs
<1> QED BY <1>4, <1>5, <1>6

(* What the bytes of a line make of it, without computing it.                            *)
IsKept(g, bytes) ==
    g = [n \in 0 .. Len(bytes) |-> IF n = 0 THEN << >> ELSE Edit(g[n - 1], bytes[n])]
EditedTo(bytes, text) ==
    /\ \E g : IsKept(g, bytes)
    /\ \A g : IsKept(g, bytes) => g[Len(bytes)] = text

LEMMA EditedIs ==
    ASSUME NEW bytes, NEW text, EditedTo(bytes, text) PROVE Edited(bytes) = text
<1>1. Edited(bytes) = (CHOOSE g : IsKept(g, bytes))[Len(bytes)]
  BY DEF Edited, IsKept
<1> QED BY <1>1 DEF EditedTo

LEMMA EditedNothing == EditedTo(<< >>, << >>)
<1> DEFINE h == [n \in 0 .. 0 |-> << >>]
<1>1. Len(<< >>) = 0 /\ 0 \in 0 .. 0 /\ \A n \in 0 .. 0 : n = 0
  OBVIOUS
<1>2. IsKept(h, << >>)
  <2>1. h = [n \in 0 .. 0 |-> IF n = 0 THEN << >> ELSE Edit(h[n - 1], << >>[n])]
    BY <1>1
  <2> QED BY <1>1, <2>1 DEF IsKept
<1>3. \A g : IsKept(g, << >>) => g[0] = << >>
  BY <1>1 DEF IsKept
<1> QED BY <1>1, <1>2, <1>3 DEF EditedTo

LEMMA EditedMore ==
    ASSUME NEW t \in Seq(Bytes), NEW b \in Bytes, NEW text, EditedTo(t, text),
           NEW u, u = Append(t, b)
    PROVE  EditedTo(u, Edit(text, b))
<1> DEFINE m == Len(t)
<1>1. m \in Nat /\ Len(u) = m + 1 /\ u[m + 1] = b /\ \A i \in 1 .. m : u[i] = t[i]
  BY AppendedIs
<1>2. ASSUME NEW g, IsKept(g, u) PROVE g[m + 1] = Edit(text, b)
  <2> DEFINE h == [n \in 0 .. m |-> g[n]]
  <2>1. g = [n \in 0 .. m + 1 |-> IF n = 0 THEN << >> ELSE Edit(g[n - 1], u[n])]
    BY <1>1, <1>2 DEF IsKept
  <2>2. \A n \in 0 .. m + 1 : g[n] = IF n = 0 THEN << >> ELSE Edit(g[n - 1], u[n])
    BY <2>1
  <2>3. \A n \in 0 .. m : g[n] = IF n = 0 THEN << >> ELSE Edit(h[n - 1], t[n])
    <3> SUFFICES ASSUME NEW n \in 0 .. m PROVE g[n] = IF n = 0 THEN << >> ELSE Edit(h[n - 1], t[n])
      OBVIOUS
    <3>1. n \in 0 .. m + 1 /\ (n # 0 => n - 1 \in 0 .. m /\ n \in 1 .. m)
      BY <1>1
    <3>2. n # 0 => h[n - 1] = g[n - 1] /\ u[n] = t[n]
      BY <1>1, <3>1
    <3> QED BY <2>2, <3>1, <3>2
  <2>4. h = [n \in 0 .. m |-> IF n = 0 THEN << >> ELSE Edit(h[n - 1], t[n])]
    BY <2>3
  <2>5. IsKept(h, t)
    BY <2>4 DEF IsKept
  <2>6. h[m] = text
    BY <2>5 DEF EditedTo
  <2>7. g[m] = text /\ m \in 0 .. m /\ m + 1 \in 0 .. m + 1 /\ m + 1 # 0 /\ (m + 1) - 1 = m
    BY <1>1, <2>6
  <2> QED BY <1>1, <2>2, <2>7
<1>3. \E g : IsKept(g, u)
  <2>1. PICK h : IsKept(h, t)
    BY DEF EditedTo
  <2> DEFINE g == [n \in 0 .. m + 1 |-> IF n <= m THEN h[n] ELSE Edit(h[m], b)]
  <2>2. h = [n \in 0 .. m |-> IF n = 0 THEN << >> ELSE Edit(h[n - 1], t[n])]
    BY <2>1 DEF IsKept
  <2>3. \A n \in 0 .. m : h[n] = IF n = 0 THEN << >> ELSE Edit(h[n - 1], t[n])
    BY <2>2
  <2>4. \A n \in 0 .. m + 1 : g[n] = IF n = 0 THEN << >> ELSE Edit(g[n - 1], u[n])
    <3> SUFFICES ASSUME NEW n \in 0 .. m + 1
                 PROVE  g[n] = IF n = 0 THEN << >> ELSE Edit(g[n - 1], u[n])
      OBVIOUS
    <3>1. CASE n <= m
      <4>1. n \in 0 .. m /\ g[n] = h[n]
        BY <1>1, <3>1
      <4>2. n # 0 => n - 1 \in 0 .. m /\ g[n - 1] = h[n - 1] /\ u[n] = t[n]
        BY <1>1, <3>1
      <4> QED BY <2>3, <4>1, <4>2
    <3>2. CASE n > m
      <4>1. n = m + 1 /\ n # 0 /\ n - 1 = m /\ m \in 0 .. m + 1 /\ ~(n <= m) /\ m <= m
        BY <1>1, <3>2
      <4>2. g[n] = Edit(h[m], b) /\ g[n - 1] = h[m] /\ u[n] = b
        BY <1>1, <4>1
      <4> QED BY <4>1, <4>2
    <3> QED BY <1>1, <3>1, <3>2
  <2>5. g = [n \in 0 .. m + 1 |-> g[n]]
    OBVIOUS
  <2> HIDE DEF g
  <2>6. g = [n \in 0 .. m + 1 |-> IF n = 0 THEN << >> ELSE Edit(g[n - 1], u[n])]
    BY <2>4, <2>5
  <2>7. IsKept(g, u)
    BY <1>1, <2>6 DEF IsKept
  <2> QED BY <2>7
<1> QED BY <1>1, <1>2, <1>3 DEF EditedTo

LEMMA PartOfAppended ==
    ASSUME NEW t \in Seq(Bytes), NEW b \in Bytes, NEW u, u = Append(t, b),
           NEW i \in Nat, i >= 1, NEW j \in Int, j <= Len(t)
    PROVE  SubSeq(u, i, j) = SubSeq(t, i, j)
<1>1. Len(t) \in Nat /\ \A k \in 1 .. Len(t) : u[k] = t[k]
  BY AppendedIs
<1>2. \A k \in i .. j : t[k] \in Bytes /\ u[k] = t[k]
  BY <1>1, LenProperties
<1>3. SubSeq(t, i, j) \in Seq(Bytes) /\ SubSeq(u, i, j) \in Seq(Bytes)
  BY <1>2, SubSeqProperties
<1>4. Len(SubSeq(t, i, j)) = Len(SubSeq(u, i, j))
      /\ Len(SubSeq(t, i, j)) = IF i <= j THEN j - i + 1 ELSE 0
  BY <1>2, SubSeqProperties
<1>5. \A k \in 1 .. j - i + 1 : SubSeq(t, i, j)[k] = t[i + k - 1]
  BY <1>2, SubSeqProperties
<1>6. \A k \in 1 .. j - i + 1 : SubSeq(u, i, j)[k] = u[i + k - 1]
  BY <1>2, SubSeqProperties
<1>7. \A k \in 1 .. Len(SubSeq(t, i, j)) : SubSeq(t, i, j)[k] = SubSeq(u, i, j)[k]
  BY <1>2, <1>4, <1>5, <1>6
<1> QED BY <1>3, <1>4, <1>7, SeqEqual

LEMMA LineFromIs ==
    ASSUME NEW t \in Seq(Bytes), Ranked(t), NEW n \in 1 .. LineCount(t) + 1
    PROVE  LineFrom(t, n) \in Nat /\ LineFrom(t, n) >= 1 /\ LineFrom(t, n) <= Len(t) + 1
<1>1. LineCount(t) \in Nat /\ Len(t) \in Nat /\ Ends(t) \subseteq 1 .. Len(t)
  BY EndsAre, LenProperties
<1>2. n # 1 => EndAt(t, n - 1) \in 1 .. Len(t)
  BY <1>1, EndAtIs
<1> QED BY <1>1, <1>2 DEF LineFrom

LEMMA PartIs ==
    ASSUME NEW t \in Seq(Bytes), NEW i \in Nat, i >= 1, NEW j \in Int, j <= Len(t)
    PROVE  \A k \in 1 .. j - i + 1 : SubSeq(t, i, j)[k] = t[i + k - 1]
<1>1. \A k \in i .. j : t[k] \in Bytes
  BY LenProperties
<1> QED BY <1>1, SubSeqProperties

(* A byte that ends no line adds to the current one; one that does closes it.            *)
LEMMA LinesStay ==
    ASSUME NEW t \in Seq(Bytes), NEW b \in Bytes, NEW u, u = Append(t, b), NEW m, m = Len(t) + 1,
           Ranked(t)
    PROVE  /\ ~EndsLine(u, m) => /\ TypedLines(u) = TypedLines(t)
                                 /\ CurrentLine(u) = Append(CurrentLine(t), b)
           /\ EndsLine(u, m) =>
                /\ TypedLines(u) = [n \in 1 .. LineCount(t) + 1 |->
                                     IF n <= LineCount(t) THEN TypedLines(t)[n]
                                     ELSE Edited(CurrentLine(t))]
                /\ CurrentLine(u) = << >>
           /\ CurrentLine(t) \in Seq(Bytes)
<1> DEFINE c == LineCount(t)
<1>1. c \in Nat /\ Len(t) \in Nat /\ Len(u) = m /\ m \in Nat /\ u[m] = b /\ u \in Seq(Bytes)
      /\ Ends(t) \subseteq 1 .. Len(t)
  BY EndsAre, AppendedIs
<1>2. \A n \in 1 .. c : EndAt(u, n) = EndAt(t, n) /\ EndAt(t, n) \in 1 .. Len(t)
  <2>1. \A n \in 1 .. c : EndAt(u, n) = EndAt(t, n)
    BY RankedGrows
  <2>2. \A n \in 1 .. c : EndAt(t, n) \in Ends(t)
    BY EndAtIs
  <2> QED BY <1>1, <2>1, <2>2
<1>3. \A n \in 1 .. c + 1 : /\ LineFrom(u, n) = LineFrom(t, n)
                            /\ LineFrom(t, n) \in Nat /\ LineFrom(t, n) >= 1
                            /\ LineFrom(t, n) <= Len(t) + 1
  <2> SUFFICES ASSUME NEW n \in 1 .. c + 1
               PROVE  /\ LineFrom(u, n) = LineFrom(t, n)
                      /\ LineFrom(t, n) \in Nat /\ LineFrom(t, n) >= 1
                      /\ LineFrom(t, n) <= Len(t) + 1
    OBVIOUS
  <2>1. n # 1 => n - 1 \in 1 .. c
    BY <1>1
  <2> QED BY <1>1, <1>2, <2>1 DEF LineFrom
<1>4. ASSUME NEW n \in 1 .. c
      PROVE  Edited(SubSeq(u, LineFrom(u, n), EndAt(u, n) - 1))
               = Edited(SubSeq(t, LineFrom(t, n), EndAt(t, n) - 1))
  <2>1. n \in 1 .. c + 1 /\ EndAt(t, n) - 1 \in Int /\ EndAt(t, n) - 1 <= Len(t)
    BY <1>1, <1>2
  <2>2. SubSeq(u, LineFrom(t, n), EndAt(t, n) - 1) = SubSeq(t, LineFrom(t, n), EndAt(t, n) - 1)
    BY <1>3, <2>1, PartOfAppended
  <2> QED BY <1>2, <1>3, <2>1, <2>2
<1> DEFINE a == LineFrom(t, c + 1)
<1>5. a \in Nat /\ a >= 1 /\ a <= Len(t) + 1 /\ CurrentLine(t) = SubSeq(t, a, Len(t))
      /\ LineFrom(u, c + 1) = a
  <2>1. c + 1 \in 1 .. c + 1
    BY <1>1
  <2> QED BY <1>3, <2>1 DEF CurrentLine
<1>6. /\ TypedLines(t) = [n \in 1 .. c |-> Edited(SubSeq(t, LineFrom(t, n), EndAt(t, n) - 1))]
      /\ TypedLines(u) = [n \in 1 .. LineCount(u) |->
                           Edited(SubSeq(u, LineFrom(u, n), EndAt(u, n) - 1))]
  BY DEF TypedLines, LineFrom, LineCount
<1> HIDE DEF c, a
<1>7. SubSeq(u, a, Len(t)) = SubSeq(t, a, Len(t))
  BY <1>1, <1>5, PartOfAppended
<1>8. CurrentLine(t) \in Seq(Bytes)
      /\ Len(CurrentLine(t)) = Len(t) - a + 1
      /\ \A k \in 1 .. Len(t) - a + 1 : CurrentLine(t)[k] = t[a + k - 1]
  <2>1. \A k \in a .. Len(t) : t[k] \in Bytes
    BY <1>1, <1>5, LenProperties
  <2>2. Len(SubSeq(t, a, Len(t))) = IF a <= Len(t) THEN Len(t) - a + 1 ELSE 0
    BY <1>1, <1>5, <2>1, SubSeqProperties
  <2>3. SubSeq(t, a, Len(t)) \in Seq(Bytes)
        /\ \A k \in 1 .. Len(t) - a + 1 : SubSeq(t, a, Len(t))[k] = t[a + k - 1]
    BY <1>1, <1>5, <2>1, SubSeqProperties
  <2> QED BY <1>1, <1>5, <2>2, <2>3
<1>9. ASSUME ~EndsLine(u, m)
      PROVE  TypedLines(u) = TypedLines(t) /\ CurrentLine(u) = Append(CurrentLine(t), b)
  <2>1. LineCount(u) = c
    BY <1>9, EndsGrow DEF c
  <2>2. TypedLines(u) = TypedLines(t)
    BY <1>4, <1>6, <2>1
  <2>3. CurrentLine(u) = SubSeq(u, a, m)
    BY <1>1, <1>5, <2>1 DEF CurrentLine
  <2>4. \A k \in a .. m : u[k] \in Bytes
    BY <1>1, <1>5, LenProperties
  <2>a. a \in Int /\ m \in Int
    BY <1>1, <1>5
  <2>b. SubSeq(u, a, m) \in Seq(Bytes)
    BY <2>4, <2>a, SubSeqProperties
  <2>c. \A k \in 1 .. m - a + 1 : SubSeq(u, a, m)[k] = u[a + k - 1]
    BY <1>1, <1>5, PartIs
  <2>5. SubSeq(u, a, m) \in Seq(Bytes)
        /\ \A k \in 1 .. m - a + 1 : SubSeq(u, a, m)[k] = u[a + k - 1]
    BY <2>b, <2>c
  <2>6. Len(SubSeq(u, a, m)) = IF a <= m THEN m - a + 1 ELSE 0
    BY <1>1, <1>5, <2>4, SubSeqProperties
  <2> DEFINE v == Append(CurrentLine(t), b)
             w == SubSeq(u, a, m)
             k1 == Len(t) - a + 1
  <2>7. v \in Seq(Bytes) /\ Len(v) = k1 + 1 /\ v[k1 + 1] = b /\ k1 \in Nat
        /\ \A k \in 1 .. k1 : v[k] = t[a + k - 1]
    BY <1>1, <1>5, <1>8, AppendedIs
  <2>8. w \in Seq(Bytes) /\ Len(w) = k1 + 1 /\ w[k1 + 1] = b
        /\ \A k \in 1 .. k1 : w[k] = t[a + k - 1]
    <3>1. Len(w) = k1 + 1
      BY <1>1, <1>5, <2>6
    <3>2. \A i \in 1 .. Len(t) : u[i] = t[i]
      BY AppendedIs
    <3>3. \A k \in 1 .. k1 : w[k] = t[a + k - 1]
      <4> SUFFICES ASSUME NEW k \in 1 .. k1 PROVE w[k] = t[a + k - 1]
        OBVIOUS
      <4>1. k \in 1 .. m - a + 1 /\ a + k - 1 \in 1 .. Len(t)
        BY <1>1, <1>5
      <4> QED BY <2>5, <3>2, <4>1
    <3>4. w[k1 + 1] = b
      <4>1. k1 + 1 \in 1 .. m - a + 1 /\ a + (k1 + 1) - 1 = m
        BY <1>1, <1>5
      <4> QED BY <1>1, <2>5, <4>1
    <3> QED BY <2>5, <3>1, <3>3, <3>4
  <2> HIDE DEF v, w, k1
  <2>9. \A k \in 1 .. k1 + 1 : v[k] = w[k]
    <3> SUFFICES ASSUME NEW k \in 1 .. k1 + 1 PROVE v[k] = w[k]
      OBVIOUS
    <3>1. k \in 1 .. k1 \/ k = k1 + 1
      BY <2>7
    <3> QED BY <2>7, <2>8, <3>1
  <2>10. v = w
    BY <2>7, <2>8, <2>9, SeqEqual
  <2> QED BY <2>2, <2>3, <2>10 DEF v, w
<1>10. ASSUME EndsLine(u, m)
       PROVE  /\ TypedLines(u) = [n \in 1 .. c + 1 |-> IF n <= c THEN TypedLines(t)[n]
                                                       ELSE Edited(CurrentLine(t))]
              /\ CurrentLine(u) = << >>
  <2>1. LineCount(u) = c + 1
    BY <1>10, EndsGrow DEF c
  <2>2. EndAt(u, c + 1) = m
    BY <1>10, RankedGrows DEF c
  <2>3. ASSUME NEW n \in 1 .. c + 1
        PROVE  Edited(SubSeq(u, LineFrom(u, n), EndAt(u, n) - 1))
                 = IF n <= c THEN TypedLines(t)[n] ELSE Edited(CurrentLine(t))
    <3>1. CASE n <= c
      <4>1. n \in 1 .. c
        BY <1>1, <3>1 DEF c
      <4> QED BY <1>4, <1>6, <3>1, <4>1
    <3>2. CASE ~(n <= c)
      <4>1. n = c + 1 /\ m - 1 = Len(t)
        BY <1>1, <3>2 DEF c
      <4>2. SubSeq(u, LineFrom(u, n), EndAt(u, n) - 1) = CurrentLine(t)
        BY <1>5, <1>7, <2>2, <4>1
      <4> QED BY <3>2, <4>2
    <3> QED BY <3>1, <3>2
  <2>4. TypedLines(u) = [n \in 1 .. c + 1 |-> IF n <= c THEN TypedLines(t)[n]
                                              ELSE Edited(CurrentLine(t))]
    BY <1>6, <2>1, <2>3
  <2>5. LineFrom(u, c + 2) = m + 1
    <3>1. c + 2 # 1 /\ (c + 2) - 1 = c + 1
      BY <1>1 DEF c
    <3> QED BY <2>2, <3>1 DEF LineFrom
  <2>6. (c + 1) + 1 = c + 2
    BY <1>1 DEF c
  <2>7. CurrentLine(u) = SubSeq(u, m + 1, m)
    BY <1>1, <2>1, <2>5, <2>6 DEF CurrentLine
  <2>8. SubSeq(u, m + 1, m) = << >>
    BY <1>1, SubSeqEmpty
  <2> QED BY <2>4, <2>7, <2>8
<1> QED BY <1>8, <1>9, <1>10 DEF c

(* The bytes the shell has taken out of the ring, and what it knows of them.             *)
Handled == SubSeq(typed, 1, Len(typed) - Len(rxBytes))
Told(bytes) ==
    /\ Ranked(bytes) /\ ranLines = TypedLines(bytes)
    /\ EditedTo(CurrentLine(bytes), line)
    /\ ignoreLf <=> bytes # << >> /\ bytes[Len(bytes)] = "cr"

InputTypes ==
    /\ rxBytes \in Seq(Bytes) /\ Len(rxBytes) < RxSize
    /\ line \in Seq(Chars) /\ Len(line) < LineSize
    /\ ignoreLf \in BOOLEAN /\ dropped \in Nat
    /\ typed \in Seq(Bytes) /\ dropped <= Len(typed) /\ Len(typed) <= MaxTyped
    /\ ranLines \in Seq(Seq(Chars))
InputSound ==
    dropped = 0 =>
        /\ Len(rxBytes) <= Len(typed)
        /\ \A i \in 1 .. Len(rxBytes) : rxBytes[i] = typed[Len(typed) - Len(rxBytes) + i]
        /\ Told(Handled)
InputInv == InputTypes /\ InputSound

LEMMA InputStarts == InputConstants /\ InputInit => InputInv
<1> SUFFICES ASSUME InputConstants, InputInit PROVE InputInv
  OBVIOUS
<1>1. /\ rxBytes = << >> /\ line = << >> /\ ignoreLf = FALSE
      /\ ranLines = << >> /\ typed = << >> /\ dropped = 0
  BY DEF InputInit
<1>2. InputTypes
  <2>1. /\ << >> \in Seq(Bytes) /\ << >> \in Seq(Chars) /\ << >> \in Seq(Seq(Chars))
        /\ Len(<< >>) = 0
    BY EmptySeq
  <2>2. 0 < RxSize /\ 0 < LineSize /\ 0 <= MaxTyped /\ 0 \in Nat /\ 0 <= 0 /\ FALSE \in BOOLEAN
    BY DEF InputConstants
  <2>3. rxBytes \in Seq(Bytes) /\ Len(rxBytes) < RxSize /\ line \in Seq(Chars) /\ Len(line) < LineSize
    BY <1>1, <2>1, <2>2
  <2>4. typed \in Seq(Bytes) /\ dropped <= Len(typed) /\ Len(typed) <= MaxTyped /\ dropped \in Nat
    BY <1>1, <2>1, <2>2
  <2>5. ranLines \in Seq(Seq(Chars)) /\ ignoreLf \in BOOLEAN
    BY <1>1, <2>1
  <2> QED BY <2>3, <2>4, <2>5 DEF InputTypes
<1>3. Handled = << >>
  BY <1>1, SubSeqEmpty DEF Handled
<1>4. Ends(<< >>) = {} /\ LineCount(<< >>) = 0
  <2>1. Ends(<< >>) = {}
    BY DEF Ends
  <2> QED BY <2>1, FS_EmptySet DEF LineCount
<1>5. Ranked(<< >>)
  BY <1>4 DEF Ranked
<1>6. TypedLines(<< >>) = << >>
  BY <1>4 DEF TypedLines, LineCount
<1>7. CurrentLine(<< >>) = << >>
  BY <1>4, SubSeqEmpty DEF CurrentLine, LineFrom
<1>8. Told(<< >>)
  BY <1>1, <1>5, <1>6, <1>7, EditedNothing DEF Told
<1>9. InputSound
  BY <1>1, <1>3, <1>8 DEF InputSound
<1> QED BY <1>2, <1>9 DEF InputInv

LEMMA PushKeeps ==
    ASSUME InputConstants, InputInv, NEW b \in Bytes, PushRxByteFromIsr(b) PROVE InputInv'
<1>1. /\ Len(typed) < MaxTyped /\ typed' = Append(typed, b)
      /\ UNCHANGED << line, ignoreLf, ranLines >>
  BY DEF PushRxByteFromIsr
<1>2. InputTypes /\ InputSound
  BY DEF InputInv
<1>3. /\ typed \in Seq(Bytes) /\ Len(typed) \in Nat /\ rxBytes \in Seq(Bytes) /\ Len(rxBytes) \in Nat
      /\ dropped \in Nat /\ dropped <= Len(typed) /\ MaxTyped \in Nat /\ RxSize \in Nat
      /\ Len(rxBytes) < RxSize
  BY <1>2, LenProperties DEF InputTypes, InputConstants
<1>4. typed' \in Seq(Bytes) /\ Len(typed') = Len(typed) + 1 /\ typed'[Len(typed) + 1] = b
      /\ \A i \in 1 .. Len(typed) : typed'[i] = typed[i]
  BY <1>1, <1>3, AppendedIs
<1>5. CASE Room
  <2>1. rxBytes' = Append(rxBytes, b) /\ dropped' = dropped /\ Len(rxBytes) < RxSize - 1
    BY <1>5 DEF PushRxByteFromIsr, Room
  <2>2. rxBytes' \in Seq(Bytes) /\ Len(rxBytes') = Len(rxBytes) + 1 /\ rxBytes'[Len(rxBytes) + 1] = b
        /\ \A i \in 1 .. Len(rxBytes) : rxBytes'[i] = rxBytes[i]
    BY <1>3, <2>1, AppendedIs
  <2>3. Len(rxBytes') < RxSize /\ dropped' \in Nat /\ dropped' <= Len(typed') /\ Len(typed') <= MaxTyped
    BY <1>1, <1>3, <1>4, <2>1, <2>2
  <2>4. InputTypes'
    BY <1>1, <1>2, <1>4, <2>2, <2>3 DEF InputTypes
  <2>5. ASSUME dropped' = 0 PROVE InputSound'
    <3>1. /\ Len(rxBytes) <= Len(typed) /\ Told(Handled)
          /\ \A i \in 1 .. Len(rxBytes) : rxBytes[i] = typed[Len(typed) - Len(rxBytes) + i]
      BY <1>2, <2>1, <2>5 DEF InputSound
    <3>2. Len(typed') - Len(rxBytes') = Len(typed) - Len(rxBytes)
      BY <1>3, <1>4, <2>2
    <3>3. Handled' = Handled
      <4>1. 1 \in Nat /\ 1 >= 1 /\ Len(typed) - Len(rxBytes) \in Int
            /\ Len(typed) - Len(rxBytes) <= Len(typed)
        BY <1>3
      <4>2. SubSeq(typed', 1, Len(typed) - Len(rxBytes)) = SubSeq(typed, 1, Len(typed) - Len(rxBytes))
        BY <1>1, <1>3, <4>1, PartOfAppended
      <4> QED BY <3>2, <4>2 DEF Handled
    <3>4. PICK h : h = Handled
      OBVIOUS
    <3>5. Told(h)'
      BY <1>1, <3>1, <3>4 DEF Told
    <3>6. Told(Handled)'
      BY <3>3, <3>4, <3>5
    <3>7. \A i \in 1 .. Len(rxBytes') : rxBytes'[i] = typed'[Len(typed') - Len(rxBytes') + i]
      <4> SUFFICES ASSUME NEW i \in 1 .. Len(rxBytes) + 1
                   PROVE  rxBytes'[i] = typed'[Len(typed) - Len(rxBytes) + i]
        BY <2>2, <3>2
      <4>1. CASE i <= Len(rxBytes)
        <5>1. i \in 1 .. Len(rxBytes) /\ Len(typed) - Len(rxBytes) + i \in 1 .. Len(typed)
          BY <1>3, <3>1, <4>1
        <5> QED BY <1>4, <2>2, <3>1, <5>1
      <4>2. CASE i > Len(rxBytes)
        <5>1. i = Len(rxBytes) + 1 /\ Len(typed) - Len(rxBytes) + i = Len(typed) + 1
          BY <1>3, <4>2
        <5> QED BY <1>4, <2>2, <5>1
      <4> QED BY <1>3, <4>1, <4>2
    <3>8. Len(rxBytes') <= Len(typed')
      BY <1>3, <1>4, <2>2, <3>1
    <3> QED BY <3>6, <3>7, <3>8 DEF InputSound
  <2>6. InputSound'
    BY <2>5 DEF InputSound
  <2> QED BY <2>4, <2>6 DEF InputInv
<1>6. CASE ~Room
  <2>1. dropped' = dropped + 1 /\ rxBytes' = rxBytes
    BY <1>6 DEF PushRxByteFromIsr
  <2>2. dropped' \in Nat /\ dropped' <= Len(typed') /\ Len(typed') <= MaxTyped /\ dropped' # 0
    BY <1>1, <1>3, <1>4, <2>1
  <2>3. InputTypes'
    BY <1>1, <1>2, <1>4, <2>1, <2>2 DEF InputTypes
  <2> QED BY <2>2, <2>3 DEF InputInv, InputSound
<1> QED BY <1>5, <1>6

LEMMA EditTypes ==
    ASSUME InputConstants, NEW text \in Seq(Chars), Len(text) < LineSize, NEW b \in Bytes
    PROVE  Edit(text, b) \in Seq(Chars) /\ Len(Edit(text, b)) < LineSize
<1>1. Len(text) \in Nat /\ LineSize \in Nat
  BY LenProperties DEF InputConstants
<1>2. CASE b \in Chars /\ Len(text) < LineSize - 1
  <2>1. Append(text, b) \in Seq(Chars) /\ Len(Append(text, b)) = Len(text) + 1
    BY <1>2, AppendProperties
  <2> QED BY <1>1, <1>2, <2>1 DEF Edit
<1>3. CASE ~(b \in Chars /\ Len(text) < LineSize - 1) /\ b = "bs" /\ text # << >>
  <2>1. \A i \in 1 .. Len(text) - 1 : text[i] \in Chars
    BY <1>1, LenProperties
  <2>2. Front(text) = SubSeq(text, 1, Len(text) - 1) /\ 1 \in Int /\ Len(text) - 1 \in Int
    BY <1>1 DEF Front
  <2>3. Front(text) \in Seq(Chars)
    BY <2>1, <2>2, SubSeqProperties
  <2>4. Len(Front(text)) = IF 1 <= Len(text) - 1 THEN (Len(text) - 1) - 1 + 1 ELSE 0
    BY <2>1, <2>2, SubSeqProperties
  <2> QED BY <1>1, <1>3, <2>3, <2>4 DEF Edit
<1>4. CASE ~(b \in Chars /\ Len(text) < LineSize - 1) /\ ~(b = "bs" /\ text # << >>)
  BY <1>4 DEF Edit
<1> QED BY <1>2, <1>3, <1>4

(* A byte that is handled ends the line or edits it.                                     *)
LEMMA HandlingIs ==
    ASSUME InputConstants, InputTypes, HandleInputByte, NEW b, b = Head(rxBytes)
    PROVE  /\ b \in Bytes /\ b = rxBytes[1] /\ rxBytes # << >>
           /\ \/ /\ b = "cr" \/ (b = "lf" /\ ~ignoreLf)
                 /\ ranLines' = Append(ranLines, line) /\ line' = << >> /\ ignoreLf' = (b = "cr")
              \/ /\ b # "cr" /\ (b = "lf" => ignoreLf)
                 /\ ranLines' = ranLines /\ line' = Edit(line, b) /\ ignoreLf' = FALSE
<1>1. rxBytes # << >> /\ rxBytes \in Seq(Bytes) /\ b \in Bytes /\ b = rxBytes[1]
  BY HeadTailProperties DEF HandleInputByte, InputTypes
<1>2. "cr" \notin Chars /\ "lf" \notin Chars /\ "bs" \notin Chars /\ "ctl" \notin Chars
  BY DEF InputConstants
<1>3. Len(line) \in Nat /\ LineSize \in Nat
  BY LenProperties DEF InputTypes, InputConstants
<1>4. CASE CarriageReturn
  BY <1>1, <1>4 DEF CarriageReturn, LineEnd
<1>5. CASE LineFeed
  <2>1. CASE ignoreLf
    <3>1. b = "lf" /\ ignoreLf' = FALSE /\ ranLines' = ranLines /\ line' = line
      BY <1>5, <2>1 DEF LineFeed
    <3>2. Edit(line, b) = line
      BY <1>2, <3>1 DEF Edit
    <3> QED BY <1>1, <2>1, <3>1, <3>2
  <2>2. CASE ~ignoreLf
    <3>1. b = "lf" /\ LineEnd(FALSE)
      BY <1>5, <2>2 DEF LineFeed
    <3>2. (b = "cr") = FALSE
      BY <3>1
    <3> QED BY <1>1, <2>2, <3>1, <3>2 DEF LineEnd
  <2> QED BY <2>1, <2>2
<1>6. CASE HandleBackspace
  <2>1. b = "bs" /\ line' = (IF line = << >> THEN line ELSE Front(line))
        /\ ignoreLf' = FALSE /\ ranLines' = ranLines
    BY <1>6 DEF HandleBackspace
  <2>2. line' = Edit(line, b)
    BY <1>2, <2>1 DEF Edit
  <2> QED BY <1>1, <2>1, <2>2
<1>7. CASE Printable
  <2>1. b \in Chars /\ line' = (IF Len(line) >= LineSize - 1 THEN line ELSE Append(line, b))
        /\ ignoreLf' = FALSE /\ ranLines' = ranLines
    BY <1>7 DEF Printable
  <2>2. b # "bs" /\ b # "cr" /\ b # "lf"
    BY <1>2, <2>1
  <2>3. line' = Edit(line, b)
    BY <1>3, <2>1, <2>2 DEF Edit
  <2> QED BY <1>1, <2>1, <2>2, <2>3
<1>8. CASE Unprintable
  <2>1. b = "ctl" /\ ignoreLf' = FALSE /\ ranLines' = ranLines /\ line' = line
    BY <1>8 DEF Unprintable
  <2>2. Edit(line, b) = line
    BY <1>2, <2>1 DEF Edit
  <2> QED BY <1>1, <2>1, <2>2
<1> QED BY <1>4, <1>5, <1>6, <1>7, <1>8 DEF HandleInputByte

LEMMA HandledGrows ==
    ASSUME NEW s \in Seq(Bytes), NEW k \in 0 .. Len(s) - 1
    PROVE  /\ SubSeq(s, 1, k) \in Seq(Bytes) /\ Len(SubSeq(s, 1, k)) = k
           /\ SubSeq(s, 1, k + 1) = Append(SubSeq(s, 1, k), s[k + 1])
<1>1. Len(s) \in Nat /\ k \in Nat /\ k < Len(s)
  BY LenProperties
<1>2. \A i \in 1 .. k : s[i] \in Bytes
  BY <1>1, LenProperties
<1>3. SubSeq(s, 1, k) \in Seq(Bytes)
  BY <1>1, <1>2, SubSeqProperties
<1>4. Len(SubSeq(s, 1, k)) = IF 1 <= k THEN k - 1 + 1 ELSE 0
  BY <1>1, <1>2, SubSeqProperties
<1>5. SubSeq(s, 1, k + 1) = SubSeq(s, 1, (k + 1) - 1) \o << s[k + 1] >>
  BY <1>1, SubSeqRecursiveSecond
<1>6. s[k + 1] \in Bytes /\ (k + 1) - 1 = k
  BY <1>1, LenProperties
<1>7. Append(SubSeq(s, 1, k), s[k + 1]) = SubSeq(s, 1, k) \o << s[k + 1] >>
  BY <1>3, <1>6, AppendIsConcat
<1> QED BY <1>1, <1>3, <1>4, <1>5, <1>6, <1>7

LEMMA OneMoreLine ==
    ASSUME NEW S, NEW s \in Seq(S), NEW e \in S, NEW n \in Nat, DOMAIN s = 1 .. n
    PROVE  Append(s, e) = [i \in 1 .. n + 1 |-> IF i <= n THEN s[i] ELSE e]
<1>1. Len(s) = n
  BY LenProperties
<1>2. /\ Append(s, e) \in Seq(S) /\ Len(Append(s, e)) = n + 1
      /\ \A i \in 1 .. n : Append(s, e)[i] = s[i]
      /\ Append(s, e)[n + 1] = e
  BY <1>1, AppendProperties
<1> DEFINE v == Append(s, e)
<1> HIDE DEF v
<1>3. v = [i \in 1 .. n + 1 |-> v[i]]
  BY <1>2, LenProperties DEF v
<1>4. \A i \in 1 .. n + 1 : v[i] = IF i <= n THEN s[i] ELSE e
  <2> SUFFICES ASSUME NEW i \in 1 .. n + 1 PROVE v[i] = IF i <= n THEN s[i] ELSE e
    OBVIOUS
  <2>1. (i \in 1 .. n /\ i <= n) \/ (i = n + 1 /\ ~(i <= n))
    OBVIOUS
  <2> QED BY <1>2, <2>1 DEF v
<1> QED BY <1>3, <1>4 DEF v

LEMMA ToldGrows ==
    ASSUME InputConstants, InputTypes, HandleInputByte, NEW b, b = Head(rxBytes),
           NEW t \in Seq(Bytes), Told(t), NEW u, u = Append(t, b)
    PROVE  Told(u)'
<1>1. /\ b \in Bytes
      /\ \/ /\ b = "cr" \/ (b = "lf" /\ ~ignoreLf)
            /\ ranLines' = Append(ranLines, line) /\ line' = << >> /\ ignoreLf' = (b = "cr")
         \/ /\ b # "cr" /\ (b = "lf" => ignoreLf)
            /\ ranLines' = ranLines /\ line' = Edit(line, b) /\ ignoreLf' = FALSE
  BY HandlingIs
<1>2. /\ Ranked(t) /\ ranLines = TypedLines(t) /\ EditedTo(CurrentLine(t), line)
      /\ (ignoreLf <=> t # << >> /\ t[Len(t)] = "cr")
  BY DEF Told
<1>3. PICK m : m = Len(t) + 1
  OBVIOUS
<1>4. u \in Seq(Bytes) /\ Len(u) = m /\ u[m] = b /\ u # << >> /\ Len(t) \in Nat
      /\ (t # << >> => Len(t) # 0 /\ u[Len(t)] = t[Len(t)])
      /\ (t = << >> => Len(t) = 0)
  <2>1. u \in Seq(Bytes) /\ Len(u) = m /\ u[m] = b /\ Len(t) \in Nat
        /\ \A i \in 1 .. Len(t) : u[i] = t[i]
    BY <1>1, <1>3, AppendedIs
  <2>2. u # << >> /\ (t # << >> => Len(t) # 0) /\ (t = << >> => Len(t) = 0)
    BY <1>1, AppendProperties, EmptySeq
  <2> QED BY <2>1, <2>2
<1>5. Ranked(u)
  BY <1>1, <1>2, <1>3, RankedGrows
<1>6. LineCount(t) \in Nat /\ CurrentLine(t) \in Seq(Bytes)
  BY <1>1, <1>2, <1>3, EndsAre, LinesStay
<1>7. EndsLine(u, m) <=> b = "cr" \/ (b = "lf" /\ ~ignoreLf)
  <2>1. m = 1 <=> t = << >>
    BY <1>3, <1>4
  <2>2. m # 1 => m - 1 = Len(t)
    BY <1>3, <1>4
  <2>3. m # 1 => u[m - 1] = t[Len(t)]
    BY <1>4, <2>1, <2>2
  <2> QED BY <1>2, <1>4, <2>1, <2>3 DEF EndsLine
<1>8. CASE EndsLine(u, m)
  <2>1. ranLines' = Append(ranLines, line) /\ line' = << >> /\ ignoreLf' = (b = "cr")
    BY <1>1, <1>7, <1>8
  <2>2. TypedLines(u) = [n \in 1 .. LineCount(t) + 1 |->
                           IF n <= LineCount(t) THEN TypedLines(t)[n] ELSE Edited(CurrentLine(t))]
    BY <1>1, <1>2, <1>3, <1>8, LinesStay
  <2>3. CurrentLine(u) = << >>
    BY <1>1, <1>2, <1>3, <1>8, LinesStay
  <2>4. Edited(CurrentLine(t)) = line
    BY <1>2, EditedIs
  <2>5. ranLines \in Seq(Seq(Chars)) /\ line \in Seq(Chars)
    BY DEF InputTypes
  <2>6. DOMAIN ranLines = 1 .. LineCount(t)
    BY <1>2 DEF TypedLines, LineCount
  <2>7. Append(ranLines, line) = [n \in 1 .. LineCount(t) + 1 |->
                                    IF n <= LineCount(t) THEN ranLines[n] ELSE line]
    BY <1>6, <2>5, <2>6, OneMoreLine
  <2>8. ranLines' = TypedLines(u)
    BY <1>2, <2>1, <2>2, <2>4, <2>7
  <2>9. EditedTo(CurrentLine(u), line')
    BY <2>1, <2>3, EditedNothing
  <2>10. ignoreLf' <=> u # << >> /\ u[Len(u)] = "cr"
    BY <1>4, <2>1
  <2> QED BY <1>5, <2>8, <2>9, <2>10 DEF Told
<1>9. CASE ~EndsLine(u, m)
  <2>1. ranLines' = ranLines /\ line' = Edit(line, b) /\ ignoreLf' = FALSE /\ b # "cr"
    BY <1>1, <1>7, <1>9
  <2>2. TypedLines(u) = TypedLines(t) /\ CurrentLine(u) = Append(CurrentLine(t), b)
    BY <1>1, <1>2, <1>3, <1>9, LinesStay
  <2>3. EditedTo(CurrentLine(u), line')
    BY <1>1, <1>2, <1>6, <2>1, <2>2, EditedMore
  <2>4. ignoreLf' <=> u # << >> /\ u[Len(u)] = "cr"
    BY <1>4, <2>1
  <2> QED BY <1>2, <1>5, <2>1, <2>2, <2>3, <2>4 DEF Told
<1> QED BY <1>8, <1>9

LEMMA HandleKeeps ==
    ASSUME InputConstants, InputInv, HandleInputByte PROVE InputInv'
<1>1. InputTypes /\ InputSound /\ rxBytes' = Tail(rxBytes) /\ typed' = typed /\ dropped' = dropped
  BY DEF InputInv, HandleInputByte
<1>2. PICK b : b = Head(rxBytes)
  OBVIOUS
<1>3. /\ b \in Bytes /\ b = rxBytes[1] /\ rxBytes # << >>
      /\ \/ /\ ranLines' = Append(ranLines, line) /\ line' = << >> /\ ignoreLf' = (b = "cr")
         \/ ranLines' = ranLines /\ line' = Edit(line, b) /\ ignoreLf' = FALSE
  BY <1>1, <1>2, HandlingIs
<1>4. /\ rxBytes \in Seq(Bytes) /\ typed \in Seq(Bytes) /\ line \in Seq(Chars) /\ Len(line) < LineSize
      /\ ranLines \in Seq(Seq(Chars)) /\ Len(rxBytes) < RxSize /\ RxSize \in Nat /\ LineSize \in Nat
      /\ LineSize > 0
  BY <1>1 DEF InputTypes, InputConstants
<1>5. Len(typed) \in Nat /\ Len(rxBytes) \in Nat /\ Len(rxBytes) # 0
  BY <1>3, <1>4, LenProperties, EmptySeq
<1>6. rxBytes' \in Seq(Bytes) /\ Len(rxBytes') = Len(rxBytes) - 1
      /\ \A i \in 1 .. Len(rxBytes) - 1 : rxBytes'[i] = rxBytes[i + 1]
  BY <1>1, <1>3, <1>4, HeadTailProperties
<1>7. InputTypes'
  <2>1. line' \in Seq(Chars) /\ Len(line') < LineSize
    BY <1>3, <1>4, EditTypes, EmptySeq
  <2>a. Append(ranLines, line) \in Seq(Seq(Chars)) /\ (b = "cr") \in BOOLEAN
    BY <1>4, AppendProperties
  <2>2. ranLines' \in Seq(Seq(Chars)) /\ ignoreLf' \in BOOLEAN
    BY <1>3, <1>4, <2>a
  <2>3. Len(rxBytes') < RxSize
    BY <1>4, <1>5, <1>6
  <2> QED BY <1>1, <1>6, <2>1, <2>2, <2>3 DEF InputTypes
<1>8. ASSUME dropped' = 0
      PROVE  /\ Len(rxBytes') <= Len(typed')
             /\ \A i \in 1 .. Len(rxBytes') : rxBytes'[i] = typed'[Len(typed') - Len(rxBytes') + i]
             /\ Told(Handled)'
  <2>1. /\ Len(rxBytes) <= Len(typed) /\ Told(Handled)
        /\ \A i \in 1 .. Len(rxBytes) : rxBytes[i] = typed[Len(typed) - Len(rxBytes) + i]
    BY <1>1, <1>8 DEF InputSound
  <2> DEFINE k == Len(typed) - Len(rxBytes)
  <2>2. k \in 0 .. Len(typed) - 1 /\ Len(typed') - Len(rxBytes') = k + 1
    BY <1>1, <1>5, <1>6, <2>1
  <2>3. typed[k + 1] = b
    <3>1. 1 \in 1 .. Len(rxBytes)
      BY <1>5
    <3> QED BY <1>3, <2>1, <3>1
  <2>4. Handled = SubSeq(typed, 1, k) /\ Handled' = SubSeq(typed, 1, k + 1)
    BY <1>1, <2>2 DEF Handled
  <2>5. PICK t : t = Handled
    OBVIOUS
  <2> HIDE DEF k
  <2>6. t \in Seq(Bytes) /\ Handled' = Append(t, b)
    BY <1>4, <2>2, <2>3, <2>4, <2>5, HandledGrows
  <2>7. PICK u : u = Append(t, b)
    OBVIOUS
  <2>8. Told(u)'
    BY <1>1, <1>2, <2>1, <2>5, <2>6, <2>7, ToldGrows
  <2>9. Told(Handled)'
    BY <2>6, <2>7, <2>8
  <2>10. \A i \in 1 .. Len(rxBytes') : rxBytes'[i] = typed'[Len(typed') - Len(rxBytes') + i]
    <3> SUFFICES ASSUME NEW i \in 1 .. Len(rxBytes) - 1 PROVE rxBytes'[i] = typed[k + 1 + i]
      BY <1>1, <1>6, <2>2
    <3>1. i + 1 \in 1 .. Len(rxBytes) /\ k + (i + 1) = k + 1 + i
      BY <1>5, <2>2
    <3>2. rxBytes[i + 1] = typed[k + (i + 1)]
      BY <2>1, <3>1 DEF k
    <3> QED BY <1>6, <3>1, <3>2
  <2>11. Len(rxBytes') <= Len(typed')
    BY <1>1, <1>5, <1>6, <2>1
  <2> QED BY <2>9, <2>10, <2>11
<1>9. InputSound'
  BY <1>8 DEF InputSound
<1> QED BY <1>7, <1>9 DEF InputInv

LEMMA InputInvariant == ASSUME InputConstants PROVE InputSpec => []InputInv
<1>1. InputInit => InputInv
  BY InputStarts
<1>2. InputInv /\ [InputNext]_inputVars => InputInv'
  <2> SUFFICES ASSUME InputInv, [InputNext]_inputVars PROVE InputInv'
    OBVIOUS
  <2>1. CASE UNCHANGED inputVars
    <3>1. UNCHANGED << rxBytes, line, ignoreLf, ranLines, typed, dropped >>
      BY <2>1 DEF inputVars
    <3>2. Handled' = Handled
      BY <3>1 DEF Handled
    <3>3. InputTypes'
      BY <3>1 DEF InputInv, InputTypes
    <3>4. PICK t : t = Handled
      OBVIOUS
    <3>5. Told(t) => Told(t)'
      BY <3>1 DEF Told
    <3>6. Told(Handled) => Told(Handled)'
      BY <3>2, <3>4, <3>5
    <3>7. InputSound'
      BY <3>1, <3>6 DEF InputInv, InputSound
    <3> QED BY <3>3, <3>7 DEF InputInv
  <2>2. CASE InputNext
    BY <2>2, HandleKeeps, PushKeeps DEF InputNext
  <2> QED BY <2>1, <2>2
<1> QED BY <1>1, <1>2, PTL DEF InputSpec

(* Neither the receive ring nor the line buffer is overrun, whatever is typed and however *)
(* long a command takes (debug_uart.cpp, shell.cpp).                                      *)
THEOREM InputIsBounded == ASSUME InputConstants PROVE InputSpec => []InputTypeOK
<1>1. InputInv => InputTypeOK
  <2> SUFFICES ASSUME InputInv PROVE InputTypeOK
    OBVIOUS
  <2>1. InputTypes /\ Len(typed) \in Nat /\ MaxTyped \in Nat
    BY LenProperties DEF InputInv, InputTypes, InputConstants
  <2>2. dropped \in 0 .. MaxTyped
    BY <2>1 DEF InputTypes
  <2> QED BY <2>1, <2>2 DEF InputTypes, InputTypeOK
<1> QED BY <1>1, InputInvariant, PTL

(* As long as no byte was dropped, the lines the shell runs are the lines that were typed, *)
(* each once and in order, whatever line ends the terminal sends and wherever the main     *)
(* loop was between two bytes (shell.cpp, HandleInputByte).                                *)
THEOREM TypedLinesAreRun == ASSUME InputConstants PROVE InputSpec => []RunsWhatWasTyped
<1>1. InputInv => RunsWhatWasTyped
  BY DEF InputInv, InputSound, Told, Handled, RunsWhatWasTyped
<1> QED BY <1>1, InputInvariant, PTL
=================================================================================
