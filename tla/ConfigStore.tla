----------------------------- MODULE ConfigStore -----------------------------
(* The configuration store of gugaPI (app/config_store.cpp): the parameters in *)
(* RAM, the two records in FRAM they are kept in (the main image and, written   *)
(* first, the infrared extension), the layouts of earlier firmware that a load  *)
(* migrates, and the power cuts and bus errors a save may meet.  Of the hundred *)
(* odd parameters the model keeps five: a pair that validation orders, the      *)
(* grayscale mask that a load may upgrade, one field of the extension and the   *)
(* gyroscope bias the IMU writes (ImuBias).                                     *)

EXTENDS Integers

CONSTANTS Levels,      \* values of the ordered pair trip < release
          Masks,       \* among "legacy", "new" and "custom"
          Infrareds,   \* extension field: "off", "on" and "bad" (fails validation)
          Biases,      \* fixed gyroscope bias, a range of integers around 0
          Defaults,    \* SetDefaults
          Images,      \* main images earlier firmware may have left
          Extensions   \* extension records earlier firmware may have left

VARIABLES params,      \* g_params
          config,      \* g_status
          configFram    \* the FRAM: its main image, its extension, whether it answers

configVars == << params, config, configFram >>

NoImage == [layout |-> "none", params |-> Defaults, other |-> Defaults]

NoExtension == "none"

Params == [trip : Levels, release : Levels, mask : Masks, infrared : Infrareds, bias : Biases]

(* A stored image is what its bytes decode to.  A 243-byte v16 image decodes two  *)
(* ways: params is the DM-G6220 reading, other that of the infrared fork.         *)
Current(p) == [layout |-> "v17", params |-> [p EXCEPT !.infrared = Defaults.infrared],
               other |-> Defaults]

ValidateParams(p) == p.trip < p.release /\ p.infrared # "bad"

(* The defaults are valid, and firmware only ever wrote parameters it knew.       *)
ConfigConstants ==
    /\ Levels \subseteq Int /\ Biases \subseteq Int /\ "new" \in Masks
    /\ NoExtension \notin Infrareds /\ Extensions \subseteq Infrareds
    /\ Defaults \in Params /\ ValidateParams(Defaults)
    /\ Images \subseteq [layout : {"v17", "v16", "old"}, params : Params, other : Params]

(* The default mask of v10 and before is upgraded; any other mask is the user's. *)
Migrated(p, layout) ==
    IF layout = "old" /\ p.mask = "legacy" THEN [p EXCEPT !.mask = "new"] ELSE p

(* DecodePayload, tried as the infrared fork's when the DM reading is not valid. *)
ForkLayout(image) == image.layout = "v16" /\ ~ValidateParams(image.params)

DecodedImage(image) ==
    Migrated(IF ForkLayout(image) THEN image.other ELSE image.params, image.layout)

Readable(image) == image.layout # "none" /\ ValidateParams(DecodedImage(image))

(* LoadInfraredExtension over the decoded image, kept only if the whole is valid. *)
ExtensionLoads(image, ext) ==
    /\ ext # NoExtension
    /\ ~ForkLayout(image)
    /\ ValidateParams([DecodedImage(image) EXCEPT !.infrared = ext])

Stored(image, ext) ==
    IF ExtensionLoads(image, ext) THEN [DecodedImage(image) EXCEPT !.infrared = ext]
    ELSE DecodedImage(image)

NeedsSave(image, ext) == image.layout # "v17" \/ ~ExtensionLoads(image, ext)

-----------------------------------------------------------------------------
(* ConfigStore_ResetDefaults *)
ToDefaults(outcome) ==
    /\ params' = Defaults
    /\ config' = [config EXCEPT !.dirty = TRUE, !.outcome = outcome]

(* ConfigStore_Load over given records.  A bus error of the main image, or an FRAM *)
(* that never answered, leaves the defaults; one of the extension counts as none.   *)
LoadFrom(image, ext) ==
    IF Readable(image)
    THEN /\ params' = Stored(image, ext)
         /\ config' = [config EXCEPT !.dirty = NeedsSave(image, ext), !.outcome = "fram"]
    ELSE ToDefaults("invalid")

LoadAny ==
    \/ ToDefaults("io")
    \/ /\ configFram.ready
       /\ \E ext \in {configFram.ext, NoExtension} : LoadFrom(configFram.main, ext)

(* `param load` *)
ParamLoad == LoadAny /\ UNCHANGED configFram

(* `param reset` *)
ParamReset == ToDefaults("explicit") /\ UNCHANGED configFram

(* ConfigStore_Set and the calibration setters: checked as a whole, then dirty. *)
SetTo(p) ==
    IF ValidateParams(p)
    THEN params' = p /\ config' = [config EXCEPT !.dirty = TRUE]
    ELSE UNCHANGED << params, config >>

Named(name, value) == [params EXCEPT ![name] = value]

ParamSet ==
    /\ \/ \E v \in Levels : SetTo(Named("trip", v)) \/ SetTo(Named("release", v))
       \/ \E v \in Masks : SetTo(Named("mask", v))
       \/ \E v \in Infrareds : SetTo(Named("infrared", v))
       \/ \E v \in Biases : SetTo(Named("bias", v))
    /\ UNCHANGED configFram

(* Writing a record goes chunk by chunk (Fm24cl64b_Write): cut short, it is old, *)
(* new, or fits no CRC.                                                           *)
Partial(old, new, torn) == {old, new, torn}

(* Mutant: only the main record is written. *)
SavedWithoutExtension(p) == [configFram EXCEPT !.main = Current(p)]

SavedWhole(p) == [configFram EXCEPT !.main = Current(p), !.ext = p.infrared]

SavedPartly(p) ==
    {[configFram EXCEPT !.ext = e] : e \in Partial(configFram.ext, p.infrared, NoExtension)}
        \cup {[configFram EXCEPT !.ext = p.infrared, !.main = m] :
                  m \in Partial(configFram.main, Current(p), NoImage)}

(* ConfigStore_Save of p succeeds, or ends at the first write that fails. *)
SaveOk(p) ==
    /\ configFram.ready
    /\ configFram' = SavedWhole(p)
    /\ config' = [config EXCEPT !.dirty = FALSE, !.saved = "ok"]

SaveFails(p) ==
    /\ configFram' \in IF configFram.ready THEN SavedPartly(p) ELSE {configFram}
    /\ config' = [config EXCEPT !.saved = "error"]

(* `param save` *)
ParamSave == (SaveOk(params) \/ SaveFails(params)) /\ UNCHANGED params

(* The supply fails, possibly in the middle of a save; App_Init probes the FRAM *)
(* and loads (its status words start afresh).                                    *)
Booted(f, ready) ==
    IF ready /\ Readable(f.main)
    THEN [params |-> Stored(f.main, f.ext),
          config |-> [dirty |-> NeedsSave(f.main, f.ext), outcome |-> "fram", saved |-> "none"]]
    ELSE [params |-> Defaults,
          config |-> [dirty |-> TRUE, outcome |-> IF ready THEN "invalid" ELSE "io",
                      saved |-> "none"]]

PowerCycle ==
    \E f \in {configFram} \cup (IF configFram.ready THEN SavedPartly(params) ELSE {}),
       ready \in BOOLEAN :
        /\ configFram' = [f EXCEPT !.ready = ready]
        /\ params' = Booted(f, ready).params
        /\ config' = Booted(f, ready).config

ConfigInit ==
    /\ configFram \in [main : Images \cup {NoImage}, ext : Extensions \cup {NoExtension},
                       ready : BOOLEAN]
    /\ params = Booted(configFram, configFram.ready).params
    /\ config = Booted(configFram, configFram.ready).config

ConfigNext == ParamLoad \/ ParamReset \/ ParamSet \/ ParamSave \/ PowerCycle

ConfigSpec == ConfigInit /\ [][ConfigNext]_configVars

-----------------------------------------------------------------------------
ConfigTypeOK ==
    /\ params \in Params
    /\ config.dirty \in BOOLEAN
    /\ config.outcome \in {"fram", "io", "invalid", "explicit"}
    /\ config.saved \in {"none", "ok", "error"}
    /\ configFram.ext \in Infrareds \cup {NoExtension}

(* Whatever image, of whatever firmware, a load finds, and whatever is set        *)
(* parameter by parameter, the parameters in use satisfy the checks that relate   *)
(* them (ValidateParams).                                                         *)
ParamsValid == ValidateParams(params)

(* The parameters `param status` calls not dirty are those the FRAM holds in the  *)
(* current layout, extension included, so the next boot brings them back; but for *)
(* a save that failed since.                                                      *)
CleanIsStored ==
    ~config.dirty /\ config.saved # "error" =>
        configFram.main.layout = "v17" /\ Stored(configFram.main, configFram.ext) = params

(* The parameters are valid and, when clean, stored (config_store.cpp).           *)
ConfigSound == ParamsValid /\ CleanIsStored
=============================================================================
