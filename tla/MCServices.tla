----------------------------- MODULE MCServices -----------------------------
(***************************************************************************)
(* Services, one part at a time: the parts have no step in common, "part"  *)
(* picks one of them for the whole behaviour, and the others stay in one   *)
(* initial state of theirs.                                                *)
(***************************************************************************)
EXTENDS Services

CONSTANT Parts   \* the parts that are looked at

VARIABLE part    \* the part that runs; it never changes

estimator == <<est, lastFixed, yaw, rest, truth, seen, still, learntFor, imuCommands>>
all == <<part, vars, imuVars, runnerVars, tableVars, scanVars, lineVars, schedVars, displayVars,
         loraVars, txVars, inputVars>>

-----------------------------------------------------------------------------
MCLegacy == {<<<<1, 0>>>>, <<<<2, 0>>, <<1, 0>>>>}
MCStored == {<<<<1, 2>>>>, <<<<1, 0>>, <<2, 2>>>>}

MCDefaults == [trip |-> 0, release |-> 1, mask |-> "new", infrared |-> "off", bias |-> 0]
MCLegacyParams == [MCDefaults EXCEPT !.mask = "legacy"]
MCRefused == [MCDefaults EXCEPT !.trip = 1]
Parameters(layout, p, other) == [layout |-> layout, params |-> p, other |-> other]
MCImages == {
    Parameters("v17", MCDefaults, MCDefaults),
    Parameters("v16", [MCLegacyParams EXCEPT !.bias = 1], MCDefaults),
    Parameters("v16", MCRefused, MCLegacyParams),
    Parameters("v16", MCRefused, MCRefused),
    Parameters("old", MCLegacyParams, MCDefaults),
    Parameters("old", [MCDefaults EXCEPT !.mask = "custom"], MCDefaults)}

S(op, next, other) == [op |-> op, next |-> next, other |-> other]
MCStraight == <<S("straight", 0, 0), S("follow", 0, 0), S("loop", 1, 4), S("end", 0, 0)>>
MCPrograms ==
    {<<S("uturn", 0, 3), S("turnOff", 0, 0), S("wait", 0, 4), S("straight", 0, 0)>>,
     <<S("driveMm", 0, 2), S("turn", 0, 0), S("drive", 0, 3), S("stop", 1, 0)>>,
     MCStraight}

I(kind, wheel, value, button2, success, expired) ==
    [kind |-> kind, rpm |-> wheel, value |-> value, button2 |-> button2,
     onSuccess |-> success, onTimeout |-> expired]
MCOffered == {
    I("drive", 2, 0, FALSE, 0, 0), I("if", 0, 1, TRUE, 2, 0), I("driveIf", 1, 0, FALSE, 0, 1),
    I("roadNav", 1, 1, FALSE, 0, 0), I("dmPosition", 0, 1, FALSE, 1, 2),
    I("loop", 0, 0, FALSE, 1, 2), I("end", 0, 0, FALSE, 0, 0)}

MCBoot == <<"chassis">>
MCPeriod == [chassis |-> 2, telem |-> 1, imu |-> 1, gray |-> 1]

MCBiases == -2..2
MCTruths == {-4, 1}
MCOuter == <<"a", "b">>
MCCore == <<"c", "d">>

-----------------------------------------------------------------------------
PartInit ==
    /\ part \in Parts
    /\ Init /\ (part # "store" => fram = Factory)
    /\ ImuInit
    /\ part # "config" => configFram.main = NoImage /\ configFram.ext = NoExtension
    /\ part \notin {"config", "imu"} => configFram.ready
    /\ part # "imu" => rest /\ truth = 1
    /\ RunnerInit /\ (part # "runner" => car = ResetCar /\ program = MCStraight)
    /\ TableInit /\ (part # "program" => limit = 1)
    /\ ScanInit /\ LineInit /\ SchedInit
    /\ DisplayInit /\ (part # "display" => selected = 1)
    /\ LoraInit /\ TxInit /\ InputInit

OnlyStore == UNCHANGED <<part, imuVars, runnerVars, tableVars, scanVars, lineVars, schedVars,
                         displayVars, loraVars, txVars, inputVars>>
OnlyParameters == UNCHANGED <<part, vars, runnerVars, tableVars, scanVars, lineVars, schedVars,
                              displayVars, loraVars, txVars, inputVars>>
OnlyRunner == UNCHANGED <<part, vars, imuVars, tableVars, scanVars, lineVars, schedVars,
                          displayVars, loraVars, txVars, inputVars>>
OnlyEditor == UNCHANGED <<part, vars, imuVars, runnerVars, scanVars, lineVars, schedVars,
                          displayVars, loraVars, txVars, inputVars>>
OnlySampler == UNCHANGED <<part, vars, imuVars, runnerVars, tableVars, lineVars, schedVars,
                           displayVars, loraVars, txVars, inputVars>>
OnlyMarkings == UNCHANGED <<part, vars, imuVars, runnerVars, tableVars, scanVars, schedVars,
                            displayVars, loraVars, txVars, inputVars>>
OnlyScheduler == UNCHANGED <<part, vars, imuVars, runnerVars, tableVars, scanVars, lineVars,
                             displayVars, loraVars, txVars, inputVars>>
OnlyPanel == UNCHANGED <<part, vars, imuVars, runnerVars, tableVars, scanVars, lineVars,
                         schedVars, loraVars, txVars, inputVars>>
OnlyRadio == UNCHANGED <<part, vars, imuVars, runnerVars, tableVars, scanVars, lineVars,
                         schedVars, displayVars, txVars, inputVars>>
OnlyConsole == UNCHANGED <<part, vars, imuVars, runnerVars, tableVars, scanVars, lineVars,
                           schedVars, displayVars, loraVars, inputVars>>
OnlyInput == UNCHANGED <<part, vars, imuVars, runnerVars, tableVars, scanVars, lineVars,
                         schedVars, displayVars, loraVars, txVars>>

(* The estimator only knows the bias, and the parts of GrayLine are looked   *)
(* at apart: the position, the roads and the calibration.                    *)
BiasOnly == params'.mask = params.mask /\ params'.infrared = params.infrared
TrackOnly == road' = road /\ lineCommands' < 2
RoadsOnly == gap' = 0 /\ track'.at < 2 /\ capture' = capture /\ surface' = surface /\ lineCommands' + lineResets' < 2
LevelsOnly == track' = track /\ road' = road

PartNext ==
    \/ part = "store" /\ Next /\ OnlyStore
    \/ part = "imu" /\ ImuNext /\ BiasOnly /\ OnlyParameters
    \/ part = "config" /\ ConfigNext /\ OnlyParameters /\ UNCHANGED estimator
    \/ part = "runner" /\ RunnerNext /\ OnlyRunner
    \/ part = "program" /\ TableNext /\ OnlyEditor
    \/ part = "scan" /\ ScanNext /\ OnlySampler
    \/ part = "track" /\ LineNext /\ TrackOnly /\ OnlyMarkings
    \/ part = "roads" /\ LineNext /\ RoadsOnly /\ OnlyMarkings
    \/ part = "levels" /\ LineNext /\ LevelsOnly /\ OnlyMarkings
    \/ part = "tasks" /\ SchedNext /\ OnlyScheduler
    \/ part = "display" /\ DisplayNext /\ OnlyPanel
    \/ part = "lora" /\ LoraNext /\ OnlyRadio
    \/ part = "text" /\ TxNext /\ OnlyConsole
    \/ part = "lines" /\ InputNext /\ OnlyInput

PartSpec == PartInit /\ [][PartNext]_all

-----------------------------------------------------------------------------
ASSUME ConstantsAreLegal == ServicesConstants
=============================================================================
