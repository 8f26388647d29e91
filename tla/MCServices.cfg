CONSTANTS
    Parts = {"store", "imu", "config", "runner", "program", "scan", "track", "roads", "levels", "tasks", "display", "lora", "text", "lines"}
    SlotCount = 2
    MaxCount = 2
    Legacy <- MCLegacy
    Programs <- MCStored
    Spoiled = TRUE
    Blank = TRUE
    ReadErrors = TRUE
    MaxCrashes = 1
    MaxFailures = 2
    MaxRequests = 2
    TableSlots = {0}
    MaxInstrs = 2
    Limits = {1, 2}
    Offered <- MCOffered
    BootTasks <- MCBoot
    Late = {"telem", "imu", "gray"}
    Period <- MCPeriod
    TaskSlots = 3
    Wrap = 12
    Behind = 3
    Profiles = {"full", "motor"}
    MaxOrders = 3
    Payloads = {"p"}
    Numbers = 4
    MaxRetries = 1
    AckTimeout = 1
    QueueDepth = 1
    InAir = 2
    MaxSends = 3
    MaxLosses = 2
    MaxResets = 1
    RunnerPrograms <- MCPrograms
    Repeats = 1
    MaxCommands = 2
    Levels = {0, 1}
    Masks = {"legacy", "new", "custom"}
    Infrareds = {"off", "on", "bad"}
    Biases <- MCBiases
    Defaults <- MCDefaults
    Images <- MCImages
    Extensions = {"off", "on", "bad"}
    Truths <- MCTruths
    RequiredSamples = 2
    Window = 2
    Cooldown = 2
    RuntimeLimit = 3
    MeanLimit = 4
    FilterDivisor = 2
    StepLimit = 1
    MaxImuCommands = 2
    Outer <- MCOuter
    Core <- MCCore
    MaxErrors = 2
    MaxReads = 2
    Segments = {1, 2, 3}
    Sides = {"left", "right"}
    MaxWeak = 3
    Confirm = 2
    ExitConfirm = 2
    Rearm = 2
    MaxObserve = 5
    CaptureFrames = 2
    MaxNumber = 3
    MaxMissed = 2
    MaxLineResets = 1
    MaxLineCommands = 6
    Monitors = {"imu", "gray"}
    Selections = {1, 2}
    LongestTime = 2
    Refresh = 1
    MaxPanelOrders = 4
    TxSize = 4
    Block = 2
    LongestText = 3
    MaxBytes = 5
    MaxFaults = 1
    Chars = {"a", "b"}
    RxSize = 3
    LineSize = 3
    MaxTyped = 5
SPECIFICATION PartSpec
INVARIANTS ServicesTypeOK ConfigSound WheelsOwned TableSound ArrayTrue TasksKept DeliveredOnce ConsoleTrue
PROPERTIES StoreTruthful BiasHonest ProgramsAnswered JunctionsCounted
CHECK_DEADLOCK FALSE
