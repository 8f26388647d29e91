CONSTANTS
    Parts = {"control", "settings", "gimbal", "foc", "loops", "power", "battery"}
    \* MotorControl
    MaxCount = 6
    Targets <- MCTargets
    Rpms = {0, 1, 2}
    PositionRpm = 1
    AccelRate = 2
    DecelRate = 3
    RampScale = 5
    SpeedPeriod = 1
    PositionPeriod = 2
    Gain = 2
    Cpr = 2
    Enter = 0
    Exit = 3
    Settle = 1
    Slip = {1}
    MaxPushes = 1
    MaxLag = 1
    MaxWrites = 3
    Horizon = 6
    \* BoardConfig
    Values = {0, 1}
    Duties = {0, 1}
    MaxBoardEvents = 2
    \* DmGimbal
    BootDelay = 1
    ProbeInterval = 2
    ProbeTimeout = 2
    SpecialInterval = 1
    EnableTimeout = 2
    OperationTimeout = 2
    StopTimeout = 2
    FeedbackTimeout = 1
    SettleTicks = 1
    Repeats = 3
    Longest = 3
    MaxGlitches = 2
    MaxOrders = 2
    \* FocMotor
    Stale = 2
    SamplePeriod = 1
    Timeout = 1
    TripSamples = 2
    MaxKeys = 2
    MaxFaults = 1
    MaxMisses = 1
    \* FocLoops
    Turn = 8
    Fastest = 2
    MaxTarget = 3
    TargetStep = 2
    PlaceStep = 2
    IqLimit = 3
    IntegralScale = 2
    Filter = 2
    ReleaseError = 1
    Zone = 1
    ErrorDivisor = 1
    Damping = 1
    DirectLimit = 2
    CountsPerRpm = 2
    SpeedLimit = 2
    \* PowerGuard
    Configs <- MCConfigs
    Most = 2
    MaxEvents = 1
    \* Battery
    Volts = {3, 7, 11}
    Currents <- MCCurrents
    Elapsed = {0, 2, 3}
    MaxGap = 2
    Unit = 4
    Capacity = 6
    FullVolts = 11
    Critical = 3
    CriticalRelease = 5
    Low = 6
    LowRelease = 8
    Smoothing = 2
    InitialSamples = 2
SPECIFICATION Spec
INVARIANTS TypeOK RampKeepsRate DrivesTowardsGoal BoardAgrees FocWatched
PROPERTIES GimbalStaysOff TorqueRightWay PowerWatched
CHECK_DEADLOCK FALSE
