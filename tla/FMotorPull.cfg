CONSTANTS
    MaxCount = 5
    Targets <- MCTargets
    Rpms = {0, 1}
    PositionRpm = 1
    AccelRate = 1
    DecelRate = 1
    RampScale = 1
    SpeedPeriod = 1
    PositionPeriod = 2
    Gain = 1
    Cpr = 3
    Enter = 0
    Exit = 1
    Settle = 1
    Slip = {1}
    MaxPushes = 3
    MaxLag = 1
    MaxWrites = 3
    Horizon = 3
SPECIFICATION ControlSpec
INVARIANTS DrivesTowardsGoal
