CONSTANTS
    Stale = 2
    SamplePeriod = 1
    Timeout = 1
    TripSamples = 2
    MaxKeys = 2
    MaxFaults = 1
    MaxMisses = 1
SPECIFICATION FocSpec
INVARIANTS LowFaultCoasts
CHECK_DEADLOCK FALSE
