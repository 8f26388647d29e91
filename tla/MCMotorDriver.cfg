CONSTANTS
    Writes <- MCWrites
    Duties = {0, 1}
    Rpms = {0}
    Timeouts = {0, 2}
    DefaultTimeout = 2
    QueueLength = 1
    MaxPass = 1
    Horizon = 5
SPECIFICATION Spec
INVARIANTS TypeOK DrivenWithinLease NoUnrequestedMotion StatusTellsTruth
PROPERTIES KeepsPromise
