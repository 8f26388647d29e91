CONSTANTS
    Goals <- MCGoals
    ShellModes = {"COAST", "SPEED", "POSITION"}
    Limit = 2
    Threshold = 1
    Looping = {1}
    QueueLength = 1
    MaxCommands = 2
    MaxOutages = 1
    MaxTrips = 1
SPECIFICATION Spec
INVARIANTS StopHolds ReleasedMeansStopped CommandTakesEffect
