CONSTANTS
    Goals <- MCGoals
    ShellModes = {"COAST"}
    Limit = 2
    Threshold = 1
    Looping = {1, 2}
    QueueLength = 1
    MaxCommands = 2
    MaxOutages = 0
    MaxTrips = 0
SPECIFICATION Spec
PROPERTIES DriveArmsWatchdog
