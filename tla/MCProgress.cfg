CONSTANTS
    Parts = {"goals", "link", "gimbal", "foc", "loops", "power", "store", "imu", "runner", "scan", "tasks", "display", "lora", "text"}
    SlotCount = 2
    MaxCount = 2
    Legacy <- MCLegacy
    Programs <- MCStored
    Spoiled = FALSE
    Blank = FALSE
    ReadErrors = FALSE
    MaxCrashes = 1
    MaxFailures = 1
    MaxRequests = 2
SPECIFICATION PartSpec
PROPERTIES Settles FaultsStop Recovers KeepsPrograms EverythingEnds KeepsServing
CHECK_DEADLOCK FALSE
