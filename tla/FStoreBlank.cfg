CONSTANTS
    SlotCount = 2
    MaxCount = 2
    Legacy <- MCLegacy
    Programs <- MCPrograms
    Spoiled = FALSE
    Blank = TRUE
    ReadErrors = FALSE
    MaxCrashes = 1
    MaxFailures = 0
    MaxRequests = 0
SPECIFICATION FairSpec
PROPERTIES Recovers
