CONSTANTS
    RunnerPrograms <- FewPrograms
    Repeats = 1
    MaxCommands = 1
SPECIFICATION RunnerSpec
PROPERTIES TurnDone
