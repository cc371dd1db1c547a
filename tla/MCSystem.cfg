CONSTANTS
    Sectors = {0, 1}
    Values = {1, 2}
    Depth = 2
    Retries = 2
    LbaLimit = 4
    Machines <- MCMachines
    MaxCalls = 3
    MaxTimeouts = 1
    MaxErrors = 1
SPECIFICATION MCSpec
INVARIANTS AnswerTrue HeapSound RestartKeepsUsers HomesOfTheirUsers  PagesExact  ScreenTrue
