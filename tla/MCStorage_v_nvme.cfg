SPECIFICATION Spec
CONSTANTS Sectors = {0, 1}  Values = {1, 2}  Depth = 2  Retries = 2  LbaLimit = 4
  Machines <- MCMachines  MaxCalls = 3  MaxTimeouts = 0  MaxErrors = 0
INVARIANT NvmeAnswerTrue
CHECK_DEADLOCK FALSE
