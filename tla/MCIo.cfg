CONSTANTS
    MaxProcs = 2
    MaxFd = 2
    MaxFiles = 3
    StdFds = 1
    MaxPipes = 1
    PipeSize = 2
    Byte = {0, 1}
    KeySize = 1
    Keys = {1}
    Texts <- MCTexts
    MaxCount = 2
    Shared = FALSE
    Oom = FALSE
SPECIFICATION MCSpec
INVARIANT DescriptorsValid
INVARIANT EndsCounted
INVARIANT BlockedIsServed
PROPERTY StreamSpec
 
