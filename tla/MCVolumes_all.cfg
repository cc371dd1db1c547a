CONSTANTS
    UNITS = 1
    Clusters <- C
    ExClusters <- XC
    SLOTS = 3
    EXFAT_SLOTS = 1
    CACHE_SLOTS = 2
    RootEntries = 3
    InodeCount = 4
    DIRECT = 1
    PTRS = 1
    HeapUnits = 1
    Names = {na, nb}
    Data = {"x"}
    Dir = Dir
    Lost = Lost
    Kinds = {"fat", "exfat", "ext2", "ramfs"}
    MaxWrite = 1
    MaxOffset = 2
    MaxFd = 1
SYMMETRY Renaming
SPECIFICATION Spec
INVARIANTS BlocksExclusive
  
CHECK_DEADLOCK FALSE
