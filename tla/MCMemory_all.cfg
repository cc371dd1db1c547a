CONSTANTS
    MaxProcs = 2
    NPages = 3
    MaxVa = 2
    MaxLen = 2
    MaxRegions = 2
    MaxFreeRanges = 1
    MaxShared = 2
    Drivers = {1}
    Failures = {"table"}
    Calls = {"mmap", "munmap", "mmio", "dma", "attach", "fetch", "fork", "exec"}
SPECIFICATION Spec
INVARIANTS AreasDisjoint PagesOwned RefsExact
