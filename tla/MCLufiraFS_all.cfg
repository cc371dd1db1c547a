SPECIFICATION Spec
CONSTANTS
  InodeCount = 3
  DataBlocks = 4
  DIRECT_BLOCKS = 1
  PTRS_PER_BLOCK = 1
  DIRENTS_PER_BLOCK = 3
  BLOCK_SIZE = 1
  InodesPerBlock = 2
  Names = {na, nb}
  Data = {"x"}
  MaxWrite = 1
  MaxFd = 1
  MaxCrash = 1
  Off = Off
  Dir = Dir
  Lost = Lost
SYMMETRY Renaming
INVARIANTS BlocksExclusive 
PROPERTIES CrashKeeps LossOnlyWhenFull 
