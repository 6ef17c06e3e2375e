CONSTANTS
  E = 3
  MaxFrame = 26
  Pools <- MCPools
  MemEnds = {3, 18, 22}
  Offset = 27
  KernelStart = 72
  KernelEnd = 74
  PhysicalBase = 8
  LateCalls <- MCLateCalls
  NFrames = 3
  BufCnt = 3
  PAGE_SIZE = 4096
  SIZEOF_SLAB = 48
  SIZEOF_BUFCTL = 24
  SIZEOF_HASH_VAL = 1365
  ALIGNOF_SLAB = 8
  BUFS_PER_SLAB = 8
  Sizes <- MCSizes
  None = None
  Vals = {v1, v2}
  Keys = {2, 3, 5}
SPECIFICATION MCSpec
CHECK_DEADLOCK FALSE
INVARIANTS
  TablesAreATree PagerStaysMapped
     BuffersFit
PROPERTIES ImplementsVirtualMemory ImplementsMap HashReturns
