SPECIFICATION Spec
CONSTANTS
  W = 4
  Prefetch = 3
  PageBytes = 2
  WordBytes = 1
  UintPages = 16
  MaxFrame = 15
  MemMaps <- MCMemMaps
INVARIANTS
  NoDoubleAllocation
  OnlyUsableFrames
  BitmapCoversMemory
PROPERTIES
  ImplementsFrameAllocator
