CONSTANTS
  E = 3
  MaxFrame = 26
  Pools <- MCPools
  MemEnds = {3, 18, 22}
  Offset = 27
  KernelStart = 72
  KernelEnd = 74
  PhysicalBase = 8
  LateCalls <- IoapicCalls

SPECIFICATION Spec

PROPERTY CallsTakeEffect
