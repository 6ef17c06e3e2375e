SPECIFICATION RSpec
CONSTANTS
  W = 3
  Prefetch = 1
  PageBytes = 2
  WordBytes = 1
  UintPages = 16
  MaxFrame = 8
  MaxRun = 6
  MaxRuns = 2
  MaxHeld = 1
  MemMaps <- MCMemMaps
PROPERTY RunsWereClear
