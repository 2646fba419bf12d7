\* Three calls, so that a page is remapped and a table found populated.
CONSTANTS
  ENTRIES = 2
  LOW_MEMORY = 4
  MemoryMap <- MCMemoryMap
  Bars <- MCBars
  MAX_TABLES = 15
  MAX_CALLS = 3
SPECIFICATION Spec
INVARIANTS
  MappedSoFar
  KernelMap
  NoStaleTlb
