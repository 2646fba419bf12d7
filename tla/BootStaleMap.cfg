\* Every map fits the buffer.
CONSTANTS
  CAPACITY = 3
  Descriptor = {d1, d2}
  Nothing = Nothing
  MAX_MAP = 3
  MAX_CHANGES = 1
SPECIFICATION Spec
INVARIANTS
  HeapFromCurrentMap
CHECK_DEADLOCK FALSE
