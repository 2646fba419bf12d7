\* Two keys and room for one, so that a rollover happens.
CONSTANTS
  DescriptorLists <- MCDescriptorLists
  InterfaceNumber = {0, 1}
  Key = {k1, k2}
  SLOTS = 1
  Pos = {p1, p2}
  RollOver = RollOver
  None = None
  BOOT_LAYOUT = TRUE
SPECIFICATION Spec
INVARIANTS
  ConfiguredForInterface
PROPERTIES
  InputFollowed
\* A device without keys and pointer is left alone at the end.
CHECK_DEADLOCK FALSE
