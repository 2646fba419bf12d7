\* Keyboards with an alternate setting, and a layout of its own in the report
\* protocol.
CONSTANTS
  DescriptorLists <- MCAlternateKeyboards
  InterfaceNumber = {0, 1}
  Key = {k1}
  SLOTS = 2
  Pos = {p1}
  RollOver = RollOver
  None = None
  BOOT_LAYOUT = FALSE
SPECIFICATION Spec
INVARIANTS
  SetProtocolAsMeant
CHECK_DEADLOCK FALSE
