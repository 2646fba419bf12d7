\* Three functions, the xHC between two others.  Words of six bits; a BAR that
\* is smaller than a page, and one that is larger than a word.  Two ports, so
\* that one can change while the other is reset, and two devices that come or
\* go, or one that comes back.
CONSTANTS
  NUM_PORTS = 2
  MAX_CHANGES = 2
  FUNCTIONS = 3
  XHC = 1
  WORD = 64
  PAGE_SIZE = 32
  BAR_SIZES = {16, 128}
SPECIFICATION PciSpec
INVARIANTS
  RunsOnCompleteSet
  RegistersReachable
PROPERTIES
  PortWritesHarmless
  BringUpEnds
\* The driver goes on to what Xhci models, or ends.
CHECK_DEADLOCK FALSE
