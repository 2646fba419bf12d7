\* Fields of one, eight and nine bits, alone and in pairs: the second field may
\* start inside a byte and cross into the next, end with the report, or not be
\* in it.
CONSTANTS
  SIZES = {1, 8, 9}
  COUNTS = {1, 2}
  VALUES = {0, 1, 3, 127}
  LAST_BUTTON = 2
  LOGICAL_MIN = 1
  LOGICAL_MAX = 3
  REPORT_LEN = 2
  MAX_FIELDS = 2
  MAX_USAGES = 2
  WIDTH = 5
SPECIFICATION HidSpec
INVARIANTS
  DecodesWhatWasSent
  PointerOnScreen
