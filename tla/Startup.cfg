\* Messages of a character and a newline, one exception at any point.  The
\* smallest screen the test pattern fits is 5 by 8 with scan lines of 5.
\* Memory maps that leave room in the buffer, fill it, or do not fit, and change
\* once.
CONSTANTS
  CAPACITY = 2
  Descriptor = {d1}
  Nothing = Nothing
  MAX_MAP = 3
  MAX_CHANGES = 1
  LEN = 2
  RX_DEPTH = 2
  MAX_TRAPS = 1
  None = None
  WIDTHS = {4, 5}
  HEIGHTS = {7, 8}
  PPLS = {4, 6}
  PATTERN = 4
  MAX_TABLES = 2
  NUM_TIM_CAP = 1
SPECIFICATION StartupSpec
INVARIANTS
  HeapFromMapLeft
  MessagesOut
  PixelsInBuffer
  TimersQuiet
PROPERTIES
  PanicReported
  KeepsRunning
\* The machine may stop.
CHECK_DEADLOCK FALSE
