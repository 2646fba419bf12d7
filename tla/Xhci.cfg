CONSTANTS
  PLACES = 5
  MAX_EVENTS = 3
  NUM_PORTS = 1
  MAX_SLOTS = 2
  Waiter = {w1, w2, w3}
SPECIFICATION Spec
INVARIANTS
  AwaitedExactlyOnce
  NoAddressInUseTwice
  WaitListBounded
PROPERTIES
  RequestsAnswered
\* The task that uses the driver may end, and a panic stops everything.
CHECK_DEADLOCK FALSE
