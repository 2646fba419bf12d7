\* Four entries: full, empty and every offset of the two sides occur in
\* both lap parities.
CONSTANTS
  NUM_TRB = 4
  Event = {e1, e2}
SPECIFICATION Spec
INVARIANTS
  PopNeverFails
  EmptyHasRoom
PROPERTIES
  ImplementsChannel
  RoomReturns
