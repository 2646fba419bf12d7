\* The smallest ring the uses allow: every lap is short and the driver can
\* be a whole lap ahead of the controller.
CONSTANTS
  NUM_TRB = 6
  Body = {b1, b2}
SPECIFICATION Spec
INVARIANTS
  PushNeverFails
  ControllerSeesPublished
PROPERTIES
  ImplementsChannel
  SubmissionsComplete
