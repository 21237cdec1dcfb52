SPECIFICATION Spec
CONSTANTS
  wsSendBuffer = 2
  Held = 3
  MaxMsgs = 5
INVARIANTS
  ClosedIsUnreachable
  DrainedBeforeBye
PROPERTY
  BothGoroutinesEnd
CHECK_DEADLOCK FALSE
