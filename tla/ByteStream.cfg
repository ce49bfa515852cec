SPECIFICATION Spec
CONSTANTS
  BS_INIT_LEN = 8
  Fields <- MCFields
  MaxFields = 3
  Fails = TRUE
  Leftovers = {0, 40, 65535}
CHECK_DEADLOCK FALSE
INVARIANT RoundTrip
INVARIANT FrameWhole
INVARIANT InBounds
INVARIANT HoleNeverSent
