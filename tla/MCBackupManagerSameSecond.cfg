\* Two creations inside one second, as tests and scripts make them.
CONSTANTS
  c1 = c1
  c2 = c2
  Contents <- MCContents
  Garbage = Garbage
  Raised = Raised
  Nothing = Nothing
  Tokens = {1, 2}
  retention = 1
  encrypt = TRUE
  MinGap = 0
  TicksPerSecond = 2
  MaxTime = 1
  MaxCreates = 2
  MaxFaults = 0
SYMMETRY Symmetry
SPECIFICATION Spec
INVARIANT ReturnedExists
CHECK_DEADLOCK FALSE
