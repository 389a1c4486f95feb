\* Callers pace their creations: both formats, retention 2, two calls cut short.
CONSTANTS
  c1 = c1
  c2 = c2
  Contents <- MCContents
  Garbage = Garbage
  Raised = Raised
  Nothing = Nothing
  Tokens = {1}
  retention = 2
  encrypt = TRUE
  MinGap = 1
  TicksPerSecond = 1
  MaxTime = 5
  MaxCreates = 4
  MaxFaults = 2
SYMMETRY Symmetry
SPECIFICATION Spec
INVARIANTS
  TypeOK
  ManifestHasBlob
  RestoreFaithful
  HistoryBounded
  HistoryRetained
  OrphansAccounted
  ReturnedExists
CHECK_DEADLOCK FALSE
