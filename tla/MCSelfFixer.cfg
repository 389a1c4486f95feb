\* As wired: the file is the program; hybrid mode, three edits, two crashes.
CONSTANTS
  a = a
  b = b
  d = d
  u = u
  Empty = Empty
  Missing = Missing
  Unsealed = Unsealed
  Contents <- MCContents
  Clean <- MCClean
  Unscannable <- MCUnscannable
  Authored <- MCAuthored
  Startable <- MCPrograms
  HasReplica = TRUE
  retention = 1
  MaxEdits = 3
  MaxFaults = 2
SPECIFICATION Spec
INVARIANTS
  TypeOK
  OneReadingPerPass
  SomeBackupIntact
  NoFalseAlarm
  RestoredWhole
PROPERTIES
  MissingIsHandled
  SealCatchesUp
\* A file that others left missing or no program starts nothing.
CHECK_DEADLOCK FALSE
