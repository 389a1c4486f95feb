\* SelfFixer on another file: a restore cut short, and the passes after it.
CONSTANTS
  a = a
  b = b
  d = d
  u = u
  Empty = Empty
  Missing = Missing
  Unsealed = Unsealed
  Contents <- MCContents
  Clean <- MCClean
  Unscannable <- MCUnscannable
  Authored <- MCAuthored
  Startable <- MCAnything
  HasReplica = TRUE
  retention = 2
  MaxEdits = 2
  MaxFaults = 1
SPECIFICATION Spec
INVARIANT RestoredWhole
