\* Two writers and a reader, intervals 0 and 2, crashes and failed writes.
CONSTANTS
  w1 = w1
  w2 = w2
  r1 = r1
  d1 = d1
  d2 = d2
  k1 = k1
  k2 = k2
  Writers <- MCWriters
  Readers <- MCReaders
  Data <- MCData
  Keys <- MCKeys
  Nobody = Nobody
  Intervals <- MCIntervals
  MaxEntries = 4
  MaxFaults = 2
SPECIFICATION Spec
INVARIANTS
  TypeOK
  ChainIntact
  CheckpointsTile
  CheckpointsVerifiable
  NoFalseAlarm
  AckedOnDisk
  CheckpointLag
PROPERTIES
  ImplementsFailStop
CHECK_DEADLOCK FALSE
