\* The claim that acknowledged entries survive the process, which the code breaks.
CONSTANTS
  w1 = w1
  w2 = w2
  r1 = r1
  d1 = d1
  d2 = d2
  k1 = k1
  k2 = k2
  Writers <- MCWriters
  Readers <- MCReaders
  Data <- MCData
  Keys <- MCKeys
  Nobody = Nobody
  Intervals <- MCTwo
  MaxEntries = 2
  MaxFaults = 1
SPECIFICATION Spec
INVARIANT RecoverableAfterExit
CHECK_DEADLOCK FALSE
