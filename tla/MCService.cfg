\* Three processes in any modes, two kills or failed writes; passes raise at will.
CONSTANTS
  Main = Main
  Nobody = Nobody
  k1 = k1
  Keys <- MCKeys
  Intervals <- MCIntervals
  Environments <- MCEnvironments
  MaxRuns = 3
  MaxFaults = 2
SPECIFICATION Spec
INVARIANTS
  TypeOK
  KeysOutliveTheirUse
  RefusedOnlyAfterCut
  AuditTells
  LeavesSealed
PROPERTIES
  StopHonoured
  StartServes
CHECK_DEADLOCK FALSE
