\* One object, and a ledger write that fails once.
CONSTANTS
  o1 = o1
  o2 = o2
  k1 = k1
  k2 = k2
  k3 = k3
  Objects <- OneObject
  Identities <- MCIdentities
  None = None
  NoBody = NoBody
  MaxLines = 3
  MaxFaults = 1
SPECIFICATION Spec
INVARIANT RotationAllOrNothing
CHECK_DEADLOCK FALSE
