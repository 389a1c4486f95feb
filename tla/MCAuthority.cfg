\* Two objects on one directory, three identities, two crashes or failed writes.
CONSTANTS
  o1 = o1
  o2 = o2
  k1 = k1
  k2 = k2
  k3 = k3
  Objects <- TwoObjects
  Identities <- MCIdentities
  None = None
  NoBody = NoBody
  MaxLines = 4
  MaxFaults = 2
SYMMETRY Symmetry
SPECIFICATION Spec
INVARIANTS
  TypeOK
  LedgerChained
  FailsClosed
  LeasesHonoured
  SignersKept
  IdentityOnRecord
PROPERTY ImplementsTrail
CHECK_DEADLOCK FALSE
