SPECIFICATION Spec
CONSTANTS
  u1 = u1
  u2 = u2
  User <- MCUser
  Column <- MCColumn
  MaxRows = 2
  MaxFetches = 2
SYMMETRY UserSymmetry
INVARIANT TypeOK
INVARIANT ReadersOnlyMix
INVARIANT AloneReturnsRows
CHECK_DEADLOCK FALSE
