SPECIFICATION Spec
CONSTANTS
  u1 = u1
  u2 = u2
  User <- MCUser
  Column <- MCColumn
  MaxRows = 2
  MaxFetches = 1
SYMMETRY UserSymmetry
INVARIANT ReturnsUsers
CHECK_DEADLOCK FALSE
