SPECIFICATION Spec
CONSTANTS
  Users = {u1, u2}
  Ids = {i1, i2}
  Names = {n1, n2}
  Absent = Absent
SYMMETRY SourceSymmetry
\* Every identity was used and deleted.
CHECK_DEADLOCK FALSE
INVARIANTS
  NoOrphanToken
  NamesUnique
PROPERTIES
  NoLostUpdate
  ImplementsDirectory
  TokenInUseIsKept
