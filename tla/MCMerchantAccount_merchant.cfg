SPECIFICATION Spec
CONSTANTS
  Null = Null
  Foreign = Foreign
  Reqs = {r1, r2, r3}
  Files = {f1, f2, f3}
  Keys = {a1}
  MaxRequests = 5
  MaxFaults = 1
SYMMETRY Symmetry
INVARIANTS
  TypeOK
  
  OrphansBounded
  RegistrationsAgree
  RevocationSettles
CHECK_DEADLOCK FALSE
