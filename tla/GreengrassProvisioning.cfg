SPECIFICATION Spec
CONSTANTS
  k1 = k1
  k2 = k2
  x1 = x1
  x2 = x2
  x3 = x3
  Checkouts = {k1, k2}
  Certificates = {x1, x2, x3}
  MaxRuns = 3
  None = None
INVARIANTS
  TypeOK
  CompleteUnlessDisturbed
  InGroupUnlessDisturbed
  NoOrphanCertificate
PROPERTIES
  NeverRepaired
SYMMETRY Symmetry
CHECK_DEADLOCK FALSE
