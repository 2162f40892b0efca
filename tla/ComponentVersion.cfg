SPECIFICATION Spec
CONSTANTS
  b1 = b1
  b2 = b2
  b3 = b3
  p1 = p1
  p2 = p2
  c1 = c1
  c2 = c2
  Builds = {b1, b2, b3}
  Components = {c1, c2}
  ComponentsOf <- MCComponentsOf
  Levels = {p1, p2}
  PathOf <- MCPathOf
  AwsLatest <- MCAwsLatest
  None = None
INVARIANTS
  TypeOK
  VersionsConsecutive
  RegisteredHasArtifact
  SerialArtifacts
CHECK_DEADLOCK FALSE
