\* Every state allows another retrieveData: the system never stops.
SPECIFICATION FairSpec
CONSTANTS
  r1 = r1
  r2 = r2
  r3 = r3
  Records = {r1, r2, r3}
  PayloadSize <- MCPayloadSize
  Compressed = {r2}
  HeaderSize = 2
  MaxGarbage = 9
  TornWrites = TRUE
INVARIANTS
  TypeOK
  RetrievesIntactFront
  ExactWithoutTears
  ParseBound
PROPERTIES
  RetrieveEnds
CHECK_DEADLOCK TRUE
