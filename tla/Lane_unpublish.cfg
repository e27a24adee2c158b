SPECIFICATION Spec
CONSTANTS
  m1 = m1
  m2 = m2
  n1 = n1
  None = None
  Mods = {m1, m2}
  Names = {n1}
  Fingerprints = {0, 1}
  MaxLanes = 2
  MaxLeases = 2
  MaxDepth = 2
  OffThread = FALSE
  UnpublishInCall = TRUE
INVARIANTS
  CalledCodeMapped
CHECK_DEADLOCK FALSE
