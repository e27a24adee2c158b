SPECIFICATION CommsSpec
CONSTANTS
  m1 = m1
  m2 = m2
  n1 = n1
  n2 = n2
  c1 = c1
  main = main
  None = None
  Mods = {m1, m2}
  Names = {n1, n2}
  Fingerprints = {0, 1}
  MaxLanes = 2
  MaxLeases = 2
  MaxDepth = 3
  OffThread = FALSE
  UnpublishInCall = FALSE
  Topics = {c1}
  Main = main
  MaxSubs = 2
  Nested = 2
INVARIANTS
  NamesExclusive
  FlagTracksTable
  StrongBalanced
  CalledCodeMapped
PROPERTIES
  KeepsPromise
  UnloadEnds
  PublishEnds
CHECK_DEADLOCK FALSE
