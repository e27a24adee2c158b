SPECIFICATION CallsSpec
CONSTANTS
  m1 = m1
  m2 = m2
  n1 = n1
  n2 = n2
  p1 = p1
  p2 = p2
  main = main
  w1 = w1
  None = None
  Mods = {m1, m2}
  Names = {n1, n2}
  Main = main
  Nested = 2
  MaxServices = 2
  Workers = {w1}
  Players = {p1, p2}
  MaxTasks = 2
  MaxForms = 2
  MaxGen = 2
  Specs <- SomeSpecs
  Bare <- Uncoloured
  Inputs = {"", "yes"}
INVARIANT FormsAsFilled
PROPERTIES
  RunsInItsMod
  OnceOrNever
  TasksSettle
  FormsOnceOrNever
  CallEnds
CHECK_DEADLOCK FALSE
