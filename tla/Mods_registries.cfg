SPECIFICATION ModsSpec
CONSTANTS
  RustMods = {1, 2, 3}
  CppMods = {4}
  Disks <- AllDisks
  Edits <- AnyEdit
  EditLoaded = FALSE
  MaxEdits = 1
  MaxStack = 1
  MapNames = {1, 2, 3}
  MaxDeps = 2
  m1 = m1
  m2 = m2
  None = None
  Mods = {m1, m2}
  Used = {"bus", "lane", "commands"}
  HookUses = {"bus", "commands"}
  DirtyFail = FALSE
  MaxObj = 2
  MaxOps = 3
  CommandWords = {"a", "b"}
  Unknown = "bad"
  Breaks = {0}
  MaxGen = 2
  MaxBindings = 3
  EventNames = {"chat", "cmd", "done"}
  Spellings = {"chat", "cmd", "done", "amb"}
  CommandEvents = {"cmd", "done"}
  Executed = {"done"}
  Own = {"health", "dim"}
  Player = "player"
  Dim = "dim"
  Health = {0}
  Absent = Absent
  MaxListeners = 2
  MaxWrites = 2
  t1 = t1
  t2 = t2
  p1 = p1
  Threads = {t1, t2}
  Paths = {p1}
  Values = {0, 1}
  MaxOpen = 2
  MaxStart = 2
  KeyNames = {"j", "k"}
  Addresses = {1, 2}
  MaxHandlers = 3
  c1 = c1
  Topics = {c1}
  Main = t1
  MaxSubs = 2
  Nested = 2
INVARIANTS
  DependenciesLoaded
  OnlySafeReloaded
  NothingOfGoneMods
  HandleIsOwn
  RunningCodeMapped
  TornDownIsInert
  CalledInOrder
  EverySubscriberRuns
  CallsItsHolder
  EditsArrive
  ReadsOneState
  HeardOnce
PROPERTIES
  ReloadRestores
  UnloadPlan
  MainCallsEnabled
CONSTRAINT PassedByHooks
SYMMETRY ModsAlike
CHECK_DEADLOCK FALSE
