SPECIFICATION EngineSpec
CONSTANTS
  m1 = m1
  m2 = m2
  e1 = e1
  e2 = e2
  c1 = c1
  main = main
  w1 = w1
  None = None
  Mods = {m1, m2}
  Threads = {main, w1}
  Main = main
  Conns = {c1}
  Packets <- SomePackets
  Answers <- SomeAnswers
  MaxSubs = 2
  MaxInbox = 1
  MaxStack <- Stacks
  Events = {e1, e2}
  MaxListeners = 3
  MaxNested = 2
  MaxLive = 2
  p1 = p1
  p2 = p2
  Players = {p1, p2}
  Positions <- Halves
  Blocks <- BothSides
  Plots = {"west", "east"}
  PlotOf <- PlotOfBlock
  Deniable = {"west"}
  Ttl = 2
  MaxEntries = 1
  Unit = 2
  Factors = {1, 2, 4}
  Steps = {1, 2}
  MaxPending = 2
  Windows = {1, 2}
  d1 = d1
  RuledDims = {d1}
  Rules = {"PistonCrossPlot", "EntityCrossPlot"}
  MaxRules = 2
  Sizes <- SomeSizes
  Tables <- SomeTables
  Spots <- SomeSpots
  ScanLimit = 3
  NoGrid = NoGrid
  n1 = n1
  n2 = n2
  DimNames = {n1, n2}
  EngineIds = {4, 5}
  MaxBoot = 2
  Layouts <- SomeLayouts
  MinY <- Below
  MaxY = 4
  BedrockY <- Bottom
  Width = 3
  GenXs <- AboutMiddle
  SavedDims = {3}
  SavedXs <- Corner
  SavedZs <- Corner
CONSTRAINTS
  OrdinaryTogether
  NestedAlike
  TwoAmiss
  OneAtATime
SYMMETRY ModsAlike
INVARIANTS
  EveryHookSees
  ForwardsChain
  EveryListenerAsked
  NothingUnasked
  DecisionFresh
  ClockExact
  CounterMatches
  AnswersAreRegions
  IdsHold
  ChunksAsPromised
  ErasedIsGenerated
PROPERTIES
  PumpDrains
CHECK_DEADLOCK FALSE
