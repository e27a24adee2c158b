SPECIFICATION HooksSpec
CONSTANTS
  m1 = m1
  m2 = m2
  e1 = e1
  e2 = e2
  c1 = c1
  main = main
  w1 = w1
  None = None
  Mods = {m1, m2}
  Threads = {main, w1}
  Main = main
  Conns = {c1}
  Packets <- SomePackets
  Answers <- SomeAnswers
  MaxSubs = 2
  MaxInbox = 1
  MaxStack <- Stacks
  Events = {e1, e2}
  MaxListeners = 0
  MaxNested = 2
SYMMETRY ModsAlike
INVARIANTS
  RunsInLiveClosure
CHECK_DEADLOCK FALSE
