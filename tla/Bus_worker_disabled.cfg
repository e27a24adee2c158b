SPECIFICATION Spec
CONSTANTS
  m1 = m1
  m2 = m2
  c1 = c1
  main = main
  worker = worker
  None = None
  Mods = {m1, m2}
  Topics = {c1}
  Threads = {main, worker}
  Main = main
  MaxSubs = 2
  MaxDepth = 2
  MaxStack = 2
PROPERTIES
  CalledWhileEnabled
