SPECIFICATION Spec
CONSTANTS
  m1 = m1
  m2 = m2
  None = None
  Mods = {m1, m2}
  Names = {"a"}
  Declarations <- TwoOverloads
  Unknown = "bad"
  Breaks = {0, 1}
  MaxGen = 2
  MaxBindings = 2
INVARIANT GoneIsNulled
CHECK_DEADLOCK FALSE
