SPECIFICATION Spec
CONSTANTS
  Mods = {m1, m2}
  Used = {"lane", "commands"}
  HookUses = {}
  DirtyFail = TRUE
  MaxObj = 2
  MaxStack = 2
CHECK_DEADLOCK FALSE
INVARIANT NothingOfGoneMods
