SPECIFICATION Spec
CONSTANTS
  RustMods = {1, 2}
  CppMods = {}
  Disks <- SafeDisks
  Edits <- NoEdits
  EditLoaded = FALSE
  MaxEdits = 0
  MaxStack = 2
INVARIANT DependenciesLoaded
CHECK_DEADLOCK FALSE
