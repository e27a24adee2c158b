SPECIFICATION Spec
CONSTANTS
  p1 = p1
  None = None
  Players = {p1}
  Positions <- Halves
  Blocks <- SomeBlocks
  Plots = {"west", "east"}
  PlotOf <- PlotOfBlock
  Deniable = {"west"}
  Ttl = 2
  MaxEntries = 1
INVARIANT DecidedWhereItIs
CHECK_DEADLOCK FALSE
