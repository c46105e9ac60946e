SPECIFICATION Spec
CONSTANTS
  Call = {c1, c2}
  Key = {x, y}
  Short = {s}
  Long = {l}
  Cut = cut
  None = none
  MaxEntries = 3
  MaxDrops = 1
  Limit = 1
SYMMETRY Symmetry
INVARIANT
  HistoryTellsVariables
PROPERTY
  PagesMissNothing
CHECK_DEADLOCK FALSE
