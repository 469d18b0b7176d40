SPECIFICATION Spec
CONSTANTS
  None = None
  Proc = {p1}
  Invoice = {i1, i2}
  MaxTime = 4
  Grain = 2
  Epoch = 0
  MaxRange = 2
  MinWindow = 2
  Job <- LonelyJobs
INVARIANTS TypeOK CursorIsFinal FailedIsRetried NothingSkipped
PROPERTIES OneOffRunsAreIsolated OnlyFloorDropsCoverage OnlyResetMovesBack
SYMMETRY Symmetry
