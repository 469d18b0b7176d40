SPECIFICATION Spec
CONSTANTS
  None = None
  i1 = i1
  i2 = i2
  p1 = p1
  p2 = p2
  Nips = 3
  Invoice = {i1}
  Owner <- SecondOwner
  Profile = {p1}
  Route <- OneAccount
  Slot = {s1, s2}
  MaxConcurrent = 2
  CatchUp = TRUE
  Mac = FALSE
INVARIANTS TypeOK TasksAreLimited DoneIsAlerted OnlyUnmarkedAreSent
SYMMETRY Symmetry
