SPECIFICATION Spec
CONSTANTS
  Procs = {p1, p2}
  Files = {f1, f2}
  Sizes <- MCSizes
  Windows <- MCWindows
  Ops = {Set}
  Counts = {3}
  MaxOffset = 1
  None = None
SYMMETRY MCSymmetry
INVARIANTS TypeOK AccessesExclude FrameSafe WindowsCropped
CHECK_DEADLOCK FALSE
