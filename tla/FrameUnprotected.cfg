SPECIFICATION Spec
CONSTANTS
  Procs = {p1, p2}
  Files = {f1, f2}
  Sizes <- GrowingSizes
  Windows <- FarWindow
  Ops = {Set}
  Counts = {3}
  MaxOffset = 1
  None = None
SYMMETRY MCSymmetry
INVARIANT FramebufferProtected
CHECK_DEADLOCK FALSE
