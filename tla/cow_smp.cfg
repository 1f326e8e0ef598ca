SPECIFICATION Spec
CONSTANTS
  Dir = {d1, d2, d3}
  FirstDir = d1
  Page = {heap}
  StackPage = {}
  Frame = {f1, f2, f3}
  Value = {x}
  MaxRefs = 2
  Cpus = 2
  Behaviours = {"brk_shrink", "kernel_write"}
  None = None
SYMMETRY FrameSymmetry
INVARIANTS
  TypeOK
  OperationsInProgress
  NeverOvercounted
CHECK_DEADLOCK FALSE
