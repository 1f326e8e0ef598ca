SPECIFICATION Spec
CONSTANTS
  Dir = {d1, d2, d3}
  FirstDir = d1
  Page = {heap, stack}
  StackPage = {stack}
  Frame = {f1, f2, f3, f4}
  Value = {x, y}
  MaxRefs = 2
  Cpus = 1
  Behaviours = {}
  None = None
SYMMETRY FrameSymmetry
INVARIANTS
  RefCountsExact
  NoPanic
PROPERTIES
  PrivateMemory
CHECK_DEADLOCK FALSE
