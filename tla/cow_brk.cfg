SPECIFICATION Spec
CONSTANTS
  Dir = {d1, d2}
  FirstDir = d1
  Page = {heap}
  StackPage = {}
  Frame = {f1, f2}
  Value = {x}
  MaxRefs = 3
  Cpus = 1
  Behaviours = {"brk_shrink"}
  None = None
INVARIANTS
  NoPanic
CHECK_DEADLOCK FALSE
