SPECIFICATION Spec
CONSTANTS
  cpu0 = cpu0
  cpu1 = cpu1
  init = init
  sh = sh
  job = job
  job2 = job2
  reaper = reaper
  None = None
  CPU = {cpu0, cpu1}
  BootCPU = cpu0
  User = {init, job}
  InitProc = init
  Reaper = reaper
  Program <- PairProgram
  Timeslice <- PairTicks
INVARIANTS
  QueuedOnce
CHECK_DEADLOCK FALSE
