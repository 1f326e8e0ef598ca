SPECIFICATION Spec
CONSTANTS
  cpu0 = cpu0
  cpu1 = cpu1
  init = init
  sh = sh
  job = job
  job2 = job2
  reaper = reaper
  None = None
  CPU = {cpu0}
  BootCPU = cpu0
  User = {init, sh, job, job2}
  InitProc = init
  Reaper = reaper
  Program <- FamilyProgram
  Timeslice <- FamilyTicks
INVARIANTS
  ChildrenAdopted
