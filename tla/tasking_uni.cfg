SPECIFICATION FairSpec
CONSTANTS
  cpu0 = cpu0
  cpu1 = cpu1
  init = init
  sh = sh
  job = job
  job2 = job2
  reaper = reaper
  None = None
  CPU = {cpu0}
  BootCPU = cpu0
  User = {init, sh, job}
  InitProc = init
  Reaper = reaper
  Program <- ShellProgram
  Timeslice <- OneTick
INVARIANTS
  TypeOK
  NeverInTwoPlaces
  NeverLost
  NoLostWakeup
  DestroyedUnreachable
  ChildrenAdopted
PROPERTIES
  RunnableRuns
  WaiterServed
