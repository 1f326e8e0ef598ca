SPECIFICATION Spec
CONSTANTS
  CPU = {c1}
  BootCPU = c1
  Proc = {p1, p2, p3}
  None = None
  WordBits = 4
  nframes = 12
  Reserved <- FirstFrame
  Overcount = 0
  Region = {}
  Chunks <- FourChunks
  RegionSizes = {1}
  KstackPages = 1
  Requests = {12}
  l_pageSize = 8
  l_pageCount = 2
  MajorHeader = 1
  MinorHeader = 1
  AlignSpace = 0
  HeapPages = 12
  MaxMinors = 3
  MaxRegions = 1
  MaxHeld = 0
  MaxFreed = 0
  Workloads <- StacksAndFree
INVARIANT HeapDisjoint
CHECK_DEADLOCK FALSE
