SPECIFICATION Spec
CONSTANTS
  CPU = {c1}
  BootCPU = c1
  Proc = {}
  None = None
  WordBits = 4
  nframes = 8
  Reserved <- FirstFrame
  Overcount = 0
  Region = {}
  Chunks <- FourChunks
  RegionSizes = {1}
  KstackPages = 1
  Requests = {12}
  l_pageSize = 8
  l_pageCount = 2
  MajorHeader = 1
  MinorHeader = 1
  AlignSpace = 0
  HeapPages = 1
  MaxMinors = 3
  MaxRegions = 1
  MaxHeld = 2
  MaxFreed = 1
  Workloads <- UserAndBrk
INVARIANT ReservedUnused
CHECK_DEADLOCK FALSE
