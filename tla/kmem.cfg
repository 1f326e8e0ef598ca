SPECIFICATION Spec
CONSTANTS
  CPU = {c1, c2}
  BootCPU = c1
  Proc = {p1, p2}
  None = None
  WordBits = 4
  nframes = 8
  Reserved <- FirstFrame
  Overcount = 1
  Region = {"dma", "mmio", "driver"}
  Chunks <- FourChunks
  RegionSizes = {1, 2}
  KstackPages = 1
  Requests = {3, 8}
  l_pageSize = 8
  l_pageCount = 2
  MajorHeader = 1
  MinorHeader = 1
  AlignSpace = 1
  HeapPages = 6
  MaxMinors = 3
  MaxRegions = 2
  MaxHeld = 2
  MaxFreed = 2
  Workloads <- EveryWorkload
INVARIANTS TypeOK HeapDisjointUntilFreed FrameHeldOnce UsedBlocksExact HeapBacked PoolsExact HeapConsistent BestBetLive
CHECK_DEADLOCK FALSE
SYMMETRY Perms
