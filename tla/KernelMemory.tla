---------------------------- MODULE KernelMemory ----------------------------
(***************************************************************************)
(* Where the kernel gets its own memory: physical frames (mem/pmm.c), the  *)
(* DMA, MMIO and driver regions (mem/regions.c) on top of pools of virtual *)
(* chunks (misc/pool.c), and the kernel heap, whose pages are taken both   *)
(* by liballoc (mem/liballoc) and, for the kernel stacks of processes, by  *)
(* mem_allocate (arch/x86_64/mem.c).                                       *)
(*                                                                         *)
(* Every critical section is one step of a CPU, and steps of other CPUs    *)
(* come between two of them.  So mem_allocate, which reads the end of the  *)
(* heap before it takes heap_lock, the regions, which take chunks from     *)
(* their pool before they take frames, and realloc take several steps.     *)
(* liballoc_alloc holds liballoc_lock and mem_allocate heap_lock: neither  *)
(* keeps the other out, but the loop of each over its pages is one step;   *)
(* when they meet on a page, the order of these steps says who maps it     *)
(* last.  The counter that pmm_allocateBlock asks without frame_lock is    *)
(* read in the step that follows: a stale reading could only turn a panic  *)
(* into a search of the bitmap.  Heap pages are numbered from 1, frames    *)
(* and chunks from 0.  The page tables of these regions exist already.     *)
(***************************************************************************)
EXTENDS Bitmap, Liballoc, FiniteSets

CONSTANTS CPU, BootCPU,
          Proc,          \* process slots
          nframes,       \* pmm_maxBlocks
          Reserved,      \* frames that arch_mark_memory leaves marked
          Overcount,     \* frames that arch_mark_memory counts twice
          Region,        \* pools of virtual chunks: "dma", "mmio", "driver"
          Chunks,        \* the size of each pool, in chunks
          RegionSizes,   \* the sizes drivers ask for, in chunks
          KstackPages,   \* PROCESS_KSTACK_SIZE in pages
          Requests,      \* the sizes callers of kmalloc ask for
          Workloads,     \* what the kernel does in a behaviour, see workload
          \* bounds
          HeapPages,     \* heap pages looked at
          MaxMinors,     \* live kmalloc blocks
          MaxRegions,    \* live regions
          MaxHeld,       \* user pages
          MaxFreed       \* how far pmm_usedBlocks may fall below zero

ASSUME KernelMemoryAssumption ==
  /\ BootCPU \in CPU
  /\ nframes \in Nat /\ Overcount \in Nat
  /\ Reserved \subseteq 0 .. nframes - 1 /\ 0 \in Reserved
  /\ Region \subseteq {"dma", "mmio", "driver"}
  /\ Chunks \in [Region -> Nat]
  /\ RegionSizes \subseteq Nat \ {0}
  /\ Workloads \subseteq SUBSET {"user", "brk", "regions", "malloc", "free", "realloc",
                           "stacks", "exit", "smp"}

VARIABLES
  frames, pmm_usedBlocks,        \* pmm.c: the bitmap and its counter
  held,                          \* frame behind each user page
  bitmap, used,                  \* pool_t.bitmap and .used of each region
  regions,                       \* live regions: first chunk and the frame behind
                                 \* each chunk
  page,                          \* frame behind each heap page
  mem_kernelHeap, liballoc_first_free_page,
  heap,                          \* liballoc's own state
  kstack,                        \* first page of each process's kernel stack
  pending,                       \* what a CPU does between two of its steps
  workload,                      \* what happens: "user" pages come and go, "brk"
                                 \* shrinks heaps over untouched pages, drivers
                                 \* use "regions"; "malloc", "free" and "realloc"
                                 \* of heap blocks, "stacks" and "exit" of
                                 \* processes; "smp" when several CPUs run
  panic

pmm_vars == <<frames, pmm_usedBlocks>>
region_vars == <<bitmap, used, regions>>
heap_vars == <<page, mem_kernelHeap, liballoc_first_free_page, heap, kstack>>
vars == <<pmm_vars, held, region_vars, heap_vars, pending, workload, panic>>

Longest == Max(RegionSizes)
Chunk(r) == 0 .. Chunks[r] + Longest - 2
HeapPage == 1 .. HeapPages
UserPage == 1 .. MaxHeld

\* A device's own memory, which pmm.c does not manage.
Device == -1

Init ==
  /\ frames = Reserved
  /\ pmm_usedBlocks = Cardinality(Reserved) + Overcount
  /\ held = [i \in UserPage |-> None]
  /\ bitmap = [r \in Region |-> {}]
  /\ used = [r \in Region |-> 0]
  /\ regions = [r \in Region |-> {}]
  /\ page = [i \in HeapPage |-> None]
  /\ mem_kernelHeap = 1
  /\ liballoc_first_free_page = 0
  /\ heap = NoHeap
  /\ kstack = [p \in Proc |-> 0]
  /\ pending = [c \in CPU |-> None]
  /\ workload \in Workloads
  /\ panic = None

Doing(c, op) == pending[c] # None /\ pending[c].op = op

Majors == Range(heap.majors)
PagesOf(start, n) == start .. start + n - 1

\* Pages of a process's kernel stack, from the moment they are mapped.
StackPages(p) ==
  UNION ({PagesOf(kstack[q], KstackPages) : q \in {q \in {p} : kstack[q] # 0}}
         \cup {PagesOf(pending[c].start, KstackPages) :
                 c \in {c \in CPU : Doing(c, "locked") /\ pending[c].what = p}})

\* No two users of the kernel heap share a page: neither two blocks of liballoc,
\* nor two kernel stacks, nor one of each (mem_allocate: "Pointer to the new
\* region of memory").
HeapDisjoint ==
  /\ \A i, j \in DOMAIN heap.majors : i # j =>
       PagesOf(heap.majors[i].base, heap.majors[i].pages)
         \cap PagesOf(heap.majors[j].base, heap.majors[j].pages) = {}
  /\ \A p, q \in Proc : p # q => StackPages(p) \cap StackPages(q) = {}
  /\ \A maj \in Majors, p \in Proc :
       PagesOf(maj.base, maj.pages) \cap StackPages(p) = {}

\* A behaviour ends when the kernel panics, and when two users share a page: from
\* then on the contents of the heap, liballoc's lists among them, are undefined.
Alive == panic = None /\ HeapDisjoint

Runs(c) ==
  /\ pending[c] = None
  /\ c = BootCPU \/ "smp" \in workload

-----------------------------------------------------------------------------
(* Physical frames.  A call that loops over pages changes several of these *)
(* in turn, so calls are functions of m, which stands for all of them.     *)

Memory == [frames |-> frames, used |-> pmm_usedBlocks, page |-> page,
           end |-> mem_kernelHeap, first |-> liballoc_first_free_page,
           heap |-> heap, blocks |-> <<>>, oom |-> FALSE]

\* One block: the counter is asked first, then the bitmap.  The counter is unsigned
\* and wraps below zero, and so does the difference: it is the one over integers.
pmm_allocateBlock(m) ==
  LET frame == findFirstFrame(m.frames, nframes)
  IN IF m.oom \/ nframes - m.used = 0 \/ frame = ENOMEM THEN [m EXCEPT !.oom = TRUE]
     ELSE [m EXCEPT !.frames = @ \cup {frame}, !.used = @ + 1,
                    !.blocks = Append(@, frame)]

pmm_freeBlock(m, frame) ==
  [m EXCEPT !.frames = @ \ {frame}, !.used = @ - 1]

\* Variant: the loop marks one frame too few.
pmm_allocateBlocks_short(m, n) ==
  LET frame == findFirstFrames(m.frames, nframes, n)
  IN IF nframes - m.used <= n \/ frame = ENOMEM THEN [m EXCEPT !.oom = TRUE]
     ELSE [m EXCEPT !.frames = @ \cup PagesOf(frame, n - 1), !.used = @ + n,
                    !.blocks = [i \in 1 .. n |-> frame + i - 1]]

\* Variant: the counter grows by one, as in pmm_allocateBlock.
pmm_allocateBlocks_one(m, n) ==
  LET frame == findFirstFrames(m.frames, nframes, n)
  IN IF nframes - m.used <= n \/ frame = ENOMEM THEN [m EXCEPT !.oom = TRUE]
     ELSE [m EXCEPT !.frames = @ \cup PagesOf(frame, n), !.used = @ + 1,
                    !.blocks = [i \in 1 .. n |-> frame + i - 1]]

pmm_allocateBlocks(m, n) ==
  LET frame == findFirstFrames(m.frames, nframes, n)
  IN IF nframes - m.used <= n \/ frame = ENOMEM THEN [m EXCEPT !.oom = TRUE]
     ELSE [m EXCEPT !.frames = @ \cup PagesOf(frame, n), !.used = @ + n,
                    !.blocks = [i \in 1 .. n |-> frame + i - 1]]

\* What m is after a call that may have failed; a failure is a kernel panic.
Commit(m) ==
  /\ frames' = m.frames
  /\ pmm_usedBlocks' = m.used
  /\ page' = m.page
  /\ mem_kernelHeap' = m.end
  /\ liballoc_first_free_page' = m.first
  /\ heap' = m.heap
  /\ panic' = IF m.oom THEN "OUT_OF_MEMORY" ELSE None

\* User memory takes and returns single frames, here ones that no other address
\* space shares.
user_allocatePage(c) ==
  LET m == pmm_allocateBlock(Memory) IN
  /\ Runs(c)
  /\ "user" \in workload
  /\ \E i \in UserPage :
       /\ held[i] = None
       /\ Commit(m)
       /\ held' = IF m.oom THEN held ELSE [held EXCEPT ![i] = Last(m.blocks)]
  /\ UNCHANGED <<region_vars, kstack, pending, workload>>

\* mem_freePage does not ask whether the page is present.  Leaving a process frees
\* present pages only, but sys_brk frees every page of the range it gives up: one
\* that was never touched is freed as frame 0, the address of an empty entry.
user_freePage(c) ==
  /\ Runs(c)
  /\ \E i \in UserPage :
       /\ held[i] = None => "brk" \in workload /\ pmm_usedBlocks > - MaxFreed   \* bound
       /\ Commit(pmm_freeBlock(Memory, IF held[i] = None THEN 0 ELSE held[i]))
       /\ held' = [held EXCEPT ![i] = None]
  /\ UNCHANGED <<region_vars, kstack, pending, workload>>

-----------------------------------------------------------------------------
(* Regions of device and driver memory                                     *)

\* Variant: the space that is left is not checked.
pool_allocateChunks_unchecked(c, r, n) ==
  LET start == findFirstFrames(bitmap[r], Chunks[r], n) IN
  /\ Runs(c)
  /\ "regions" \in workload
  /\ MapThenSumSet(LAMBDA s : Cardinality(regions[s]), Region) < MaxRegions
  /\ IF start = ENOMEM
       THEN /\ panic' = "OUT_OF_MEMORY"
            /\ UNCHANGED <<bitmap, used, pending>>
       ELSE /\ bitmap' = [bitmap EXCEPT ![r] = @ \cup PagesOf(start, n)]
            /\ used' = [used EXCEPT ![r] = @ + n]
            /\ pending' = [pending EXCEPT ![c] = 
                 [op |-> "region", what |-> r, start |-> start, n |-> n]]
            /\ UNCHANGED panic
  /\ UNCHANGED <<pmm_vars, held, regions, heap_vars, workload>>

\* mem_allocateDMA, mem_mapMMIO and mem_mapDriver first take n chunks.
pool_allocateChunks(c, r, n) ==
  LET start == findFirstFrames(bitmap[r], Chunks[r], n) IN
  /\ Runs(c)
  /\ "regions" \in workload
  /\ MapThenSumSet(LAMBDA s : Cardinality(regions[s]), Region) < MaxRegions
  /\ IF Chunks[r] - used[r] < n \/ start = ENOMEM
       THEN /\ panic' = "OUT_OF_MEMORY"
            /\ UNCHANGED <<bitmap, used, pending>>
       ELSE /\ bitmap' = [bitmap EXCEPT ![r] = @ \cup PagesOf(start, n)]
            /\ used' = [used EXCEPT ![r] = @ + n]
            /\ pending' = [pending EXCEPT ![c] = 
                 [op |-> "region", what |-> r, start |-> start, n |-> n]]
            /\ UNCHANGED panic
  /\ UNCHANGED <<pmm_vars, held, regions, heap_vars, workload>>

\* Then the chunks get frames: contiguous ones for DMA, one at a time for a
\* driver, the device's own for MMIO.
Blocks(r, n) ==
  IF r = "dma" THEN pmm_allocateBlocks(Memory, n)
  ELSE IF r = "driver"
    THEN FoldLeft(LAMBDA m, i : pmm_allocateBlock(m), Memory, [i \in 1 .. n |-> i])
    ELSE [Memory EXCEPT !.blocks = [i \in 1 .. n |-> Device]]

mem_mapRegion(c) ==
  /\ Doing(c, "region")
  /\ \E r \in Region :
       /\ pending[c].what = r
       /\ LET m == Blocks(r, pending[c].n)
              new == [start |-> pending[c].start, blocks |-> m.blocks]
          IN /\ Commit(m)
             /\ regions' = [regions EXCEPT ![r] = IF m.oom THEN @ ELSE @ \cup {new}]
  /\ pending' = [pending EXCEPT ![c] = None]
  /\ UNCHANGED <<held, bitmap, used, kstack, workload>>

\* Variant: only the first chunk is cleared, as in pool_freeChunk.
pool_freeChunks_first(c, r) ==
  /\ Runs(c)
  /\ \E g \in regions[r] :
       /\ bitmap' = [bitmap EXCEPT ![r] = @ \ {g.start}]
       /\ used' = [used EXCEPT ![r] = @ - Len(g.blocks)]
       /\ regions' = [regions EXCEPT ![r] = @ \ {g}]
  /\ UNCHANGED <<pmm_vars, held, heap_vars, pending, workload, panic>>

\* mem_freeDMA, mem_unmapMMIO and mem_unmapDriver return the chunks alone: the
\* frames stay marked.
pool_freeChunks(c, r) ==
  /\ Runs(c)
  /\ \E g \in regions[r] :
       /\ bitmap' = [bitmap EXCEPT ![r] = @ \ PagesOf(g.start, Len(g.blocks))]
       /\ used' = [used EXCEPT ![r] = @ - Len(g.blocks)]
       /\ regions' = [regions EXCEPT ![r] = @ \ {g}]
  /\ UNCHANGED <<pmm_vars, held, heap_vars, pending, workload, panic>>

-----------------------------------------------------------------------------
(* The kernel heap                                                         *)

\* mem_allocatePage and mem_freePage over pages start .. start + n - 1.  A page
\* that is already mapped gets a new frame; one that is not mapped is freed as
\* frame 0, the address of an empty entry.
MapPages(m, start, n) ==
  LET map(x, i) == LET y == pmm_allocateBlock(x) IN
                   IF y.oom THEN y ELSE [y EXCEPT !.page[i] = Last(y.blocks)]
  IN FoldLeft(map, m, [k \in 1 .. n |-> start + k - 1])

\* Variant: the loop stops one page early.
FreePages_short(m, start, n) ==
  LET clear(x, i) == [pmm_freeBlock(x, IF x.page[i] = None THEN 0 ELSE x.page[i])
                        EXCEPT !.page[i] = None]
  IN FoldLeft(clear, m, [k \in 1 .. n - 1 |-> start + k - 1])

FreePages(m, start, n) ==
  LET clear(x, i) == [pmm_freeBlock(x, IF x.page[i] = None THEN 0 ELSE x.page[i])
                        EXCEPT !.page[i] = None]
  IN FoldLeft(clear, m, [k \in 1 .. n |-> start + k - 1])

\* Where liballoc_alloc finds n pages without a frame, from its first free page
\* upwards.
FreeRuns(m, n) ==
  {s \in (IF m.first = 0 THEN m.end ELSE m.first) .. HeapPages - n + 1 :
     \A i \in s .. s + n - 1 : m.page[i] \in {None, 0}}

\* Variant: the end of the heap stays where it is.
liballoc_alloc_keepEnd(m, n) ==
  LET start == Min(FreeRuns(m, n))
  IN [MapPages(m, start, n) EXCEPT !.first = start + n]

\* liballoc_alloc moves the end of the heap to where it found its pages.
liballoc_alloc(m, n) ==
  LET start == Min(FreeRuns(m, n))
  IN [MapPages(m, start, n) EXCEPT !.first = start + n, !.end = start + n + 1]

liballoc_free(m, maj) ==
  [FreePages(m, maj.base, maj.pages) EXCEPT !.first = maj.base]

\* malloc with the pages it may need, and free with those it may give back.
alloc_malloc(m, req) ==
  LET n == PagesNeeded(m.heap, req)
  IN IF n = 0 THEN [m EXCEPT !.heap = malloc(@, req, 0)]
     ELSE [liballoc_alloc(m, n) EXCEPT !.heap = malloc(@, req, Min(FreeRuns(m, n)))]

alloc_free(m, p) ==
  LET freed == [m EXCEPT !.heap = free(@, p)]
  IN IF Empties(m.heap, p) THEN liballoc_free(freed, Without(m.heap, p)) ELSE freed

\* Bounds: the pages of the model suffice for the request.
Room(req) == PagesNeeded(heap, req) > 0 => FreeRuns(Memory, PagesNeeded(heap, req)) # {}

Reallocated == {pending[d].ptr : d \in {d \in CPU : Doing(d, "realloc")}}

kmalloc(c) ==
  /\ Runs(c)
  /\ "malloc" \in workload
  /\ Cardinality(Pointers(heap)) < MaxMinors
  /\ \E req \in Requests : Room(req) /\ Commit(alloc_malloc(Memory, req))
  /\ UNCHANGED <<held, region_vars, kstack, pending, workload>>

\* A block is freed by its owner, and not while the owner reallocates it.
kfree(c) ==
  /\ Runs(c)
  /\ "free" \in workload
  /\ \E p \in Pointers(heap) \ Reallocated : Commit(alloc_free(Memory, p))
  /\ UNCHANGED <<held, region_vars, kstack, pending, workload>>

\* krealloc keeps a block that is large enough.  Otherwise it releases the lock,
\* allocates another one, copies, and frees the old one.
krealloc(c) ==
  /\ Runs(c)
  /\ "realloc" \in workload
  /\ \E p \in Pointers(heap) \ Reallocated, req \in Requests :
       /\ ReqSize(heap, p) >= req
       /\ Commit([Memory EXCEPT !.heap = SetReqSize(@, p, req)])
  /\ UNCHANGED <<held, region_vars, kstack, pending, workload>>

krealloc_grow(c) ==
  /\ Runs(c)
  /\ "realloc" \in workload
  /\ \E p \in Pointers(heap) \ Reallocated, req \in Requests :
       /\ ReqSize(heap, p) < req
       /\ Room(req)
       /\ Commit(alloc_malloc(Memory, req))
       /\ pending' = [pending EXCEPT ![c] = [op |-> "realloc", ptr |-> p]]
  /\ UNCHANGED <<held, region_vars, kstack, workload>>

krealloc_free(c) ==
  /\ Doing(c, "realloc")
  /\ Commit(alloc_free(Memory, pending[c].ptr))
  /\ pending' = [pending EXCEPT ![c] = None]
  /\ UNCHANGED <<held, region_vars, kstack, workload>>

\* The kernel stack of a new process.  mem_allocate with MEM_ALLOC_HEAP reads the
\* end of the heap; then it takes heap_lock and maps the pages from there; then it
\* adds their size to the end, whatever that is by now, and releases the lock.
process_createStructure(c) ==
  /\ Runs(c)
  /\ "stacks" \in workload
  /\ mem_kernelHeap + KstackPages - 1 <= HeapPages     \* bound
  /\ \E p \in Proc :
       /\ kstack[p] = 0
       /\ \A d \in CPU : Doing(d, "kstack") \/ Doing(d, "locked") => pending[d].what # p
       /\ pending' = [pending EXCEPT ![c] =
            [op |-> "kstack", what |-> p, start |-> mem_kernelHeap]]
  /\ UNCHANGED <<pmm_vars, held, region_vars, heap_vars, workload, panic>>

mem_allocate(c) ==
  /\ Doing(c, "kstack")
  /\ \A d \in CPU : ~Doing(d, "locked")
  /\ Commit(MapPages(Memory, pending[c].start, KstackPages))
  /\ pending' = [pending EXCEPT ![c].op = "locked"]
  /\ UNCHANGED <<held, region_vars, kstack, workload>>

mem_allocate_done(c) ==
  /\ Doing(c, "locked")
  /\ mem_kernelHeap' = mem_kernelHeap + KstackPages
  /\ kstack' = [kstack EXCEPT ![pending[c].what] = pending[c].start]
  /\ pending' = [pending EXCEPT ![c] = None]
  /\ UNCHANGED <<pmm_vars, held, region_vars, page, liballoc_first_free_page, heap,
                 workload, panic>>

\* process_destroy frees the stack's pages, without heap_lock, and leaves the end
\* of the heap.
mem_free(c) ==
  /\ Runs(c)
  /\ "exit" \in workload
  /\ \E p \in Proc :
       /\ kstack[p] # 0
       /\ Commit(FreePages(Memory, kstack[p], KstackPages))
       /\ kstack' = [kstack EXCEPT ![p] = 0]
  /\ UNCHANGED <<held, region_vars, pending, workload>>

-----------------------------------------------------------------------------
Next ==
  /\ Alive
  /\ \E c \in CPU :
       \/ user_allocatePage(c)
       \/ user_freePage(c)
       \/ \E r \in Region, n \in RegionSizes : pool_allocateChunks(c, r, n)
       \/ mem_mapRegion(c)
       \/ \E r \in Region : pool_freeChunks(c, r)
       \/ kmalloc(c)
       \/ kfree(c)
       \/ krealloc(c)
       \/ krealloc_grow(c)
       \/ krealloc_free(c)
       \/ process_createStructure(c)
       \/ mem_allocate(c)
       \/ mem_allocate_done(c)
       \/ mem_free(c)

Spec == Init /\ [][Next]_vars

-----------------------------------------------------------------------------
(* Properties                                                              *)

\* Counters stay within what they count, and indices within their bitmaps, where a
\* run may end past the limit by less than the longest request; only sys_brk takes
\* the counter of frames below zero.
TypeOK ==
  /\ frames \subseteq 0 .. nframes + Longest - 2
  /\ pmm_usedBlocks \in (IF "brk" \in workload THEN - MaxFreed - MaxHeld ELSE 0) .. nframes
  /\ held \in [UserPage -> 0 .. nframes - 1 \cup {None}]
  /\ \A r \in Region : bitmap[r] \subseteq Chunk(r) /\ used[r] \in 0 .. Chunks[r]
  /\ page \in [HeapPage -> 0 .. nframes - 1 \cup {None}]
  /\ mem_kernelHeap \in Nat /\ liballoc_first_free_page \in Nat

\* They do not while one CPU runs and nothing is freed, as during boot, nor
\* wherever liballoc is alone.  (A heap page on frame 0, which sys_brk may free,
\* looks empty to liballoc_alloc.)
HeapDisjointUntilFreed ==
  \/ {"free", "realloc", "exit", "smp"} \cap workload = {}
  \/ {"stacks", "brk"} \cap workload = {}
  => HeapDisjoint

\* A frame has one holder - a user page, a heap page or a region - and its bit in
\* the bitmap of pmm.c is set for as long as it has one.  No holder gets a frame
\* that arch_mark_memory reserved.  Frame 0 is the exception once sys_brk shrinks
\* heaps: it is freed with every untouched page, whoever holds it.
Holders ==
  {<<"user", i, held[i]>> : i \in {i \in UserPage : held[i] # None}}
    \cup {<<"heap", i, page[i]>> : i \in {i \in HeapPage : page[i] # None}}
    \cup UNION {UNION {{<<r, g.start + i, g.blocks[i]>> : i \in DOMAIN g.blocks} :
                       g \in regions[r]} : r \in Region \ {"mmio"}}
FrameHeldOnce ==
  LET exact == {h \in Holders : h[3] # 0 \/ "brk" \notin workload}
      owned == {h[3] : h \in exact}
  IN owned \subseteq frames \ Reserved /\ Cardinality(owned) = Cardinality(exact)

\* The memory that arch_mark_memory reserves is never handed out ("x86 real mode's
\* memory map dictates that the first 1MB or so is reserved").
ReservedUnused == \A h \in Holders : h[3] \notin Reserved

\* pmm_usedBlocks counts the bits that are set, and the frames that were counted
\* twice at boot.  Where sys_brk shrinks heaps it may count fewer, as frame 0 is
\* freed again and again, but never more: no frame is lost to the counter.
UsedBlocksExact ==
  LET counted == Cardinality(frames) + Overcount
  IN IF "brk" \in workload THEN pmm_usedBlocks <= counted ELSE pmm_usedBlocks = counted

\* The heap pages that have a frame are those of liballoc's majors and of the
\* kernel stacks: none is unmapped under its user, and none stays behind.
HeapBacked ==
  panic = None =>
    {i \in HeapPage : page[i] # None} =
      UNION ({PagesOf(maj.base, maj.pages) : maj \in Majors}
             \cup {StackPages(p) : p \in Proc})

\* Regions that drivers hold or are about to map do not overlap; the bitmap and
\* the counter of their pool account for exactly them.
Taken(r) ==
  {PagesOf(g.start, Len(g.blocks)) : g \in regions[r]}
    \cup {PagesOf(pending[c].start, pending[c].n) :
            c \in {c \in CPU : Doing(c, "region") /\ pending[c].what = r}}
PoolsExact ==
  panic = None =>
    \A r \in Region :
      /\ \A g, h \in Taken(r) : g # h => g \cap h = {}
      /\ bitmap[r] = UNION Taken(r)
      /\ used[r] = Cardinality(bitmap[r])

\* The blocks of a major lie in address order behind its header, without overlap
\* and within its pages; its usage, and l_inuse and l_allocated over all majors,
\* are what the blocks add up to.
HeapConsistent ==
  /\ \A maj \in Majors :
       /\ maj.minors # <<>>
       /\ \A i \in 0 .. Len(maj.minors) : GapStart(maj, i) <= GapEnd(maj, i)
       /\ \A min \in Range(maj.minors) : min.req_size + AlignSpace <= min.size
       /\ maj.usage = MajorHeader
            + FoldLeft(LAMBDA sum, min : sum + MinorHeader + min.size, 0, maj.minors)
  /\ heap.l_allocated = FoldLeft(LAMBDA sum, maj : sum + Size(maj), 0, heap.majors)
  /\ heap.l_inuse = FoldLeft(LAMBDA sum, maj : sum + maj.usage - MajorHeader
                                               - MinorHeader * Len(maj.minors),
                             0, heap.majors)

\* l_bestBet never points to a major that was given back: malloc reads through it
\* before anything else.
BestBetLive == heap.l_bestBet # None => Index(heap, heap.l_bestBet) # 0
=============================================================================
