# A TLA+ model of the Hexahedron kernel (reduceOS)

Hexahedron is the kernel of reduceOS: an SMP kernel for x86_64 and i386 with
processes, copy-on-write fork, a VFS, loadable drivers and a small network
stack. This directory models the parts where correctness depends on the order
in which CPUs, interrupts and processes do things, and where a test run hardly
ever sees the bad order. Line numbers refer to the sources in `src/`.

## 1. Inventory

| Component | State | Operations | What is hard |
|---|---|---|---|
| processes (`task/process.c`, `task/thread.c`) | process tree, flags, waitpid queues, reap queue | fork, execute, exit, waitpid, reaper, destroy | two ways to destroy a process, a CPU that still stands on its stack, wakeups racing with going to sleep |
| scheduler (`task/scheduler.c`, LAPIC timer) | `thread_queue`, `scheduler_lock`, current thread and stack of each CPU | insert, get, yield, switch, timer tick | a thread in two queues or in none, fairness |
| sleep queue (`task/sleep.c`) | `sleep_queue`, status bits, sleep nodes | untilNever, untilTime, wakeup, the callback in every CPU's timer interrupt | status bit and queue change at different times |
| user memory (`arch/x86_64/mem.c`) | page tables, `mem_pageReferences`, free frames | allocate, clone, copy on write, free, destroy | shared frames, counts, a count that saturates, kernel stores |
| physical memory (`mem/pmm.c`) | bitmap, counters | regions, allocate and free one or several blocks | bit arithmetic, running out |
| kernel heap (`arch/x86_64/mem.c`, allocators) | end of heap, mappings, `heap_lock` | sbrk, allocate, free | stale end of heap, error paths |
| pools, regions, semaphores (`misc/`, `mem/regions.c`) | bitmaps, counters | allocate, free, wait, signal | limits |
| descriptors and system calls (`task/fd.c`, `task/syscall.c`) | descriptor tables | open, close, dup, clone | bounds, sharing after fork |
| SMP (`arch/*/smp.c`) | shootdown address, start-up flags | start-up, shootdown | nobody waits for an answer |
| VFS (`fs/`) | mount tree, reference counts | mount, open, close, read, canonicalise | counts, paths |
| input (`fs/periphfs.c`, `drivers/misc/ps2`, `circbuf.c`) | circular buffer | interrupt writes, process reads | overrun, partial reads |
| network (`drivers/net/`, `e1000`) | ARP map, handler tables, descriptor rings | request, reply, search, send, receive | timeouts, locks on error paths, ring wrap-around |
| clock (`drivers/clock.c`, `drivers/x86/clock.c`) | ticks, callback table | update, register, sleep | arithmetic, boundaries |
| loaders (`loader/`) | driver table | load, unload, ELF segments | failure half-way |
| storage and USB (`drivers/storage`, `drivers/usb`) | command slots, queues | submit, complete | hardware racing with the driver |
| data structures (`libkstructures/`) | lists, trees, maps | insert, delete, reparent | links |
| C library (`libpolyhedron/`) | none | conversions, strings, time | pure algorithms |

`PROJECT.json` lists every component with its status, and the hazards found in
the survey with their lines.

Facts about the machine that the models use, all taken from the code:

- System calls and exceptions run with interrupts masked (`arch.c:232` sets
  SFMASK, the IDT uses interrupt gates). A CPU is interrupted only in user mode
  and in `arch_pause` (`sti; hlt; cli`). Kernel steps of one CPU therefore
  interleave only with steps of other CPUs.
- Every CPU has its own LAPIC timer, and its handler runs the sleep callback.
- With one processor, or with `--disable-smp`, there is one CPU.
- CR0.WP is never set, so stores by the kernel ignore the R/W bit.

## 2. Modules

| Module | Models | Role |
|---|---|---|
| `Tasking` | `task/process.c`, `scheduler.c`, `sleep.c`, timer interrupt | component |
| `MCTasking` | | instances: programs and time slices |
| `CowMemory` | `arch/x86_64/mem.c`: sharing and counting of user frames | component |
| `AddressSpaces` | | what user memory promises: one private memory per process |
| `MCCowMemory` | | instances, frame symmetry |
| `CowMemoryProofs` | | TLAPS proofs about `CowMemory` |
| `Bitmap` | `mem/pmm.c`, `misc/pool.c`: first fit in a bitmap | operators |
| `Liballoc` | `mem/liballoc/liballoc.c` | operators: malloc, free, realloc on an allocator state |
| `KernelMemory` | `mem/pmm.c`, `misc/pool.c`, `mem/regions.c`, `liballoc_hooks.c`, the kernel heap of `arch/x86_64/mem.c` | composition of the above |
| `MCKernelMemory` | | workloads |

### Tasking

Processes have exactly one thread in this kernel, so a process names its main
thread, and a CPU names its idle thread. The state is the fields of `thread_t`,
`process_t` and `processor_t` that the code reads to decide something, the
three queues, and for each CPU where it is (`pc`) and whose kernel stack it
stands on. A step is the code between two accesses that another CPU can tell
apart, so `process_exit` is `process_exit`, `exit_notify`, `exit_queue`,
`exit_wake`, and `waitpid` is `waitpid_enter`, `waitpid_scan`, `waitpid_return`.
Going to sleep is three steps, because only the second holds `sleep_queue_lock`:
the node is attached to the thread (`sleep_on`), appended to the queue
(`sleep_append`), and the thread is marked SLEEPING (`sleep_mark`).
User programs are reduced to the set of system calls they may make (`Program`).

`Fairness`: every CPU keeps executing (weak fairness of its steps), and its
timer keeps ticking, so that a CPU that is interruptible again and again runs
the sleep callback (strong fairness of `sleep_callback`). The LAPIC timer is
periodic and nothing in the kernel masks it for good.

### CowMemory

A page table entry is a pair of a directory and a page with a frame, an R/W bit
(`rw`) and a copy-on-write bit (`cow`). `refs` is `mem_pageReferences`, `free`
is what the physical memory manager has. A directory belongs to one process and
therefore to one CPU at a time; `Cpus` bounds how many directories are in the
middle of an operation. The loops of `mem_clone` and `mem_destroyVAS` take one
step per page, and `mem_copyOnWrite` takes two, because it gives up its
reference under `ref_lock` before it copies the frame. `mem_allocatePage` maps
over whatever the entry holds, as the code does, and freeing an entry without a
frame leaves the user frames alone: what it frees is frame 0, which is outside
`Frame` and belongs to `KernelMemory`. `Behaviours` switches heap shrinking and
stores by system calls on.

`AddressSpaces` is the abstract specification: a set of live memories, each a
function from pages to values, that only change by their own writes, by fork
(copy) and by exit. `PrivateMemory` says that `CowMemory` implements it when a
page's value is the content of the frame its entry names.

### KernelMemory

Three users compete for physical frames: user memory (`held`), driver regions
and the kernel heap. Regions take virtual chunks from a pool, then frames. The
kernel heap is a range of pages that liballoc and `mem_allocate` (kernel stacks)
both extend: liballoc searches for pages without a frame from
`liballoc_first_free_page`, `mem_allocate` takes the pages at `mem_kernelHeap`,
and both move `mem_kernelHeap`. User memory holds a frame per page or none; with
`"brk"` in the workload, a program may also shrink its heap over a page it never
touched, whose empty entry names frame 0: `mem_freePage` frees that frame and
lowers `pmm_usedBlocks`, although frame 0 was never allocated. A call that loops over pages is a function of a
record (`Memory`) with everything it changes, and the action commits the result.

`Bitmap` keeps two properties of the search that matter at the end of a bitmap:
only whole words are scanned, and a run may reach past the end. In `Liballoc`, a
major is a record with its minors in address order; the cases of malloc are the
gaps in front of, between and behind the minors, and the order in which majors
are tried follows `l_bestBet`. Sizes are in small units (`l_pageSize` is 8), and
a major has at least two pages (`l_pageCount`; 16 in the code), more than the
one-page gap `liballoc_alloc` leaves behind each major.

`workload`, chosen at the start, says which operations occur in a behaviour. A
behaviour ends in a panic (out of memory) or when two users of the heap share a
page: liballoc keeps its lists in that memory, so nothing can be said about what
the code does from then on.

## 3. Runs

| Run | Instance | Checks |
|---|---|---|
| `tasking_uni` | 1 CPU; init, a shell that may also exec, a job, the reaper | `TypeOK`, `NeverInTwoPlaces`, `NeverLost`, `NoLostWakeup`, `DestroyedUnreachable`, `ChildrenAdopted`; under `Fairness`, `RunnableRuns` and `WaiterServed` |
| `tasking_smp` | 2 CPUs; init that waits and polls, a job whose exec may fail, the reaper | `QueuedOnce` |
| `tasking_smp_family` | 2 CPUs; init, a shell that may exit before its job, the job, the reaper | `DestroyedUnreachable`, `ChildrenAdopted` |
| `tasking_reap_twice` | 1 CPU; a parent that waits, a child that exits | `ReapQueueLive`, violated |
| `tasking_smp_lost_wakeup` | 2 CPUs, the same programs | `NoLostWakeup`, violated |
| `tasking_siblings` | 1 CPU; init, a shell with two jobs | `ChildrenAdopted`, violated |
| `cow_uni` | 1 CPU, 3 directories, a heap and a stack page, 4 frames, 2 values, count limit 2 | `RefCountsExact`, `NoPanic`, `PrivateMemory` (refinement of `AddressSpaces`) |
| `cow_smp` | 2 CPUs, 3 directories, a heap page, 3 frames, heap shrinking and kernel stores | `TypeOK`, `OperationsInProgress`, `NeverOvercounted` |
| `cow_brk` | 1 CPU, 2 directories, 2 frames, heap shrinking | `NoPanic`, violated |
| `kmem` | up to 2 CPUs, 8 frames, 3 pools of 4 chunks, 6 heap pages, 3 blocks of 2 sizes, 2 processes, 2 user pages, seven workloads | `TypeOK`, `FrameHeldOnce`, `UsedBlocksExact`, `PoolsExact`, `HeapBacked`, `HeapConsistent`, `BestBetLive`, `HeapDisjointUntilFreed` |
| `kmem_heap` | 1 CPU, 12 heap pages, blocks of one size, 3 processes | `HeapDisjoint`, violated |
| `kmem_brk` | 1 CPU, 8 frames of which the first is reserved, 2 user pages, heap shrinking | `ReservedUnused`, violated |

What they show. On one CPU the scheduler, the sleep queue and the process life
cycle keep every live thread in exactly one place, serve every waiter and run
every runnable thread. On two CPUs a thread is still at most once in the run
queue and the sleep queue together; a destroyed process is in no thread queue,
current on no CPU and in no list of children, and its only child gets a living
parent. Nothing more is claimed for two CPUs. Copy-on-write keeps exact counts and
private memories on one CPU as long as nothing shrinks a heap and system calls
do not store through shared pages; counts are never too high even when they do.
Below that, every frame and chunk has one holder that bitmaps and counters
account for, and liballoc's lists stay consistent. Once a program shrinks its
heap over untouched pages, frame 0 may have several holders and the counter is
only a lower bound; all other frames keep one holder. Users of the kernel heap are
disjoint while nothing is freed on one CPU, and wherever liballoc is alone.

Bounds. Three directories and a count limit of two make every branch of
`mem_copyUserPage` happen, the saturated count included. In `Tasking`, three
user processes are the fewest that give a parent, a child and a grandchild,
which reparenting needs; two CPUs are the fewest on which kernel code
interleaves. Time slices are one tick (`Timeslice`), and a process slot is used
once, which bounds forks. In `KernelMemory`, blocks of five and of ten
units (headers included) in a major of sixteen make all cases of malloc happen,
a fragmented major among them, and eight frames run out. Two user pages
(`MaxHeld`) are the fewest that can both come to hold frame 0, and `MaxFreed`
bounds how far below zero untouched pages may push the counter. Its workloads are run
side by side, not all at once: regions and the heap meet only in the frame
bitmap.

Deadlock checking is off where the system may stop: in `CowMemory` all processes
can be gone or all frames used up, `KernelMemory` ends in a panic or an overlap,
and in `tasking_smp` and `tasking_smp_family` a failed exec leaves a STOPPING
thread alone in the run queue, upon which `scheduler_get` returns with
`scheduler_lock` held (`scheduler.c:134-197`) and every CPU spins on it.

Violated properties. Each states what a comment or message in the code says
(quoted in `PROJECT.json`, findings):

- `ReapQueueLive`: waitpid destroys a process that is still on the reap queue,
  so the reaper meets it again.
- `NoLostWakeup` on two CPUs: a child exits between its parent's scan and the
  parent's sleep; the parent has no sleep node yet, and the wakeup is dropped.
- `NoPanic` with `brk`: shrinking a heap that fork shared releases a reference
  that is released again when the directory is destroyed.
- `HeapDisjoint`: liballoc fills the place of a block it gave back and sets the
  end of the heap to just behind it, so that the next kernel stack is mapped
  inside the block above. With 16-page majors the sequence is the same.
- `ReservedUnused` with `brk`: a heap that grows and shrinks without being
  touched frees frame 0, in the megabyte reserved for the BIOS, and the next
  page gets it.
- `ChildrenAdopted` with two children: `tree_remove_reparent` moves the first
  child and loses the others, whose parent is then a freed node.

Behaviours of the code that the models contain and that no run asserts the
absence of: the reaper's loop bound shrinks as it pops, so one wakeup visits
half of a long queue; on two CPUs a process can be destroyed while a CPU still
stands on its kernel stack (`panic = "stack_freed"`), and a sleeper that is
woken before it has yielded is queued while it runs (`"double_run"`), is lost to
every queue, or has the sleep pointer of its next sleep cleared by the callback
of its last one; `process_t.parent` outlives the parent, so a job that exits
after its shell was destroyed reads freed memory (`"use_after_free"`); on two
CPUs a frame can be freed while `mem_copyOnWrite` copies from it; a store by a
system call goes through a shared page; the frames of DMA and driver regions are
never returned; a region or a DMA block may reach past the end of its bitmap; two
CPUs may place two stacks at one address. In `Tasking`, `panic` marks the point after which
memory is corrupted, and the kernel is followed no further. `QueuedOnce`,
`DestroyedUnreachable` and `ChildrenAdopted` hold in that last state too; the
others claim nothing about it.

## 4. Proofs

`CowMemoryProofs` proves, for any number of directories, pages, frames, values
and CPUs and any count limit of at least two (`CowAssumption`):

- `TypeCorrect`, `OperationsCorrect`: the type invariant and
  `OperationsInProgress` hold in every behaviour, `brk` and kernel stores
  included. Neither is inductive alone: that a step keeps the types needs to
  know that loops only visit present pages, so both are proved together
  (`TypeStep`, `OperationsStep`).
- `RefCountsCorrect`, `ChecksNeverFire`: when no program shrinks its heap, the
  counts are exact and no check panics. The inductive invariant `CowInv` adds
  `RefCountsExact` and `NoStaleBits` to the two above; the latter says that only
  an entry with a frame is copy-on-write, without which `mem_allocatePage` could
  map a fresh frame whose entry counts as a sharer. The argument is about the set of holders
  of one frame: every action changes the holders of at most one frame
  (`OneFrameChanges`), and each action lemma computes that frame's new holders
  and shows that the new count is their number.

Only model-checked: `PrivateMemory`, and all of `Tasking` and
`KernelMemory`.
Liveness stays with TLC.

## 5. Plan

One composition per line, each with one passing run unless the code disagrees
with its comments:

1. Boot-time memory, which `KernelMemory` takes as its initial state:
   `pmm_init`, `arch_mark_memory` and the first `mem_sbrk` calls.
2. Files: `Vfs` (mount tree, canonical paths, reference counts), the descriptor
   tables of `fd.c` shared through fork, and `KeyboardBuffer` (interrupt,
   circular buffer, blocking read).
3. Network: `Arp` (request, reply, timeout), dispatch in ethernet, IPv4 and
   ICMP, and the `E1000` rings against the card.
4. Devices: AHCI command slots, UHCI and EHCI transfer queues, driver loading,
   start-up of the other CPUs and TLB shootdown.
5. Pure algorithms against reference definitions: linked list and tree links,
   hashmap, circular buffer, conversions of the C library, clock arithmetic.
6. Proofs: the type invariant and `NeverInTwoPlaces` of `Tasking`,
   the refinement of `AddressSpaces`, and the
   safety invariants of the modules above.
