--------------------------- MODULE MCKernelMemory ---------------------------
(* Instances of KernelMemory for TLC.                                      *)
EXTENDS KernelMemory

FourChunks == [r \in Region |-> 4]
FirstFrame == {0}

\* Drivers with user memory; programs that shrink their heap, with the allocator;
\* drivers on two CPUs; the allocator on two CPUs; with the stacks of new
\* processes; with freed blocks besides; and with processes that also end, on two
\* CPUs.
EveryWorkload ==
  {{"regions", "user"}, {"malloc", "user", "brk"}, {"regions", "smp"},
   {"malloc", "free", "realloc", "smp"},
   {"malloc", "stacks"},
   {"malloc", "stacks", "free"},
   {"malloc", "stacks", "exit", "smp"}}

\* A program that shrinks its heap.
UserAndBrk == {{"user", "brk"}}

\* The least with which the heap overlaps on one CPU.
StacksAndFree == {{"malloc", "stacks", "free"}}

Perms == Permutations(Proc)
=============================================================================
