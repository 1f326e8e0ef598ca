------------------------------ MODULE CowMemory ------------------------------
(***************************************************************************)
(* Copy-on-write user memory (hexahedron/arch/x86_64/mem.c): page          *)
(* directories, the reference counts mem_pageReferences of shared frames,  *)
(* and the operations that share, split and release frames: mem_clone at   *)
(* fork, mem_copyOnWrite in the page fault handler, mem_destroyVAS when a  *)
(* process is destroyed, and the release of heap pages by brk.             *)
(*                                                                         *)
(* Only user pages are modelled; the frames of page tables and the kernel  *)
(* are outside Frame.  A directory belongs to one single-threaded process, *)
(* so at most one CPU works on it; what CPUs share is the frames, their    *)
(* counts (ref_lock) and cow_lock.  A step is one critical section.        *)
(***************************************************************************)
EXTENDS Naturals, FiniteSets

CONSTANTS Dir,          \* page directories
          FirstDir,     \* the directory of init
          Page,         \* user pages of a directory
          StackPage,    \* those at or above MEM_USERMODE_STACK_REGION
          Frame,        \* physical frames
          Value,        \* contents of a frame
          MaxRefs,      \* UINT8_MAX, the largest reference count
          Cpus,         \* number of CPUs
          Behaviours,   \* what programs and system calls do besides
          None

ASSUME CowAssumption ==
  /\ FirstDir \in Dir
  /\ IsFiniteSet(Dir) /\ IsFiniteSet(Page) /\ IsFiniteSet(Frame)
  /\ StackPage \subseteq Page
  /\ MaxRefs \in Nat /\ MaxRefs >= 2
  /\ Cpus \in Nat \ {0}
  /\ Behaviours \subseteq {"brk_shrink", "kernel_write"}
  /\ None \notin Dir \cup Frame \cup Value

Slot == Dir \X Page

VARIABLES
  state,     \* what happens to each directory
  dest,      \* mem_clone: the directory under construction
  todo,      \* the pages that the loop in progress has not reached
  frame,     \* the frame of each page table entry, None when not present
  rw,        \* the entries whose R/W bit is set
  cow,       \* the entries whose copy-on-write-pending bit is set
  refs,      \* mem_pageReferences
  free,      \* frames that the PMM has free
  content,   \* what is stored in each frame
  panic      \* the kernel_panic that was called

vars == <<state, dest, todo, frame, rw, cow, refs, free, content, panic>>

State == {"unused", "live", "cloning", "building", "copying", "destroying"}

TypeOK ==
  /\ state \in [Dir -> State]
  /\ dest \in [Dir -> Dir \cup {None}]
  /\ todo \in [Dir -> SUBSET Page]
  /\ frame \in [Slot -> Frame \cup {None}]
  /\ rw \subseteq Slot
  /\ cow \subseteq Slot
  /\ refs \in [Frame -> 0 .. MaxRefs]
  /\ free \subseteq Frame
  /\ content \in [Frame -> Value]
  /\ panic \in {"none", "refcount"}

Init ==
  /\ state = [d \in Dir |-> IF d = FirstDir THEN "live" ELSE "unused"]
  /\ dest = [d \in Dir |-> None]
  /\ todo = [d \in Dir |-> {}]
  /\ frame = [s \in Slot |-> None]
  /\ rw = {}
  /\ cow = {}
  /\ refs = [f \in Frame |-> 0]
  /\ free = Frame
  /\ content \in [Frame -> Value]
  /\ panic = "none"

Busy == {d \in Dir : state[d] \in {"cloning", "copying", "destroying"}}

\* The process of d runs in user mode, on a CPU that is not in the kernel.
Runs(d) == state[d] = "live" /\ Cardinality(Busy) < Cpus

cow_lock_free == \A d \in Dir : state[d] # "copying"

\* Variant: entries that are not present are not skipped.
Present_unchecked(d) == IF state[d] = "live" THEN Page ELSE {}

Present(d) == {p \in Page : frame[<<d, p>>] # None}

mapping == <<frame, rw, cow>>

-----------------------------------------------------------------------------
(* Mapping and writing                                                     *)

\* mem_allocatePage for a page that is not present: a touched heap page in the
\* page fault handler, a heap page that a system call is handed untouched
\* (syscall_pointerValidateFailed), a stack or program page at process_execute.
\* The frame is not cleared, and neither is the copy-on-write bit.
mem_allocatePage(d, p) ==
  /\ Runs(d)
  /\ frame[<<d, p>>] = None
  /\ \E f \in free :
       /\ frame' = [frame EXCEPT ![<<d, p>>] = f]
       /\ free' = free \ {f}
  /\ rw' = rw \cup {<<d, p>>}
  /\ UNCHANGED <<state, dest, todo, cow, refs, content, panic>>

user_write(d, p, x) ==
  /\ Runs(d)
  /\ frame[<<d, p>>] # None
  /\ <<d, p>> \in rw
  /\ content' = [content EXCEPT ![frame[<<d, p>>]] = x]
  /\ UNCHANGED <<state, dest, todo, mapping, refs, free, panic>>

\* A system call stores to a user buffer that mem_validate accepted.  CR0.WP is
\* clear, so the store does not fault on a read-only page.
kernel_write(d, p, x) ==
  /\ "kernel_write" \in Behaviours
  /\ Runs(d)
  /\ frame[<<d, p>>] # None
  /\ content' = [content EXCEPT ![frame[<<d, p>>]] = x]
  /\ UNCHANGED <<state, dest, todo, mapping, refs, free, panic>>

-----------------------------------------------------------------------------
(* The page fault handler: mem_copyOnWrite                                 *)

SetWritable(s) ==
  /\ rw' = rw \cup {s}
  /\ cow' = cow \ {s}

\* mem_copyOnWrite up to the decision: the last reference becomes writable in
\* place, any other is copied under cow_lock.
mem_copyOnWrite(d, p) ==
  LET f == frame[<<d, p>>] IN
  /\ Runs(d)
  /\ cow_lock_free
  /\ f # None /\ <<d, p>> \notin rw /\ <<d, p>> \in cow
  /\ \/ /\ refs[f] = 0
        /\ panic' = "refcount"
        /\ UNCHANGED <<state, todo, rw, cow, refs>>
     \/ /\ refs[f] = 1
        /\ refs' = [refs EXCEPT ![f] = 0]
        /\ SetWritable(<<d, p>>)
        /\ UNCHANGED <<state, todo, panic>>
     \/ /\ refs[f] > 1
        /\ refs' = [refs EXCEPT ![f] = @ - 1]
        /\ state' = [state EXCEPT ![d] = "copying"]
        /\ todo' = [todo EXCEPT ![d] = {p}]
        /\ UNCHANGED <<rw, cow, panic>>
  /\ UNCHANGED <<dest, frame, free, content>>

\* A fault on a page that was released while copy-on-write was pending only
\* clears the stale bit; the access then faults again.
mem_copyOnWrite_stale(d, p) ==
  /\ Runs(d)
  /\ cow_lock_free
  /\ frame[<<d, p>>] = None /\ <<d, p>> \in cow
  /\ SetWritable(<<d, p>>)
  /\ UNCHANGED <<state, dest, todo, frame, refs, free, content, panic>>

mem_copyOnWrite_copy(d, p) ==
  /\ state[d] = "copying"
  /\ p \in todo[d]
  /\ \E f \in free :
       /\ content' = [content EXCEPT ![f] = content[frame[<<d, p>>]]]
       /\ frame' = [frame EXCEPT ![<<d, p>>] = f]
       /\ free' = free \ {f}
  /\ SetWritable(<<d, p>>)
  /\ state' = [state EXCEPT ![d] = "live"]
  /\ todo' = [todo EXCEPT ![d] = {}]
  /\ UNCHANGED <<dest, refs, panic>>

-----------------------------------------------------------------------------
(* fork: mem_clone and mem_copyUserPage                                    *)

mem_clone(d, e) ==
  /\ Runs(d)
  /\ state[e] = "unused"
  /\ state' = [state EXCEPT ![d] = "cloning", ![e] = "building"]
  /\ dest' = [dest EXCEPT ![d] = e]
  /\ todo' = [todo EXCEPT ![d] = Present(d)]
  /\ UNCHANGED <<mapping, refs, free, content, panic>>

\* The destination gets a frame of its own with the source's contents.
CopyFrame(src, dst) ==
  /\ \E f \in free :
       /\ content' = [content EXCEPT ![f] = content[frame[src]]]
       /\ frame' = [frame EXCEPT ![dst] = f]
       /\ free' = free \ {f}
  /\ rw' = rw \cup {dst}
  /\ cow' = cow \ {dst}
  /\ UNCHANGED <<refs, panic>>

\* Variant: only the child's reference is counted.
ShareFresh_one(src, dst) ==
  /\ src \in rw
  /\ refs' = [refs EXCEPT ![frame[src]] = 1]
  /\ frame' = [frame EXCEPT ![dst] = frame[src]]
  /\ rw' = rw \ {src, dst}
  /\ cow' = cow \cup {src, dst}
  /\ UNCHANGED <<free, content, panic>>

\* Variant: the parent's entry stays writable.
ShareFresh_writable(src, dst) ==
  /\ src \in rw
  /\ refs' = [refs EXCEPT ![frame[src]] = 2]
  /\ frame' = [frame EXCEPT ![dst] = frame[src]]
  /\ rw' = rw \ {dst}
  /\ cow' = cow \cup {src, dst}
  /\ UNCHANGED <<free, content, panic>>

\* A writable page becomes read-only in both directories, with two references.
ShareFresh(src, dst) ==
  /\ src \in rw
  /\ \/ /\ refs[frame[src]] # 0
        /\ panic' = "refcount"
        /\ UNCHANGED <<mapping, refs>>
     \/ /\ refs[frame[src]] = 0
        /\ refs' = [refs EXCEPT ![frame[src]] = 2]
        /\ frame' = [frame EXCEPT ![dst] = frame[src]]
        /\ rw' = rw \ {src, dst}
        /\ cow' = cow \cup {src, dst}
        /\ UNCHANGED panic
  /\ UNCHANGED <<free, content>>

\* Variant: the limit of the 8-bit count is not checked.
ShareAgain_unbounded(src, dst) ==
  /\ src \notin rw
  /\ refs' = [refs EXCEPT ![frame[src]] = @ + 1]
  /\ frame' = [frame EXCEPT ![dst] = frame[src]]
  /\ rw' = rw \ {dst}
  /\ cow' = IF src \in cow THEN cow \cup {dst} ELSE cow \ {dst}
  /\ UNCHANGED <<free, content, panic>>

\* A read-only page gets one more reference, if the count has room.
ShareAgain(src, dst) ==
  /\ src \notin rw
  /\ refs[frame[src]] < MaxRefs
  /\ refs' = [refs EXCEPT ![frame[src]] = @ + 1]
  /\ frame' = [frame EXCEPT ![dst] = frame[src]]
  /\ rw' = rw \ {dst}
  /\ cow' = IF src \in cow THEN cow \cup {dst} ELSE cow \ {dst}
  /\ UNCHANGED <<free, content, panic>>

mem_copyUserPage(d, p) ==
  LET src == <<d, p>>
      dst == <<dest[d], p>>
  IN
  /\ state[d] = "cloning"
  /\ p \in todo[d]
  /\ \/ p \in StackPage /\ CopyFrame(src, dst)
     \/ /\ p \notin StackPage
        /\ cow_lock_free
        /\ \/ ShareFresh(src, dst)
           \/ ShareAgain(src, dst)
           \/ src \notin rw /\ refs[frame[src]] = MaxRefs /\ CopyFrame(src, dst)
  /\ todo' = [todo EXCEPT ![d] = @ \ {p}]
  /\ UNCHANGED <<state, dest>>

mem_clone_done(d) ==
  /\ state[d] = "cloning"
  /\ todo[d] = {}
  /\ state' = [state EXCEPT ![d] = "live", ![dest[d]] = "live"]
  /\ dest' = [dest EXCEPT ![d] = None]
  /\ UNCHANGED <<todo, mapping, refs, free, content, panic>>

-----------------------------------------------------------------------------
(* Releasing pages                                                         *)

\* mem_freePage: a frame that is still referenced afterwards stays mapped.  An
\* entry that is not present is released as frame 0, which is not one of Frame.
mem_freePage(s) ==
  LET f == frame[s] IN
  IF f # None /\ refs[f] > 1
    THEN /\ refs' = [refs EXCEPT ![f] = @ - 1]
         /\ UNCHANGED <<frame, rw, free>>
    ELSE /\ refs' = [g \in Frame |-> IF g = f THEN 0 ELSE refs[g]]
         /\ frame' = [frame EXCEPT ![s] = None]
         /\ rw' = rw \ {s}
         /\ free' = free \cup ({f} \ {None})

\* sys_brk below the current break, one page at a time, touched or not.
sys_brk(d, p) ==
  /\ "brk_shrink" \in Behaviours
  /\ Runs(d)
  /\ p \notin StackPage
  /\ mem_freePage(<<d, p>>)
  /\ UNCHANGED <<state, dest, todo, cow, content, panic>>

\* The process is gone and mem_destroyVAS walks its pages.
mem_destroyVAS(d) ==
  /\ Runs(d)
  /\ state' = [state EXCEPT ![d] = "destroying"]
  /\ todo' = [todo EXCEPT ![d] = Present(d)]
  /\ UNCHANGED <<dest, mapping, refs, free, content, panic>>

\* process_execute: an empty directory replaces the old one, which is destroyed
\* before the new program starts.
process_execute(d, e) ==
  /\ Runs(d)
  /\ state[e] = "unused"
  /\ state' = [state EXCEPT ![d] = "destroying", ![e] = "building"]
  /\ dest' = [dest EXCEPT ![d] = e]
  /\ todo' = [todo EXCEPT ![d] = Present(d)]
  /\ UNCHANGED <<mapping, refs, free, content, panic>>

\* Variant: the last reference to a shared frame does not free it.
mem_destroyVAS_page_leak(d, p) ==
  LET s == <<d, p>>
      f == frame[s]
  IN
  /\ state[d] = "destroying"
  /\ p \in todo[d]
  /\ todo' = [todo EXCEPT ![d] = @ \ {p}]
  /\ refs' = [refs EXCEPT ![f] = IF @ = 0 THEN 0 ELSE @ - 1]
  /\ free' = IF s \in rw THEN free \cup {f} ELSE free
  /\ frame' = [frame EXCEPT ![s] = None]
  /\ rw' = rw \ {s}
  /\ cow' = cow \ {s}
  /\ UNCHANGED <<state, dest, content, panic>>

\* One entry: writable pages go through mem_freePage, the others give up one
\* reference and the frame with the last one.  The entry's table is freed.
mem_destroyVAS_page(d, p) ==
  LET s == <<d, p>>
      f == frame[s]
  IN
  /\ state[d] = "destroying"
  /\ p \in todo[d]
  /\ todo' = [todo EXCEPT ![d] = @ \ {p}]
  /\ IF s \notin rw /\ refs[f] = 0
       THEN panic' = "refcount" /\ UNCHANGED <<refs, free>>
       ELSE /\ refs' = [refs EXCEPT ![f] = IF @ = 0 THEN 0 ELSE @ - 1]
            /\ free' = IF refs[f] <= 1 THEN free \cup {f} ELSE free
            /\ UNCHANGED panic
  /\ frame' = [frame EXCEPT ![s] = None]
  /\ rw' = rw \ {s}
  /\ cow' = cow \ {s}
  /\ UNCHANGED <<state, dest, content>>

mem_destroyVAS_done(d) ==
  /\ state[d] = "destroying"
  /\ todo[d] = {}
  /\ state' = [e \in Dir |-> IF e = d THEN "unused"
                             ELSE IF e = dest[d] THEN "live" ELSE state[e]]
  /\ dest' = [dest EXCEPT ![d] = None]
  /\ cow' = {s \in cow : s[1] # d}
  /\ UNCHANGED <<todo, frame, rw, refs, free, content, panic>>

-----------------------------------------------------------------------------
Step ==
  \/ \E d \in Dir, p \in Page : \/ mem_allocatePage(d, p)
                                \/ mem_copyOnWrite(d, p)
                                \/ mem_copyOnWrite_stale(d, p)
                                \/ mem_copyOnWrite_copy(d, p)
                                \/ mem_copyUserPage(d, p)
                                \/ sys_brk(d, p)
                                \/ mem_destroyVAS_page(d, p)
  \/ \E d \in Dir, p \in Page, x \in Value : \/ user_write(d, p, x)
                                             \/ kernel_write(d, p, x)
  \/ \E d, e \in Dir : \/ mem_clone(d, e)
                       \/ process_execute(d, e)
  \/ \E d \in Dir : \/ mem_clone_done(d)
                    \/ mem_destroyVAS(d)
                    \/ mem_destroyVAS_done(d)

Next == panic = "none" /\ Step

Spec == Init /\ [][Next]_vars

-----------------------------------------------------------------------------
(* Properties                                                              *)

\* The entry whose copy is in progress: its reference is given up already.
Copying(s) == state[s[1]] = "copying" /\ s[2] \in todo[s[1]]

\* The entries that hold a reference to f.
Holders(f) == {s \in Slot : frame[s] = f /\ ~Copying(s)}

\* The counts are right at every step of every interleaving of forks, faults,
\* execs and exits: a writable entry is the only holder of its frame, whose
\* count is 0; otherwise all holders are copy-on-write and the count is their
\* number; a frame is free exactly when it has no holder, so none leaks.
RefCountsExact ==
  \A f \in Frame :
    /\ f \in free <=> Holders(f) = {}
    /\ f \in free => refs[f] = 0
    /\ \A s \in Holders(f) :
         \/ s \in rw /\ s \notin cow /\ refs[f] = 0 /\ Holders(f) = {s}
         \/ s \notin rw /\ s \in cow /\ refs[f] = Cardinality(Holders(f))

\* What the operations in progress rely on: a loop visits present pages only;
\* the directory under construction belongs to one operation and has nothing
\* yet where the loop has not been; mem_destroyVAS leaves nothing behind it.
OperationsInProgress ==
  \A d \in Dir :
    /\ state[d] \in {"cloning", "copying", "destroying"} =>
         \A p \in todo[d] : frame[<<d, p>>] # None
    /\ state[d] = "copying" => \E p \in Page : todo[d] = {p}
    /\ state[d] = "cloning" => dest[d] # None
    /\ state[d] = "destroying" => \A p \in Page \ todo[d] : frame[<<d, p>>] = None
    /\ state[d] = "unused" => \A p \in Page : frame[<<d, p>>] = None
    /\ dest[d] # None => /\ state[d] \in {"cloning", "destroying"}
                         /\ state[dest[d]] = "building"
                         /\ \A p \in todo[d] : frame[<<dest[d], p>>] = None
                         /\ \A e \in Dir : dest[e] = dest[d] => e = d

\* A copy-on-write bit belongs to a page that is present: only sys_brk leaves one
\* behind, which the next mapping of the page would inherit.
NoStaleBits == \A s \in cow : frame[s] # None

\* The kernel's own consistency checks never fire: no reference is released on
\* a page with 0 references, and no writable page has references.
NoPanic == panic = "none"

\* The inductive invariant.
CowInv == TypeOK /\ OperationsInProgress /\ RefCountsExact /\ NoStaleBits /\ NoPanic

\* Whatever programs do, brk included, the counts never overstate: a frame in
\* use has an entry that leads to it (no frame leaks), and it never has more
\* references than entries.
NeverOvercounted ==
  \A f \in Frame :
    /\ f \notin free => \E s \in Slot : frame[s] = f
    /\ refs[f] <= Cardinality({s \in Slot : frame[s] = f})

\* Processes have private memory: the page tables, counts and faults together
\* implement one memory per process, which only its own writes change.
Private == INSTANCE AddressSpaces WITH
  live <- {d \in Dir : state[d] \in {"live", "cloning", "copying"}},
  mem <- [s \in Slot |->
            IF state[s[1]] \in {"live", "cloning", "copying"} /\ frame[s] # None
              THEN content[frame[s]] ELSE None]

PrivateMemory == Private!Spec
==============================================================================
