--------------------------- MODULE CowMemoryProofs ---------------------------
(***************************************************************************)
(* Proofs about CowMemory, for any number of directories, pages, frames    *)
(* and CPUs and any maximal count: the reference counts are exact and the  *)
(* kernel's consistency checks never fire, as long as no program shrinks   *)
(* its heap.                                                               *)
(***************************************************************************)
EXTENDS CowMemory, FiniteSetTheorems, TLAPS

\* Every set of page table entries is finite, so its cardinality is a number.
LEMMA HoldersFinite ==
  ASSUME NEW f
  PROVE  IsFiniteSet(Holders(f))
<1>1. IsFiniteSet(Slot)
  BY CowAssumption, FS_Product DEF Slot
<1>2. Holders(f) \in SUBSET Slot
  BY DEF Holders
<1>3. QED
  BY <1>1, <1>2, FS_Subset

\* Initially nothing is mapped, every frame is free and no count is set.
LEMMA InitCow == Init => CowInv
<1> SUFFICES ASSUME Init PROVE CowInv
  OBVIOUS
<1> USE CowAssumption DEF Init
<1>1. TypeOK
  BY DEF TypeOK, State, Slot
<1>2. OperationsInProgress
  BY DEF OperationsInProgress, Slot
<1>3. RefCountsExact
  <2>1. \A f \in Frame : Holders(f) = {}
    BY DEF Holders
  <2>2. QED
    BY <2>1 DEF RefCountsExact
<1>4. QED
  BY <1>1, <1>2, <1>3 DEF CowInv, NoStaleBits, NoPanic

\* A page that a loop has still to visit is present; mem_clone has a
\* destination other than its source.
LEMMA InProgress ==
  ASSUME TypeOK, OperationsInProgress, NEW d \in Dir, NEW p \in todo[d],
         state[d] \in {"cloning", "copying", "destroying"}
  PROVE  /\ p \in Page
         /\ <<d, p>> \in Slot
         /\ frame[<<d, p>>] \in Frame
         /\ state[d] = "cloning" => /\ dest[d] \in Dir \ {d}
                                    /\ <<dest[d], p>> \in Slot
                                    /\ frame[<<dest[d], p>>] = None
                                    /\ state[dest[d]] = "building"
<1>1. p \in Page /\ <<d, p>> \in Slot
  BY DEF TypeOK, Slot
<1>2. frame[<<d, p>>] \in Frame
  BY <1>1 DEF TypeOK, OperationsInProgress
<1>3. ASSUME state[d] = "cloning"
      PROVE  /\ dest[d] \in Dir \ {d}
             /\ <<dest[d], p>> \in Slot
             /\ frame[<<dest[d], p>>] = None
             /\ state[dest[d]] = "building"
  BY <1>1, <1>3 DEF TypeOK, OperationsInProgress, Slot
<1>4. QED
  BY <1>1, <1>2, <1>3

\* Every step keeps the types.
LEMMA TypeStep ==
  ASSUME TypeOK, OperationsInProgress, Step
  PROVE  TypeOK'
<1> USE CowAssumption DEF TypeOK, State
<1> USE DEF mapping
<1>1. ASSUME NEW d \in Dir, NEW p \in Page, mem_allocatePage(d, p)
      PROVE  TypeOK'
  BY <1>1 DEF mem_allocatePage, Slot
<1>2. ASSUME NEW d \in Dir, NEW p \in Page, mem_copyOnWrite(d, p)
      PROVE  TypeOK'
  BY <1>2 DEF mem_copyOnWrite, SetWritable, Slot
<1>3. ASSUME NEW d \in Dir, NEW p \in Page, mem_copyOnWrite_stale(d, p)
      PROVE  TypeOK'
  BY <1>3 DEF mem_copyOnWrite_stale, SetWritable, Slot
<1>4. ASSUME NEW d \in Dir, NEW p \in Page, mem_copyOnWrite_copy(d, p)
      PROVE  TypeOK'
  <2>1. <<d, p>> \in Slot /\ frame[<<d, p>>] \in Frame
    BY <1>4, InProgress DEF mem_copyOnWrite_copy
  <2>2. QED
    BY <1>4, <2>1 DEF mem_copyOnWrite_copy, SetWritable
<1>5. ASSUME NEW d \in Dir, NEW p \in Page, mem_copyUserPage(d, p)
      PROVE  TypeOK'
  <2> DEFINE src == <<d, p>>
             dst == <<dest[d], p>>
  <2>1. src \in Slot /\ dst \in Slot /\ frame[src] \in Frame
    BY <1>5, InProgress DEF mem_copyUserPage
  <2>2. /\ todo' = [todo EXCEPT ![d] = @ \ {p}]
        /\ UNCHANGED <<state, dest>>
        /\ CopyFrame(src, dst) \/ ShareFresh(src, dst) \/ ShareAgain(src, dst)
    BY <1>5 DEF mem_copyUserPage
  <2> HIDE DEF src, dst
  <2>3. CASE CopyFrame(src, dst)
    BY <2>1, <2>2, <2>3 DEF CopyFrame
  <2>4. CASE ShareFresh(src, dst)
    BY <2>1, <2>2, <2>4 DEF ShareFresh
  <2>5. CASE ShareAgain(src, dst)
    BY <2>1, <2>2, <2>5 DEF ShareAgain
  <2>6. QED
    BY <2>2, <2>3, <2>4, <2>5
<1>6. ASSUME NEW d \in Dir, NEW p \in Page, sys_brk(d, p)
      PROVE  TypeOK'
  <2>1. <<d, p>> \in Slot
    BY DEF Slot
  <2>2. CASE frame[<<d, p>>] # None /\ refs[frame[<<d, p>>]] > 1
    BY <1>6, <2>1, <2>2 DEF sys_brk, mem_freePage
  <2>3. CASE ~(frame[<<d, p>>] # None /\ refs[frame[<<d, p>>]] > 1)
    BY <1>6, <2>1, <2>3 DEF sys_brk, mem_freePage
  <2>4. QED
    BY <2>2, <2>3
<1>7. ASSUME NEW d \in Dir, NEW p \in Page, mem_destroyVAS_page(d, p)
      PROVE  TypeOK'
  <2>1. <<d, p>> \in Slot /\ frame[<<d, p>>] \in Frame
    BY <1>7, InProgress DEF mem_destroyVAS_page
  <2>2. QED
    BY <1>7, <2>1 DEF mem_destroyVAS_page
<1>8. ASSUME NEW d \in Dir, NEW p \in Page, NEW x \in Value,
             user_write(d, p, x) \/ kernel_write(d, p, x)
      PROVE  TypeOK'
  BY <1>8 DEF user_write, kernel_write, Slot
<1>9. ASSUME NEW d \in Dir, NEW e \in Dir, mem_clone(d, e) \/ process_execute(d, e)
      PROVE  TypeOK'
  <2>1. Present(d) \in SUBSET Page
    BY DEF Present
  <2>2. QED
    BY <1>9, <2>1 DEF mem_clone, process_execute
<1>10. ASSUME NEW d \in Dir, mem_clone_done(d) \/ mem_destroyVAS_done(d)
       PROVE  TypeOK'
  BY <1>10 DEF mem_clone_done, mem_destroyVAS_done, OperationsInProgress
<1>11. ASSUME NEW d \in Dir, mem_destroyVAS(d)
       PROVE  TypeOK'
  <2>1. Present(d) \in SUBSET Page
    BY DEF Present
  <2>2. QED
    BY <1>11, <2>1 DEF mem_destroyVAS
<1>12. QED
  BY <1>1, <1>2, <1>3, <1>4, <1>5, <1>6, <1>7, <1>8, <1>9, <1>10, <1>11 DEF Step

\* Every step keeps the bookkeeping of the operations in progress.
LEMMA OperationsStep ==
  ASSUME TypeOK, OperationsInProgress, Step
  PROVE  OperationsInProgress'
<1> USE CowAssumption DEF TypeOK, OperationsInProgress, State
<1> USE DEF mapping
<1>1. ASSUME NEW d \in Dir, NEW p \in Page, mem_allocatePage(d, p)
      PROVE  OperationsInProgress'
  BY <1>1 DEF mem_allocatePage, Runs, Slot
<1>2. ASSUME NEW d \in Dir, NEW p \in Page, mem_copyOnWrite(d, p)
      PROVE  OperationsInProgress'
  BY <1>2 DEF mem_copyOnWrite, Runs
<1>3. ASSUME NEW d \in Dir, NEW p \in Page, mem_copyOnWrite_stale(d, p)
      PROVE  OperationsInProgress'
  BY <1>3 DEF mem_copyOnWrite_stale
<1>4. ASSUME NEW d \in Dir, NEW p \in Page, mem_copyOnWrite_copy(d, p)
      PROVE  OperationsInProgress'
  BY <1>4 DEF mem_copyOnWrite_copy, Slot
<1>5. ASSUME NEW d \in Dir, NEW p \in Page, mem_copyUserPage(d, p)
      PROVE  OperationsInProgress'
  <2>1. /\ state[d] = "cloning"
        /\ p \in todo[d]
        /\ todo' = [todo EXCEPT ![d] = @ \ {p}]
        /\ UNCHANGED <<state, dest>>
    BY <1>5 DEF mem_copyUserPage
  <2>2. \/ frame' = frame
        \/ \E f \in Frame : frame' = [frame EXCEPT ![<<dest[d], p>>] = f]
    BY <1>5, <2>1, InProgress
    DEF mem_copyUserPage, CopyFrame, ShareFresh, ShareAgain
  <2>3. dest[d] \in Dir \ {d} /\ state[dest[d]] = "building"
    BY <2>1, InProgress
  <2>4. QED
    BY <2>1, <2>2, <2>3 DEF Slot
<1>6. ASSUME NEW d \in Dir, NEW p \in Page, sys_brk(d, p)
      PROVE  OperationsInProgress'
  BY <1>6 DEF sys_brk, mem_freePage, Runs, Slot
<1>7. ASSUME NEW d \in Dir, NEW p \in Page, mem_destroyVAS_page(d, p)
      PROVE  OperationsInProgress'
  BY <1>7 DEF mem_destroyVAS_page, Slot
<1>8. ASSUME NEW d \in Dir, NEW p \in Page, NEW x \in Value,
             user_write(d, p, x) \/ kernel_write(d, p, x)
      PROVE  OperationsInProgress'
  BY <1>8 DEF user_write, kernel_write
<1>9. ASSUME NEW d \in Dir, NEW e \in Dir, mem_clone(d, e) \/ process_execute(d, e)
      PROVE  OperationsInProgress'
  <2>1. /\ state[d] = "live" /\ state[e] = "unused"
        /\ \/ state' = [state EXCEPT ![d] = "cloning", ![e] = "building"]
           \/ state' = [state EXCEPT ![d] = "destroying", ![e] = "building"]
        /\ dest' = [dest EXCEPT ![d] = e]
        /\ todo' = [todo EXCEPT ![d] = Present(d)]
        /\ frame' = frame
    BY <1>9 DEF mem_clone, process_execute, Runs
  <2>2. /\ Present(d) \subseteq Page
        /\ \A p \in Page : p \in Present(d) <=> frame[<<d, p>>] # None
    BY DEF Present
  <2>3. \A c \in Dir : dest[c] # None => dest[c] # e /\ dest[c] # d /\ c # e /\ c # d
    BY <2>1
  <2>4. QED
    BY <2>1, <2>2, <2>3
<1>10. ASSUME NEW d \in Dir, mem_clone_done(d)
       PROVE  OperationsInProgress'
  BY <1>10 DEF mem_clone_done
<1>11. ASSUME NEW d \in Dir, mem_destroyVAS_done(d)
       PROVE  OperationsInProgress'
  BY <1>11 DEF mem_destroyVAS_done
<1>12. ASSUME NEW d \in Dir, mem_destroyVAS(d)
       PROVE  OperationsInProgress'
  BY <1>12 DEF mem_destroyVAS, Present, Runs
<1>13. QED
  BY <1>1, <1>2, <1>3, <1>4, <1>5, <1>6, <1>7, <1>8, <1>9, <1>10, <1>11, <1>12
  DEF Step

\* The two kinds of holder: a writable entry is alone on a frame with count 0, a
\* read-only one is counted.
LEMMA HolderFacts ==
  ASSUME TypeOK, RefCountsExact, NEW s \in Slot, frame[s] \in Frame, ~Copying(s)
  PROVE  LET f == frame[s] IN
         /\ s \in Holders(f)
         /\ f \notin free
         /\ s \in rw => refs[f] = 0 /\ Holders(f) = {s}
         /\ s \notin rw => /\ refs[f] = Cardinality(Holders(f))
                           /\ refs[f] >= 1
                           /\ refs[f] = 1 => Holders(f) = {s}
                           /\ \A t \in Holders(f) : t \notin rw /\ t \in cow
<1> DEFINE f == frame[s]
<1>1. s \in Holders(f)
  BY DEF Holders
<1>2. f \notin free
  BY <1>1 DEF RefCountsExact
<1>3. s \in rw => refs[f] = 0 /\ Holders(f) = {s}
  BY <1>1 DEF RefCountsExact
<1>4. ASSUME s \notin rw
      PROVE  /\ refs[f] = Cardinality(Holders(f))
             /\ refs[f] >= 1
             /\ refs[f] = 1 => Holders(f) = {s}
             /\ \A t \in Holders(f) : t \notin rw /\ t \in cow
  <2>1. refs[f] = Cardinality(Holders(f))
    BY <1>1, <1>4 DEF RefCountsExact
  <2>2. Cardinality(Holders(f) \ {s}) = Cardinality(Holders(f)) - 1
    BY <1>1, HoldersFinite, FS_RemoveElement
  <2>3. Cardinality(Holders(f) \ {s}) \in Nat /\ Cardinality(Holders(f)) \in Nat
    BY HoldersFinite, FS_CardinalityType, FS_RemoveElement
  <2>4. refs[f] = 1 => Holders(f) \ {s} = {}
    <3>1. IsFiniteSet(Holders(f) \ {s})
      BY <1>1, HoldersFinite, FS_RemoveElement
    <3>2. Cardinality(Holders(f) \ {s}) = 0 => Holders(f) \ {s} = {}
      BY <3>1, FS_EmptySet
    <3>3. QED
      BY <2>1, <2>2, <3>2
  <2>5. \A t \in Holders(f) : t \notin rw /\ t \in cow
    BY <1>1, <1>4 DEF RefCountsExact
  <2>6. QED
    BY <1>1, <2>1, <2>2, <2>3, <2>4, <2>5
<1>5. QED
  BY <1>1, <1>2, <1>3, <1>4

\* The counts stay exact when a step changes them for one frame g only and that
\* frame's new holders agree with its new count.
LEMMA OneFrameChanges ==
  ASSUME RefCountsExact, NEW g \in Frame,
         \A f \in Frame \ {g} : /\ Holders(f)' = Holders(f)
                                /\ f \in free' <=> f \in free
                                /\ refs'[f] = refs[f]
                                /\ \A t \in Holders(f) : /\ t \in rw' <=> t \in rw
                                                         /\ t \in cow' <=> t \in cow,
         g \in free' <=> Holders(g)' = {},
         g \in free' => refs'[g] = 0,
         \A t \in Holders(g)' :
           \/ t \in rw' /\ t \notin cow' /\ refs'[g] = 0 /\ Holders(g)' = {t}
           \/ t \notin rw' /\ t \in cow' /\ refs'[g] = Cardinality(Holders(g)')
  PROVE  RefCountsExact'
<1> SUFFICES ASSUME NEW f \in Frame
    PROVE /\ f \in free' <=> Holders(f)' = {}
          /\ f \in free' => refs'[f] = 0
          /\ \A t \in Holders(f)' :
               \/ t \in rw' /\ t \notin cow' /\ refs'[f] = 0 /\ Holders(f)' = {t}
               \/ t \notin rw' /\ t \in cow' /\ refs'[f] = Cardinality(Holders(f)')
  BY DEF RefCountsExact
<1>1. CASE f = g
  BY <1>1
<1>2. CASE f # g
  BY <1>2 DEF RefCountsExact
<1>3. QED
  BY <1>1, <1>2

\* A step that changes neither mappings nor counts keeps the counts exact.
LEMMA NothingChanges ==
  ASSUME RefCountsExact, frame' = frame, refs' = refs, free' = free,
         \A s \in Slot : frame[s] # None => /\ Copying(s)' <=> Copying(s)
                                            /\ s \in rw' <=> s \in rw
                                            /\ s \in cow' <=> s \in cow
  PROVE  RefCountsExact'
<1>1. \A f \in Frame : Holders(f)' = Holders(f)
  BY CowAssumption DEF Holders
<1>2. \A f \in Frame : \A t \in Holders(f) : t \in Slot /\ frame[t] # None
  BY CowAssumption DEF Holders
<1>3. QED
  BY <1>1, <1>2 DEF RefCountsExact

\* mem_allocatePage gives a free frame its first holder, writable and uncounted.
LEMMA AllocateStep ==
  ASSUME CowInv, NEW d \in Dir, NEW p \in Page, mem_allocatePage(d, p)
  PROVE  RefCountsExact'
<1> USE CowAssumption DEF CowInv, TypeOK
<1> DEFINE s == <<d, p>>
<1>1. PICK g \in free : /\ frame' = [frame EXCEPT ![s] = g]
                        /\ free' = free \ {g}
                        /\ rw' = rw \cup {s}
                        /\ UNCHANGED <<state, todo, cow, refs>>
  BY DEF mem_allocatePage
<1>2. s \in Slot /\ frame[s] = None /\ s \notin cow /\ state[d] = "live"
  BY DEF mem_allocatePage, Runs, Slot, NoStaleBits
<1>3. ~Copying(s) /\ \A t : Copying(t)' <=> Copying(t)
  BY <1>1, <1>2 DEF Copying
<1> HIDE DEF s
<1>4. \A f \in Frame \ {g} : Holders(f)' = Holders(f) /\ s \notin Holders(f)
  BY <1>1, <1>2, <1>3 DEF Holders
<1>5. Holders(g)' = {s}
  <2>1. Holders(g) = {}
    BY DEF RefCountsExact
  <2>2. QED
    BY <1>1, <1>2, <1>3, <2>1 DEF Holders
<1>6. refs[g] = 0
  BY DEF RefCountsExact
<1>7. QED
  BY <1>1, <1>2, <1>4, <1>5, <1>6, OneFrameChanges

\* The decision of mem_copyOnWrite: the last holder becomes writable, any other
\* gives its reference up; the count is never 0.
LEMMA CopyOnWriteStep ==
  ASSUME CowInv, NEW d \in Dir, NEW p \in Page, mem_copyOnWrite(d, p)
  PROVE  RefCountsExact' /\ panic' = "none"
<1> USE CowAssumption DEF CowInv, TypeOK
<1> DEFINE s == <<d, p>>
<1>1. PICK f \in Frame :
      /\ f = frame[s] /\ frame' = frame /\ free' = free
      /\ s \in Slot /\ s \notin rw /\ s \in cow /\ state[d] = "live"
  BY DEF mem_copyOnWrite, Runs, Slot
<1>2. ~Copying(s)
  BY <1>1 DEF Copying
<1>3. /\ s \in Holders(f)
      /\ f \notin free
      /\ refs[f] = Cardinality(Holders(f))
      /\ refs[f] >= 1
      /\ refs[f] = 1 => Holders(f) = {s}
      /\ \A t \in Holders(f) : t \notin rw /\ t \in cow
  BY <1>1, <1>2, HolderFacts
<1>4. CASE refs[f] = 1
  <2>1. /\ refs' = [refs EXCEPT ![f] = 0] /\ rw' = rw \cup {s} /\ cow' = cow \ {s}
        /\ UNCHANGED <<state, todo, panic>>
    BY <1>1, <1>4 DEF mem_copyOnWrite, SetWritable
  <2>2. \A t : Copying(t)' <=> Copying(t)
    BY <2>1 DEF Copying
  <2>3. \A g \in Frame : Holders(g)' = Holders(g)
    BY <1>1, <2>2 DEF Holders
  <2>4. \A g \in Frame \ {f} : s \notin Holders(g)
    BY <1>1 DEF Holders
  <2> HIDE DEF s
  <2>5. RefCountsExact'
    BY <1>1, <1>3, <1>4, <2>1, <2>3, <2>4, OneFrameChanges
  <2>6. QED
    BY <2>1, <2>5 DEF NoPanic
<1>5. CASE refs[f] > 1
  <2>1. /\ refs' = [refs EXCEPT ![f] = @ - 1]
        /\ state' = [state EXCEPT ![d] = "copying"]
        /\ todo' = [todo EXCEPT ![d] = {p}]
        /\ UNCHANGED <<rw, cow, panic>>
    BY <1>1, <1>5 DEF mem_copyOnWrite
  <2>2. \A t \in Slot : Copying(t)' <=> Copying(t) \/ t = s
    BY <1>1, <2>1 DEF Copying, Slot
  <2>3. \A g \in Frame : Holders(g)' = Holders(g) \ {s}
    BY <1>1, <2>2 DEF Holders
  <2>4. \A g \in Frame \ {f} : s \notin Holders(g)
    BY <1>1 DEF Holders
  <2> HIDE DEF s
  <2>5. /\ Cardinality(Holders(f) \ {s}) = Cardinality(Holders(f)) - 1
        /\ IsFiniteSet(Holders(f) \ {s})
    BY <1>3, HoldersFinite, FS_RemoveElement
  <2>6. /\ refs'[f] = Cardinality(Holders(f) \ {s})
        /\ Cardinality(Holders(f) \ {s}) # 0
    BY <1>1, <1>3, <1>5, <2>1, <2>5
  <2>7. Holders(f) \ {s} # {}
    BY <2>5, <2>6, FS_EmptySet
  <2>8. ASSUME NEW g \in Frame \ {f}
        PROVE  Holders(g)' = Holders(g) /\ refs'[g] = refs[g]
    <3>1. Holders(g) \ {s} = Holders(g)
      BY <2>4
    <3>2. QED
      BY <2>1, <2>3, <3>1
  <2>9. RefCountsExact'
    BY <1>1, <1>3, <2>1, <2>3, <2>6, <2>7, <2>8, OneFrameChanges
  <2>10. QED
    BY <2>1, <2>9 DEF NoPanic
<1>6. QED
  BY <1>1, <1>3, <1>4, <1>5

\* The copy of mem_copyOnWrite: the entry, which held nothing, becomes the only
\* holder of a frame that was free.
LEMMA CopyStep ==
  ASSUME CowInv, NEW d \in Dir, NEW p \in Page, mem_copyOnWrite_copy(d, p)
  PROVE  RefCountsExact'
<1> USE CowAssumption DEF CowInv, TypeOK
<1> DEFINE s == <<d, p>>
<1>1. PICK g \in free : /\ frame' = [frame EXCEPT ![s] = g]
                        /\ free' = free \ {g}
                        /\ rw' = rw \cup {s} /\ cow' = cow \ {s}
                        /\ state' = [state EXCEPT ![d] = "live"]
                        /\ todo' = [todo EXCEPT ![d] = {}]
                        /\ refs' = refs
  BY DEF mem_copyOnWrite_copy, SetWritable
<1>2. s \in Slot /\ Copying(s) /\ ~Copying(s)'
  BY <1>1 DEF mem_copyOnWrite_copy, Copying, Slot
<1>3. todo[d] = {p}
  BY DEF mem_copyOnWrite_copy, OperationsInProgress
<1>4. \A t \in Slot \ {s} : Copying(t)' <=> Copying(t)
  BY <1>1, <1>3 DEF Copying, Slot
<1> HIDE DEF s
<1>5. \A f \in Frame \ {g} : Holders(f)' = Holders(f) /\ s \notin Holders(f)
  BY <1>1, <1>2, <1>4 DEF Holders
<1>6. Holders(g) = {} /\ refs[g] = 0
  BY DEF RefCountsExact
<1>7. Holders(g)' = {s}
  BY <1>1, <1>2, <1>4, <1>6 DEF Holders
<1>8. QED
  BY <1>1, <1>5, <1>6, <1>7, OneFrameChanges

\* mem_copyUserPage: the new entry is alone on a copy, or joins the holders of
\* the source's frame, all of them read-only, and the count follows.
LEMMA CopyUserPageStep ==
  ASSUME CowInv, NEW d \in Dir, NEW p \in Page, mem_copyUserPage(d, p)
  PROVE  RefCountsExact' /\ panic' = "none"
<1> USE CowAssumption DEF CowInv, TypeOK, NoPanic
<1> DEFINE src == <<d, p>>
           dst == <<dest[d], p>>
<1>1. /\ src \in Slot /\ frame[src] \in Frame /\ src # dst
      /\ dst \in Slot /\ frame[dst] = None
      /\ state[d] = "cloning" /\ state[dest[d]] = "building"
  BY InProgress DEF mem_copyUserPage
<1>2. /\ todo' = [todo EXCEPT ![d] = @ \ {p}]
      /\ UNCHANGED <<state, dest>>
      /\ CopyFrame(src, dst) \/ ShareFresh(src, dst) \/ ShareAgain(src, dst)
  BY DEF mem_copyUserPage
<1>3. ~Copying(src) /\ ~Copying(dst) /\ \A t \in Slot : Copying(t)' <=> Copying(t)
  BY <1>1, <1>2 DEF Copying, Slot
<1> HIDE DEF src
<1>4. PICK e : e = dst
  OBVIOUS
<1> HIDE DEF dst
<1>5. CASE CopyFrame(src, e)
  <2>1. PICK g \in free : /\ frame' = [frame EXCEPT ![e] = g]
                          /\ free' = free \ {g}
                          /\ rw' = rw \cup {e} /\ cow' = cow \ {e}
                          /\ refs' = refs /\ panic' = panic
    BY <1>5 DEF CopyFrame
  <2>2. \A f \in Frame \ {g} : Holders(f)' = Holders(f) /\ e \notin Holders(f)
    BY <1>1, <1>3, <1>4, <2>1 DEF Holders
  <2>3. Holders(g) = {} /\ refs[g] = 0
    BY DEF RefCountsExact
  <2>4. Holders(g)' = {e}
    BY <1>1, <1>3, <1>4, <2>1, <2>3 DEF Holders
  <2>5. RefCountsExact'
    BY <2>1, <2>2, <2>3, <2>4, OneFrameChanges
  <2>6. QED
    BY <2>1, <2>5
<1>6. PICK f \in Frame : f = frame[src]
  BY <1>1
<1>7. /\ src \in Holders(f) /\ f \notin free
      /\ src \in rw => refs[f] = 0 /\ Holders(f) = {src}
      /\ src \notin rw => /\ refs[f] = Cardinality(Holders(f))
                          /\ refs[f] >= 1
                          /\ \A t \in Holders(f) : t \notin rw /\ t \in cow
  BY <1>1, <1>3, <1>6, HolderFacts
<1>8. e \notin Holders(f) /\ \A g \in Frame : e \notin Holders(g)
  BY <1>1, <1>4 DEF Holders
<1>9. ASSUME frame' = [frame EXCEPT ![e] = f]
      PROVE  /\ Holders(f)' = Holders(f) \cup {e}
             /\ \A g \in Frame \ {f} : Holders(g)' = Holders(g)
  BY <1>1, <1>3, <1>4, <1>9 DEF Holders
<1>10. CASE ShareFresh(src, e)
  <2>1. /\ refs' = [refs EXCEPT ![f] = 2] /\ frame' = [frame EXCEPT ![e] = f]
        /\ rw' = rw \ {src, e} /\ cow' = cow \cup {src, e}
        /\ free' = free /\ panic' = panic
    BY <1>6, <1>7, <1>10 DEF ShareFresh
  <2>2. Holders(f) = {src}
    BY <1>7, <1>10 DEF ShareFresh
  <2>3. Cardinality(Holders(f) \cup {e}) = 2
    <3>1. Cardinality({src}) = 1 /\ IsFiniteSet({src})
      BY FS_Singleton
    <3>2. e \notin {src}
      BY <1>1, <1>4
    <3>3. Cardinality({src} \cup {e}) = Cardinality({src}) + 1
      BY <3>1, <3>2, FS_AddElement
    <3>4. Cardinality({src}) + 1 = 2
      BY <3>1
    <3>5. QED
      BY <2>2, <3>3, <3>4, Zenon
  <2>4. \A g \in Frame \ {f} : src \notin Holders(g)
    BY <1>6 DEF Holders
  <2>5. /\ refs'[f] = 2
        /\ \A g \in Frame \ {f} : refs'[g] = refs[g]
    BY <2>1
  <2>6. \A t \in Holders(f) \cup {e} : t \notin rw' /\ t \in cow'
    BY <2>1, <2>2
  <2>7. RefCountsExact'
    <3>1. /\ Holders(f)' = Holders(f) \cup {e}
          /\ \A g \in Frame \ {f} : Holders(g)' = Holders(g)
      BY <1>9, <2>1
    <3>2. \A g \in Frame \ {f} : \A t \in Holders(g) : /\ t \in rw' <=> t \in rw
                                                       /\ t \in cow' <=> t \in cow
      BY <1>8, <2>1, <2>4
    <3>3. QED
      BY <1>7, <2>1, <2>3, <2>5, <2>6, <3>1, <3>2, OneFrameChanges
  <2>8. QED
    BY <2>1, <2>7
<1>11. CASE ShareAgain(src, e)
  <2>1. /\ src \notin rw
        /\ refs' = [refs EXCEPT ![f] = @ + 1] /\ frame' = [frame EXCEPT ![e] = f]
        /\ rw' = rw \ {e} /\ cow' = cow \cup {e}
        /\ free' = free /\ panic' = panic
    BY <1>6, <1>7, <1>11 DEF ShareAgain
  <2>2. Cardinality(Holders(f) \cup {e}) = Cardinality(Holders(f)) + 1
    BY <1>8, HoldersFinite, FS_AddElement
  <2>3. /\ refs'[f] = Cardinality(Holders(f) \cup {e})
        /\ \A g \in Frame \ {f} : refs'[g] = refs[g]
    BY <1>7, <2>1, <2>2
  <2>4. \A t \in Holders(f) \cup {e} : t \notin rw' /\ t \in cow'
    BY <1>7, <2>1
  <2>5. RefCountsExact'
    <3>1. /\ Holders(f)' = Holders(f) \cup {e}
          /\ \A g \in Frame \ {f} : Holders(g)' = Holders(g)
      BY <1>9, <2>1
    <3>2. \A g \in Frame \ {f} : \A t \in Holders(g) : /\ t \in rw' <=> t \in rw
                                                       /\ t \in cow' <=> t \in cow
      BY <1>8, <2>1
    <3>3. QED
      BY <1>7, <2>1, <2>3, <2>4, <3>1, <3>2, OneFrameChanges
  <2>6. QED
    BY <2>1, <2>5
<1>12. QED
  BY <1>2, <1>4, <1>5, <1>10, <1>11

\* mem_destroyVAS gives up one reference per page: the frame of a writable page
\* or of the last reference becomes free, any other loses one holder.
LEMMA DestroyPageStep ==
  ASSUME CowInv, NEW d \in Dir, NEW p \in Page, mem_destroyVAS_page(d, p)
  PROVE  RefCountsExact' /\ panic' = "none"
<1> USE CowAssumption DEF CowInv, TypeOK, NoPanic
<1> DEFINE s == <<d, p>>
<1>1. s \in Slot /\ frame[s] \in Frame /\ state[d] = "destroying"
  BY InProgress DEF mem_destroyVAS_page
<1>2. PICK f \in Frame : f = frame[s]
  BY <1>1
<1>3. ~Copying(s)
  BY <1>1 DEF Copying
<1>4. /\ s \in Holders(f) /\ f \notin free
      /\ s \in rw => refs[f] = 0 /\ Holders(f) = {s}
      /\ s \notin rw => /\ refs[f] = Cardinality(Holders(f))
                        /\ refs[f] >= 1
                        /\ refs[f] = 1 => Holders(f) = {s}
                        /\ \A t \in Holders(f) : t \notin rw /\ t \in cow
  BY <1>1, <1>2, <1>3, HolderFacts
<1>5. /\ refs' = [refs EXCEPT ![f] = IF @ = 0 THEN 0 ELSE @ - 1]
      /\ free' = IF refs[f] <= 1 THEN free \cup {f} ELSE free
      /\ panic' = panic
      /\ frame' = [frame EXCEPT ![s] = None]
      /\ rw' = rw \ {s} /\ cow' = cow \ {s}
      /\ todo' = [todo EXCEPT ![d] = @ \ {p}] /\ state' = state
  BY <1>2, <1>4 DEF mem_destroyVAS_page
<1>6. \A t \in Slot : Copying(t)' <=> Copying(t)
  BY <1>1, <1>5 DEF Copying, Slot
<1> HIDE DEF s
<1>7. /\ Holders(f)' = Holders(f) \ {s}
      /\ \A g \in Frame \ {f} : Holders(g)' = Holders(g) /\ s \notin Holders(g)
  BY <1>1, <1>2, <1>5, <1>6 DEF Holders
<1>8. \A g \in Frame \ {f} : /\ refs'[g] = refs[g]
                             /\ g \in free' <=> g \in free
  BY <1>5
<1>9. CASE refs[f] <= 1
  <2>1. Holders(f)' = {}
    BY <1>4, <1>7, <1>9
  <2>2. f \in free' /\ refs'[f] = 0
    BY <1>5, <1>9
  <2>3. RefCountsExact'
    BY <1>5, <1>7, <1>8, <2>1, <2>2, OneFrameChanges
  <2>4. QED
    BY <1>5, <2>3
<1>10. CASE refs[f] > 1
  <2>1. s \notin rw
    BY <1>4, <1>10
  <2>2. /\ Cardinality(Holders(f) \ {s}) = Cardinality(Holders(f)) - 1
        /\ IsFiniteSet(Holders(f) \ {s})
    BY <1>4, HoldersFinite, FS_RemoveElement
  <2>3. /\ refs'[f] = Cardinality(Holders(f) \ {s})
        /\ Cardinality(Holders(f) \ {s}) # 0
        /\ free' = free
    BY <1>4, <1>5, <1>10, <2>1, <2>2
  <2>4. Holders(f) \ {s} # {}
    BY <2>2, <2>3, FS_EmptySet
  <2>5. \A t \in Holders(f) \ {s} : t \notin rw' /\ t \in cow'
    BY <1>4, <1>5, <2>1
  <2>6. RefCountsExact'
    <3>1. f \notin free' /\ Holders(f)' # {}
      BY <1>4, <1>7, <2>3, <2>4
    <3>2. \A t \in Holders(f)' : /\ t \notin rw' /\ t \in cow'
                                 /\ refs'[f] = Cardinality(Holders(f)')
      BY <1>7, <2>3, <2>5
    <3>3. \A g \in Frame \ {f} : \A t \in Holders(g) : /\ t \in rw' <=> t \in rw
                                                       /\ t \in cow' <=> t \in cow
      BY <1>5, <1>7
    <3>4. QED
      BY <1>7, <1>8, <3>1, <3>2, <3>3, OneFrameChanges
  <2>7. QED
    BY <1>5, <2>6
<1>11. QED
  BY <1>9, <1>10

\* Every step keeps the counts exact and the checks quiet, unless it is brk.
LEMMA RefCountsStep ==
  ASSUME CowInv, Step, "brk_shrink" \notin Behaviours
  PROVE  RefCountsExact' /\ panic' = "none"
<1> USE CowAssumption DEF CowInv, TypeOK, NoPanic, mapping
<1>1. ASSUME NEW d \in Dir, NEW p \in Page, mem_allocatePage(d, p)
      PROVE  RefCountsExact' /\ panic' = "none"
  BY <1>1, AllocateStep DEF mem_allocatePage
<1>2. ASSUME NEW d \in Dir, NEW p \in Page, mem_copyOnWrite_copy(d, p)
      PROVE  RefCountsExact' /\ panic' = "none"
  BY <1>2, CopyStep DEF mem_copyOnWrite_copy
<1>3. ASSUME NEW d \in Dir, NEW p \in Page, mem_copyOnWrite_stale(d, p)
      PROVE  RefCountsExact' /\ panic' = "none"
  <2>1. /\ frame' = frame /\ refs' = refs /\ free' = free /\ panic' = panic
        /\ \A t : Copying(t)' <=> Copying(t)
        /\ \A t \in Slot : frame[t] # None => /\ t \in rw' <=> t \in rw
                                              /\ t \in cow' <=> t \in cow
    BY <1>3 DEF mem_copyOnWrite_stale, SetWritable, Copying
  <2>2. QED
    BY <2>1, NothingChanges
<1>4. ASSUME NEW d \in Dir, NEW p \in Page, NEW x \in Value,
             user_write(d, p, x) \/ kernel_write(d, p, x)
      PROVE  RefCountsExact' /\ panic' = "none"
  <2>1. UNCHANGED <<state, todo, frame, rw, cow, refs, free, panic>>
    BY <1>4 DEF user_write, kernel_write
  <2>2. \A t : Copying(t)' <=> Copying(t)
    BY <2>1 DEF Copying
  <2>3. QED
    BY <2>1, <2>2, NothingChanges
<1>5. ASSUME NEW d \in Dir,
             \/ \E e \in Dir : mem_clone(d, e) \/ process_execute(d, e)
             \/ mem_clone_done(d)
             \/ mem_destroyVAS(d)
      PROVE  RefCountsExact' /\ panic' = "none"
  <2>1. UNCHANGED <<frame, rw, cow, refs, free, panic>>
    BY <1>5 DEF mem_clone, process_execute, mem_clone_done, mem_destroyVAS
  <2>2. \A t \in Slot : Copying(t)' <=> Copying(t)
    BY <1>5 DEF mem_clone, process_execute, mem_clone_done, mem_destroyVAS, Runs,
                Copying, Slot, OperationsInProgress
  <2>3. QED
    BY <2>1, <2>2, NothingChanges
<1>6. ASSUME NEW d \in Dir, mem_destroyVAS_done(d)
      PROVE  RefCountsExact' /\ panic' = "none"
  <2>1. /\ UNCHANGED <<frame, rw, refs, free, panic>>
        /\ cow' = {s \in cow : s[1] # d}
    BY <1>6 DEF mem_destroyVAS_done
  <2>2. \A t \in Slot : Copying(t)' <=> Copying(t)
    BY <1>6 DEF mem_destroyVAS_done, Copying, Slot, OperationsInProgress
  <2>3. \A t \in Slot : frame[t] # None => t[1] # d
    BY <1>6 DEF mem_destroyVAS_done, OperationsInProgress, Slot
  <2>4. QED
    BY <2>1, <2>2, <2>3, NothingChanges
<1>7. ASSUME NEW d \in Dir, NEW p \in Page,
             \/ mem_copyOnWrite(d, p)
             \/ mem_copyUserPage(d, p)
             \/ mem_destroyVAS_page(d, p)
      PROVE  RefCountsExact' /\ panic' = "none"
  BY <1>7, CopyOnWriteStep, CopyUserPageStep, DestroyPageStep
<1>8. QED
  BY <1>1, <1>2, <1>3, <1>4, <1>5, <1>6, <1>7 DEF Step, sys_brk

\* Every step but brk keeps the copy-on-write bits on present pages.
LEMMA StaleBitsStep ==
  ASSUME CowInv, Step, "brk_shrink" \notin Behaviours
  PROVE  NoStaleBits'
<1> USE CowAssumption DEF CowInv, TypeOK, NoStaleBits, mapping
<1>1. ASSUME NEW d \in Dir, NEW p \in Page,
             \/ mem_allocatePage(d, p)
             \/ mem_copyOnWrite(d, p)
             \/ mem_copyOnWrite_stale(d, p)
             \/ mem_copyOnWrite_copy(d, p)
      PROVE  NoStaleBits'
  BY <1>1 DEF mem_allocatePage, mem_copyOnWrite, mem_copyOnWrite_stale,
              mem_copyOnWrite_copy, SetWritable
<1>2. ASSUME NEW d \in Dir, NEW p \in Page, mem_copyUserPage(d, p)
      PROVE  NoStaleBits'
  <2> DEFINE src == <<d, p>>
             dst == <<dest[d], p>>
  <2>1. src \in Slot /\ dst \in Slot /\ frame[src] \in Frame
    BY <1>2, InProgress DEF mem_copyUserPage
  <2>2. CopyFrame(src, dst) \/ ShareFresh(src, dst) \/ ShareAgain(src, dst)
    BY <1>2 DEF mem_copyUserPage
  <2> HIDE DEF src, dst
  <2>3. QED
    BY <2>1, <2>2 DEF CopyFrame, ShareFresh, ShareAgain
<1>3. ASSUME NEW d \in Dir, NEW p \in Page, mem_destroyVAS_page(d, p)
      PROVE  NoStaleBits'
  BY <1>3 DEF mem_destroyVAS_page
<1>4. ASSUME NEW d \in Dir, NEW p \in Page, NEW x \in Value,
             user_write(d, p, x) \/ kernel_write(d, p, x)
      PROVE  NoStaleBits'
  BY <1>4 DEF user_write, kernel_write
<1>5. ASSUME NEW d \in Dir,
             \/ \E e \in Dir : mem_clone(d, e) \/ process_execute(d, e)
             \/ mem_clone_done(d)
             \/ mem_destroyVAS(d)
             \/ mem_destroyVAS_done(d)
      PROVE  NoStaleBits'
  BY <1>5 DEF mem_clone, process_execute, mem_clone_done, mem_destroyVAS,
              mem_destroyVAS_done
<1>6. QED
  BY <1>1, <1>2, <1>3, <1>4, <1>5 DEF Step, sys_brk

\* Types and operations in progress, for all programs.
LEMMA OperationsInvariant == Spec => [](TypeOK /\ OperationsInProgress)
<1>1. Init => TypeOK /\ OperationsInProgress
  BY InitCow DEF CowInv
<1>2. TypeOK /\ OperationsInProgress /\ [Next]_vars => (TypeOK /\ OperationsInProgress)'
  <2>1. ASSUME TypeOK, OperationsInProgress, Next PROVE (TypeOK /\ OperationsInProgress)'
    BY <2>1, TypeStep, OperationsStep DEF Next
  <2>2. ASSUME TypeOK, OperationsInProgress, UNCHANGED vars
        PROVE  (TypeOK /\ OperationsInProgress)'
    BY <2>2 DEF TypeOK, OperationsInProgress, vars
  <2>3. QED
    BY <2>1, <2>2
<1>3. QED
  BY <1>1, <1>2, PTL DEF Spec

\* The state of the page tables and of the counts keeps its types, whatever
\* programs do.
THEOREM TypeCorrect == Spec => []TypeOK
BY OperationsInvariant, PTL

\* mem_clone, mem_copyOnWrite and mem_destroyVAS only ever visit pages that are
\* present, and no two operations build the same directory, whatever programs do.
THEOREM OperationsCorrect == Spec => []OperationsInProgress
BY OperationsInvariant, PTL

\* CowInv is inductive when sys_brk is not used to shrink the heap.
THEOREM CowInvariant ==
  ASSUME "brk_shrink" \notin Behaviours
  PROVE  Spec => []CowInv
<1>1. Init => CowInv
  BY InitCow
<1>2. CowInv /\ [Next]_vars => CowInv'
  <2>1. ASSUME CowInv, Next PROVE CowInv'
    <3>1. TypeOK' /\ OperationsInProgress'
      BY <2>1, TypeStep, OperationsStep DEF CowInv, Next
    <3>2. RefCountsExact' /\ panic' = "none"
      BY <2>1, RefCountsStep DEF Next
    <3>3. NoStaleBits'
      BY <2>1, StaleBitsStep DEF Next
    <3>4. QED
      BY <3>1, <3>2, <3>3 DEF CowInv, NoPanic
  <2>2. ASSUME CowInv, UNCHANGED vars PROVE CowInv'
    <3>1. \A f : Holders(f)' = Holders(f)
      BY <2>2 DEF Holders, Copying, vars
    <3>2. QED
      BY <2>2, <3>1
      DEF CowInv, TypeOK, OperationsInProgress, RefCountsExact, NoStaleBits, NoPanic,
          vars
  <2>3. QED
    BY <2>1, <2>2
<1>3. QED
  BY <1>1, <1>2, PTL DEF Spec

\* The reference counts of shared frames are exact in every reachable state, on
\* any number of CPUs, for any number of processes, pages and frames and any
\* maximal count, so fork, write faults, exec and exit neither leak a frame nor
\* free one that is still mapped.
THEOREM RefCountsCorrect ==
  ASSUME "brk_shrink" \notin Behaviours
  PROVE  Spec => []RefCountsExact
<1>1. CowInv => RefCountsExact
  BY DEF CowInv
<1>2. QED
  BY <1>1, CowInvariant, PTL

\* The kernel_panic calls of mem_copyUserPage and mem_decrementPageReference are
\* unreachable without sys_brk.
THEOREM ChecksNeverFire ==
  ASSUME "brk_shrink" \notin Behaviours
  PROVE  Spec => []NoPanic
<1>1. CowInv => NoPanic
  BY DEF CowInv
<1>2. QED
  BY <1>1, CowInvariant, PTL
==============================================================================
