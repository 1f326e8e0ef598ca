---------------------------- MODULE AddressSpaces ----------------------------
(***************************************************************************)
(* What user memory promises, without page tables: every live process has  *)
(* a memory of its own.  Fork copies it, exec empties it, and nothing but  *)
(* the process's own steps changes it.                                     *)
(***************************************************************************)
CONSTANTS Dir, FirstDir, Page, Value, None

VARIABLES live,   \* the memories in use
          mem     \* what each page of each memory holds, None when unmapped

Slot == Dir \X Page

TypeOK == live \subseteq Dir /\ mem \in [Slot -> Value \cup {None}]

Init ==
  /\ live = {FirstDir}
  /\ mem = [s \in Slot |-> None]

\* A page appears with arbitrary contents, changes, or goes away.
Change(d, p, x) ==
  /\ d \in live
  /\ mem' = [mem EXCEPT ![<<d, p>>] = x]
  /\ UNCHANGED live

Fork(d, e) ==
  /\ d \in live /\ e \notin live
  /\ live' = live \cup {e}
  /\ mem' = [s \in Slot |-> IF s[1] = e THEN mem[<<d, s[2]>>] ELSE mem[s]]

Exit(d) ==
  /\ d \in live
  /\ live' = live \ {d}
  /\ mem' = [s \in Slot |-> IF s[1] = d THEN None ELSE mem[s]]

\* The new image of a process that gave up its memory in exec.
Start(e) ==
  /\ e \notin live
  /\ live' = live \cup {e}
  /\ UNCHANGED mem

Next ==
  \/ \E d \in Dir, p \in Page, x \in Value \cup {None} : Change(d, p, x)
  \/ \E d, e \in Dir : Fork(d, e)
  \/ \E d \in Dir : Exit(d) \/ Start(d)

Spec == Init /\ [][Next]_<<live, mem>>
==============================================================================
