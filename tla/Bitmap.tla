------------------------------- MODULE Bitmap -------------------------------
(***************************************************************************)
(* The first-fit search that the physical memory manager (mem/pmm.c) and   *)
(* the object pools (misc/pool.c) both use.  A bitmap is the set of the    *)
(* indices whose bit is set; it may be larger than what it manages.        *)
(***************************************************************************)
EXTENDS Integers, FiniteSetsExt

CONSTANT WordBits   \* indices per word of the bitmap, 32 in the code

ASSUME WordBitsAssumption == WordBits \in Nat \ {0}

ENOMEM == -12

\* Indices the scan looks at: only whole words below the limit.
Scanned(limit) == 0 .. (limit \div WordBits) * WordBits - 1

findFirstFrame(bits, limit) ==
  LET clear == Scanned(limit) \ bits
  IN IF clear = {} THEN ENOMEM ELSE Min(clear)

\* Only where a run starts is bounded by the limit; the bits that follow are
\* tested wherever they are.
findFirstFrames(bits, limit, n) ==
  LET runs == {b \in Scanned(limit) : \A i \in b .. b + n - 1 : i \notin bits}
  IN IF n = 1 THEN findFirstFrame(bits, limit)
     ELSE IF runs = {} THEN ENOMEM ELSE Min(runs)
=============================================================================
