----------------------------- MODULE MCCowMemory -----------------------------
(* Instances of CowMemory for TLC.                                         *)
EXTENDS CowMemory, TLC

\* No operation tells one frame from another.
FrameSymmetry == Permutations(Frame)
==============================================================================
