------------------------------ MODULE MCVfile ------------------------------
(* Instances of Vfile for TLC.                                               *)
EXTENDS Vfile, TLC

Symmetry == Permutations(File) \cup Permutations(Task \ {First})

\* The invariants say nothing of what comes after this.
InOrder == ~raced
=============================================================================
