------------------------------- MODULE MCPmm -------------------------------
(* Pmm on a small heap.                                                      *)
EXTENDS Pmm, TLC

CONSTANTS c1, c2, t1, t2

MCSize == {2, 3, 5}
\* nothing is claimed once a kfree has been overtaken
InOrder == ~raced
MCSymmetry == Permutations(CPU) \cup Permutations(Task)
=============================================================================
