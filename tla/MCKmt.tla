------------------------------- MODULE MCKmt -------------------------------
(* Instances of Kmt for TLC.                                                 *)
EXTENDS Kmt, FiniteSets, TLC

CONSTANTS t1, t2, t3

ASSUME Cardinality(Task) < PoolLen

OneRoot == [t \in {t1} |-> 1]

\* The tasks that are created are alike, and so are the processors.
Alike == Permutations(Task \ Root) \cup Permutations(CPU)

\* The invariants say nothing of what comes after these.
InOrder == ~swapped /\ ~late
=============================================================================
