----------------------------- MODULE MCKvdbLock -----------------------------
(* Instances of KvdbLock for TLC.                                            *)
EXTENDS KvdbLock

CONSTANTS w1, w2, p1, p2

OneProcess == [t \in Thread |-> p1]
\* The writers share a process; the reader is alone in another.
Shared == [t \in Thread |-> IF t \in {w1, w2} THEN p1 ELSE p2]
=============================================================================
