----------------------------- MODULE MCKvdbFile -----------------------------
(* Strings of one word, of exactly one block, and of two blocks. *)
EXTENDS KvdbFile
OneWord == <<901>>
OneBlock == [i \in 1 .. BlockLen |-> 910 + i]
TwoBlocks == [i \in 1 .. BlockLen + 1 |-> 920 + i]
MCKeys == {<<801>>, <<802>>}
MCVals == {OneWord, OneBlock, TwoBlocks}
\* nothing is claimed once a torn file has been recovered from
InOrder == ~spoilt
=============================================================================
