------------------------------ MODULE MCBlkfs ------------------------------
(* Blkfs on a small disk.                                                    *)
EXTENDS Blkfs, TLC

MCPath == {<<91>>, <<92>>, <<91, 92>>, <<UP>>}
MCWipe == -1
MCSymmetry == Permutations(Handle)
=============================================================================
