------------------------------ MODULE MCLibco ------------------------------
(* Instances of Libco for TLC.                                               *)
EXTENDS Libco

ASSUME Live <= Routines + 1 /\ Pieces >= 1
=============================================================================
