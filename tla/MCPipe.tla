------------------------------- MODULE MCPipe -------------------------------
(* Instances of Pipe for TLC.                                                *)
EXTENDS Pipe

\* The stream goes around the ring, and a request may be longer than the ring.
ASSUME Total > 2 * Size /\ Chunk > Size
=============================================================================
