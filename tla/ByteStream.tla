----------------------------- MODULE ByteStream -----------------------------
(***************************************************************************)
(* What a pipe promises its two ends: bytes come out in the order they went *)
(* in, each once, and never more than Capacity of them are on their way.    *)
(* Its reader is told the end only after its writer closed it; the bytes    *)
(* that are on their way then never come out.                               *)
(*                                                                          *)
(* Byte number i of the stream is the number i.                             *)
(***************************************************************************)
EXTENDS Integers, Sequences

CONSTANT Capacity

VARIABLES
    sent, received,     \* how many bytes went in, and those that came out
    open, ended         \* it is not closed; its reader was told the end

Init == sent = 0 /\ received = <<>> /\ open = TRUE /\ ended = FALSE

Send ==
    /\ open
    /\ sent' > sent
    /\ sent' - Len(received) <= Capacity
    /\ UNCHANGED <<received, open, ended>>

Receive ==
    /\ ~ended
    /\ \E n \in Len(received) + 1 .. sent : received' = [i \in 1 .. n |-> i]
    /\ UNCHANGED <<sent, open, ended>>

Close ==
    /\ open /\ open' = FALSE
    /\ UNCHANGED <<sent, received, ended>>

End ==
    /\ ~open /\ ~ended /\ ended' = TRUE
    /\ UNCHANGED <<sent, received, open>>

Next == Send \/ Receive \/ Close \/ End

Spec == Init /\ [][Next]_<<sent, received, open, ended>>
=============================================================================
