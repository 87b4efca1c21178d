----------------------------- MODULE Semaphore -----------------------------
(***************************************************************************)
(* What kmt->sem_wait and kmt->sem_signal promise: a counter whose waiters  *)
(* are let through one per signal, in the order they came.                  *)
(***************************************************************************)
EXTENDS Integers, Sequences

CONSTANT Task

VARIABLES
    count,      \* signals to spare, or minus the number of waiters
    queue,      \* the waiters no signal has released yet, longest first
    waiting     \* the tasks that have not come back from sem_wait

semaphoreVars == <<count, queue, waiting>>

Init == count = 0 /\ queue = <<>> /\ waiting = {}

Pass ==
    /\ count > 0
    /\ count' = count - 1
    /\ UNCHANGED <<queue, waiting>>

Park(t) ==
    /\ count <= 0 /\ t \notin waiting
    /\ count' = count - 1
    /\ queue' = Append(queue, t)
    /\ waiting' = waiting \cup {t}

Signal ==
    /\ count' = count + 1
    /\ queue' = IF queue = <<>> THEN queue ELSE Tail(queue)
    /\ UNCHANGED waiting

Back(t) ==
    /\ t \in waiting
    /\ \A i \in DOMAIN queue : queue[i] # t
    /\ waiting' = waiting \ {t}
    /\ UNCHANGED <<count, queue>>

Next == Pass \/ Signal \/ \E t \in Task : Park(t) \/ Back(t)

Spec == Init /\ [][Next]_semaphoreVars
=============================================================================
