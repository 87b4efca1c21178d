------------------------------- MODULE Libco -------------------------------
(***************************************************************************)
(* libco/co.c, coroutines on setjmp and longjmp: co_start, co_yield and     *)
(* co_wait over a fixed array of routine objects.  The program is the one   *)
(* the library is tested with: main starts coroutines and waits for them;   *)
(* each of them works, yields between two pieces of work, and returns.      *)
(*                                                                          *)
(* There is one thread; it executes main or a coroutine's body.             *)
(***************************************************************************)
EXTENDS Integers, Sequences, Functions

CONSTANTS
    Routines,       \* MAX_ROUTINES, the length of routines[] and pool[]
    Pieces,         \* bound: how often a body yields
    Live,           \* bound: the coroutines main has not waited for yet
    Main            \* who executes when no coroutine does

ASSUME LibcoAssumption ==
    /\ Routines \in Nat \ {0} /\ Pieces \in Nat /\ Live \in Nat
    /\ Main \notin 0 .. Routines - 1

Slot == 0 .. Routines - 1

VARIABLES
    alive,      \* routines[i].stat & CO_ALIVE
    pool,       \* pool[0 .. pool_idx): the indexes of free routines, last out first
    executing,  \* whose code executes: Main or the routine in current
    left,       \* the yields the body of a routine has left; bodies end at 0
    done,       \* whether the body last started in a routine has returned
    handles,    \* the struct co* main has and will wait for
    waited      \* the thd of the co_wait main is in, or Main

co_vars == <<alive, pool, executing, left, done, handles, waited>>

CoTypeOK ==
    /\ alive \in [Slot -> BOOLEAN]
    /\ pool \in Seq(Slot) /\ Len(pool) <= Routines
    /\ executing \in Slot \cup {Main}
    /\ left \in [Slot -> 0 .. Pieces]
    /\ done \in [Slot -> BOOLEAN]
    /\ handles \in [Slot -> Nat]
    /\ waited \in Slot \cup {Main}

co_init ==
    /\ alive = [s \in Slot |-> FALSE]
    /\ pool = [i \in 1 .. Routines |-> i - 1]
    /\ executing = Main
    /\ left = [s \in Slot |-> 0]
    /\ done = [s \in Slot |-> FALSE]
    /\ handles = [s \in Slot |-> 0]
    /\ waited = Main

\* new_co and the frame co_start prepares: the body starts at the first jump.  With
\* an empty pool the Assert of new_co ends the program.
co_start ==
    /\ executing = Main /\ waited = Main
    /\ pool # <<>> /\ SumFunction(handles) < Live
    /\ LET s == pool[Len(pool)]
       IN  /\ pool' = SubSeq(pool, 1, Len(pool) - 1)
           /\ alive' = [alive EXCEPT ![s] = TRUE]
           /\ \E n \in 0 .. Pieces : left' = [left EXCEPT ![s] = n]
           /\ done' = [done EXCEPT ![s] = FALSE]
           /\ handles' = [handles EXCEPT ![s] = @ + 1]
    /\ UNCHANGED <<executing, waited>>

\* co_wait: setjmp(ret_buf), and a jump into thd if it is alive.
co_wait(thd) ==
    /\ executing = Main /\ waited = Main /\ handles[thd] > 0
    /\ waited' = thd
    /\ executing' = IF alive[thd] THEN thd ELSE Main
    /\ UNCHANGED <<alive, pool, left, done, handles>>

\* The end of co_wait, reached when thd is dead or through ret_buf.
WaitReturn ==
    /\ executing = Main /\ waited # Main
    /\ alive' = [alive EXCEPT ![waited] = FALSE]
    /\ handles' = [handles EXCEPT ![waited] = @ - 1]
    /\ waited' = Main
    /\ UNCHANGED <<executing, pool, left, done>>

YieldTo(next) ==
    /\ executing # Main /\ left[executing] > 0
    /\ left' = [left EXCEPT ![executing] = @ - 1]
    /\ executing' = next
    /\ UNCHANGED <<alive, pool, done, handles, waited>>

\* slip: any routine that was ever started will do.
YieldUnchecked(next) == YieldTo(next) /\ (alive[next] \/ done[next])

\* co_yield: some routine with CO_ALIVE set, perhaps the same.
co_yield(next) == YieldTo(next) /\ alive[next]

FinishAs(stat) ==
    /\ executing # Main /\ left[executing] = 0
    /\ alive' = [alive EXCEPT ![executing] = stat]
    /\ done' = [done EXCEPT ![executing] = TRUE]
    /\ pool' = Append(pool, executing)
    /\ executing' = Main
    /\ UNCHANGED <<left, handles, waited>>

\* slip: CO_ALIVE stays set.
FinishAlive == FinishAs(TRUE)

\* The tail of co_start: the body has returned; the jump through ret_buf goes to
\* whichever co_wait main is in.
Finish == FinishAs(FALSE)

CoNext ==
    \/ co_start
    \/ \E s \in Slot : co_wait(s) \/ co_yield(s)
    \/ WaitReturn \/ Finish

CoSpec == co_init /\ [][CoNext]_co_vars

-----------------------------------------------------------------------------
(* Properties                                                                *)

\* A free routine is in the pool once and is not alive, however bodies end and
\* waits return: new_co never hands out a routine somebody still runs on.
PoolSound ==
    /\ CoTypeOK
    /\ \A i, j \in 1 .. Len(pool) : pool[i] = pool[j] => i = j
    /\ \A i \in 1 .. Len(pool) : ~alive[pool[i]]

\* Every jump lands: a body executes only between its start and its end, and only
\* while ret_buf leads into a co_wait that has not returned.
JumpsLand ==
    executing # Main => alive[executing] /\ ~done[executing] /\ waited # Main

=============================================================================
