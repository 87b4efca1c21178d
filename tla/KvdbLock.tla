------------------------------ MODULE KvdbLock ------------------------------
(***************************************************************************)
(* libkvdb's two-level lock, kvdb_lock in libkvdb/kvdb.c: the threads of a  *)
(* process share one kvdb_t, whose rwlock orders them and whose rd_cnt and  *)
(* wr_acq hold readers back while a writer waits; processes exclude one     *)
(* another with flock on the open file, which all threads of a process      *)
(* share.  A thread calls kvdb_get (lock RD, read, unlock) or kvdb_put      *)
(* (lock WR, write, unlock) again and again.                                *)
(***************************************************************************)
EXTENDS Integers, FiniteSets

CONSTANTS
    Reader, Writer,     \* the threads that call kvdb_get, and kvdb_put
    ProcessOf,          \* the process of each
    Limit               \* 0x77, how far rd_cnt may go before readers park

Thread == Reader \cup Writer

ASSUME KvdbLockAssumption ==
    /\ Reader \cap Writer = {} /\ IsFiniteSet(Writer)
    /\ DOMAIN ProcessOf = Thread
    /\ Limit \in Nat

Process == {ProcessOf[t] : t \in Thread}

VARIABLES
    pc,         \* where a thread is in kvdb_get or kvdb_put
    tmp,        \* kvdb_lock's local: the wr_acq a reader saw
    loaded,     \* the rd_cnt a reader read in its unguarded ++
    wr_acq, rd_cnt,
    rwlock,     \* who holds db->lk
    flocked     \* what the process's open file holds: "UN", "SH" or "EX"

vars == <<pc, tmp, loaded, wr_acq, rd_cnt, rwlock, flocked>>

P(t) == ProcessOf[t]
Mates(t) == {u \in Thread : P(u) = P(t)}

ReaderPc == {"idle", "load", "store", "again", "reset", "park", "rdlock", "flock",
             "inside", "funlock"}
WriterPc == {"idle", "wrlock", "leave", "clear", "flock", "inside", "funlock"}

TypeOK ==
    /\ pc \in [Thread -> ReaderPc \cup WriterPc]
    /\ \A t \in Thread : pc[t] \in IF t \in Reader THEN ReaderPc ELSE WriterPc
    /\ tmp \in [Reader -> 0 .. Cardinality(Writer)]
    /\ loaded \in [Reader -> 0 .. Limit + 1]
    /\ wr_acq \in [Process -> 0 .. Cardinality(Writer)]
    /\ rd_cnt \in [Process -> 0 .. Limit + 1]
    /\ rwlock \in [Process -> SUBSET Thread]
    /\ flocked \in [Process -> {"UN", "SH", "EX"}]

Init ==
    /\ pc = [t \in Thread |-> "idle"]
    /\ tmp = [r \in Reader |-> 0]
    /\ loaded = [r \in Reader |-> 0]
    /\ wr_acq = [p \in Process |-> 0]
    /\ rd_cnt = [p \in Process |-> 0]
    /\ rwlock = [p \in Process |-> {}]
    /\ flocked = [p \in Process |-> "UN"]

Goto(t, to) == pc' = [pc EXCEPT ![t] = to]

-----------------------------------------------------------------------------
(* KVDB_RD                                                                    *)

\* tmp = wr_acq; readers pay attention to writers only if some wait.
ReadAcq(r) ==
    /\ pc[r] = "idle"
    /\ tmp' = [tmp EXCEPT ![r] = wr_acq[P(r)]]
    /\ Goto(r, IF wr_acq[P(r)] > 0 THEN "load" ELSE "park")
    /\ UNCHANGED <<loaded, wr_acq, rd_cnt, rwlock, flocked>>

\* ++rd_cnt, a load and a store.  Every count above Limit acts alike: Limit + 1
\* stands for them all.
LoadCnt(r) ==
    /\ pc[r] = "load"
    /\ loaded' = [loaded EXCEPT ![r] = rd_cnt[P(r)]]
    /\ Goto(r, "store")
    /\ UNCHANGED <<tmp, wr_acq, rd_cnt, rwlock, flocked>>

StoreCnt(r) ==
    /\ pc[r] = "store"
    /\ rd_cnt' = [rd_cnt EXCEPT ![P(r)] = IF loaded[r] <= Limit THEN loaded[r] + 1 ELSE loaded[r]]
    /\ loaded' = [loaded EXCEPT ![r] = 0]
    /\ Goto(r, "again")
    /\ UNCHANGED <<tmp, wr_acq, rwlock, flocked>>

\* slip: nobody looks at wr_acq a second time.
CheckNever(r) ==
    /\ pc[r] = "again"
    /\ Goto(r, "park")
    /\ UNCHANGED <<tmp, loaded, wr_acq, rd_cnt, rwlock, flocked>>

CheckAgain(r) ==
    /\ pc[r] = "again"
    /\ Goto(r, IF tmp[r] # wr_acq[P(r)] THEN "reset" ELSE "park")
    /\ UNCHANGED <<tmp, loaded, wr_acq, rd_cnt, rwlock, flocked>>

ResetCnt(r) ==
    /\ pc[r] = "reset"
    /\ rd_cnt' = [rd_cnt EXCEPT ![P(r)] = 0]
    /\ Goto(r, "park")
    /\ UNCHANGED <<tmp, loaded, wr_acq, rwlock, flocked>>

\* slip: readers never wait.
ParkNever(r) ==
    /\ pc[r] = "park"
    /\ Goto(r, "rdlock")
    /\ UNCHANGED <<tmp, loaded, wr_acq, rd_cnt, rwlock, flocked>>

Park(r) ==
    /\ pc[r] = "park" /\ rd_cnt[P(r)] <= Limit
    /\ Goto(r, "rdlock")
    /\ UNCHANGED <<tmp, loaded, wr_acq, rd_cnt, rwlock, flocked>>

\* The default rwlock admits readers as long as no writer holds it.
pthread_rwlock_rdlock(r) ==
    /\ pc[r] = "rdlock" /\ rwlock[P(r)] \cap Writer = {}
    /\ rwlock' = [rwlock EXCEPT ![P(r)] = @ \cup {r}]
    /\ Goto(r, "flock")
    /\ UNCHANGED <<tmp, loaded, wr_acq, rd_cnt, flocked>>

-----------------------------------------------------------------------------
(* KVDB_WR                                                                    *)

lock_op(p, del) == wr_acq' = [wr_acq EXCEPT ![p] = @ + del]

\* slip: a writer does not announce itself.
AcquireSilent(w) ==
    /\ pc[w] = "idle"
    /\ Goto(w, "wrlock")
    /\ UNCHANGED <<tmp, loaded, wr_acq, rd_cnt, rwlock, flocked>>

Acquire(w) ==
    /\ pc[w] = "idle"
    /\ lock_op(P(w), 1)
    /\ Goto(w, "wrlock")
    /\ UNCHANGED <<tmp, loaded, rd_cnt, rwlock, flocked>>

pthread_rwlock_wrlock(w) ==
    /\ pc[w] = "wrlock" /\ rwlock[P(w)] = {}
    /\ rwlock' = [rwlock EXCEPT ![P(w)] = {w}]
    /\ Goto(w, "leave")
    /\ UNCHANGED <<tmp, loaded, wr_acq, rd_cnt, flocked>>

Leave(w) ==
    /\ pc[w] = "leave"
    /\ lock_op(P(w), -1)
    /\ Goto(w, "clear")
    /\ UNCHANGED <<tmp, loaded, rd_cnt, rwlock, flocked>>

\* slip: rd_cnt is left as it is.
ClearNever(w) ==
    /\ pc[w] = "clear"
    /\ Goto(w, "flock")
    /\ UNCHANGED <<tmp, loaded, wr_acq, rd_cnt, rwlock, flocked>>

Clear(w) ==
    /\ pc[w] = "clear"
    /\ rd_cnt' = [rd_cnt EXCEPT ![P(w)] = 0]
    /\ Goto(w, "flock")
    /\ UNCHANGED <<tmp, loaded, wr_acq, rwlock, flocked>>

-----------------------------------------------------------------------------
(* flock(2), once the rwlock is held: the lock belongs to the open file of    *)
(* the process.  Changing its kind gives the old lock up first.               *)

FlockIf(t, op, conflict) ==
    /\ pc[t] = "flock"
    /\ \/ /\ flocked[P(t)] \notin {"UN", op}
          /\ flocked' = [flocked EXCEPT ![P(t)] = "UN"]
          /\ UNCHANGED pc
       \/ /\ flocked[P(t)] = op
          /\ Goto(t, "inside")
          /\ UNCHANGED flocked
       \/ /\ flocked[P(t)] = "UN"
          /\ \A p \in Process \ {P(t)} : flocked[p] \notin conflict
          /\ flocked' = [flocked EXCEPT ![P(t)] = op]
          /\ Goto(t, "inside")
    /\ UNCHANGED <<tmp, loaded, wr_acq, rd_cnt, rwlock>>

Flock(t) ==
    IF t \in Writer THEN FlockIf(t, "EX", {"SH", "EX"}) ELSE FlockIf(t, "SH", {"EX"})

\* KVDB_UN: the rwlock first, the file second.
Unlock(t) ==
    /\ pc[t] = "inside"
    /\ rwlock' = [rwlock EXCEPT ![P(t)] = @ \ {t}]
    /\ Goto(t, "funlock")
    /\ UNCHANGED <<tmp, loaded, wr_acq, rd_cnt, flocked>>

Funlock(t) ==
    /\ pc[t] = "funlock"
    /\ flocked' = [flocked EXCEPT ![P(t)] = "UN"]
    /\ Goto(t, "idle")
    /\ UNCHANGED <<tmp, loaded, wr_acq, rd_cnt, rwlock>>

-----------------------------------------------------------------------------

ReadStep(r) ==
    \/ LoadCnt(r) \/ StoreCnt(r) \/ CheckAgain(r) \/ ResetCnt(r)
    \/ Park(r) \/ pthread_rwlock_rdlock(r)

WriteStep(w) == pthread_rwlock_wrlock(w) \/ Leave(w) \/ Clear(w)

\* Every step of a thread but the calls of kvdb_get and kvdb_put.
Step(t) ==
    \/ t \in Reader /\ ReadStep(t)
    \/ t \in Writer /\ WriteStep(t)
    \/ Flock(t) \/ Unlock(t) \/ Funlock(t)

Next ==
    \/ \E r \in Reader : ReadAcq(r)
    \/ \E w \in Writer : Acquire(w)
    \/ \E t \in Thread : Step(t)

Spec == Init /\ [][Next]_vars

\* The threads are scheduled; whether one calls again is up to the program.  The
\* rwlock is not assumed to be fair to one writer among several.
FairSpec == Spec /\ \A t \in Thread : WF_vars(Step(t))

-----------------------------------------------------------------------------
(* Properties                                                                 *)

\* "Proper RW control(Between processes and between threads)" (kvdb.c:6): while a
\* thread writes the file, nobody else, here or in another process, is in it.
FileExclusive ==
    \A w \in Writer, t \in Thread :
        pc[w] = "inside" /\ pc[t] = "inside" => t = w

\* wr_acq counts the writers that wait for the rwlock (kvdb.c:17), whatever the
\* interleaving of their announcements.
WaitersCounted ==
    \A p \in Process :
        wr_acq[p] = Cardinality({w \in Writer : P(w) = p /\ pc[w] \in {"wrlock", "leave"}})

\* The proof in the header comment (kvdb.c:20-25) as an invariant: readers are
\* parked only while someone is still to set rd_cnt to 0, a writer on its way or
\* a reader that has yet to look at wr_acq again.
ParkedForSomeone ==
    \A p \in Process :
        rd_cnt[p] > Limit =>
            \/ \E w \in Writer : P(w) = p /\ pc[w] \in {"wrlock", "leave", "clear"}
            \/ \E r \in Reader : /\ P(r) = p
                                 /\ \/ pc[r] = "reset"
                                    \/ pc[r] = "again" /\ tmp[r] # wr_acq[p]

\* "even there are endless reading, write can still success" (kvdb.c:14): while a
\* writer of a process waits, one of its writers gets in, whatever the readers do.
WriterServed ==
    \A p \in Process :
        (\E w \in Writer : P(w) = p /\ pc[w] = "wrlock")
            ~> (\E w \in Writer : P(w) = p /\ pc[w] = "inside")

\* "until no threads want to write" (kvdb.c:24): once the writers are done, parked
\* readers go on.
ReaderServed ==
    <>[](\A w \in Writer : pc[w] = "idle") =>
        \A r \in Reader : pc[r] = "park" ~> pc[r] = "rdlock"
=============================================================================
