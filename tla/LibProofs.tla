----------------------------- MODULE LibProofs -----------------------------
(***************************************************************************)
(* Theorems about the two libraries programs link: KvdbLock and KvdbFile    *)
(* for libkvdb, and Libco.                                                  *)
(* For KvdbLock, with any number of processes and threads and any limit:    *)
(* the argument in the head comment of libkvdb/kvdb.c (20-25), readers are  *)
(* parked only while somebody is on the way who will let them go.           *)
(* For Libco, with any number of routine objects and any bodies: the pool   *)
(* holds the free ones, and every jump lands.                               *)
(* For KvdbFile, with any keys and values, a file of any length, any number *)
(* of puts, and processes that die at any write: until a torn file has been *)
(* recovered from, a get answers with what the last put that returned has   *)
(* stored, and no block has two uses.                                       *)
(***************************************************************************)
EXTENDS KvdbLock, Libco, KvdbFile, FiniteSetTheorems, FunctionTheorems,
        WellFoundedInduction, SequenceTheorems, TLAPS

-----------------------------------------------------------------------------
(* KvdbLock                                                                  *)

Waiting(p) == {w \in Writer : P(w) = p /\ pc[w] \in {"wrlock", "leave"}}

\* A reader enters the counting part only if it has seen a writer.
SawWriter == \A r \in Reader : pc[r] \in {"load", "store", "again"} => tmp[r] > 0

\* A reader that has not looked at wr_acq for the second time counts as help,
\* whatever it will see: if it sees what it saw, a writer is there.
HelpComes ==
    \A p \in Process :
        rd_cnt[p] > Limit =>
            \/ \E w \in Writer : P(w) = p /\ pc[w] \in {"wrlock", "leave", "clear"}
            \/ \E r \in Reader : P(r) = p /\ pc[r] \in {"again", "reset"}

IInv == TypeOK /\ WaitersCounted /\ SawWriter /\ HelpComes

-----------------------------------------------------------------------------

LEMMA WaitingFinite ==
    \A p \in Process : /\ IsFiniteSet(Waiting(p))
                       /\ Cardinality(Waiting(p)) \in 0 .. Cardinality(Writer)
<1> SUFFICES ASSUME NEW p \in Process
             PROVE  /\ IsFiniteSet(Waiting(p))
                    /\ Cardinality(Waiting(p)) \in 0 .. Cardinality(Writer)
  OBVIOUS
<1>1. Waiting(p) \in SUBSET Writer
  BY DEF Waiting
<1>2. IsFiniteSet(Waiting(p)) /\ Cardinality(Waiting(p)) <= Cardinality(Writer)
  BY <1>1, FS_Subset, KvdbLockAssumption
<1>3. Cardinality(Waiting(p)) \in Nat /\ Cardinality(Writer) \in Nat
  BY <1>2, FS_CardinalityType, KvdbLockAssumption
<1> QED BY <1>2, <1>3

\* A count above 0 is somebody.
LEMMA SomebodyWaits ==
    ASSUME WaitersCounted, NEW p \in Process, wr_acq[p] > 0
    PROVE  \E w \in Writer : P(w) = p /\ pc[w] \in {"wrlock", "leave"}
<1>1. wr_acq[p] = Cardinality(Waiting(p))
  BY DEF WaitersCounted, Waiting
<1>2. Waiting(p) # {}
  BY <1>1, FS_EmptySet
<1> QED BY <1>2 DEF Waiting

LEMMA InitIInv == Init => IInv
<1> SUFFICES ASSUME Init PROVE IInv
  OBVIOUS
<1>1. Cardinality(Writer) \in Nat
  BY KvdbLockAssumption, FS_CardinalityType
<1>2. TypeOK
  BY <1>1, KvdbLockAssumption DEF Init, TypeOK, ReaderPc, WriterPc
<1>3. WaitersCounted
  <2>1. \A p \in Process : Waiting(p) = {}
    BY DEF Init, Waiting, Thread
  <2> QED BY <2>1, FS_EmptySet DEF WaitersCounted, Waiting, Init
<1>4. SawWriter
  BY DEF Init, SawWriter, Thread
<1>5. HelpComes
  BY KvdbLockAssumption DEF Init, HelpComes
<1> QED BY <1>2, <1>3, <1>4, <1>5 DEF IInv

-----------------------------------------------------------------------------
(* Only a writer's announcement and its end change who waits.                *)

LEMMA CountStep ==
    ASSUME TypeOK, WaitersCounted, [Next]_vars
    PROVE  WaitersCounted'
<1> USE DEF TypeOK, Thread
<1>1. ASSUME UNCHANGED wr_acq,
             \A w \in Writer : pc'[w] \in {"wrlock", "leave"} <=> pc[w] \in {"wrlock", "leave"}
      PROVE  WaitersCounted'
  <2>1. \A p \in Process : Waiting(p)' = Waiting(p)
    BY <1>1 DEF Waiting
  <2> QED BY <1>1, <2>1 DEF WaitersCounted, Waiting
<1>2. ASSUME NEW w \in Writer, Acquire(w) PROVE WaitersCounted'
  <2>1. w \notin Waiting(P(w)) /\ Waiting(P(w))' = Waiting(P(w)) \cup {w}
    BY <1>2 DEF Waiting, Acquire, Goto
  <2>2. \A p \in Process \ {P(w)} : Waiting(p)' = Waiting(p)
    BY <1>2 DEF Waiting, Acquire, Goto
  <2>3. P(w) \in Process
    BY DEF Process, P
  <2>4. Cardinality(Waiting(P(w))') = Cardinality(Waiting(P(w))) + 1
    BY <2>1, <2>3, FS_AddElement, WaitingFinite
  <2>5. wr_acq' = [wr_acq EXCEPT ![P(w)] = @ + 1]
    BY <1>2 DEF Acquire, lock_op
  <2>6. \A p \in Process : wr_acq'[p] = Cardinality(Waiting(p)')
    BY <2>2, <2>3, <2>4, <2>5 DEF WaitersCounted, Waiting
  <2> QED BY <2>6 DEF WaitersCounted, Waiting
<1>3. ASSUME NEW w \in Writer, Leave(w) PROVE WaitersCounted'
  <2>1. w \in Waiting(P(w)) /\ Waiting(P(w))' = Waiting(P(w)) \ {w}
    BY <1>3 DEF Waiting, Leave, Goto
  <2>2. \A p \in Process \ {P(w)} : Waiting(p)' = Waiting(p)
    BY <1>3 DEF Waiting, Leave, Goto
  <2>3. P(w) \in Process
    BY DEF Process, P
  <2>4. Cardinality(Waiting(P(w))') = Cardinality(Waiting(P(w))) - 1
    BY <2>1, <2>3, FS_RemoveElement, WaitingFinite
  <2>5. wr_acq' = [wr_acq EXCEPT ![P(w)] = @ + (-1)]
    BY <1>3 DEF Leave, lock_op
  <2>6. \A p \in Process : wr_acq'[p] = Cardinality(Waiting(p)')
    BY <2>2, <2>3, <2>4, <2>5 DEF WaitersCounted, Waiting
  <2> QED BY <2>6 DEF WaitersCounted, Waiting
<1>4. ASSUME NEW r \in Reader, ReadAcq(r) \/ ReadStep(r) PROVE WaitersCounted'
  <2>1. r \notin Writer
    BY KvdbLockAssumption
  <2> QED BY <1>1, <1>4, <2>1
          DEF ReadAcq, ReadStep, LoadCnt, StoreCnt, CheckAgain, ResetCnt, Park,
              pthread_rwlock_rdlock, Goto
<1>5. ASSUME NEW w \in Writer, pthread_rwlock_wrlock(w) \/ Clear(w) PROVE WaitersCounted'
  BY <1>1, <1>5 DEF pthread_rwlock_wrlock, Clear, Goto
<1>6. ASSUME NEW t \in Thread, Flock(t) \/ Unlock(t) \/ Funlock(t) PROVE WaitersCounted'
  BY <1>1, <1>6 DEF Flock, FlockIf, Unlock, Funlock, Goto
<1>7. CASE UNCHANGED vars
  BY <1>1, <1>7 DEF vars
<1> QED BY <1>2, <1>3, <1>4, <1>5, <1>6, <1>7 DEF Next, Step, WriteStep

-----------------------------------------------------------------------------

LEMMA TypeStep ==
    ASSUME TypeOK, WaitersCounted', [Next]_vars
    PROVE  TypeOK'
<1>1. ASSUME wr_acq' \in [Process -> Int]
      PROVE  wr_acq' \in [Process -> 0 .. Cardinality(Writer)]
  <2>1. \A p \in Process : wr_acq'[p] = Cardinality(Waiting(p)')
    BY DEF WaitersCounted, Waiting
  <2>2. \A p \in Process : Cardinality(Waiting(p)') \in 0 .. Cardinality(Writer)
    <3> SUFFICES ASSUME NEW p \in Process
                 PROVE  Cardinality(Waiting(p)') \in 0 .. Cardinality(Writer)
      OBVIOUS
    <3>1. Waiting(p)' \in SUBSET Writer
      BY DEF Waiting
    <3>2. IsFiniteSet(Waiting(p)') /\ Cardinality(Waiting(p)') <= Cardinality(Writer)
      BY <3>1, FS_Subset, KvdbLockAssumption
    <3> QED BY <3>2, FS_CardinalityType, KvdbLockAssumption
  <2> QED BY <1>1, <2>1, <2>2
<1>2. \A t \in Thread : P(t) \in Process
  BY DEF Process, P
<1>3. Cardinality(Writer) \in Nat /\ Limit \in Nat
  BY KvdbLockAssumption, FS_CardinalityType
<1> USE <1>2, <1>3, KvdbLockAssumption DEF TypeOK, Thread, ReaderPc, WriterPc, Goto
<1>4. ASSUME NEW r \in Reader, ReadAcq(r) PROVE TypeOK'
  BY <1>4 DEF ReadAcq
<1>5. ASSUME NEW r \in Reader, LoadCnt(r) \/ CheckAgain(r) \/ Park(r) PROVE TypeOK'
  BY <1>5 DEF LoadCnt, CheckAgain, Park
<1>6. ASSUME NEW r \in Reader, StoreCnt(r) PROVE TypeOK'
  <2>1. rd_cnt' \in [Process -> 0 .. Limit + 1]
    BY <1>6 DEF StoreCnt
  <2> QED BY <1>6, <2>1 DEF StoreCnt
<1>7. ASSUME NEW r \in Reader, ResetCnt(r) \/ pthread_rwlock_rdlock(r) PROVE TypeOK'
  BY <1>7 DEF ResetCnt, pthread_rwlock_rdlock
<1>8. ASSUME NEW w \in Writer, Acquire(w) \/ Leave(w) PROVE TypeOK'
  <2>1. wr_acq' \in [Process -> Int]
    BY <1>8 DEF Acquire, Leave, lock_op
  <2>2. wr_acq' \in [Process -> 0 .. Cardinality(Writer)]
    BY <2>1, <1>1
  <2> QED BY <1>8, <2>2 DEF Acquire, Leave
<1>9. ASSUME NEW w \in Writer, pthread_rwlock_wrlock(w) \/ Clear(w) PROVE TypeOK'
  BY <1>9 DEF pthread_rwlock_wrlock, Clear
<1>10. ASSUME NEW t \in Thread, Flock(t) PROVE TypeOK'
  <2>1. ASSUME NEW op \in {"SH", "EX"}, NEW conflict, FlockIf(t, op, conflict) PROVE TypeOK'
    BY <2>1 DEF FlockIf
  <2> QED BY <1>10, <2>1 DEF Flock
<1>11. ASSUME NEW t \in Thread, Unlock(t) \/ Funlock(t) PROVE TypeOK'
  BY <1>11 DEF Unlock, Funlock
<1>12. CASE UNCHANGED vars
  BY <1>12 DEF vars
<1> QED BY <1>4, <1>5, <1>6, <1>7, <1>8, <1>9, <1>10, <1>11, <1>12
        DEF Next, Step, ReadStep, WriteStep

LEMMA SawStep ==
    ASSUME TypeOK, SawWriter, [Next]_vars
    PROVE  SawWriter'
<1> USE DEF TypeOK, Thread, SawWriter
<1>1. ASSUME NEW r \in Reader, ReadAcq(r) PROVE SawWriter'
  BY <1>1 DEF ReadAcq, Goto
<1>2. ASSUME UNCHANGED tmp,
             \A r \in Reader : pc'[r] \in {"load", "store", "again"}
                                 => pc[r] \in {"load", "store", "again"}
      PROVE  SawWriter'
  BY <1>2
<1>3. ASSUME NEW r \in Reader, ReadStep(r) PROVE SawWriter'
  BY <1>2, <1>3 DEF ReadStep, LoadCnt, StoreCnt, CheckAgain, ResetCnt, Park,
                    pthread_rwlock_rdlock, Goto
<1>4. ASSUME NEW w \in Writer, Acquire(w) \/ WriteStep(w) PROVE SawWriter'
  <2>1. w \notin Reader
    BY KvdbLockAssumption
  <2> QED BY <1>2, <1>4, <2>1
          DEF Acquire, WriteStep, pthread_rwlock_wrlock, Leave, Clear, Goto
<1>5. ASSUME NEW t \in Thread, Flock(t) \/ Unlock(t) \/ Funlock(t) PROVE SawWriter'
  BY <1>2, <1>5 DEF Flock, FlockIf, Unlock, Funlock, Goto
<1>6. CASE UNCHANGED vars
  BY <1>6 DEF vars
<1> QED BY <1>1, <1>3, <1>4, <1>5, <1>6 DEF Next, Step

-----------------------------------------------------------------------------
(* The step that matters is CheckAgain: the reader goes to wait when it sees  *)
(* the count it saw before, which was not 0.                                  *)

LEMMA HelpStep ==
    ASSUME IInv, [Next]_vars
    PROVE  HelpComes'
<1> USE KvdbLockAssumption DEF IInv, TypeOK, Thread
<1>1. ASSUME UNCHANGED rd_cnt,
             \A w \in Writer : pc[w] \in {"wrlock", "leave", "clear"}
                                 => pc'[w] \in {"wrlock", "leave", "clear"},
             \A r \in Reader : pc[r] \in {"again", "reset"} => pc'[r] \in {"again", "reset"}
      PROVE  HelpComes'
  BY <1>1 DEF HelpComes
<1>2. ASSUME NEW r \in Reader,
             ReadAcq(r) \/ LoadCnt(r) \/ Park(r) \/ pthread_rwlock_rdlock(r)
      PROVE  HelpComes'
  BY <1>1, <1>2 DEF ReadAcq, LoadCnt, Park, pthread_rwlock_rdlock, Goto
<1>3. ASSUME NEW r \in Reader, StoreCnt(r) PROVE HelpComes'
  <2>1. pc' = [pc EXCEPT ![r] = "again"] /\ r \notin Writer /\ pc[r] = "store"
    BY <1>3 DEF StoreCnt, Goto
  <2>2. \A p \in Process \ {P(r)} : rd_cnt'[p] = rd_cnt[p]
    BY <1>3 DEF StoreCnt
  <2> QED BY <2>1, <2>2 DEF HelpComes
<1>4. ASSUME NEW r \in Reader, CheckAgain(r) PROVE HelpComes'
  <2>1. P(r) \in Process
    BY DEF Process, P
  <2>2. CASE tmp[r] # wr_acq[P(r)]
    BY <1>1, <1>4, <2>2 DEF CheckAgain, Goto
  <2>3. CASE tmp[r] = wr_acq[P(r)]
    <3>1. wr_acq[P(r)] > 0
      BY <1>4, <2>3 DEF CheckAgain, SawWriter
    <3>2. \E w \in Writer : P(w) = P(r) /\ pc[w] \in {"wrlock", "leave"}
      BY <2>1, <3>1, SomebodyWaits
    <3>3. pc' = [pc EXCEPT ![r] = "park"] /\ rd_cnt' = rd_cnt /\ r \notin Writer
      BY <1>4, <2>3 DEF CheckAgain, Goto
    <3> QED BY <3>2, <3>3 DEF HelpComes
  <2> QED BY <2>2, <2>3
<1>5. ASSUME NEW t \in Thread, (t \in Reader /\ ResetCnt(t)) \/ (t \in Writer /\ Clear(t))
      PROVE  HelpComes'
  <2>1. P(t) \in Process
    BY DEF Process, P
  <2>2. rd_cnt' = [rd_cnt EXCEPT ![P(t)] = 0]
    BY <1>5 DEF ResetCnt, Clear
  <2>3. \A u \in Thread \ {t} : pc'[u] = pc[u]
    BY <1>5 DEF ResetCnt, Clear, Goto
  <2> QED BY <2>1, <2>2, <2>3 DEF HelpComes
<1>6. ASSUME NEW w \in Writer, Acquire(w) \/ pthread_rwlock_wrlock(w) \/ Leave(w)
      PROVE  HelpComes'
  BY <1>1, <1>6 DEF Acquire, pthread_rwlock_wrlock, Leave, Goto
<1>7. ASSUME NEW t \in Thread, Flock(t) \/ Unlock(t) \/ Funlock(t) PROVE HelpComes'
  BY <1>1, <1>7 DEF Flock, FlockIf, Unlock, Funlock, Goto
<1>8. CASE UNCHANGED vars
  BY <1>1, <1>8 DEF vars
<1> HIDE DEF IInv, TypeOK
<1> QED BY <1>2, <1>3, <1>4, <1>5, <1>6, <1>7, <1>8 DEF Next, Step, ReadStep, WriteStep

-----------------------------------------------------------------------------

LEMMA Inductive == Spec => []IInv
<1>1. IInv /\ [Next]_vars => IInv'
  BY CountStep, TypeStep, SawStep, HelpStep DEF IInv
<1> QED BY InitIInv, <1>1, PTL DEF Spec

\* The state keeps its types: wr_acq never falls below 0 nor rises above the
\* number of writers (kvdb.c:300-308), though it is an unsigned counter.
THEOREM TypeCorrect == Spec => []TypeOK
<1>1. IInv => TypeOK
  BY DEF IInv
<1> QED BY Inductive, <1>1, PTL

\* wr_acq is the number of writers waiting for the rwlock (kvdb.c:17).
THEOREM Counted == Spec => []WaitersCounted
<1>1. IInv => WaitersCounted
  BY DEF IInv
<1> QED BY Inductive, <1>1, PTL

\* Readers are parked only while somebody is to set rd_cnt to 0, as the head
\* comment of the file argues (kvdb.c:20-25): the unguarded ++rd_cnt does no harm.
THEOREM NoneParkedForEver == Spec => []ParkedForSomeone
<1>1. IInv => ParkedForSomeone
  <2> SUFFICES ASSUME IInv, NEW p \in Process, rd_cnt[p] > Limit,
                      ~ \E w \in Writer : P(w) = p /\ pc[w] \in {"wrlock", "leave", "clear"}
               PROVE  \E r \in Reader : /\ P(r) = p
                                        /\ \/ pc[r] = "reset"
                                           \/ pc[r] = "again" /\ tmp[r] # wr_acq[p]
    BY DEF ParkedForSomeone
  <2>1. PICK r \in Reader : P(r) = p /\ pc[r] \in {"again", "reset"}
    BY DEF IInv, HelpComes
  <2>2. ~(wr_acq[p] > 0)
    BY SomebodyWaits DEF IInv
  <2>3. pc[r] = "again" => tmp[r] > 0
    BY DEF IInv, SawWriter
  <2> QED BY <2>1, <2>2, <2>3
<1> QED BY Inductive, <1>1, PTL

-----------------------------------------------------------------------------
(* Libco                                                                     *)

PoolTyped == pool \in Seq(Slot) /\ Len(pool) <= Routines

Typed ==
    /\ alive \in [Slot -> BOOLEAN]
    /\ executing \in Slot \cup {Main}
    /\ left \in [Slot -> 0 .. Pieces]
    /\ done \in [Slot -> BOOLEAN]
    /\ handles \in [Slot -> Nat]
    /\ waited \in Slot \cup {Main}

\* The pool: each free routine once, none of them alive.
PoolInv ==
    /\ \A i, j \in 1 .. Len(pool) : pool[i] = pool[j] => i = j
    /\ \A i \in 1 .. Len(pool) : ~alive[pool[i]]

\* The bodies: one that is alive has not returned, the one that executes is alive
\* and was jumped to out of a co_wait, whose handle main still has.
BodyInv ==
    /\ \A s \in Slot : alive[s] => ~done[s]
    /\ executing # Main => alive[executing] /\ waited # Main
    /\ waited # Main => handles[waited] > 0

CoInv == PoolTyped /\ Typed /\ PoolInv /\ BodyInv

-----------------------------------------------------------------------------

\* When a routine is not in the pool there is a place for it.
LEMMA PoolRoom ==
    ASSUME PoolTyped, PoolInv, NEW s \in Slot, \A i \in 1 .. Len(pool) : pool[i] # s
    PROVE  Len(pool) < Routines
<1> DEFINE n == Len(pool)
           f == [i \in 1 .. n + 1 |-> IF i = n + 1 THEN s ELSE pool[i]]
<1>1. n \in Nat /\ \A i \in 1 .. n : pool[i] \in Slot
  BY DEF PoolTyped
<1>2. f \in [1 .. n + 1 -> Slot]
  <2> SUFFICES ASSUME NEW i \in 1 .. n + 1 PROVE f[i] \in Slot
    OBVIOUS
  <2>1. i = n + 1 \/ i \in 1 .. n
    BY <1>1
  <2> QED BY <1>1, <2>1
<1>3. ~ \E i, j \in 1 .. n + 1 : i # j /\ f[i] = f[j]
  <2> SUFFICES ASSUME NEW i \in 1 .. n + 1, NEW j \in 1 .. n + 1, i # j, f[i] = f[j]
               PROVE  FALSE
    OBVIOUS
  <2>1. i = n + 1 => j \in 1 .. n
    BY <1>1
  <2>2. j = n + 1 => i \in 1 .. n
    BY <1>1
  <2>3. i # n + 1 /\ j # n + 1
    BY <2>1, <2>2
  <2>4. i \in 1 .. n /\ j \in 1 .. n
    BY <2>3, <1>1
  <2> QED BY <2>3, <2>4 DEF PoolInv
<1>4. IsFiniteSet(1 .. n + 1) /\ Cardinality(1 .. n + 1) = n + 1
  <2>1. 1 \in Int /\ n + 1 \in Int
    BY <1>1
  <2> QED BY <2>1, <1>1, FS_Interval
<1>5. IsFiniteSet(Slot) /\ Cardinality(Slot) = Routines
  <2>1. 0 \in Int /\ Routines - 1 \in Int /\ ~(0 > Routines - 1)
    BY LibcoAssumption
  <2>2. IsFiniteSet(0 .. Routines - 1) /\ Cardinality(0 .. Routines - 1) = (Routines - 1) - 0 + 1
    BY <2>1, FS_Interval
  <2> QED BY <2>2, LibcoAssumption DEF Slot
<1> HIDE DEF n, f
<1>6. ~ (Cardinality(Slot) < Cardinality(1 .. n + 1))
  <2> SUFFICES ASSUME Cardinality(Slot) < Cardinality(1 .. n + 1) PROVE FALSE
    OBVIOUS
  <2>1. \E x, y \in 1 .. n + 1 : x # y /\ f[x] = f[y]
    BY <1>2, <1>4, <1>5, FS_PigeonHole
  <2> QED BY <2>1, <1>3
<1>7. n < Routines
  BY <1>1, <1>4, <1>5, <1>6, LibcoAssumption
<1> QED BY <1>7 DEF n

LEMMA InitInv == co_init => CoInv
<1> SUFFICES ASSUME co_init PROVE CoInv
  OBVIOUS
<1>1. Routines \in Nat /\ Pieces \in Nat
  BY LibcoAssumption
<1>2. PoolTyped /\ Len(pool) = Routines /\ \A i \in 1 .. Routines : pool[i] = i - 1
  <2>1. \A i \in 1 .. Routines : i - 1 \in Slot
    BY <1>1 DEF Slot
  <2> QED BY <1>1, <2>1 DEF co_init, PoolTyped
<1>3. Typed
  BY <1>1 DEF co_init, Typed
<1>4. PoolInv
  <2>1. \A i \in 1 .. Routines : pool[i] \in Slot
    BY <1>1, <1>2 DEF Slot
  <2> QED BY <1>1, <1>2, <2>1 DEF co_init, PoolInv
<1>5. BodyInv
  BY DEF co_init, BodyInv
<1> QED BY <1>2, <1>3, <1>4, <1>5 DEF CoInv

LEMMA Beginning ==
    ASSUME NEW S, NEW q \in Seq(S), NEW m \in 0 .. Len(q)
    PROVE  /\ SubSeq(q, 1, m) \in Seq(S) /\ Len(SubSeq(q, 1, m)) = m
           /\ \A i \in 1 .. m : SubSeq(q, 1, m)[i] = q[i]
<1> QED OBVIOUS

LEMMA StartInv == ASSUME CoInv, co_start PROVE CoInv'
<1> USE DEF CoInv
<1> DEFINE n == Len(pool)
           s == pool[n]
<1>1. pool \in Seq(Slot) /\ n \in Nat /\ n <= Routines /\ n > 0
  BY DEF PoolTyped, co_start
<1>8. s \in Slot
  BY <1>1
<1>2. /\ executing = Main /\ waited = Main
      /\ pool' = SubSeq(pool, 1, n - 1)
      /\ alive' = [alive EXCEPT ![s] = TRUE]
      /\ done' = [done EXCEPT ![s] = FALSE]
      /\ handles' = [handles EXCEPT ![s] = @ + 1]
      /\ \E m \in 0 .. Pieces : left' = [left EXCEPT ![s] = m]
      /\ executing' = executing /\ waited' = waited
  BY DEF co_start
<1>3. /\ pool' \in Seq(Slot) /\ Len(pool') = n - 1
      /\ \A i \in 1 .. n - 1 : pool'[i] = pool[i] /\ i \in 1 .. n /\ pool[i] # s
  <2>1. pool' \in Seq(Slot) /\ Len(pool') = n - 1 /\ \A i \in 1 .. n - 1 : pool'[i] = pool[i]
    <3>1. n - 1 \in 0 .. n
      BY <1>1
    <3> QED BY <1>1, <1>2, <3>1, Beginning
  <2>2. \A i \in 1 .. n - 1 : i \in 1 .. n /\ i # n
    BY <1>1
  <2>3. n \in 1 .. n
    BY <1>1
  <2>4. \A i \in 1 .. n - 1 : pool[i] # s
    BY <2>2, <2>3 DEF PoolInv
  <2> QED BY <2>1, <2>2, <2>4
<1>4. PoolTyped'
  <2>1. n - 1 <= Routines
    BY <1>1, LibcoAssumption
  <2> QED BY <1>3, <2>1 DEF PoolTyped
<1>5. Typed'
  <2>1. handles[s] + 1 \in Nat
    BY <1>8 DEF Typed
  <2> HIDE DEF s
  <2>2. handles' \in [Slot -> Nat]
    BY <1>2, <2>1 DEF Typed
  <2>3. left' \in [Slot -> 0 .. Pieces] /\ alive' \in [Slot -> BOOLEAN] /\ done' \in [Slot -> BOOLEAN]
    BY <1>2 DEF Typed
  <2> QED BY <1>2, <2>2, <2>3 DEF Typed
<1>6. PoolInv'
  <2>1. ASSUME NEW i \in 1 .. n - 1 PROVE ~alive'[pool'[i]]
    <3> DEFINE t == pool[i]
    <3>1. pool'[i] = t /\ t \in Slot /\ t # s /\ ~alive[t]
      <4>1. pool'[i] = t /\ i \in 1 .. n /\ t # s
        BY <1>3
      <4>2. t \in Slot
        BY <1>1, <4>1
      <4>3. ~alive[t]
        BY <4>1 DEF PoolInv
      <4> QED BY <4>1, <4>2, <4>3
    <3> HIDE DEF s, t
    <3>2. alive'[t] = alive[t]
      BY <1>2, <3>1 DEF Typed
    <3> QED BY <3>1, <3>2
  <2>2. \A i, j \in 1 .. n - 1 : pool'[i] = pool'[j] => i = j
    BY <1>3 DEF PoolInv
  <2> QED BY <1>3, <2>1, <2>2 DEF PoolInv
<1>7. BodyInv'
  <2> HIDE DEF s
  <2>1. \A t \in Slot : alive'[t] => ~done'[t]
    BY <1>2, <1>8 DEF Typed, BodyInv
  <2> QED BY <1>2, <2>1 DEF BodyInv
<1> QED BY <1>4, <1>5, <1>6, <1>7

LEMMA WaitInv == ASSUME CoInv, NEW s \in Slot, co_wait(s) PROVE CoInv'
<1> USE DEF CoInv
<1>1. /\ handles[s] > 0 /\ waited' = s /\ executing' = IF alive[s] THEN s ELSE Main
      /\ s # Main /\ UNCHANGED <<alive, pool, left, done, handles>>
  BY LibcoAssumption DEF co_wait, Slot
<1>2. PoolTyped' /\ PoolInv'
  BY <1>1 DEF PoolTyped, PoolInv
<1>3. Typed'
  BY <1>1 DEF Typed
<1>4. BodyInv'
  BY <1>1 DEF BodyInv
<1> QED BY <1>2, <1>3, <1>4

LEMMA WaitReturnInv == ASSUME CoInv, WaitReturn PROVE CoInv'
<1> USE DEF CoInv
<1>1. /\ waited \in Slot /\ executing = Main /\ handles[waited] > 0
      /\ alive' = [alive EXCEPT ![waited] = FALSE]
      /\ handles' = [handles EXCEPT ![waited] = @ - 1]
      /\ waited' = Main /\ UNCHANGED <<executing, pool, left, done>>
  BY DEF WaitReturn, Typed, BodyInv
<1>2. \A t \in Slot : alive'[t] => alive[t]
  BY <1>1 DEF Typed
<1>3. PoolTyped'
  BY <1>1 DEF PoolTyped
<1>4. PoolInv'
  BY <1>1, <1>2 DEF PoolInv, PoolTyped
<1>5. Typed'
  <2>1. handles[waited] - 1 \in Nat
    BY <1>1 DEF Typed
  <2> QED BY <1>1, <2>1 DEF Typed
<1>6. BodyInv'
  BY <1>1, <1>2 DEF BodyInv
<1> QED BY <1>3, <1>4, <1>5, <1>6

LEMMA YieldInv == ASSUME CoInv, NEW s \in Slot, co_yield(s) PROVE CoInv'
<1> USE DEF CoInv
<1>1. /\ executing \in Slot /\ left[executing] > 0 /\ alive[s] /\ executing # Main
      /\ left' = [left EXCEPT ![executing] = @ - 1] /\ executing' = s
      /\ UNCHANGED <<alive, pool, done, handles, waited>>
  BY DEF co_yield, YieldTo, Typed
<1>2. PoolTyped' /\ PoolInv'
  BY <1>1 DEF PoolTyped, PoolInv
<1>3. Typed'
  <2>1. left[executing] - 1 \in 0 .. Pieces
    BY <1>1, LibcoAssumption DEF Typed
  <2> QED BY <1>1, <2>1 DEF Typed
<1>4. BodyInv'
  BY <1>1 DEF BodyInv
<1> QED BY <1>2, <1>3, <1>4

LEMMA FinishInv == ASSUME CoInv, Finish PROVE CoInv'
<1> USE DEF CoInv
<1> DEFINE n == Len(pool)
<1>1. /\ executing \in Slot /\ executing # Main /\ alive[executing]
      /\ alive' = [alive EXCEPT ![executing] = FALSE]
      /\ done' = [done EXCEPT ![executing] = TRUE]
      /\ pool' = Append(pool, executing) /\ executing' = Main
      /\ UNCHANGED <<left, handles, waited>>
  BY DEF Finish, FinishAs, Typed, BodyInv
<1>2. \A i \in 1 .. n : pool[i] # executing
  BY <1>1 DEF PoolInv
<1>3. n \in Nat /\ n < Routines /\ n + 1 <= Routines
  <2>1. n < Routines
    BY <1>1, <1>2, PoolRoom
  <2> QED BY <2>1, LibcoAssumption DEF PoolTyped
<1>4. /\ pool' \in Seq(Slot) /\ Len(pool') = n + 1 /\ pool'[n + 1] = executing
      /\ \A i \in 1 .. n : pool'[i] = pool[i] /\ pool[i] \in Slot
  BY <1>1 DEF PoolTyped
<1>5. PoolTyped'
  BY <1>3, <1>4 DEF PoolTyped
<1>6. Typed'
  BY <1>1 DEF Typed
<1>7. PoolInv'
  <2>0. \A i \in 1 .. n + 1 : i \in 1 .. n \/ i = n + 1
    BY <1>3
  <2>1. \A i \in 1 .. n + 1 : ~alive'[pool'[i]]
    BY <1>1, <1>2, <1>4, <2>0 DEF PoolInv, Typed
  <2>2. \A i, j \in 1 .. n + 1 : pool'[i] = pool'[j] => i = j
    BY <1>2, <1>4, <2>0 DEF PoolInv
  <2> QED BY <1>4, <2>1, <2>2 DEF PoolInv
<1>8. BodyInv'
  <2>1. \A t \in Slot : alive'[t] => ~done'[t]
    BY <1>1 DEF Typed, BodyInv
  <2> QED BY <1>1, <2>1 DEF BodyInv
<1> QED BY <1>5, <1>6, <1>7, <1>8

LEMMA CoInvariant == CoSpec => []CoInv
<1>1. CoInv /\ [CoNext]_co_vars => CoInv'
  <2> SUFFICES ASSUME CoInv, [CoNext]_co_vars PROVE CoInv'
    OBVIOUS
  <2>1. CASE co_start
    BY <2>1, StartInv
  <2>2. CASE \E s \in Slot : co_wait(s) \/ co_yield(s)
    BY <2>2, WaitInv, YieldInv
  <2>3. CASE WaitReturn
    BY <2>3, WaitReturnInv
  <2>4. CASE Finish
    BY <2>4, FinishInv
  <2>5. CASE UNCHANGED co_vars
    BY <2>5 DEF co_vars, CoInv, PoolTyped, Typed, PoolInv, BodyInv
  <2> QED BY <2>1, <2>2, <2>3, <2>4, <2>5 DEF CoNext
<1> QED BY <1>1, InitInv, PTL DEF CoSpec

\* new_co never hands out a routine that is alive, and the pool of co.c never holds
\* one twice, whatever the bodies do and in whatever order main waits.
THEOREM PoolIsSound == CoSpec => []PoolSound
<1>1. CoInv => PoolSound
  BY DEF CoInv, PoolTyped, Typed, PoolInv, PoolSound, CoTypeOK
<1> QED BY <1>1, CoInvariant, PTL

\* Whoever executes was started and has not returned, and the return of its body
\* jumps into a co_wait that main is still in.
THEOREM EveryJumpLands == CoSpec => []JumpsLand
<1>1. CoInv => JumpsLand
  <2> SUFFICES ASSUME CoInv, executing # Main
               PROVE  alive[executing] /\ ~done[executing] /\ waited # Main
    BY DEF JumpsLand
  <2>1. executing \in Slot /\ alive[executing] /\ waited # Main
    BY DEF CoInv, Typed, BodyInv
  <2> QED BY <2>1 DEF CoInv, BodyInv
<1> QED BY <1>1, CoInvariant, PTL

-----------------------------------------------------------------------------
(* KvdbFile                                                                   *)

-----------------------------------------------------------------------------
(* Chains of offsets                                                          *)

\* Induction over the naturals, for a set rather than for an operator.
LEMMA NatSetInduction ==
  ASSUME NEW T, 0 \in T, \A n \in Nat : n \in T => n + 1 \in T
  PROVE  \A n \in Nat : n \in T
<1> DEFINE R == OpToRel(<, Nat)
           U == {n \in Nat : n \notin T}
<1>1. IsWellFoundedOn(R, Nat)
  BY NatLessThanWellFounded
<1>2. \A i, j \in Nat : i < j => <<i, j>> \in R
  BY DEF OpToRel
<1> SUFFICES ASSUME U # {} PROVE FALSE
  OBVIOUS
<1> HIDE DEF R
<1>3. U \subseteq Nat
  OBVIOUS
<1>4. PICK x \in U : \A y \in U : <<y, x>> \notin R
  <2> HIDE DEF U
  <2> QED BY <1>1, <1>3, WFMin
<1>5. x \in Nat /\ x \notin T
  OBVIOUS
<1>6. x # 0
  BY <1>5
<1>7. x - 1 \in Nat /\ x - 1 < x /\ (x - 1) + 1 = x
  BY <1>5, <1>6
<1>8. <<x - 1, x>> \in R
  BY <1>2, <1>5, <1>7
<1>9. x - 1 \notin U
  BY <1>4, <1>8
<1>10. x - 1 \in T
  BY <1>7, <1>9
<1> QED BY <1>5, <1>7, <1>10

\* What a walk meets is the chain, if there is one that is not too long.
LEMMA WalkIs ==
  ASSUME NEW c \in Seq(Nat), Len(c) >= 1, Len(c) <= Steps, NEW link,
         \A i \in 1 .. Len(c) - 1 : link[c[i]] = c[i + 1] /\ c[i + 1] # 0,
         link[c[Len(c)]] = 0, Steps \in Nat
  PROVE  Walk(c[1], link) = c
<1> DEFINE Def(f) == [n \in Nat |-> IF n = 0 THEN c[1]
                                    ELSE IF n > 1 /\ f[n - 1] = 0 THEN 0 ELSE link[f[n - 1]]]
           met == CHOOSE f : f = Def(f)
           L == Len(c)
           len == CHOOSE n \in 1 .. Steps + 1 :
                    /\ \A i \in 1 .. n - 1 : met[i] # 0
                    /\ n <= Steps => met[n] = 0
           g == [n \in Nat |-> IF n < L THEN c[n + 1] ELSE 0]
<1>0. L \in Nat /\ L >= 1 /\ L <= Steps
  OBVIOUS
<1>1. Walk(c[1], link) = [i \in 1 .. len |-> met[i - 1]]
  BY DEF Walk
<1>2. g = Def(g)
  <2>1. SUFFICES ASSUME NEW n \in Nat
                 PROVE  g[n] = IF n = 0 THEN c[1]
                               ELSE IF n > 1 /\ g[n - 1] = 0 THEN 0 ELSE link[g[n - 1]]
    <3> HIDE DEF L
    <3> QED OBVIOUS
  <2>2. CASE n = 0
    BY <2>2, <1>0
  <2>3. CASE n # 0 /\ n < L
    <3>1. n \in 1 .. L - 1 /\ n - 1 \in Nat /\ n - 1 < L /\ (n - 1) + 1 = n
      BY <2>3, <1>0
    <3>2. g[n - 1] = c[n] /\ g[n] = c[n + 1]
      BY <3>1, <2>3
    <3>3. n > 1 => c[n] # 0
      <4>1. n > 1 => n - 1 \in 1 .. L - 1
        BY <3>1
      <4> QED BY <3>1, <4>1
    <3> QED BY <3>1, <3>2, <3>3, <2>3
  <2>4. CASE n = L
    <3>1. n - 1 \in Nat /\ n - 1 < L /\ (n - 1) + 1 = L /\ n # 0
      BY <2>4, <1>0
    <3>2. g[n - 1] = c[L] /\ g[n] = 0
      BY <3>1, <2>4
    <3>3. link[c[L]] = 0
      OBVIOUS
    <3> QED BY <3>1, <3>2, <3>3
  <2>5. CASE n > L
    <3>1. n - 1 \in Nat /\ ~(n - 1 < L) /\ n # 0 /\ n > 1
      BY <2>5, <1>0
    <3>2. g[n - 1] = 0 /\ g[n] = 0
      BY <3>1, <2>5, <1>0
    <3> QED BY <3>1, <3>2
  <2> QED BY <2>2, <2>3, <2>4, <2>5, <1>0
<1>3. met = Def(met)
  <2> HIDE DEF g, Def
  <2> QED BY <1>2
<1>4. met = g
  <2> DEFINE S == {n \in Nat : met[n] = g[n]}
  <2> HIDE DEF L, g
  <2>1. \A n \in Nat : met[n] = IF n = 0 THEN c[1]
                  ELSE IF n > 1 /\ met[n - 1] = 0 THEN 0 ELSE link[met[n - 1]]
    <3> HIDE DEF met
    <3> QED BY <1>3
  <2>2. \A n \in Nat : g[n] = IF n = 0 THEN c[1]
                  ELSE IF n > 1 /\ g[n - 1] = 0 THEN 0 ELSE link[g[n - 1]]
    BY <1>2
  <2>3. DOMAIN met = Nat /\ DOMAIN g = Nat /\ met = [n \in Nat |-> met[n]] /\ g = [n \in Nat |-> g[n]]
    <3> HIDE DEF met
    <3> QED BY <1>2, <1>3
  <2> HIDE DEF met
  <2>4. 0 \in S
    BY <2>1, <2>2
  <2>5. \A n \in Nat : n \in S => n + 1 \in S
    <3> SUFFICES ASSUME NEW n \in Nat, n \in S PROVE n + 1 \in S
      OBVIOUS
    <3>1. n + 1 \in Nat /\ (n + 1) - 1 = n /\ n + 1 # 0
      OBVIOUS
    <3>2. met[n] = g[n]
      OBVIOUS
    <3> QED BY <2>1, <2>2, <3>1, <3>2
  <2>6. \A n \in Nat : n \in S
    <3> HIDE DEF S
    <3> QED BY <2>4, <2>5, NatSetInduction
  <2> QED BY <2>3, <2>6
<1>5. len = L
  <2> HIDE DEF met
  <2>1. \A i \in Nat : met[i] = IF i < L THEN c[i + 1] ELSE 0
    BY <1>4
  <2>2. \A i \in 1 .. L - 1 : met[i] # 0
    <3> SUFFICES ASSUME NEW i \in 1 .. L - 1 PROVE met[i] # 0
      OBVIOUS
    <3>1. i \in Nat /\ i < L
      BY <1>0
    <3>2. c[i + 1] # 0
      OBVIOUS
    <3> QED BY <2>1, <3>1, <3>2
  <2>3. met[L] = 0
    BY <2>1, <1>0
  <2> HIDE DEF L
  <2>4. \A n \in 1 .. Steps + 1 :
           /\ \A i \in 1 .. n - 1 : met[i] # 0
           /\ n <= Steps => met[n] = 0
           => n = L
    <3> SUFFICES ASSUME NEW n \in 1 .. Steps + 1,
                        \A i \in 1 .. n - 1 : met[i] # 0,
                        n <= Steps => met[n] = 0
                 PROVE  n = L
      OBVIOUS
    <3>1. ~(n < L)
      BY <2>2, <1>0
    <3>2. ~(L < n)
      <4>1. L < n => L \in 1 .. n - 1
        BY <1>0
      <4> QED BY <2>3, <4>1
    <3> QED BY <3>1, <3>2, <1>0
  <2>5. L \in 1 .. Steps + 1
    BY <1>0
  <2> QED BY <2>2, <2>3, <2>4, <2>5
<1>6. c = [i \in 1 .. L |-> c[i]]
  OBVIOUS
<1>7. [i \in 1 .. len |-> met[i - 1]] = [i \in 1 .. L |-> c[i]]
  <2> HIDE DEF met, len
  <2>1. \A i \in 1 .. L : met[i - 1] = c[i]
    <3> SUFFICES ASSUME NEW i \in 1 .. L PROVE met[i - 1] = c[i]
      OBVIOUS
    <3>1. i - 1 \in Nat /\ i - 1 < L /\ (i - 1) + 1 = i
      BY <1>0
    <3> QED BY <1>4, <3>1
  <2> HIDE DEF L
  <2> QED BY <1>5, <2>1
<1> QED BY <1>1, <1>6, <1>7

\* Offsets that are a tab apart: no more of them than steps of a walk.
LEMMA FewStarts ==
  ASSUME NEW s \in Seq(Nat), Words \in Nat,
         \A i, j \in 1 .. Len(s) : i # j => s[i] + TabLen <= s[j] \/ s[j] + TabLen <= s[i],
         \A i \in 1 .. Len(s) : s[i] + TabLen <= Words
  PROVE  Len(s) <= Steps /\ Steps \in Nat
<1> DEFINE L == Len(s)
           A == (1 .. L) \X (0 .. 4)
           B == 0 .. Words - 1
           f == [q \in A |-> s[q[1]] + q[2]]
<1>0. L \in Nat /\ \A i \in 1 .. L : s[i] \in Nat
  OBVIOUS
<1>1. f \in [A -> B]
  <2> SUFFICES ASSUME NEW i \in 1 .. L, NEW j \in 0 .. 4 PROVE s[i] + j \in B
    OBVIOUS
  <2> QED BY <1>0 DEF TabLen
<1>3. f \in Injection(A, B)
  <2>1. \A q, r \in A : f[q] = f[r] => q = r
    <3> SUFFICES ASSUME NEW q \in A, NEW r \in A, f[q] = f[r] PROVE q = r
      OBVIOUS
    <3>1. /\ q[1] \in 1 .. L /\ q[2] \in 0 .. 4 /\ q = <<q[1], q[2]>>
          /\ r[1] \in 1 .. L /\ r[2] \in 0 .. 4 /\ r = <<r[1], r[2]>>
      OBVIOUS
    <3>2. s[q[1]] + q[2] = s[r[1]] + r[2]
      OBVIOUS
    <3> HIDE DEF f, A
    <3>3. q[1] = r[1] /\ q[2] = r[2]
      <4> DEFINE i == q[1]
                 j == q[2]
                 k == r[1]
                 l == r[2]
      <4>1. i \in 1 .. L /\ k \in 1 .. L /\ j \in 0 .. 4 /\ l \in 0 .. 4 /\ s[i] + j = s[k] + l
        BY <3>1, <3>2
      <4>2. i # k => s[i] + 5 <= s[k] \/ s[k] + 5 <= s[i]
        BY <4>1 DEF TabLen
      <4>3. s[i] \in Nat /\ s[k] \in Nat
        BY <1>0, <4>1
      <4> DEFINE a == s[i]
                 b == s[k]
      <4>4. a + j = b + l /\ a \in Nat /\ b \in Nat /\ j \in 0 .. 4 /\ l \in 0 .. 4
        BY <4>1, <4>3
      <4>5. i # k => a + 5 <= b \/ b + 5 <= a
        BY <4>2
      <4>6. i = k => a = b
        OBVIOUS
      <4> HIDE DEF i, j, k, l, L, a, b
      <4>7. i = k
        BY <4>4, <4>5
      <4>8. j = l
        BY <4>4, <4>6, <4>7
      <4> QED BY <4>7, <4>8 DEF i, j, k, l
    <3> QED BY <3>1, <3>3
  <2> HIDE DEF f, A, B
  <2> QED BY <1>1, <2>1 DEF Injection, IsInjective
<1>4. IsFiniteSet(1 .. L) /\ Cardinality(1 .. L) = L
  <2> HIDE DEF L
  <2>1. 1 \in Int /\ L \in Int
    BY <1>0
  <2> QED BY <2>1, <1>0, FS_Interval
<1>5. IsFiniteSet(0 .. 4) /\ Cardinality(0 .. 4) = 5
  <2>1. 0 \in Int /\ 4 \in Int /\ ~(0 > 4)
    OBVIOUS
  <2>2. IsFiniteSet(0 .. 4) /\ Cardinality(0 .. 4) = 4 - 0 + 1
    BY <2>1, FS_Interval
  <2> QED BY <2>2
<1>6. IsFiniteSet(B) /\ Cardinality(B) = Words
  <2>1. IsFiniteSet(0 .. Words - 1) /\ Cardinality(0 .. Words - 1)
          = IF 0 > Words - 1 THEN 0 ELSE (Words - 1) - 0 + 1
    BY FS_Interval
  <2> QED BY <2>1
<1>7. Cardinality(A) = L * 5
  <2> DEFINE U == 1 .. L
             V == 0 .. 4
  <2>1. IsFiniteSet(U) /\ IsFiniteSet(V) /\ Cardinality(U) = L /\ Cardinality(V) = 5
    BY <1>4, <1>5
  <2> HIDE DEF U, V
  <2>2. Cardinality(U \X V) = Cardinality(U) * Cardinality(V)
    BY ONLY <2>1, FS_Product
  <2> QED BY <2>1, <2>2 DEF U, V
<1>8. Cardinality(A) <= Cardinality(B)
  <2> HIDE DEF f, A, B
  <2> QED BY <1>3, <1>6, FS_Injection
<1> HIDE DEF L, A, B
<1>9. L * 5 <= Words
  BY <1>6, <1>7, <1>8
<1>10. L <= Words \div 5 /\ Words \div 5 \in Nat
  BY <1>9, <1>0
<1> QED BY <1>10 DEF Steps, TabLen, L

-----------------------------------------------------------------------------
(* Strings in the file                                                        *)

\* Each block of the chain c leads to the next, the last to e.
Links(m, c, e) ==
  \A i \in 1 .. Len(c) : m[c[i] + BlockLen] = IF i = Len(c) THEN e ELSE c[i + 1]

\* The first n blocks hold the text s from its beginning, and zeros behind it.
Letter(s, q) == IF q <= Len(s) THEN s[q] ELSE 0
Spells(m, c, n, s) ==
  \A i \in 1 .. n, j \in 0 .. BlockLen - 1 : m[c[i] + j] = Letter(s, BlockLen * (i - 1) + j + 1)
Fitting(c, s) == BlockLen * (Len(c) - 1) < Len(s) /\ Len(s) <= BlockLen * Len(c)
Strung(m, c, s) == Links(m, c, 0) /\ Spells(m, c, Len(c), s) /\ Fitting(c, s)

LEMMA Position ==
  ASSUME NEW q \in Nat, NEW L \in Nat, q >= 1, q <= L * BlockLen
  PROVE  /\ ((q - 1) \div BlockLen) + 1 \in 1 .. L
         /\ (q - 1) % BlockLen \in 0 .. BlockLen - 1
         /\ BlockLen * ((((q - 1) \div BlockLen) + 1) - 1) + ((q - 1) % BlockLen) + 1 = q
<1> USE DEF BlockLen
<1>1. 7 * ((q - 1) \div 7) + ((q - 1) % 7) = q - 1 /\ (q - 1) \div 7 \in Int
  OBVIOUS
<1>2. (q - 1) % 7 \in 0 .. 6
  OBVIOUS
<1>3. \A d \in Int, r \in 0 .. 6 : 7 * d + r = q - 1
        => d + 1 \in 1 .. L /\ 7 * ((d + 1) - 1) + r + 1 = q
  OBVIOUS
<1> QED BY <1>1, <1>2, <1>3

LEMMA TextIs ==
  ASSUME NEW c \in Seq(Nat), NEW s \in Seq(Nat \ {0}), Strung(mem, c, s), Len(c) >= 1,
         DOMAIN mem = 0 .. Words - 1, Words \in Nat, Steps \in Nat, Len(c) <= Steps,
         \A i \in 1 .. Len(c) : c[i] # 0 /\ c[i] + StringLen <= Words
  PROVE  StringWalk(c[1]) = c /\ Text(c[1]) = s
<1> DEFINE L == Len(c)
           link == [b \in Nat |-> IF Inside(b, StringLen) THEN NextAt(b) ELSE 0]
<1>0. L \in Nat /\ L >= 1 /\ \A i \in 1 .. L : c[i] \in Nat
  OBVIOUS
<1>1. \A i \in 1 .. L : Inside(c[i], StringLen)
  BY <1>0 DEF Inside, StringLen, BlockLen
<1>2. \A i \in 1 .. L : link[c[i]] = mem[c[i] + BlockLen]
  BY <1>0, <1>1 DEF NextAt
<1>3. \A i \in 1 .. L - 1 : link[c[i]] = c[i + 1] /\ c[i + 1] # 0
  <2> SUFFICES ASSUME NEW i \in 1 .. L - 1 PROVE link[c[i]] = c[i + 1] /\ c[i + 1] # 0
    OBVIOUS
  <2>1. i \in 1 .. L /\ i + 1 \in 1 .. L /\ i # L
    BY <1>0
  <2> HIDE DEF link
  <2> QED BY <1>2, <2>1 DEF Strung, Links
<1>4. link[c[L]] = 0
  <2>1. L \in 1 .. L
    BY <1>0
  <2> HIDE DEF link
  <2> QED BY <1>2, <2>1 DEF Strung, Links
<1>5. StringWalk(c[1]) = c
  <2> HIDE DEF link
  <2>1. Walk(c[1], link) = c
    BY <1>0, <1>3, <1>4, WalkIs
  <2> QED BY <2>1 DEF StringWalk, link
<1> DEFINE raw == [q \in 1 .. Len(c) * BlockLen |->
                      mem[c[((q - 1) \div BlockLen) + 1] + ((q - 1) % BlockLen)]]
           end == CHOOSE e \in 0 .. Len(raw) :
                       /\ \A i \in 1 .. e : raw[i] # 0
                       /\ e < Len(raw) => raw[e + 1] = 0
<1>6. Text(c[1]) = SubSeq(raw, 1, end)
  <2>1. Ends(c)
    BY DEF Ends
  <2>2. \A b \in Nodes(c) : Inside(b, StringLen)
    BY <1>1 DEF Nodes
  <2> QED BY <1>5, <2>1, <2>2 DEF Text
<1> HIDE DEF link
<1>7. \A q \in 1 .. L * BlockLen : raw[q] = Letter(s, q)
  <2> SUFFICES ASSUME NEW q \in 1 .. L * BlockLen PROVE raw[q] = Letter(s, q)
    OBVIOUS
  <2> DEFINE i == ((q - 1) \div BlockLen) + 1
             j == (q - 1) % BlockLen
  <2>0. q \in Nat /\ q >= 1 /\ q <= L * BlockLen
    BY <1>0 DEF BlockLen
  <2>1. i \in 1 .. L /\ j \in 0 .. BlockLen - 1 /\ BlockLen * (i - 1) + j + 1 = q
    <3> HIDE DEF L, raw, end
    <3> QED BY <2>0, <1>0, Position
  <2>2. raw[q] = mem[c[i] + j]
    OBVIOUS
  <2> HIDE DEF i, j, raw
  <2>3. mem[c[i] + j] = Letter(s, BlockLen * (i - 1) + j + 1)
    BY <2>1 DEF Strung, Spells
  <2> QED BY <2>1, <2>2, <2>3
<1>8. Len(raw) = L * BlockLen /\ raw \in Seq({raw[q] : q \in 1 .. L * BlockLen})
  <2>1. raw = [q \in 1 .. L * BlockLen |-> raw[q]] /\ L * BlockLen \in Nat
    BY <1>0 DEF BlockLen
  <2> HIDE DEF raw
  <2>2. raw \in [1 .. L * BlockLen -> {raw[q] : q \in 1 .. L * BlockLen}]
    BY <2>1
  <2> DEFINE N == L * BlockLen
  <2> HIDE DEF N, L
  <2> DEFINE X == {raw[q] : q \in 1 .. N}
  <2>3. raw \in [1 .. N -> X] /\ N \in Nat
    BY <2>1, <2>2 DEF N
  <2> HIDE DEF X
  <2>4. raw \in Seq(X) /\ Len(raw) = N
    BY <2>3
  <2> QED BY <2>4 DEF N, X
<1>9. Len(s) \in Nat /\ Len(s) <= BlockLen * L /\ Len(s) \in 0 .. L * BlockLen
  BY <1>0 DEF Strung, Fitting, BlockLen
<1>10. end = Len(s)
  <2> HIDE DEF raw
  <2>1. \A q \in 1 .. Len(s) : raw[q] # 0
    <3> SUFFICES ASSUME NEW q \in 1 .. Len(s) PROVE raw[q] # 0
      OBVIOUS
    <3>1. q \in 1 .. L * BlockLen /\ q <= Len(s)
      BY <1>9, <1>0 DEF BlockLen
    <3>2. s[q] # 0
      OBVIOUS
    <3> QED BY <1>7, <3>1, <3>2 DEF Letter
  <2>2. Len(s) < Len(raw) => raw[Len(s) + 1] = 0
    <3>1. Len(s) < Len(raw) => Len(s) + 1 \in 1 .. L * BlockLen /\ ~(Len(s) + 1 <= Len(s))
      BY <1>8, <1>9, <1>0
    <3> QED BY <1>7, <3>1 DEF Letter
  <2>3. \A e \in 0 .. Len(raw) : /\ \A i \in 1 .. e : raw[i] # 0
                                 /\ e < Len(raw) => raw[e + 1] = 0
                                 => e = Len(s)
    <3> SUFFICES ASSUME NEW e \in 0 .. Len(raw), \A i \in 1 .. e : raw[i] # 0,
                        e < Len(raw) => raw[e + 1] = 0
                 PROVE  e = Len(s)
      OBVIOUS
    <3>1. e \in Nat /\ e <= L * BlockLen
      BY <1>8, <1>0
    <3>2. ~(e < Len(s))
      <4> SUFFICES ASSUME e < Len(s) PROVE FALSE
        OBVIOUS
      <4>1. e + 1 \in 1 .. Len(s) /\ e < Len(raw)
        BY <3>1, <1>8, <1>9
      <4> QED BY <4>1, <2>1
    <3>3. ~(Len(s) < e)
      <4> SUFFICES ASSUME Len(s) < e PROVE FALSE
        OBVIOUS
      <4>1. Len(s) + 1 \in 1 .. e /\ Len(s) < Len(raw)
        BY <3>1, <1>8, <1>9
      <4> QED BY <4>1, <2>2
    <3> QED BY <3>1, <3>2, <3>3, <1>9
  <2>4. Len(s) \in 0 .. Len(raw)
    BY <1>8, <1>9
  <2> QED BY <2>1, <2>2, <2>3, <2>4
<1>11. SubSeq(raw, 1, Len(s)) = s
  <2> HIDE DEF raw
  <2>1. SubSeq(raw, 1, Len(s)) = [i \in 1 .. Len(s) |-> raw[i]]
    BY <1>8, <1>9
  <2>2. \A i \in 1 .. Len(s) : raw[i] = s[i]
    <3> SUFFICES ASSUME NEW i \in 1 .. Len(s) PROVE raw[i] = s[i]
      OBVIOUS
    <3>1. i \in 1 .. L * BlockLen /\ i <= Len(s)
      BY <1>9, <1>0 DEF BlockLen
    <3> QED BY <1>7, <3>1 DEF Letter
  <2>3. s = [i \in 1 .. Len(s) |-> s[i]]
    OBVIOUS
  <2> QED BY <2>1, <2>2, <2>3
<1> QED BY <1>5, <1>6, <1>10, <1>11

-----------------------------------------------------------------------------
(* Who uses which words.  A map o of the file gives for each offset where a    *)
(* tab or a block begins the chain it is in and its place there.  Chain 0 is   *)
(* the tabs, 1 the free blocks, 2 * i and 2 * i + 1 the key and the value of   *)
(* the i-th entry.  During a put -1 is its value, -2 its key, -3 a block it    *)
(* has taken and not yet linked, and -4 the new tab.                           *)

Width(w) == IF w[1] = 0 \/ w[1] = -4 THEN TabLen ELSE StringLen

\* What is in the map lies below size, and apart from each other.
Placed(o, size) ==
  /\ o = [a \in DOMAIN o |-> o[a]] /\ DOMAIN o \subseteq Nat
  /\ \A a \in DOMAIN o : a + Width(o[a]) <= size
  /\ \A a, b \in DOMAIN o : a # b => a + Width(o[a]) <= b \/ b + Width(o[b]) <= a

\* The part of the chain s from its place f on is in the map under the name c.
Owns(o, c, s, f) == \A i \in f .. Len(s) : s[i] \in DOMAIN o /\ o[s[i]] = <<c, i>>

\* The tabs T and the strings S of the entries.
Laid(T, S, o, size) ==
  /\ Placed(o, size)
  /\ T \in Seq(Nat) /\ Len(T) >= 1 /\ T[1] = 0
  /\ S \in [2 .. 2 * Len(T) - 1 -> Seq(Nat)]
  /\ Owns(o, 0, T, 1)
  /\ \A c \in 2 .. 2 * Len(T) - 1 : Len(S[c]) >= 1 /\ Owns(o, c, S[c], 1)

\* Their texts are X.
Filed(m, T, S, X) ==
  /\ X \in [2 .. 2 * Len(T) - 1 -> Seq(Nat \ {0})]
  /\ \A c \in 2 .. 2 * Len(T) - 1 : Strung(m, S[c], X[c])

\* The i-th tab leads to the next and to its key, and to its value.
TabSame(m, T, S, i) ==
  IF i = Len(T) THEN m[T[i]] = 0 /\ m[T[i] + 1] = 0
  ELSE m[T[i]] = T[i + 1] /\ m[T[i] + 1] = S[2 * i][1]
TabIs(m, T, S, i) ==
  /\ TabSame(m, T, S, i)
  /\ i # Len(T) => m[T[i] + 3] = S[2 * i + 1][1]

LEMMA ChainFew ==
  ASSUME NEW o, NEW size, Placed(o, size), size \in Nat, Words \in Nat, size <= Words,
         NEW s \in Seq(Nat), NEW c, Owns(o, c, s, 1)
  PROVE  Len(s) <= Steps /\ Steps \in Nat
<1>0. \A w : Width(w) = 5 \/ Width(w) = 8
  BY DEF Width, TabLen, StringLen, BlockLen
<1>1. \A i \in 1 .. Len(s) : s[i] + TabLen <= Words
  <2> SUFFICES ASSUME NEW i \in 1 .. Len(s) PROVE s[i] + TabLen <= Words
    OBVIOUS
  <2>1. s[i] \in Nat /\ s[i] + Width(o[s[i]]) <= size
    BY DEF Placed, Owns
  <2> QED BY <2>1, <1>0 DEF TabLen
<1>2. \A i, j \in 1 .. Len(s) : i # j => s[i] + TabLen <= s[j] \/ s[j] + TabLen <= s[i]
  <2> SUFFICES ASSUME NEW i \in 1 .. Len(s), NEW j \in 1 .. Len(s), i # j
               PROVE  s[i] + TabLen <= s[j] \/ s[j] + TabLen <= s[i]
    OBVIOUS
  <2>1. /\ s[i] \in DOMAIN o /\ o[s[i]] = <<c, i>>
        /\ s[j] \in DOMAIN o /\ o[s[j]] = <<c, j>>
        /\ s[i] \in Nat /\ s[j] \in Nat
    BY DEF Owns
  <2>2. s[i] # s[j]
    BY <2>1
  <2>3. s[i] + Width(o[s[i]]) <= s[j] \/ s[j] + Width(o[s[j]]) <= s[i]
    BY <2>1, <2>2 DEF Placed
  <2> DEFINE a == s[i]
             b == s[j]
             u == Width(o[s[i]])
             v == Width(o[s[j]])
  <2>4. a \in Nat /\ b \in Nat /\ (u = 5 \/ u = 8) /\ (v = 5 \/ v = 8) /\ (a + u <= b \/ b + v <= a)
    BY <2>1, <2>3, <1>0
  <2> HIDE DEF a, b, u, v
  <2>5. a + 5 <= b \/ b + 5 <= a
    BY <2>4
  <2> QED BY <2>5 DEF TabLen, a, b
<1> QED BY <1>1, <1>2, FewStarts

\* Where strings and tabs may be.
LEMMA LaidAt ==
  ASSUME NEW T, NEW S, NEW o, NEW size, Laid(T, S, o, size), size \in Nat
  PROVE  /\ \A c \in 2 .. 2 * Len(T) - 1 : \A i \in 1 .. Len(S[c]) :
              /\ S[c][i] \in Nat \ {0} /\ S[c][i] + StringLen <= size
              /\ S[c][i] \in DOMAIN o /\ o[S[c][i]] = <<c, i>>
         /\ \A i \in 1 .. Len(T) :
              /\ T[i] \in Nat /\ T[i] + TabLen <= size /\ (i # 1 => T[i] # 0)
              /\ T[i] \in DOMAIN o /\ o[T[i]] = <<0, i>>
<1>1. Len(T) \in Nat /\ 1 \in 1 .. Len(T) /\ T[1] = 0 /\ 0 \in DOMAIN o /\ o[0] = <<0, 1>>
  BY DEF Laid, Owns
<1>2. ASSUME NEW c \in 2 .. 2 * Len(T) - 1, NEW i \in 1 .. Len(S[c])
      PROVE  /\ S[c][i] \in Nat \ {0} /\ S[c][i] + StringLen <= size
             /\ S[c][i] \in DOMAIN o /\ o[S[c][i]] = <<c, i>>
  <2>0. c \in Int /\ c >= 2
    BY <1>1
  <2>1. c # 0 /\ c # -4
    BY <2>0
  <2>a. S[c] \in Seq(Nat) /\ Owns(o, c, S[c], 1)
    BY DEF Laid
  <2>2. S[c][i] \in Nat /\ S[c][i] \in DOMAIN o /\ o[S[c][i]] = <<c, i>>
    BY <2>a DEF Owns
  <2>3. S[c][i] # 0
    BY <1>1, <2>1, <2>2
  <2>4. Width(o[S[c][i]]) = StringLen
    BY <2>1, <2>2 DEF Width
  <2> QED BY <2>2, <2>3, <2>4 DEF Laid, Placed
<1>3. ASSUME NEW i \in 1 .. Len(T)
      PROVE  /\ T[i] \in Nat /\ T[i] + TabLen <= size /\ (i # 1 => T[i] # 0)
             /\ T[i] \in DOMAIN o /\ o[T[i]] = <<0, i>>
  <2>1. T[i] \in Nat /\ T[i] \in DOMAIN o /\ o[T[i]] = <<0, i>>
    BY DEF Laid, Owns
  <2>2. i # 1 => T[i] # 0
    BY <1>1, <2>1
  <2>3. Width(o[T[i]]) = TabLen
    BY <2>1 DEF Width
  <2> QED BY <2>1, <2>2, <2>3 DEF Laid, Placed
<1> QED BY <1>2, <1>3

LEMMA StringIs ==
  ASSUME NEW T, NEW S, NEW X, NEW o, NEW size, Laid(T, S, o, size), size \in Nat, size <= Words,
         Words \in Nat, DOMAIN mem = 0 .. Words - 1, Filed(mem, T, S, X),
         NEW c \in 2 .. 2 * Len(T) - 1
  PROVE  StringWalk(S[c][1]) = S[c] /\ Text(S[c][1]) = X[c]
<1>1. S[c] \in Seq(Nat) /\ Len(S[c]) >= 1 /\ Owns(o, c, S[c], 1) /\ Placed(o, size)
  BY DEF Laid
<1>2. X[c] \in Seq(Nat \ {0}) /\ Strung(mem, S[c], X[c])
  BY DEF Filed
<1>3. Len(S[c]) <= Steps /\ Steps \in Nat
  BY <1>1, ChainFew
<1>4. \A i \in 1 .. Len(S[c]) : S[c][i] # 0 /\ S[c][i] + StringLen <= Words
  <2> SUFFICES ASSUME NEW i \in 1 .. Len(S[c])
               PROVE  S[c][i] # 0 /\ S[c][i] + StringLen <= Words
    OBVIOUS
  <2>1. S[c][i] \in Nat \ {0} /\ S[c][i] + StringLen <= size
    BY LaidAt
  <2> QED BY <2>1 DEF StringLen, BlockLen
<1> QED BY <1>1, <1>2, <1>3, <1>4, TextIs

\* What a reader of the file finds.
Found(T, S, X) ==
  /\ TabWalk = T /\ Ends(TabWalk) /\ LastTab = T[Len(T)]
  /\ Entries = {T[i] : i \in 1 .. Len(T) - 1}
  /\ \A c \in 2 .. 2 * Len(T) - 1 : StringWalk(S[c][1]) = S[c] /\ Text(S[c][1]) = X[c]
  /\ \A i \in 1 .. Len(T) - 1 : TabAt(T[i]).key = S[2 * i][1]

LEMMA Reading ==
  ASSUME NEW T, NEW S, NEW X, NEW o, NEW size, Laid(T, S, o, size), size \in Nat, size <= Words,
         Words \in Nat, DOMAIN mem = 0 .. Words - 1, Filed(mem, T, S, X),
         \A i \in 1 .. Len(T) : TabSame(mem, T, S, i)
  PROVE  Found(T, S, X)
<1> DEFINE n == Len(T)
           link == [t \in Nat |-> IF Inside(t, TabLen) THEN TabAt(t).next ELSE 0]
<1>0. T \in Seq(Nat) /\ n \in Nat /\ n >= 1 /\ T[1] = 0
  BY DEF Laid
<1>1. \A i \in 1 .. n : link[T[i]] = mem[T[i]]
  <2> SUFFICES ASSUME NEW i \in 1 .. n PROVE link[T[i]] = mem[T[i]]
    OBVIOUS
  <2>1. T[i] \in Nat /\ T[i] + 5 <= Words
    BY LaidAt DEF TabLen
  <2>2. Inside(T[i], TabLen)
    BY <2>1 DEF Inside, TabLen
  <2> QED BY <2>1, <2>2 DEF TabAt
<1>2. \A i \in 1 .. n - 1 : link[T[i]] = T[i + 1] /\ T[i + 1] # 0
  <2> SUFFICES ASSUME NEW i \in 1 .. n - 1 PROVE link[T[i]] = T[i + 1] /\ T[i + 1] # 0
    OBVIOUS
  <2>1. i \in 1 .. n /\ i + 1 \in 1 .. n /\ i # n /\ i + 1 # 1
    BY <1>0
  <2>2. mem[T[i]] = T[i + 1]
    BY <2>1 DEF TabSame
  <2>3. T[i + 1] # 0
    BY <2>1, LaidAt
  <2> HIDE DEF link
  <2> QED BY <2>1, <2>2, <2>3, <1>1
<1>3. link[T[n]] = 0
  <2>1. n \in 1 .. n
    BY <1>0
  <2> HIDE DEF link
  <2> QED BY <1>1, <2>1 DEF TabSame
<1>4. Len(T) <= Steps /\ Steps \in Nat
  BY <1>0, ChainFew DEF Laid
<1>5. TabWalk = T
  <2> HIDE DEF link
  <2>1. Walk(T[1], link) = T
    BY <1>0, <1>2, <1>3, <1>4, WalkIs
  <2> QED BY <2>1, <1>0 DEF TabWalk, link
<1> HIDE DEF link
<1>6. Ends(TabWalk) /\ LastTab = T[Len(T)]
  BY <1>4, <1>5 DEF Ends, LastTab
<1>7. Entries = {T[i] : i \in 1 .. Len(T) - 1}
  <2>1. Entries = {T[i] : i \in 1 .. n} \ {T[n]}
    BY <1>0, <1>5, <1>6 DEF Entries, Nodes
  <2>2. \A i \in 1 .. n - 1 : i \in 1 .. n /\ T[i] # T[n]
    <3> SUFFICES ASSUME NEW i \in 1 .. n - 1 PROVE i \in 1 .. n /\ T[i] # T[n]
      OBVIOUS
    <3>1. i \in 1 .. n /\ n \in 1 .. n /\ i # n
      BY <1>0
    <3>2. o[T[i]] = <<0, i>> /\ o[T[n]] = <<0, n>>
      BY <3>1, LaidAt
    <3> QED BY <3>1, <3>2
  <2>3. \A i \in 1 .. n : i # n => i \in 1 .. n - 1
    BY <1>0
  <2> QED BY <2>1, <2>2, <2>3
<1>8. ASSUME NEW c \in 2 .. 2 * n - 1
      PROVE  StringWalk(S[c][1]) = S[c] /\ Text(S[c][1]) = X[c]
  BY StringIs
<1>9. \A i \in 1 .. Len(T) - 1 : TabAt(T[i]).key = S[2 * i][1]
  <2> SUFFICES ASSUME NEW i \in 1 .. n - 1 PROVE TabAt(T[i]).key = S[2 * i][1]
    OBVIOUS
  <2>1. i \in 1 .. n /\ i # n
    BY <1>0
  <2> QED BY <2>1 DEF TabSame, TabAt
<1> QED BY <1>5, <1>6, <1>7, <1>8, <1>9 DEF Found

-----------------------------------------------------------------------------
(* The invariant.  G is the file as the last put left it: tabs T, strings S    *)
(* with texts X, free blocks F in the map o, and p the place among the tabs of *)
(* the one that the put in progress writes.                                    *)

\* The entries are what dict says.
Means(T, X) ==
  /\ \A i \in 1 .. Len(T) - 1 : X[2 * i] \in Keys /\ X[2 * i + 1] \in Vals
                                /\ dict[X[2 * i]] = X[2 * i + 1]
  /\ \A i, j \in 1 .. Len(T) - 1 : X[2 * i] = X[2 * j] => i = j
  /\ \A k \in Keys : dict[k] # NULL => \E i \in 1 .. Len(T) - 1 : X[2 * i] = k

Stored(G, size) ==
  /\ Laid(G.T, G.S, G.o, size)
  /\ G.F \in Seq(Nat) /\ Len(G.F) >= 1 /\ Owns(G.o, 1, G.F, 1)

\* Each free block leads to the next, but for the b-th.
FreeBut(m, F, b) ==
  \A i \in 1 .. Len(F) - 1 : i # b => m[F[i] + BlockLen] = F[i + 1]

\* No put is on its way, and none has died.
Quiet(G) ==
  /\ Stored(G, hdr.size) /\ Filed(mem, G.T, G.S, G.X) /\ Means(G.T, G.X)
  /\ \A i \in 1 .. Len(G.T) : TabIs(mem, G.T, G.S, i)
  /\ FreeBut(mem, G.F, 0)
  /\ hdr.head = G.F[1] /\ hdr.tail = G.F[Len(G.F)]

\* The header has a backup of G, and all of G that recovery does not restore
\* is there.
Backed(G) ==
  /\ Stored(G, hdr.backup_list.size) /\ hdr.backup_list.size <= Words
  /\ Filed(mem, G.T, G.S, G.X) /\ Means(G.T, G.X)
  /\ G.p \in 1 .. Len(G.T)
  /\ \A i \in 1 .. Len(G.T) : i # G.p => TabIs(mem, G.T, G.S, i)
  /\ hdr.pos = G.T[G.p]
  /\ hdr.backup_list.head = G.F[1] /\ hdr.backup_list.tail = G.F[Len(G.F)]
  /\ IF G.p = Len(G.T) THEN hdr.backup_tab.next = 0 /\ hdr.backup_tab.key = 0
     ELSE /\ hdr.backup_tab.next = G.T[G.p + 1] /\ hdr.backup_tab.key = G.S[2 * G.p][1]
          /\ hdr.backup_tab.value = G.S[2 * G.p + 1][1]

\* The link that recovery writes completes the list of free blocks.
Undo(G, head) ==
  \/ /\ hdr.backup_prev = 0 /\ head = TabLen /\ G.F[1] = TabLen
     /\ FreeBut(mem, G.F, 0)
  \/ \E b \in 1 .. Len(G.F) - 1 :
       hdr.backup_prev = G.F[b] /\ head = G.F[b + 1] /\ FreeBut(mem, G.F, b)

\* The entry of a dead insertion can be seen.
Shown(G) ==
  /\ G.p = Len(G.T)
  /\ \E T, S, X, o :
       /\ Len(T) = Len(G.T) + 1
       /\ Laid(T, S, o, Words) /\ Filed(mem, T, S, X)
       /\ \A i \in 1 .. Len(T) : TabIs(mem, T, S, i)
       /\ \A c \in 2 .. 2 * Len(G.T) - 1 : X[c] = G.X[c]
       /\ <<X[2 * Len(G.T)], X[2 * Len(G.T) + 1]>> \in half
       /\ \A i \in 1 .. Len(G.T) - 1 : G.X[2 * i] # X[2 * Len(G.T)]
Seen(G) == TabSame(mem, G.T, G.S, G.p) \/ Shown(G)

ListBack ==
  hdr.head = hdr.backup_list.head /\ hdr.tail = hdr.backup_list.tail
    /\ hdr.size = hdr.backup_list.size

\* The places of a put before its backup.
RecoverPc == {"rlist", "rtab", "rlink", "rneg", "find"}
StartPut == [pc : RecoverPc, key : Keys, val : Vals, head : Nat]

\* A put has died, and maybe the next one is at its recovery.  In a torn file the
\* list of free blocks is lost, and nothing else.
Crashed(G) ==
  /\ Backed(G)
  /\ put.pc = "idle" => (torn \/ Undo(G, hdr.head)) /\ Seen(G)
  /\ put.pc = "rlist" => put.head = hdr.head /\ (torn \/ Undo(G, put.head)) /\ Seen(G)
  /\ put.pc = "rtab" => ListBack /\ (torn \/ Undo(G, put.head)) /\ Seen(G)
  /\ put.pc = "rlink" =>
       ListBack /\ (torn \/ Undo(G, put.head)) /\ TabIs(mem, G.T, G.S, G.p)
  /\ put.pc = "rneg" => ListBack /\ FreeBut(mem, G.F, 0) /\ TabIs(mem, G.T, G.S, G.p)

(* A put with its backup.  Z is what it has done so far: the map o of the file *)
(* as it is now, the number k of free blocks it has taken, the place h of the  *)
(* header's head among them, the chains V and K of its value and its key.      *)

FlightPc == {"alloc", "info", "next", "out", "link", "zero", "head", "newtab", "zerotab",
             "tab", "free", "tail", "neg"}
FlightPut ==
  [pc : FlightPc, key : Keys, val : Vals, insert : BOOLEAN, cur_off : Nat, cur_tab : Tab,
   old : Nat, what : {"value", "key"}, src : Seq(Nat), ret : Nat, flag : BOOLEAN,
   prev : Nat, cur : Nat, tail : Nat]

Job(G) ==
  /\ put \in FlightPut
  /\ put.insert = (G.p = Len(G.T)) /\ put.cur_off = G.T[G.p]
  /\ put.what = "key" => put.insert
  /\ put.insert => \A i \in 1 .. Len(G.T) - 1 : G.X[2 * i] # put.key
  /\ ~put.insert => /\ G.X[2 * G.p] = put.key /\ put.old = G.S[2 * G.p + 1][1]
                    /\ put.cur_tab.next = G.T[G.p + 1] /\ put.cur_tab.key = G.S[2 * G.p][1]

\* What was in the map is still there, maybe as part of something else.
Extends(o, old) ==
  \A a \in DOMAIN old : a \in DOMAIN o /\ Width(o[a]) = Width(old[a])

Space(G, Z, size) ==
  /\ Laid(G.T, G.S, Z.o, size) /\ Extends(Z.o, G.o)
  /\ Z.k \in 0 .. Len(G.F) - 1 /\ Owns(Z.o, 1, G.F, Z.k + 1)
  /\ Z.V \in Seq(Nat) /\ Owns(Z.o, -1, Z.V, 1)
  /\ Z.K \in Seq(Nat) /\ Owns(Z.o, -2, Z.K, 1)

\* The blocks it has not taken are still a list.
Ahead(m, G, Z) ==
  \A i \in Z.k + 1 .. Len(G.F) - 1 : m[G.F[i] + BlockLen] = G.F[i + 1]

HeadAt(G, Z) ==
  /\ Z.h \in 1 .. Z.k + 1 /\ hdr.head = G.F[Z.h]
  /\ put.pc \notin {"info", "next", "out", "link"} => Z.h = Z.k + 1
  /\ put.pc # "neg" \/ put.insert => hdr.tail = G.F[Len(G.F)]
  /\ put.pc = "alloc" /\ ~put.insert => Z.k = 0
  /\ put.pc \in {"info", "next", "out", "link"} /\ put.flag /\ ~put.insert => Z.h = 1

\* What Untouched and Linked promise to recovery.
Undoable(G, Z) ==
  /\ hdr.backup_prev = 0 /\ Z.h = 1 => FreeBut(mem, G.F, 0)
  /\ ~put.insert /\ hdr.backup_prev # 0 =>
       /\ Z.k >= 1 /\ hdr.backup_prev = G.F[Z.k] /\ FreeBut(mem, G.F, Z.k)
       /\ put.pc \notin {"alloc", "info"}
       /\ put.pc \in {"next", "out", "link"} => Left < 0
       /\ put.pc \in {"next", "out", "link", "zero"} => hdr.backup_prev = put.prev

Unseen(G) == put.pc # "neg" \/ ~put.insert => TabSame(mem, G.T, G.S, G.p)

\* The text being written, and the blocks that have it.
Goal == IF put.what = "value" THEN put.val ELSE put.key
Chain(Z) == IF put.what = "value" THEN Z.V ELSE Z.K
Joined(m, c) == \A i \in 1 .. Len(c) - 1 : m[c[i] + BlockLen] = c[i + 1]

Filling(G, Z, n) ==
  /\ Len(Chain(Z)) >= 1 /\ put.prev = Chain(Z)[Len(Chain(Z))] /\ put.ret = Chain(Z)[1]
  /\ BlockLen * (Len(Chain(Z)) - 1) < Len(Goal)
  /\ put.src = SubSeq(Goal, BlockLen * (Len(Chain(Z)) - 1) + 1, Len(Goal))
  /\ Joined(mem, Chain(Z)) /\ Spells(mem, Chain(Z), n, Goal)
  /\ put.tail = G.F[Len(G.F)]
  /\ IF put.flag THEN Z.k >= 1 /\ put.prev = G.F[Z.k] /\ mem[put.prev + BlockLen] = G.F[Z.k + 1]
     ELSE Z.k = Len(G.F) - 1 /\ Z.h = Z.k + 1

TakenFrom(G, Z) ==
  IF put.flag THEN put.cur = G.F[Z.k + 1] /\ Z.k + 1 < Len(G.F)
  ELSE put.cur \in DOMAIN Z.o /\ Z.o[put.cur] = <<-3, 0>>

ValueDone(Z) == Len(Z.V) >= 1 /\ Strung(mem, Z.V, put.val) /\ put.cur_tab.value = Z.V[1]
KeyDone(Z) == Len(Z.K) >= 1 /\ Strung(mem, Z.K, put.key) /\ put.cur_tab.key = Z.K[1]
NewTabAt(Z) ==
  put.cur_tab.next \in DOMAIN Z.o /\ Z.o[put.cur_tab.next] = <<-4, 0>> /\ put.cur_tab.next # 0
NewTabEmpty == mem[put.cur_tab.next] = 0 /\ mem[put.cur_tab.next + 1] = 0

AllocPc == {"alloc", "info", "next", "out", "link", "zero", "head"}
At(G, Z) ==
  /\ put.pc \in AllocPc => IF put.what = "key" THEN ValueDone(Z) ELSE Z.K = <<>>
  /\ put.pc = "alloc" => Chain(Z) = <<>> /\ put.src = Goal
  /\ put.pc = "info" => Filling(G, Z, Len(Chain(Z)) - 1) /\ put.cur = put.prev
  /\ put.pc = "next" => Filling(G, Z, Len(Chain(Z)))
  /\ put.pc = "out" => Filling(G, Z, Len(Chain(Z))) /\ put.flag /\ Z.k = Len(G.F) - 1
  /\ put.pc = "link" => Filling(G, Z, Len(Chain(Z))) /\ TakenFrom(G, Z)
  /\ put.pc = "zero" => Filling(G, Z, Len(Chain(Z))) /\ TakenFrom(G, Z) /\ Left <= 0
  /\ put.pc = "head" =>
       /\ Len(Chain(Z)) >= 1 /\ put.ret = Chain(Z)[1] /\ Strung(mem, Chain(Z), Goal)
       /\ IF put.flag THEN put.cur = G.F[Z.k + 1]
          ELSE put.tail = G.F[Len(G.F)] /\ Z.k = Len(G.F) - 1
  /\ put.pc \in {"newtab", "zerotab", "tab", "free", "tail", "neg"} =>
       ValueDone(Z) /\ (put.insert => KeyDone(Z))
  /\ put.pc \in {"newtab", "zerotab"} => put.insert
  /\ put.pc \in {"zerotab", "tab", "neg"} /\ put.insert => NewTabAt(Z)
  /\ put.pc \in {"tab", "neg"} /\ put.insert => NewTabEmpty
  /\ put.pc \in {"free", "tail"} => ~put.insert
  /\ put.pc \in {"free", "tail", "neg"} =>
       /\ put.insert => /\ mem[put.cur_off] = put.cur_tab.next
                        /\ mem[put.cur_off + 1] = put.cur_tab.key
       /\ mem[put.cur_off + 3] = put.cur_tab.value
  /\ put.pc \in {"tail", "neg"} /\ ~put.insert =>
       mem[G.F[Len(G.F)] + BlockLen] = put.old
  /\ put.pc = "neg" /\ ~put.insert =>
       LET old == G.S[2 * G.p + 1] IN hdr.tail = old[Len(old)]

Flight(G, Z) ==
  /\ Backed(G) /\ Job(G) /\ Space(G, Z, hdr.size) /\ Ahead(mem, G, Z) /\ HeadAt(G, Z)
  /\ Undoable(G, Z) /\ Unseen(G) /\ At(G, Z)

Roomy == hdr.size <= Words

FileInv ==
  /\ FileTypeOK
  /\ put.pc \in {"idle"} \cup RecoverPc \cup FlightPc
  /\ put.pc = "idle" => put = Idle
  /\ put.pc \in RecoverPc => put \in StartPut
  /\ hdr.backup_flag = 0 => put.pc \in {"idle", "find"} /\ \E G : Quiet(G)
  /\ hdr.backup_flag = 1 => put.pc # "find"
  /\ hdr.backup_flag = 1 /\ put.pc \notin FlightPc => \E G : Crashed(G)
  /\ put.pc \in FlightPc => hdr.backup_flag = 1 /\ \E G, Z : Flight(G, Z)

-----------------------------------------------------------------------------
(* Writes and what they leave alone                                           *)

\* From m to m2 only the region at b has changed.
Else(m, m2, o, b) ==
  \A a \in DOMAIN o, j \in Nat : a # b /\ j < Width(o[a]) => m2[a + j] = m[a + j]

\* ws is at b + d, in the region at b.
Wrote(m, m2, o, b, d, ws) ==
  /\ m2 \in [0 .. Words - 1 -> Nat]
  /\ Else(m, m2, o, b)
  /\ \A j \in Nat : j < Width(o[b]) =>
       m2[b + j] = IF d <= j /\ j < d + Len(ws) THEN ws[j - d + 1] ELSE m[b + j]

LEMMA WriteThere ==
  ASSUME mem \in [0 .. Words - 1 -> Nat], Words \in Nat, NEW o, NEW size, Placed(o, size),
         size \in Nat, size <= Words, NEW b \in DOMAIN o, NEW d \in Nat, NEW ws \in Seq(Nat),
         d + Len(ws) <= Width(o[b]), NEW m2, m2 = Written(b + d, ws)
  PROVE  Wrote(mem, m2, o, b, d, ws)
<1>0. \A w : Width(w) = 5 \/ Width(w) = 8
  BY DEF Width, TabLen, StringLen, BlockLen
<1>1. Len(ws) \in Nat /\ b \in Nat /\ \A i \in 1 .. Len(ws) : ws[i] \in Nat
  BY DEF Placed
<1> DEFINE L == Len(ws)
           wid(a) == Width(o[a])
<1>a. \A a \in DOMAIN o : a \in Nat /\ wid(a) \in Nat /\ a + wid(a) <= Words
  <2> SUFFICES ASSUME NEW a \in DOMAIN o PROVE a \in Nat /\ wid(a) \in Nat /\ a + wid(a) <= Words
    OBVIOUS
  <2>1. a \in Nat /\ a + wid(a) <= size /\ wid(a) \in Nat
    BY <1>0 DEF Placed
  <2> HIDE DEF wid
  <2> QED BY <2>1
<1>2. m2 = [i \in 0 .. Words - 1 |->
              IF i \in b + d .. b + d + L - 1 THEN ws[i - (b + d) + 1] ELSE mem[i]]
  BY DEF Written
<1>3. m2 \in [0 .. Words - 1 -> Nat]
  <2> SUFFICES ASSUME NEW i \in 0 .. Words - 1
               PROVE  (IF i \in b + d .. b + d + L - 1 THEN ws[i - (b + d) + 1] ELSE mem[i]) \in Nat
    BY <1>2
  <2>1. i \in b + d .. b + d + L - 1 => i - (b + d) + 1 \in 1 .. L
    BY <1>1
  <2> QED BY <2>1, <1>1
<1>4. Else(mem, m2, o, b)
  <2> SUFFICES ASSUME NEW a \in DOMAIN o, NEW j \in Nat, a # b, j < Width(o[a])
               PROVE  m2[a + j] = mem[a + j]
    BY DEF Else
  <2>1. a + wid(a) <= b \/ b + wid(b) <= a
    BY DEF Placed
  <2>2. j < wid(a) /\ d + L <= wid(b) /\ a \in Nat /\ wid(a) \in Nat /\ wid(b) \in Nat
          /\ a + wid(a) <= Words /\ L \in Nat /\ b \in Nat
    BY <1>a, <1>1
  <2> DEFINE u == wid(a)
             v == wid(b)
  <2>a. /\ a + u <= b \/ b + v <= a
        /\ j < u /\ d + L <= v /\ a \in Nat /\ u \in Nat /\ v \in Nat
        /\ a + u <= Words /\ L \in Nat /\ b \in Nat
    BY <2>1, <2>2
  <2> HIDE DEF u, v, wid, L
  <2>b. a + j \in Nat /\ a + j <= Words - 1
    BY ONLY <2>a, j \in Nat, Words \in Nat
  <2>c. ~(b + d <= a + j /\ a + j <= b + d + L - 1)
    <3>1. a + u <= b => a + j < b + d
      BY ONLY <2>a, j \in Nat, d \in Nat
    <3>2. b + v <= a => b + d + L - 1 < a + j
      BY ONLY <2>a, j \in Nat, d \in Nat
    <3> QED BY ONLY <3>1, <3>2, <2>a, j \in Nat, d \in Nat
  <2>3. a + j \in 0 .. Words - 1 /\ a + j \notin b + d .. b + d + L - 1
    <3> DEFINE q == a + j
               lo == b + d
               hi == b + d + L - 1
    <3>1. q \in Nat /\ q <= Words - 1 /\ ~(lo <= q /\ q <= hi)
      BY <2>b, <2>c
    <3> HIDE DEF q, lo, hi
    <3>2. q \in 0 .. Words - 1 /\ q \notin lo .. hi
      BY ONLY <3>1, Words \in Nat
    <3> QED BY <3>2 DEF q, lo, hi
  <2> QED BY <2>3, <1>2
<1>5. ASSUME NEW j \in Nat, j < Width(o[b])
      PROVE  m2[b + j] = IF d <= j /\ j < d + Len(ws) THEN ws[j - d + 1] ELSE mem[b + j]
  <2>1. j < wid(b) /\ d + L <= wid(b) /\ wid(b) \in Nat /\ b + wid(b) <= Words
    BY <1>5, <1>a
  <2> HIDE DEF wid, L
  <2> DEFINE v == wid(b)
  <2>a. j < v /\ v \in Nat /\ b + v <= Words /\ b \in Nat
    BY <2>1, <1>1
  <2> HIDE DEF v
  <2>2. b + j \in 0 .. Words - 1
    BY ONLY <2>a, j \in Nat, Words \in Nat
  <2>3. b + j \in b + d .. b + d + L - 1 <=> d <= j /\ j < d + L
    BY <1>1 DEF L
  <2>4. (b + j) - (b + d) + 1 = j - d + 1
    BY <1>1
  <2> QED BY <1>2, <2>2, <2>3, <2>4 DEF L
<1> QED BY <1>3, <1>4, <1>5 DEF Wrote

LEMMA WriteAt ==
  ASSUME mem \in [0 .. Words - 1 -> Nat], Words \in Nat, NEW o, NEW size, Placed(o, size),
         size \in Nat, size <= Words, NEW b \in DOMAIN o, NEW d \in Nat, NEW ws \in Seq(Nat),
         d + Len(ws) <= Width(o[b]), NEW e, e = b + d, NEW m2, m2 = Written(e, ws)
  PROVE  Wrote(mem, m2, o, b, d, ws)
<1>1. m2 = Written(b + d, ws)
  OBVIOUS
<1> QED BY <1>1, WriteThere

\* The first words of a tab.
HasTab(m, b, ws) == m[b] = ws[1] /\ m[b + 1] = ws[2] /\ m[b + 3] = ws[4]

LEMMA WroteTab ==
  ASSUME NEW m, NEW m2, NEW o, NEW b, b \in Nat, NEW ws, ws \in Seq(Nat), Len(ws) = 5,
         Wrote(m, m2, o, b, 0, ws), Width(o[b]) = 5
  PROVE  HasTab(m2, b, ws)
<1>1. \A j \in 0 .. 4 : m2[b + j] = ws[j + 1]
  <2> SUFFICES ASSUME NEW j \in 0 .. 4 PROVE m2[b + j] = ws[j + 1]
    OBVIOUS
  <2>1. j \in Nat /\ j < Width(o[b]) /\ 0 <= j /\ j < 0 + Len(ws) /\ j - 0 + 1 = j + 1
    OBVIOUS
  <2>2. m2[b + j] = IF 0 <= j /\ j < 0 + Len(ws) THEN ws[j - 0 + 1] ELSE m[b + j]
    BY <2>1 DEF Wrote
  <2> QED BY <2>1, <2>2
<1>2. m2[b + 0] = ws[0 + 1] /\ m2[b + 1] = ws[1 + 1] /\ m2[b + 3] = ws[3 + 1]
  <2>1. 0 \in 0 .. 4 /\ 1 \in 0 .. 4 /\ 3 \in 0 .. 4
    OBVIOUS
  <2> QED BY <2>1, <1>1
<1>3. b + 0 = b
  OBVIOUS
<1> QED BY <1>2, <1>3 DEF HasTab

\* x is at b + d, and the rest of the region at b is as before.
HasWord(m, m2, o, b, d, x) ==
  /\ m2[b + d] = x
  /\ \A j \in Nat : j < Width(o[b]) /\ j # d => m2[b + j] = m[b + j]
HasText(m, m2, b, ws) ==
  /\ \A j \in 0 .. BlockLen - 1 : m2[b + j] = ws[j + 1]
  /\ m2[b + BlockLen] = m[b + BlockLen]

LEMMA WroteWord ==
  ASSUME NEW m, NEW m2, NEW o, NEW b, b \in Nat, NEW d, d \in Nat, NEW x, x \in Nat,
         Wrote(m, m2, o, b, d, <<x>>), d < Width(o[b])
  PROVE  HasWord(m, m2, o, b, d, x)
<1>1. ASSUME NEW j \in Nat, j < Width(o[b]), j = d PROVE m2[b + j] = x
  <2>1. d <= j /\ j < d + Len(<<x>>) /\ j - d + 1 = 1
    BY <1>1
  <2>2. m2[b + j] = IF d <= j /\ j < d + Len(<<x>>) THEN <<x>>[j - d + 1] ELSE m[b + j]
    BY <1>1 DEF Wrote
  <2> QED BY <2>1, <2>2
<1>2. ASSUME NEW j \in Nat, j < Width(o[b]), j # d PROVE m2[b + j] = m[b + j]
  <2>1. ~(d <= j /\ j < d + Len(<<x>>))
    BY <1>2
  <2>2. m2[b + j] = IF d <= j /\ j < d + Len(<<x>>) THEN <<x>>[j - d + 1] ELSE m[b + j]
    BY <1>2 DEF Wrote
  <2> QED BY <2>1, <2>2
<1> QED BY <1>1, <1>2 DEF HasWord

LEMMA WroteText ==
  ASSUME NEW m, NEW m2, NEW o, NEW b, b \in Nat, NEW ws, ws \in Seq(Nat), Len(ws) = BlockLen,
         Wrote(m, m2, o, b, 0, ws), Width(o[b]) = 8
  PROVE  HasText(m, m2, b, ws)
<1>1. ASSUME NEW j \in 0 .. BlockLen - 1 PROVE m2[b + j] = ws[j + 1]
  <2>1. j \in Nat /\ j < Width(o[b]) /\ 0 <= j /\ j < 0 + Len(ws) /\ j - 0 + 1 = j + 1
    BY DEF BlockLen
  <2>2. m2[b + j] = IF 0 <= j /\ j < 0 + Len(ws) THEN ws[j - 0 + 1] ELSE m[b + j]
    BY <2>1 DEF Wrote
  <2> QED BY <2>1, <2>2
<1>2. m2[b + BlockLen] = m[b + BlockLen]
  <2>1. BlockLen \in Nat /\ BlockLen < Width(o[b]) /\ ~(BlockLen < 0 + Len(ws))
    BY DEF BlockLen
  <2>2. m2[b + BlockLen] = IF 0 <= BlockLen /\ BlockLen < 0 + Len(ws)
                             THEN ws[BlockLen - 0 + 1] ELSE m[b + BlockLen]
    BY <2>1 DEF Wrote
  <2> QED BY <2>1, <2>2
<1> QED BY <1>1, <1>2 DEF HasText

LEMMA StrungElse ==
  ASSUME NEW m, NEW m2, NEW o, NEW b, Else(m, m2, o, b), NEW x, NEW c \in Seq(Nat), x # 0, x # -4,
         Owns(o, x, c, 1), \A i \in 1 .. Len(c) : c[i] # b
  PROVE  /\ \A i \in 1 .. Len(c), j \in 0 .. 7 : m2[c[i] + j] = m[c[i] + j]
         /\ \A e : Links(m, c, e) => Links(m2, c, e)
         /\ \A n \in 0 .. Len(c) : \A s : Spells(m, c, n, s) => Spells(m2, c, n, s)
         /\ \A s : Strung(m, c, s) => Strung(m2, c, s)
         /\ Joined(m, c) => Joined(m2, c)
<1>1. ASSUME NEW i \in 1 .. Len(c), NEW j \in 0 .. 7
      PROVE  m2[c[i] + j] = m[c[i] + j]
  <2>1. c[i] \in DOMAIN o /\ o[c[i]] = <<x, i>>
    BY DEF Owns
  <2>2. Width(o[c[i]]) = 8
    BY <2>1 DEF Width, StringLen, BlockLen
  <2>3. j \in Nat /\ j < 8
    OBVIOUS
  <2> QED BY <2>1, <2>2, <2>3 DEF Else
<1>2. \A i \in 1 .. Len(c) : m2[c[i] + BlockLen] = m[c[i] + BlockLen]
  <2>1. 7 \in 0 .. 7
    OBVIOUS
  <2> QED BY <1>1, <2>1 DEF BlockLen
<1>3. \A i \in 1 .. Len(c), j \in 0 .. BlockLen - 1 : m2[c[i] + j] = m[c[i] + j]
  <2>1. \A j \in 0 .. BlockLen - 1 : j \in 0 .. 7
    BY DEF BlockLen
  <2> QED BY <1>1, <2>1
<1>4. \A e : Links(m, c, e) => Links(m2, c, e)
  BY <1>2 DEF Links
<1>5. ASSUME NEW n \in 0 .. Len(c), NEW s, Spells(m, c, n, s) PROVE Spells(m2, c, n, s)
  <2> SUFFICES ASSUME NEW i \in 1 .. n, NEW j \in 0 .. BlockLen - 1
               PROVE  m2[c[i] + j] = Letter(s, BlockLen * (i - 1) + j + 1)
    BY DEF Spells
  <2>1. i \in 1 .. Len(c)
    OBVIOUS
  <2>2. m[c[i] + j] = Letter(s, BlockLen * (i - 1) + j + 1)
    BY <1>5 DEF Spells
  <2> QED BY <2>1, <2>2, <1>3
<1>6. \A s : Strung(m, c, s) => Strung(m2, c, s)
  <2>1. Len(c) \in 0 .. Len(c)
    OBVIOUS
  <2> QED BY <1>4, <1>5, <2>1 DEF Strung
<1>7. Joined(m, c) => Joined(m2, c)
  <2> SUFFICES ASSUME Joined(m, c), NEW i \in 1 .. Len(c) - 1
               PROVE  m2[c[i] + BlockLen] = c[i + 1]
    BY DEF Joined
  <2>1. i \in 1 .. Len(c)
    OBVIOUS
  <2> QED BY <2>1, <1>2 DEF Joined
<1> QED BY <1>1, <1>4, <1>5, <1>6, <1>7

\* b is not in a string.
NoBlock(T, S, b) == \A c \in 2 .. 2 * Len(T) - 1 : \A i \in 1 .. Len(S[c]) : S[c][i] # b

\* The tabs but for the one at b.
TabsKept(m, m2, T, S, b) ==
  \A i \in 1 .. Len(T) : T[i] # b =>
     /\ \A j \in 0 .. 4 : m2[T[i] + j] = m[T[i] + j]
     /\ TabIs(m, T, S, i) => TabIs(m2, T, S, i)
     /\ TabSame(m, T, S, i) => TabSame(m2, T, S, i)

\* A write outside the strings leaves them, and one outside a tab leaves it.
LEMMA LaidElse ==
  ASSUME NEW m, NEW m2, NEW T, NEW S, NEW X, NEW o, NEW size, size \in Nat,
         Laid(T, S, o, size), NEW b, Else(m, m2, o, b),
         NoBlock(T, S, b)
  PROVE  /\ Filed(m, T, S, X) => Filed(m2, T, S, X)
         /\ TabsKept(m, m2, T, S, b)
<1>1. ASSUME Filed(m, T, S, X) PROVE Filed(m2, T, S, X)
  <2> SUFFICES ASSUME NEW c \in 2 .. 2 * Len(T) - 1 PROVE Strung(m2, S[c], X[c])
    BY <1>1 DEF Filed
  <2>1. S[c] \in Seq(Nat) /\ Owns(o, c, S[c], 1)
    BY DEF Laid
  <2>2. Len(T) \in Nat
    BY DEF Laid
  <2>3. c # 0 /\ c # -4
    BY <2>2
  <2>4. Strung(m, S[c], X[c])
    BY <1>1 DEF Filed
  <2>5. \A i \in 1 .. Len(S[c]) : S[c][i] # b
    BY DEF NoBlock
  <2> QED BY <2>1, <2>3, <2>4, <2>5, StrungElse
<1>2. ASSUME NEW i \in 1 .. Len(T), T[i] # b
      PROVE  /\ \A j \in 0 .. 4 : m2[T[i] + j] = m[T[i] + j]
             /\ TabIs(m, T, S, i) => TabIs(m2, T, S, i)
             /\ TabSame(m, T, S, i) => TabSame(m2, T, S, i)
  <2>1. T[i] \in Nat /\ T[i] \in DOMAIN o /\ o[T[i]] = <<0, i>>
    BY LaidAt
  <2>2. Width(o[T[i]]) = 5
    BY <2>1 DEF Width, TabLen
  <2>3. \A j \in 0 .. 4 : m2[T[i] + j] = m[T[i] + j]
    <3> SUFFICES ASSUME NEW j \in 0 .. 4 PROVE m2[T[i] + j] = m[T[i] + j]
      OBVIOUS
    <3>1. j \in Nat /\ j < 5
      OBVIOUS
    <3> QED BY <2>1, <2>2, <3>1, <1>2 DEF Else
  <2>4. m2[T[i]] = m[T[i]] /\ m2[T[i] + 1] = m[T[i] + 1] /\ m2[T[i] + 3] = m[T[i] + 3]
    <3>1. T[i] + 0 = T[i] /\ 0 \in 0 .. 4 /\ 1 \in 0 .. 4 /\ 3 \in 0 .. 4
      BY <2>1
    <3> QED BY <2>3, <3>1
  <2> QED BY <2>3, <2>4 DEF TabIs, TabSame
<1> QED BY <1>1, <1>2 DEF TabsKept

-----------------------------------------------------------------------------
(* What the invariant says to a reader                                        *)

OneEach(T, X) == \A i, j \in 1 .. Len(T) - 1 : X[2 * i] = X[2 * j] => i = j
Unlisted(T, X, k) == \A i \in 1 .. Len(T) - 1 : X[2 * i] # k
ValuesAt(T, S) == \A i \in 1 .. Len(T) - 1 : ValueOf(T[i]) = S[2 * i + 1][1]
KeysAt(T, X) ==
  /\ \A i \in 1 .. Len(T) - 1 : EntryOf(X[2 * i]) = {T[i]}
  /\ \A k : Unlisted(T, X, k) => EntryOf(k) = {}
Gets(T, X) ==
  /\ \A i \in 1 .. Len(T) - 1 : kvdb_get(X[2 * i]) = X[2 * i + 1]
  /\ \A k : Unlisted(T, X, k) => kvdb_get(k) = NULL

LEMMA KeysFound ==
  ASSUME NEW T, NEW S, NEW X, Found(T, S, X), T \in Seq(Nat),
         OneEach(T, X)
  PROVE  KeysAt(T, X)
<1>1. \A i \in 1 .. Len(T) - 1 : Text(TabAt(T[i]).key) = X[2 * i]
  <2> SUFFICES ASSUME NEW i \in 1 .. Len(T) - 1 PROVE Text(TabAt(T[i]).key) = X[2 * i]
    OBVIOUS
  <2>1. TabAt(T[i]).key = S[2 * i][1]
    BY DEF Found
  <2>2. 2 * i \in 2 .. 2 * Len(T) - 1
    OBVIOUS
  <2>3. Text(S[2 * i][1]) = X[2 * i]
    BY <2>2 DEF Found
  <2> QED BY <2>1, <2>3
<1>2. \A k : EntryOf(k) = {t \in {T[i] : i \in 1 .. Len(T) - 1} : Text(TabAt(t).key) = k}
  BY DEF EntryOf, Found
<1>3. ASSUME NEW i \in 1 .. Len(T) - 1 PROVE EntryOf(X[2 * i]) = {T[i]}
  <2>1. \A t \in EntryOf(X[2 * i]) : t = T[i]
    <3> SUFFICES ASSUME NEW t \in EntryOf(X[2 * i]) PROVE t = T[i]
      OBVIOUS
    <3>1. PICK j \in 1 .. Len(T) - 1 : t = T[j]
      BY <1>2
    <3>2. X[2 * j] = X[2 * i]
      BY <1>1, <1>2, <3>1
    <3>3. j = i
      BY <3>2 DEF OneEach
    <3> QED BY <3>1, <3>3
  <2>2. T[i] \in EntryOf(X[2 * i])
    BY <1>1, <1>2
  <2> QED BY <2>1, <2>2
<1>4. ASSUME NEW k, Unlisted(T, X, k) PROVE EntryOf(k) = {}
  BY <1>1, <1>2, <1>4 DEF Unlisted
<1> QED BY <1>3, <1>4 DEF KeysAt

LEMMA Answers ==
  ASSUME NEW T, NEW S, NEW X, Found(T, S, X), T \in Seq(Nat),
         OneEach(T, X), ValuesAt(T, S)
  PROVE  Gets(T, X)
<1>0. KeysAt(T, X)
  BY KeysFound
<1>1. ASSUME NEW i \in 1 .. Len(T) - 1 PROVE kvdb_get(X[2 * i]) = X[2 * i + 1]
  <2>1. EntryOf(X[2 * i]) = {T[i]}
    BY <1>0 DEF KeysAt
  <2>2. (CHOOSE t \in {T[i]} : TRUE) = T[i]
    OBVIOUS
  <2>3. kvdb_get(X[2 * i]) = Text(ValueOf(T[i]))
    BY <2>1, <2>2 DEF kvdb_get
  <2>a. ValueOf(T[i]) = S[2 * i + 1][1]
    BY DEF ValuesAt
  <2>4. 2 * i + 1 \in 2 .. 2 * Len(T) - 1
    OBVIOUS
  <2>5. Text(S[2 * i + 1][1]) = X[2 * i + 1]
    BY <2>4 DEF Found
  <2> QED BY <2>3, <2>5, <2>a
<1>2. ASSUME NEW k, Unlisted(T, X, k) PROVE kvdb_get(k) = NULL
  <2>1. EntryOf(k) = {}
    BY <1>0, <1>2 DEF KeysAt
  <2> QED BY <2>1 DEF kvdb_get
<1> QED BY <1>1, <1>2 DEF Gets

\* What a get promises in a state.
Right == \A k \in Keys : kvdb_get(k) = dict[k] \/ <<k, kvdb_get(k)>> \in half

LEMMA RightFrom ==
  ASSUME NEW T, NEW X, Means(T, X), T \in Seq(Nat),
         \A i \in 1 .. Len(T) - 1 : kvdb_get(X[2 * i]) = X[2 * i + 1],
         \A k : Unlisted(T, X, k) => kvdb_get(k) = NULL \/ <<k, kvdb_get(k)>> \in half
  PROVE  Right
<1> SUFFICES ASSUME NEW k \in Keys PROVE kvdb_get(k) = dict[k] \/ <<k, kvdb_get(k)>> \in half
  BY DEF Right
<1>1. CASE \E i \in 1 .. Len(T) - 1 : X[2 * i] = k
  BY <1>1 DEF Means
<1>2. CASE \A i \in 1 .. Len(T) - 1 : X[2 * i] # k
  <2>1. dict[k] = NULL
    BY <1>2 DEF Means
  <2> QED BY <1>2, <2>1 DEF Unlisted
<1> QED BY <1>1, <1>2

LEMMA QuietRight ==
  ASSUME FileTypeOK, Words \in Nat, hdr.backup_flag = 0, NEW G, Quiet(G)
  PROVE  Right
<1>1. Laid(G.T, G.S, G.o, hdr.size) /\ hdr.size \in Nat /\ hdr.size <= Words /\ G.T \in Seq(Nat)
  <2>1. hdr.size \in Nat /\ hdr.size <= Words
    BY DEF FileTypeOK
  <2>2. Laid(G.T, G.S, G.o, hdr.size)
    BY DEF Quiet, Stored
  <2>3. G.T \in Seq(Nat)
    BY <2>2 DEF Laid
  <2> QED BY <2>1, <2>2, <2>3
<1>2. DOMAIN mem = 0 .. Words - 1
  BY DEF FileTypeOK
<1>3. Found(G.T, G.S, G.X)
  <2>1. \A i \in 1 .. Len(G.T) : TabSame(mem, G.T, G.S, i)
    BY DEF Quiet, TabIs
  <2>2. Filed(mem, G.T, G.S, G.X)
    BY DEF Quiet
  <2> QED BY <1>1, <1>2, <2>1, <2>2, Reading
<1>4. Means(G.T, G.X)
  BY DEF Quiet
<1>5. ValuesAt(G.T, G.S)
  <2> SUFFICES ASSUME NEW i \in 1 .. Len(G.T) - 1
               PROVE  ValueOf(G.T[i]) = G.S[2 * i + 1][1]
    BY DEF ValuesAt
  <2>1. i \in 1 .. Len(G.T) /\ i # Len(G.T)
    BY <1>1
  <2>2. mem[G.T[i] + 3] = G.S[2 * i + 1][1]
    BY <2>1 DEF Quiet, TabIs
  <2> QED BY <2>2 DEF ValueOf, TabAt
<1>6. Gets(G.T, G.X)
  <2>1. OneEach(G.T, G.X)
    BY <1>4 DEF Means, OneEach
  <2> QED BY <1>1, <1>3, <1>5, <2>1, Answers
<1> QED BY <1>1, <1>4, <1>6, RightFrom DEF Gets

LEMMA BackedFacts ==
  ASSUME FileTypeOK, Words \in Nat, NEW G, Backed(G)
  PROVE  /\ Laid(G.T, G.S, G.o, hdr.backup_list.size)
         /\ hdr.backup_list.size \in Nat /\ hdr.backup_list.size <= Words
         /\ G.T \in Seq(Nat) /\ Len(G.T) \in Nat /\ Len(G.T) >= 1 /\ G.p \in 1 .. Len(G.T)
         /\ DOMAIN mem = 0 .. Words - 1
<1>1. DOMAIN mem = 0 .. Words - 1 /\ hdr.backup_list.size \in Nat
  BY DEF FileTypeOK
<1>2. Laid(G.T, G.S, G.o, hdr.backup_list.size) /\ hdr.backup_list.size <= Words /\ G.p \in 1 .. Len(G.T)
  BY DEF Backed, Stored
<1>3. G.T \in Seq(Nat) /\ Len(G.T) >= 1
  BY <1>2 DEF Laid
<1> QED BY <1>1, <1>2, <1>3

\* Two strings do not begin with the same block.
FirstsApart(T, S) ==
  \A c, d \in 2 .. 2 * Len(T) - 1 : S[c][1] \in Nat \ {0} /\ (S[c][1] = S[d][1] => c = d)

LEMMA FirstBlocks ==
  ASSUME NEW T, NEW S, NEW o, NEW size, Laid(T, S, o, size), size \in Nat
  PROVE  FirstsApart(T, S)
<1> SUFFICES ASSUME NEW c \in 2 .. 2 * Len(T) - 1, NEW d \in 2 .. 2 * Len(T) - 1
             PROVE  S[c][1] \in Nat \ {0} /\ (S[c][1] = S[d][1] => c = d)
  BY DEF FirstsApart
<1>1. 1 \in 1 .. Len(S[c]) /\ 1 \in 1 .. Len(S[d])
  <2>1. S[c] \in Seq(Nat) /\ Len(S[c]) >= 1 /\ S[d] \in Seq(Nat) /\ Len(S[d]) >= 1
    BY DEF Laid
  <2> QED BY <2>1
<1>2. S[c][1] \in Nat \ {0} /\ o[S[c][1]] = <<c, 1>> /\ o[S[d][1]] = <<d, 1>>
  <2>1. \A e \in 2 .. 2 * Len(T) - 1 : \A i \in 1 .. Len(S[e]) :
          S[e][i] \in Nat \ {0} /\ o[S[e][i]] = <<e, i>>
    BY LaidAt
  <2> QED BY ONLY <1>1, <2>1, c \in 2 .. 2 * Len(T) - 1, d \in 2 .. 2 * Len(T) - 1
<1> QED BY <1>2

LEMMA SameRight ==
  ASSUME FileTypeOK, Words \in Nat, hdr.backup_flag = 1, NEW G, Backed(G),
         TabSame(mem, G.T, G.S, G.p)
  PROVE  Right
<1> DEFINE n == Len(G.T)
<1>1. /\ Laid(G.T, G.S, G.o, hdr.backup_list.size)
      /\ hdr.backup_list.size \in Nat /\ hdr.backup_list.size <= Words
      /\ G.T \in Seq(Nat) /\ n \in Nat /\ n >= 1 /\ G.p \in 1 .. n
      /\ DOMAIN mem = 0 .. Words - 1
  BY BackedFacts
<1>2. Filed(mem, G.T, G.S, G.X) /\ Means(G.T, G.X)
  BY DEF Backed
<1>3. Found(G.T, G.S, G.X)
  <2>1. \A i \in 1 .. n : TabSame(mem, G.T, G.S, i)
    BY DEF Backed, TabIs
  <2> QED BY <1>1, <1>2, <2>1, Reading
<1>4. FirstsApart(G.T, G.S)
  BY <1>1, FirstBlocks
<1>5. ASSUME NEW i \in 1 .. n - 1 PROVE ValueOf(G.T[i]) = G.S[2 * i + 1][1]
  <2>1. i \in 1 .. n /\ i # n /\ 2 * i \in 2 .. 2 * n - 1
    BY <1>1
  <2>2. TabAt(G.T[i]).key = G.S[2 * i][1] /\ G.S[2 * i][1] # 0
    BY <2>1, <1>3, <1>4 DEF Found, FirstsApart
  <2>3. CASE i = G.p
    <3>1. hdr.backup_tab.key = G.S[2 * i][1] /\ hdr.backup_tab.value = G.S[2 * i + 1][1]
      BY <2>1, <2>3 DEF Backed
    <3> QED BY <3>1, <2>2 DEF ValueOf
  <2>4. CASE i # G.p
    <3>1. hdr.backup_tab.key # G.S[2 * i][1]
      <4>1. CASE G.p = n
        BY <4>1, <2>2 DEF Backed
      <4>2. CASE G.p # n
        <5>1. hdr.backup_tab.key = G.S[2 * G.p][1]
          BY <4>2 DEF Backed
        <5>2. 2 * G.p \in 2 .. 2 * n - 1 /\ 2 * G.p # 2 * i
          <6>1. G.p \in 1 .. n - 1
            BY <4>2, <1>1
          <6> HIDE DEF n
          <6> QED BY <6>1, <2>4, <1>1
        <5> QED BY <5>1, <5>2, <2>1, <1>4 DEF FirstsApart
      <4> QED BY <4>1, <4>2
    <3>2. mem[G.T[i] + 3] = G.S[2 * i + 1][1]
      BY <2>1, <2>4 DEF Backed, TabIs
    <3> QED BY <3>1, <3>2, <2>2 DEF ValueOf, TabAt
  <2> QED BY <2>3, <2>4
<1>6. Gets(G.T, G.X)
  <2>1. OneEach(G.T, G.X)
    BY <1>2 DEF Means, OneEach
  <2>2. ValuesAt(G.T, G.S)
    BY <1>5 DEF ValuesAt
  <2> QED BY <1>1, <1>3, <2>1, <2>2, Answers
<1> QED BY <1>1, <1>2, <1>6, RightFrom DEF Gets

LEMMA ShownRight ==
  ASSUME FileTypeOK, Words \in Nat, hdr.backup_flag = 1, NEW G, Backed(G), Shown(G)
  PROVE  Right
<1> DEFINE n == Len(G.T)
<1>1. /\ G.T \in Seq(Nat) /\ n \in Nat /\ n >= 1 /\ DOMAIN mem = 0 .. Words - 1
  BY BackedFacts
<1>2. PICK T, S, X, o :
       /\ Len(T) = n + 1
       /\ Laid(T, S, o, Words) /\ Filed(mem, T, S, X)
       /\ \A i \in 1 .. Len(T) : TabIs(mem, T, S, i)
       /\ \A c \in 2 .. 2 * n - 1 : X[c] = G.X[c]
       /\ <<X[2 * n], X[2 * n + 1]>> \in half
       /\ \A i \in 1 .. n - 1 : G.X[2 * i] # X[2 * n]
  BY DEF Shown
<1>3. T \in Seq(Nat) /\ Len(T) = n + 1 /\ Words <= Words
  BY <1>2 DEF Laid
<1>4. Found(T, S, X)
  <2>1. \A i \in 1 .. Len(T) : TabSame(mem, T, S, i)
    BY <1>2 DEF TabIs
  <2> QED BY <1>1, <1>2, <1>3, <2>1, Reading
<1>5. \A i \in 1 .. n - 1 : X[2 * i] = G.X[2 * i] /\ X[2 * i + 1] = G.X[2 * i + 1]
  <2> SUFFICES ASSUME NEW i \in 1 .. n - 1
               PROVE  X[2 * i] = G.X[2 * i] /\ X[2 * i + 1] = G.X[2 * i + 1]
    OBVIOUS
  <2>1. 2 * i \in 2 .. 2 * n - 1 /\ 2 * i + 1 \in 2 .. 2 * n - 1
    BY <1>1
  <2> QED BY <2>1, <1>2
<1>6. Means(G.T, G.X)
  BY DEF Backed
<1>7. OneEach(T, X)
  <2> SUFFICES ASSUME NEW i \in 1 .. n, NEW j \in 1 .. n, X[2 * i] = X[2 * j] PROVE i = j
    BY <1>3 DEF OneEach
  <2>1. CASE i \in 1 .. n - 1 /\ j \in 1 .. n - 1
    BY <2>1, <1>5, <1>6 DEF Means
  <2>2. CASE i = n /\ j # n
    <3>1. j \in 1 .. n - 1
      BY <2>2, <1>1
    <3> QED BY <3>1, <2>2, <1>2, <1>5
  <2>3. CASE j = n /\ i # n
    <3>1. i \in 1 .. n - 1
      BY <2>3, <1>1
    <3> QED BY <3>1, <2>3, <1>2, <1>5
  <2> QED BY <2>1, <2>2, <2>3, <1>1
<1>a. FirstsApart(T, S)
  BY <1>1, <1>2, KvdbFileAssumption, FirstBlocks
<1>8. ValuesAt(T, S)
  <2> SUFFICES ASSUME NEW i \in 1 .. Len(T) - 1 PROVE ValueOf(T[i]) = S[2 * i + 1][1]
    BY DEF ValuesAt
  <2>1. i \in 1 .. Len(T) /\ i # Len(T) /\ 2 * i \in 2 .. 2 * Len(T) - 1
    BY <1>1, <1>3
  <2>2. TabAt(T[i]).key = S[2 * i][1] /\ S[2 * i][1] # 0
    BY <2>1, <1>4, <1>a DEF Found, FirstsApart
  <2>3. hdr.backup_tab.key = 0
    BY DEF Backed, Shown
  <2>4. mem[T[i] + 3] = S[2 * i + 1][1]
    BY <2>1, <1>2 DEF TabIs
  <2> QED BY <2>2, <2>3, <2>4 DEF ValueOf, TabAt
<1>9. Gets(T, X)
  BY <1>3, <1>4, <1>7, <1>8, Answers
<1>10. \A i \in 1 .. n - 1 : kvdb_get(G.X[2 * i]) = G.X[2 * i + 1]
  <2>1. \A i \in 1 .. n - 1 : i \in 1 .. Len(T) - 1
    BY <1>1, <1>3
  <2> QED BY <2>1, <1>5, <1>9 DEF Gets
<1>11. ASSUME NEW k, Unlisted(G.T, G.X, k)
       PROVE  kvdb_get(k) = NULL \/ <<k, kvdb_get(k)>> \in half
  <2>1. CASE k = X[2 * n]
    <3>1. n \in 1 .. Len(T) - 1
      BY <1>1, <1>3
    <3> QED BY <2>1, <3>1, <1>2, <1>9 DEF Gets
  <2>2. CASE k # X[2 * n]
    <3>1. Unlisted(T, X, k)
      <4> SUFFICES ASSUME NEW i \in 1 .. n PROVE X[2 * i] # k
        BY <1>3 DEF Unlisted
      <4>1. i = n \/ i \in 1 .. n - 1
        BY <1>1
      <4> QED BY <4>1, <2>2, <1>5, <1>11 DEF Unlisted
    <3> QED BY <3>1, <1>9 DEF Gets
  <2> QED BY <2>1, <2>2
<1> QED BY <1>1, <1>6, <1>10, <1>11, RightFrom

LEMMA InvDurable == FileInv => Durable
<1> SUFFICES ASSUME FileInv, put.pc = "idle" PROVE Right
  BY DEF Durable, Right
<1>1. FileTypeOK /\ Words \in Nat
  BY KvdbFileAssumption DEF FileInv
<1>2. hdr.backup_flag = 0 \/ hdr.backup_flag = 1
  BY <1>1 DEF FileTypeOK
<1>3. CASE hdr.backup_flag = 0
  <2>1. PICK G : Quiet(G)
    BY <1>3 DEF FileInv
  <2> QED BY <1>1, <1>3, <2>1, QuietRight
<1>4. CASE hdr.backup_flag = 1
  <2>1. PICK G : Crashed(G)
    BY <1>4 DEF FileInv, FlightPc
  <2>2. Backed(G) /\ (TabSame(mem, G.T, G.S, G.p) \/ Shown(G))
    BY <2>1 DEF Crashed, Seen
  <2> QED BY <1>1, <1>4, <2>2, SameRight, ShownRight
<1> QED BY <1>2, <1>3, <1>4

\* The free blocks are those of F.
LEMMA FreeIs ==
  ASSUME FileTypeOK, Words \in Nat, NEW G, Quiet(G)
  PROVE  FreeBlocks = Nodes(G.F) /\ hdr.tail \in FreeBlocks
         /\ \A x \in FreeBlocks : x \in DOMAIN G.o /\ G.o[x][1] = 1
<1> DEFINE F == G.F
           L == Len(F)
           link == [b \in Nat |-> IF b = hdr.tail THEN 0 ELSE NextAt(b)]
<1>1. /\ Laid(G.T, G.S, G.o, hdr.size) /\ Owns(G.o, 1, F, 1)
      /\ F \in Seq(Nat) /\ L >= 1 /\ hdr.head = F[1] /\ hdr.tail = F[L]
      /\ FreeBut(mem, F, 0)
  BY DEF Quiet, Stored
<1>2. Placed(G.o, hdr.size) /\ hdr.size \in Nat /\ hdr.size <= Words
  BY <1>1 DEF Laid, FileTypeOK
<1>3. L <= Steps /\ Steps \in Nat
  BY <1>1, <1>2, ChainFew
<1>4. \A i \in 1 .. L : F[i] \in Nat /\ F[i] \in DOMAIN G.o /\ G.o[F[i]] = <<1, i>>
  BY <1>1 DEF Owns
<1>5. \A i \in 1 .. L : F[i] # 0
  <2>1. G.T[1] = 0 /\ 1 \in 1 .. Len(G.T)
    BY <1>1 DEF Laid
  <2>2. G.o[0] = <<0, 1>>
    BY <2>1, <1>1, <1>2, LaidAt
  <2> QED BY <2>2, <1>4
<1>6. ASSUME NEW i \in 1 .. L - 1 PROVE link[F[i]] = F[i + 1] /\ F[i + 1] # 0
  <2>1. i \in 1 .. L /\ L \in 1 .. L /\ i + 1 \in 1 .. L /\ i # L /\ i # 0
    BY <1>1
  <2>2. F[i] # F[L] /\ F[i] \in Nat /\ F[i + 1] # 0
    BY <2>1, <1>4, <1>5
  <2>3. mem[F[i] + BlockLen] = F[i + 1]
    BY <2>1, <1>1 DEF FreeBut
  <2> QED BY <2>2, <2>3, <1>1 DEF NextAt
<1>7. link[F[L]] = 0
  BY <1>1, <1>4
<1>8. Walk(F[1], link) = F
  <2> HIDE DEF link, F
  <2> QED BY <1>1, <1>3, <1>6, <1>7, WalkIs
<1>9. FreeBlocks = Nodes(F)
  BY <1>1, <1>8 DEF FreeBlocks
<1>10. hdr.tail \in Nodes(F)
  BY <1>1 DEF Nodes
<1>11. \A x \in Nodes(F) : x \in DOMAIN G.o /\ G.o[x][1] = 1
  BY <1>1, <1>4 DEF Nodes
<1> QED BY <1>9, <1>10, <1>11

LEMMA InvDisjoint == FileInv => BlocksDisjoint
<1> SUFFICES ASSUME FileInv PROVE BlocksDisjoint
  OBVIOUS
<1>1. FileTypeOK /\ Words \in Nat
  BY KvdbFileAssumption DEF FileInv
<1> SUFFICES ASSUME put.pc \in {"idle", "find"}, hdr.backup_flag = 0
             PROVE  /\ hdr.tail \in FreeBlocks
                    /\ \A t \in Entries, u \in Entries :
                         LET of(e) == Blocks(TabAt(e).key) \cup Blocks(TabAt(e).value)
                         IN  /\ of(t) \cap FreeBlocks = {}
                             /\ t # u => of(t) \cap of(u) = {}
                             /\ Blocks(TabAt(t).key) \cap Blocks(TabAt(t).value) = {}
  BY <1>1 DEF BlocksDisjoint, OneUse
<1>2. PICK G : Quiet(G)
  BY DEF FileInv
<1> DEFINE T == G.T
           S == G.S
           o == G.o
           n == Len(T)
<1>3. hdr.tail \in FreeBlocks /\ \A x \in FreeBlocks : o[x][1] = 1
  BY <1>1, <1>2, FreeIs
<1>4. Laid(T, S, o, hdr.size) /\ hdr.size \in Nat /\ hdr.size <= Words /\ n \in Nat
  <2>1. Laid(T, S, o, hdr.size) /\ hdr.size \in Nat /\ hdr.size <= Words
    BY <1>1, <1>2 DEF Quiet, Stored, FileTypeOK
  <2>2. T \in Seq(Nat)
    BY <2>1 DEF Laid
  <2> QED BY <2>1, <2>2
<1>5. Found(T, S, G.X)
  <2>1. DOMAIN mem = 0 .. Words - 1
    BY <1>1 DEF FileTypeOK
  <2>2. \A i \in 1 .. Len(T) : TabSame(mem, T, S, i)
    BY <1>2 DEF Quiet, TabIs
  <2>3. Filed(mem, T, S, G.X)
    BY <1>2 DEF Quiet
  <2> QED BY <1>1, <1>4, <2>1, <2>2, <2>3, Reading
<1>6. ASSUME NEW c \in 2 .. 2 * n - 1
      PROVE  \A x \in Blocks(S[c][1]) : o[x][1] = c
  <2>1. Blocks(S[c][1]) = Nodes(S[c])
    BY <1>5 DEF Blocks, Found
  <2>2. S[c] \in Seq(Nat) /\ Owns(o, c, S[c], 1)
    BY <1>4 DEF Laid
  <2>3. \A i \in DOMAIN S[c] : o[S[c][i]] = <<c, i>>
    <3> DEFINE s == S[c]
    <3>1. s \in Seq(Nat) /\ \A i \in 1 .. Len(s) : o[s[i]] = <<c, i>>
      BY <2>2 DEF Owns
    <3> HIDE DEF s
    <3>2. DOMAIN s = 1 .. Len(s)
      BY <3>1
    <3>3. \A i \in DOMAIN s : o[s[i]] = <<c, i>>
      BY <3>1, <3>2
    <3> QED BY <3>3 DEF s
  <2>4. \A i \in DOMAIN S[c] : o[S[c][i]][1] = c
    BY <2>3
  <2> DEFINE s == S[c]
  <2> HIDE DEF s, o
  <2> QED BY <2>1, <2>4 DEF Nodes, s
<1>7. ASSUME NEW t \in Entries
      PROVE  \E i \in 1 .. n - 1 :
               /\ t = T[i]
               /\ \A x \in Blocks(TabAt(t).key) : o[x][1] = 2 * i
               /\ \A x \in Blocks(TabAt(t).value) : o[x][1] = 2 * i + 1
  <2>1. PICK i \in 1 .. n - 1 : t = T[i]
    BY <1>5 DEF Found
  <2>2. 2 * i \in 2 .. 2 * n - 1 /\ 2 * i + 1 \in 2 .. 2 * n - 1 /\ i \in 1 .. n /\ i # n
    BY <1>4
  <2>3. TabAt(t).key = S[2 * i][1] /\ TabAt(t).value = S[2 * i + 1][1]
    BY <2>1, <2>2, <1>2, <1>5 DEF Found, Quiet, TabIs, TabAt
  <2> HIDE DEF T, S, o, n
  <2> QED BY <2>1, <2>2, <2>3, <1>6
<1>8. ASSUME NEW t \in Entries, NEW u \in Entries
      PROVE  /\ (Blocks(TabAt(t).key) \cup Blocks(TabAt(t).value)) \cap FreeBlocks = {}
             /\ t # u => (Blocks(TabAt(t).key) \cup Blocks(TabAt(t).value))
                         \cap (Blocks(TabAt(u).key) \cup Blocks(TabAt(u).value)) = {}
             /\ Blocks(TabAt(t).key) \cap Blocks(TabAt(t).value) = {}
  <2>1. PICK i \in 1 .. n - 1 :
               /\ t = T[i]
               /\ \A x \in Blocks(TabAt(t).key) : o[x][1] = 2 * i
               /\ \A x \in Blocks(TabAt(t).value) : o[x][1] = 2 * i + 1
    BY <1>7
  <2>2. PICK j \in 1 .. n - 1 :
               /\ u = T[j]
               /\ \A x \in Blocks(TabAt(u).key) : o[x][1] = 2 * j
               /\ \A x \in Blocks(TabAt(u).value) : o[x][1] = 2 * j + 1
    BY <1>7
  <2>3. 2 * i # 1 /\ 2 * i + 1 # 1 /\ 2 * i # 2 * i + 1 /\ 2 * i # 2 * j + 1
        /\ 2 * i + 1 # 2 * j
    BY <1>4
  <2>4. i # j => 2 * i # 2 * j /\ 2 * i + 1 # 2 * j + 1
    BY <1>4
  <2>5. t # u => i # j
    BY <2>1, <2>2
  <2> DEFINE a == 2 * i
             b == 2 * i + 1
             c == 2 * j
             d == 2 * j + 1
  <2>6. /\ a # 1 /\ b # 1 /\ a # b /\ (t # u => a # c /\ a # d /\ b # c /\ b # d)
        /\ \A x \in Blocks(TabAt(t).key) : o[x][1] = a
        /\ \A x \in Blocks(TabAt(t).value) : o[x][1] = b
        /\ \A x \in Blocks(TabAt(u).key) : o[x][1] = c
        /\ \A x \in Blocks(TabAt(u).value) : o[x][1] = d
    BY <2>1, <2>2, <2>3, <2>4, <2>5
  <2> HIDE DEF a, b, c, d, o
  <2> QED BY <2>6, <1>3
<1> QED BY <1>3, <1>8

-----------------------------------------------------------------------------
(* The beginning, and steps that change little                                *)

LEMMA FileInitInv == FileInit /\ Roomy => FileInv
<1> SUFFICES ASSUME FileInit, Roomy PROVE FileInv
  OBVIOUS
<1>1. /\ mem = [i \in 0 .. Words - 1 |-> 0]
      /\ hdr = [head |-> 5, tail |-> 5, size |-> 13,
                backup_list |-> [head |-> 0, tail |-> 0, size |-> 0],
                backup_tab |-> NoTab, pos |-> 0, backup_prev |-> 0, backup_flag |-> 0]
      /\ put = Idle /\ dict = [k \in Keys |-> NULL] /\ half = {} /\ puts = 0
  BY DEF FileInit, TabLen, StringLen, BlockLen
<1>2. Words \in Nat /\ MaxPuts \in Nat /\ 13 <= Words
  BY <1>1, KvdbFileAssumption DEF Roomy
<1>3. FileTypeOK
  BY <1>1, <1>2 DEF FileTypeOK, NoTab, Tab
<1> DEFINE T == <<0>>
           F == <<5>>
           E == [c \in 2 .. 2 * Len(T) - 1 |-> <<>>]
           o == [a \in {0, 5} |-> IF a = 0 THEN <<0, 1>> ELSE <<1, 1>>]
           G == [T |-> T, F |-> F, S |-> E, X |-> E, o |-> o, p |-> 1]
<1>4. Len(T) = 1 /\ Len(F) = 1 /\ T[1] = 0 /\ F[1] = 5 /\ T \in Seq(Nat) /\ F \in Seq(Nat)
  OBVIOUS
<1>5. DOMAIN o = {0, 5} /\ o[0] = <<0, 1>> /\ o[5] = <<1, 1>>
  OBVIOUS
<1>6. Placed(o, 13)
  <2>1. Width(o[0]) = 5 /\ Width(o[5]) = 8
    BY <1>5 DEF Width, TabLen, StringLen, BlockLen
  <2>2. o = [a \in DOMAIN o |-> o[a]]
    OBVIOUS
  <2> HIDE DEF o
  <2> QED BY <1>5, <2>1, <2>2 DEF Placed
<1>7. \A c \in 2 .. 2 * Len(T) - 1 : FALSE
  BY <1>4
<1>8. Laid(T, E, o, 13)
  <2>1. E \in [2 .. 2 * Len(T) - 1 -> Seq(Nat)]
    BY <1>7
  <2>2. Owns(o, 0, T, 1)
    BY <1>4, <1>5 DEF Owns
  <2> HIDE DEF o, T, E
  <2> QED BY <1>4, <1>6, <1>7, <2>1, <2>2 DEF Laid
<1>9. Stored(G, hdr.size)
  <2>1. Owns(o, 1, F, 1)
    BY <1>4, <1>5 DEF Owns
  <2> HIDE DEF o, T, E, F
  <2> QED BY <1>1, <1>4, <1>8, <2>1 DEF Stored
<1>10. Filed(mem, T, E, E)
  <2>1. E \in [2 .. 2 * Len(T) - 1 -> Seq(Nat \ {0})]
    BY <1>7
  <2> QED BY <1>7, <2>1 DEF Filed
<1>11. Means(T, E)
  BY <1>1, <1>4 DEF Means
<1>12. \A i \in 1 .. Len(T) : TabIs(mem, T, E, i)
  <2>1. mem[0] = 0 /\ mem[0 + 1] = 0
    BY <1>1, <1>2
  <2> QED BY <2>1, <1>4 DEF TabIs, TabSame
<1>13. FreeBut(mem, F, 0)
  BY <1>4 DEF FreeBut
<1>14. Quiet(G)
  <2> HIDE DEF o, T, E, F
  <2>1. G.T = T /\ G.S = E /\ G.X = E /\ G.F = F
    OBVIOUS
  <2>2. hdr.head = 5 /\ hdr.tail = 5
    BY <1>1
  <2> HIDE DEF G
  <2> QED BY <1>4, <1>9, <1>10, <1>11, <1>12, <1>13, <2>1, <2>2 DEF Quiet
<1>15. hdr.backup_flag = 0 /\ put = [pc |-> "idle"] /\ put.pc = "idle"
  BY <1>1 DEF Idle
<1> QED BY <1>1, <1>3, <1>14, <1>15 DEF FileInv, RecoverPc, FlightPc

\* What a write does not touch: the lists, the tabs and the backup.
SameBackup ==
  /\ hdr'.backup_list = hdr.backup_list /\ hdr'.backup_tab = hdr.backup_tab
  /\ hdr'.pos = hdr.pos /\ dict' = dict

LEMMA BackedSame ==
  ASSUME NEW G, Backed(G), SameBackup, mem' = mem
  PROVE  Backed(G)'
BY DEF Backed, SameBackup, Means

LEMMA BackedElse ==
  ASSUME NEW G, Backed(G), SameBackup, NEW o, NEW size, size \in Nat, Laid(G.T, G.S, o, size),
         NEW b, Else(mem, mem', o, b),
         NoBlock(G.T, G.S, b),
         \A i \in 1 .. Len(G.T) : i # G.p => G.T[i] # b
  PROVE  Backed(G)'
<1>0. /\ Filed(mem, G.T, G.S, G.X) => Filed(mem', G.T, G.S, G.X)
      /\ TabsKept(mem, mem', G.T, G.S, b)
  BY LaidElse
<1>1. Filed(mem', G.T, G.S, G.X)
  BY <1>0 DEF Backed
<1>2. \A i \in 1 .. Len(G.T) : i # G.p => TabIs(mem', G.T, G.S, i)
  BY <1>0 DEF Backed, TabsKept
<1> QED BY <1>1, <1>2 DEF Backed, SameBackup, Means

LEMMA QuietSame ==
  ASSUME NEW G, Quiet(G), mem' = mem, dict' = dict, hdr' = hdr
  PROVE  Quiet(G)'
BY DEF Quiet, Means

LEMMA StartKeeps == FileInv /\ (\E k \in Keys, v \in Vals : Start(k, v)) => FileInv'
<1> SUFFICES ASSUME FileInv, NEW k \in Keys, NEW v \in Vals, Start(k, v) PROVE FileInv'
  OBVIOUS
<1>1. /\ put.pc = "idle" /\ puts < MaxPuts /\ puts' = puts + 1 /\ mem' = mem /\ hdr' = hdr
      /\ dict' = dict /\ half' = half /\ torn' = torn
      /\ put' = [pc |-> IF hdr.backup_flag = 1 THEN "rlist" ELSE "find",
                 key |-> k, val |-> v, head |-> hdr.head]
  BY DEF Start
<1>2. FileTypeOK' /\ hdr.head \in Nat /\ hdr.backup_flag \in {0, 1}
  <2>1. FileTypeOK /\ MaxPuts \in Nat
    BY KvdbFileAssumption DEF FileInv
  <2>2. puts' \in 0 .. MaxPuts
    <3>1. puts \in 0 .. MaxPuts
      BY <2>1 DEF FileTypeOK
    <3> QED BY <3>1, <2>1, <1>1
  <2> QED BY <2>1, <2>2, <1>1 DEF FileTypeOK
<1>3. CASE hdr.backup_flag = 0
  <2>1. PICK G : Quiet(G)
    BY <1>3 DEF FileInv
  <2>2. Quiet(G)'
    BY <1>1, <2>1, QuietSame
  <2>3. put'.pc = "find" /\ put' \in StartPut
    BY <1>1, <1>2, <1>3 DEF StartPut, RecoverPc
  <2>4. hdr'.backup_flag = 0
    BY <1>1, <1>3
  <2> QED BY <1>2, <2>2, <2>3, <2>4 DEF FileInv, RecoverPc, FlightPc
<1>4. CASE hdr.backup_flag = 1
  <2>1. PICK G : Crashed(G)
    BY <1>1, <1>4 DEF FileInv, FlightPc
  <2>2. put'.pc = "rlist" /\ put' \in StartPut /\ put'.head = hdr.head
    BY <1>1, <1>2, <1>4 DEF StartPut, RecoverPc
  <2>3. Backed(G) /\ (torn \/ Undo(G, hdr.head)) /\ Seen(G)
    BY <1>1, <2>1 DEF Crashed
  <2>4. Backed(G)'
    BY <1>1, <2>3, BackedSame DEF SameBackup
  <2>5. (torn' \/ (Undo(G, hdr.head))') /\ Seen(G)'
    BY <1>1, <2>3 DEF Undo, Seen, Shown
  <2>6. Crashed(G)'
    BY <1>1, <2>2, <2>4, <2>5 DEF Crashed, Undo
  <2>7. hdr'.backup_flag = 1
    BY <1>1, <1>4
  <2> QED BY <1>2, <2>2, <2>6, <2>7 DEF FileInv, RecoverPc, FlightPc
<1> QED BY <1>2, <1>3, <1>4

-----------------------------------------------------------------------------
(* Recovery                                                                   *)

FreeFacts(F, o, size) ==
  /\ F \in Seq(Nat) /\ Len(F) \in Nat /\ Len(F) >= 1
  /\ \A i \in 1 .. Len(F) :
       /\ F[i] \in Nat \ {0} /\ F[i] + StringLen <= size
       /\ F[i] \in DOMAIN o /\ o[F[i]] = <<1, i>> /\ Width(o[F[i]]) = 8

LEMMA FreeAt ==
  ASSUME NEW G, NEW size, size \in Nat, Stored(G, size)
  PROVE  FreeFacts(G.F, G.o, size)
<1> DEFINE F == G.F
           o == G.o
<1>1. F \in Seq(Nat) /\ Len(F) >= 1 /\ Owns(o, 1, F, 1) /\ Laid(G.T, G.S, o, size)
  BY DEF Stored
<1>2. G.T[1] = 0 /\ 1 \in 1 .. Len(G.T)
  BY <1>1 DEF Laid
<1>3. o[0] = <<0, 1>>
  BY <1>1, <1>2, LaidAt
<1>4. ASSUME NEW i \in 1 .. Len(F)
      PROVE  /\ F[i] \in Nat \ {0} /\ F[i] + StringLen <= size
             /\ F[i] \in DOMAIN o /\ o[F[i]] = <<1, i>> /\ Width(o[F[i]]) = 8
  <2>1. F[i] \in Nat /\ F[i] \in DOMAIN o /\ o[F[i]] = <<1, i>>
    BY <1>1 DEF Owns
  <2>2. Width(o[F[i]]) = 8 /\ StringLen = 8
    BY <2>1 DEF Width, StringLen, BlockLen
  <2>3. F[i] + Width(o[F[i]]) <= size
    BY <2>1, <1>1 DEF Laid, Placed
  <2>4. F[i] # 0
    BY <2>1, <1>3
  <2> QED BY <2>1, <2>2, <2>3, <2>4
<1> HIDE DEF F, o
<1>5. Len(F) \in Nat
  BY <1>1
<1> QED BY <1>1, <1>4, <1>5 DEF FreeFacts, F, o

\* A block of strings or free blocks keeps its link if that is not written.
LEMMA BlockElse ==
  ASSUME NEW m, NEW m2, NEW o, NEW b, Else(m, m2, o, b), NEW a \in DOMAIN o, a # b,
         Width(o[a]) = 8
  PROVE  m2[a + BlockLen] = m[a + BlockLen]
<1>1. 7 \in Nat /\ 7 < Width(o[a])
  OBVIOUS
<1> QED BY <1>1 DEF Else, BlockLen

LEMMA CrashedStep ==
  ASSUME FileTypeOK', put' = Idle \/ (put' \in StartPut /\ put'.pc # "find"),
         hdr'.backup_flag = 1, NEW G, Crashed(G)'
  PROVE  FileInv'
<1>1. put'.pc \in {"idle", "rlist", "rtab", "rlink", "rneg"}
  BY DEF Idle, StartPut, RecoverPc
<1>2. put'.pc = "idle" => put' = Idle
  BY DEF StartPut, RecoverPc
<1>3. put'.pc \in RecoverPc => put' \in StartPut
  BY DEF Idle, RecoverPc
<1> QED BY <1>1, <1>2, <1>3 DEF FileInv, RecoverPc, FlightPc

LEMMA CrashedHas ==
  ASSUME FileInv, put.pc \in {"rlist", "rtab", "rlink", "rneg"}
  PROVE  /\ FileTypeOK /\ Words \in Nat /\ hdr.backup_flag = 1 /\ put \in StartPut
         /\ put.head \in Nat
         /\ \E G : Crashed(G) /\ Backed(G)
BY KvdbFileAssumption DEF FileInv, Crashed, FileTypeOK, RecoverPc, FlightPc, StartPut

LEMMA RecoverListKeeps == FileInv /\ RecoverList => FileInv'
<1> SUFFICES ASSUME FileInv, RecoverList PROVE FileInv'
  OBVIOUS
<1>1. /\ put.pc = "rlist" /\ mem' = mem /\ dict' = dict /\ half' = half /\ puts' = puts
      /\ torn' = torn
      /\ hdr' = [hdr EXCEPT !.head = hdr.backup_list.head, !.tail = hdr.backup_list.tail,
                            !.size = hdr.backup_list.size]
      /\ put' = [put EXCEPT !.pc = "rtab"]
  BY DEF RecoverList
<1>2. /\ FileTypeOK /\ Words \in Nat /\ hdr.backup_flag = 1 /\ put \in StartPut
      /\ put.head \in Nat
  BY <1>1, CrashedHas
<1>3. PICK G : Crashed(G) /\ Backed(G)
  BY <1>1, CrashedHas
<1>4. hdr.backup_list.size \in Nat /\ hdr.backup_list.size <= Words
      /\ hdr.backup_list.head \in Nat \ {0} /\ hdr.backup_list.tail \in Nat \ {0}
  <2>1. hdr.backup_list.size \in Nat /\ hdr.backup_list.size <= Words
    BY <1>2, <1>3 DEF Backed, FileTypeOK
  <2>2. FreeFacts(G.F, G.o, hdr.backup_list.size)
    BY <2>1, <1>3, FreeAt DEF Backed
  <2>3. hdr.backup_list.head = G.F[1] /\ hdr.backup_list.tail = G.F[Len(G.F)]
    BY <1>3 DEF Backed
  <2>4. 1 \in 1 .. Len(G.F) /\ Len(G.F) \in 1 .. Len(G.F)
    BY <2>2 DEF FreeFacts
  <2> QED BY <2>1, <2>2, <2>3, <2>4 DEF FreeFacts
<1>5. FileTypeOK' /\ hdr'.backup_flag = 1
  <2>1. hdr.backup_list.size \in 0 .. Words
    BY <1>2, <1>4
  <2> QED BY <1>1, <1>2, <1>4, <2>1 DEF FileTypeOK
<1>6. SameBackup /\ hdr'.backup_prev = hdr.backup_prev /\ ListBack'
  BY <1>1, <1>2 DEF FileTypeOK, SameBackup, ListBack
<1>7. put' \in StartPut /\ put'.pc = "rtab" /\ put'.head = put.head
  BY <1>1, <1>2 DEF StartPut, RecoverPc
<1>8. Backed(G)'
  BY <1>1, <1>3, <1>6, BackedSame
<1>9. (torn \/ Undo(G, put.head)) /\ Seen(G)
  BY <1>1, <1>3 DEF Crashed
<1>10. (torn' \/ (Undo(G, put.head))') /\ Seen(G)'
  <2>1. torn' \/ (Undo(G, put.head))'
    BY <1>1, <1>6, <1>7, <1>9 DEF Undo
  <2>2. Shown(G) => Shown(G)'
    BY <1>1 DEF Shown
  <2>3. Seen(G)'
    BY <1>1, <1>9, <2>2 DEF Seen
  <2> QED BY <2>1, <2>3
<1>11. Crashed(G)'
  BY <1>6, <1>7, <1>8, <1>10 DEF Crashed
<1> QED BY <1>5, <1>7, <1>11, CrashedStep

LEMMA RecoverTabKeeps == FileInv /\ RecoverTab => FileInv'
<1> SUFFICES ASSUME FileInv, RecoverTab PROVE FileInv'
  OBVIOUS
<1>1. /\ put.pc = "rtab" /\ hdr' = hdr /\ dict' = dict /\ half' = half /\ puts' = puts
      /\ torn' = torn
      /\ mem' = Written(hdr.pos, TabWords(hdr.backup_tab))
      /\ put' = [put EXCEPT !.pc = "rlink"]
  BY DEF RecoverTab
<1>2. /\ FileTypeOK /\ Words \in Nat /\ hdr.backup_flag = 1 /\ put \in StartPut
      /\ put.head \in Nat
  BY <1>1, CrashedHas
<1>3. PICK G : Crashed(G) /\ Backed(G)
  BY <1>1, CrashedHas
<1> DEFINE size == hdr.backup_list.size
           b == hdr.pos
           ws == TabWords(hdr.backup_tab)
           F == G.F
           o == G.o
<1>4. Laid(G.T, G.S, o, size) /\ size \in Nat /\ size <= Words /\ Stored(G, size)
      /\ Placed(o, size)
  BY <1>2, <1>3 DEF Backed, Stored, FileTypeOK, Laid
<1>5. b \in DOMAIN o /\ o[b] = <<0, G.p>> /\ Width(o[b]) = 5 /\ G.p \in 1 .. Len(G.T)
      /\ G.T[G.p] = b
  <2>1. G.p \in 1 .. Len(G.T) /\ b = G.T[G.p]
    BY <1>3 DEF Backed
  <2>2. b \in DOMAIN o /\ o[b] = <<0, G.p>>
    BY <2>1, <1>4, LaidAt
  <2> QED BY <2>1, <2>2 DEF Width, TabLen
<1>6. ws \in Seq(Nat) /\ Len(ws) = 5 /\ ws[1] = hdr.backup_tab.next /\ ws[2] = hdr.backup_tab.key
      /\ ws[4] = hdr.backup_tab.value
  <2>1. hdr.backup_tab \in Tab
    BY <1>2 DEF FileTypeOK
  <2>2. PICK t : t = hdr.backup_tab
    OBVIOUS
  <2>3. /\ t.next \in Nat /\ t.key \in Nat /\ t.key_len \in Nat
        /\ t.value \in Nat /\ t.value_len \in Nat
    BY <2>1, <2>2 DEF Tab
  <2> QED BY <2>2, <2>3 DEF TabWords
<1>7. Wrote(mem, mem', o, b, 0, ws)
  <2>1. 0 + Len(ws) <= Width(o[b]) /\ 0 \in Nat /\ b = b + 0
    BY <1>5, <1>6, <1>4 DEF Placed
  <2>2. mem' = Written(b, ws)
    BY <1>1
  <2>3. mem \in [0 .. Words - 1 -> Nat]
    BY <1>2 DEF FileTypeOK
  <2> HIDE DEF b, ws, o, size
  <2> QED BY <2>1, <2>2, <2>3, <1>2, <1>4, <1>5, <1>6, WriteAt
<1>8. HasTab(mem', b, ws)
  <2>1. b \in Nat
    BY <1>4, <1>5 DEF Placed
  <2> HIDE DEF b, ws, o, size
  <2> QED BY <2>1, <1>5, <1>6, <1>7, WroteTab
<1>9. NoBlock(G.T, G.S, b)
  <2> SUFFICES ASSUME NEW c \in 2 .. 2 * Len(G.T) - 1, NEW i \in 1 .. Len(G.S[c])
               PROVE  G.S[c][i] # b
    BY DEF NoBlock
  <2>1. o[G.S[c][i]] = <<c, i>>
    BY <1>4, LaidAt
  <2> QED BY <2>1, <1>5
<1>10. \A i \in 1 .. Len(G.T) : i # G.p => G.T[i] # b
  <2>1. \A i \in 1 .. Len(G.T) : o[G.T[i]] = <<0, i>>
    BY <1>4, LaidAt
  <2> QED BY <2>1, <1>5
<1>11. SameBackup
  BY <1>1 DEF SameBackup
<1>12. Backed(G)'
  <2> HIDE DEF b, o, size
  <2>1. Else(mem, mem', o, b)
    BY <1>7 DEF Wrote
  <2> QED BY <1>3, <1>4, <2>1, <1>9, <1>10, <1>11, BackedElse
<1>13. TabIs(mem', G.T, G.S, G.p)
  BY <1>3, <1>5, <1>6, <1>8 DEF TabIs, TabSame, Backed, HasTab
<1>14. FreeFacts(F, o, size)
  BY <1>4, FreeAt
<1>15. \A x : FreeBut(mem, F, x) => FreeBut(mem', F, x)
  <2> SUFFICES ASSUME NEW i \in 1 .. Len(F) - 1
               PROVE  mem'[F[i] + BlockLen] = mem[F[i] + BlockLen]
    BY DEF FreeBut
  <2>1. F[i] \in DOMAIN o /\ o[F[i]] = <<1, i>> /\ Width(o[F[i]]) = 8
    BY <1>14 DEF FreeFacts
  <2>2. F[i] # b
    BY <2>1, <1>5
  <2>3. Else(mem, mem', o, b)
    BY <1>7 DEF Wrote
  <2> HIDE DEF F, o, b
  <2> QED BY <2>1, <2>2, <2>3, BlockElse
<1>16. ListBack' /\ (torn' \/ (Undo(G, put.head))')
  BY <1>1, <1>3, <1>15, <1>2 DEF Crashed, ListBack, Undo, StartPut
<1>17. FileTypeOK' /\ hdr'.backup_flag = 1
  BY <1>1, <1>2, <1>7 DEF FileTypeOK, Wrote
<1>18. put' \in StartPut /\ put'.pc = "rlink" /\ put'.head = put.head
  BY <1>1, <1>2 DEF StartPut, RecoverPc
<1>19. Crashed(G)'
  BY <1>12, <1>13, <1>16, <1>18 DEF Crashed
<1> QED BY <1>17, <1>18, <1>19, CrashedStep

LEMMA RecoverLinkKeeps == FileInv /\ ~torn /\ RecoverLink => FileInv'
<1> SUFFICES ASSUME FileInv, ~torn, RecoverLink PROVE FileInv'
  OBVIOUS
<1>1. /\ put.pc = "rlink" /\ hdr' = hdr /\ dict' = dict /\ half' = half /\ puts' = puts
      /\ mem' = Written(hdr.backup_prev + BlockLen, <<put.head>>)
      /\ put' = [put EXCEPT !.pc = "rneg"]
  BY DEF RecoverLink
<1>2. /\ FileTypeOK /\ Words \in Nat /\ hdr.backup_flag = 1 /\ put \in StartPut
      /\ put.head \in Nat
  BY <1>1, CrashedHas
<1>3. PICK G : Crashed(G) /\ Backed(G)
  BY <1>1, CrashedHas
<1> DEFINE size == hdr.backup_list.size
           F == G.F
           o == G.o
<1>4. Laid(G.T, G.S, o, size) /\ size \in Nat /\ size <= Words /\ Stored(G, size)
      /\ Placed(o, size)
  BY <1>2, <1>3 DEF Backed, Stored, FileTypeOK, Laid
<1>5. FreeFacts(F, o, size)
  BY <1>4, FreeAt
<1>6. ListBack /\ Undo(G, put.head) /\ TabIs(mem, G.T, G.S, G.p)
  BY <1>1, <1>3 DEF Crashed
\* the free block it writes into
<1>7. \E b \in DOMAIN o, d \in {2, 7} : \E i \in 1 .. Len(F) :
        /\ b = F[i] /\ hdr.backup_prev + BlockLen = b + d
        /\ d = 2 => FreeBut(mem, F, 0)
        /\ d = 7 => i < Len(F) /\ put.head = F[i + 1] /\ FreeBut(mem, F, i)
  <2>0. 1 \in 1 .. Len(F) /\ \A i \in 1 .. Len(F) : F[i] \in DOMAIN o
    BY <1>5 DEF FreeFacts
  <2>1. CASE hdr.backup_prev = 0 /\ F[1] = TabLen /\ FreeBut(mem, F, 0)
    <3>1. F[1] \in DOMAIN o /\ hdr.backup_prev + BlockLen = F[1] + 2
      BY <2>0, <2>1 DEF BlockLen, TabLen
    <3> QED BY <2>0, <2>1, <3>1
  <2>2. CASE \E i \in 1 .. Len(F) - 1 :
               hdr.backup_prev = F[i] /\ put.head = F[i + 1] /\ FreeBut(mem, F, i)
    <3>1. PICK i \in 1 .. Len(F) - 1 :
               hdr.backup_prev = F[i] /\ put.head = F[i + 1] /\ FreeBut(mem, F, i)
      BY <2>2
    <3>2. i \in 1 .. Len(F) /\ i < Len(F)
      BY <1>5 DEF FreeFacts
    <3>3. F[i] \in DOMAIN o /\ hdr.backup_prev + BlockLen = F[i] + 7
      BY <2>0, <3>1, <3>2 DEF BlockLen
    <3> QED BY <3>1, <3>2, <3>3
  <2> QED BY <2>1, <2>2, <1>6 DEF Undo
<1>8. PICK b \in DOMAIN o, d \in {2, 7} : \E i \in 1 .. Len(F) :
        /\ b = F[i] /\ hdr.backup_prev + BlockLen = b + d
        /\ d = 2 => FreeBut(mem, F, 0)
        /\ d = 7 => i < Len(F) /\ put.head = F[i + 1] /\ FreeBut(mem, F, i)
  BY <1>7
<1>9. PICK i \in 1 .. Len(F) :
        /\ b = F[i] /\ hdr.backup_prev + BlockLen = b + d
        /\ d = 2 => FreeBut(mem, F, 0)
        /\ d = 7 => i < Len(F) /\ put.head = F[i + 1] /\ FreeBut(mem, F, i)
  BY <1>8
<1>10. b \in Nat /\ o[b] = <<1, i>> /\ Width(o[b]) = 8
  BY <1>5, <1>9 DEF FreeFacts
<1> DEFINE x == put.head
<1>11. Wrote(mem, mem', o, b, d, <<x>>)
  <2>1. d + Len(<<x>>) <= Width(o[b]) /\ d \in Nat /\ <<x>> \in Seq(Nat)
    BY <1>2, <1>10
  <2>2. mem' = Written(hdr.backup_prev + BlockLen, <<x>>)
    BY <1>1
  <2>3. mem \in [0 .. Words - 1 -> Nat]
    BY <1>2 DEF FileTypeOK
  <2> HIDE DEF x, o, size
  <2> QED BY <2>1, <2>2, <2>3, <1>2, <1>4, <1>9, WriteAt
<1>12. HasWord(mem, mem', o, b, d, x)
  <2>1. d \in Nat /\ d < Width(o[b]) /\ x \in Nat
    BY <1>2, <1>10
  <2> HIDE DEF x, o
  <2> QED BY <2>1, <1>10, <1>11, WroteWord
<1>13. Else(mem, mem', o, b)
  BY <1>11 DEF Wrote
<1>14. FreeBut(mem', F, 0)
  <2> SUFFICES ASSUME NEW j \in 1 .. Len(F) - 1 PROVE mem'[F[j] + BlockLen] = F[j + 1]
    BY DEF FreeBut
  <2>1. j \in 1 .. Len(F) /\ F[j] \in DOMAIN o /\ o[F[j]] = <<1, j>> /\ Width(o[F[j]]) = 8
    BY <1>5 DEF FreeFacts
  <2>2. CASE j # i
    <3>1. F[j] # b
      BY <2>1, <2>2, <1>10
    <3>2. mem'[F[j] + BlockLen] = mem[F[j] + BlockLen]
      <4> HIDE DEF F, o
      <4> QED BY <2>1, <3>1, <1>13, BlockElse
    <3>3. mem[F[j] + BlockLen] = F[j + 1]
      BY <1>9, <2>2 DEF FreeBut
    <3> QED BY <3>2, <3>3
  <2>3. CASE j = i /\ d = 7
    BY <2>3, <1>9, <1>12 DEF HasWord, BlockLen
  <2>4. CASE j = i /\ d = 2
    <3>1. 7 \in Nat /\ 7 < Width(o[b]) /\ 7 # d
      BY <2>4, <1>10
    <3>2. mem'[b + 7] = mem[b + 7]
      BY <3>1, <1>12 DEF HasWord
    <3>3. mem[F[j] + BlockLen] = F[j + 1]
      BY <1>9, <2>4 DEF FreeBut
    <3> QED BY <3>2, <3>3, <2>4, <1>9 DEF BlockLen
  <2> QED BY <2>2, <2>3, <2>4
<1>15. NoBlock(G.T, G.S, b) /\ \A j \in 1 .. Len(G.T) : G.T[j] # b
  <2>1. \A j \in 1 .. Len(G.T) : o[G.T[j]] = <<0, j>>
    <3>1. Owns(o, 0, G.T, 1)
      BY <1>4 DEF Laid
    <3> QED BY <3>1 DEF Owns
  <2>2. ASSUME NEW c \in 2 .. 2 * Len(G.T) - 1, NEW j \in 1 .. Len(G.S[c]) PROVE G.S[c][j] # b
    <3>0. PICK a : a = G.S[c][j]
      OBVIOUS
    <3>3. Owns(o, c, G.S[c], 1)
      BY <1>4 DEF Laid
    <3>1. o[a] = <<c, j>>
      BY <3>0, <3>3 DEF Owns
    <3>2. c # 1
      OBVIOUS
    <3> QED BY <3>0, <3>1, <3>2, <1>10
  <2> QED BY <2>1, <2>2, <1>10 DEF NoBlock
<1>16. SameBackup
  BY <1>1 DEF SameBackup
<1>17. Backed(G)'
  <2> HIDE DEF o, size
  <2> QED BY <1>3, <1>4, <1>13, <1>15, <1>16, BackedElse
<1>18. TabIs(mem', G.T, G.S, G.p)
  <2>1. TabsKept(mem, mem', G.T, G.S, b)
    <3> HIDE DEF o, size
    <3> QED BY <1>4, <1>13, <1>15, LaidElse
  <2>2. G.p \in 1 .. Len(G.T)
    BY <1>3 DEF Backed
  <2> QED BY <2>1, <2>2, <1>6, <1>15 DEF TabsKept
<1>19. ListBack'
  BY <1>1, <1>6 DEF ListBack
<1>20. FileTypeOK' /\ hdr'.backup_flag = 1
  BY <1>1, <1>2, <1>11 DEF FileTypeOK, Wrote
<1>21. put' \in StartPut /\ put'.pc = "rneg"
  BY <1>1, <1>2 DEF StartPut, RecoverPc
<1>22. Crashed(G)'
  BY <1>14, <1>17, <1>18, <1>19, <1>21 DEF Crashed
<1> QED BY <1>20, <1>21, <1>22, CrashedStep

LEMMA QuietStep ==
  ASSUME FileTypeOK', put' = Idle \/ (put' \in StartPut /\ put'.pc = "find"),
         hdr'.backup_flag = 0, NEW G, Quiet(G)'
  PROVE  FileInv'
<1>1. put'.pc \in {"idle", "find"}
  BY DEF Idle, StartPut, RecoverPc
<1>2. put'.pc = "idle" => put' = Idle
  BY DEF StartPut, RecoverPc
<1>3. put'.pc \in RecoverPc => put' \in StartPut
  BY DEF Idle, RecoverPc
<1> QED BY <1>1, <1>2, <1>3 DEF FileInv, RecoverPc, FlightPc

LEMMA RecoverNegKeeps == FileInv /\ RecoverNeg => FileInv'
<1> SUFFICES ASSUME FileInv, RecoverNeg PROVE FileInv'
  OBVIOUS
<1>1. /\ put.pc = "rneg" /\ mem' = mem /\ dict' = dict /\ half' = {} /\ puts' = puts
      /\ hdr' = [hdr EXCEPT !.backup_flag = 0]
      /\ put' = [put EXCEPT !.pc = "find"]
  BY DEF RecoverNeg
<1>2. /\ FileTypeOK /\ hdr.backup_flag = 1 /\ put \in StartPut
  BY <1>1, CrashedHas
<1>3. PICK G : Crashed(G) /\ Backed(G)
  BY <1>1, CrashedHas
<1>4. ListBack /\ FreeBut(mem, G.F, 0) /\ TabIs(mem, G.T, G.S, G.p)
  BY <1>1, <1>3 DEF Crashed
<1>5. FileTypeOK'
  BY <1>1, <1>2 DEF FileTypeOK
<1>6. hdr'.size = hdr.size /\ hdr'.head = hdr.head /\ hdr'.tail = hdr.tail /\ hdr'.backup_flag = 0
  BY <1>1, <1>2 DEF FileTypeOK
<1>7. Stored(G, hdr.size) /\ Filed(mem, G.T, G.S, G.X) /\ Means(G.T, G.X)
      /\ hdr.head = G.F[1] /\ hdr.tail = G.F[Len(G.F)]
  BY <1>3, <1>4 DEF Backed, ListBack
<1>8. \A i \in 1 .. Len(G.T) : TabIs(mem, G.T, G.S, i)
  BY <1>3, <1>4 DEF Backed
<1>9. Quiet(G)'
  BY <1>1, <1>4, <1>6, <1>7, <1>8 DEF Quiet, Means
<1>10. put' \in StartPut /\ put'.pc = "find"
  BY <1>1, <1>2 DEF StartPut, RecoverPc
<1> QED BY <1>5, <1>6, <1>9, <1>10, QuietStep

-----------------------------------------------------------------------------
(* A put after its backup                                                     *)

LEMMA FlightStep ==
  ASSUME FileTypeOK', hdr'.backup_flag = 1, NEW G, NEW Z, Flight(G, Z)'
  PROVE  FileInv'
<1>1. put'.pc \in FlightPc
  BY DEF Flight, Job, FlightPut
<1> HIDE DEF Flight
<1> QED BY <1>1 DEF FileInv, RecoverPc, FlightPc

LEMMA FlightHas ==
  ASSUME FileInv, put.pc \in FlightPc
  PROVE  /\ FileTypeOK /\ Words \in Nat /\ hdr.backup_flag = 1
         /\ \E G, Z : Flight(G, Z)
BY KvdbFileAssumption DEF FileInv

\* Where things are in the file of a put on its way.
FlightFacts(G, Z) ==
  /\ hdr.size \in Nat /\ hdr.size <= Words /\ mem \in [0 .. Words - 1 -> Nat]
  /\ put \in FlightPut
  /\ Laid(G.T, G.S, Z.o, hdr.size) /\ Placed(Z.o, hdr.size)
  /\ Len(G.T) \in Nat /\ Len(G.T) >= 1 /\ G.p \in 1 .. Len(G.T)
  /\ \A a \in DOMAIN Z.o : a \in Nat /\ a < hdr.size
  /\ G.F \in Seq(Nat) /\ Len(G.F) \in Nat /\ Len(G.F) >= 1
  /\ \A i \in 1 .. Len(G.F) :
       G.F[i] \in Nat \ {0} /\ G.F[i] \in DOMAIN Z.o /\ Width(Z.o[G.F[i]]) = 8
  /\ \A i, j \in 1 .. Len(G.F) : G.F[i] = G.F[j] => i = j
  /\ Z.k \in Nat /\ Z.k < Len(G.F)
  /\ \A i \in Z.k + 1 .. Len(G.F) : Z.o[G.F[i]] = <<1, i>>
  /\ Z.V \in Seq(Nat) /\ Z.K \in Seq(Nat)
  /\ \A i \in 1 .. Len(Z.V) : Z.V[i] \in DOMAIN Z.o /\ Z.o[Z.V[i]] = <<-1, i>>
  /\ \A i \in 1 .. Len(Z.K) : Z.K[i] \in DOMAIN Z.o /\ Z.o[Z.K[i]] = <<-2, i>>

LEMMA FlightHasFacts ==
  ASSUME FileTypeOK, NEW G, NEW Z, Flight(G, Z)
  PROVE  FlightFacts(G, Z)
<1>1. hdr.size \in Nat /\ hdr.size <= Words /\ mem \in [0 .. Words - 1 -> Nat]
      /\ hdr.backup_list.size \in Nat
  BY DEF FileTypeOK
<1>2. Backed(G) /\ Job(G) /\ Space(G, Z, hdr.size)
  BY DEF Flight
<1>3. Laid(G.T, G.S, Z.o, hdr.size) /\ Placed(Z.o, hdr.size) /\ Extends(Z.o, G.o)
  BY <1>2 DEF Space, Laid
<1>4. Len(G.T) \in Nat /\ Len(G.T) >= 1 /\ G.p \in 1 .. Len(G.T)
  <2>1. G.T \in Seq(Nat) /\ Len(G.T) >= 1
    BY <1>3 DEF Laid
  <2> QED BY <2>1, <1>2 DEF Backed
<1>5. FreeFacts(G.F, G.o, hdr.backup_list.size)
  BY <1>1, <1>2, FreeAt DEF Backed
<1>6. ASSUME NEW a \in DOMAIN Z.o PROVE a \in Nat /\ a < hdr.size
  <2>1. a \in Nat /\ a + Width(Z.o[a]) <= hdr.size
    BY <1>3 DEF Placed
  <2>2. Width(Z.o[a]) = 5 \/ Width(Z.o[a]) = 8
    BY DEF Width, TabLen, StringLen, BlockLen
  <2> QED BY <2>1, <2>2, <1>1
<1>7. ASSUME NEW i \in 1 .. Len(G.F)
      PROVE  G.F[i] \in Nat \ {0} /\ G.F[i] \in DOMAIN Z.o /\ Width(Z.o[G.F[i]]) = 8
  <2>1. G.F[i] \in Nat \ {0} /\ G.F[i] \in DOMAIN G.o /\ Width(G.o[G.F[i]]) = 8
    BY <1>5 DEF FreeFacts
  <2> QED BY <2>1, <1>3 DEF Extends
<1>8. ASSUME NEW i \in 1 .. Len(G.F), NEW j \in 1 .. Len(G.F), G.F[i] = G.F[j] PROVE i = j
  BY <1>5, <1>8 DEF FreeFacts
<1>9. G.F \in Seq(Nat) /\ Len(G.F) \in Nat /\ Len(G.F) >= 1
  BY <1>5 DEF FreeFacts
<1>10. Z.k \in Nat /\ Z.k < Len(G.F)
  BY <1>2, <1>9 DEF Space
<1>11. \A i \in Z.k + 1 .. Len(G.F) : Z.o[G.F[i]] = <<1, i>>
  BY <1>2 DEF Space, Owns
<1>12. Z.V \in Seq(Nat) /\ Z.K \in Seq(Nat)
  BY <1>2 DEF Space
<1>13. \A i \in 1 .. Len(Z.V) : Z.V[i] \in DOMAIN Z.o /\ Z.o[Z.V[i]] = <<-1, i>>
  BY <1>2 DEF Space, Owns
<1>14. \A i \in 1 .. Len(Z.K) : Z.K[i] \in DOMAIN Z.o /\ Z.o[Z.K[i]] = <<-2, i>>
  BY <1>2 DEF Space, Owns
<1>15. put \in FlightPut
  BY <1>2 DEF Job
<1> QED BY <1>1, <1>3, <1>4, <1>6, <1>7, <1>8, <1>9, <1>10, <1>11, <1>12, <1>13, <1>14, <1>15
        DEF FlightFacts

LEMMA FindKeeps == FileInv /\ Find => FileInv'
<1> SUFFICES ASSUME FileInv, Find PROVE FileInv'
  OBVIOUS
<1>1. put.pc = "find" /\ hdr.backup_flag = 0 /\ FileTypeOK /\ Words \in Nat
      /\ put.key \in Keys /\ put.val \in Vals
  BY KvdbFileAssumption DEF Find, FileInv, FileTypeOK, RecoverPc, StartPut
<1>2. PICK G : Quiet(G)
  BY <1>1 DEF FileInv
<1> DEFINE T == G.T
           S == G.S
           X == G.X
           o == G.o
           F == G.F
           n == Len(T)
           key == put.key
           found == EntryOf(key)
           off == IF found = {} THEN LastTab ELSE CHOOSE t \in found : TRUE
<1>3. Laid(T, S, o, hdr.size) /\ hdr.size \in Nat /\ hdr.size <= Words /\ Stored(G, hdr.size)
      /\ Filed(mem, T, S, X) /\ Means(T, X) /\ FreeBut(mem, F, 0)
      /\ hdr.head = F[1] /\ hdr.tail = F[Len(F)]
      /\ \A i \in 1 .. n : TabIs(mem, T, S, i)
  BY <1>1, <1>2 DEF Quiet, Stored, FileTypeOK
<1>4. T \in Seq(Nat) /\ n \in Nat /\ n >= 1
  <2>1. T \in Seq(Nat) /\ n >= 1
    BY <1>3 DEF Laid
  <2> QED BY <2>1
<1>5. Found(T, S, X)
  <2>1. DOMAIN mem = 0 .. Words - 1
    BY <1>1 DEF FileTypeOK
  <2>2. \A i \in 1 .. Len(T) : TabSame(mem, T, S, i)
    BY <1>3 DEF TabIs
  <2> QED BY <1>1, <1>3, <2>1, <2>2, Reading
<1>6. KeysAt(T, X)
  <2>1. OneEach(T, X)
    BY <1>3 DEF OneEach, Means
  <2> QED BY <2>1, <1>4, <1>5, KeysFound
<1>7. \E q \in 1 .. n :
        /\ off = T[q] /\ (found = {} <=> q = n)
        /\ q = n => Unlisted(T, X, key)
        /\ q # n => X[2 * q] = key
  <2>1. CASE Unlisted(T, X, key)
    <3>1. found = {} /\ off = T[n] /\ n \in 1 .. n
      BY <2>1, <1>4, <1>5, <1>6 DEF KeysAt, Found
    <3> QED BY <3>1, <2>1
  <2>2. CASE ~Unlisted(T, X, key)
    <3>1. PICK q \in 1 .. n - 1 : X[2 * q] = key
      BY <2>2 DEF Unlisted
    <3>2. found = {T[q]}
      BY <3>1, <1>6 DEF KeysAt
    <3>3. off = T[q] /\ found # {}
      BY <3>2
    <3>4. q \in 1 .. n /\ q # n
      BY <1>4
    <3> HIDE DEF found, off, n
    <3> QED BY <3>1, <3>3, <3>4
  <2> QED BY <2>1, <2>2
<1>8. PICK q \in 1 .. n :
        /\ off = T[q] /\ (found = {} <=> q = n)
        /\ q = n => Unlisted(T, X, key)
        /\ q # n => X[2 * q] = key
  BY <1>7
<1> DEFINE insert == (found = {})
<1>9. /\ hdr' = [hdr EXCEPT
                  !.backup_list = [head |-> hdr.head, tail |-> hdr.tail, size |-> hdr.size],
                  !.backup_tab = TabAt(off), !.pos = off, !.backup_prev = 0, !.backup_flag = 1]
      /\ put' = [pc |-> "alloc", key |-> put.key, val |-> put.val,
                    insert |-> insert, cur_off |-> off, cur_tab |-> TabAt(off),
                    old |-> TabAt(off).value,
                    what |-> "value", src |-> put.val, ret |-> 0,
                    flag |-> FALSE, prev |-> 0, cur |-> 0, tail |-> 0]
      /\ mem' = mem /\ dict' = dict /\ half' = half /\ puts' = puts
  BY DEF Find, start_backup
<1> DEFINE H == [T |-> T, F |-> F, S |-> S, X |-> X, o |-> o, p |-> q]
           Z == [o |-> o, k |-> 0, h |-> 1, V |-> <<>>, K |-> <<>>]
           tab == TabAt(off)
<1>10. tab \in Tab /\ off \in Nat /\ tab.next = mem[off] /\ tab.key = mem[off + 1]
       /\ tab.value = mem[off + 3]
  <2>1. off \in Nat /\ off + TabLen <= hdr.size
    BY <1>3, <1>8, LaidAt
  <2>2. off + 4 < Words
    BY <2>1, <1>3, <1>1 DEF TabLen
  <2>3. /\ off \in 0 .. Words - 1 /\ off + 1 \in 0 .. Words - 1 /\ off + 2 \in 0 .. Words - 1
        /\ off + 3 \in 0 .. Words - 1 /\ off + 4 \in 0 .. Words - 1
    <3> HIDE DEF off
    <3> QED BY <2>1, <2>2, <1>1
  <2>4. mem \in [0 .. Words - 1 -> Nat]
    BY <1>1 DEF FileTypeOK
  <2> HIDE DEF off
  <2> QED BY <2>1, <2>3, <2>4 DEF TabAt, Tab
<1>11. /\ hdr'.backup_list = [head |-> hdr.head, tail |-> hdr.tail, size |-> hdr.size]
       /\ hdr'.backup_tab = tab /\ hdr'.pos = off /\ hdr'.backup_prev = 0
       /\ hdr'.backup_flag = 1 /\ hdr'.head = hdr.head /\ hdr'.tail = hdr.tail
       /\ hdr'.size = hdr.size
  <2> HIDE DEF off
  <2> QED BY <1>1, <1>9 DEF FileTypeOK
<1>12. FileTypeOK'
  <2> HIDE DEF off, tab
  <2>1. hdr.head \in Nat /\ hdr.tail \in Nat /\ hdr.size \in Nat
    BY <1>1 DEF FileTypeOK
  <2>2. [head |-> hdr.head, tail |-> hdr.tail, size |-> hdr.size]
          \in [head : Nat, tail : Nat, size : Nat]
    BY <2>1
  <2>3. hdr' \in [head : Nat \ {0}, tail : Nat \ {0}, size : 0 .. Words,
              backup_list : [head : Nat, tail : Nat, size : Nat],
              backup_tab : Tab, pos : Nat, backup_prev : Nat, backup_flag : {0, 1}]
    BY <1>1, <1>9, <1>10, <2>2 DEF FileTypeOK, tab
  <2> QED BY <1>1, <1>9, <2>3 DEF FileTypeOK
<1>13. /\ H.T = T /\ H.F = F /\ H.S = S /\ H.X = X /\ H.o = o /\ H.p = q
       /\ Z.o = o /\ Z.k = 0 /\ Z.h = 1 /\ Z.V = <<>> /\ Z.K = <<>>
  OBVIOUS
<1>14. TabIs(mem, T, S, q)
  BY <1>3
<1> HIDE DEF H, Z, T, F, S, X, o, off, found, key, n
<1>15. Backed(H)'
  <2>1. Stored(H, hdr.size)
    BY <1>3, <1>13 DEF Stored, T, F, S, o
  <2>2. IF q = n THEN tab.next = 0 /\ tab.key = 0
        ELSE /\ tab.next = T[q + 1] /\ tab.key = S[2 * q][1]
             /\ tab.value = S[2 * q + 1][1]
    BY <1>8, <1>10, <1>14 DEF TabIs, TabSame, n
  <2>3. hdr'.backup_list.size = hdr.size /\ hdr'.backup_list.head = F[1]
        /\ hdr'.backup_list.tail = F[Len(F)]
    BY <1>3, <1>11
  <2>4. (Means(T, X))'
    BY <1>3, <1>9 DEF Means
  <2> HIDE DEF tab
  <2> QED BY <2>1, <2>2, <2>3, <2>4, <1>3, <1>8, <1>9, <1>11, <1>13 DEF Backed, n
<1>16. Job(H)'
  <2>1. put.val \in Seq(Nat)
    BY <1>1, KvdbFileAssumption
  <2>2. put' \in FlightPut
    BY <1>1, <1>9, <1>10, <2>1 DEF FlightPut, FlightPc, Tab
  <2>3. put'.insert = (q = n) /\ put'.cur_off = T[q] /\ put'.what = "value" /\ put'.key = key
        /\ put'.old = tab.value /\ put'.cur_tab = tab
    BY <1>8, <1>9 DEF key
  <2>4. q = n => \A i \in 1 .. n - 1 : X[2 * i] # key
    BY <1>8 DEF Unlisted, n
  <2>5. q # n => /\ X[2 * q] = key /\ tab.value = S[2 * q + 1][1]
                 /\ tab.next = T[q + 1] /\ tab.key = S[2 * q][1]
    BY <1>8, <1>10, <1>14 DEF TabIs, TabSame, n
  <2> HIDE DEF tab
  <2> QED BY <2>2, <2>3, <2>4, <2>5, <1>13 DEF Job, n
<1>17. Space(H, Z, hdr.size)
  <2>1. Owns(o, 1, F, 1) /\ Len(F) >= 1 /\ F \in Seq(Nat)
    BY <1>3 DEF Stored, o, F
  <2>2. Owns(o, -1, <<>>, 1) /\ Owns(o, -2, <<>>, 1)
    BY DEF Owns
  <2>3. Extends(o, o)
    BY DEF Extends
  <2>4. 0 \in 0 .. Len(F) - 1 /\ 0 + 1 = 1
    BY <2>1
  <2> QED BY <2>1, <2>2, <2>3, <2>4, <1>3, <1>13 DEF Space
<1>18. Ahead(mem, H, Z)
  <2>1. \A i \in 0 + 1 .. Len(F) - 1 : mem[F[i] + BlockLen] = F[i + 1]
    BY <1>3 DEF FreeBut
  <2> QED BY <2>1, <1>13 DEF Ahead
<1>19. put'.pc = "alloc" /\ put'.what = "value" /\ put'.src = put'.val
  BY <1>9
<1>20. HeadAt(H, Z)'
  <2>1. 1 \in 1 .. 0 + 1 /\ 1 = 0 + 1
    OBVIOUS
  <2> QED BY <2>1, <1>3, <1>11, <1>13, <1>19 DEF HeadAt
<1>21. Undoable(H, Z)'
  BY <1>3, <1>9, <1>11, <1>13 DEF Undoable
<1>22. Unseen(H)'
  BY <1>9, <1>13, <1>14 DEF Unseen, TabIs
<1>23. At(H, Z)'
  BY <1>13, <1>19 DEF At, Chain, Goal
<1>24. Flight(H, Z)'
  BY <1>9, <1>11, <1>15, <1>16, <1>17, <1>18, <1>20, <1>21, <1>22, <1>23 DEF Flight, Space, Ahead
<1> QED BY <1>11, <1>12, <1>24, FlightStep

-----------------------------------------------------------------------------
(* Taking blocks                                                              *)

\* The map with the region at b named w.
Renamed(o, b, w) == [a \in DOMAIN o \cup {b} |-> IF a = b THEN w ELSE o[a]]

\* What may get a new name: the end of the file, a block taken before and not
\* used, and the next free block.
Spot(G, Z, size, b, w, k2, size2) ==
  \/ b = size /\ size2 = size + Width(w) /\ k2 = Z.k
  \/ b \in DOMAIN Z.o /\ Z.o[b] = <<-3, 0>> /\ Width(w) = 8 /\ size2 = size /\ k2 = Z.k
  \/ Z.k + 1 < Len(G.F) /\ b = G.F[Z.k + 1] /\ Width(w) = 8 /\ size2 = size /\ k2 = Z.k + 1

\* The map o2 still has all but b.
Holds(G, Z, o2, k2, size2) ==
  /\ Laid(G.T, G.S, o2, size2) /\ Extends(o2, G.o)
  /\ k2 \in 0 .. Len(G.F) - 1 /\ Owns(o2, 1, G.F, k2 + 1)
  /\ Owns(o2, -1, Z.V, 1) /\ Owns(o2, -2, Z.K, 1)

LEMMA OwnsRenamed ==
  ASSUME NEW o, NEW b, NEW w, NEW c, NEW s, NEW f, Owns(o, c, s, f),
         b \in DOMAIN o => \A i \in f .. Len(s) : o[b] # <<c, i>>
  PROVE  Owns(Renamed(o, b, w), c, s, f)
BY DEF Owns, Renamed

LEMMA PlacedRenamed ==
  ASSUME NEW o, NEW size \in Nat, Placed(o, size), NEW b \in Nat, NEW w, NEW size2 \in Nat,
         \/ b = size /\ size2 = size + Width(w)
         \/ b \in DOMAIN o /\ Width(w) = Width(o[b]) /\ size2 = size
  PROVE  Placed(Renamed(o, b, w), size2)
<1> DEFINE o2 == Renamed(o, b, w)
           wid(a) == Width(o[a])
           v == Width(w)
<1>0. v \in Nat /\ v >= 5 /\ \A a : wid(a) \in Nat /\ wid(a) >= 5
  BY DEF Width, TabLen, StringLen, BlockLen
<1>1. DOMAIN o2 = DOMAIN o \cup {b} /\ o2 = [a \in DOMAIN o2 |-> o2[a]]
      /\ Width(o2[b]) = v /\ \A a \in DOMAIN o : a # b => Width(o2[a]) = wid(a)
  BY DEF Renamed
<1>2. DOMAIN o \subseteq Nat /\ \A a \in DOMAIN o : a + wid(a) <= size
  BY DEF Placed
<1>3. \A a, c \in DOMAIN o : a # c => a + wid(a) <= c \/ c + wid(c) <= a
  BY DEF Placed
<1>4. \/ b = size /\ size2 = size + v /\ b \notin DOMAIN o
      \/ b \in DOMAIN o /\ v = wid(b) /\ size2 = size
  <2>1. b \in DOMAIN o => b + wid(b) <= size
    BY <1>2
  <2>2. b = size => b \notin DOMAIN o
    <3> HIDE DEF wid
    <3> QED BY <2>1, <1>0
  <2> QED BY <2>2
<1> HIDE DEF wid, v, o2
<1>5. \A a \in DOMAIN o2 : a + Width(o2[a]) <= size2
  <2> SUFFICES ASSUME NEW a \in DOMAIN o2 PROVE a + Width(o2[a]) <= size2
    OBVIOUS
  <2>1. CASE a = b
    BY <2>1, <1>0, <1>1, <1>2, <1>4
  <2>2. CASE a # b
    <3>1. a \in DOMAIN o /\ a \in Nat
      BY <2>2, <1>1, <1>2
    <3>2. Width(o2[a]) = wid(a) /\ a + wid(a) <= size /\ wid(a) \in Nat
      BY <3>1, <2>2, <1>0, <1>1, <1>2
    <3>3. size <= size2
      BY <1>0, <1>4
    <3> QED BY <3>1, <3>2, <3>3
  <2> QED BY <2>1, <2>2
<1>6. \A a, c \in DOMAIN o2 : a # c => a + Width(o2[a]) <= c \/ c + Width(o2[c]) <= a
  <2>1. ASSUME NEW a \in DOMAIN o, a # b
        PROVE  a + Width(o2[a]) <= b \/ b + Width(o2[b]) <= a
    <3>1. Width(o2[a]) = wid(a) /\ Width(o2[b]) = v
      BY <2>1, <1>1
    <3>2. a + wid(a) <= size /\ a \in Nat
      BY <1>2
    <3>3. b \in DOMAIN o => a + wid(a) <= b \/ b + wid(b) <= a
      BY <1>3, <2>1
    <3> QED BY <3>1, <3>2, <3>3, <1>4
  <2> SUFFICES ASSUME NEW a \in DOMAIN o2, NEW c \in DOMAIN o2, a # c
               PROVE  a + Width(o2[a]) <= c \/ c + Width(o2[c]) <= a
    OBVIOUS
  <2>2. (a = b \/ a \in DOMAIN o) /\ (c = b \/ c \in DOMAIN o)
    BY <1>1
  <2>3. CASE a = b
    BY <2>1, <2>2, <2>3
  <2>4. CASE c = b
    BY <2>1, <2>2, <2>4
  <2>5. CASE a # b /\ c # b
    <3>1. Width(o2[a]) = wid(a) /\ Width(o2[c]) = wid(c) /\ a \in DOMAIN o /\ c \in DOMAIN o
      BY <2>2, <2>5, <1>1
    <3> QED BY <3>1, <1>3
  <2> QED BY <2>3, <2>4, <2>5
<1>7. DOMAIN o2 \subseteq Nat
  BY <1>1, <1>2
<1> QED BY <1>1, <1>5, <1>6, <1>7 DEF Placed, o2

LEMMA Renaming ==
  ASSUME NEW G, NEW Z, NEW size \in Nat, Space(G, Z, size), G.F \in Seq(Nat),
         NEW b \in Nat, NEW w, NEW k2, NEW size2 \in Nat, Spot(G, Z, size, b, w, k2, size2)
  PROVE  Holds(G, Z, Renamed(Z.o, b, w), k2, size2)
<1> DEFINE o == Z.o
           o2 == Renamed(o, b, w)
<1>1. /\ Laid(G.T, G.S, o, size) /\ Extends(o, G.o) /\ Placed(o, size)
      /\ Z.k \in 0 .. Len(G.F) - 1 /\ Owns(o, 1, G.F, Z.k + 1)
      /\ Owns(o, -1, Z.V, 1) /\ Owns(o, -2, Z.K, 1)
  BY DEF Space, Laid
<1>2. size \notin DOMAIN o
  <2>1. \A a \in DOMAIN o : a \in Nat /\ a + Width(o[a]) <= size
    BY <1>1 DEF Placed
  <2>2. \A a : Width(o[a]) \in Nat /\ Width(o[a]) >= 5
    BY DEF Width, TabLen, StringLen, BlockLen
  <2> SUFFICES ASSUME size \in DOMAIN o PROVE FALSE
    OBVIOUS
  <2>3. size + Width(o[size]) <= size
    BY <2>1
  <2> DEFINE x == Width(o[size])
  <2>4. x \in Nat /\ x >= 5 /\ size + x <= size
    BY <2>2, <2>3
  <2> HIDE DEF x
  <2> QED BY <2>4
<1>3. Z.k + 1 < Len(G.F) => G.F[Z.k + 1] \in DOMAIN o /\ o[G.F[Z.k + 1]] = <<1, Z.k + 1>>
  <2> SUFFICES ASSUME Z.k + 1 < Len(G.F)
               PROVE  G.F[Z.k + 1] \in DOMAIN o /\ o[G.F[Z.k + 1]] = <<1, Z.k + 1>>
    OBVIOUS
  <2>1. Len(G.F) \in Nat
    OBVIOUS
  <2>2. Z.k + 1 \in Z.k + 1 .. Len(G.F)
    BY <2>1, <1>1
  <2> QED BY <2>2, <1>1 DEF Owns
\* the name b had, if any
<1>4. b \in DOMAIN o => /\ Width(w) = Width(o[b]) /\ size2 = size
                        /\ \/ o[b] = <<-3, 0>> /\ k2 = Z.k
                           \/ o[b] = <<1, Z.k + 1>> /\ k2 = Z.k + 1
  <2>1. Width(<<-3, 0>>) = 8 /\ Width(<<1, Z.k + 1>>) = 8
    BY DEF Width, StringLen, BlockLen
  <2> QED BY <2>1, <1>2, <1>3 DEF Spot
<1>5. Placed(o2, size2)
  <2>1. \/ b = size /\ size2 = size + Width(w)
        \/ b \in DOMAIN o /\ Width(w) = Width(o[b]) /\ size2 = size
    BY <1>3, <1>4 DEF Spot
  <2> QED BY <2>1, <1>1, PlacedRenamed
<1>6. ASSUME NEW c, NEW s, c # -3, c # 1, Owns(o, c, s, 1) PROVE Owns(o2, c, s, 1)
  <2>1. b \in DOMAIN o => \A i \in 1 .. Len(s) : o[b] # <<c, i>>
    BY <1>4, <1>6
  <2> QED BY <2>1, <1>6, OwnsRenamed
<1>7. k2 \in 0 .. Len(G.F) - 1
  <2>1. Len(G.F) \in Nat
    OBVIOUS
  <2> QED BY <2>1, <1>1 DEF Spot
<1>8. Owns(o2, 1, G.F, k2 + 1)
  <2>1. Owns(o, 1, G.F, k2 + 1)
    <3>1. \A i \in k2 + 1 .. Len(G.F) : i \in Z.k + 1 .. Len(G.F)
      BY <1>1 DEF Spot
    <3> QED BY <3>1, <1>1 DEF Owns
  <2>2. b \in DOMAIN o => \A i \in k2 + 1 .. Len(G.F) : o[b] # <<1, i>>
    BY <1>1, <1>4
  <2> QED BY <2>1, <2>2, OwnsRenamed
<1>9. Extends(o2, G.o)
  BY <1>1, <1>4 DEF Extends, Renamed
<1>10. Laid(G.T, G.S, o2, size2)
  <2>1. Owns(o2, 0, G.T, 1)
    <3>1. Owns(o, 0, G.T, 1)
      BY <1>1 DEF Laid
    <3> QED BY <3>1, <1>6
  <2>2. ASSUME NEW c \in 2 .. 2 * Len(G.T) - 1 PROVE Owns(o2, c, G.S[c], 1)
    <3>1. Len(G.T) \in Nat
      BY <1>1 DEF Laid
    <3>2. c # -3 /\ c # 1
      BY <3>1
    <3>3. Owns(o, c, G.S[c], 1)
      BY <1>1 DEF Laid
    <3> QED BY <3>2, <3>3, <1>6
  <2> HIDE DEF o2
  <2> QED BY <2>1, <2>2, <1>1, <1>5 DEF Laid
<1>11. Owns(o2, -1, Z.V, 1) /\ Owns(o2, -2, Z.K, 1)
  BY <1>1, <1>6
<1> QED BY <1>7, <1>8, <1>9, <1>10, <1>11 DEF Holds

Name == IF put.what = "value" THEN -1 ELSE -2
\* The chain being written gets the block b.
Longer(Z, o, k, b) ==
  [o |-> o, k |-> k, h |-> Z.h,
   V |-> IF put.what = "value" THEN Append(Z.V, b) ELSE Z.V,
   K |-> IF put.what = "value" THEN Z.K ELSE Append(Z.K, b)]
\* The file gets longer by something no chain has yet.
Beside(Z, o) == [o |-> o, k |-> Z.k, h |-> Z.h, V |-> Z.V, K |-> Z.K]

LEMMA OwnsAppend ==
  ASSUME NEW o, NEW c, NEW s \in Seq(Nat), Owns(o, c, s, 1), NEW b \in Nat,
         b \in DOMAIN o, o[b] = <<c, Len(s) + 1>>
  PROVE  Owns(o, c, Append(s, b), 1)
<1> SUFFICES ASSUME NEW i \in 1 .. Len(Append(s, b))
             PROVE  Append(s, b)[i] \in DOMAIN o /\ o[Append(s, b)[i]] = <<c, i>>
  BY DEF Owns
<1>1. i \in 1 .. Len(s) \/ i = Len(s) + 1
  OBVIOUS
<1>2. CASE i \in 1 .. Len(s)
  <2>1. Append(s, b)[i] = s[i]
    BY <1>2
  <2> QED BY <2>1, <1>2 DEF Owns
<1>3. CASE i = Len(s) + 1
  <2>1. Append(s, b)[i] = b
    BY <1>3
  <2> QED BY <2>1, <1>3
<1> QED BY <1>1, <1>2, <1>3

LEMMA SpaceLonger ==
  ASSUME NEW G, NEW Z, NEW size \in Nat, Space(G, Z, size), G.F \in Seq(Nat),
         NEW b \in Nat, NEW w, w = <<Name, Len(Chain(Z)) + 1>>, NEW k2, NEW size2 \in Nat,
         Spot(G, Z, size, b, w, k2, size2), put.what \in {"value", "key"}
  PROVE  Space(G, Longer(Z, Renamed(Z.o, b, w), k2, b), size2)
<1> DEFINE o2 == Renamed(Z.o, b, w)
           Y == Longer(Z, o2, k2, b)
<1>1. Holds(G, Z, o2, k2, size2)
  BY Renaming
<1>2. Z.V \in Seq(Nat) /\ Z.K \in Seq(Nat)
  BY DEF Space
<1>3. b \in DOMAIN o2 /\ o2[b] = w
  BY DEF Renamed
<1> HIDE DEF o2
<1>4. Y.o = o2 /\ Y.k = k2
      /\ Y.V = (IF put.what = "value" THEN Append(Z.V, b) ELSE Z.V)
      /\ Y.K = (IF put.what = "value" THEN Z.K ELSE Append(Z.K, b))
  BY DEF Longer
<1>5. Y.V \in Seq(Nat) /\ Owns(o2, -1, Y.V, 1)
  <2>1. CASE put.what = "value"
    <3>1. o2[b] = <<-1, Len(Z.V) + 1>>
      BY <2>1, <1>3 DEF Name, Chain
    <3>2. Owns(o2, -1, Z.V, 1)
      BY <1>1 DEF Holds
    <3>3. Owns(o2, -1, Append(Z.V, b), 1)
      BY <3>1, <3>2, <1>2, <1>3, OwnsAppend
    <3> HIDE DEF Y
    <3> QED BY <3>3, <2>1, <1>2, <1>4
  <2>2. CASE put.what # "value"
    <3> HIDE DEF Y
    <3> QED BY <2>2, <1>1, <1>2, <1>4 DEF Holds
  <2> QED BY <2>1, <2>2
<1>6. Y.K \in Seq(Nat) /\ Owns(o2, -2, Y.K, 1)
  <2>1. CASE put.what # "value"
    <3>1. o2[b] = <<-2, Len(Z.K) + 1>>
      BY <2>1, <1>3 DEF Name, Chain
    <3>2. Owns(o2, -2, Z.K, 1)
      BY <1>1 DEF Holds
    <3>3. Owns(o2, -2, Append(Z.K, b), 1)
      BY <3>1, <3>2, <1>2, <1>3, OwnsAppend
    <3> HIDE DEF Y
    <3> QED BY <3>3, <2>1, <1>2, <1>4
  <2>2. CASE put.what = "value"
    <3> HIDE DEF Y
    <3> QED BY <2>2, <1>1, <1>2, <1>4 DEF Holds
  <2> QED BY <2>1, <2>2
<1> HIDE DEF Y
<1>7. Space(G, Y, size2)
  BY <1>1, <1>4, <1>5, <1>6 DEF Space, Holds
<1> QED BY <1>7 DEF Y, o2

LEMMA SpaceBeside ==
  ASSUME NEW G, NEW Z, NEW size \in Nat, Space(G, Z, size), G.F \in Seq(Nat),
         NEW w, NEW size2 \in Nat, size2 = size + Width(w)
  PROVE  Space(G, Beside(Z, Renamed(Z.o, size, w)), size2)
<1> DEFINE o2 == Renamed(Z.o, size, w)
           Y == Beside(Z, o2)
           k2 == Z.k
<1>1. Spot(G, Z, size, size, w, k2, size2)
  BY DEF Spot
<1>2. Holds(G, Z, o2, k2, size2)
  <2> HIDE DEF k2
  <2> QED BY <1>1, Renaming
<1>3. Z.V \in Seq(Nat) /\ Z.K \in Seq(Nat)
  BY DEF Space
<1> HIDE DEF o2
<1>4. Y.o = o2 /\ Y.k = Z.k /\ Y.V = Z.V /\ Y.K = Z.K
  BY DEF Beside
<1> HIDE DEF Y
<1>5. Space(G, Y, size2)
  BY <1>2, <1>3, <1>4 DEF Space, Holds
<1> QED BY <1>5 DEF Y, o2

\* The job is the same as long as the fields that say what it is are.
JobSame ==
  /\ put' \in FlightPut
  /\ put'.key = put.key /\ put'.val = put.val /\ put'.insert = put.insert
  /\ put'.cur_off = put.cur_off /\ put'.old = put.old
  /\ put'.what # put.what => put.insert
  /\ ~put.insert => put'.cur_tab.next = put.cur_tab.next /\ put'.cur_tab.key = put.cur_tab.key

LEMMA JobKept ==
  ASSUME NEW G, Job(G), JobSame
  PROVE  Job(G)'
BY DEF Job, JobSame

LEMMA GoalIs ==
  ASSUME put \in FlightPut
  PROVE  /\ Goal \in Seq(Nat \ {0}) /\ Goal \in Seq(Nat) /\ Len(Goal) \in Nat /\ Len(Goal) >= 1
         /\ put.val \in Seq(Nat \ {0}) /\ put.key \in Seq(Nat \ {0})
<1>1. put.key \in Keys /\ put.val \in Vals
  BY DEF FlightPut
<1>2. \A s \in Keys \cup Vals : s \in Seq(Nat \ {0}) /\ s # <<>>
  BY KvdbFileAssumption
<1>3. Goal \in Keys \cup Vals
  BY <1>1 DEF Goal
<1> DEFINE g == Goal
<1>4. g \in Seq(Nat \ {0}) /\ g # <<>>
  BY <1>2, <1>3
<1> HIDE DEF g
<1>5. g \in Seq(Nat) /\ Len(g) \in Nat /\ Len(g) >= 1
  BY <1>4
<1> QED BY <1>1, <1>2, <1>4, <1>5 DEF g

LEMMA AllocStartKeeps == FileInv /\ Roomy' /\ AllocStart => FileInv'
<1> SUFFICES ASSUME FileInv, Roomy', AllocStart PROVE FileInv'
  OBVIOUS
<1> DEFINE flag == hdr.head # hdr.tail
           ret == IF flag THEN hdr.head ELSE hdr.size
<1>1. /\ put.pc = "alloc" /\ mem' = mem /\ dict' = dict /\ half' = half /\ puts' = puts
      /\ hdr' = (IF flag THEN hdr ELSE [hdr EXCEPT !.size = @ + StringLen])
      /\ put' = [put EXCEPT !.pc = "info", !.flag = flag, !.ret = ret, !.prev = ret,
                            !.cur = ret, !.tail = hdr.tail]
  BY DEF AllocStart, get_end, Grown
<1>2. FileTypeOK /\ Words \in Nat /\ hdr.backup_flag = 1
  BY <1>1, FlightHas DEF FlightPc
<1>3. PICK G, Z : Flight(G, Z)
  BY <1>1, FlightHas DEF FlightPc
<1>4. FlightFacts(G, Z)
  BY <1>2, <1>3, FlightHasFacts
<1>5. /\ Backed(G) /\ Job(G) /\ Space(G, Z, hdr.size) /\ Ahead(mem, G, Z) /\ HeadAt(G, Z)
      /\ Undoable(G, Z) /\ Unseen(G) /\ At(G, Z)
  BY <1>3 DEF Flight
<1> DEFINE F == G.F
           L == Len(F)
           c == Chain(Z)
           k2 == IF flag THEN Z.k + 1 ELSE Z.k
           size2 == IF flag THEN hdr.size ELSE hdr.size + 8
           w == <<Name, Len(c) + 1>>
           o2 == Renamed(Z.o, ret, w)
<1>0. PICK Y : Y = Longer(Z, o2, k2, ret)
  OBVIOUS
<1>6. F \in Seq(Nat) /\ L \in Nat /\ L >= 1 /\ Z.k \in Nat /\ Z.k < L /\ put \in FlightPut
      /\ hdr.size \in Nat
  BY <1>4 DEF FlightFacts
<1>7. Z.h = Z.k + 1 /\ hdr.head = F[Z.k + 1] /\ hdr.tail = F[L]
  BY <1>1, <1>5 DEF HeadAt
<1>8. flag => Z.k + 1 < L
  BY <1>6, <1>7
<1>9. ~flag => Z.k = L - 1
  <2> SUFFICES ASSUME ~flag PROVE Z.k = L - 1
    OBVIOUS
  <2>1. F[Z.k + 1] = F[L] /\ Z.k + 1 \in 1 .. L /\ L \in 1 .. L
    BY <1>6, <1>7
  <2>2. Z.k + 1 = L
    BY <2>1, <1>4 DEF FlightFacts
  <2> QED BY <2>2, <1>6
<1>10. ret \in Nat
  BY <1>2 DEF FileTypeOK
<1>11. Width(w) = 8 /\ StringLen = 8
  BY DEF Width, Name, StringLen, BlockLen
<1>12. Spot(G, Z, hdr.size, ret, w, k2, size2)
  BY <1>7, <1>8, <1>11 DEF Spot
<1>13. c = <<>> /\ put.src = Goal /\ (IF put.what = "key" THEN ValueDone(Z) ELSE Z.K = <<>>)
       /\ put.what \in {"value", "key"}
  BY <1>1, <1>5, <1>6 DEF At, AllocPc, FlightPut
<1>14. Space(G, Y, size2)
  <2>1. size2 \in Nat
    BY <1>6
  <2> HIDE DEF size2, k2, c, ret, flag
  <2> QED BY <1>0, <1>5, <1>6, <1>10, <1>12, <1>13, <2>1, SpaceLonger DEF c
<1>15. hdr'.size = size2 /\ hdr'.backup_flag = 1 /\ hdr'.head = hdr.head /\ hdr'.tail = hdr.tail
       /\ hdr'.backup_prev = hdr.backup_prev /\ SameBackup
  BY <1>1, <1>2, <1>11 DEF FileTypeOK, SameBackup
<1>16. FileTypeOK'
  <2>1. hdr'.size \in 0 .. Words
    BY <1>2, <1>6, <1>15 DEF Roomy
  <2> HIDE DEF size2
  <2> QED BY <1>1, <1>2, <1>6, <1>15, <2>1 DEF FileTypeOK
<1>17. /\ put'.pc = "info" /\ put'.flag = flag /\ put'.ret = ret /\ put'.prev = ret
       /\ put'.cur = ret /\ put'.tail = hdr.tail /\ put'.what = put.what /\ put'.src = put.src
       /\ put'.insert = put.insert /\ put'.val = put.val /\ put'.key = put.key
       /\ put'.cur_tab = put.cur_tab /\ put'.old = put.old /\ put'.cur_off = put.cur_off
       /\ put' \in FlightPut
  <2>1. flag \in BOOLEAN /\ hdr.tail \in Nat
    BY <1>2 DEF FileTypeOK
  <2> HIDE DEF flag, ret
  <2> QED BY <1>1, <1>6, <1>10, <2>1 DEF FlightPut, FlightPc
<1> HIDE DEF flag, size2, k2, w, o2, ret
<1>18. Y.k = k2 /\ Y.h = Z.h
       /\ Y.V = (IF put.what = "value" THEN Append(Z.V, ret) ELSE Z.V)
       /\ Y.K = (IF put.what = "value" THEN Z.K ELSE Append(Z.K, ret))
  BY <1>0 DEF Longer
<1>19. Backed(G)' /\ Job(G)'
  BY <1>1, <1>5, <1>15, <1>17, BackedSame, JobKept DEF JobSame
<1>20. Ahead(mem, G, Y)
  <2>1. \A i \in k2 + 1 .. L - 1 : i \in Z.k + 1 .. L - 1
    BY <1>6 DEF k2
  <2> QED BY <2>1, <1>5, <1>18 DEF Ahead
<1>21. HeadAt(G, Y)'
  <2>1. Z.h \in 1 .. k2 + 1
    BY <1>6, <1>7 DEF k2
  <2>2. ~put.insert => Z.h = 1
    BY <1>1, <1>5, <1>7 DEF HeadAt
  <2> QED BY <2>1, <2>2, <1>7, <1>15, <1>17, <1>18 DEF HeadAt
<1>22. Undoable(G, Y)'
  BY <1>1, <1>5, <1>15, <1>17, <1>18 DEF Undoable
<1>23. Unseen(G)'
  BY <1>1, <1>5, <1>17 DEF Unseen
<1>24. (Chain(Y))' = <<ret>> /\ Goal' = Goal
  <2>1. Append(<<>>, ret) = <<ret>>
    OBVIOUS
  <2>2. (Chain(Y))' = IF put.what = "value" THEN Y.V ELSE Y.K
    BY <1>17 DEF Chain
  <2>3. (Chain(Y))' = <<ret>>
    BY <2>1, <2>2, <1>13, <1>18 DEF Chain
  <2>4. Goal' = Goal
    BY <1>17 DEF Goal
  <2> QED BY <2>3, <2>4
<1>25. (Filling(G, Y, 0))'
  <2>1. Len(<<ret>>) = 1 /\ <<ret>>[1] = ret
    OBVIOUS
  <2>2. BlockLen * (1 - 1) < Len(Goal) /\ SubSeq(Goal, BlockLen * (1 - 1) + 1, Len(Goal)) = Goal
    <3>1. Goal \in Seq(Nat) /\ Len(Goal) \in Nat /\ Len(Goal) >= 1
      BY <1>6, GoalIs
    <3>2. BlockLen * (1 - 1) = 0
      BY DEF BlockLen
    <3> DEFINE g == Goal
    <3> HIDE DEF g
    <3>3. SubSeq(g, 1, Len(g)) = g
      BY <3>1 DEF g
    <3> QED BY <3>1, <3>2, <3>3 DEF g
  <2>3. Joined(mem', <<ret>>) /\ Spells(mem', <<ret>>, 0, Goal)
    BY DEF Joined, Spells
  <2>4. flag => k2 >= 1 /\ ret = F[k2] /\ mem'[ret + BlockLen] = F[k2 + 1]
    <3>1. flag => Z.k + 1 \in Z.k + 1 .. L - 1
      BY <1>6, <1>8
    <3>2. flag => mem[F[Z.k + 1] + BlockLen] = F[Z.k + 1 + 1]
      BY <3>1, <1>5 DEF Ahead
    <3> QED BY <3>2, <1>1, <1>6, <1>7 DEF k2, ret
  <2>5. ~flag => k2 = L - 1 /\ Z.h = k2 + 1
    BY <1>7, <1>9 DEF k2
  <2> QED BY <2>1, <2>2, <2>3, <2>4, <2>5, <1>7, <1>13, <1>17, <1>18, <1>24 DEF Filling
<1>26. At(G, Y)'
  <2>1. IF put'.what = "key" THEN ValueDone(Y)' ELSE Y.K = <<>>
    BY <1>1, <1>13, <1>17, <1>18 DEF ValueDone
  <2>2. (Filling(G, Y, Len(Chain(Y)) - 1))'
    <3>1. Len(<<ret>>) - 1 = 0
      OBVIOUS
    <3> QED BY <3>1, <1>24, <1>25
  <2> QED BY <2>1, <2>2, <1>17 DEF At, AllocPc
<1>27. Flight(G, Y)'
  BY <1>1, <1>14, <1>15, <1>19, <1>20, <1>21, <1>22, <1>23, <1>26 DEF Flight, Space, Ahead
<1> QED BY <1>15, <1>16, <1>27, FlightStep

LEMMA FlightOf ==
  ASSUME FileInv, put.pc \in FlightPc
  PROVE  /\ FileTypeOK /\ Words \in Nat /\ hdr.backup_flag = 1
         /\ \E G, Z : Flight(G, Z) /\ FlightFacts(G, Z)
<1>1. FileTypeOK /\ Words \in Nat /\ hdr.backup_flag = 1
  BY FlightHas
<1>2. PICK G, Z : Flight(G, Z)
  BY FlightHas
<1>3. FlightFacts(G, Z)
  BY <1>1, <1>2, FlightHasFacts
<1> QED BY <1>1, <1>2, <1>3

\* A step that writes the header, or nothing.
LEMMA NoWrite ==
  ASSUME NEW G, NEW Z, Flight(G, Z), put.pc # "neg", mem' = mem, SameBackup, JobSame,
         NEW Y, Space(G, Y, hdr.size)', Y.k \in Nat, Z.k \in Nat, Y.k >= Z.k,
         HeadAt(G, Y)', Undoable(G, Y)', At(G, Y)'
  PROVE  Flight(G, Y)'
<1>1. Backed(G) /\ Job(G) /\ Ahead(mem, G, Z) /\ Unseen(G)
  BY DEF Flight
<1>2. Backed(G)' /\ Job(G)'
  BY <1>1, BackedSame, JobKept
<1>3. Unseen(G)'
  BY <1>1 DEF Unseen
<1>4. (Ahead(mem, G, Y))'
  <2>1. \A i \in Y.k + 1 .. Len(G.F) - 1 : i \in Z.k + 1 .. Len(G.F) - 1
    OBVIOUS
  <2> QED BY <2>1, <1>1 DEF Ahead
<1> QED BY <1>2, <1>3, <1>4 DEF Flight

LEMMA NextFreeKeeps == FileInv /\ NextFree => FileInv'
<1> SUFFICES ASSUME FileInv, NextFree PROVE FileInv'
  OBVIOUS
<1> DEFINE cur == NextAt(put.prev)
<1>1. /\ put.pc = "next" /\ put.flag /\ mem' = mem /\ dict' = dict /\ half' = half
      /\ puts' = puts
      /\ hdr' = (IF Left < 0 THEN [hdr EXCEPT !.backup_prev = put.prev] ELSE hdr)
      /\ put' = [put EXCEPT !.cur = cur, !.pc = IF cur = put.tail THEN "out" ELSE "link"]
  BY DEF NextFree
<1>2. FileTypeOK /\ Words \in Nat /\ hdr.backup_flag = 1
  BY <1>1, FlightOf DEF FlightPc
<1>3. PICK G, Z : Flight(G, Z) /\ FlightFacts(G, Z)
  BY <1>1, FlightOf DEF FlightPc
<1>4. /\ Space(G, Z, hdr.size) /\ HeadAt(G, Z) /\ Undoable(G, Z) /\ At(G, Z)
  BY <1>3 DEF Flight
<1> DEFINE F == G.F
           L == Len(F)
<1>5. F \in Seq(Nat) /\ L \in Nat /\ L >= 1 /\ Z.k \in Nat /\ Z.k < L /\ put \in FlightPut
  BY <1>3 DEF FlightFacts
<1>6. Filling(G, Z, Len(Chain(Z)))
  BY <1>1, <1>4 DEF At
<1>7. Z.k >= 1 /\ put.prev = F[Z.k] /\ cur = F[Z.k + 1] /\ put.tail = F[L]
  BY <1>1, <1>6 DEF Filling, NextAt
<1>8. cur \in Nat /\ put.prev \in Nat \ {0}
  <2>1. Z.k + 1 \in 1 .. L /\ Z.k \in 1 .. L
    BY <1>5, <1>7
  <2> QED BY <2>1, <1>3, <1>7 DEF FlightFacts
<1>9. cur = put.tail <=> Z.k = L - 1
  <2>1. Z.k + 1 \in 1 .. L /\ L \in 1 .. L
    BY <1>5
  <2>3. \A i, j \in 1 .. L : F[i] = F[j] => i = j
    BY <1>3 DEF FlightFacts
  <2>2. F[Z.k + 1] = F[L] <=> Z.k + 1 = L
    BY <2>1, <2>3
  <2>4. Z.k + 1 = L <=> Z.k = L - 1
    BY ONLY <1>5
  <2> QED BY ONLY <2>2, <2>4, <1>7
<1> HIDE DEF cur
<1>10. /\ put'.pc \in {"out", "link"} /\ (put'.pc = "out" <=> cur = put.tail)
       /\ put'.flag = put.flag /\ put'.ret = put.ret /\ put'.prev = put.prev
       /\ put'.cur = cur /\ put'.tail = put.tail /\ put'.what = put.what /\ put'.src = put.src
       /\ put'.insert = put.insert /\ put'.val = put.val /\ put'.key = put.key
       /\ put'.cur_tab = put.cur_tab /\ put'.old = put.old /\ put'.cur_off = put.cur_off
       /\ put' \in FlightPut
  BY <1>1, <1>5, <1>8 DEF FlightPut, FlightPc
<1>11. /\ hdr'.size = hdr.size /\ hdr'.backup_flag = 1 /\ hdr'.head = hdr.head
       /\ hdr'.tail = hdr.tail /\ SameBackup
       /\ hdr'.backup_prev = (IF Left < 0 THEN put.prev ELSE hdr.backup_prev)
  <2> HIDE DEF SameBackup
  <2>1. SameBackup
    BY <1>1, <1>2 DEF FileTypeOK, SameBackup
  <2> QED BY <2>1, <1>1, <1>2 DEF FileTypeOK
<1>12. FileTypeOK'
  BY <1>1, <1>2, <1>8, <1>11 DEF FileTypeOK
<1>13. HeadAt(G, Z)'
  BY <1>1, <1>4, <1>10, <1>11 DEF HeadAt
<1>14. Undoable(G, Z)'
  <2>1. Left' = Left
    BY <1>10 DEF Left
  <2>2. hdr'.backup_prev = 0 /\ Z.h = 1 => FreeBut(mem', F, 0)
    BY <1>1, <1>4, <1>8, <1>11 DEF Undoable
  <2>3. ASSUME ~put.insert, hdr'.backup_prev # 0
        PROVE  hdr'.backup_prev = put.prev /\ FreeBut(mem', F, Z.k) /\ Left < 0
    <3>1. CASE hdr.backup_prev # 0
      BY <3>1, <2>3, <1>1, <1>4, <1>11 DEF Undoable
    <3>2. CASE hdr.backup_prev = 0
      <4>1. Z.h = 1
        BY <2>3, <1>1, <1>4 DEF HeadAt
      <4>2. FreeBut(mem, F, 0)
        BY <3>2, <4>1, <1>4 DEF Undoable
      <4>3. FreeBut(mem', F, Z.k)
        BY <4>2, <1>1, <1>5 DEF FreeBut
      <4> QED BY <3>2, <4>3, <2>3, <1>11
    <3> QED BY <3>1, <3>2
  <2> QED BY <2>1, <2>2, <2>3, <1>7, <1>10 DEF Undoable
<1>15. (Filling(G, Z, Len(Chain(Z))))'
  <2>1. Chain(Z)' = Chain(Z) /\ Goal' = Goal
    BY <1>10 DEF Chain, Goal
  <2> QED BY <2>1, <1>1, <1>6, <1>10 DEF Filling
<1>16. At(G, Z)'
  <2>1. put'.pc = "link" => TakenFrom(G, Z)'
    BY <1>1, <1>5, <1>7, <1>9, <1>10 DEF TakenFrom
  <2>2. IF put'.what = "key" THEN ValueDone(Z)' ELSE Z.K = <<>>
    BY <1>1, <1>4, <1>10 DEF At, AllocPc, ValueDone
  <2> QED BY <2>1, <2>2, <1>1, <1>9, <1>10, <1>15 DEF At, AllocPc
<1>17. JobSame
  BY <1>10 DEF JobSame
<1>18. Flight(G, Z)'
  <2>1. (Space(G, Z, hdr.size))'
    BY <1>4, <1>11 DEF Space
  <2>2. Z.k >= Z.k
    BY <1>5
  <2>3. put.pc # "neg"
    BY <1>1
  <2> QED BY <2>1, <2>2, <2>3, <1>1, <1>3, <1>5, <1>11, <1>13, <1>14, <1>16, <1>17, NoWrite
<1> QED BY <1>11, <1>12, <1>18, FlightStep

\* The fields a string's allocation leaves alone.
SamePut ==
  /\ put'.what = put.what /\ put'.insert = put.insert /\ put'.val = put.val
  /\ put'.key = put.key /\ put'.cur_tab = put.cur_tab /\ put'.old = put.old
  /\ put'.cur_off = put.cur_off /\ put' \in FlightPut

LEMMA SamePutJob ==
  ASSUME SamePut
  PROVE  /\ JobSame /\ Goal' = Goal
         /\ \A Z : Chain(Z)' = Chain(Z)
BY DEF SamePut, JobSame, Goal, Chain

LEMMA ListOutKeeps == FileInv /\ ListOut => FileInv'
<1> SUFFICES ASSUME FileInv, ListOut PROVE FileInv'
  OBVIOUS
<1>1. /\ put.pc = "out" /\ mem' = mem /\ dict' = dict /\ half' = half
      /\ puts' = puts
      /\ hdr' = [hdr EXCEPT !.head = put.tail]
      /\ put' = [put EXCEPT !.pc = "next", !.flag = FALSE]
  BY DEF ListOut
<1>2. FileTypeOK /\ Words \in Nat /\ hdr.backup_flag = 1
  BY <1>1, FlightOf DEF FlightPc
<1>3. PICK G, Z : Flight(G, Z) /\ FlightFacts(G, Z)
  BY <1>1, FlightOf DEF FlightPc
<1>4. /\ Space(G, Z, hdr.size) /\ HeadAt(G, Z) /\ Undoable(G, Z) /\ At(G, Z)
  BY <1>3 DEF Flight
<1> DEFINE F == G.F
           L == Len(F)
<1>0. PICK Y : Y = [o |-> Z.o, k |-> Z.k, h |-> Z.k + 1, V |-> Z.V, K |-> Z.K]
  OBVIOUS
<1>00. Y.o = Z.o /\ Y.k = Z.k /\ Y.h = Z.k + 1 /\ Y.V = Z.V /\ Y.K = Z.K
  BY <1>0
<1>5. F \in Seq(Nat) /\ L \in Nat /\ L >= 1 /\ Z.k \in Nat /\ Z.k < L /\ put \in FlightPut
  BY <1>3 DEF FlightFacts
<1>6. Filling(G, Z, Len(Chain(Z))) /\ put.flag /\ Z.k = L - 1
  BY <1>1, <1>4 DEF At
<1>7. Z.k >= 1 /\ put.tail = F[L] /\ L = Z.k + 1
  BY <1>5, <1>6 DEF Filling
<1>8. put.tail \in Nat \ {0}
  <2>1. L \in 1 .. L
    BY <1>5
  <2> QED BY <2>1, <1>3, <1>7 DEF FlightFacts
<1>10. /\ SamePut /\ put'.pc = "next" /\ put'.flag = FALSE /\ put'.ret = put.ret
       /\ put'.prev = put.prev /\ put'.tail = put.tail /\ put'.src = put.src
  BY <1>1, <1>5 DEF FlightPut, FlightPc, SamePut
<1>11. /\ hdr'.size = hdr.size /\ hdr'.backup_flag = 1 /\ hdr'.head = put.tail
       /\ hdr'.tail = hdr.tail /\ SameBackup /\ hdr'.backup_prev = hdr.backup_prev
  <2>1. SameBackup
    BY <1>1, <1>2 DEF FileTypeOK, SameBackup
  <2> QED BY <2>1, <1>1, <1>2 DEF FileTypeOK
<1>12. FileTypeOK'
  BY <1>1, <1>2, <1>8, <1>11 DEF FileTypeOK
<1>13. HeadAt(G, Y)'
  <2>1. Y.h \in 1 .. Y.k + 1 /\ hdr'.head = F[Y.h]
    BY <1>00, <1>5, <1>7, <1>11
  <2> QED BY <2>1, <1>00, <1>1, <1>4, <1>10, <1>11 DEF HeadAt
<1>14. Undoable(G, Y)'
  <2>1. Left' = Left
    BY <1>10 DEF Left
  <2>2. Y.h # 1
    BY <1>00, <1>5, <1>7
  <2>3. ~put.insert /\ hdr.backup_prev # 0 =>
          /\ Z.k >= 1 /\ hdr.backup_prev = F[Z.k] /\ FreeBut(mem, F, Z.k)
          /\ Left < 0 /\ hdr.backup_prev = put.prev
    BY <1>1, <1>4 DEF Undoable
  <2> QED BY <2>1, <2>2, <2>3, <1>00, <1>1, <1>10, <1>11 DEF Undoable, SamePut
<1>15. Chain(Y)' = Chain(Z) /\ Goal' = Goal
  BY <1>00, <1>10 DEF Chain, Goal, SamePut
<1>16. (Filling(G, Y, Len(Chain(Y))))'
  BY <1>00, <1>1, <1>6, <1>10, <1>15 DEF Filling
<1>17. At(G, Y)'
  <2>1. IF put'.what = "key" THEN ValueDone(Y)' ELSE Y.K = <<>>
    BY <1>00, <1>1, <1>4, <1>10 DEF At, AllocPc, ValueDone, SamePut
  <2> QED BY <2>1, <1>10, <1>16 DEF At, AllocPc
<1>18. Flight(G, Y)'
  <2>1. (Space(G, Y, hdr.size))'
    BY <1>00, <1>4, <1>11 DEF Space
  <2>2. Y.k >= Z.k /\ Y.k \in Nat
    BY <1>00, <1>5
  <2>3. put.pc # "neg" /\ JobSame
    BY <1>1, <1>10, SamePutJob
  <2> QED BY <2>1, <2>2, <2>3, <1>1, <1>3, <1>5, <1>11, <1>13, <1>14, <1>17, NoWrite
<1> QED BY <1>11, <1>12, <1>18, FlightStep

LEMMA NextEndKeeps == FileInv /\ Roomy' /\ NextEnd => FileInv'
<1> SUFFICES ASSUME FileInv, Roomy', NextEnd PROVE FileInv'
  OBVIOUS
<1>1. /\ put.pc = "next" /\ ~put.flag /\ mem' = mem /\ dict' = dict /\ half' = half
      /\ puts' = puts
      /\ hdr' = [hdr EXCEPT !.size = @ + StringLen]
      /\ put' = [put EXCEPT !.cur = hdr.size, !.pc = "link"]
  BY DEF NextEnd, Grown, get_end
<1>2. FileTypeOK /\ Words \in Nat /\ hdr.backup_flag = 1
  BY <1>1, FlightOf DEF FlightPc
<1>3. PICK G, Z : Flight(G, Z) /\ FlightFacts(G, Z)
  BY <1>1, FlightOf DEF FlightPc
<1>4. /\ Space(G, Z, hdr.size) /\ HeadAt(G, Z) /\ Undoable(G, Z) /\ At(G, Z)
  BY <1>3 DEF Flight
<1> DEFINE F == G.F
           w == <<-3, 0>>
           size2 == hdr.size + 8
<1>0. PICK Y : Y = Beside(Z, Renamed(Z.o, hdr.size, w))
  OBVIOUS
<1>00. Y.o = Renamed(Z.o, hdr.size, w) /\ Y.k = Z.k /\ Y.h = Z.h /\ Y.V = Z.V /\ Y.K = Z.K
  BY <1>0 DEF Beside
<1>5. F \in Seq(Nat) /\ Z.k \in Nat /\ put \in FlightPut /\ hdr.size \in Nat /\ StringLen = 8
  BY <1>3 DEF FlightFacts, StringLen, BlockLen
<1>6. Filling(G, Z, Len(Chain(Z)))
  BY <1>1, <1>4 DEF At
<1>7. Space(G, Y, size2)
  <2>1. Width(w) = 8
    BY DEF Width, StringLen, BlockLen
  <2>2. size2 \in Nat /\ size2 = hdr.size + Width(w)
    BY <2>1, <1>5
  <2> HIDE DEF size2, w
  <2> QED BY <2>2, <1>0, <1>4, <1>5, SpaceBeside
<1>10. /\ SamePut /\ put'.pc = "link" /\ put'.flag = put.flag /\ put'.ret = put.ret
       /\ put'.prev = put.prev /\ put'.tail = put.tail /\ put'.src = put.src
       /\ put'.cur = hdr.size
  BY <1>1, <1>5 DEF FlightPut, FlightPc, SamePut
<1>11. /\ hdr'.size = size2 /\ hdr'.backup_flag = 1 /\ hdr'.head = hdr.head
       /\ hdr'.tail = hdr.tail /\ SameBackup /\ hdr'.backup_prev = hdr.backup_prev
  <2>1. SameBackup
    BY <1>1, <1>2 DEF FileTypeOK, SameBackup
  <2> QED BY <2>1, <1>1, <1>2, <1>5 DEF FileTypeOK
<1>12. FileTypeOK'
  <2>1. hdr'.size \in 0 .. Words
    BY <1>2, <1>5, <1>11 DEF Roomy
  <2> HIDE DEF size2
  <2> QED BY <1>1, <1>2, <1>5, <1>11, <2>1 DEF FileTypeOK
<1>13. HeadAt(G, Y)'
  BY <1>00, <1>1, <1>4, <1>10, <1>11 DEF HeadAt, SamePut
<1>14. Undoable(G, Y)'
  <2>1. Left' = Left
    BY <1>10 DEF Left
  <2> QED BY <2>1, <1>00, <1>1, <1>4, <1>10, <1>11 DEF Undoable, SamePut
<1>15. Chain(Y)' = Chain(Z) /\ Goal' = Goal
  BY <1>00, <1>10 DEF Chain, Goal, SamePut
<1>16. (Filling(G, Y, Len(Chain(Y))))'
  BY <1>00, <1>1, <1>6, <1>10, <1>15 DEF Filling
<1>17. At(G, Y)'
  <2>1. IF put'.what = "key" THEN ValueDone(Y)' ELSE Y.K = <<>>
    BY <1>00, <1>1, <1>4, <1>10 DEF At, AllocPc, ValueDone, SamePut
  <2>2. TakenFrom(G, Y)'
    BY <1>00, <1>1, <1>10 DEF TakenFrom, Renamed
  <2> QED BY <2>1, <2>2, <1>10, <1>16 DEF At, AllocPc
<1>18. Flight(G, Y)'
  <2>1. (Space(G, Y, hdr.size))'
    BY <1>7, <1>11 DEF Space
  <2>2. Y.k >= Z.k /\ Y.k \in Nat
    BY <1>00, <1>5
  <2>3. put.pc # "neg" /\ JobSame
    BY <1>1, <1>10, SamePutJob
  <2> QED BY <2>1, <2>2, <2>3, <1>1, <1>3, <1>5, <1>11, <1>13, <1>14, <1>17, NoWrite
<1> QED BY <1>11, <1>12, <1>18, FlightStep

LEMMA LinkHeadKeeps == FileInv /\ LinkHead => FileInv'
<1> SUFFICES ASSUME FileInv, LinkHead PROVE FileInv'
  OBVIOUS
<1>1. /\ put.pc = "link" /\ Left <= 0 /\ mem' = mem /\ dict' = dict /\ half' = half
      /\ puts' = puts
      /\ hdr' = (IF put.flag THEN [hdr EXCEPT !.head = put.cur] ELSE hdr)
      /\ put' = [put EXCEPT !.pc = "zero"]
  BY DEF LinkHead
<1>2. FileTypeOK /\ Words \in Nat /\ hdr.backup_flag = 1
  BY <1>1, FlightOf DEF FlightPc
<1>3. PICK G, Z : Flight(G, Z) /\ FlightFacts(G, Z)
  BY <1>1, FlightOf DEF FlightPc
<1>4. /\ Space(G, Z, hdr.size) /\ HeadAt(G, Z) /\ Undoable(G, Z) /\ At(G, Z)
  BY <1>3 DEF Flight
<1> DEFINE F == G.F
           L == Len(F)
<1>0. PICK Y : Y = [o |-> Z.o, k |-> Z.k, h |-> Z.k + 1, V |-> Z.V, K |-> Z.K]
  OBVIOUS
<1>00. Y.o = Z.o /\ Y.k = Z.k /\ Y.h = Z.k + 1 /\ Y.V = Z.V /\ Y.K = Z.K
  BY <1>0
<1>5. F \in Seq(Nat) /\ L \in Nat /\ L >= 1 /\ Z.k \in Nat /\ Z.k < L /\ put \in FlightPut
  BY <1>3 DEF FlightFacts
<1>6. Filling(G, Z, Len(Chain(Z))) /\ TakenFrom(G, Z)
  BY <1>1, <1>4 DEF At
<1>7. IF put.flag THEN Z.k >= 1 /\ put.cur = F[Z.k + 1]
      ELSE Z.k = L - 1 /\ Z.h = Z.k + 1 /\ hdr.head = F[Z.k + 1]
  BY <1>4, <1>6 DEF Filling, TakenFrom, HeadAt
<1>8. put.flag => put.cur \in Nat \ {0}
  <2>1. Z.k + 1 \in 1 .. L
    BY <1>5
  <2> QED BY <2>1, <1>3, <1>7 DEF FlightFacts
<1>10. /\ SamePut /\ put'.pc = "zero" /\ put'.flag = put.flag /\ put'.ret = put.ret
       /\ put'.prev = put.prev /\ put'.tail = put.tail /\ put'.src = put.src
       /\ put'.cur = put.cur
  BY <1>1, <1>5 DEF FlightPut, FlightPc, SamePut
<1>11. /\ hdr'.size = hdr.size /\ hdr'.backup_flag = 1 /\ hdr'.head = F[Z.k + 1]
       /\ hdr'.tail = hdr.tail /\ SameBackup /\ hdr'.backup_prev = hdr.backup_prev
  <2>1. SameBackup
    BY <1>1, <1>2 DEF FileTypeOK, SameBackup
  <2> QED BY <2>1, <1>1, <1>2, <1>7 DEF FileTypeOK
<1>12. FileTypeOK'
  BY <1>1, <1>2, <1>8, <1>11 DEF FileTypeOK
<1>13. HeadAt(G, Y)'
  <2>1. Y.h \in 1 .. Y.k + 1 /\ hdr'.head = F[Y.h]
    BY <1>00, <1>5, <1>11
  <2> QED BY <2>1, <1>00, <1>1, <1>4, <1>10, <1>11 DEF HeadAt
<1>14. Undoable(G, Y)'
  <2>2. Y.h = 1 => FreeBut(mem, F, 0)
    <3> SUFFICES ASSUME Y.h = 1 PROVE FreeBut(mem, F, 0)
      OBVIOUS
    <3>0. Z.k + 1 = 1 /\ (put.flag => Z.k >= 1) /\ (~put.flag => Z.k = L - 1)
      BY <1>00, <1>7
    <3>1. L = 1
      <4> HIDE DEF L
      <4> QED BY <3>0, <1>5
    <3> QED BY <3>1 DEF FreeBut
  <2>3. ~put.insert /\ hdr.backup_prev # 0 =>
          /\ Z.k >= 1 /\ hdr.backup_prev = F[Z.k] /\ FreeBut(mem, F, Z.k)
          /\ hdr.backup_prev = put.prev
    BY <1>1, <1>4 DEF Undoable
  <2> QED BY <2>2, <2>3, <1>00, <1>1, <1>10, <1>11 DEF Undoable, SamePut
<1>15. Chain(Y)' = Chain(Z) /\ Goal' = Goal
  BY <1>00, <1>10 DEF Chain, Goal, SamePut
<1>16. (Filling(G, Y, Len(Chain(Y))))'
  BY <1>00, <1>1, <1>6, <1>10, <1>15 DEF Filling
<1>17. At(G, Y)'
  <2>1. IF put'.what = "key" THEN ValueDone(Y)' ELSE Y.K = <<>>
    BY <1>00, <1>1, <1>4, <1>10 DEF At, AllocPc, ValueDone, SamePut
  <2>2. TakenFrom(G, Y)' /\ Left' <= 0
    BY <1>00, <1>1, <1>6, <1>10 DEF TakenFrom, Left
  <2> QED BY <2>1, <2>2, <1>10, <1>16 DEF At, AllocPc
<1>18. Flight(G, Y)'
  <2>1. (Space(G, Y, hdr.size))'
    BY <1>00, <1>4, <1>11 DEF Space
  <2>2. Y.k >= Z.k /\ Y.k \in Nat
    BY <1>00, <1>5
  <2>3. put.pc # "neg" /\ JobSame
    BY <1>1, <1>10, SamePutJob
  <2> QED BY <2>1, <2>2, <2>3, <1>1, <1>3, <1>5, <1>11, <1>13, <1>14, <1>17, NoWrite
<1> QED BY <1>11, <1>12, <1>18, FlightStep

LEMMA AllocEndKeeps == FileInv /\ AllocEnd => FileInv'
<1> SUFFICES ASSUME FileInv, AllocEnd PROVE FileInv'
  OBVIOUS
<1>1. /\ put.pc = "head" /\ mem' = mem /\ dict' = dict /\ half' = half /\ puts' = puts
      /\ hdr' = [hdr EXCEPT !.head = IF put.flag THEN put.cur ELSE put.tail]
  BY DEF AllocEnd
<1>2. FileTypeOK /\ Words \in Nat /\ hdr.backup_flag = 1
  BY <1>1, FlightOf DEF FlightPc
<1>3. PICK G, Z : Flight(G, Z) /\ FlightFacts(G, Z)
  BY <1>1, FlightOf DEF FlightPc
<1>4. /\ Space(G, Z, hdr.size) /\ HeadAt(G, Z) /\ Undoable(G, Z) /\ At(G, Z) /\ Job(G)
  BY <1>3 DEF Flight
<1> DEFINE F == G.F
           L == Len(F)
<1>5. F \in Seq(Nat) /\ L \in Nat /\ L >= 1 /\ Z.k \in Nat /\ Z.k < L /\ put \in FlightPut
      /\ Z.V \in Seq(Nat) /\ Z.K \in Seq(Nat)
  BY <1>3 DEF FlightFacts
<1>6. /\ Len(Chain(Z)) >= 1 /\ put.ret = Chain(Z)[1] /\ Strung(mem, Chain(Z), Goal)
      /\ IF put.flag THEN put.cur = F[Z.k + 1] ELSE put.tail = F[L] /\ Z.k = L - 1
      /\ IF put.what = "key" THEN ValueDone(Z) ELSE Z.K = <<>>
  BY <1>1, <1>4 DEF At, AllocPc
<1>7. Z.h = Z.k + 1 /\ hdr.head = F[Z.k + 1] /\ hdr.tail = F[L]
  BY <1>1, <1>4 DEF HeadAt
<1>8. (IF put.flag THEN put.cur ELSE put.tail) = hdr.head
  <2>1. Z.k = L - 1 => Z.k + 1 = L
    BY <1>5
  <2> QED BY <2>1, <1>6, <1>7
<1>9. hdr' = hdr
  BY <1>1, <1>2, <1>8 DEF FileTypeOK
<1>10. SameBackup /\ FileTypeOK'
  BY <1>1, <1>2, <1>9 DEF FileTypeOK, SameBackup
<1>11. (Space(G, Z, hdr.size))'
  BY <1>4, <1>9 DEF Space
<1>12. ASSUME JobSame, put'.pc \in {"alloc", "newtab", "tab"}, put'.pc = "alloc" => put.insert,
              At(G, Z)'
       PROVE  FileInv'
  <2>1. HeadAt(G, Z)'
    BY <1>1, <1>4, <1>7, <1>9, <1>12 DEF HeadAt, JobSame
  <2>2. Undoable(G, Z)'
    BY <1>1, <1>4, <1>9, <1>12 DEF Undoable, JobSame
  <2>3. Z.k >= Z.k
    BY <1>5
  <2>4. Flight(G, Z)'
    BY <2>1, <2>2, <2>3, <1>1, <1>3, <1>5, <1>10, <1>11, <1>12, NoWrite
  <2> QED BY <2>4, <1>2, <1>9, <1>10, FlightStep
<1>13. put.ret \in Nat /\ Len(put.key) \in Nat /\ Len(put.val) \in Nat /\ put.key \in Seq(Nat)
       /\ put.cur_tab \in Tab
  <2>1. put.key \in Seq(Nat \ {0}) /\ put.val \in Seq(Nat \ {0})
    BY <1>5, GoalIs
  <2> QED BY <2>1, <1>5 DEF FlightPut
<1>14. CASE put.what = "key"
  <2>1. put' = [put EXCEPT !.pc = "newtab", !.cur_tab.key = put.ret,
                           !.cur_tab.key_len = Len(put.key)]
    BY <1>14 DEF AllocEnd
  <2>2. put.insert
    BY <1>4, <1>14 DEF Job
  <2> DEFINE t == [put.cur_tab EXCEPT !.key = put.ret, !.key_len = Len(put.key)]
  <2>3. t \in Tab /\ t.key = put.ret /\ t.value = put.cur_tab.value
    BY <1>13 DEF Tab
  <2>4. put' = [put EXCEPT !.pc = "newtab", !.cur_tab = t]
    BY <2>1, <1>5 DEF FlightPut
  <2> HIDE DEF t
  <2>5. put' \in FlightPut
    BY <2>3, <2>4, <1>5 DEF FlightPut, FlightPc
  <2>6. /\ put'.pc = "newtab" /\ put'.cur_tab = t /\ put'.what = put.what
        /\ put'.key = put.key /\ put'.val = put.val
        /\ put'.insert = put.insert /\ put'.cur_off = put.cur_off /\ put'.old = put.old
    BY <2>4, <1>5 DEF FlightPut
  <2>7. JobSame
    BY <2>2, <2>5, <2>6 DEF JobSame
  <2>8. Chain(Z) = Z.K /\ Goal = put.key
    BY <1>14 DEF Chain, Goal
  <2>9. ValueDone(Z)' /\ KeyDone(Z)'
    BY <2>3, <2>6, <2>8, <1>1, <1>6, <1>14 DEF ValueDone, KeyDone
  <2>10. At(G, Z)'
    BY <2>2, <2>6, <2>9 DEF At, AllocPc
  <2> QED BY <2>6, <2>7, <2>10, <1>12
<1>15. CASE put.what # "key"
  <2>0. put.what = "value"
    BY <1>5, <1>15 DEF FlightPut
  <2> DEFINE t == [put.cur_tab EXCEPT !.value = put.ret, !.value_len = Len(put.val)]
             p == [put EXCEPT !.cur_tab.value = put.ret, !.cur_tab.value_len = Len(put.val)]
  <2>1. put' = IF put.insert THEN Alloc(p, "key", put.key) ELSE [p EXCEPT !.pc = "tab"]
    BY <1>15 DEF AllocEnd
  <2>2. t \in Tab /\ t.value = put.ret /\ t.next = put.cur_tab.next /\ t.key = put.cur_tab.key
    BY <1>13 DEF Tab
  <2>3. p = [put EXCEPT !.cur_tab = t]
    BY <1>5 DEF FlightPut
  <2> HIDE DEF t, p
  <2>4. Chain(Z) = Z.V /\ Goal = put.val /\ Z.K = <<>>
    BY <2>0, <1>6 DEF Chain, Goal
  <2>5. CASE put.insert
    <3>1. put' = [put EXCEPT !.cur_tab = t, !.pc = "alloc", !.what = "key", !.src = put.key]
      BY <2>1, <2>3, <2>5, <1>5 DEF Alloc, FlightPut
    <3>2. put' \in FlightPut
      BY <3>1, <2>2, <1>5, <1>13 DEF FlightPut, FlightPc
    <3>3. /\ put'.pc = "alloc" /\ put'.cur_tab = t /\ put'.what = "key"
          /\ put'.key = put.key /\ put'.val = put.val /\ put'.src = put.key
          /\ put'.insert = put.insert /\ put'.cur_off = put.cur_off /\ put'.old = put.old
      BY <3>1, <1>5 DEF FlightPut
    <3>4. JobSame
      BY <2>5, <3>2, <3>3 DEF JobSame
    <3>5. ValueDone(Z)'
      BY <2>2, <2>4, <3>3, <1>1, <1>6 DEF ValueDone
    <3>6. Chain(Z)' = <<>> /\ Goal' = put'.src
      BY <2>4, <3>3 DEF Chain, Goal
    <3>7. At(G, Z)'
      BY <3>3, <3>5, <3>6 DEF At, AllocPc
    <3> QED BY <2>5, <3>3, <3>4, <3>7, <1>12
  <2>6. CASE ~put.insert
    <3>1. put' = [put EXCEPT !.cur_tab = t, !.pc = "tab"]
      BY <2>1, <2>3, <2>6, <1>5 DEF FlightPut
    <3>2. put' \in FlightPut
      BY <3>1, <2>2, <1>5 DEF FlightPut, FlightPc
    <3>3. /\ put'.pc = "tab" /\ put'.cur_tab = t /\ put'.what = put.what
          /\ put'.key = put.key /\ put'.val = put.val
          /\ put'.insert = put.insert /\ put'.cur_off = put.cur_off /\ put'.old = put.old
      BY <3>1, <1>5 DEF FlightPut
    <3>4. JobSame
      BY <2>2, <3>2, <3>3 DEF JobSame
    <3>5. ValueDone(Z)'
      BY <2>2, <2>4, <3>3, <1>1, <1>6 DEF ValueDone
    <3>6. At(G, Z)'
      BY <2>6, <3>3, <3>5 DEF At, AllocPc
    <3> QED BY <3>3, <3>4, <3>6, <1>12
  <2> QED BY <2>5, <2>6
<1> QED BY <1>14, <1>15

LEMMA NewTabKeeps == FileInv /\ Roomy' /\ NewTab => FileInv'
<1> SUFFICES ASSUME FileInv, Roomy', NewTab PROVE FileInv'
  OBVIOUS
<1>1. /\ put.pc = "newtab" /\ mem' = mem /\ dict' = dict /\ half' = half /\ puts' = puts
      /\ hdr' = [hdr EXCEPT !.size = @ + TabLen]
      /\ put' = [put EXCEPT !.pc = "zerotab", !.cur_tab.next = hdr.size]
  BY DEF NewTab, Grown, get_end
<1>2. FileTypeOK /\ Words \in Nat /\ hdr.backup_flag = 1
  BY <1>1, FlightOf DEF FlightPc
<1>3. PICK G, Z : Flight(G, Z) /\ FlightFacts(G, Z)
  BY <1>1, FlightOf DEF FlightPc
<1>4. /\ Space(G, Z, hdr.size) /\ HeadAt(G, Z) /\ Undoable(G, Z) /\ At(G, Z)
  BY <1>3 DEF Flight
<1> DEFINE F == G.F
           w == <<-4, 0>>
           size2 == hdr.size + 5
<1>0. PICK Y : Y = Beside(Z, Renamed(Z.o, hdr.size, w))
  OBVIOUS
<1>00. Y.o = Renamed(Z.o, hdr.size, w) /\ Y.k = Z.k /\ Y.h = Z.h /\ Y.V = Z.V /\ Y.K = Z.K
  BY <1>0 DEF Beside
<1>5. F \in Seq(Nat) /\ Z.k \in Nat /\ put \in FlightPut /\ hdr.size \in Nat /\ TabLen = 5
  BY <1>3 DEF FlightFacts, TabLen
<1>6. put.insert /\ ValueDone(Z) /\ KeyDone(Z) /\ hdr.size # 0
  <2>1. 1 \in 1 .. Len(F)
    BY <1>3 DEF FlightFacts
  <2>2. F[1] \in Nat /\ F[1] < hdr.size
    BY <2>1, <1>3 DEF FlightFacts
  <2> QED BY <2>2, <1>1, <1>4, <1>5 DEF At
<1>7. Space(G, Y, size2)
  <2>1. Width(w) = 5
    BY DEF Width, TabLen
  <2>2. size2 \in Nat /\ size2 = hdr.size + Width(w)
    BY <2>1, <1>5
  <2> HIDE DEF size2, w
  <2> QED BY <2>2, <1>0, <1>4, <1>5, SpaceBeside
<1> DEFINE t == [put.cur_tab EXCEPT !.next = hdr.size]
<1>8. t \in Tab /\ t.next = hdr.size /\ t.key = put.cur_tab.key /\ t.value = put.cur_tab.value
  BY <1>5 DEF FlightPut, Tab
<1>9. put' = [put EXCEPT !.pc = "zerotab", !.cur_tab = t]
  BY <1>1, <1>5 DEF FlightPut
<1> HIDE DEF t
<1>10. /\ put' \in FlightPut /\ put'.pc = "zerotab" /\ put'.cur_tab = t /\ put'.what = put.what
       /\ put'.key = put.key /\ put'.val = put.val
       /\ put'.insert = put.insert /\ put'.cur_off = put.cur_off /\ put'.old = put.old
  BY <1>5, <1>8, <1>9 DEF FlightPut, FlightPc
<1>11. /\ hdr'.size = size2 /\ hdr'.backup_flag = 1 /\ hdr'.head = hdr.head
       /\ hdr'.tail = hdr.tail /\ SameBackup /\ hdr'.backup_prev = hdr.backup_prev
  <2>1. SameBackup
    BY <1>1, <1>2 DEF FileTypeOK, SameBackup
  <2> QED BY <2>1, <1>1, <1>2, <1>5 DEF FileTypeOK
<1>12. FileTypeOK'
  <2>1. hdr'.size \in 0 .. Words
    BY <1>2, <1>5, <1>11 DEF Roomy
  <2> HIDE DEF size2
  <2> QED BY <1>1, <1>2, <1>5, <1>11, <2>1 DEF FileTypeOK
<1>13. HeadAt(G, Y)'
  BY <1>00, <1>1, <1>4, <1>10, <1>11 DEF HeadAt
<1>14. Undoable(G, Y)'
  BY <1>00, <1>1, <1>4, <1>6, <1>10, <1>11 DEF Undoable
<1>15. At(G, Y)'
  <2>1. ValueDone(Y)' /\ KeyDone(Y)'
    BY <1>00, <1>1, <1>6, <1>8, <1>10 DEF ValueDone, KeyDone
  <2>2. NewTabAt(Y)'
    BY <1>00, <1>6, <1>8, <1>10 DEF NewTabAt, Renamed
  <2> QED BY <2>1, <2>2, <1>6, <1>10 DEF At, AllocPc
<1>16. JobSame
  BY <1>6, <1>10 DEF JobSame
<1>17. Flight(G, Y)'
  <2>1. (Space(G, Y, hdr.size))'
    BY <1>7, <1>11 DEF Space
  <2>2. Y.k >= Z.k /\ Y.k \in Nat /\ put.pc # "neg"
    BY <1>00, <1>1, <1>5
  <2> QED BY <2>1, <2>2, <1>1, <1>3, <1>5, <1>11, <1>13, <1>14, <1>15, <1>16, NoWrite
<1> QED BY <1>11, <1>12, <1>17, FlightStep

LEMMA FreeTailKeeps == FileInv /\ FreeTail => FileInv'
<1> SUFFICES ASSUME FileInv, FreeTail PROVE FileInv'
  OBVIOUS
<1> DEFINE last == CHOOSE b \in Blocks(put.old) : NextAt(b) = 0
<1>1. /\ put.pc = "tail" /\ mem' = mem /\ dict' = dict /\ half' = half /\ puts' = puts
      /\ hdr' = [hdr EXCEPT !.tail = last]
      /\ put' = [put EXCEPT !.pc = "neg"]
  BY DEF FreeTail
<1>2. FileTypeOK /\ Words \in Nat /\ hdr.backup_flag = 1
  BY <1>1, FlightOf DEF FlightPc
<1>3. PICK G, Z : Flight(G, Z) /\ FlightFacts(G, Z)
  BY <1>1, FlightOf DEF FlightPc
<1>4. /\ Space(G, Z, hdr.size) /\ HeadAt(G, Z) /\ Undoable(G, Z) /\ At(G, Z) /\ Job(G)
      /\ Backed(G)
  BY <1>3 DEF Flight
<1>5. put \in FlightPut /\ Z.k \in Nat /\ Len(G.T) \in Nat /\ G.p \in 1 .. Len(G.T)
      /\ Laid(G.T, G.S, Z.o, hdr.size) /\ hdr.size \in Nat /\ hdr.size <= Words
  BY <1>3 DEF FlightFacts
<1> DEFINE c == 2 * G.p + 1
           s == G.S[c]
<1>6. ~put.insert /\ put.old = s[1] /\ G.p # Len(G.T)
  BY <1>1, <1>4 DEF At, Job
<1>7. c \in 2 .. 2 * Len(G.T) - 1
  BY <1>5, <1>6
<1> HIDE DEF c
<1>8. s \in Seq(Nat) /\ Len(s) >= 1 /\ \A i \in 1 .. Len(s) : s[i] \in Nat \ {0}
  BY <1>5, <1>7, LaidAt DEF Laid
<1>9. StringWalk(s[1]) = s
  <2>1. DOMAIN mem = 0 .. Words - 1
    BY <1>2 DEF FileTypeOK
  <2>2. Filed(mem, G.T, G.S, G.X)
    BY <1>4 DEF Backed
  <2> QED BY <2>1, <2>2, <1>2, <1>5, <1>7, StringIs
<1>10. Links(mem, s, 0)
  BY <1>4, <1>7 DEF Backed, Filed, Strung
<1> HIDE DEF s
<1>11. last = s[Len(s)]
  <2>1. Blocks(put.old) = {s[i] : i \in 1 .. Len(s)}
    BY <1>6, <1>8, <1>9 DEF Blocks, Nodes
  <2>2. ASSUME NEW i \in 1 .. Len(s) PROVE NextAt(s[i]) = 0 <=> i = Len(s)
    <3>1. i # Len(s) => i + 1 \in 1 .. Len(s)
      BY <1>8
    <3>2. NextAt(s[i]) = IF i = Len(s) THEN 0 ELSE s[i + 1]
      BY <1>10 DEF Links, NextAt
    <3> QED BY <3>1, <3>2, <1>8
  <2>3. Len(s) \in 1 .. Len(s)
    BY <1>8
  <2>4. s[Len(s)] \in Blocks(put.old) /\ NextAt(s[Len(s)]) = 0
    BY <2>1, <2>2, <2>3
  <2>5. \A b \in Blocks(put.old) : NextAt(b) = 0 => b = s[Len(s)]
    BY <2>1, <2>2
  <2> QED BY <2>4, <2>5
<1> HIDE DEF last
<1>12. last \in Nat \ {0}
  <2>1. Len(s) \in 1 .. Len(s)
    BY <1>8
  <2> QED BY <2>1, <1>8, <1>11
<1>13. /\ put'.pc = "neg" /\ put'.what = put.what /\ put' \in FlightPut
       /\ put'.key = put.key /\ put'.val = put.val /\ put'.cur_tab = put.cur_tab
       /\ put'.insert = put.insert /\ put'.cur_off = put.cur_off /\ put'.old = put.old
  BY <1>1, <1>5 DEF FlightPut, FlightPc
<1>14. /\ hdr'.size = hdr.size /\ hdr'.backup_flag = 1 /\ hdr'.head = hdr.head
       /\ hdr'.tail = last /\ SameBackup /\ hdr'.backup_prev = hdr.backup_prev
  <2>1. SameBackup
    BY <1>1, <1>2 DEF FileTypeOK, SameBackup
  <2> QED BY <2>1, <1>1, <1>2 DEF FileTypeOK
<1>15. FileTypeOK'
  BY <1>1, <1>2, <1>12, <1>14 DEF FileTypeOK
<1>16. HeadAt(G, Z)'
  BY <1>1, <1>4, <1>6, <1>13, <1>14 DEF HeadAt
<1>17. Undoable(G, Z)'
  BY <1>1, <1>4, <1>6, <1>13, <1>14 DEF Undoable
<1>18. At(G, Z)'
  <2>1. ValueDone(Z)'
    BY <1>1, <1>4, <1>13 DEF At, ValueDone
  <2>2. /\ mem'[put'.cur_off + 3] = put'.cur_tab.value
        /\ mem'[G.F[Len(G.F)] + BlockLen] = put'.old
    BY <1>1, <1>4, <1>6, <1>13 DEF At
  <2>3. G.S[2 * G.p + 1] = s
    BY DEF s, c
  <2> QED BY <2>1, <2>2, <2>3, <1>6, <1>11, <1>13, <1>14 DEF At, AllocPc
<1>19. JobSame
  BY <1>13 DEF JobSame
<1>20. Flight(G, Z)'
  <2>1. (Space(G, Z, hdr.size))'
    BY <1>4, <1>14 DEF Space
  <2>2. Z.k >= Z.k /\ put.pc # "neg"
    BY <1>1, <1>5
  <2> QED BY <2>1, <2>2, <1>1, <1>3, <1>5, <1>14, <1>16, <1>17, <1>18, <1>19, NoWrite
<1> QED BY <1>14, <1>15, <1>20, FlightStep

-----------------------------------------------------------------------------
(* The writes of a put                                                        *)

\* Parts of sequences, from the library.
SubFacts(s, a, n, w) ==
  w \in Seq(Nat) /\ Len(w) = n - a + 1 /\ \A i \in 1 .. n - a + 1 : w[i] = s[a + i - 1]
CatFacts(s, t, w) ==
  /\ w \in Seq(Nat) /\ Len(w) = Len(s) + Len(t)
  /\ \A i \in 1 .. Len(s) : w[i] = s[i]
  /\ \A i \in 1 .. Len(t) : w[Len(s) + i] = t[i]

LEMMA SubIs ==
  ASSUME NEW s \in Seq(Nat), NEW a \in Nat, NEW n \in Nat, a >= 1, n <= Len(s), a <= n + 1
  PROVE  SubFacts(s, a, n, SubSeq(s, a, n))
<1>1. \A i \in a .. n : s[i] \in Nat
  BY ElementOfSeq
<1>2. /\ SubSeq(s, a, n) \in Seq(Nat)
      /\ Len(SubSeq(s, a, n)) = IF a <= n THEN n - a + 1 ELSE 0
      /\ \A i \in 1 .. n - a + 1 : SubSeq(s, a, n)[i] = s[a + i - 1]
  <2>1. a \in Int /\ n \in Int
    OBVIOUS
  <2> QED BY <2>1, <1>1, SubSeqProperties
<1>3. ~(a <= n) => n - a + 1 = 0
  OBVIOUS
<1> QED BY <1>2, <1>3 DEF SubFacts

LEMMA CatIs ==
  ASSUME NEW s \in Seq(Nat), NEW t \in Seq(Nat)
  PROVE  CatFacts(s, t, s \o t)
<1>1. /\ s \o t \in Seq(Nat) /\ Len(s \o t) = Len(s) + Len(t)
      /\ \A i \in 1 .. Len(s) + Len(t) :
           (s \o t)[i] = IF i <= Len(s) THEN s[i] ELSE t[i - Len(s)]
  BY ConcatProperties
<1> DEFINE w == s \o t
           a == Len(s)
           b == Len(t)
<1>2. a \in Nat /\ b \in Nat
  OBVIOUS
<1>3. \A i \in 1 .. a + b : w[i] = IF i <= a THEN s[i] ELSE t[i - a]
  BY <1>1
<1> HIDE DEF w, a, b
<1>4. ASSUME NEW i \in 1 .. a PROVE w[i] = s[i]
  <2>1. i \in 1 .. a + b /\ i <= a
    BY <1>2
  <2> QED BY <2>1, <1>3
<1>5. ASSUME NEW i \in 1 .. b PROVE w[a + i] = t[i]
  <2>1. a + i \in 1 .. a + b /\ ~(a + i <= a) /\ (a + i) - a = i
    BY <1>2
  <2> QED BY <2>1, <1>3
<1> QED BY <1>1, <1>4, <1>5 DEF CatFacts, w, a, b

\* What is left of g after m letters.
SrcFacts(g, m, s) ==
  s \in Seq(Nat) /\ Len(s) = Len(g) - m /\ \A q \in 1 .. Len(s) : s[q] = g[m + q]

LEMMA SrcIs ==
  ASSUME NEW g \in Seq(Nat), NEW m \in Nat, m < Len(g), NEW s, s = SubSeq(g, m + 1, Len(g))
  PROVE  SrcFacts(g, m, s)
<1>1. Len(g) \in Nat
  OBVIOUS
<1>2. s \in Seq(Nat)
  OBVIOUS
<1>3. Len(s) = Len(g) - m
  BY <1>1
<1>4. ASSUME NEW q \in 1 .. Len(s) PROVE s[q] = g[m + q]
  <2>1. q \in 1 .. Len(g) - m
    BY <1>3
  <2>2. SubFacts(g, m + 1, Len(g), s)
    <3>1. m + 1 \in Nat /\ m + 1 >= 1 /\ Len(g) <= Len(g) /\ m + 1 <= Len(g) + 1
      BY <1>1
    <3> QED BY <3>1, <1>1, SubIs
  <2>3. q \in 1 .. Len(g) - (m + 1) + 1 /\ (m + 1) + q - 1 = m + q
    BY <2>1, <1>1
  <2> QED BY <2>2, <2>3 DEF SubFacts
<1> QED BY <1>2, <1>3, <1>4 DEF SrcFacts

LEMMA RestIs ==
  ASSUME NEW g \in Seq(Nat), NEW m \in Nat, m < Len(g), NEW s, s = SubSeq(g, m + 1, Len(g)),
         Len(s) > BlockLen
  PROVE  SubSeq(s, BlockLen + 1, Len(s)) = SubSeq(g, m + BlockLen + 1, Len(g))
         /\ m + BlockLen < Len(g)
<1>1. SrcFacts(g, m, s)
  BY SrcIs
<1>2. Len(g) \in Nat /\ Len(s) \in Nat /\ Len(s) = Len(g) - m /\ s \in Seq(Nat)
  BY <1>1 DEF SrcFacts
<1> DEFINE a == SubSeq(s, 8, Len(s))
           b == SubSeq(g, m + 8, Len(g))
           n == Len(g) - m - 7
<1>3. Len(s) > 7 /\ n \in Nat /\ BlockLen = 7
  BY <1>2 DEF BlockLen
<1>4. a \in Seq(Nat) /\ Len(a) = n /\ \A q \in 1 .. n : a[q] = s[q + 7]
  <2>1. SubFacts(s, 8, Len(s), a)
    <3> DEFINE e == 8
               l == Len(s)
    <3>1. e \in Nat /\ l \in Nat /\ e >= 1 /\ l <= Len(s) /\ e <= l + 1 /\ a = SubSeq(s, e, l)
      BY <1>2, <1>3
    <3> HIDE DEF e, l, a
    <3>2. SubFacts(s, e, l, SubSeq(s, e, l))
      BY <1>2, <3>1, SubIs
    <3> QED BY <3>1, <3>2 DEF e, l
  <2>2. Len(s) - 8 + 1 = n /\ \A q \in 1 .. n : 8 + q - 1 = q + 7
    BY <1>2, <1>3
  <2> HIDE DEF a, n
  <2> QED BY <2>1, <2>2 DEF SubFacts
<1>5. b \in Seq(Nat) /\ Len(b) = n /\ \A q \in 1 .. n : b[q] = g[m + (q + 7)]
  <2>1. SubFacts(g, m + 8, Len(g), b)
    <3> DEFINE e == m + 8
               l == Len(g)
    <3>1. e \in Nat /\ l \in Nat /\ e >= 1 /\ l <= Len(g) /\ e <= l + 1 /\ b = SubSeq(g, e, l)
      BY <1>2, <1>3
    <3> HIDE DEF e, l, b
    <3>2. SubFacts(g, e, l, SubSeq(g, e, l))
      BY <3>1, SubIs
    <3> QED BY <3>1, <3>2 DEF e, l
  <2>2. Len(g) - (m + 8) + 1 = n /\ \A q \in 1 .. n : (m + 8) + q - 1 = m + (q + 7)
    BY <1>2, <1>3
  <2> HIDE DEF b, n
  <2> QED BY <2>1, <2>2 DEF SubFacts
<1>6. ASSUME NEW q \in 1 .. n PROVE a[q] = b[q]
  <2>1. q + 7 \in 1 .. Len(s)
    BY <1>2, <1>3
  <2>2. s[q + 7] = g[m + (q + 7)]
    BY <2>1, <1>1 DEF SrcFacts
  <2> HIDE DEF a, b, n
  <2> QED BY <2>2, <1>4, <1>5
<1>7. a = b
  <2> HIDE DEF a, b, n
  <2> QED BY <1>4, <1>5, <1>6, SeqEqual
<1>8. m + BlockLen < Len(g) /\ BlockLen + 1 = 8 /\ m + BlockLen + 1 = m + 8
  BY <1>2, <1>3
<1> QED BY <1>7, <1>8

PartFacts(g, m, w) ==
  w \in Seq(Nat) /\ Len(w) = BlockLen
    /\ \A j \in 0 .. BlockLen - 1 : w[j + 1] = Letter(g, m + j + 1)

LEMMA PartIs ==
  ASSUME NEW g \in Seq(Nat), NEW m \in Nat, m < Len(g), NEW s, s = SubSeq(g, m + 1, Len(g))
  PROVE  PartFacts(g, m, SubSeq(s \o <<0, 0, 0, 0, 0, 0, 0>>, 1, BlockLen))
<1> DEFINE z == <<0, 0, 0, 0, 0, 0, 0>>
           w == SubSeq(s \o z, 1, BlockLen)
<1>1. SrcFacts(g, m, s)
  BY SrcIs
<1>2. Len(g) \in Nat /\ Len(s) \in Nat /\ Len(s) = Len(g) - m /\ s \in Seq(Nat)
  BY <1>1 DEF SrcFacts
<1>3. z \in Seq(Nat) /\ Len(z) = 7 /\ \A j \in 1 .. 7 : z[j] = 0
  OBVIOUS
<1> HIDE DEF z
<1>4. CatFacts(s, z, s \o z)
  BY <1>2, <1>3, CatIs
<1> DEFINE sz == s \o z
<1>a. sz \in Seq(Nat) /\ Len(sz) = Len(s) + 7
  BY <1>3, <1>4 DEF CatFacts
<1> HIDE DEF sz
<1>5. w \in Seq(Nat) /\ Len(w) = 7 /\ \A i \in 1 .. 7 : w[i] = sz[i]
  <2>1. SubFacts(sz, 1, 7, SubSeq(sz, 1, 7))
    BY <1>2, <1>a, SubIs
  <2>2. w = SubSeq(sz, 1, 7)
    BY DEF sz, BlockLen
  <2>3. 7 - 1 + 1 = 7 /\ \A i \in 1 .. 7 : 1 + i - 1 = i
    OBVIOUS
  <2> HIDE DEF w
  <2> QED BY <2>1, <2>2, <2>3 DEF SubFacts
<1> HIDE DEF w
<1>6. ASSUME NEW j \in 0 .. BlockLen - 1 PROVE w[j + 1] = Letter(g, m + j + 1)
  <2>1. j + 1 \in 1 .. 7 /\ j \in Nat
    BY DEF BlockLen
  <2>2. w[j + 1] = sz[j + 1]
    BY <2>1, <1>5
  <2>3. CASE j + 1 <= Len(s)
    <3>1. j + 1 \in 1 .. Len(s)
      BY <2>1, <2>3, <1>2
    <3>2. s[j + 1] = g[m + (j + 1)] /\ sz[j + 1] = s[j + 1]
      BY <3>1, <1>1, <1>4 DEF SrcFacts, CatFacts, sz
    <3>3. m + j + 1 <= Len(g) /\ m + (j + 1) = m + j + 1
      BY <2>1, <2>3, <1>2
    <3> QED BY <2>2, <3>2, <3>3 DEF Letter
  <2>4. CASE ~(j + 1 <= Len(s))
    <3> DEFINE i == j + 1 - Len(s)
    <3>0. PICK l : l = Len(s)
      OBVIOUS
    <3>a. l \in Nat /\ j \in 0 .. 6 /\ l >= 1 /\ ~(j + 1 <= l) /\ i = j + 1 - l
      BY <3>0, <2>1, <2>4, <1>2
    <3>b. i \in 1 .. 7 /\ l + i = j + 1
      <4> HIDE DEF i
      <4> QED BY ONLY <3>a
    <3>1. i \in 1 .. 7 /\ Len(s) + i = j + 1
      BY <3>0, <3>b
    <3> HIDE DEF i
    <3>2. sz[Len(s) + i] = z[i]
      BY <3>1, <1>3, <1>4 DEF CatFacts, sz
    <3>3. ~(m + j + 1 <= Len(g))
      BY <2>1, <2>4, <1>2
    <3> QED BY <2>2, <3>1, <3>2, <3>3, <1>3 DEF Letter
  <2> QED BY <2>3, <2>4
<1>7. BlockLen = 7
  BY DEF BlockLen
<1>8. PartFacts(g, m, w)
  BY <1>5, <1>6, <1>7 DEF PartFacts
<1> QED BY <1>8 DEF w, z

Labels(T, S, o) ==
  /\ \A c \in 2 .. 2 * Len(T) - 1 : \A i \in 1 .. Len(S[c]) : o[S[c][i]] = <<c, i>>
  /\ \A i \in 1 .. Len(T) : o[T[i]] = <<0, i>>

LEMMA LabelsAt ==
  ASSUME NEW T, NEW S, NEW o, NEW size, Laid(T, S, o, size), size \in Nat
  PROVE  Labels(T, S, o)
BY LaidAt DEF Labels

\* Where a put writes: not into what is stored, but for its own tab.
Region(G, Z, b) ==
  b \in DOMAIN Z.o /\ (Z.o[b][1] \in {1, -1, -2, -3, -4} \/ Z.o[b] = <<0, G.p>>)
TabSamePast(G) == TabSame(mem, G.T, G.S, G.p) => TabSame(mem', G.T, G.S, G.p)

LEMMA FlightWrite ==
  ASSUME FileTypeOK, Words \in Nat, NEW G, NEW Z, Flight(G, Z), FlightFacts(G, Z),
         NEW b, Region(G, Z, b), NEW d \in Nat, NEW ws \in Seq(Nat), SameBackup,
         d + Len(ws) <= Width(Z.o[b]), NEW e, e = b + d, mem' = Written(e, ws)
  PROVE  /\ Wrote(mem, mem', Z.o, b, d, ws) /\ Else(mem, mem', Z.o, b)
         /\ Backed(G)'
         /\ (Z.o[b][1] # 0 => TabSamePast(G))
<1>1. /\ hdr.size \in Nat /\ hdr.size <= Words /\ mem \in [0 .. Words - 1 -> Nat]
      /\ Laid(G.T, G.S, Z.o, hdr.size) /\ Placed(Z.o, hdr.size)
      /\ Len(G.T) \in Nat /\ G.p \in 1 .. Len(G.T) /\ b \in DOMAIN Z.o
  BY DEF FlightFacts, Region
<1>a. Labels(G.T, G.S, Z.o)
  BY <1>1, LabelsAt
<1>2. Wrote(mem, mem', Z.o, b, d, ws)
  BY <1>1, WriteAt
<1>3. Else(mem, mem', Z.o, b)
  BY <1>2 DEF Wrote
<1>4. NoBlock(G.T, G.S, b)
  <2> SUFFICES ASSUME NEW c \in 2 .. 2 * Len(G.T) - 1, NEW i \in 1 .. Len(G.S[c])
               PROVE  G.S[c][i] # b
    BY DEF NoBlock
  <2>1. Z.o[G.S[c][i]] = <<c, i>>
    BY <1>a DEF Labels
  <2>3. Len(G.T) \in Nat /\ c >= 2 /\ c \in Int
    BY <1>1
  <2>2. c \notin {1, -1, -2, -3, -4} /\ c # 0
    BY ONLY <2>3
  <2>4. PICK a : a = G.S[c][i]
    OBVIOUS
  <2>5. Z.o[a] = <<c, i>>
    BY <2>1, <2>4
  <2>6. a # b
    BY <2>2, <2>5 DEF Region
  <2> QED BY <2>4, <2>6
<1>5. \A i \in 1 .. Len(G.T) : Z.o[G.T[i]] = <<0, i>>
  BY <1>a DEF Labels
<1>6. \A i \in 1 .. Len(G.T) : i # G.p => G.T[i] # b
  BY <1>5 DEF Region
<1>7. Backed(G)'
  <2>1. Backed(G)
    BY DEF Flight
  <2> QED BY <2>1, <1>1, <1>3, <1>4, <1>6, BackedElse
<1>8. ASSUME Z.o[b][1] # 0 PROVE TabSamePast(G)
  <2>1. TabsKept(mem, mem', G.T, G.S, b)
    BY <1>1, <1>3, <1>4, LaidElse
  <2>2. G.T[G.p] # b
    BY <1>1, <1>5, <1>8
  <2> QED BY <2>1, <2>2, <1>1 DEF TabsKept, TabSamePast
<1> QED BY <1>2, <1>3, <1>7, <1>8

LEMMA FreeKept ==
  ASSUME NEW G, NEW Z, FlightFacts(G, Z), NEW b, Else(mem, mem', Z.o, b), NEW x,
         FreeBut(mem, G.F, x),
         \A i \in 1 .. Len(G.F) - 1 :
           i # x /\ G.F[i] = b => mem'[G.F[i] + BlockLen] = G.F[i + 1]
  PROVE  FreeBut(mem', G.F, x)
<1> SUFFICES ASSUME NEW i \in 1 .. Len(G.F) - 1, i # x
             PROVE  mem'[G.F[i] + BlockLen] = G.F[i + 1]
  BY DEF FreeBut
<1>1. i \in 1 .. Len(G.F)
  BY DEF FlightFacts
<1>2. CASE G.F[i] # b
  <2>1. G.F[i] \in DOMAIN Z.o /\ Width(Z.o[G.F[i]]) = 8
    BY <1>1 DEF FlightFacts
  <2>2. mem'[G.F[i] + BlockLen] = mem[G.F[i] + BlockLen]
    BY <2>1, <1>2, BlockElse
  <2> QED BY <2>2 DEF FreeBut
<1> QED BY <1>2

LEMMA AheadKept ==
  ASSUME NEW G, NEW Z, FlightFacts(G, Z), NEW b, Else(mem, mem', Z.o, b), Ahead(mem, G, Z),
         \A i \in Z.k + 1 .. Len(G.F) - 1 : G.F[i] # b
  PROVE  Ahead(mem', G, Z)
<1> SUFFICES ASSUME NEW i \in Z.k + 1 .. Len(G.F) - 1
             PROVE  mem'[G.F[i] + BlockLen] = G.F[i + 1]
  BY DEF Ahead
<1>1. i \in 1 .. Len(G.F)
  BY DEF FlightFacts
<1>2. G.F[i] \in DOMAIN Z.o /\ Width(Z.o[G.F[i]]) = 8
  BY <1>1 DEF FlightFacts
<1>3. mem'[G.F[i] + BlockLen] = mem[G.F[i] + BlockLen]
  BY <1>2, BlockElse
<1> QED BY <1>3 DEF Ahead

\* A string that was written stays.
LEMMA DoneKept ==
  ASSUME NEW G, NEW Z, FlightFacts(G, Z), NEW b, Else(mem, mem', Z.o, b)
  PROVE  /\ Z.o[b][1] # -1 => \A s : Strung(mem, Z.V, s) => Strung(mem', Z.V, s)
         /\ Z.o[b][1] # -2 => \A s : Strung(mem, Z.K, s) => Strung(mem', Z.K, s)
<1>1. Z.V \in Seq(Nat) /\ Z.K \in Seq(Nat) /\ Owns(Z.o, -1, Z.V, 1) /\ Owns(Z.o, -2, Z.K, 1)
  BY DEF FlightFacts, Owns
<1>2. ASSUME Z.o[b][1] # -1, NEW s, Strung(mem, Z.V, s) PROVE Strung(mem', Z.V, s)
  <2>1. \A i \in 1 .. Len(Z.V) : Z.V[i] # b
    BY <1>1, <1>2 DEF Owns
  <2>2. -1 # 0 /\ -1 # -4
    OBVIOUS
  <2> DEFINE x == -1
  <2>3. x # 0 /\ x # -4 /\ Owns(Z.o, x, Z.V, 1)
    BY <1>1, <2>2
  <2> HIDE DEF x
  <2> QED BY <2>1, <2>3, <1>1, <1>2, StrungElse
<1>3. ASSUME Z.o[b][1] # -2, NEW s, Strung(mem, Z.K, s) PROVE Strung(mem', Z.K, s)
  <2>1. \A i \in 1 .. Len(Z.K) : Z.K[i] # b
    BY <1>1, <1>3 DEF Owns
  <2>2. -2 # 0 /\ -2 # -4
    OBVIOUS
  <2> DEFINE x == -2
  <2>3. x # 0 /\ x # -4 /\ Owns(Z.o, x, Z.K, 1)
    BY <1>1, <2>2
  <2> HIDE DEF x
  <2> QED BY <2>1, <2>3, <1>1, <1>3, StrungElse
<1> QED BY <1>2, <1>3

\* A write of the put in progress, of ws at b + d.
PutWrote(G, Z, b, d, ws) ==
  /\ Wrote(mem, mem', Z.o, b, d, ws) /\ Else(mem, mem', Z.o, b)
  /\ FileTypeOK' /\ hdr'.backup_flag = 1 /\ Backed(G)' /\ Job(G)'
  /\ Z.o[b][1] # 0 => Unseen(G)'

LEMMA PutWrites ==
  ASSUME FileInv, put.pc \in FlightPc, put.pc # "neg", NEW G, NEW Z, Flight(G, Z),
         FlightFacts(G, Z), NEW b, Region(G, Z, b), NEW d, d \in Nat, NEW ws, ws \in Seq(Nat),
         d + Len(ws) <= Width(Z.o[b]), NEW e, e = b + d, mem' = Written(e, ws),
         hdr' = hdr, dict' = dict, half' = half, puts' = puts, JobSame
  PROVE  PutWrote(G, Z, b, d, ws)
<1>1. FileTypeOK /\ Words \in Nat /\ hdr.backup_flag = 1
  BY FlightHas
<1>2. SameBackup
  BY <1>1 DEF SameBackup
<1>3. /\ Wrote(mem, mem', Z.o, b, d, ws) /\ Else(mem, mem', Z.o, b)
      /\ Backed(G)'
      /\ (Z.o[b][1] # 0 => TabSamePast(G))
  BY <1>1, <1>2, FlightWrite
<1>4. mem' \in [0 .. Words - 1 -> Nat]
  BY <1>3 DEF Wrote
<1>5. FileTypeOK'
  BY <1>1, <1>4 DEF FileTypeOK
<1>6. Job(G) /\ Unseen(G)
  BY DEF Flight
<1>7. Job(G)'
  BY <1>6, JobKept
<1>8. TabSamePast(G) => Unseen(G)'
  BY <1>6 DEF TabSamePast, Unseen
<1> QED BY <1>1, <1>3, <1>5, <1>7, <1>8 DEF PutWrote

\* The blocks of the text being written, the last of them last.
ChainFacts(Z, c, n, b) ==
  /\ c = Chain(Z) /\ c \in Seq(Nat) /\ n = Len(c) /\ n \in Nat /\ n >= 1 /\ b = c[n]
  /\ \A i \in 1 .. n : c[i] \in Nat /\ c[i] \in DOMAIN Z.o /\ Z.o[c[i]] = <<Name, i>>
                       /\ Width(Z.o[c[i]]) = 8
  /\ \A i \in 1 .. n - 1 : i \in 1 .. n /\ c[i] # b
  /\ b \in Nat /\ b \in DOMAIN Z.o /\ Z.o[b] = <<Name, n>> /\ Width(Z.o[b]) = 8
  /\ Name \in {-1, -2} /\ (put.what = "value" <=> Name = -1)

LEMMA ChainIs ==
  ASSUME NEW G, NEW Z, FlightFacts(G, Z), NEW m, Filling(G, Z, m)
  PROVE  ChainFacts(Z, Chain(Z), Len(Chain(Z)), put.prev) /\ Region(G, Z, put.prev)
<1> DEFINE c == Chain(Z)
           n == Len(c)
           b == put.prev
<1>1. n >= 1 /\ b = c[n]
  BY DEF Filling
<1>2. c \in Seq(Nat)
  BY DEF FlightFacts, Chain
<1>3. n \in Nat
  BY <1>2
<1>4. Name \in {-1, -2} /\ (put.what = "value" <=> Name = -1)
  BY DEF Name
<1>5. \A i \in 1 .. n : c[i] \in DOMAIN Z.o /\ Z.o[c[i]] = <<Name, i>>
  BY DEF FlightFacts, Chain, Name
<1> HIDE DEF c, b
<1>6. \A w : w[1] \in {-1, -2} => Width(w) = 8
  BY DEF Width, StringLen, BlockLen
<1>7. \A i \in 1 .. n : c[i] \in Nat /\ Width(Z.o[c[i]]) = 8
  <2> SUFFICES ASSUME NEW i \in 1 .. n PROVE c[i] \in Nat /\ Width(Z.o[c[i]]) = 8
    OBVIOUS
  <2>1. Z.o[c[i]][1] = Name
    BY <1>5
  <2> QED BY <2>1, <1>2, <1>4, <1>6
<1>8. n \in 1 .. n
  BY <1>1, <1>3
<1>9. ASSUME NEW i \in 1 .. n - 1 PROVE i \in 1 .. n /\ c[i] # b
  <2>1. i \in 1 .. n /\ i # n
    BY <1>3
  <2>2. <<Name, i>> # <<Name, n>>
    BY <2>1
  <2> QED BY <2>1, <2>2, <1>1, <1>5, <1>8
<1>10. ChainFacts(Z, c, n, b)
  BY <1>1, <1>2, <1>3, <1>4, <1>5, <1>7, <1>8, <1>9 DEF ChainFacts, c
<1>11. Region(G, Z, b)
  <2>1. b \in DOMAIN Z.o /\ Z.o[b][1] = Name
    BY <1>1, <1>5, <1>8
  <2> QED BY <2>1, <1>4 DEF Region
<1> QED BY <1>10, <1>11 DEF c, b

\* The blocks before the last are as before.
LEMMA ChainElse ==
  ASSUME NEW Z, NEW c, NEW n, NEW b, ChainFacts(Z, c, n, b), Else(mem, mem', Z.o, b)
  PROVE  \A i \in 1 .. n - 1 :
           /\ mem'[c[i] + BlockLen] = mem[c[i] + BlockLen]
           /\ \A j \in 0 .. BlockLen - 1 : mem'[c[i] + j] = mem[c[i] + j]
<1> SUFFICES ASSUME NEW i \in 1 .. n - 1
             PROVE  /\ mem'[c[i] + BlockLen] = mem[c[i] + BlockLen]
                    /\ \A j \in 0 .. BlockLen - 1 : mem'[c[i] + j] = mem[c[i] + j]
  OBVIOUS
<1>1. i \in 1 .. n /\ c[i] # b
  BY DEF ChainFacts
<1>2. c[i] \in DOMAIN Z.o /\ Width(Z.o[c[i]]) = 8
  BY <1>1 DEF ChainFacts
<1>3. mem'[c[i] + BlockLen] = mem[c[i] + BlockLen]
  BY <1>1, <1>2, BlockElse
<1>4. \A j \in 0 .. BlockLen - 1 : j \in Nat /\ j < 8
  BY DEF BlockLen
<1> QED BY <1>1, <1>2, <1>3, <1>4 DEF Else

\* What a write to the last block of the chain leaves of the rest.
ChainWrote(G, Z, b) ==
  /\ put.what = "key" /\ ValueDone(Z) => Strung(mem', Z.V, put.val)
  /\ Ahead(mem', G, Z)

LEMMA ChainWrites ==
  ASSUME NEW G, NEW Z, FlightFacts(G, Z), NEW c, NEW n, NEW b, ChainFacts(Z, c, n, b),
         Else(mem, mem', Z.o, b), Ahead(mem, G, Z)
  PROVE  ChainWrote(G, Z, b)
<1>1. Z.o[b][1] = Name /\ Name # 1
  BY DEF ChainFacts
<1>2. ASSUME put.what = "key", ValueDone(Z) PROVE Strung(mem', Z.V, put.val)
  <2>1. Z.o[b][1] # -1
    BY <1>1, <1>2 DEF Name
  <2> QED BY <2>1, <1>2, DoneKept DEF ValueDone
<1>3. \A i \in Z.k + 1 .. Len(G.F) - 1 : G.F[i] # b
  <2> SUFFICES ASSUME NEW i \in Z.k + 1 .. Len(G.F) - 1 PROVE G.F[i] # b
    OBVIOUS
  <2>1. i \in Z.k + 1 .. Len(G.F)
    BY DEF FlightFacts
  <2>2. Z.o[G.F[i]] = <<1, i>>
    BY <2>1 DEF FlightFacts
  <2> QED BY <2>2, <1>1
<1>4. Ahead(mem', G, Z)
  BY <1>3, AheadKept
<1> QED BY <1>2, <1>4 DEF ChainWrote

LEMMA WriteInfoKeeps == FileInv /\ WriteInfo => FileInv'
<1> SUFFICES ASSUME FileInv, WriteInfo PROVE FileInv'
  OBVIOUS
<1> DEFINE part == SubSeq(put.src \o <<0, 0, 0, 0, 0, 0, 0>>, 1, BlockLen)
<1>1. /\ put.pc = "info" /\ mem' = Written(put.cur, part) /\ hdr' = hdr
      /\ dict' = dict /\ half' = half /\ puts' = puts
      /\ put' = [put EXCEPT !.pc = "next"]
  BY DEF WriteInfo
<1>2. FileTypeOK /\ Words \in Nat /\ hdr.backup_flag = 1 /\ put.pc \in FlightPc
  BY <1>1, FlightOf DEF FlightPc
<1>3. PICK G, Z : Flight(G, Z) /\ FlightFacts(G, Z)
  BY <1>2, FlightOf
<1>4. /\ Space(G, Z, hdr.size) /\ HeadAt(G, Z) /\ Undoable(G, Z) /\ At(G, Z)
      /\ Ahead(mem, G, Z)
  BY <1>3 DEF Flight
<1>0. PICK c, n, b : c = Chain(Z) /\ n = Len(c) /\ b = put.prev
  OBVIOUS
<1>5. Filling(G, Z, n - 1) /\ put.cur = b
  BY <1>0, <1>1, <1>4 DEF At
<1>6. ChainFacts(Z, c, n, b) /\ Region(G, Z, b)
  BY <1>0, <1>3, <1>5, ChainIs
<1>7. put \in FlightPut
  BY <1>3 DEF FlightFacts
<1>8. /\ SamePut /\ put'.pc = "next" /\ put'.flag = put.flag /\ put'.ret = put.ret
      /\ put'.prev = put.prev /\ put'.tail = put.tail /\ put'.src = put.src
  BY <1>1, <1>7 DEF FlightPut, FlightPc, SamePut
<1>9. JobSame /\ Goal' = Goal /\ Chain(Z)' = c
  BY <1>0, <1>8, SamePutJob
<1>10. PICK g, m : g = Goal /\ m = BlockLen * (n - 1)
  OBVIOUS
<1>11. g \in Seq(Nat) /\ m \in Nat /\ m < Len(g) /\ put.src = SubSeq(g, m + 1, Len(g))
  <2>1. m \in Nat
    BY <1>6, <1>10 DEF ChainFacts, BlockLen
  <2> QED BY <2>1, <1>0, <1>5, <1>7, <1>10, GoalIs DEF Filling
<1>12. PICK w : w = part
  OBVIOUS
<1>13. PartFacts(g, m, w)
  BY <1>11, <1>12, PartIs
<1>14. PutWrote(G, Z, b, 0, w)
  <2>1. b \in Nat /\ Width(Z.o[b]) = 8 /\ w \in Seq(Nat) /\ Len(w) = 7
    BY <1>6, <1>13 DEF ChainFacts, PartFacts, BlockLen
  <2>2. 0 + Len(w) <= Width(Z.o[b]) /\ b = b + 0 /\ 0 \in Nat
    BY <2>1
  <2>3. put.pc # "neg" /\ mem' = Written(b, w)
    BY <1>1, <1>5, <1>12
  <2> HIDE DEF part
  <2> QED BY <2>1, <2>2, <2>3, <1>1, <1>2, <1>3, <1>6, <1>9, PutWrites
<1>15. HasText(mem, mem', b, w)
  <2>1. b \in Nat /\ Width(Z.o[b]) = 8 /\ w \in Seq(Nat) /\ Len(w) = BlockLen
    BY <1>6, <1>13 DEF ChainFacts, PartFacts
  <2>2. Wrote(mem, mem', Z.o, b, 0, w)
    BY <1>14 DEF PutWrote
  <2> QED BY <2>1, <2>2, WroteText
<1>16. Else(mem, mem', Z.o, b)
  BY <1>14 DEF PutWrote
<1>17. ChainWrote(G, Z, b)
  BY <1>3, <1>4, <1>6, <1>16, ChainWrites
<1>18. \A i \in 1 .. n - 1 :
         /\ mem'[c[i] + BlockLen] = mem[c[i] + BlockLen]
         /\ \A j \in 0 .. BlockLen - 1 : mem'[c[i] + j] = mem[c[i] + j]
  BY <1>6, <1>16, ChainElse
<1>19. Joined(mem', c)
  <2>1. Joined(mem, c)
    BY <1>0, <1>5 DEF Filling
  <2> QED BY <2>1, <1>0, <1>18 DEF Joined
<1>20. Spells(mem', c, n, Goal)
  <2> SUFFICES ASSUME NEW i \in 1 .. n, NEW j \in 0 .. BlockLen - 1
               PROVE  mem'[c[i] + j] = Letter(Goal, BlockLen * (i - 1) + j + 1)
    BY DEF Spells
  <2>1. Spells(mem, c, n - 1, Goal)
    BY <1>0, <1>5 DEF Filling
  <2>2. CASE i \in 1 .. n - 1
    <3>1. mem'[c[i] + j] = mem[c[i] + j]
      BY <2>2, <1>18
    <3>2. mem[c[i] + j] = Letter(Goal, BlockLen * (i - 1) + j + 1)
      BY <2>1, <2>2 DEF Spells
    <3> QED BY <3>1, <3>2
  <2>3. CASE i \notin 1 .. n - 1
    <3>1. n \in Nat /\ c[n] = b
      BY <1>6 DEF ChainFacts
    <3>2. i = n
      BY <2>3, <3>1
    <3>3. mem'[b + j] = w[j + 1]
      BY <1>15 DEF HasText
    <3>4. w[j + 1] = Letter(g, m + j + 1)
      BY <1>13 DEF PartFacts
    <3> QED BY <3>1, <3>2, <3>3, <3>4, <1>10
  <2> QED BY <2>2, <2>3
<1>21. mem'[b + BlockLen] = mem[b + BlockLen]
  BY <1>15 DEF HasText
<1>22. (Filling(G, Z, Len(Chain(Z))))'
  <2>1. (put.prev = b /\ put.ret = c[1] /\ put.tail = G.F[Len(G.F)])'
    BY <1>0, <1>5, <1>8 DEF Filling
  <2>2. Len(c) >= 1 /\ b = c[Len(c)] /\ BlockLen * (Len(c) - 1) < Len(Goal)
        /\ put.src = SubSeq(Goal, BlockLen * (Len(c) - 1) + 1, Len(Goal))
    BY <1>0, <1>5 DEF Filling
  <2>3. IF put.flag THEN Z.k >= 1 /\ b = G.F[Z.k] /\ mem[b + BlockLen] = G.F[Z.k + 1]
        ELSE Z.k = Len(G.F) - 1 /\ Z.h = Z.k + 1
    BY <1>0, <1>5 DEF Filling
  <2> QED BY <2>1, <2>2, <2>3, <1>0, <1>8, <1>9, <1>19, <1>20, <1>21 DEF Filling
<1>23. At(G, Z)'
  <2>1. IF put'.what = "key" THEN ValueDone(Z)' ELSE Z.K = <<>>
    <3>1. IF put.what = "key" THEN ValueDone(Z) ELSE Z.K = <<>>
      BY <1>1, <1>4 DEF At, AllocPc
    <3> QED BY <3>1, <1>8, <1>17 DEF ChainWrote, ValueDone, SamePut
  <2> QED BY <2>1, <1>8, <1>22 DEF At, AllocPc
<1>24. HeadAt(G, Z)'
  BY <1>1, <1>4, <1>8 DEF HeadAt, SamePut
<1>25. Undoable(G, Z)'
  <2>1. ASSUME hdr.backup_prev = 0, Z.h = 1 PROVE FreeBut(mem', G.F, 0)
    <3>1. FreeBut(mem, G.F, 0)
      BY <2>1, <1>4 DEF Undoable
    <3>2. \A i \in 1 .. Len(G.F) - 1 : i # 0 /\ G.F[i] = b => mem'[G.F[i] + BlockLen] = G.F[i + 1]
      BY <3>1, <1>21 DEF FreeBut
    <3> QED BY <3>1, <3>2, <1>3, <1>16, FreeKept
  <2>2. put.insert \/ hdr.backup_prev = 0
    BY <1>1, <1>4 DEF Undoable
  <2> QED BY <2>1, <2>2, <1>1, <1>8 DEF Undoable, SamePut
<1>26. Unseen(G)' /\ Backed(G)' /\ Job(G)' /\ FileTypeOK' /\ hdr'.backup_flag = 1
  <2>1. Z.o[b][1] # 0
    BY <1>6 DEF ChainFacts
  <2> QED BY <2>1, <1>14 DEF PutWrote
<1>27. (Space(G, Z, hdr.size))' /\ (Ahead(mem, G, Z))'
  BY <1>1, <1>4, <1>17 DEF Space, ChainWrote, Ahead
<1>28. Flight(G, Z)'
  BY <1>23, <1>24, <1>25, <1>26, <1>27 DEF Flight
<1> QED BY <1>26, <1>28, FlightStep

\* A word behind the last block of the chain.
LEMMA LinkWrites ==
  ASSUME FileInv, put.pc \in FlightPc, put.pc # "neg", NEW G, NEW Z, Flight(G, Z),
         FlightFacts(G, Z), NEW c, NEW n, NEW b, ChainFacts(Z, c, n, b), Region(G, Z, b),
         NEW x, x \in Nat, NEW e, e = b + BlockLen, mem' = Written(e, <<x>>),
         hdr' = hdr, dict' = dict, half' = half, puts' = puts, JobSame
  PROVE  /\ PutWrote(G, Z, b, BlockLen, <<x>>) /\ Else(mem, mem', Z.o, b)
         /\ mem'[b + BlockLen] = x
         /\ \A j \in 0 .. BlockLen - 1 : mem'[b + j] = mem[b + j]
<1>1. b \in Nat /\ Width(Z.o[b]) = 8
  BY DEF ChainFacts
<1>2. PICK d, ws : d = BlockLen /\ ws = <<x>>
  OBVIOUS
<1>3. d = 7 /\ d \in Nat /\ ws \in Seq(Nat) /\ Len(ws) = 1
  BY <1>2 DEF BlockLen
<1>4. d + Len(ws) <= Width(Z.o[b]) /\ e = b + d /\ mem' = Written(e, ws)
  BY <1>1, <1>2, <1>3
<1>5. PutWrote(G, Z, b, d, ws)
  BY <1>3, <1>4, PutWrites
<1>6. Wrote(mem, mem', Z.o, b, d, <<x>>)
  BY <1>2, <1>5 DEF PutWrote
<1>7. HasWord(mem, mem', Z.o, b, d, x)
  <2>1. d < Width(Z.o[b])
    BY <1>1, <1>3
  <2> QED BY <2>1, <1>1, <1>3, <1>6, WroteWord
<1>8. \A j \in 0 .. BlockLen - 1 : mem'[b + j] = mem[b + j]
  <2>1. \A j \in 0 .. BlockLen - 1 : j \in Nat /\ j < 8 /\ j # d
    BY <1>3 DEF BlockLen
  <2> QED BY <2>1, <1>1, <1>7 DEF HasWord
<1>9. mem'[b + BlockLen] = x
  BY <1>2, <1>7 DEF HasWord
<1> QED BY <1>2, <1>5, <1>8, <1>9 DEF PutWrote

LEMMA SpellsKept ==
  ASSUME NEW c, NEW n, n \in Nat, n >= 1, NEW b, b = c[n], NEW s, Spells(mem, c, n, s),
         \A i \in 1 .. n - 1 :
           /\ mem'[c[i] + BlockLen] = mem[c[i] + BlockLen]
           /\ \A j \in 0 .. BlockLen - 1 : mem'[c[i] + j] = mem[c[i] + j],
         \A j \in 0 .. BlockLen - 1 : mem'[b + j] = mem[b + j]
  PROVE  Spells(mem', c, n, s)
<1> SUFFICES ASSUME NEW i \in 1 .. n, NEW j \in 0 .. BlockLen - 1
             PROVE  mem'[c[i] + j] = Letter(s, BlockLen * (i - 1) + j + 1)
  BY DEF Spells
<1>1. i \in 1 .. n - 1 \/ i = n
  OBVIOUS
<1>2. mem'[c[i] + j] = mem[c[i] + j]
  BY <1>1
<1> QED BY <1>2 DEF Spells

LEMMA LinkZeroKeeps == FileInv /\ LinkZero => FileInv'
<1> SUFFICES ASSUME FileInv, LinkZero PROVE FileInv'
  OBVIOUS
<1>1. /\ put.pc = "zero" /\ mem' = Written(put.prev + BlockLen, <<0>>) /\ hdr' = hdr
      /\ dict' = dict /\ half' = half /\ puts' = puts
      /\ put' = [put EXCEPT !.pc = "head", !.prev = put.cur]
  BY DEF LinkZero
<1>2. FileTypeOK /\ Words \in Nat /\ hdr.backup_flag = 1 /\ put.pc \in FlightPc
  BY <1>1, FlightOf DEF FlightPc
<1>3. PICK G, Z : Flight(G, Z) /\ FlightFacts(G, Z)
  BY <1>2, FlightOf
<1>4. /\ Space(G, Z, hdr.size) /\ HeadAt(G, Z) /\ Undoable(G, Z) /\ At(G, Z)
      /\ Ahead(mem, G, Z)
  BY <1>3 DEF Flight
<1>0. PICK c, n, b : c = Chain(Z) /\ n = Len(c) /\ b = put.prev
  OBVIOUS
<1>5. Filling(G, Z, n) /\ TakenFrom(G, Z) /\ Left <= 0
  BY <1>0, <1>1, <1>4 DEF At
<1>6. ChainFacts(Z, c, n, b) /\ Region(G, Z, b)
  BY <1>0, <1>3, <1>5, ChainIs
<1>7. put \in FlightPut /\ Z.k \in Nat /\ Len(G.F) \in Nat /\ Z.k < Len(G.F)
  BY <1>3 DEF FlightFacts
<1>8. /\ SamePut /\ put'.pc = "head" /\ put'.flag = put.flag /\ put'.ret = put.ret
      /\ put'.cur = put.cur /\ put'.tail = put.tail
  BY <1>1, <1>7 DEF FlightPut, FlightPc, SamePut
<1>9. JobSame /\ Goal' = Goal /\ Chain(Z)' = c
  BY <1>0, <1>8, SamePutJob
<1>10. PICK e : e = b + BlockLen
  OBVIOUS
<1>11. /\ PutWrote(G, Z, b, BlockLen, <<0>>) /\ Else(mem, mem', Z.o, b)
       /\ mem'[b + BlockLen] = 0
       /\ \A j \in 0 .. BlockLen - 1 : mem'[b + j] = mem[b + j]
  <2>1. mem' = Written(e, <<0>>) /\ put.pc # "neg" /\ 0 \in Nat
    BY <1>0, <1>1, <1>10
  <2> QED BY <2>1, <1>1, <1>2, <1>3, <1>6, <1>9, <1>10, LinkWrites
<1>12. ChainWrote(G, Z, b)
  BY <1>3, <1>4, <1>6, <1>11, ChainWrites
<1>13. \A i \in 1 .. n - 1 :
         /\ mem'[c[i] + BlockLen] = mem[c[i] + BlockLen]
         /\ \A j \in 0 .. BlockLen - 1 : mem'[c[i] + j] = mem[c[i] + j]
  BY <1>6, <1>11, ChainElse
<1>14. Links(mem', c, 0)
  <2> SUFFICES ASSUME NEW i \in 1 .. n
               PROVE  mem'[c[i] + BlockLen] = IF i = n THEN 0 ELSE c[i + 1]
    BY <1>0 DEF Links
  <2>1. Joined(mem, c) /\ n \in Nat /\ b = c[n]
    BY <1>0, <1>5, <1>6 DEF Filling, ChainFacts
  <2>2. CASE i = n
    BY <2>1, <2>2, <1>11
  <2>3. CASE i # n
    <3>1. i \in 1 .. n - 1
      BY <2>1, <2>3
    <3> QED BY <3>1, <2>1, <2>3, <1>0, <1>13 DEF Joined
  <2> QED BY <2>2, <2>3
<1>15. Spells(mem', c, n, Goal)
  <2>1. Spells(mem, c, n, Goal) /\ n \in Nat /\ n >= 1 /\ b = c[n]
    BY <1>0, <1>5, <1>6 DEF Filling, ChainFacts
  <2> QED BY <2>1, <1>11, <1>13, SpellsKept
<1>16. Fitting(c, Goal)
  <2> DEFINE g == Goal
             m == BlockLen * (n - 1)
  <2>1. n \in Nat /\ n >= 1
    BY <1>6 DEF ChainFacts
  <2>2. g \in Seq(Nat) /\ Len(g) \in Nat
    BY <1>7, GoalIs
  <2>3. m \in Nat
    BY <2>1 DEF BlockLen
  <2>4. m < Len(g) /\ put.src = SubSeq(g, m + 1, Len(g))
    BY <1>0, <1>5 DEF Filling
  <2>5. SrcFacts(g, m, put.src)
    <3> HIDE DEF g, m
    <3> QED BY <2>2, <2>3, <2>4, SrcIs
  <2>6. Len(put.src) = Len(g) - m
    BY <2>5 DEF SrcFacts
  <2>7. Len(put.src) - BlockLen <= 0
    BY <1>5 DEF Left
  <2>8. m + BlockLen = BlockLen * n
    BY <2>1 DEF BlockLen
  <2>9. Len(g) <= BlockLen * n
    <3> DEFINE l == Len(g)
               r == BlockLen * n
    <3>1. l \in Nat /\ m \in Nat /\ (l - m) - 7 <= 0 /\ m + 7 = r
      BY <2>2, <2>3, <2>6, <2>7, <2>8 DEF BlockLen
    <3>2. r \in Nat
      BY <2>1 DEF BlockLen
    <3> HIDE DEF l, m, r
    <3>3. l <= r
      BY <3>1, <3>2
    <3> QED BY <3>3 DEF l, r
  <2> QED BY <2>4, <2>9, <1>0 DEF Fitting
<1>17. At(G, Z)'
  <2>1. IF put'.what = "key" THEN ValueDone(Z)' ELSE Z.K = <<>>
    <3>1. IF put.what = "key" THEN ValueDone(Z) ELSE Z.K = <<>>
      BY <1>1, <1>4 DEF At, AllocPc
    <3> QED BY <3>1, <1>8, <1>12 DEF ChainWrote, ValueDone, SamePut
  <2>2. Len(c) >= 1 /\ put'.ret = c[1]
    BY <1>0, <1>5, <1>8 DEF Filling
  <2>3. Strung(mem', c, Goal)
    BY <1>0, <1>14, <1>15, <1>16 DEF Strung
  <2>4. IF put'.flag THEN put'.cur = G.F[Z.k + 1]
        ELSE put'.tail = G.F[Len(G.F)] /\ Z.k = Len(G.F) - 1
    BY <1>5, <1>8 DEF Filling, TakenFrom
  <2> QED BY <2>1, <2>2, <2>3, <2>4, <1>8, <1>9 DEF At, AllocPc
<1>18. Z.h = Z.k + 1
  BY <1>1, <1>4 DEF HeadAt
<1>19. HeadAt(G, Z)'
  BY <1>1, <1>4, <1>8, <1>18 DEF HeadAt, SamePut
<1>20. Undoable(G, Z)'
  <2>1. ASSUME Z.h = 1 PROVE FreeBut(mem', G.F, 0)
    <3>1. Z.k = 0
      BY <2>1, <1>7, <1>18
    <3>2. Z.k = Len(G.F) - 1
      BY <3>1, <1>5 DEF Filling
    <3>3. Len(G.F) - 1 = 0
      BY <3>1, <3>2
    <3> QED BY <3>3 DEF FreeBut
  <2>2. ASSUME ~put.insert, hdr.backup_prev # 0
        PROVE  /\ Z.k >= 1 /\ hdr.backup_prev = G.F[Z.k] /\ FreeBut(mem', G.F, Z.k)
    <3>1. Z.k >= 1 /\ hdr.backup_prev = G.F[Z.k] /\ FreeBut(mem, G.F, Z.k) /\ G.F[Z.k] = b
      BY <2>2, <1>0, <1>1, <1>4 DEF Undoable
    <3>2. \A i \in 1 .. Len(G.F) - 1 : i # Z.k /\ G.F[i] = b => mem'[G.F[i] + BlockLen] = G.F[i + 1]
      <4>1. \A i \in 1 .. Len(G.F) - 1 : i \in 1 .. Len(G.F)
        BY <1>7
      <4>2. Z.k \in 1 .. Len(G.F)
        BY <3>1, <1>7
      <4> QED BY <4>1, <4>2, <3>1, <1>3 DEF FlightFacts
    <3>3. FreeBut(mem', G.F, Z.k)
      <4>0. PICK x : x = Z.k
        OBVIOUS
      <4>1. FreeBut(mem, G.F, x)
        BY <3>1, <4>0
      <4>2. \A i \in 1 .. Len(G.F) - 1 : i # x /\ G.F[i] = b => mem'[G.F[i] + BlockLen] = G.F[i + 1]
        BY <3>2, <4>0
      <4>3. Else(mem, mem', Z.o, b) /\ FlightFacts(G, Z)
        BY <1>3, <1>11
      <4>4. FreeBut(mem', G.F, x)
        BY <4>1, <4>2, <4>3, FreeKept
      <4> QED BY <4>0, <4>4
    <3> QED BY <3>1, <3>3
  <2> QED BY <2>1, <2>2, <1>1, <1>8 DEF Undoable, SamePut
<1>21. Unseen(G)' /\ Backed(G)' /\ Job(G)' /\ FileTypeOK' /\ hdr'.backup_flag = 1
  <2>1. Z.o[b][1] # 0
    BY <1>6 DEF ChainFacts
  <2> QED BY <2>1, <1>11 DEF PutWrote
<1>22. (Space(G, Z, hdr.size))' /\ (Ahead(mem, G, Z))'
  BY <1>1, <1>4, <1>12 DEF Space, ChainWrote, Ahead
<1>23. Flight(G, Z)'
  BY <1>17, <1>19, <1>20, <1>21, <1>22 DEF Flight
<1> QED BY <1>21, <1>23, FlightStep

LEMMA LinkMoreKeeps == FileInv /\ LinkMore => FileInv'
<1> SUFFICES ASSUME FileInv, LinkMore PROVE FileInv'
  OBVIOUS
<1>1. /\ put.pc = "link" /\ Left > 0 /\ mem' = Written(put.prev + BlockLen, <<put.cur>>)
      /\ hdr' = hdr /\ dict' = dict /\ half' = half /\ puts' = puts
      /\ put' = [put EXCEPT !.pc = "info", !.prev = put.cur, !.src = Rest]
  BY DEF LinkMore
<1>2. FileTypeOK /\ Words \in Nat /\ hdr.backup_flag = 1 /\ put.pc \in FlightPc
  BY <1>1, FlightOf DEF FlightPc
<1>3. PICK G, Z : Flight(G, Z) /\ FlightFacts(G, Z)
  BY <1>2, FlightOf
<1>4. /\ Space(G, Z, hdr.size) /\ HeadAt(G, Z) /\ Undoable(G, Z) /\ At(G, Z)
      /\ Ahead(mem, G, Z)
  BY <1>3 DEF Flight
<1>0. PICK c, n, b, x : c = Chain(Z) /\ n = Len(c) /\ b = put.prev /\ x = put.cur
  OBVIOUS
<1>5. Filling(G, Z, n) /\ TakenFrom(G, Z)
  BY <1>0, <1>1, <1>4 DEF At
<1>6. ChainFacts(Z, c, n, b) /\ Region(G, Z, b)
  BY <1>0, <1>3, <1>5, ChainIs
<1>7. put \in FlightPut /\ Z.k \in Nat /\ Len(G.F) \in Nat /\ Z.k < Len(G.F) /\ x \in Nat
      /\ G.F \in Seq(Nat) /\ hdr.size \in Nat
  BY <1>0, <1>3 DEF FlightFacts, FlightPut
\* the text that is left
<1>8. PICK g, m : g = Goal /\ m = BlockLen * (n - 1)
  OBVIOUS
<1>9. g \in Seq(Nat) /\ m \in Nat /\ m < Len(g) /\ put.src = SubSeq(g, m + 1, Len(g))
      /\ Len(put.src) > BlockLen /\ put.src \in Seq(Nat)
  <2>1. m \in Nat
    BY <1>6, <1>8 DEF ChainFacts, BlockLen
  <2>2. put.src \in Seq(Nat)
    BY <1>7 DEF FlightPut
  <2>3. Len(put.src) \in Nat /\ Len(put.src) - BlockLen > 0
    BY <2>2, <1>1 DEF Left
  <2>4. Len(put.src) > BlockLen
    <3> DEFINE l == Len(put.src)
    <3>1. l \in Nat /\ l - 7 > 0
      BY <2>3 DEF BlockLen
    <3> HIDE DEF l
    <3>2. l > 7
      BY <3>1
    <3> QED BY <3>2 DEF l, BlockLen
  <2> QED BY <2>1, <2>2, <2>4, <1>0, <1>5, <1>7, <1>8, GoalIs DEF Filling
<1>10. Rest = SubSeq(g, BlockLen * n + 1, Len(g)) /\ BlockLen * n < Len(g) /\ Rest \in Seq(Nat)
  <2>1. SubSeq(put.src, BlockLen + 1, Len(put.src)) = SubSeq(g, m + BlockLen + 1, Len(g))
        /\ m + BlockLen < Len(g)
    BY <1>9, RestIs
  <2>2. m + BlockLen = BlockLen * n
    BY <1>6, <1>8 DEF ChainFacts, BlockLen
  <2>3. BlockLen * n \in Nat
    BY <1>6 DEF ChainFacts, BlockLen
  <2> DEFINE q == BlockLen * n
  <2>4. Rest = SubSeq(g, q + 1, Len(g)) /\ q < Len(g) /\ q \in Nat
    BY <2>1, <2>2, <2>3 DEF Rest
  <2> HIDE DEF q
  <2>5. SrcFacts(g, q, Rest)
    BY <2>4, <1>9, SrcIs
  <2> QED BY <2>4, <2>5 DEF SrcFacts, q
<1>11. /\ SamePut /\ put'.pc = "info" /\ put'.flag = put.flag /\ put'.ret = put.ret
       /\ put'.prev = x /\ put'.cur = x /\ put'.tail = put.tail /\ put'.src = Rest
  BY <1>0, <1>1, <1>7, <1>10 DEF FlightPut, FlightPc, SamePut
<1>12. JobSame /\ Goal' = Goal
  BY <1>11, SamePutJob
<1>13. PICK e : e = b + BlockLen
  OBVIOUS
<1>14. /\ PutWrote(G, Z, b, BlockLen, <<x>>) /\ Else(mem, mem', Z.o, b)
       /\ mem'[b + BlockLen] = x
       /\ \A j \in 0 .. BlockLen - 1 : mem'[b + j] = mem[b + j]
  <2>1. mem' = Written(e, <<x>>) /\ put.pc # "neg"
    BY <1>0, <1>1, <1>13
  <2> QED BY <2>1, <1>1, <1>2, <1>3, <1>6, <1>7, <1>12, <1>13, LinkWrites
<1>15. ChainWrote(G, Z, b)
  BY <1>3, <1>4, <1>6, <1>14, ChainWrites
<1>16. \A i \in 1 .. n - 1 :
         /\ mem'[c[i] + BlockLen] = mem[c[i] + BlockLen]
         /\ \A j \in 0 .. BlockLen - 1 : mem'[c[i] + j] = mem[c[i] + j]
  BY <1>6, <1>14, ChainElse
\* the block it writes next is in the chain now
<1>17. PICK k2, w : k2 = (IF put.flag THEN Z.k + 1 ELSE Z.k) /\ w = <<Name, n + 1>>
  OBVIOUS
<1>18. PICK Y : Y = Longer(Z, Renamed(Z.o, x, w), k2, x)
  OBVIOUS
<1>19. /\ Y.k = k2 /\ Y.h = Z.h /\ Chain(Y) = Append(c, x)
       /\ put.what = "key" => Y.V = Z.V
       /\ put.what = "value" => Y.K = Z.K
       /\ Chain(Y)' = Append(c, x)
  BY <1>0, <1>11, <1>18 DEF Longer, Chain, SamePut
<1>20. Spot(G, Z, hdr.size, x, w, k2, hdr.size)
  <2>1. Width(w) = 8
    BY <1>17 DEF Width, Name, StringLen, BlockLen
  <2> QED BY <2>1, <1>0, <1>5, <1>17 DEF Spot, TakenFrom
<1>21. Space(G, Y, hdr.size)
  <2>1. w = <<Name, Len(Chain(Z)) + 1>> /\ put.what \in {"value", "key"}
    BY <1>0, <1>7, <1>17 DEF FlightPut
  <2> QED BY <2>1, <1>4, <1>7, <1>18, <1>20, SpaceLonger
<1>22. k2 \in Nat /\ (put.flag => Z.k + 1 < Len(G.F) /\ x = G.F[k2])
  BY <1>0, <1>5, <1>7, <1>17 DEF TakenFrom
<1>23. Ahead(mem', G, Y)
  <2>1. \A i \in Y.k + 1 .. Len(G.F) - 1 : i \in Z.k + 1 .. Len(G.F) - 1
    BY <1>7, <1>17, <1>19
  <2> QED BY <2>1, <1>15 DEF ChainWrote, Ahead
<1>24. PICK d : d = Append(c, x)
  OBVIOUS
<1>25. /\ Len(d) = n + 1 /\ d[n + 1] = x /\ \A i \in 1 .. n : d[i] = c[i]
       /\ n \in Nat /\ n >= 1 /\ c[n] = b /\ Chain(Y)' = d
  <2>1. c \in Seq(Nat) /\ n = Len(c) /\ n \in Nat /\ n >= 1 /\ c[n] = b
    BY <1>6 DEF ChainFacts
  <2>2. Len(d) = n + 1 /\ d[n + 1] = x /\ \A i \in 1 .. n : d[i] = c[i]
    BY <2>1, <1>7, <1>24
  <2> QED BY <2>1, <2>2, <1>19, <1>24
<1>26. Joined(mem', d)
  <2> SUFFICES ASSUME NEW i \in 1 .. Len(d) - 1 PROVE mem'[d[i] + BlockLen] = d[i + 1]
    BY DEF Joined
  <2>1. i \in 1 .. n
    BY <1>25
  <2>2. CASE i = n
    BY <2>1, <2>2, <1>14, <1>25
  <2>3. CASE i # n
    <3>1. i \in 1 .. n - 1 /\ i + 1 \in 1 .. n
      BY <2>1, <2>3, <1>25
    <3>2. mem[c[i] + BlockLen] = c[i + 1]
      BY <3>1, <1>0, <1>5 DEF Filling, Joined
    <3> QED BY <3>1, <3>2, <2>1, <1>16, <1>25
  <2> QED BY <2>2, <2>3
<1>27. Spells(mem', d, n, Goal)
  <2>1. Spells(mem, c, n, Goal)
    BY <1>0, <1>5 DEF Filling
  <2>2. Spells(mem', c, n, Goal)
    BY <2>1, <1>14, <1>16, <1>25, SpellsKept
  <2> QED BY <2>2, <1>25 DEF Spells
<1>28. (Filling(G, Y, Len(Chain(Y)) - 1))'
  <2>1. Len(d) >= 1 /\ x = d[Len(d)] /\ put.ret = d[1] /\ put.tail = G.F[Len(G.F)]
    <3>1. put.ret = c[1] /\ put.tail = G.F[Len(G.F)] /\ 1 \in 1 .. n
      BY <1>0, <1>5, <1>25 DEF Filling
    <3> QED BY <3>1, <1>25
  <2>2. Len(d) - 1 = n
    BY <1>25
  <2>3. BlockLen * (Len(d) - 1) < Len(Goal)
        /\ Rest = SubSeq(Goal, BlockLen * (Len(d) - 1) + 1, Len(Goal))
    BY <2>2, <1>8, <1>10
  <2>4. Spells(mem', d, Len(d) - 1, Goal)
    BY <2>2, <1>27
  <2>5. IF put.flag THEN k2 >= 1 /\ x = G.F[k2] /\ mem'[x + BlockLen] = G.F[k2 + 1]
        ELSE k2 = Len(G.F) - 1 /\ Z.h = k2 + 1
    <3>1. CASE put.flag
      <4>1. k2 = Z.k + 1 /\ k2 \in Z.k + 1 .. Len(G.F) - 1
        BY <3>1, <1>7, <1>17, <1>22
      <4>2. mem'[G.F[k2] + BlockLen] = G.F[k2 + 1]
        BY <4>1, <1>15 DEF ChainWrote, Ahead
      <4>3. x = G.F[k2] /\ k2 >= 1
        BY <3>1, <4>1, <1>7, <1>22
      <4> QED BY <3>1, <4>2, <4>3
    <3>2. CASE ~put.flag
      BY <3>2, <1>5, <1>17 DEF Filling
    <3> QED BY <3>1, <3>2
  <2> QED BY <2>1, <2>3, <2>4, <2>5, <1>11, <1>12, <1>19, <1>25, <1>26 DEF Filling
<1>29. At(G, Y)'
  <2>1. IF put'.what = "key" THEN ValueDone(Y)' ELSE Y.K = <<>>
    <3>1. IF put.what = "key" THEN ValueDone(Z) ELSE Z.K = <<>>
      BY <1>1, <1>4 DEF At, AllocPc
    <3>2. CASE put.what = "key"
      <4>1. ValueDone(Z) /\ Y.V = Z.V /\ Strung(mem', Z.V, put.val)
        BY <3>1, <3>2, <1>15, <1>19 DEF ChainWrote
      <4> QED BY <4>1, <3>2, <1>11 DEF ValueDone, SamePut
    <3>3. CASE put.what # "key"
      BY <3>1, <3>3, <1>7, <1>11, <1>19 DEF SamePut, FlightPut
    <3> QED BY <3>2, <3>3
  <2> QED BY <2>1, <1>11, <1>28 DEF At, AllocPc
<1>30. HeadAt(G, Y)'
  <2>1. Y.h \in 1 .. Y.k + 1
    BY <1>4, <1>7, <1>17, <1>19 DEF HeadAt
  <2> QED BY <2>1, <1>1, <1>4, <1>11, <1>19 DEF HeadAt, SamePut
<1>31. Undoable(G, Y)'
  <2>1. ASSUME hdr.backup_prev = 0, Z.h = 1 PROVE FreeBut(mem', G.F, 0)
    <3>1. FreeBut(mem, G.F, 0)
      BY <2>1, <1>4 DEF Undoable
    <3>2. \A i \in 1 .. Len(G.F) - 1 : i # 0 /\ G.F[i] = b => mem'[G.F[i] + BlockLen] = G.F[i + 1]
      <4> SUFFICES ASSUME NEW i \in 1 .. Len(G.F) - 1, G.F[i] = b
                   PROVE  mem'[G.F[i] + BlockLen] = G.F[i + 1]
        OBVIOUS
      <4>1. i \in 1 .. Len(G.F)
        BY <1>7
      <4>2. put.flag
        <5> SUFFICES ASSUME ~put.flag PROVE FALSE
          OBVIOUS
        <5>1. Z.k = Len(G.F) - 1 /\ Z.h = Z.k + 1
          BY <1>5 DEF Filling
        <5>2. Len(G.F) - 1 = 0
          BY <5>1, <2>1, <1>7
        <5>3. i \in 1 .. 0
          BY <5>2
        <5> QED BY <5>3
      <4>3. Z.k \in 1 .. Len(G.F) /\ b = G.F[Z.k]
        BY <4>2, <1>0, <1>5, <1>7 DEF Filling
      <4>4. i = Z.k
        BY <4>1, <4>3, <1>3 DEF FlightFacts
      <4>5. x = G.F[Z.k + 1]
        BY <4>2, <1>17, <1>22
      <4>6. mem'[b + BlockLen] = x
        BY <1>14
      <4>7. G.F[i] = b /\ i + 1 = Z.k + 1
        BY <4>4
      <4> QED BY ONLY <4>4, <4>5, <4>6, <4>7
    <3> QED BY <3>1, <3>2, <1>3, <1>14, FreeKept
  <2>2. put.insert \/ hdr.backup_prev = 0
    <3>1. ~(Left < 0)
      <4> DEFINE l == Left
      <4>1. l > 0 /\ l \in Int
        BY <1>1, <1>9 DEF Left, BlockLen
      <4> HIDE DEF l
      <4>2. ~(l < 0)
        BY <4>1
      <4> QED BY <4>2 DEF l
    <3> QED BY <3>1, <1>1, <1>4 DEF Undoable
  <2> QED BY <2>1, <2>2, <1>1, <1>11, <1>19 DEF Undoable, SamePut
<1>32. Unseen(G)' /\ Backed(G)' /\ Job(G)' /\ FileTypeOK' /\ hdr'.backup_flag = 1
  <2>1. Z.o[b][1] # 0
    BY <1>6 DEF ChainFacts
  <2> QED BY <2>1, <1>14 DEF PutWrote
<1>33. (Space(G, Y, hdr.size))' /\ (Ahead(mem, G, Y))'
  BY <1>1, <1>21, <1>23 DEF Space, Ahead
<1>34. Flight(G, Y)'
  BY <1>29, <1>30, <1>31, <1>32, <1>33 DEF Flight
<1> QED BY <1>32, <1>34, FlightStep

\* A write to a tab leaves all blocks alone.
BlocksKept(G, Z) ==
  /\ Ahead(mem, G, Z) => Ahead(mem', G, Z)
  /\ \A x : FreeBut(mem, G.F, x) => FreeBut(mem', G.F, x)
  /\ \A s : Strung(mem, Z.V, s) => Strung(mem', Z.V, s)
  /\ \A s : Strung(mem, Z.K, s) => Strung(mem', Z.K, s)

LEMMA TabWrites ==
  ASSUME NEW G, NEW Z, FlightFacts(G, Z), NEW b, Else(mem, mem', Z.o, b),
         Z.o[b][1] \in {0, -4}
  PROVE  BlocksKept(G, Z)
<1>1. \A i \in 1 .. Len(G.F) : G.F[i] # b
  <2>1. Width(Z.o[b]) = 5
    BY DEF Width, TabLen
  <2>2. \A i \in 1 .. Len(G.F) : Width(Z.o[G.F[i]]) = 8
    BY DEF FlightFacts
  <2> QED BY <2>1, <2>2
<1>2. \A i \in 1 .. Len(G.F) - 1 : i \in 1 .. Len(G.F)
  BY DEF FlightFacts
<1>3. Ahead(mem, G, Z) => Ahead(mem', G, Z)
  <2>1. \A i \in Z.k + 1 .. Len(G.F) - 1 : G.F[i] # b
    <3>1. \A i \in Z.k + 1 .. Len(G.F) - 1 : i \in 1 .. Len(G.F)
      BY DEF FlightFacts
    <3> QED BY <3>1, <1>1
  <2> QED BY <2>1, AheadKept
<1>4. ASSUME NEW x, FreeBut(mem, G.F, x) PROVE FreeBut(mem', G.F, x)
  <2>1. \A i \in 1 .. Len(G.F) - 1 : i # x /\ G.F[i] = b => mem'[G.F[i] + BlockLen] = G.F[i + 1]
    BY <1>1, <1>2
  <2>2. FlightFacts(G, Z) /\ Else(mem, mem', Z.o, b) /\ FreeBut(mem, G.F, x)
    BY <1>4
  <2> QED BY ONLY <2>1, <2>2, FreeKept
<1>5. /\ \A s : Strung(mem, Z.V, s) => Strung(mem', Z.V, s)
      /\ \A s : Strung(mem, Z.K, s) => Strung(mem', Z.K, s)
  <2>1. Z.o[b][1] # -1 /\ Z.o[b][1] # -2
    OBVIOUS
  <2> QED BY <2>1, DoneKept
<1> QED BY <1>3, <1>4, <1>5 DEF BlocksKept

LEMMA TabWordsAre ==
  ASSUME NEW t, t \in Tab
  PROVE  /\ TabWords(t) \in Seq(Nat) /\ Len(TabWords(t)) = 5
         /\ \A m, b : HasTab(m, b, TabWords(t)) =>
              m[b] = t.next /\ m[b + 1] = t.key /\ m[b + 3] = t.value
BY DEF TabWords, Tab, HasTab

LEMMA ZeroTabKeeps == FileInv /\ ZeroTab => FileInv'
<1> SUFFICES ASSUME FileInv, ZeroTab PROVE FileInv'
  OBVIOUS
<1>1. /\ put.pc = "zerotab" /\ mem' = Written(put.cur_tab.next, TabWords(NoTab)) /\ hdr' = hdr
      /\ dict' = dict /\ half' = half /\ puts' = puts
      /\ put' = [put EXCEPT !.pc = "tab"]
  BY DEF ZeroTab
<1>2. FileTypeOK /\ Words \in Nat /\ hdr.backup_flag = 1 /\ put.pc \in FlightPc
  BY <1>1, FlightOf DEF FlightPc
<1>3. PICK G, Z : Flight(G, Z) /\ FlightFacts(G, Z)
  BY <1>2, FlightOf
<1>4. /\ Space(G, Z, hdr.size) /\ HeadAt(G, Z) /\ Undoable(G, Z) /\ At(G, Z)
      /\ Ahead(mem, G, Z)
  BY <1>3 DEF Flight
<1>5. put.insert /\ ValueDone(Z) /\ KeyDone(Z) /\ NewTabAt(Z)
  BY <1>1, <1>4 DEF At
<1>0. PICK b, ws : b = put.cur_tab.next /\ ws = TabWords(NoTab)
  OBVIOUS
<1>6. b \in DOMAIN Z.o /\ Z.o[b] = <<-4, 0>> /\ Width(Z.o[b]) = 5 /\ b \in Nat
  BY <1>0, <1>3, <1>5 DEF NewTabAt, FlightFacts, Width, TabLen
<1>7. Region(G, Z, b)
  BY <1>6 DEF Region
<1>8. put \in FlightPut
  BY <1>3 DEF FlightFacts
<1>9. SamePut /\ put'.pc = "tab"
  BY <1>1, <1>8 DEF FlightPut, FlightPc, SamePut
<1>10. JobSame
  BY <1>9, SamePutJob
<1>a. NoTab \in Tab
  BY DEF NoTab, Tab
<1>11. ws \in Seq(Nat) /\ Len(ws) = 5
  BY <1>0, <1>a, TabWordsAre
<1>12. PutWrote(G, Z, b, 0, ws)
  <2>1. 0 + Len(ws) <= Width(Z.o[b]) /\ b = b + 0 /\ 0 \in Nat
    BY <1>6, <1>11
  <2>2. put.pc # "neg" /\ mem' = Written(b, ws)
    BY <1>0, <1>1
  <2> QED BY <2>1, <2>2, <1>1, <1>2, <1>3, <1>7, <1>10, <1>11, PutWrites
<1>13. HasTab(mem', b, ws)
  <2>1. Wrote(mem, mem', Z.o, b, 0, ws)
    BY <1>12 DEF PutWrote
  <2> QED BY <2>1, <1>6, <1>11, WroteTab
<1>14. mem'[b] = 0 /\ mem'[b + 1] = 0
  BY <1>0, <1>13, <1>a, TabWordsAre DEF NoTab
<1>15. BlocksKept(G, Z)
  <2>1. Else(mem, mem', Z.o, b) /\ Z.o[b][1] \in {0, -4}
    BY <1>6, <1>12 DEF PutWrote
  <2> QED BY <2>1, <1>3, TabWrites
<1>16. At(G, Z)'
  <2>1. ValueDone(Z)' /\ KeyDone(Z)'
    BY <1>5, <1>9, <1>15 DEF ValueDone, KeyDone, BlocksKept, SamePut
  <2>2. NewTabAt(Z)' /\ NewTabEmpty'
    BY <1>0, <1>5, <1>9, <1>14 DEF NewTabAt, NewTabEmpty, SamePut
  <2> QED BY <2>1, <2>2, <1>9 DEF At, AllocPc
<1>17. HeadAt(G, Z)'
  BY <1>1, <1>4, <1>9 DEF HeadAt, SamePut
<1>18. Undoable(G, Z)'
  BY <1>1, <1>4, <1>5, <1>9, <1>15 DEF Undoable, SamePut, BlocksKept
<1>19. Unseen(G)' /\ Backed(G)' /\ Job(G)' /\ FileTypeOK' /\ hdr'.backup_flag = 1
  <2>1. Z.o[b][1] # 0
    BY <1>6
  <2> QED BY <2>1, <1>12 DEF PutWrote
<1>20. (Space(G, Z, hdr.size))' /\ (Ahead(mem, G, Z))'
  BY <1>1, <1>4, <1>15 DEF Space, Ahead, BlocksKept
<1>21. Flight(G, Z)'
  BY <1>16, <1>17, <1>18, <1>19, <1>20 DEF Flight
<1> QED BY <1>19, <1>21, FlightStep

LEMMA WriteTabKeeps == FileInv /\ WriteTab => FileInv'
<1> SUFFICES ASSUME FileInv, WriteTab PROVE FileInv'
  OBVIOUS
<1>1. /\ put.pc = "tab" /\ mem' = Written(put.cur_off, TabWords(put.cur_tab)) /\ hdr' = hdr
      /\ dict' = dict /\ half' = half /\ puts' = puts
      /\ put' = [put EXCEPT !.pc = IF put.insert THEN "neg" ELSE "free"]
  BY DEF WriteTab
<1>2. FileTypeOK /\ Words \in Nat /\ hdr.backup_flag = 1 /\ put.pc \in FlightPc
  BY <1>1, FlightOf DEF FlightPc
<1>3. PICK G, Z : Flight(G, Z) /\ FlightFacts(G, Z)
  BY <1>2, FlightOf
<1>4. /\ Space(G, Z, hdr.size) /\ HeadAt(G, Z) /\ Undoable(G, Z) /\ At(G, Z)
      /\ Ahead(mem, G, Z) /\ Job(G)
  BY <1>3 DEF Flight
<1>5. ValueDone(Z) /\ (put.insert => KeyDone(Z) /\ NewTabAt(Z) /\ NewTabEmpty)
  BY <1>1, <1>4 DEF At
<1>0. PICK b, ws : b = put.cur_off /\ ws = TabWords(put.cur_tab)
  OBVIOUS
<1>6. b = G.T[G.p] /\ b \in DOMAIN Z.o /\ Z.o[b] = <<0, G.p>> /\ Width(Z.o[b]) = 5 /\ b \in Nat
  <2>1. Laid(G.T, G.S, Z.o, hdr.size) /\ hdr.size \in Nat /\ G.p \in 1 .. Len(G.T)
    BY <1>3 DEF FlightFacts
  <2>2. G.T[G.p] \in Nat /\ G.T[G.p] \in DOMAIN Z.o /\ Z.o[G.T[G.p]] = <<0, G.p>>
    BY <2>1, LaidAt
  <2> QED BY <2>2, <1>0, <1>4 DEF Job, Width, TabLen
<1>7. Region(G, Z, b)
  BY <1>6 DEF Region
<1>8. put \in FlightPut /\ put.cur_tab \in Tab
  BY <1>3 DEF FlightFacts, FlightPut
<1>9. SamePut /\ put'.pc = (IF put.insert THEN "neg" ELSE "free")
  BY <1>1, <1>8 DEF FlightPut, FlightPc, SamePut
<1>10. JobSame
  BY <1>9, SamePutJob
<1>11. ws \in Seq(Nat) /\ Len(ws) = 5
  BY <1>0, <1>8, TabWordsAre
<1>12. PutWrote(G, Z, b, 0, ws)
  <2>1. 0 + Len(ws) <= Width(Z.o[b]) /\ b = b + 0 /\ 0 \in Nat
    BY <1>6, <1>11
  <2>2. put.pc # "neg" /\ mem' = Written(b, ws)
    BY <1>0, <1>1
  <2> QED BY <2>1, <2>2, <1>1, <1>2, <1>3, <1>7, <1>10, <1>11, PutWrites
<1>13. HasTab(mem', b, ws) /\ Else(mem, mem', Z.o, b)
  <2>1. Wrote(mem, mem', Z.o, b, 0, ws) /\ Else(mem, mem', Z.o, b)
    BY <1>12 DEF PutWrote
  <2> QED BY <2>1, <1>6, <1>11, WroteTab
<1>14. mem'[b] = put.cur_tab.next /\ mem'[b + 1] = put.cur_tab.key
       /\ mem'[b + 3] = put.cur_tab.value
  BY <1>0, <1>8, <1>13, TabWordsAre
<1>15. BlocksKept(G, Z)
  <2>1. Z.o[b][1] \in {0, -4}
    BY <1>6
  <2> QED BY <2>1, <1>3, <1>13, TabWrites
<1>16. put.insert => NewTabEmpty'
  <2> SUFFICES ASSUME put.insert PROVE NewTabEmpty'
    OBVIOUS
  <2>0. PICK a : a = put.cur_tab.next
    OBVIOUS
  <2>1. a \in DOMAIN Z.o /\ Z.o[a] = <<-4, 0>> /\ a \in Nat
    BY <2>0, <1>3, <1>5 DEF NewTabAt, FlightFacts
  <2>2. Width(Z.o[a]) = 5 /\ a # b
    BY <2>1, <1>6 DEF Width, TabLen
  <2>3. 0 \in Nat /\ 1 \in Nat /\ 0 < 5 /\ 1 < 5 /\ a + 0 = a
    BY <2>1
  <2>4. mem'[a + 0] = mem[a + 0] /\ mem'[a + 1] = mem[a + 1]
    BY <2>1, <2>2, <2>3, <1>13 DEF Else
  <2> QED BY <2>0, <2>3, <2>4, <1>5, <1>9 DEF NewTabEmpty, SamePut
<1>17. At(G, Z)'
  <2>1. ValueDone(Z)' /\ (put.insert => KeyDone(Z)')
    BY <1>5, <1>9, <1>15 DEF ValueDone, KeyDone, BlocksKept, SamePut
  <2>2. put.insert => NewTabAt(Z)'
    BY <1>5, <1>9 DEF NewTabAt, SamePut
  <2>3. /\ put'.cur_off = b /\ put'.cur_tab = put.cur_tab /\ put'.insert = put.insert
    BY <1>0, <1>9 DEF SamePut
  <2> QED BY <2>1, <2>2, <2>3, <1>9, <1>14, <1>16 DEF At, AllocPc
<1>18. HeadAt(G, Z)'
  BY <1>1, <1>4, <1>9 DEF HeadAt, SamePut
<1>19. Undoable(G, Z)'
  BY <1>1, <1>4, <1>9, <1>15 DEF Undoable, SamePut, BlocksKept
<1>20. Unseen(G)'
  <2>1. ASSUME ~put.insert PROVE TabSame(mem', G.T, G.S, G.p)
    BY <2>1, <1>4, <1>6, <1>14 DEF TabSame, Job
  <2> QED BY <2>1, <1>9 DEF Unseen, SamePut
<1>21. Backed(G)' /\ Job(G)' /\ FileTypeOK' /\ hdr'.backup_flag = 1
  BY <1>12 DEF PutWrote
<1>22. (Space(G, Z, hdr.size))' /\ (Ahead(mem, G, Z))'
  BY <1>1, <1>4, <1>15 DEF Space, Ahead, BlocksKept
<1>23. Flight(G, Z)'
  BY <1>17, <1>18, <1>19, <1>20, <1>21, <1>22 DEF Flight
<1> QED BY <1>21, <1>23, FlightStep

LEMMA FreeLinkKeeps == FileInv /\ FreeLink => FileInv'
<1> SUFFICES ASSUME FileInv, FreeLink PROVE FileInv'
  OBVIOUS
<1>1. /\ put.pc = "free" /\ mem' = Written(hdr.tail + BlockLen, <<put.old>>) /\ hdr' = hdr
      /\ dict' = dict /\ half' = half /\ puts' = puts
      /\ put' = [put EXCEPT !.pc = "tail"]
  BY DEF FreeLink
<1>2. FileTypeOK /\ Words \in Nat /\ hdr.backup_flag = 1 /\ put.pc \in FlightPc
  BY <1>1, FlightOf DEF FlightPc
<1>3. PICK G, Z : Flight(G, Z) /\ FlightFacts(G, Z)
  BY <1>2, FlightOf
<1>4. /\ Space(G, Z, hdr.size) /\ HeadAt(G, Z) /\ Undoable(G, Z) /\ At(G, Z)
      /\ Ahead(mem, G, Z) /\ Job(G)
  BY <1>3 DEF Flight
<1>5. ValueDone(Z) /\ ~put.insert /\ mem[put.cur_off + 3] = put.cur_tab.value
      /\ hdr.tail = G.F[Len(G.F)]
  BY <1>1, <1>4 DEF At, HeadAt
<1>0. PICK b, x, L : b = hdr.tail /\ x = put.old /\ L = Len(G.F)
  OBVIOUS
<1>6. /\ b = G.F[L] /\ L \in Nat /\ L \in 1 .. L /\ b \in DOMAIN Z.o /\ Z.o[b] = <<1, L>>
      /\ Width(Z.o[b]) = 8 /\ b \in Nat
  <2>1. L \in Nat /\ L >= 1 /\ Z.k \in Nat /\ Z.k < L
    BY <1>0, <1>3 DEF FlightFacts
  <2>2. L \in 1 .. L /\ L \in Z.k + 1 .. L
    BY <2>1
  <2> QED BY <2>1, <2>2, <1>0, <1>3, <1>5 DEF FlightFacts
<1>7. Region(G, Z, b)
  BY <1>6 DEF Region
<1>8. put \in FlightPut /\ x \in Nat
  BY <1>0, <1>3 DEF FlightFacts, FlightPut
<1>9. SamePut /\ put'.pc = "tail"
  BY <1>1, <1>8 DEF FlightPut, FlightPc, SamePut
<1>10. JobSame
  BY <1>9, SamePutJob
<1>11. PICK d, ws, e : d = BlockLen /\ ws = <<x>> /\ e = b + d
  OBVIOUS
<1>12. d \in Nat /\ d = 7 /\ ws \in Seq(Nat) /\ Len(ws) = 1
  BY <1>8, <1>11 DEF BlockLen
<1>13. PutWrote(G, Z, b, d, ws)
  <2>1. d + Len(ws) <= Width(Z.o[b])
    BY <1>6, <1>12
  <2>2. put.pc # "neg" /\ mem' = Written(e, ws)
    BY <1>0, <1>1, <1>11
  <2> QED BY <2>1, <2>2, <1>1, <1>2, <1>3, <1>7, <1>10, <1>11, <1>12, PutWrites
<1>14. Else(mem, mem', Z.o, b)
  BY <1>13 DEF PutWrote
<1>15. mem'[b + BlockLen] = x
  <2>1. Wrote(mem, mem', Z.o, b, d, <<x>>) /\ d < Width(Z.o[b])
    BY <1>6, <1>11, <1>12, <1>13 DEF PutWrote
  <2>2. HasWord(mem, mem', Z.o, b, d, x)
    BY <2>1, <1>6, <1>8, <1>12, WroteWord
  <2> QED BY <2>2, <1>11 DEF HasWord
\* no block of the list but the last one is the tail
<1>16. \A i \in 1 .. L - 1 : G.F[i] # b
  <2> SUFFICES ASSUME NEW i \in 1 .. L - 1 PROVE G.F[i] # b
    OBVIOUS
  <2>1. i \in 1 .. L /\ i # L
    BY <1>6
  <2> QED BY <2>1, <1>0, <1>3, <1>6 DEF FlightFacts
<1>17. Ahead(mem', G, Z)
  <2>1. \A i \in Z.k + 1 .. Len(G.F) - 1 : G.F[i] # b
    <3>1. \A i \in Z.k + 1 .. Len(G.F) - 1 : i \in 1 .. L - 1
      BY <1>0, <1>3 DEF FlightFacts
    <3> QED BY <3>1, <1>16
  <2> QED BY <2>1, <1>3, <1>4, <1>14, AheadKept
<1>18. ASSUME NEW y, FreeBut(mem, G.F, y) PROVE FreeBut(mem', G.F, y)
  <2>1. \A i \in 1 .. Len(G.F) - 1 : i # y /\ G.F[i] = b => mem'[G.F[i] + BlockLen] = G.F[i + 1]
    BY <1>0, <1>16
  <2> QED BY <2>1, <1>3, <1>14, <1>18, FreeKept
<1>19. mem'[put.cur_off + 3] = mem[put.cur_off + 3]
  <2>0. PICK a : a = put.cur_off
    OBVIOUS
  <2>1. Laid(G.T, G.S, Z.o, hdr.size) /\ hdr.size \in Nat /\ G.p \in 1 .. Len(G.T)
    BY <1>3 DEF FlightFacts
  <2>2. a = G.T[G.p]
    BY <2>0, <1>4 DEF Job
  <2>3. a \in DOMAIN Z.o /\ Z.o[a] = <<0, G.p>>
    BY <2>1, <2>2, LaidAt
  <2>4. Width(Z.o[a]) = 5 /\ a # b
    BY <2>3, <1>6 DEF Width, TabLen
  <2>5. 3 \in Nat /\ 3 < Width(Z.o[a])
    BY <2>4
  <2> QED BY <2>0, <2>3, <2>4, <2>5, <1>14 DEF Else
<1>20. At(G, Z)'
  <2>1. ValueDone(Z)'
    <3>1. Z.o[b][1] # -1
      BY <1>6
    <3>2. \A s : Strung(mem, Z.V, s) => Strung(mem', Z.V, s)
      BY <3>1, <1>3, <1>14, DoneKept
    <3> QED BY <3>2, <1>5, <1>9 DEF ValueDone, SamePut
  <2>2. mem'[G.F[Len(G.F)] + BlockLen] = put.old
    BY <1>0, <1>6, <1>15
  <2> QED BY <2>1, <2>2, <1>5, <1>9, <1>19 DEF At, AllocPc, SamePut
<1>21. HeadAt(G, Z)'
  BY <1>1, <1>4, <1>9 DEF HeadAt, SamePut
<1>22. Undoable(G, Z)'
  BY <1>1, <1>4, <1>9, <1>18 DEF Undoable, SamePut
<1>23. Unseen(G)' /\ Backed(G)' /\ Job(G)' /\ FileTypeOK' /\ hdr'.backup_flag = 1
  <2>1. Z.o[b][1] # 0
    BY <1>6
  <2> QED BY <2>1, <1>13 DEF PutWrote
<1>24. (Space(G, Z, hdr.size))' /\ (Ahead(mem, G, Z))'
  BY <1>1, <1>4, <1>17 DEF Space, Ahead
<1>25. Flight(G, Z)'
  BY <1>20, <1>21, <1>22, <1>23, <1>24 DEF Flight
<1> QED BY <1>23, <1>25, FlightStep

-----------------------------------------------------------------------------
(* The file a put leaves                                                      *)

LEMMA PlacedAgain ==
  ASSUME NEW o, NEW size, Placed(o, size), NEW o2, DOMAIN o2 = DOMAIN o,
         o2 = [a \in DOMAIN o2 |-> o2[a]],
         \A a \in DOMAIN o : Width(o2[a]) = Width(o[a])
  PROVE  Placed(o2, size)
BY DEF Placed

\* The map after an insertion: the strings and the new tab belong to the n-th entry.
InsLabel(w, k, n) ==
  IF w[1] = -1 THEN <<2 * n + 1, w[2]>>
  ELSE IF w[1] = -2 THEN <<2 * n, w[2]>>
  ELSE IF w[1] = 1 THEN <<1, w[2] - k>>
  ELSE w
InsMap(o, k, n, nt) ==
  [a \in DOMAIN o |-> IF a = nt THEN <<0, n + 1>> ELSE InsLabel(o[a], k, n)]
InsLabels(o, o2, k, n, nt) ==
  /\ DOMAIN o2 = DOMAIN o
  /\ \A a \in DOMAIN o : \A i :
       /\ o[a] = <<-1, i>> => o2[a] = <<2 * n + 1, i>>
       /\ o[a] = <<-2, i>> => o2[a] = <<2 * n, i>>
       /\ o[a] = <<1, i>> => o2[a] = <<1, i - k>>
  /\ \A a \in DOMAIN o : \A i, c :
       c \notin {-1, -2, -4, 1} /\ o[a] = <<c, i>> => o2[a] = <<c, i>>
  /\ nt \in DOMAIN o2 /\ o2[nt] = <<0, n + 1>>

LEMMA InsLabelIs ==
  ASSUME NEW w, NEW k, NEW n, n \in Nat, n >= 1
  PROVE  /\ Width(InsLabel(w, k, n)) = Width(w)
         /\ \A i : /\ w = <<-1, i>> => InsLabel(w, k, n) = <<2 * n + 1, i>>
                   /\ w = <<-2, i>> => InsLabel(w, k, n) = <<2 * n, i>>
                   /\ w = <<1, i>> => InsLabel(w, k, n) = <<1, i - k>>
         /\ \A i, c : c \notin {-1, -2, 1} /\ w = <<c, i>> => InsLabel(w, k, n) = <<c, i>>
<1> DEFINE v == InsLabel(w, k, n)
<1>1. CASE w[1] = -1
  <2>1. v = <<2 * n + 1, w[2]>>
    BY <1>1 DEF InsLabel
  <2>2. v[1] = 2 * n + 1 /\ 2 * n + 1 # 0 /\ 2 * n + 1 # -4
    BY <2>1
  <2> HIDE DEF v
  <2>3. Width(v) = Width(w)
    BY <2>2, <1>1 DEF Width
  <2> QED BY <2>1, <2>3, <1>1 DEF v
<1>2. CASE w[1] = -2
  <2>1. v = <<2 * n, w[2]>>
    BY <1>2 DEF InsLabel
  <2>2. v[1] = 2 * n /\ 2 * n # 0 /\ 2 * n # -4
    BY <2>1
  <2> HIDE DEF v
  <2>3. Width(v) = Width(w)
    BY <2>2, <1>2 DEF Width
  <2> QED BY <2>1, <2>3, <1>2 DEF v
<1>3. CASE w[1] = 1
  <2>1. v = <<1, w[2] - k>>
    BY <1>3 DEF InsLabel
  <2>2. v[1] = 1
    BY <2>1
  <2> HIDE DEF v
  <2>3. Width(v) = Width(w)
    BY <2>2, <1>3 DEF Width
  <2> QED BY <2>1, <2>3, <1>3 DEF v
<1>4. CASE w[1] \notin {-1, -2, 1}
  <2>1. v = w
    BY <1>4 DEF InsLabel
  <2> HIDE DEF v
  <2> QED BY <2>1, <1>4 DEF v
<1> QED BY <1>1, <1>2, <1>3, <1>4

LEMMA InsMapIs ==
  ASSUME NEW o, NEW size, Placed(o, size), NEW k, NEW n, n \in Nat, n >= 1,
         NEW nt, nt \in DOMAIN o, o[nt] = <<-4, 0>>, NEW o2, o2 = InsMap(o, k, n, nt)
  PROVE  Placed(o2, size) /\ InsLabels(o, o2, k, n, nt)
<1>1. DOMAIN o2 = DOMAIN o /\ o2 = [a \in DOMAIN o2 |-> o2[a]]
  BY DEF InsMap
<1>2. o2[nt] = <<0, n + 1>> /\ \A a \in DOMAIN o : a # nt => o2[a] = InsLabel(o[a], k, n)
  BY DEF InsMap
<1>3. o[nt][1] = -4 /\ o2[nt][1] = 0
  BY <1>2
<1>4. \A a \in DOMAIN o : Width(o2[a]) = Width(o[a])
  <2> SUFFICES ASSUME NEW a \in DOMAIN o PROVE Width(o2[a]) = Width(o[a])
    OBVIOUS
  <2>1. CASE a = nt
    BY <2>1, <1>3 DEF Width
  <2>2. CASE a # nt
    BY <2>2, <1>2, InsLabelIs
  <2> QED BY <2>1, <2>2
<1>5. Placed(o2, size)
  BY <1>1, <1>4, PlacedAgain
<1>6. ASSUME NEW a \in DOMAIN o, NEW i
      PROVE  /\ o[a] = <<-1, i>> => o2[a] = <<2 * n + 1, i>>
             /\ o[a] = <<-2, i>> => o2[a] = <<2 * n, i>>
             /\ o[a] = <<1, i>> => o2[a] = <<1, i - k>>
  <2>0. PICK w : w = o[a]
    OBVIOUS
  <2>1. w[1] # -4 => a # nt
    BY <2>0, <1>3
  <2>2. w[1] # -4 => o2[a] = InsLabel(w, k, n)
    BY <2>0, <2>1, <1>2
  <2>3. /\ w = <<-1, i>> => w[1] = -1
        /\ w = <<-2, i>> => w[1] = -2
        /\ w = <<1, i>> => w[1] = 1
    OBVIOUS
  <2> QED BY <2>0, <2>2, <2>3, InsLabelIs
<1>7. ASSUME NEW a \in DOMAIN o, NEW i, NEW c, c \notin {-1, -2, -4, 1}, o[a] = <<c, i>>
      PROVE  o2[a] = <<c, i>>
  <2>0. PICK w : w = o[a]
    OBVIOUS
  <2>1. w = <<c, i>> /\ w[1] = c
    BY <2>0, <1>7
  <2>2. o2[a] = InsLabel(w, k, n)
    BY <2>0, <2>1, <1>2, <1>3, <1>7
  <2> QED BY <2>1, <2>2, <1>7, InsLabelIs
<1> QED BY <1>1, <1>2, <1>5, <1>6, <1>7 DEF InsLabels

\* The map after a replacement: the value c belongs to the free blocks, behind
\* the m that were left, and the new one takes its place.
RepLabel(w, k, c, m) ==
  IF w[1] = -1 THEN <<c, w[2]>>
  ELSE IF w[1] = c THEN <<1, m + w[2]>>
  ELSE IF w[1] = 1 THEN <<1, w[2] - k>>
  ELSE w
RepMap(o, k, c, m) == [a \in DOMAIN o |-> RepLabel(o[a], k, c, m)]
RepLabels(o, o2, k, c, m) ==
  /\ DOMAIN o2 = DOMAIN o
  /\ \A a \in DOMAIN o : \A i :
       /\ o[a] = <<-1, i>> => o2[a] = <<c, i>>
       /\ o[a] = <<c, i>> => o2[a] = <<1, m + i>>
       /\ o[a] = <<1, i>> => o2[a] = <<1, i - k>>
  /\ \A a \in DOMAIN o : \A i, d :
       d \notin {-1, c, 1} /\ o[a] = <<d, i>> => o2[a] = <<d, i>>

RepFacts(w, k, c, m, v) ==
  /\ Width(v) = Width(w)
  /\ \A i : /\ w = <<-1, i>> => v = <<c, i>>
            /\ w = <<c, i>> => v = <<1, m + i>>
            /\ w = <<1, i>> => v = <<1, i - k>>
  /\ \A i, d : d \notin {-1, c, 1} /\ w = <<d, i>> => v = <<d, i>>

LEMMA RepLabelIs ==
  ASSUME NEW w, NEW k, NEW c, c \in Nat \ {0, 1}, NEW m
  PROVE  RepFacts(w, k, c, m, RepLabel(w, k, c, m))
<1> DEFINE v == RepLabel(w, k, c, m)
<1>0. c # 0 /\ c # -4 /\ c # -1 /\ c # 1
  OBVIOUS
<1>1. CASE w[1] = -1
  <2>1. v = <<c, w[2]>>
    BY <1>1 DEF RepLabel
  <2>2. v[1] = c
    BY <2>1
  <2> HIDE DEF v
  <2>3. Width(v) = Width(w)
    BY <2>2, <1>0, <1>1 DEF Width
  <2> QED BY <2>1, <2>3, <1>0, <1>1 DEF v, RepFacts
<1>2. CASE w[1] = c
  <2>1. v = <<1, m + w[2]>>
    BY <1>0, <1>2 DEF RepLabel
  <2>2. v[1] = 1
    BY <2>1
  <2> HIDE DEF v
  <2>3. Width(v) = Width(w)
    BY <2>2, <1>0, <1>2 DEF Width
  <2> QED BY <2>1, <2>3, <1>0, <1>2 DEF v, RepFacts
<1>3. CASE w[1] = 1
  <2>1. v = <<1, w[2] - k>>
    BY <1>0, <1>3 DEF RepLabel
  <2>2. v[1] = 1
    BY <2>1
  <2> HIDE DEF v
  <2>3. Width(v) = Width(w)
    BY <2>2, <1>3 DEF Width
  <2> QED BY <2>1, <2>3, <1>0, <1>3 DEF v, RepFacts
<1>4. CASE w[1] \notin {-1, c, 1}
  <2>1. v = w
    BY <1>4 DEF RepLabel
  <2> HIDE DEF v
  <2> QED BY <2>1, <1>4 DEF v, RepFacts
<1> QED BY <1>1, <1>2, <1>3, <1>4

LEMMA RepMapIs ==
  ASSUME NEW o, NEW size, Placed(o, size), NEW k, NEW c, c \in Nat \ {0, 1}, NEW m,
         NEW o2, o2 = RepMap(o, k, c, m)
  PROVE  Placed(o2, size) /\ RepLabels(o, o2, k, c, m)
<1>1. DOMAIN o2 = DOMAIN o /\ o2 = [a \in DOMAIN o2 |-> o2[a]]
  BY DEF RepMap
<1>2. \A a \in DOMAIN o : RepFacts(o[a], k, c, m, o2[a])
  <2> SUFFICES ASSUME NEW a \in DOMAIN o PROVE RepFacts(o[a], k, c, m, o2[a])
    OBVIOUS
  <2>1. o2[a] = RepLabel(o[a], k, c, m)
    BY DEF RepMap
  <2> QED BY <2>1, RepLabelIs
<1>3. \A a \in DOMAIN o : Width(o2[a]) = Width(o[a])
  BY <1>2 DEF RepFacts
<1>4. Placed(o2, size)
  BY <1>1, <1>3, PlacedAgain
<1>5. ASSUME NEW a \in DOMAIN o, NEW i
      PROVE  /\ o[a] = <<-1, i>> => o2[a] = <<c, i>>
             /\ o[a] = <<c, i>> => o2[a] = <<1, m + i>>
             /\ o[a] = <<1, i>> => o2[a] = <<1, i - k>>
  BY <1>2 DEF RepFacts
<1>6. ASSUME NEW a \in DOMAIN o, NEW i, NEW d, d \notin {-1, c, 1}, o[a] = <<d, i>>
      PROVE  o2[a] = <<d, i>>
  BY <1>2, <1>6 DEF RepFacts
<1> QED BY <1>1, <1>4, <1>5, <1>6 DEF RepLabels

\* f is F without its first k.
RestOf(F, k, f) ==
  /\ f \in Seq(Nat) /\ Len(f) = Len(F) - k /\ Len(f) \in Nat /\ Len(f) >= 1
  /\ \A i \in 1 .. Len(f) : f[i] = F[k + i] /\ k + i \in k + 1 .. Len(F)

\* The free blocks that are left.
LEMMA RestFree ==
  ASSUME NEW F \in Seq(Nat), NEW k \in Nat, k < Len(F), NEW f, f = SubSeq(F, k + 1, Len(F))
  PROVE  RestOf(F, k, f)
<1>1. SrcFacts(F, k, f)
  BY SrcIs
<1>2. Len(F) \in Nat
  OBVIOUS
<1>3. f \in Seq(Nat) /\ Len(f) = Len(F) - k /\ \A i \in 1 .. Len(f) : f[i] = F[k + i]
  BY <1>1 DEF SrcFacts
<1>4. /\ Len(f) \in Nat /\ Len(f) >= 1
      /\ \A i \in 1 .. Len(f) : k + i \in k + 1 .. Len(F)
  BY <1>2, <1>3
<1> QED BY ONLY <1>3, <1>4 DEF RestOf

\* The strings, or the texts, with those of one more entry.
WithEntry(f, n, x, y) ==
  [c \in 2 .. 2 * n + 1 |-> IF c = 2 * n THEN x ELSE IF c = 2 * n + 1 THEN y ELSE f[c]]
EntryFacts(f, n, x, y, g) ==
  /\ DOMAIN g = 2 .. 2 * n + 1 /\ g = [c \in 2 .. 2 * n + 1 |-> g[c]]
  /\ g[2 * n] = x /\ g[2 * n + 1] = y
  /\ \A c \in 2 .. 2 * n - 1 : g[c] = f[c] /\ c \in 2 .. 2 * n + 1
  /\ \A c \in 2 .. 2 * n + 1 : c \in 2 .. 2 * n - 1 \/ c = 2 * n \/ c = 2 * n + 1

LEMMA WithEntryIs ==
  ASSUME NEW f, NEW n, n \in Nat, n >= 1, NEW x, NEW y, NEW g, g = WithEntry(f, n, x, y)
  PROVE  EntryFacts(f, n, x, y, g)
<1>1. DOMAIN g = 2 .. 2 * n + 1 /\ g = [c \in 2 .. 2 * n + 1 |-> g[c]]
  BY DEF WithEntry
<1>2. \A c \in 2 .. 2 * n + 1 :
        g[c] = IF c = 2 * n THEN x ELSE IF c = 2 * n + 1 THEN y ELSE f[c]
  BY DEF WithEntry
<1>3. 2 * n \in 2 .. 2 * n + 1 /\ 2 * n + 1 \in 2 .. 2 * n + 1 /\ 2 * n # 2 * n + 1
  OBVIOUS
<1>4. \A c \in 2 .. 2 * n - 1 : c \in 2 .. 2 * n + 1 /\ c # 2 * n /\ c # 2 * n + 1
  OBVIOUS
<1>5. \A c \in 2 .. 2 * n + 1 : c \in 2 .. 2 * n - 1 \/ c = 2 * n \/ c = 2 * n + 1
  OBVIOUS
<1>6. g[2 * n] = x /\ g[2 * n + 1] = y
  BY <1>2, <1>3
<1>7. \A c \in 2 .. 2 * n - 1 : g[c] = f[c] /\ c \in 2 .. 2 * n + 1
  BY <1>2, <1>4
<1> QED BY <1>1, <1>5, <1>6, <1>7 DEF EntryFacts

\* The file with the entry of the put in progress at its end.
Entered(G, T, S, X, o) ==
  /\ Len(T) = Len(G.T) + 1
  /\ Laid(T, S, o, hdr.size) /\ Filed(mem, T, S, X)
  /\ \A i \in 1 .. Len(T) : TabIs(mem, T, S, i)
  /\ \A c \in 2 .. 2 * Len(G.T) - 1 : X[c] = G.X[c]
  /\ X[2 * Len(G.T)] = put.key /\ X[2 * Len(G.T) + 1] = put.val

LEMMA Inserted ==
  ASSUME NEW G, NEW Z, Flight(G, Z), FlightFacts(G, Z), put.pc = "neg", put.insert,
         NEW n, n = Len(G.T), NEW nt, nt = put.cur_tab.next, NEW T, T = Append(G.T, nt),
         NEW S, S = WithEntry(G.S, n, Z.K, Z.V), NEW X, X = WithEntry(G.X, n, put.key, put.val),
         NEW o, o = InsMap(Z.o, Z.k, n, nt)
  PROVE  Entered(G, T, S, X, o) /\ InsLabels(Z.o, o, Z.k, n, nt)
<1>1. /\ Laid(G.T, G.S, Z.o, hdr.size) /\ Placed(Z.o, hdr.size) /\ hdr.size \in Nat
      /\ n \in Nat /\ n >= 1 /\ put \in FlightPut /\ G.p \in 1 .. n
  BY DEF FlightFacts
<1>2. At(G, Z) /\ Job(G) /\ Backed(G)
  BY DEF Flight
<1>3. /\ ValueDone(Z) /\ KeyDone(Z) /\ NewTabAt(Z) /\ NewTabEmpty
      /\ mem[put.cur_off] = nt /\ mem[put.cur_off + 1] = put.cur_tab.key
      /\ mem[put.cur_off + 3] = put.cur_tab.value
  BY <1>2 DEF At
<1>4. G.p = n /\ put.cur_off = G.T[n] /\ \A i \in 1 .. n - 1 : G.X[2 * i] # put.key
  BY <1>2 DEF Job
<1>5. nt \in DOMAIN Z.o /\ Z.o[nt] = <<-4, 0>> /\ nt \in Nat
  BY <1>3 DEF NewTabAt, FlightFacts
<1>6. Placed(o, hdr.size) /\ InsLabels(Z.o, o, Z.k, n, nt)
  BY <1>1, <1>5, InsMapIs
<1>a. DOMAIN o = DOMAIN Z.o /\ \A a \in DOMAIN Z.o : \A i, c :
        c \notin {-1, -2, -4, 1} /\ Z.o[a] = <<c, i>> => o[a] = <<c, i>>
  BY <1>6 DEF InsLabels
<1>7. EntryFacts(G.S, n, Z.K, Z.V, S) /\ EntryFacts(G.X, n, put.key, put.val, X)
  BY <1>1, WithEntryIs
<1>8. /\ T \in Seq(Nat) /\ Len(T) = n + 1 /\ T[n + 1] = nt /\ \A i \in 1 .. n : T[i] = G.T[i]
      /\ 2 * Len(T) - 1 = 2 * n + 1
  <2>1. G.T \in Seq(Nat)
    BY <1>1 DEF Laid
  <2>2. T \in Seq(Nat) /\ Len(T) = n + 1 /\ T[n + 1] = nt /\ \A i \in 1 .. n : T[i] = G.T[i]
    BY <2>1, <1>5
  <2> QED BY <2>2, <1>1
<1>9. /\ Z.K \in Seq(Nat) /\ Len(Z.K) >= 1 /\ \A i \in 1 .. Len(Z.K) : Z.K[i] \in DOMAIN Z.o
                                              /\ Z.o[Z.K[i]] = <<-2, i>>
      /\ Z.V \in Seq(Nat) /\ Len(Z.V) >= 1 /\ \A i \in 1 .. Len(Z.V) : Z.V[i] \in DOMAIN Z.o
                                              /\ Z.o[Z.V[i]] = <<-1, i>>
  BY <1>3 DEF FlightFacts, ValueDone, KeyDone
<1>10. Owns(o, 0, T, 1)
  <2> SUFFICES ASSUME NEW i \in 1 .. n + 1 PROVE T[i] \in DOMAIN o /\ o[T[i]] = <<0, i>>
    BY <1>8 DEF Owns
  <2>1. CASE i \in 1 .. n
    <3>0. PICK a : a = T[i]
      OBVIOUS
    <3>1. a \in DOMAIN Z.o /\ Z.o[a] = <<0, i>>
      BY <3>0, <2>1, <1>1, <1>8 DEF Laid, Owns
    <3>2. 0 \notin {-1, -2, -4, 1}
      OBVIOUS
    <3>3. a \in DOMAIN o /\ o[a] = <<0, i>>
      BY <3>1, <3>2, <1>a
    <3> QED BY <3>0, <3>3
  <2>2. CASE i = n + 1
    <3>1. T[i] = nt
      BY <2>2, <1>8
    <3>2. nt \in DOMAIN o /\ o[nt] = <<0, n + 1>>
      BY <1>6 DEF InsLabels
    <3> QED BY ONLY <2>2, <3>1, <3>2
  <2> QED BY <2>1, <2>2, <1>1
<1>11. ASSUME NEW c \in 2 .. 2 * n - 1
       PROVE  S[c] \in Seq(Nat) /\ Len(S[c]) >= 1 /\ Owns(o, c, S[c], 1)
  <2>1. S[c] = G.S[c]
    BY <1>7 DEF EntryFacts
  <2>2. G.S[c] \in Seq(Nat) /\ Len(G.S[c]) >= 1 /\ Owns(Z.o, c, G.S[c], 1)
    BY <1>1 DEF Laid
  <2>3. c \notin {-1, -2, -4, 1}
    BY <1>1
  <2>4. PICK s : s = G.S[c]
    OBVIOUS
  <2>5. ASSUME NEW i \in 1 .. Len(s) PROVE s[i] \in DOMAIN o /\ o[s[i]] = <<c, i>>
    <3>0. PICK a : a = s[i]
      OBVIOUS
    <3>1. a \in DOMAIN Z.o /\ Z.o[a] = <<c, i>>
      BY <3>0, <2>2, <2>4 DEF Owns
    <3>2. a \in DOMAIN o /\ o[a] = <<c, i>>
      BY <3>1, <2>3, <1>a
    <3> QED BY <3>0, <3>2
  <2> QED BY <2>1, <2>2, <2>4, <2>5 DEF Owns
<1>12. Owns(o, 2 * n, Z.K, 1) /\ Owns(o, 2 * n + 1, Z.V, 1)
  <2>1. ASSUME NEW i \in 1 .. Len(Z.K)
        PROVE  Z.K[i] \in DOMAIN o /\ o[Z.K[i]] = <<2 * n, i>>
    <3>1. PICK a : a = Z.K[i]
      OBVIOUS
    <3>2. a \in DOMAIN Z.o /\ Z.o[a] = <<-2, i>>
      BY <1>9, <3>1
    <3>3. a \in DOMAIN o /\ o[a] = <<2 * n, i>>
      BY <3>2, <1>6 DEF InsLabels
    <3> QED BY <3>1, <3>3
  <2>2. ASSUME NEW i \in 1 .. Len(Z.V)
        PROVE  Z.V[i] \in DOMAIN o /\ o[Z.V[i]] = <<2 * n + 1, i>>
    <3>1. PICK a : a = Z.V[i]
      OBVIOUS
    <3>2. a \in DOMAIN Z.o /\ Z.o[a] = <<-1, i>>
      BY <1>9, <3>1
    <3>3. a \in DOMAIN o /\ o[a] = <<2 * n + 1, i>>
      BY <3>2, <1>6 DEF InsLabels
    <3> QED BY <3>1, <3>3
  <2> QED BY <2>1, <2>2 DEF Owns
<1>13. ASSUME NEW c \in 2 .. 2 * n + 1
       PROVE  S[c] \in Seq(Nat) /\ Len(S[c]) >= 1 /\ Owns(o, c, S[c], 1)
  <2>1. c \in 2 .. 2 * n - 1 \/ c = 2 * n \/ c = 2 * n + 1
    BY <1>7 DEF EntryFacts
  <2>2. S[2 * n] = Z.K /\ S[2 * n + 1] = Z.V
    BY <1>7 DEF EntryFacts
  <2> QED BY <2>1, <2>2, <1>9, <1>11, <1>12
<1>14. Laid(T, S, o, hdr.size)
  <2>1. T[1] = 0
    <3>1. 1 \in 1 .. n /\ G.T[1] = 0
      BY <1>1 DEF Laid
    <3> QED BY <3>1, <1>8
  <2>2. S \in [2 .. 2 * Len(T) - 1 -> Seq(Nat)]
    <3>1. S = [c \in 2 .. 2 * n + 1 |-> S[c]]
      BY <1>7 DEF EntryFacts
    <3>2. S \in [2 .. 2 * n + 1 -> Seq(Nat)]
      BY <3>1, <1>13
    <3> QED BY <3>2, <1>8
  <2>3. \A c \in 2 .. 2 * Len(T) - 1 : Len(S[c]) >= 1 /\ Owns(o, c, S[c], 1)
    BY <1>8, <1>13
  <2>4. Len(T) >= 1
    BY <1>1, <1>8
  <2> QED BY <2>1, <2>2, <2>3, <2>4, <1>6, <1>8, <1>10 DEF Laid
<1>15. Filed(mem, T, S, X)
  <2>1. \A c \in 2 .. 2 * n - 1 : G.X[c] \in Seq(Nat \ {0}) /\ Strung(mem, G.S[c], G.X[c])
    BY <1>2 DEF Backed, Filed
  <2>2. put.key \in Seq(Nat \ {0}) /\ put.val \in Seq(Nat \ {0})
    BY <1>1, GoalIs
  <2>3. Strung(mem, Z.K, put.key) /\ Strung(mem, Z.V, put.val)
    BY <1>3 DEF KeyDone, ValueDone
  <2>4. ASSUME NEW c \in 2 .. 2 * n + 1 PROVE X[c] \in Seq(Nat \ {0}) /\ Strung(mem, S[c], X[c])
    <3>1. c \in 2 .. 2 * n - 1 \/ c = 2 * n \/ c = 2 * n + 1
      BY <1>7 DEF EntryFacts
    <3>2. CASE c \in 2 .. 2 * n - 1
      <4>1. S[c] = G.S[c] /\ X[c] = G.X[c]
        BY <3>2, <1>7 DEF EntryFacts
      <4> QED BY <4>1, <3>2, <2>1
    <3>3. S[2 * n] = Z.K /\ S[2 * n + 1] = Z.V /\ X[2 * n] = put.key /\ X[2 * n + 1] = put.val
      BY <1>7 DEF EntryFacts
    <3> QED BY <3>1, <3>2, <3>3, <2>2, <2>3
  <2>5. X = [c \in 2 .. 2 * n + 1 |-> X[c]]
    BY <1>7 DEF EntryFacts
  <2>6. X \in [2 .. 2 * n + 1 -> Seq(Nat \ {0})]
    BY <2>4, <2>5
  <2> QED BY <2>4, <2>6, <1>8 DEF Filed
<1>16. ASSUME NEW i \in 1 .. n + 1 PROVE TabIs(mem, T, S, i)
  <2>1. CASE i \in 1 .. n - 1
    <3>1. i \in 1 .. n /\ i # n /\ i # n + 1 /\ i + 1 \in 1 .. n
          /\ 2 * i \in 2 .. 2 * n - 1 /\ 2 * i + 1 \in 2 .. 2 * n - 1
      BY ONLY <2>1, n \in Nat
    <3>2. TabIs(mem, G.T, G.S, i)
      BY <3>1, <1>2, <1>4 DEF Backed
    <3>3. mem[G.T[i]] = G.T[i + 1] /\ mem[G.T[i] + 1] = G.S[2 * i][1]
          /\ mem[G.T[i] + 3] = G.S[2 * i + 1][1]
      BY <3>1, <3>2 DEF TabIs, TabSame
    <3>4. S[2 * i] = G.S[2 * i] /\ S[2 * i + 1] = G.S[2 * i + 1]
      BY <3>1, <1>7 DEF EntryFacts
    <3>5. T[i] = G.T[i] /\ T[i + 1] = G.T[i + 1] /\ i # Len(T)
      BY <3>1, <1>8
    <3> QED BY <3>3, <3>4, <3>5 DEF TabIs, TabSame
  <2>2. CASE i = n
    <3>1. T[i] = put.cur_off /\ T[i + 1] = nt /\ i # Len(T)
      BY <2>2, <1>1, <1>4, <1>8
    <3>2. S[2 * i] = Z.K /\ S[2 * i + 1] = Z.V
      BY <2>2, <1>7 DEF EntryFacts
    <3>3. put.cur_tab.key = Z.K[1] /\ put.cur_tab.value = Z.V[1]
      BY <1>3 DEF KeyDone, ValueDone
    <3> QED BY <3>1, <3>2, <3>3, <1>3 DEF TabIs, TabSame
  <2>3. CASE i = n + 1
    <3>1. i = Len(T) /\ T[i] = nt
      BY <2>3, <1>8
    <3>2. mem[nt] = 0 /\ mem[nt + 1] = 0
      BY <1>3 DEF NewTabEmpty
    <3> QED BY <3>1, <3>2 DEF TabIs, TabSame
  <2> QED BY <2>1, <2>2, <2>3, <1>1
<1>17. /\ \A c \in 2 .. 2 * n - 1 : X[c] = G.X[c]
       /\ X[2 * n] = put.key /\ X[2 * n + 1] = put.val
  BY <1>7 DEF EntryFacts
<1> QED BY <1>6, <1>8, <1>14, <1>15, <1>16, <1>17 DEF Entered

\* The list of free blocks a put leaves.
Listed(o, F) ==
  /\ F \in Seq(Nat) /\ Len(F) >= 1 /\ Owns(o, 1, F, 1) /\ FreeBut(mem, F, 0)
  /\ hdr.head = F[1] /\ hdr.tail = F[Len(F)]

LEMMA InsertedFree ==
  ASSUME NEW G, NEW Z, Flight(G, Z), FlightFacts(G, Z), put.pc = "neg", put.insert,
         NEW n, NEW nt, NEW o, InsLabels(Z.o, o, Z.k, n, nt),
         NEW F, F = SubSeq(G.F, Z.k + 1, Len(G.F))
  PROVE  Listed(o, F)
<1>0. PICK k, L : k = Z.k /\ L = Len(G.F)
  OBVIOUS
<1>1. G.F \in Seq(Nat) /\ L \in Nat /\ k \in Nat /\ k < L
      /\ \A i \in k + 1 .. L : G.F[i] \in DOMAIN Z.o /\ Z.o[G.F[i]] = <<1, i>>
  <2>1. G.F \in Seq(Nat) /\ L \in Nat /\ k \in Nat /\ k < L
    BY <1>0 DEF FlightFacts
  <2>2. \A i \in k + 1 .. L : i \in 1 .. L
    BY <2>1
  <2> QED BY <2>1, <2>2, <1>0 DEF FlightFacts
<1>2. /\ F \in Seq(Nat) /\ Len(F) = L - k /\ Len(F) \in Nat /\ Len(F) >= 1
      /\ \A i \in 1 .. Len(F) : F[i] = G.F[k + i] /\ k + i \in k + 1 .. L
  <2>1. F = SubSeq(G.F, k + 1, Len(G.F)) /\ k < Len(G.F)
    BY <1>0, <1>1
  <2>2. /\ F \in Seq(Nat) /\ Len(F) = Len(G.F) - k /\ Len(F) \in Nat /\ Len(F) >= 1
        /\ \A i \in 1 .. Len(F) : F[i] = G.F[k + i] /\ k + i \in k + 1 .. Len(G.F)
    <3>1. RestOf(G.F, k, F)
      BY ONLY <2>1, <1>1, RestFree
    <3> QED BY ONLY <3>1 DEF RestOf
  <2> QED BY <2>2, <1>0
<1>3. HeadAt(G, Z) /\ Ahead(mem, G, Z)
  BY DEF Flight
<1>4. Z.h = k + 1 /\ hdr.head = G.F[k + 1] /\ hdr.tail = G.F[L]
  BY <1>0, <1>3 DEF HeadAt
<1>5. ASSUME NEW i \in 1 .. Len(F) PROVE F[i] \in DOMAIN o /\ o[F[i]] = <<1, i>>
  <2>0. PICK a, j : a = G.F[k + i] /\ j = k + i
    OBVIOUS
  <2>1. F[i] = a /\ j \in k + 1 .. L /\ j - k = i
    <3>1. F[i] = a /\ j \in k + 1 .. L
      BY <2>0, <1>2
    <3>2. i \in Int /\ k \in Int
      BY <1>1, <1>2
    <3> QED BY ONLY <3>1, <3>2, <2>0
  <2>2. a \in DOMAIN Z.o /\ Z.o[a] = <<1, j>>
    BY <2>0, <2>1, <1>1
  <2>3. a \in DOMAIN o /\ o[a] = <<1, j - k>>
    BY <2>2, <1>0 DEF InsLabels
  <2> QED BY <2>1, <2>3
<1>6. ASSUME NEW i \in 1 .. Len(F) - 1 PROVE mem[F[i] + BlockLen] = F[i + 1]
  <2>1. i \in 1 .. Len(F) /\ i + 1 \in 1 .. Len(F) /\ k + i \in k + 1 .. L - 1
        /\ k + (i + 1) = (k + i) + 1
    BY <1>1, <1>2
  <2>2. F[i] = G.F[k + i] /\ F[i + 1] = G.F[(k + i) + 1]
    <3>1. F[i + 1] = G.F[k + (i + 1)] /\ F[i] = G.F[k + i]
      BY <2>1, <1>2
    <3> QED BY <3>1, <2>1
  <2>3. mem[G.F[k + i] + BlockLen] = G.F[(k + i) + 1]
    BY <2>1, <1>0, <1>3 DEF Ahead
  <2> QED BY <2>2, <2>3
<1>7. hdr.head = F[1] /\ hdr.tail = F[Len(F)]
  <2>1. 1 \in 1 .. Len(F) /\ Len(F) \in 1 .. Len(F) /\ k + Len(F) = L
    BY <1>1, <1>2
  <2>2. F[1] = G.F[k + 1] /\ F[Len(F)] = G.F[k + Len(F)]
    BY <2>1, <1>2
  <2> QED BY <2>1, <2>2, <1>4
<1> QED BY <1>2, <1>5, <1>6, <1>7 DEF Listed, Owns, FreeBut

LEMMA ReplacedFree ==
  ASSUME NEW G, NEW Z, Flight(G, Z), FlightFacts(G, Z), put.pc = "neg", ~put.insert,
         NEW s, NEW c, s = G.S[c], c = 2 * G.p + 1, c \in 2 .. 2 * Len(G.T) - 1,
         NEW m, m = Len(G.F) - Z.k, NEW o, RepLabels(Z.o, o, Z.k, c, m),
         NEW F, F = SubSeq(G.F, Z.k + 1, Len(G.F)) \o s
  PROVE  Listed(o, F)
<1>0. PICK k, L, f, n : k = Z.k /\ L = Len(G.F) /\ f = SubSeq(G.F, Z.k + 1, Len(G.F))
                        /\ n = Len(s)
  OBVIOUS
<1>1. G.F \in Seq(Nat) /\ L \in Nat /\ k \in Nat /\ k < L /\ m = L - k
      /\ \A i \in k + 1 .. L : G.F[i] \in DOMAIN Z.o /\ Z.o[G.F[i]] = <<1, i>>
  <2>1. G.F \in Seq(Nat) /\ L \in Nat /\ k \in Nat /\ k < L
    BY <1>0 DEF FlightFacts
  <2>2. \A i \in k + 1 .. L : i \in 1 .. L
    BY <2>1
  <2> QED BY <2>1, <2>2, <1>0 DEF FlightFacts
<1>2. /\ f \in Seq(Nat) /\ Len(f) = m /\ m \in Nat /\ m >= 1
      /\ \A i \in 1 .. m : f[i] = G.F[k + i] /\ k + i \in k + 1 .. L
  <2>1. f = SubSeq(G.F, k + 1, Len(G.F)) /\ k < Len(G.F) /\ k \in Nat /\ G.F \in Seq(Nat)
    BY <1>0, <1>1
  <2>2. /\ f \in Seq(Nat) /\ Len(f) = Len(G.F) - k /\ Len(f) \in Nat /\ Len(f) >= 1
        /\ \A i \in 1 .. Len(f) : f[i] = G.F[k + i] /\ k + i \in k + 1 .. Len(G.F)
    <3>1. RestOf(G.F, k, f)
      BY ONLY <2>1, RestFree
    <3> QED BY ONLY <3>1 DEF RestOf
  <2> QED BY <2>2, <1>0, <1>1
<1>3. /\ s \in Seq(Nat) /\ n \in Nat /\ n >= 1
      /\ \A i \in 1 .. n : s[i] \in DOMAIN Z.o /\ Z.o[s[i]] = <<c, i>>
      /\ \A i \in 1 .. n - 1 : mem[s[i] + BlockLen] = s[i + 1]
  <2>1. Laid(G.T, G.S, Z.o, hdr.size) /\ Filed(mem, G.T, G.S, G.X)
    BY DEF Flight, Backed, FlightFacts
  <2>2. s \in Seq(Nat) /\ Len(s) >= 1 /\ Owns(Z.o, c, s, 1)
    BY <2>1 DEF Laid
  <2>3. Strung(mem, s, G.X[c])
    BY <2>1 DEF Filed
  <2>4. n \in Nat /\ n >= 1
    BY <2>2, <1>0
  <2>5. \A i \in 1 .. n - 1 : i \in 1 .. n /\ i # n
    BY <2>4
  <2>6. \A i \in 1 .. n - 1 : mem[s[i] + BlockLen] = s[i + 1]
    BY <2>3, <2>5, <1>0 DEF Strung, Links
  <2> QED BY <2>2, <2>4, <2>6, <1>0 DEF Owns
<1>4. F \in Seq(Nat) /\ Len(F) = m + n /\ (\A i \in 1 .. m : F[i] = f[i])
      /\ \A i \in 1 .. n : F[m + i] = s[i]
  <2>1. CatFacts(f, s, f \o s)
    BY <1>2, <1>3, CatIs
  <2> QED BY <2>1, <1>0, <1>2 DEF CatFacts
<1>5. HeadAt(G, Z) /\ Ahead(mem, G, Z) /\ At(G, Z) /\ Job(G)
  BY DEF Flight
<1>6. /\ hdr.head = G.F[k + 1] /\ mem[G.F[L] + BlockLen] = s[1] /\ hdr.tail = s[n]
  <2>1. Z.h = k + 1 /\ hdr.head = G.F[k + 1]
    BY <1>0, <1>5 DEF HeadAt
  <2>2. mem[G.F[L] + BlockLen] = put.old /\ put.old = s[1]
    BY <1>0, <1>5 DEF At, Job
  <2>3. hdr.tail = s[Len(s)]
    BY <1>5 DEF At
  <2> QED BY <2>1, <2>2, <2>3, <1>0
<1>7. ASSUME NEW i \in 1 .. m + n PROVE F[i] \in DOMAIN o /\ o[F[i]] = <<1, i>>
  <2>1. CASE i \in 1 .. m
    <3>0. PICK a, j : a = G.F[k + i] /\ j = k + i
      OBVIOUS
    <3>1. F[i] = a /\ j \in k + 1 .. L
      BY <3>0, <2>1, <1>2, <1>4
    <3>b. j - k = i
      BY <3>0, <2>1, <1>1, <1>2
    <3>2. a \in DOMAIN Z.o /\ Z.o[a] = <<1, j>>
      BY <3>0, <3>1, <1>1
    <3>3. a \in DOMAIN o /\ o[a] = <<1, j - k>>
      BY <3>2, <1>0 DEF RepLabels
    <3> QED BY <3>1, <3>b, <3>3
  <2>2. CASE i \notin 1 .. m
    <3>0. PICK j : j = i - m
      OBVIOUS
    <3>x. m \in Nat /\ n \in Nat
      BY <1>2, <1>3
    <3>1. j \in 1 .. n /\ i = m + j
      BY ONLY <3>0, <2>2, <3>x, i \in 1 .. m + n
    <3>a. PICK a : a = s[j]
      OBVIOUS
    <3>2. F[i] = a /\ a \in DOMAIN Z.o /\ Z.o[a] = <<c, j>>
      BY <3>a, <3>1, <1>3, <1>4
    <3>3. a \in DOMAIN o /\ o[a] = <<1, m + j>>
      BY <3>2 DEF RepLabels
    <3> QED BY <3>1, <3>2, <3>3
  <2> QED BY <2>1, <2>2
<1>8. ASSUME NEW i \in 1 .. (m + n) - 1 PROVE mem[F[i] + BlockLen] = F[i + 1]
  <2>0. m \in Nat /\ n \in Nat
    BY <1>2, <1>3
  <2>4. i < m \/ i = m \/ i > m
    BY ONLY <2>0, i \in 1 .. (m + n) - 1
  <2>1. CASE i < m
    <3>a. L \in Nat /\ k \in Nat /\ m = L - k
      BY <1>1
    <3>1. i \in 1 .. m /\ i + 1 \in 1 .. m /\ k + i \in k + 1 .. L - 1
          /\ k + (i + 1) = (k + i) + 1
      BY ONLY <2>1, <3>a, <2>0, i \in 1 .. (m + n) - 1
    <3>2. F[i] = G.F[k + i] /\ F[i + 1] = G.F[(k + i) + 1]
      <4>1. F[i] = f[i] /\ F[i + 1] = f[i + 1]
        BY <3>1, <1>4
      <4>2. f[i] = G.F[k + i] /\ f[i + 1] = G.F[k + (i + 1)]
        BY <3>1, <1>2
      <4> QED BY <4>1, <4>2, <3>1
    <3>3. mem[G.F[k + i] + BlockLen] = G.F[(k + i) + 1]
      BY <3>1, <1>0, <1>5 DEF Ahead
    <3> QED BY <3>2, <3>3
  <2>2. CASE i = m
    <3>a. L \in Nat /\ k \in Nat /\ m = L - k /\ m \in Nat /\ m >= 1 /\ n \in Nat /\ n >= 1
      BY <1>1, <1>2, <1>3
    <3>1. m \in 1 .. m /\ k + m = L /\ 1 \in 1 .. n
      BY ONLY <3>a
    <3>2. F[m] = G.F[L] /\ F[m + 1] = s[1]
      BY <3>1, <1>2, <1>4
    <3> QED BY <3>2, <2>2, <1>6
  <2>3. CASE i > m
    <3>0. PICK j : j = i - m
      OBVIOUS
    <3>1. j \in 1 .. n - 1 /\ j \in 1 .. n /\ j + 1 \in 1 .. n /\ i = m + j /\ i + 1 = m + (j + 1)
      BY ONLY <3>0, <2>3, <2>0, i \in 1 .. (m + n) - 1
    <3>2. F[i] = s[j] /\ F[i + 1] = s[j + 1]
      BY <3>1, <1>4
    <3> QED BY <3>1, <3>2, <1>3
  <2> QED BY <2>1, <2>2, <2>3, <2>4
<1>9. hdr.head = F[1] /\ hdr.tail = F[m + n]
  <2>a. m \in Nat /\ n \in Nat /\ m >= 1 /\ n >= 1
    BY <1>2, <1>3
  <2>1. 1 \in 1 .. m /\ n \in 1 .. n
    BY ONLY <2>a
  <2>2. F[1] = G.F[k + 1] /\ F[m + n] = s[n]
    BY <2>1, <1>2, <1>4
  <2> QED BY <2>2, <1>6
<1>10. m + n >= 1
  <2>1. m \in Nat /\ n \in Nat /\ m >= 1
    BY <1>2, <1>3
  <2> QED BY ONLY <2>1
<1>11. Owns(o, 1, F, 1)
  BY <1>4, <1>7 DEF Owns
<1>12. FreeBut(mem, F, 0)
  <2> SUFFICES ASSUME NEW i \in 1 .. Len(F) - 1 PROVE mem[F[i] + BlockLen] = F[i + 1]
    BY DEF FreeBut
  <2>1. Len(F) = m + n
    BY <1>4
  <2>2. i \in 1 .. (m + n) - 1
    BY ONLY <2>1, i \in 1 .. Len(F) - 1
  <2> QED BY <2>2, <1>8
<1> QED BY <1>4, <1>9, <1>10, <1>11, <1>12 DEF Listed

\* The file with the value of the put in progress in its place.
Swapped(G, S, X, o) ==
  /\ Laid(G.T, S, o, hdr.size) /\ Filed(mem, G.T, S, X)
  /\ \A i \in 1 .. Len(G.T) : TabIs(mem, G.T, S, i)
  /\ X[2 * G.p + 1] = put.val /\ 2 * G.p + 1 \in 2 .. 2 * Len(G.T) - 1
  /\ \A c \in 2 .. 2 * Len(G.T) - 1 : c # 2 * G.p + 1 => X[c] = G.X[c]

LEMMA Replaced ==
  ASSUME NEW G, NEW Z, Flight(G, Z), FlightFacts(G, Z), put.pc = "neg", ~put.insert,
         NEW c, c = 2 * G.p + 1, NEW m, m = Len(G.F) - Z.k,
         NEW S, S = [G.S EXCEPT ![c] = Z.V], NEW X, X = [G.X EXCEPT ![c] = put.val],
         NEW o, o = RepMap(Z.o, Z.k, c, m)
  PROVE  Swapped(G, S, X, o) /\ RepLabels(Z.o, o, Z.k, c, m)
<1>0. PICK n, p : n = Len(G.T) /\ p = G.p
  OBVIOUS
<1>1. /\ Laid(G.T, G.S, Z.o, hdr.size) /\ Placed(Z.o, hdr.size) /\ hdr.size \in Nat
      /\ n \in Nat /\ n >= 1 /\ put \in FlightPut /\ p \in 1 .. n
  BY <1>0 DEF FlightFacts
<1>2. At(G, Z) /\ Job(G) /\ Backed(G) /\ Unseen(G)
  BY DEF Flight
<1>3. ValueDone(Z) /\ mem[put.cur_off + 3] = put.cur_tab.value /\ put.cur_off = G.T[p]
      /\ p # n /\ TabSame(mem, G.T, G.S, p)
  BY <1>0, <1>2 DEF At, Job, Unseen
<1>4. c = 2 * p + 1 /\ c \in 2 .. 2 * n - 1 /\ c \in Nat \ {0, 1}
  BY <1>0, <1>1, <1>3
<1>5. Placed(o, hdr.size) /\ RepLabels(Z.o, o, Z.k, c, m)
  BY <1>1, <1>4, RepMapIs
<1>6. /\ Z.V \in Seq(Nat) /\ Len(Z.V) >= 1 /\ Strung(mem, Z.V, put.val)
      /\ \A i \in 1 .. Len(Z.V) : Z.V[i] \in DOMAIN Z.o /\ Z.o[Z.V[i]] = <<-1, i>>
      /\ put.cur_tab.value = Z.V[1]
  BY <1>3 DEF FlightFacts, ValueDone
<1>7. /\ G.S \in [2 .. 2 * n - 1 -> Seq(Nat)] /\ G.X \in [2 .. 2 * n - 1 -> Seq(Nat \ {0})]
      /\ put.val \in Seq(Nat \ {0})
  BY <1>0, <1>1, <1>2, GoalIs DEF Laid, Backed, Filed
<1>8. /\ S \in [2 .. 2 * n - 1 -> Seq(Nat)] /\ S[c] = Z.V
      /\ \A d \in 2 .. 2 * n - 1 : d # c => S[d] = G.S[d]
      /\ X \in [2 .. 2 * n - 1 -> Seq(Nat \ {0})] /\ X[c] = put.val
      /\ \A d \in 2 .. 2 * n - 1 : d # c => X[d] = G.X[d]
  BY <1>4, <1>6, <1>7
<1>9. Owns(o, 0, G.T, 1)
  <2> SUFFICES ASSUME NEW i \in 1 .. n PROVE G.T[i] \in DOMAIN o /\ o[G.T[i]] = <<0, i>>
    BY <1>0 DEF Owns
  <2>0. PICK a : a = G.T[i]
    OBVIOUS
  <2>1. a \in DOMAIN Z.o /\ Z.o[a] = <<0, i>>
    BY <2>0, <1>0, <1>1 DEF Laid, Owns
  <2>2. 0 \notin {-1, c, 1}
    BY <1>4
  <2> QED BY <2>0, <2>1, <2>2, <1>5 DEF RepLabels
<1>10. ASSUME NEW d \in 2 .. 2 * n - 1 PROVE Len(S[d]) >= 1 /\ Owns(o, d, S[d], 1)
  <2>1. CASE d = c
    <3>1. ASSUME NEW i \in 1 .. Len(Z.V) PROVE Z.V[i] \in DOMAIN o /\ o[Z.V[i]] = <<c, i>>
      <4>0. PICK a : a = Z.V[i]
        OBVIOUS
      <4>1. a \in DOMAIN Z.o /\ Z.o[a] = <<-1, i>>
        BY <4>0, <1>6
      <4>2. a \in DOMAIN o /\ o[a] = <<c, i>>
        BY <4>1, <1>5 DEF RepLabels
      <4> QED BY <4>0, <4>2
    <3> QED BY <3>1, <2>1, <1>6, <1>8 DEF Owns
  <2>2. CASE d # c
    <3>0. PICK s : s = G.S[d]
      OBVIOUS
    <3>1. S[d] = s /\ Len(s) >= 1 /\ Owns(Z.o, d, s, 1)
      BY <3>0, <2>2, <1>0, <1>1, <1>8 DEF Laid
    <3>2. d \notin {-1, c, 1}
      BY <2>2, <1>1
    <3>3. ASSUME NEW i \in 1 .. Len(s) PROVE s[i] \in DOMAIN o /\ o[s[i]] = <<d, i>>
      <4>0. PICK a : a = s[i]
        OBVIOUS
      <4>1. a \in DOMAIN Z.o /\ Z.o[a] = <<d, i>>
        BY <4>0, <3>1 DEF Owns
      <4>2. a \in DOMAIN o /\ o[a] = <<d, i>>
        BY <4>1, <3>2, <1>5 DEF RepLabels
      <4> QED BY <4>0, <4>2
    <3> QED BY <3>1, <3>3 DEF Owns
  <2> QED BY <2>1, <2>2
<1>11. Laid(G.T, S, o, hdr.size)
  <2>1. G.T \in Seq(Nat) /\ Len(G.T) >= 1 /\ G.T[1] = 0
    BY <1>1 DEF Laid
  <2> QED BY <2>1, <1>0, <1>5, <1>8, <1>9, <1>10 DEF Laid
<1>12. Filed(mem, G.T, S, X)
  <2>1. \A d \in 2 .. 2 * n - 1 : Strung(mem, G.S[d], G.X[d])
    BY <1>0, <1>2 DEF Backed, Filed
  <2>2. ASSUME NEW d \in 2 .. 2 * n - 1 PROVE Strung(mem, S[d], X[d])
    BY <2>1, <1>6, <1>8
  <2> QED BY <2>2, <1>0, <1>8 DEF Filed
<1>13. ASSUME NEW i \in 1 .. n PROVE TabIs(mem, G.T, S, i)
  <2>1. CASE i = n
    <3>1. TabIs(mem, G.T, G.S, i)
      BY <2>1, <1>0, <1>2, <1>3 DEF Backed
    <3> QED BY <3>1, <2>1, <1>0 DEF TabIs, TabSame
  <2>2. CASE i # n
    <3>1. 2 * i \in 2 .. 2 * n - 1 /\ 2 * i + 1 \in 2 .. 2 * n - 1 /\ 2 * i # c
          /\ (i # p => 2 * i + 1 # c)
      BY <2>2, <1>1, <1>4
    <3>2. S[2 * i] = G.S[2 * i] /\ (i # p => S[2 * i + 1] = G.S[2 * i + 1])
      BY <3>1, <1>8
    <3>3. TabSame(mem, G.T, G.S, i) /\ (i # p => TabIs(mem, G.T, G.S, i))
      <4>1. i # p => TabIs(mem, G.T, G.S, i)
        BY <1>0, <1>2 DEF Backed
      <4> QED BY <4>1, <1>3 DEF TabIs
    <3>4. TabSame(mem, G.T, S, i)
      BY <3>2, <3>3 DEF TabSame
    <3>5. CASE i = p
      <4>1. S[2 * i + 1] = Z.V
        BY <3>5, <1>4, <1>8
      <4> QED BY <4>1, <3>4, <3>5, <1>3, <1>6 DEF TabIs
    <3>6. CASE i # p
      BY <3>2, <3>3, <3>4, <3>6, <2>2, <1>0 DEF TabIs
    <3> QED BY <3>5, <3>6
  <2> QED BY <2>1, <2>2
<1> QED BY <1>0, <1>4, <1>5, <1>8, <1>11, <1>12, <1>13 DEF Swapped

-----------------------------------------------------------------------------
(* The end of a put, and the death of its process                             *)

LEMMA QuietNew ==
  ASSUME NEW T, NEW S, NEW X, NEW o, NEW F, FileTypeOK, Laid(T, S, o, hdr.size),
         Filed(mem, T, S, X), \A i \in 1 .. Len(T) : TabIs(mem, T, S, i), Listed(o, F),
         Means(T, X)', mem' = mem, hdr' = [hdr EXCEPT !.backup_flag = 0]
  PROVE  \E G : Quiet(G)'
<1> DEFINE G == [T |-> T, S |-> S, X |-> X, F |-> F, o |-> o, p |-> 1]
<1>1. hdr'.size = hdr.size /\ hdr'.head = hdr.head /\ hdr'.tail = hdr.tail
  BY DEF FileTypeOK
<1>2. G.T = T /\ G.S = S /\ G.X = X /\ G.F = F /\ G.o = o
  OBVIOUS
<1> HIDE DEF G
<1>3. Stored(G, hdr.size)
  BY <1>2 DEF Stored, Listed
<1>4. Quiet(G)'
  BY <1>1, <1>2, <1>3 DEF Quiet, Listed
<1> QED BY <1>4

\* What the entries mean when the put returns: one more, or another value.
OneMore(T, X, n, key, val, T2, X2) ==
  /\ n = Len(T) /\ n \in Nat /\ n >= 1 /\ key \in Keys /\ val \in Vals
  /\ \A i \in 1 .. n - 1 : X[2 * i] # key
  /\ Len(T2) = n + 1 /\ X2[2 * n] = key /\ X2[2 * n + 1] = val
  /\ \A c \in 2 .. 2 * n - 1 : X2[c] = X[c]
OneElse(T, X, n, p, key, val, X2) ==
  /\ n = Len(T) /\ n \in Nat /\ p \in 1 .. n - 1 /\ key \in Keys /\ val \in Vals
  /\ X[2 * p] = key /\ X2[2 * p + 1] = val
  /\ \A c \in 2 .. 2 * n - 1 : c # 2 * p + 1 => X2[c] = X[c]

LEMMA MeansMore ==
  ASSUME NEW T, NEW X, Means(T, X), NEW n, NEW key, NEW val, NEW T2, NEW X2,
         OneMore(T, X, n, key, val, T2, X2), dict \in [Keys -> Vals \cup {NULL}],
         dict' = [dict EXCEPT ![key] = val]
  PROVE  Means(T2, X2)'
<1> USE DEF OneMore
<1>1. \A i \in 1 .. n - 1 : X2[2 * i] = X[2 * i] /\ X2[2 * i + 1] = X[2 * i + 1]
  <2>1. \A i \in 1 .. n - 1 : 2 * i \in 2 .. 2 * n - 1 /\ 2 * i + 1 \in 2 .. 2 * n - 1
    OBVIOUS
  <2> QED BY <2>1
<1>2. \A i \in 1 .. Len(T2) - 1 : i \in 1 .. n - 1 \/ i = n
  OBVIOUS
<1>3. /\ \A i \in 1 .. n - 1 : X[2 * i] \in Keys /\ X[2 * i + 1] \in Vals
                                /\ dict[X[2 * i]] = X[2 * i + 1]
      /\ \A i, j \in 1 .. n - 1 : X[2 * i] = X[2 * j] => i = j
      /\ \A k \in Keys : dict[k] # NULL => \E i \in 1 .. n - 1 : X[2 * i] = k
  BY DEF Means
<1>4. dict'[key] = val /\ \A k \in Keys : k # key => dict'[k] = dict[k]
  OBVIOUS
<1>5. ASSUME NEW i \in 1 .. Len(T2) - 1
      PROVE  X2[2 * i] \in Keys /\ X2[2 * i + 1] \in Vals /\ dict'[X2[2 * i]] = X2[2 * i + 1]
  <2>1. CASE i \in 1 .. n - 1
    BY <2>1, <1>1, <1>3, <1>4
  <2>2. CASE i = n
    BY <2>2, <1>4
  <2> QED BY <2>1, <2>2, <1>2
<1>6. ASSUME NEW i \in 1 .. Len(T2) - 1, NEW j \in 1 .. Len(T2) - 1, X2[2 * i] = X2[2 * j]
      PROVE  i = j
  <2>1. CASE i \in 1 .. n - 1 /\ j \in 1 .. n - 1
    BY <2>1, <1>1, <1>3, <1>6
  <2>2. CASE i = n
    <3>1. X2[2 * j] = key
      BY <2>2, <1>6
    <3> QED BY <3>1, <2>2, <1>1, <1>2
  <2>3. CASE j = n
    <3>1. X2[2 * i] = key
      BY <2>3, <1>6
    <3> QED BY <3>1, <2>3, <1>1, <1>2
  <2> QED BY <2>1, <2>2, <2>3, <1>2
<1>7. ASSUME NEW k \in Keys, dict'[k] # NULL
      PROVE  \E i \in 1 .. Len(T2) - 1 : X2[2 * i] = k
  <2>1. \A i \in 1 .. n - 1 : i \in 1 .. Len(T2) - 1
    OBVIOUS
  <2>2. n \in 1 .. Len(T2) - 1
    OBVIOUS
  <2>3. CASE k = key
    BY <2>2, <2>3
  <2>4. CASE k # key
    <3>1. PICK i \in 1 .. n - 1 : X[2 * i] = k
      BY <2>4, <1>3, <1>4, <1>7
    <3> QED BY <3>1, <2>1, <1>1
  <2> QED BY <2>3, <2>4
<1> QED BY <1>5, <1>6, <1>7 DEF Means

LEMMA MeansElse ==
  ASSUME NEW T, NEW X, Means(T, X), NEW n, NEW p, NEW key, NEW val, NEW X2,
         OneElse(T, X, n, p, key, val, X2), dict \in [Keys -> Vals \cup {NULL}],
         dict' = [dict EXCEPT ![key] = val]
  PROVE  Means(T, X2)'
<1> USE DEF OneElse
<1>1. ASSUME NEW i \in 1 .. n - 1
      PROVE  X2[2 * i] = X[2 * i] /\ (i # p => X2[2 * i + 1] = X[2 * i + 1])
  <2>1. 2 * i \in 2 .. 2 * n - 1 /\ 2 * i + 1 \in 2 .. 2 * n - 1
        /\ 2 * i # 2 * p + 1 /\ (i # p => 2 * i + 1 # 2 * p + 1)
    OBVIOUS
  <2> QED BY <2>1
<1>2. /\ \A i \in 1 .. n - 1 : X[2 * i] \in Keys /\ X[2 * i + 1] \in Vals
                                /\ dict[X[2 * i]] = X[2 * i + 1]
      /\ \A i, j \in 1 .. n - 1 : X[2 * i] = X[2 * j] => i = j
      /\ \A k \in Keys : dict[k] # NULL => \E i \in 1 .. n - 1 : X[2 * i] = k
  BY DEF Means
<1>3. dict'[key] = val /\ \A k \in Keys : k # key => dict'[k] = dict[k]
  OBVIOUS
<1>4. ASSUME NEW i \in 1 .. n - 1
      PROVE  X2[2 * i] \in Keys /\ X2[2 * i + 1] \in Vals /\ dict'[X2[2 * i]] = X2[2 * i + 1]
  <2>1. CASE i = p
    BY <2>1, <1>1, <1>3
  <2>2. CASE i # p
    <3>1. X[2 * i] # key /\ X[2 * i] \in Keys
      BY <2>2, <1>2
    <3> QED BY <3>1, <2>2, <1>1, <1>2, <1>3
  <2> QED BY <2>1, <2>2
<1>5. \A i, j \in 1 .. n - 1 : X2[2 * i] = X2[2 * j] => i = j
  BY <1>1, <1>2
<1>6. ASSUME NEW k \in Keys, dict'[k] # NULL
      PROVE  \E i \in 1 .. n - 1 : X2[2 * i] = k
  <2>1. \E i \in 1 .. n - 1 : X[2 * i] = k
    BY <1>2, <1>3, <1>6
  <2> QED BY <2>1, <1>1
<1> QED BY <1>4, <1>5, <1>6 DEF Means

LEMMA ReturnKeeps == FileInv /\ Return => FileInv'
<1> SUFFICES ASSUME FileInv, Return PROVE FileInv'
  OBVIOUS
<1>1. /\ put.pc = "neg" /\ mem' = mem /\ half' = half /\ puts' = puts
      /\ hdr' = [hdr EXCEPT !.backup_flag = 0] /\ put' = Idle
      /\ dict' = [dict EXCEPT ![put.key] = put.val]
  BY DEF Return
<1>2. FileTypeOK /\ Words \in Nat /\ hdr.backup_flag = 1 /\ put.pc \in FlightPc
  BY <1>1, FlightOf DEF FlightPc
<1>3. PICK G, Z : Flight(G, Z) /\ FlightFacts(G, Z)
  BY <1>2, FlightOf
<1>0. PICK n, key, val : n = Len(G.T) /\ key = put.key /\ val = put.val
  OBVIOUS
<1>4. /\ key \in Keys /\ val \in Vals /\ n \in Nat /\ n >= 1 /\ G.p \in 1 .. n
      /\ dict \in [Keys -> Vals \cup {NULL}] /\ dict' = [dict EXCEPT ![key] = val]
  BY <1>0, <1>1, <1>2, <1>3 DEF FlightFacts, FlightPut, FileTypeOK
<1>5. Means(G.T, G.X) /\ Job(G)
  BY <1>3 DEF Flight, Backed
<1>6. FileTypeOK'
  <2>1. dict' \in [Keys -> Vals \cup {NULL}]
    BY <1>4
  <2> QED BY <2>1, <1>1, <1>2 DEF FileTypeOK
<1>7. hdr'.backup_flag = 0
  BY <1>1, <1>2 DEF FileTypeOK
<1>8. \E H : Quiet(H)'
  <2>1. CASE put.insert
    <3>1. PICK nt : nt = put.cur_tab.next
      OBVIOUS
    <3>2. PICK T, S, X, o, F :
            /\ T = Append(G.T, nt) /\ S = WithEntry(G.S, n, Z.K, Z.V)
            /\ X = WithEntry(G.X, n, put.key, put.val) /\ o = InsMap(Z.o, Z.k, n, nt)
            /\ F = SubSeq(G.F, Z.k + 1, Len(G.F))
      OBVIOUS
    <3>3. Entered(G, T, S, X, o) /\ InsLabels(Z.o, o, Z.k, n, nt)
      BY <3>1, <3>2, <2>1, <1>0, <1>1, <1>3, Inserted
    <3>4. Listed(o, F)
      BY <3>2, <3>3, <2>1, <1>1, <1>3, InsertedFree
    <3>5. \A i \in 1 .. n - 1 : G.X[2 * i] # key
      BY <2>1, <1>0, <1>5 DEF Job
    <3>6. Means(T, X)'
      <4>1. /\ Len(T) = n + 1 /\ X[2 * n] = key /\ X[2 * n + 1] = val
            /\ \A c \in 2 .. 2 * n - 1 : X[c] = G.X[c]
        BY <3>3, <1>0 DEF Entered
      <4>2. OneMore(G.T, G.X, n, key, val, T, X)
        BY <4>1, <3>5, <1>0, <1>4 DEF OneMore
      <4> QED BY <4>2, <1>4, <1>5, MeansMore
    <3>7. /\ Laid(T, S, o, hdr.size) /\ Filed(mem, T, S, X)
          /\ \A i \in 1 .. Len(T) : TabIs(mem, T, S, i)
      BY <3>3 DEF Entered
    <3> QED BY <3>4, <3>6, <3>7, <1>1, <1>2, QuietNew
  <2>2. CASE ~put.insert
    <3>1. PICK c, m, s : c = 2 * G.p + 1 /\ m = Len(G.F) - Z.k /\ s = G.S[c]
      OBVIOUS
    <3>2. PICK S, X, o, F :
            /\ S = [G.S EXCEPT ![c] = Z.V] /\ X = [G.X EXCEPT ![c] = put.val]
            /\ o = RepMap(Z.o, Z.k, c, m) /\ F = SubSeq(G.F, Z.k + 1, Len(G.F)) \o s
      OBVIOUS
    <3>3. Swapped(G, S, X, o) /\ RepLabels(Z.o, o, Z.k, c, m)
      BY <3>1, <3>2, <2>2, <1>1, <1>3, Replaced
    <3>4. Listed(o, F)
      <4>1. c \in 2 .. 2 * Len(G.T) - 1
        BY <3>1, <3>3 DEF Swapped
      <4> QED BY <4>1, <3>1, <3>2, <3>3, <2>2, <1>1, <1>3, ReplacedFree
    <3>5. Means(G.T, X)'
      <4>1. G.p \in 1 .. n - 1 /\ G.X[2 * G.p] = key
        <5>1. G.p # n /\ G.X[2 * G.p] = key
          BY <2>2, <1>0, <1>5 DEF Job
        <5> QED BY <5>1, <1>4
      <4>2. /\ X[2 * G.p + 1] = val
            /\ \A d \in 2 .. 2 * n - 1 : d # 2 * G.p + 1 => X[d] = G.X[d]
        BY <3>3, <1>0 DEF Swapped
      <4>3. OneElse(G.T, G.X, n, G.p, key, val, X)
        BY <4>1, <4>2, <1>0, <1>4 DEF OneElse
      <4> QED BY <4>3, <1>4, <1>5, MeansElse
    <3>6. /\ Laid(G.T, S, o, hdr.size) /\ Filed(mem, G.T, S, X)
          /\ \A i \in 1 .. Len(G.T) : TabIs(mem, G.T, S, i)
      BY <3>3 DEF Swapped
    <3> QED BY <3>4, <3>5, <3>6, <1>1, <1>2, QuietNew
  <2> QED BY <2>1, <2>2
<1> QED BY <1>1, <1>6, <1>7, <1>8, QuietStep

\* What recovery will write completes the list of free blocks.
LEMMA UndoFlight ==
  ASSUME FileTypeOK, NEW G, NEW Z, Flight(G, Z), FlightFacts(G, Z), Untouched \/ Linked
  PROVE  Undo(G, hdr.head)
<1>0. PICK k, h, L : k = Z.k /\ h = Z.h /\ L = Len(G.F)
  OBVIOUS
<1>1. HeadAt(G, Z) /\ Undoable(G, Z) /\ hdr.backup_list.head = G.F[1]
  BY DEF Flight, Backed
<1>2. L \in Nat /\ L >= 1 /\ k \in Nat /\ k < L /\ h \in 1 .. k + 1 /\ hdr.head = G.F[h]
  BY <1>0, <1>1 DEF FlightFacts, HeadAt
<1>3. CASE Untouched
  <2>1. hdr.backup_prev = 0 /\ hdr.head = TabLen /\ G.F[1] = TabLen
    BY <1>3, <1>1 DEF Untouched
  <2>2. h \in 1 .. L /\ 1 \in 1 .. L
    BY ONLY <1>2
  <2>3. h = 1
    BY <2>1, <2>2, <1>0, <1>2 DEF FlightFacts
  <2>4. FreeBut(mem, G.F, 0)
    BY <2>1, <2>3, <1>0, <1>1 DEF Undoable
  <2> QED BY <2>1, <2>4 DEF Undo
<1>4. CASE Linked
  <2>1. /\ hdr.backup_prev # 0 /\ ~put.insert
        /\ put.pc \in {"zero", "head", "tab", "free", "tail", "neg"}
    BY <1>4 DEF Linked
  <2>2. h = k + 1
    BY <2>1, <1>0, <1>1 DEF HeadAt
  <2>3. k >= 1 /\ hdr.backup_prev = G.F[k] /\ FreeBut(mem, G.F, k)
    BY <2>1, <1>0, <1>1 DEF Undoable
  <2>4. k \in 1 .. L - 1
    BY ONLY <2>3, <1>2
  <2> QED BY <2>2, <2>3, <2>4, <1>0, <1>2 DEF Undo
<1> QED BY <1>3, <1>4

\* And the tab is as it was, or the new entry shows.
LEMMA SeenFlight ==
  ASSUME FileTypeOK, NEW G, NEW Z, Flight(G, Z), FlightFacts(G, Z), mem' = mem, Words \in Nat,
         half' = IF put.pc = "neg" /\ put.insert THEN {<<put.key, put.val>>} ELSE half
  PROVE  Seen(G)'
<1>1. Job(G) /\ Unseen(G)
  BY DEF Flight
<1>2. CASE put.pc # "neg" \/ ~put.insert
  BY <1>1, <1>2 DEF Unseen, Seen
<1>3. CASE put.pc = "neg" /\ put.insert
  <2>0. PICK n, nt : n = Len(G.T) /\ nt = put.cur_tab.next
    OBVIOUS
  <2>1. PICK T, S, X, o :
          /\ T = Append(G.T, nt) /\ S = WithEntry(G.S, n, Z.K, Z.V)
          /\ X = WithEntry(G.X, n, put.key, put.val) /\ o = InsMap(Z.o, Z.k, n, nt)
    OBVIOUS
  <2>2. Entered(G, T, S, X, o)
    BY <2>0, <2>1, <1>3, Inserted
  <2>3. Laid(T, S, o, Words)
    <3>1. Laid(T, S, o, hdr.size) /\ hdr.size \in Nat /\ hdr.size <= Words
      BY <2>2 DEF Entered, FlightFacts
    <3>2. Placed(o, hdr.size)
      BY <3>1 DEF Laid
    <3>3. ASSUME NEW a \in DOMAIN o PROVE a + Width(o[a]) <= Words
      <4>1. a \in Nat /\ a + Width(o[a]) <= hdr.size
        BY <3>2 DEF Placed
      <4>2. Width(o[a]) = 5 \/ Width(o[a]) = 8
        BY DEF Width, TabLen, StringLen, BlockLen
      <4> QED BY <4>1, <4>2, <3>1
    <3>4. Placed(o, Words)
      BY <3>2, <3>3 DEF Placed
    <3> QED BY <3>1, <3>4 DEF Laid
  <2>4. /\ Len(T) = Len(G.T) + 1 /\ Filed(mem, T, S, X)
        /\ \A i \in 1 .. Len(T) : TabIs(mem, T, S, i)
        /\ \A c \in 2 .. 2 * Len(G.T) - 1 : X[c] = G.X[c]
        /\ X[2 * Len(G.T)] = put.key /\ X[2 * Len(G.T) + 1] = put.val
    BY <2>2 DEF Entered
  <2>5. <<X[2 * Len(G.T)], X[2 * Len(G.T) + 1]>> \in half'
    BY <2>4, <1>3
  <2>6. G.p = Len(G.T) /\ \A i \in 1 .. Len(G.T) - 1 : G.X[2 * i] # X[2 * Len(G.T)]
    BY <2>4, <1>1, <1>3 DEF Job
  <2>7. Shown(G)'
    BY <2>3, <2>4, <2>5, <2>6 DEF Shown
  <2> QED BY <2>7 DEF Seen
<1> QED BY <1>2, <1>3

LEMMA DieKeeps == FileInv /\ Die => FileInv'
<1> SUFFICES ASSUME FileInv, Die PROVE FileInv'
  OBVIOUS
<1>1. /\ put.pc # "idle" /\ mem' = mem /\ hdr' = hdr /\ dict' = dict /\ puts' = puts
      /\ put' = Idle /\ (hdr.backup_flag = 1 /\ ~torn' => ~torn /\ (Untouched \/ Linked))
      /\ half' = IF put.pc = "neg" /\ put.insert THEN {<<put.key, put.val>>} ELSE half
  BY DEF Die
<1>2. FileTypeOK /\ Words \in Nat /\ put.pc \in RecoverPc \cup FlightPc
  BY <1>1, KvdbFileAssumption DEF FileInv
<1>3. CASE put.pc = "find"
  <2>1. hdr.backup_flag = 0 /\ \E G : Quiet(G)
    BY <1>2, <1>3 DEF FileInv, FileTypeOK
  <2>2. PICK G : Quiet(G)
    BY <2>1
  <2>3. FileTypeOK'
    BY <1>1, <1>2, <1>3 DEF FileTypeOK
  <2>4. Quiet(G)'
    BY <2>2, <1>1, QuietSame
  <2> QED BY <2>1, <2>3, <2>4, <1>1, QuietStep
<1>4. CASE put.pc \in {"rlist", "rtab", "rlink", "rneg"}
  <2>1. hdr.backup_flag = 1 /\ half' = half
    BY <1>1, <1>4, CrashedHas
  <2>2. PICK G : Crashed(G) /\ Backed(G)
    BY <1>4, CrashedHas
  <2>3. FileTypeOK'
    BY <1>1, <1>2, <2>1 DEF FileTypeOK
  <2>4. Backed(G)'
    <3>1. SameBackup
      BY <1>1 DEF SameBackup
    <3> QED BY <3>1, <2>2, <1>1, BackedSame
  <2>5. G.F[1] = hdr.backup_list.head
    BY <2>2 DEF Backed
  <2>6. ~torn' /\ put.pc # "rlist" =>
          ~torn /\ hdr.backup_prev = 0 /\ hdr.head = TabLen /\ G.F[1] = TabLen
    BY <2>1, <2>5, <1>1, <1>4 DEF Untouched, Linked
  <2>7. \A b \in 1 .. Len(G.F) - 1 : G.F[b] # 0
    <3>1. FreeFacts(G.F, G.o, hdr.backup_list.size)
      <4>1. Stored(G, hdr.backup_list.size) /\ hdr.backup_list.size \in Nat
        BY <2>2, <1>2 DEF Backed, FileTypeOK
      <4> QED BY <4>1, FreeAt
    <3>2. \A b \in 1 .. Len(G.F) - 1 : b \in 1 .. Len(G.F)
      BY <3>1 DEF FreeFacts
    <3> QED BY <3>1, <3>2 DEF FreeFacts
  <2>8. (torn' \/ Undo(G, hdr.head)) /\ Seen(G)
    <3>1. CASE put.pc = "rlist"
      BY <3>1, <2>1, <2>2, <1>1 DEF Crashed
    <3>2. CASE put.pc = "rneg"
      BY <3>2, <2>2, <2>6 DEF Crashed, Undo, Seen, TabIs
    <3>3. CASE put.pc \in {"rtab", "rlink"}
      <4>1. (torn \/ Undo(G, put.head)) /\ Seen(G)
        BY <3>3, <2>2 DEF Crashed, Seen, TabIs
      <4>2. torn' \/ FreeBut(mem, G.F, 0)
        BY <4>1, <3>3, <2>6, <2>7 DEF Undo
      <4> QED BY <4>1, <4>2, <3>3, <2>6 DEF Undo
    <3> QED BY <3>1, <3>2, <3>3, <1>4
  <2>9. (torn' \/ (Undo(G, hdr.head))') /\ Seen(G)'
    <3>1. torn' \/ (Undo(G, hdr.head))'
      BY <2>8, <1>1 DEF Undo
    <3>2. Shown(G) => Shown(G)'
      BY <1>1, <2>1 DEF Shown
    <3> QED BY <3>1, <3>2, <2>8, <1>1 DEF Seen
  <2>10. put'.pc = "idle"
    BY <1>1 DEF Idle
  <2>11. Crashed(G)'
    BY <2>4, <2>9, <2>10 DEF Crashed
  <2> QED BY <2>1, <2>3, <2>11, <1>1, CrashedStep
<1>5. CASE put.pc \in FlightPc
  <2>1. hdr.backup_flag = 1
    BY <1>5, FlightOf
  <2>2. PICK G, Z : Flight(G, Z) /\ FlightFacts(G, Z)
    BY <1>5, FlightOf
  <2>3. Backed(G)'
    <3>1. SameBackup /\ Backed(G)
      BY <1>1, <2>2 DEF SameBackup, Flight
    <3> QED BY <3>1, <1>1, BackedSame
  <2>4. torn' \/ (Undo(G, hdr.head))'
    <3>1. CASE ~torn'
      <4>1. Untouched \/ Linked
        BY <3>1, <2>1, <1>1
      <4>2. Undo(G, hdr.head)
        BY <4>1, <2>2, <1>2, UndoFlight
      <4> QED BY <4>2, <1>1 DEF Undo
    <3> QED BY <3>1
  <2>5. Seen(G)'
    BY <2>2, <1>1, <1>2, SeenFlight
  <2>6. FileTypeOK'
    <3>1. put.key \in Keys /\ put.val \in Vals
      BY <2>2 DEF FlightFacts, FlightPut
    <3>2. half' \subseteq Keys \X Vals
      BY <3>1, <1>1, <1>2 DEF FileTypeOK
    <3> QED BY <3>2, <1>1, <1>2 DEF FileTypeOK
  <2>7. put'.pc = "idle"
    BY <1>1 DEF Idle
  <2>8. Crashed(G)'
    BY <2>3, <2>4, <2>5, <2>7 DEF Crashed
  <2> QED BY <2>1, <2>6, <2>8, <1>1, CrashedStep
<1> QED BY <1>2, <1>3, <1>4, <1>5 DEF RecoverPc

-----------------------------------------------------------------------------
(* The theorems                                                               *)

\* A step that leaves the file alone.
LEMMA SameKeeps == FileInv /\ UNCHANGED file_vars => FileInv'
<1> SUFFICES ASSUME FileInv, UNCHANGED file_vars PROVE FileInv'
  OBVIOUS
<1>1. mem' = mem /\ hdr' = hdr /\ put' = put /\ dict' = dict /\ half' = half /\ puts' = puts
      /\ torn' = torn
  BY DEF file_vars
<1>2. FileTypeOK => FileTypeOK'
  BY <1>1 DEF FileTypeOK
<1>3. ASSUME NEW G, Quiet(G) PROVE Quiet(G)'
  BY <1>1, <1>3, QuietSame
<1>4. ASSUME NEW G, Backed(G) PROVE Backed(G)'
  <2>1. SameBackup
    BY <1>1 DEF SameBackup
  <2> QED BY <2>1, <1>1, <1>4, BackedSame
<1>5. ASSUME NEW G, Crashed(G) PROVE Crashed(G)'
  <2>1. Seen(G) => Seen(G)'
    BY <1>1 DEF Seen, Shown
  <2>2. Undo(G, hdr.head) => (Undo(G, hdr.head))'
    BY <1>1 DEF Undo
  <2>3. Undo(G, put.head) => (Undo(G, put.head))'
    BY <1>1 DEF Undo
  <2>4. ListBack => ListBack'
    BY <1>1 DEF ListBack
  <2>5. Backed(G)'
    BY <1>4, <1>5 DEF Crashed
  <2> QED BY <2>1, <2>2, <2>3, <2>4, <2>5, <1>1, <1>5 DEF Crashed
<1>6. ASSUME NEW G, NEW Z, Flight(G, Z) PROVE Flight(G, Z)'
  <2>1. Backed(G)'
    BY <1>4, <1>6 DEF Flight
  <2>2. At(G, Z) => At(G, Z)'
    <3>1. ValueDone(Z) <=> ValueDone(Z)'
      BY <1>1 DEF ValueDone
    <3>2. KeyDone(Z) <=> KeyDone(Z)'
      BY <1>1 DEF KeyDone
    <3>3. Goal' = Goal /\ Chain(Z)' = Chain(Z) /\ Left' = Left
      BY <1>1 DEF Goal, Chain, Left
    <3>4. ASSUME NEW n, Filling(G, Z, n) PROVE Filling(G, Z, n)'
      BY <1>1, <3>3, <3>4 DEF Filling
    <3>5. TakenFrom(G, Z) => TakenFrom(G, Z)'
      BY <1>1 DEF TakenFrom
    <3>6. (NewTabAt(Z) => NewTabAt(Z)') /\ (NewTabEmpty => NewTabEmpty')
      BY <1>1 DEF NewTabAt, NewTabEmpty
    <3>7. ASSUME NEW n, n = Len(Chain(Z)) PROVE n = (Len(Chain(Z)))'
      BY <3>3, <3>7
    <3> QED BY <1>1, <3>1, <3>2, <3>3, <3>4, <3>5, <3>6 DEF At
  <2>3. (Job(G) => Job(G)') /\ (Unseen(G) => Unseen(G)') /\ (HeadAt(G, Z) => HeadAt(G, Z)')
    BY <1>1 DEF Job, Unseen, HeadAt
  <2>4. Undoable(G, Z) => Undoable(G, Z)'
    <3>1. Left' = Left
      BY <1>1 DEF Left
    <3> QED BY <1>1, <3>1 DEF Undoable
  <2>5. (Space(G, Z, hdr.size) => (Space(G, Z, hdr.size))')
        /\ (Ahead(mem, G, Z) => (Ahead(mem, G, Z))')
    BY <1>1 DEF Space, Ahead
  <2> QED BY <2>1, <2>2, <2>3, <2>4, <2>5, <1>6 DEF Flight
<1> QED BY <1>1, <1>2, <1>3, <1>5, <1>6 DEF FileInv

\* The one step that does not keep the invariant, as long as the file fits in its
\* bound, is the recovery of a torn file.
LEMMA NextInv == FileInv /\ Roomy' /\ ~spoilt' /\ [FileNext]_file_vars => FileInv'
<1> SUFFICES ASSUME FileInv, Roomy', ~spoilt', [FileNext]_file_vars PROVE FileInv'
  OBVIOUS
<1>1. CASE \E k \in Keys, v \in Vals : Start(k, v)
  BY <1>1, StartKeeps
<1>2. CASE Put
  <2>1. CASE RecoverList \/ RecoverTab \/ RecoverNeg \/ Find
    BY <2>1, RecoverListKeeps, RecoverTabKeeps, RecoverNegKeeps, FindKeeps
  <2>5. CASE RecoverLink
    <3>1. spoilt' = (spoilt \/ torn)
      BY <2>5 DEF RecoverLink
    <3>2. ~torn
      BY <3>1
    <3> QED BY <3>2, <2>5, RecoverLinkKeeps
  <2>2. CASE AllocStart \/ WriteInfo \/ NextFree \/ ListOut \/ NextEnd
    BY <2>2, AllocStartKeeps, WriteInfoKeeps, NextFreeKeeps, ListOutKeeps, NextEndKeeps
  <2>3. CASE LinkMore \/ LinkHead \/ LinkZero \/ AllocEnd
    BY <2>3, LinkMoreKeeps, LinkHeadKeeps, LinkZeroKeeps, AllocEndKeeps
  <2>4. CASE NewTab \/ ZeroTab \/ WriteTab \/ FreeLink \/ FreeTail \/ Return
    BY <2>4, NewTabKeeps, ZeroTabKeeps, WriteTabKeeps, FreeLinkKeeps, FreeTailKeeps, ReturnKeeps
  <2> QED BY <1>2, <2>1, <2>2, <2>3, <2>4, <2>5 DEF Put
<1>3. CASE Die
  BY <1>3, DieKeeps
<1>4. CASE Done \/ UNCHANGED file_vars
  BY <1>4, SameKeeps DEF Done
<1> QED BY <1>1, <1>2, <1>3, <1>4 DEF FileNext

\* What is spoilt stays so.
LEMMA SpoiltStays == spoilt /\ [FileNext]_file_vars => spoilt'
<1> SUFFICES ASSUME spoilt, [FileNext]_file_vars PROVE spoilt'
  OBVIOUS
<1>1. CASE Put
  BY <1>1 DEF Put, RecoverList, RecoverTab, RecoverLink, RecoverNeg, Find, AllocStart,
              WriteInfo, NextFree, ListOut, NextEnd, LinkMore, LinkHead, LinkZero, AllocEnd,
              NewTab, ZeroTab, WriteTab, FreeLink, FreeTail, Return
<1>2. CASE (\E k \in Keys, v \in Vals : Start(k, v)) \/ Die \/ Done \/ UNCHANGED file_vars
  BY <1>2 DEF Start, Die, Done, file_vars
<1> QED BY <1>1, <1>2 DEF FileNext

\* In a file that stays within its bound the invariant holds until a torn file has
\* been recovered from.
LEMMA FileInvAlways == FileSpec /\ []Roomy => [](spoilt \/ FileInv)
<1>1. FileInit /\ Roomy => spoilt \/ FileInv
  BY FileInitInv
<1>2. (spoilt \/ FileInv) /\ Roomy' /\ [FileNext]_file_vars => (spoilt \/ FileInv)'
  BY NextInv, SpoiltStays
<1> QED BY <1>1, <1>2, PTL DEF FileSpec

\* In a file that stays within the model's bound, and whose processes may die at any write
\* of a put or of its recovery, a get answers, whenever the lock is free, with what the last
\* put of the key that returned has stored, or with a new key whose put died at its last
\* write, until the next put undoes it: neither kvdb_put's reuse of blocks nor check_backup
\* lose or mix up a stored value, nor does recov_backup, unless the file it undoes is torn.
THEOREM FileDurable == FileSpec /\ []Roomy => []Durable
<1>1. spoilt \/ FileInv => Durable
  BY InvDurable DEF Durable
<1> QED BY <1>1, FileInvAlways, PTL

\* In such a file no block has two uses until a torn file has been recovered from: between
\* puts, and once recovery is done, strings and free blocks share nothing (kvdb_put's taking
\* and giving back of blocks, and what recov_backup restores).
THEOREM FileDisjoint == FileSpec /\ []Roomy => []BlocksDisjoint
<1>1. spoilt \/ FileInv => BlocksDisjoint
  BY InvDisjoint DEF BlocksDisjoint
<1> QED BY <1>1, FileInvAlways, PTL
=============================================================================
