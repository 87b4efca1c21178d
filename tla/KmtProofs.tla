----------------------------- MODULE KmtProofs -----------------------------
(***************************************************************************)
(* Theorems of Kmt, for every number of CPUs, tasks and slots, in three      *)
(* parts, each of which needs the one before.                                *)
(*   Stacks: types, and that no two CPUs execute on one task's stack.        *)
(*   The life of tasks: the task table, the lock task->running, who frees a  *)
(* dead task, that freed memory is out of reach.                             *)
(*   The sleeping semaphore: its value counts the tasks in its ring, those   *)
(* are the tasks that sleep, and it is the abstract Semaphore.               *)
(*   All but the types hold until a CPU runs what another task's lock, or    *)
(* freed memory, let it run (swapped); the semaphore, until one runs a       *)
(* sleeper (late).  Nothing else is assumed of how the CPUs interleave.  An  *)
(* invariant I stands as swapped \/ I: each step is shown to keep I as long   *)
(* as it does not set the history variable, which no step resets.            *)
(***************************************************************************)
EXTENDS Kmt, FiniteSetTheorems, TLAPS

(* Stacks                                                                      *)

\* A task that has a creator's code to finish knows its son.
SonInv == \A t \in Task : pc[t] \in SonPc => son[t] \in Task

\* A CPU between Pick and TryRun has read a task.
CandInv == \A c \in CPU : mode[c] = "try" => cand[c] \in Task /\ slot[c] \in Slot

TypeInv == TypeOK /\ SonInv /\ CandInv

LEMMA WrapType == \A i \in 0 .. PoolLen - 1 : Wrap(i) \in 0 .. PoolLen - 1
<1> SUFFICES ASSUME NEW i \in 0 .. PoolLen - 1
             PROVE  Wrap(i) \in 0 .. PoolLen - 1
  OBVIOUS
<1> QED BY KmtAssumption DEF Wrap

LEMMA TypeInit == Init => TypeInv
<1> SUFFICES ASSUME Init PROVE TypeInv
  OBVIOUS
<1> USE KmtAssumption DEF Init, Slot
<1>1. tasks \in [Slot -> Task \cup {NULL}]
  <2> SUFFICES ASSUME NEW n \in Slot
               PROVE  (IF \E r \in Root : RootPid[r] = n
                       THEN CHOOSE r \in Root : RootPid[r] = n ELSE NULL)
                      \in Task \cup {NULL}
    OBVIOUS
  <2>1. CASE \E r \in Root : RootPid[r] = n
    <3>1. (CHOOSE r \in Root : RootPid[r] = n) \in Root BY <2>1
    <3> QED BY <3>1, <2>1
  <2>2. CASE ~ \E r \in Root : RootPid[r] = n
    BY <2>2
  <2> QED BY <2>1, <2>2
<1>2. TypeOK
  <2>1. /\ mode \in [CPU -> Mode]
        /\ current \in [CPU -> Task \cup {NULL}]
        /\ last \in [CPU -> Task \cup {NULL}]
        /\ stack \in [CPU -> Task \cup {NULL}]
        /\ slot \in [CPU -> Slot]
        /\ cand \in [CPU -> Task \cup {NULL}]
    BY DEF Mode
  <2>2. running \in [Task -> BOOLEAN] /\ tasksLk \in BOOLEAN
    BY Zenon
  <2>3. pid \in [Task -> Slot]
    OBVIOUS
  <2>4. /\ attr \in [Task -> SUBSET Flag]
        /\ pc \in [Task -> Pc]
        /\ son \in [Task -> Task \cup {NULL}]
        /\ ctxQueue \in Seq(Task)
    BY DEF Pc, SonPc
  <2>5. /\ value \in Int
        /\ pool \in [0 .. PoolLen - 1 -> Task \cup {NULL}]
        /\ head \in 0 .. PoolLen - 1
        /\ tail \in 0 .. PoolLen - 1
    OBVIOUS
  <2>6. cursor \in Slot
    OBVIOUS
  <2>7. swapped \in BOOLEAN /\ late \in BOOLEAN
    BY Zenon
  <2> QED BY <1>1, <2>1, <2>2, <2>3, <2>4, <2>5, <2>6, <2>7, Zenon DEF TypeOK
<1>3. SonInv /\ CandInv BY DEF SonInv, CandInv, SonPc
<1> QED BY <1>2, <1>3 DEF TypeInv

LEMMA SignalType ==
  ASSUME TypeOK, kmt_sem_signal
  PROVE  /\ attr' \in [Task -> SUBSET Flag]
         /\ value' \in Int
         /\ head' \in 0 .. PoolLen - 1
         /\ pool' = pool /\ tail' = tail
<1>1. value' \in Int /\ pool' = pool /\ tail' = tail
  BY DEF TypeOK, kmt_sem_signal
<1>2. CASE sem_remove_task
  <2>1. pool[head] \in Task \cup {NULL}
    BY DEF TypeOK
  <2>2. attr' \in [Task -> SUBSET Flag]
    BY <1>2, <2>1 DEF TypeOK, sem_remove_task
  <2>3. head' \in 0 .. PoolLen - 1
    BY <1>2, WrapType DEF TypeOK, sem_remove_task
  <2> QED BY <1>1, <2>2, <2>3
<1>3. CASE UNCHANGED <<attr, head>>
  BY <1>1, <1>3 DEF TypeOK
<1> QED BY <1>2, <1>3 DEF kmt_sem_signal

LEMMA TypeStep == TypeInv /\ [Next]_vars => TypeInv'
<1> SUFFICES ASSUME TypeInv, [Next]_vars PROVE TypeInv'
  OBVIOUS
<1> USE KmtAssumption, WrapType
      DEF TypeInv, TypeOK, SonInv, CandInv, cpuVars, tableVars, semVars, history,
          Mode, SonPc, Pc, At, Goto
<1>0. 0 \in Slot /\ NextPid \in Slot
  BY DEF Slot, NextPid
<1>1. ASSUME NEW c \in CPU, NEW irq \in {"save", "saveio"}, Trap(c, irq)
      PROVE  TypeInv'
  BY <1>1 DEF Trap
<1>2. ASSUME NEW c \in CPU, Save(c) PROVE TypeInv'
  BY <1>2 DEF Save
<1>3. ASSUME NEW c \in CPU, Notify(c) PROVE TypeInv'
  BY <1>3, SignalType DEF Notify
<1>4. ASSUME NEW c \in CPU, PickIdle(c) PROVE TypeInv'
  BY <1>4 DEF PickIdle
<1>5. ASSUME NEW c \in CPU, TryBusy(c) PROVE TypeInv'
  BY <1>0, <1>5, SMTT(30) DEF TryBusy
<1>6. ASSUME NEW c \in CPU, TryRun(c) PROVE TypeInv'
  <2>1. /\ slot[c] \in Slot /\ tasks[slot[c]] \in Task \cup {NULL}
        /\ swapped' \in BOOLEAN /\ late' \in BOOLEAN
    BY <1>6, Zenon DEF TryRun
  <2>2. /\ current' \in [CPU -> Task \cup {NULL}] /\ slot' \in [CPU -> Slot]
        /\ cand' \in [CPU -> Task \cup {NULL}]
        /\ mode' \in [CPU -> Mode] /\ running' \in [Task -> BOOLEAN]
    BY <1>0, <1>6, <2>1, SMTT(30) DEF TryRun
  <2>3. SonInv' /\ CandInv'
    BY <1>6, <2>1, SMTT(30) DEF TryRun
  <2> QED BY <1>6, <2>1, <2>2, <2>3 DEF TryRun
<1>7. ASSUME NEW c \in CPU, CleanNone(c) PROVE TypeInv'
  BY <1>7 DEF CleanNone, Resume
<1>8. ASSUME NEW c \in CPU, CleanBusy(c) PROVE TypeInv'
  BY <1>8, SMTT(30) DEF CleanBusy, Resume
<1>9. ASSUME NEW c \in CPU, CleanFree(c) PROVE TypeInv'
  BY <1>9, SMTT(30) DEF CleanFree, Resume
<1>10. ASSUME NEW c \in CPU, NEW n \in Slot, Pick(c, n) PROVE TypeInv'
  <2>1. n \in Slot /\ tasks[n] \in Task
    BY <1>10 DEF Pick, PickIf
  <2> QED BY <1>10, <2>1 DEF Pick, PickIf
<1>11. ASSUME NEW c \in CPU, NEW t \in Task, NEW k \in Task, Create(c, t, k)
       PROVE  TypeInv'
  <2>1. 0 \in Slot
    BY <1>0
  <2>2. /\ pc' \in [Task -> Pc] /\ son' \in [Task -> Task \cup {NULL}]
        /\ running' \in [Task -> BOOLEAN] /\ pid' \in [Task -> Slot]
        /\ attr' \in [Task -> SUBSET Flag]
    BY <1>11, <2>1 DEF Create
  <2>3. SonInv'
    BY <1>11 DEF Create
  <2> QED BY <1>11, <2>2, <2>3 DEF Create
<1>12. ASSUME NEW c \in CPU, NEW t \in Task, LockTasks(c, t) PROVE TypeInv'
  BY <1>12 DEF LockTasks
<1>13. ASSUME NEW c \in CPU, NEW t \in Task, AddTask(c, t) PROVE TypeInv'
  <2>1. son[t] \in Task
    BY <1>13 DEF AddTask, AddTaskBlind
  <2>2. NextPid \in Slot
    BY <1>0
  <2>3. /\ tasks' \in [Slot -> Task \cup {NULL}]
        /\ cursor' \in Slot /\ pid' \in [Task -> Slot]
    BY <1>13, <2>1, <2>2 DEF AddTask, AddTaskBlind
  <2>4. pc' \in [Task -> Pc] /\ SonInv'
    BY <1>13, <2>1 DEF AddTask, AddTaskBlind
  <2> QED BY <1>13, <2>3, <2>4 DEF AddTask, AddTaskBlind
<1>14. ASSUME NEW c \in CPU, NEW t \in Task, Foreground(c, t) PROVE TypeInv'
  BY <1>14 DEF Foreground
<1>15. ASSUME NEW c \in CPU, NEW t \in Task, Background(c, t) PROVE TypeInv'
  BY <1>15 DEF Background
<1>16. ASSUME NEW c \in CPU, NEW t \in Task, WaitZombie(c, t) PROVE TypeInv'
  BY <1>16 DEF WaitZombie
<1>17. ASSUME NEW c \in CPU, NEW t \in Task, WaitLock(c, t) PROVE TypeInv'
  BY <1>17 DEF WaitLock, FreeSon
<1>18. ASSUME NEW c \in CPU, NEW t \in Task, BackDead(c, t) PROVE TypeInv'
  BY <1>18 DEF BackDead, FreeSon
<1>19. ASSUME NEW c \in CPU, NEW t \in Task, BackAlive(c, t) PROVE TypeInv'
  BY <1>19 DEF BackAlive, BackLock
<1>20. ASSUME NEW c \in CPU, NEW t \in Task, BackMark(c, t) PROVE TypeInv'
  BY <1>20 DEF BackMark, Flag
<1>21. ASSUME NEW c \in CPU, NEW t \in Task, ExitZombie(c, t) PROVE TypeInv'
  BY <1>21 DEF ExitZombie, Flag
<1>22. ASSUME NEW c \in CPU, NEW t \in Task, ExitYield(c, t) PROVE TypeInv'
  <2>1. tasks' \in [Slot -> Task \cup {NULL}]
    BY <1>22 DEF ExitYield, ExitAs
  <2>2. ctxQueue' \in Seq(Task)
    BY <1>22 DEF ExitYield, ExitAs
  <2>3. mode' \in [CPU -> Mode] /\ pc' \in [Task -> Pc] /\ SonInv' /\ CandInv'
    BY <1>22 DEF ExitYield, ExitAs
  <2> QED BY <1>22, <2>1, <2>2, <2>3 DEF ExitYield, ExitAs
<1>23. ASSUME NEW c \in CPU, NEW t \in Task, SemPass(c, t) PROVE TypeInv'
  BY <1>23, SMTT(30) DEF SemPass
<1>24. ASSUME NEW c \in CPU, NEW t \in Task, SemPark(c, t) PROVE TypeInv'
  <2>1. pool' \in [0 .. PoolLen - 1 -> Task \cup {NULL}] /\ value' \in Int
    BY <1>24 DEF SemPark
  <2>2. attr' \in [Task -> SUBSET Flag] /\ pc' \in [Task -> Pc] /\ SonInv'
    BY <1>24 DEF SemPark, Flag
  <2>3. tail' \in 0 .. PoolLen - 1 /\ CandInv'
    BY <1>24 DEF SemPark
  <2> QED BY <1>24, <2>1, <2>2, <2>3 DEF SemPark
<1>25. ASSUME NEW c \in CPU, NEW t \in Task, ParkYield(c, t) PROVE TypeInv'
  BY <1>25 DEF ParkYield
<1>26. ASSUME NEW c \in CPU, NEW t \in Task, Unpark(c, t) PROVE TypeInv'
  BY <1>26 DEF Unpark
<1>27. ASSUME NEW c \in CPU, NEW t \in Task, SemSignal(c, t) PROVE TypeInv'
  BY <1>27, SignalType DEF SemSignal
<1>28. CASE UNCHANGED vars
  BY <1>28 DEF vars
<1>29. ASSUME NEW c \in CPU, NEW t \in Task, AddProbe(c, t) PROVE TypeInv'
  BY <1>0, <1>29 DEF AddProbe
<1> HIDE DEF TypeInv, TypeOK, SonInv, CandInv, cpuVars, tableVars, semVars, history,
             Mode, SonPc, Pc, At, Goto
<1> QED
  BY <1>1, <1>2, <1>3, <1>4, <1>5, <1>6, <1>7, <1>8, <1>9, <1>10, <1>11, <1>12,
     <1>13, <1>14, <1>15, <1>16, <1>17, <1>18, <1>19, <1>20, <1>21, <1>22, <1>23,
     <1>24, <1>25, <1>26, <1>27, <1>28, <1>29, ZenonT(30)
     DEF Next, TrapStep, Duty, Choice

\* Type correctness: every variable of the scheduler keeps its type, and a task
\* that is to wait for a son or to let it go has one (kmt.c:148, 337).
THEOREM TypeCorrect == Spec => []TypeOK
<1>1. Init => TypeInv
  BY TypeInit
<1>2. TypeInv /\ [Next]_vars => TypeInv'
  BY TypeStep
<1>3. TypeInv => TypeOK
  BY DEF TypeInv
<1> QED BY <1>1, <1>2, <1>3, PTL DEF Spec

LEMMA TypeInvariant == Spec => []TypeInv
<1> QED BY TypeInit, TypeStep, PTL DEF Spec

-----------------------------------------------------------------------------
(* Stack exclusion.  A CPU keeps the running lock of the task it executes and *)
(* of the one whose stack it has yet to leave.                                *)

Holds(c, t) == t = current[c] \/ t = last[c]

\* Which of the two a CPU's stack pointer is in.
StackInv ==
    \A c \in CPU :
        /\ mode[c] \in {"run", "save", "saveio"} => stack[c] = current[c]
        /\ mode[c] \notin {"run", "save", "saveio"} => stack[c] = last[c]

HeldInv == \A c \in CPU, t \in Task : Holds(c, t) => running[t]

OneHolder == \A c, d \in CPU, t \in Task : Holds(c, t) /\ Holds(d, t) => c = d

\* Whoever frees a task keeps its lock, until the memory is a new task.
FreeInv ==
    \A t \in Task :
        pc[t] = "free" => running[t] /\ \A c \in CPU : ~Holds(c, t)

\* A creator in run_back_cmd holds its son's lock, alone.
MarkInv ==
    \A u \in Task :
        pc[u] = "nowait" =>
            /\ running[son[u]] /\ pc[son[u]] # "free"
            /\ \A c \in CPU : ~Holds(c, son[u])
            /\ \A v \in Task : pc[v] = "nowait" /\ son[v] = son[u] => u = v

LockInv == HeldInv /\ OneHolder /\ FreeInv /\ MarkInv

ExclInv == StackInv /\ LockInv

LEMMA ExclInit == Init => ExclInv
<1> SUFFICES ASSUME Init PROVE ExclInv
  OBVIOUS
<1>1. StackInv BY DEF Init, StackInv
<1>2. \A c \in CPU, t \in Task : ~Holds(c, t)
  BY KmtAssumption DEF Init, Holds
<1>3. \A t \in Task : pc[t] # "nowait" /\ (pc[t] = "free" => running[t])
  BY DEF Init
<1>4. LockInv
  BY <1>2, <1>3 DEF LockInv, HeldInv, OneHolder, FreeInv, MarkInv
<1> QED BY <1>1, <1>4 DEF ExclInv

LEMMA StackStep == TypeInv /\ StackInv /\ [Next]_vars => StackInv'
<1> SUFFICES ASSUME TypeInv, StackInv, [Next]_vars PROVE StackInv'
  OBVIOUS
<1> USE DEF TypeInv, TypeOK, StackInv, Mode
<1>1. ASSUME NEW c \in CPU,
             (\E irq \in {"save", "saveio"} : Trap(c, irq)) \/ TrapStep(c)
             \/ \E n \in Slot : Pick(c, n)
      PROVE  StackInv'
  <2>1. CASE \E irq \in {"save", "saveio"} : Trap(c, irq)
    BY <2>1 DEF Trap
  <2>2. CASE Save(c) \/ Notify(c)
    BY <2>2 DEF Save, Notify
  <2>3. CASE PickIdle(c)
    BY <2>3 DEF PickIdle
  <2>4. CASE TryBusy(c)
    BY <2>4 DEF TryBusy
  <2>5. CASE TryRun(c)
    BY <2>5 DEF TryRun
  <2>6. CASE CleanNone(c)
    BY <2>6 DEF CleanNone, Resume
  <2>7. CASE CleanBusy(c)
    BY <2>7 DEF CleanBusy, Resume
  <2>8. CASE CleanFree(c)
    BY <2>8 DEF CleanFree, Resume
  <2>9. CASE \E n \in Slot : Pick(c, n)
    BY <2>9 DEF Pick, PickIf
  <2> QED BY <1>1, <2>1, <2>2, <2>3, <2>4, <2>5, <2>6, <2>7, <2>8, <2>9 DEF TrapStep
<1>2. ASSUME NEW c \in CPU, NEW t \in Task, ExitYield(c, t) \/ ParkYield(c, t)
      PROVE  StackInv'
  BY <1>2 DEF ExitYield, ExitAs, ParkYield, At
<1>3. CASE UNCHANGED cpuVars
  BY <1>3 DEF cpuVars
<1>4. ASSUME NEW c \in CPU, NEW t \in Task, Duty(c, t),
             ~ExitYield(c, t), ~ParkYield(c, t)
      PROVE  UNCHANGED cpuVars
  BY <1>4 DEF Duty, LockTasks, AddProbe, AddTask, AddTaskBlind, Foreground, Background,
              WaitZombie,
              WaitLock, BackDead, BackAlive, BackLock, BackMark, FreeSon, Unpark
<1>5. ASSUME NEW c \in CPU, NEW t \in Task, Choice(c, t)
      PROVE  UNCHANGED cpuVars
  BY <1>5 DEF Choice, Create, ExitZombie, SemPass, SemPark, SemSignal
<1>6. CASE UNCHANGED vars
  BY <1>3, <1>6 DEF vars, cpuVars
<1> QED BY <1>1, <1>2, <1>3, <1>4, <1>5, <1>6 DEF Next

\* The history variables are never reset.
LEMMA HistoryStays == [Next]_vars => (swapped => swapped') /\ (late => late')
<1> SUFFICES ASSUME [Next]_vars PROVE (swapped => swapped') /\ (late => late')
  OBVIOUS
<1>1. CASE UNCHANGED history
  BY <1>1 DEF history
<1>2. ASSUME NEW c \in CPU,
             \/ \E irq \in {"save", "saveio"} : Trap(c, irq)
             \/ Save(c) \/ Notify(c) \/ PickIdle(c) \/ TryBusy(c)
             \/ CleanNone(c) \/ CleanBusy(c) \/ CleanFree(c)
             \/ \E n \in Slot : Pick(c, n)
      PROVE  UNCHANGED history
  BY <1>2 DEF Trap, Save, Notify, PickIdle, TryBusy, CleanNone, CleanBusy, CleanFree, Resume,
              Pick, PickIf
<1>3. ASSUME NEW c \in CPU, TryRun(c)
      PROVE  (swapped => swapped') /\ (late => late')
  BY <1>3 DEF TryRun
<1>4. ASSUME NEW c \in CPU, NEW t \in Task, Duty(c, t) PROVE UNCHANGED history
  BY <1>4 DEF Duty, LockTasks, AddProbe, AddTask, AddTaskBlind, Foreground, Background,
              WaitZombie, WaitLock, BackDead, BackAlive, BackLock, BackMark, FreeSon,
              ExitYield, ExitAs, ParkYield, Unpark
<1>5. ASSUME NEW c \in CPU, NEW t \in Task, Choice(c, t) PROVE UNCHANGED history
  BY <1>5 DEF Choice, Create, ExitZombie, SemPass, SemPark, SemSignal
<1>6. CASE UNCHANGED vars
  BY <1>1, <1>6 DEF vars, history
<1> QED BY <1>1, <1>2, <1>3, <1>4, <1>5, <1>6 DEF Next, TrapStep

\* A dispatch that sets no history runs the task whose lock it took, or none.
LEMMA SameTask ==
    ASSUME TypeInv, NEW c \in CPU, TryRun(c), ~swapped'
    PROVE  /\ cand[c] \in Task /\ pc[cand[c]] # "free" /\ ~running[cand[c]]
           /\ tasks[slot[c]] \in {cand[c], NULL}
BY DEF TryRun, FoundFree, TypeInv, CandInv

LEMMA LockStep == TypeInv /\ LockInv /\ [Next]_vars /\ ~swapped' => LockInv'
<1> SUFFICES ASSUME TypeInv, LockInv, [Next]_vars, ~swapped' PROVE LockInv'
  OBVIOUS
<1> USE DEF TypeInv, TypeOK, SonInv, CandInv, LockInv, HeldInv, OneHolder, FreeInv,
            MarkInv, Holds, Mode, SonPc, At, Goto, cpuVars
\* What no step but the listed ones changes.
<1>1. CASE UNCHANGED <<current, last, running, son>>
           /\ \A t \in Task : /\ pc'[t] = "free" <=> pc[t] = "free"
                              /\ pc'[t] = "nowait" <=> pc[t] = "nowait"
  BY <1>1
<1>2. ASSUME NEW c \in CPU, Save(c) PROVE LockInv'
  <2>1. CASE last[c] # NULL /\ current[c] # last[c]
    <3>1. last[c] \in Task
      BY <2>1
    <3>2. HeldInv' /\ OneHolder'
      BY <1>2, <2>1, <3>1 DEF Save
    <3>3. FreeInv' /\ MarkInv'
      BY <1>2, <2>1, <3>1 DEF Save
    <3> QED BY <3>2, <3>3
  <2>2. CASE ~(last[c] # NULL /\ current[c] # last[c])
    BY <1>2, <2>2 DEF Save
  <2> QED BY <2>1, <2>2
<1>3. ASSUME NEW c \in CPU, PickIdle(c) PROVE LockInv'
  BY <1>3, KmtAssumption DEF PickIdle
<1>4. ASSUME NEW c \in CPU, TryRun(c) PROVE LockInv'
  <2>1. cand[c] \in Task /\ ~running[cand[c]] /\ tasks[slot[c]] \in {cand[c], NULL}
    BY <1>4, SameTask
  <2>2. /\ running' = [running EXCEPT ![cand[c]] = TRUE]
        /\ current' = [current EXCEPT ![c] = tasks[slot[c]]]
        /\ UNCHANGED <<last, pc, son>>
    BY <1>4 DEF TryRun
  <2>3. \A d \in CPU : ~Holds(d, cand[c])
    BY <2>1
  <2>4. HeldInv' /\ OneHolder'
    BY <2>1, <2>2, <2>3, KmtAssumption
  <2>5. FreeInv' /\ MarkInv'
    BY <2>1, <2>2, <2>3, KmtAssumption
  <2> QED BY <2>4, <2>5
<1>5. ASSUME NEW c \in CPU, CleanFree(c) PROVE LockInv'
  <2> DEFINE z == Head(ctxQueue)
  <2>1. z \in Task /\ ~running[z]
    BY <1>5 DEF CleanFree
  <2>2. /\ running' = [running EXCEPT ![z] = TRUE]
        /\ pc' = [pc EXCEPT ![z] = "free"]
        /\ UNCHANGED <<current, last, son>>
    BY <1>5 DEF CleanFree, Resume
  <2> HIDE DEF z
  <2> QED BY <2>1, <2>2
<1>6. ASSUME NEW c \in CPU, NEW t \in Task, NEW k \in Task, Create(c, t, k)
      PROVE  LockInv'
  <2>1. /\ pc[k] = "free" /\ pc[t] = "work"
        /\ running' = [running EXCEPT ![k] = FALSE]
        /\ pc' = [pc EXCEPT ![t] = "add", ![k] = "new"]
        /\ son' = [son EXCEPT ![t] = k]
        /\ UNCHANGED <<current, last>>
    BY <1>6 DEF Create
  <2>2. HeldInv' /\ OneHolder' /\ FreeInv'
    <3>1. ASSUME NEW u \in Task, pc'[u] = "free"
          PROVE  u # k /\ u # t /\ pc[u] = "free"
      BY <2>1, <3>1
    <3>2. FreeInv'
      BY <2>1, <3>1
    <3>3. HeldInv' /\ OneHolder'
      BY <2>1
    <3> QED BY <3>2, <3>3
  <2>3. ASSUME NEW u \in Task, pc'[u] = "nowait"
        PROVE  u # t /\ u # k /\ pc[u] = "nowait" /\ son'[u] = son[u] /\ son[u] # k
    BY <2>1, <2>3
  <2>4. MarkInv'
    <3> SUFFICES ASSUME NEW u \in Task, pc'[u] = "nowait"
                 PROVE  /\ running'[son[u]] /\ pc'[son[u]] # "free"
                        /\ \A d \in CPU : ~Holds(d, son[u])'
                        /\ \A v \in Task : pc'[v] = "nowait" /\ son'[v] = son[u]
                                              => u = v
      BY <2>3
    <3>1. pc[u] = "nowait" /\ son[u] # k /\ son[u] \in Task
      BY <2>3
    <3>2. running'[son[u]] /\ pc'[son[u]] # "free"
      BY <2>1, <3>1
    <3>3. \A d \in CPU : ~Holds(d, son[u])'
      BY <2>1, <3>1
    <3>4. \A v \in Task : pc'[v] = "nowait" /\ son'[v] = son[u] => u = v
      BY <2>3, <3>1
    <3> QED BY <3>2, <3>3, <3>4
  <2> QED BY <2>2, <2>4
<1>7. ASSUME NEW c \in CPU, NEW t \in Task, WaitLock(c, t) \/ BackDead(c, t)
      PROVE  LockInv'
  <2> DEFINE z == son[t]
  <2>1. z \in Task /\ ~running[z] /\ pc[t] # "nowait" /\ pc[t] # "free"
    BY <1>7 DEF WaitLock, BackDead
  <2>2. /\ running' = [running EXCEPT ![z] = TRUE]
        /\ pc' = [pc EXCEPT ![t] = "work", ![z] = "free"]
        /\ son' = [son EXCEPT ![t] = NULL]
        /\ UNCHANGED <<current, last>>
    BY <1>7 DEF WaitLock, BackDead, FreeSon
  <2> HIDE DEF z
  <2>3. HeldInv' /\ OneHolder' /\ FreeInv'
    <3>1. ASSUME NEW u \in Task, pc'[u] = "free"
          PROVE  running'[u] /\ \A d \in CPU : ~Holds(d, u)
      <4>1. u = z \/ pc[u] = "free"
        BY <2>1, <2>2, <3>1
      <4> QED BY <2>1, <2>2, <4>1
    <3>2. FreeInv' /\ OneHolder'
      BY <2>2, <3>1
    <3>3. HeldInv'
      BY <2>1, <2>2
    <3> QED BY <3>2, <3>3
  <2>4. ASSUME NEW u \in Task, pc'[u] = "nowait"
        PROVE  u # t /\ u # z /\ pc[u] = "nowait" /\ son'[u] = son[u] /\ son[u] # z
    BY <2>1, <2>2, <2>4
  <2>5. MarkInv'
    BY <2>1, <2>2, <2>4
  <2> QED BY <2>3, <2>5
<1>8. ASSUME NEW c \in CPU, NEW t \in Task, BackAlive(c, t)
      PROVE  LockInv'
  <2> DEFINE z == son[t]
  <2>1. z \in Task /\ ~running[z] /\ pc[z] # "free" /\ pc[t] = "backing"
    BY <1>8 DEF BackAlive, BackLock
  <2>2. /\ running' = [running EXCEPT ![z] = TRUE]
        /\ pc' = [pc EXCEPT ![t] = "nowait"]
        /\ UNCHANGED <<current, last, son>>
    BY <1>8 DEF BackAlive, BackLock
  <2>3. \A u \in Task : pc[u] = "nowait" => son[u] # z
    BY <2>1
  <2>4. \A d \in CPU : ~Holds(d, z)
    BY <2>1
  <2>5. HeldInv' /\ OneHolder' /\ FreeInv'
    BY <2>1, <2>2, <2>4
  <2>6. MarkInv'
    BY <2>1, <2>2, <2>3, <2>4
  <2> QED BY <2>5, <2>6
<1>9. ASSUME NEW c \in CPU, NEW t \in Task, BackMark(c, t)
      PROVE  LockInv'
  <2> DEFINE z == son[t]
  <2>1. z \in Task /\ pc[t] = "nowait"
    BY <1>9 DEF BackMark
  <2>2. /\ running' = [running EXCEPT ![z] = FALSE]
        /\ pc' = [pc EXCEPT ![t] = "work"]
        /\ son' = [son EXCEPT ![t] = NULL]
        /\ UNCHANGED <<current, last>>
    BY <1>9 DEF BackMark
  <2>3. pc[z] # "free" /\ \A d \in CPU : ~Holds(d, z)
    BY <2>1
  <2>4. \A u \in Task : pc[u] = "nowait" /\ u # t => son[u] # z
    BY <2>1
  <2>5. HeldInv' /\ OneHolder' /\ FreeInv'
    BY <2>1, <2>2, <2>3
  <2>6. MarkInv'
    BY <2>1, <2>2, <2>4
  <2> QED BY <2>5, <2>6
<1>10. ASSUME NEW c \in CPU, NEW t \in Task, AddTask(c, t)
       PROVE  LockInv'
  <2> DEFINE z == son[t]
  <2>1. z \in Task /\ pc[t] = "adding"
    BY <1>10 DEF AddTask, AddTaskBlind
  <2>2. /\ pc' = [pc EXCEPT ![t] = "created", ![z] = "work"]
        /\ UNCHANGED <<current, last, running, son>>
    BY <1>10 DEF AddTask, AddTaskBlind
  <2> HIDE DEF z
  <2>3. \A u \in Task : /\ pc'[u] = "free" => pc[u] = "free"
                        /\ pc'[u] = "nowait" => pc[u] = "nowait"
    BY <2>1, <2>2
  <2>4. HeldInv' /\ OneHolder' /\ FreeInv'
    BY <2>2, <2>3
  <2>5. ASSUME NEW u \in Task, pc'[u] = "nowait"
        PROVE  son[u] \in Task /\ pc'[son[u]] # "free"
    BY <2>3, <2>5
  <2>6. ASSUME NEW u \in Task, pc'[u] = "nowait"
        PROVE  /\ running[son[u]] /\ \A d \in CPU : ~Holds(d, son[u])
               /\ \A v \in Task : pc'[v] = "nowait" /\ son[v] = son[u] => u = v
    BY <2>3, <2>6
  <2>7. \A d \in CPU, u \in Task : Holds(d, u)' <=> Holds(d, u)
    BY <2>2
  <2>8. MarkInv'
    BY <2>2, <2>5, <2>6, <2>7
  <2> QED BY <2>4, <2>8
<1>11. ASSUME NEW c \in CPU,
              (\E irq \in {"save", "saveio"} : Trap(c, irq))
              \/ Notify(c) \/ TryBusy(c) \/ CleanNone(c) \/ CleanBusy(c)
              \/ \E n \in Slot : Pick(c, n)
       PROVE  LockInv'
  BY <1>1, <1>11 DEF Trap, Notify, TryBusy, CleanNone, CleanBusy, Resume, Pick, PickIf
<1>12. ASSUME NEW c \in CPU, NEW t \in Task,
              \/ LockTasks(c, t) \/ Foreground(c, t) \/ Background(c, t)
              \/ WaitZombie(c, t) \/ ExitZombie(c, t) \/ ExitYield(c, t)
              \/ ParkYield(c, t) \/ Unpark(c, t) \/ SemPark(c, t)
       PROVE  LockInv'
  <2>1. \E p \in Pc : /\ pc' = [pc EXCEPT ![t] = p]
                      /\ p \notin {"free", "nowait"} /\ pc[t] \notin {"free", "nowait"}
    BY <1>12 DEF LockTasks, Foreground, Background, WaitZombie, ExitZombie, ExitYield,
                 ExitAs,
                 ParkYield, Unpark, SemPark, Pc
  <2>2. UNCHANGED <<current, last, running, son>>
    BY <1>12 DEF LockTasks, Foreground, Background, WaitZombie, ExitZombie, ExitYield,
                 ExitAs,
                 ParkYield, Unpark, SemPark
  <2> QED BY <1>1, <2>1, <2>2
<1>13. ASSUME NEW c \in CPU, NEW t \in Task,
              SemPass(c, t) \/ SemSignal(c, t) \/ AddProbe(c, t)
       PROVE  LockInv'
  BY <1>1, <1>13 DEF SemPass, SemSignal, AddProbe
<1>14. CASE UNCHANGED vars
  BY <1>1, <1>14 DEF vars
<1> QED
  BY <1>2, <1>3, <1>4, <1>5, <1>6, <1>7, <1>8, <1>9, <1>10, <1>11, <1>12, <1>13, <1>14
     DEF Next, TrapStep, Duty, Choice

\* No task's stack is under two CPUs, the trap handler that is leaving it
\* included (kmt_context_save unlocks last->running one trap later, kmt.c:63), until
\* a CPU runs what another task's lock, or freed memory, let it run (kmt.c:90-93).
THEOREM StackExclusion == Spec => []StackExclusive
<1>1. Init => ExclInv
  BY ExclInit
<1>2. TypeInv /\ ExclInv /\ [Next]_vars /\ ~swapped' => ExclInv'
  BY StackStep, LockStep DEF ExclInv
<1>3. [Next]_vars /\ swapped => swapped'
  BY HistoryStays
<1>4. TypeInv /\ ExclInv => StackExclusive
  BY DEF TypeInv, TypeOK, ExclInv, StackInv, LockInv, OneHolder, Holds, StackExclusive
<1>5. swapped => StackExclusive
  BY DEF StackExclusive
<1> QED BY <1>1, <1>2, <1>3, <1>4, <1>5, TypeInvariant, PTL DEF Spec

-----------------------------------------------------------------------------
(* The life of tasks                                                           *)

Gone == {"free", "new", "exited"}

\* The table has the tasks between add_task and exit, each in its pid's slot.
TableInv ==
    /\ \A n \in Slot :
         tasks[n] # NULL => pid[tasks[n]] = n /\ pc[tasks[n]] \notin Gone
    /\ \A t \in Task : pc[t] \notin Gone => pid[t] \in Slot /\ tasks[pid[t]] = t

\* A son has one creator, and is neither freed nor created anew under it.
SonsInv ==
    /\ \A u, v \in Task : son[u] = son[v] /\ son[u] # NULL => u = v
    /\ \A u \in Task : pc[u] \notin SonPc => son[u] = NULL
    /\ \A u \in Task : pc[u] \in {"add", "adding"} => pc[son[u]] = "new"
    /\ \A u \in Task :
         pc[u] \in SonPc \ {"add", "adding"} => pc[son[u]] \notin {"free", "new"}

\* The flag ZOMBIE stands for having passed exit, until the memory is used again;
\* a creator that has seen it, or its absence, under the lock can rely on it.
DeadInv ==
    /\ \A t \in Task : pc[t] \in {"exiting", "exited"} => "ZOMBIE" \in attr[t]
    /\ \A t \in Task : "ZOMBIE" \in attr[t] => pc[t] \in {"exiting", "exited", "free"}
    /\ \A u \in Task : pc[u] = "locking" => "ZOMBIE" \in attr[son[u]]
    /\ \A u \in Task : pc[u] = "nowait" => "ZOMBIE" \notin attr[son[u]]

\* A task in exit, where interrupts are closed, is executing.
ExitingInv ==
    \A t \in Task : pc[t] = "exiting" => \E c \in CPU : mode[c] = "run" /\ current[c] = t

\* The flag NOWAIT stands for having no creator any more.
WaitInv ==
    /\ \A t \in Task : "NOWAIT" \in attr[t] => \A u \in Task : son[u] # t
    /\ \A t \in Task \ Root :
         "NOWAIT" \notin attr[t] /\ pc[t] # "free" => \E u \in Task : son[u] = t
    /\ \A t \in Root : pc[t] \notin Gone \cup {"exiting"}

\* ctx_queue has the dead tasks without a creator, each once.
QueueInv ==
    /\ \A i, j \in 1 .. Len(ctxQueue) : ctxQueue[i] = ctxQueue[j] => i = j
    /\ \A i \in 1 .. Len(ctxQueue) :
         pc[ctxQueue[i]] = "exited" /\ "NOWAIT" \in attr[ctxQueue[i]]

\* And all of them, when it has the room.
QueuedInv ==
    \A t \in Task :
        pc[t] = "exited" /\ "NOWAIT" \in attr[t] =>
            \E i \in 1 .. Len(ctxQueue) : ctxQueue[i] = t

LifeInv == TableInv /\ SonsInv /\ DeadInv /\ WaitInv /\ QueueInv

\* From save to the choice of the next task, last is current.
CurInv ==
    \A c \in CPU : mode[c] \in {"notify", "switch", "try"} => current[c] = last[c]

\* Who may use a task, and that its lock is held for one of these reasons.
Holder(t) == \/ \E c \in CPU : t \in {current[c], last[c]}
             \/ \E u \in Task : pc[u] = "nowait" /\ son[u] = t
             \/ pc[t] = "free"

Hung == \E c \in CPU : mode[c] = "hung"

WhyInv == CurInv /\ \A t \in Task : running[t] => Holder(t) \/ Hung

\* What the life of tasks needs of the rest.
Base == TypeInv /\ ExclInv

-----------------------------------------------------------------------------
LEMMA LifeInit == Init => LifeInv /\ QueuedInv /\ ExitingInv /\ WhyInv
<1> SUFFICES ASSUME Init PROVE LifeInv /\ QueuedInv /\ ExitingInv /\ WhyInv
  OBVIOUS
<1> USE KmtAssumption
<1>1. \A t \in Task : /\ pc[t] = IF t \in Root THEN "work" ELSE "free"
                      /\ son[t] = NULL /\ attr[t] = {}
                      /\ t \in Root => pid[t] = RootPid[t]
  BY DEF Init
<1>2. ASSUME NEW r \in Root
      PROVE  RootPid[r] \in Slot /\ tasks[RootPid[r]] = r
  <2>0. RootPid[r] \in Slot
    BY DEF Slot
  <2>1. RootPid[r] \in 1 .. MaxPid
    OBVIOUS
  <2> DEFINE s == CHOOSE q \in Root : RootPid[q] = RootPid[r]
  <2>2. s \in Root /\ RootPid[s] = RootPid[r]
    OBVIOUS
  <2>3. s = r
    BY <2>2
  <2>4. tasks[RootPid[r]] = s
    BY <2>1 DEF Init, Slot
  <2> QED BY <2>0, <2>3, <2>4
<1>3. ASSUME NEW n \in Slot, tasks[n] # NULL
      PROVE  tasks[n] \in Root /\ RootPid[tasks[n]] = n
  <2>1. \E r \in Root : RootPid[r] = n
    BY <1>3 DEF Init
  <2>2. tasks[n] = CHOOSE r \in Root : RootPid[r] = n
    BY <2>1 DEF Init
  <2> QED BY <2>1, <2>2
<1>4. TableInv
  BY <1>1, <1>2, <1>3 DEF TableInv, Gone
<1>5. SonsInv /\ DeadInv /\ WaitInv
  BY <1>1 DEF SonsInv, DeadInv, WaitInv, Gone, SonPc
<1>6. QueueInv /\ QueuedInv
  BY <1>1 DEF Init, QueueInv, QueuedInv
<1>7. ExitingInv /\ WhyInv
  BY <1>1 DEF Init, ExitingInv, WhyInv, CurInv, Holder
<1> QED BY <1>4, <1>5, <1>6, <1>7 DEF LifeInv

\* The steps that move a task within a stage of its life and leave sons, table and
\* queue alone.
LEMMA SameStage ==
    ASSUME TypeInv, LifeInv,
           UNCHANGED <<tasks, pid, son, ctxQueue>>,
           \A t \in Task : "ZOMBIE" \in attr'[t] <=> "ZOMBIE" \in attr[t],
           \A t \in Task : "NOWAIT" \in attr'[t] <=> "NOWAIT" \in attr[t],
           \A t \in Task : \/ pc'[t] = pc[t]
                           \/ /\ pc[t] \notin Gone \cup {"exiting"}
                              /\ pc'[t] \notin Gone \cup {"exiting"},
           \A t \in Task : pc'[t] \in SonPc <=> pc[t] \in SonPc,
           \A t \in Task : pc'[t] \in {"add", "adding"} <=> pc[t] \in {"add", "adding"},
           \A t \in Task : pc'[t] = "locking" => "ZOMBIE" \in attr[son[t]],
           \A t \in Task : pc'[t] = "nowait" => "ZOMBIE" \notin attr[son[t]]
    PROVE  LifeInv'
<1> USE DEF LifeInv
<1>1. TableInv'
  <2>1. \A n \in Slot : tasks[n] # NULL => tasks[n] \in Task
    BY DEF TypeInv, TypeOK
  <2> QED BY <2>1 DEF TableInv, Gone
<1>2. \A t \in Task : pc[t] \in SonPc => son[t] \in Task
  BY DEF TypeInv, SonInv
<1>3. SonsInv'
  BY <1>2 DEF SonsInv, Gone, SonPc
<1>4. DeadInv'
  BY <1>2 DEF DeadInv, Gone, SonPc
<1>5. WaitInv'
  BY KmtAssumption DEF WaitInv, Gone
<1>6. QueueInv'
  <2>1. \A i \in 1 .. Len(ctxQueue) : ctxQueue[i] \in Task
    BY DEF TypeInv, TypeOK
  <2> QED BY <2>1 DEF QueueInv, Gone
<1> QED BY <1>1, <1>3, <1>4, <1>5, <1>6

\* A task that executes is not one a creator in run_back_cmd holds the lock of.
LEMMA NotMarked ==
    ASSUME Base, NEW c \in CPU, NEW t \in Task, current[c] = t
    PROVE  running[t] /\ pc[t] # "free" /\ \A u \in Task : pc[u] = "nowait" => son[u] # t
BY DEF Base, ExclInv, LockInv, HeldInv, FreeInv, MarkInv, Holds

\* A zombie whose lock is free has left exit.
LEMMA DeadAndLeft ==
    ASSUME Base, LifeInv, ExitingInv, NEW t \in Task, pc[t] \in SonPc \ {"add", "adding"},
           ~running[son[t]], "ZOMBIE" \in attr[son[t]]
    PROVE  son[t] \in Task /\ pc[son[t]] = "exited" /\ son[t] # t
<1>1. son[t] \in Task /\ pc[son[t]] \notin {"free", "new"}
  BY DEF Base, TypeInv, SonInv, LifeInv, SonsInv
<1>2. pc[son[t]] \in {"exiting", "exited"}
  BY <1>1 DEF LifeInv, DeadInv
<1>3. pc[son[t]] # "exiting"
  BY <1>1 DEF ExitingInv, Base, ExclInv, LockInv, HeldInv, Holds
<1> QED BY <1>1, <1>2, <1>3 DEF SonPc

LEMMA CreateLife ==
    ASSUME Base, LifeInv, NEW c \in CPU, NEW t \in Task, NEW k \in Task, Create(c, t, k)
    PROVE  LifeInv'
<1>1. /\ pc[t] = "work" /\ pc[k] = "free" /\ k # t
      /\ attr' = [attr EXCEPT ![k] = {}]
      /\ pid' = [pid EXCEPT ![k] = 0]
      /\ pc' = [pc EXCEPT ![t] = "add", ![k] = "new"]
      /\ son' = [son EXCEPT ![t] = k]
      /\ UNCHANGED <<tasks, ctxQueue>>
  BY DEF Create, At
<1>2. /\ pc \in [Task -> Pc] /\ attr \in [Task -> SUBSET Flag] /\ pid \in [Task -> Slot]
      /\ son \in [Task -> Task \cup {NULL}] /\ ctxQueue \in Seq(Task)
      /\ \A n \in Slot : tasks[n] \in Task \cup {NULL}
  BY DEF Base, TypeInv, TypeOK
<1>3. \A u \in Task : son[u] # k /\ (pc[u] \in SonPc => son[u] \in Task)
  BY <1>1, KmtAssumption DEF LifeInv, SonsInv, Base, TypeInv, SonInv
<1>4. \A u \in Task \ {t, k} : pc'[u] = pc[u]
  BY <1>1, <1>2
<1>5. pc'[t] = "add" /\ pc'[k] = "new" /\ son[t] = NULL /\ son[k] = NULL /\ son'[t] = k
  BY <1>1, <1>2 DEF LifeInv, SonsInv, SonPc
<1>6. \A u \in Task \ {t} : son'[u] = son[u]
  BY <1>1, <1>2
<1>7. \A u \in Task \ {k} : attr'[u] = attr[u] /\ pid'[u] = pid[u]
  BY <1>1, <1>2
<1>8. attr'[k] = {}
  BY <1>1, <1>2
<1>9. TableInv'
  <2>1. \A n \in Slot : tasks[n] # NULL => tasks[n] # k
    BY <1>1 DEF LifeInv, TableInv, Gone
  <2>2. \A u \in Task : pc'[u] \notin Gone => u # k /\ pc[u] \notin Gone
    BY <1>1, <1>4, <1>5 DEF Gone
  <2>3. \A u \in Task \ {k} : pc[u] \notin Gone => pc'[u] \notin Gone
    BY <1>4, <1>5 DEF Gone
  <2> QED BY <1>1, <1>2, <1>7, <2>1, <2>2, <2>3 DEF LifeInv, TableInv
<1>10. SonsInv'
  <2>1. \A u, v \in Task : son'[u] = son'[v] /\ son'[u] # NULL => u = v
    BY <1>3, <1>5, <1>6 DEF LifeInv, SonsInv
  <2>2. ASSUME NEW u \in Task PROVE pc'[u] \notin SonPc => son'[u] = NULL
    BY <1>4, <1>5, <1>6 DEF LifeInv, SonsInv, SonPc
  <2>3. ASSUME NEW u \in Task, u # t, u # k, pc[u] \in SonPc
        PROVE  son'[u] = son[u] /\ son[u] \in Task /\ pc'[son[u]] =
                 (IF son[u] = t THEN "add" ELSE pc[son[u]])
    BY <1>3, <1>4, <1>5, <1>6, <2>3
  <2>4. ASSUME NEW u \in Task, pc'[u] \in {"add", "adding"}
        PROVE  pc'[son'[u]] = "new"
    <3>1. CASE u = t
      BY <3>1, <1>5
    <3>2. CASE u # t
      <4>1. u # k /\ pc[u] \in {"add", "adding"} /\ pc[u] \in SonPc
        BY <2>4, <3>2, <1>4, <1>5 DEF SonPc
      <4>2. pc[son[u]] = "new"
        BY <4>1 DEF LifeInv, SonsInv
      <4> QED BY <4>1, <4>2, <2>3, <3>2, <1>1
    <3> QED BY <3>1, <3>2
  <2>5. ASSUME NEW u \in Task, pc'[u] \in SonPc \ {"add", "adding"}
        PROVE  pc'[son'[u]] \notin {"free", "new"}
    <3>1. u # t /\ u # k /\ pc[u] \in SonPc \ {"add", "adding"}
      BY <2>5, <1>4, <1>5 DEF SonPc
    <3>2. pc[son[u]] \notin {"free", "new"}
      BY <3>1 DEF LifeInv, SonsInv
    <3> QED BY <3>1, <3>2, <2>3
  <2> QED BY <2>1, <2>2, <2>4, <2>5 DEF SonsInv
<1>11. DeadInv'
  <2>1. \A u \in Task : pc'[u] \in {"locking", "nowait"} =>
            pc[u] = pc'[u] /\ son'[u] = son[u] /\ son[u] \in Task \ {k}
    BY <1>3, <1>4, <1>5, <1>6 DEF SonPc
  <2>2. \A u \in Task : pc'[u] \in {"exiting", "exited"} => "ZOMBIE" \in attr'[u]
    BY <1>4, <1>5, <1>7 DEF LifeInv, DeadInv
  <2>3. \A u \in Task : "ZOMBIE" \in attr'[u] => pc'[u] \in {"exiting", "exited", "free"}
    BY <1>1, <1>4, <1>7, <1>8 DEF LifeInv, DeadInv
  <2> QED BY <2>1, <2>2, <2>3, <1>7 DEF LifeInv, DeadInv
<1>12. WaitInv'
  <2>1. k \notin Root
    BY <1>1 DEF LifeInv, WaitInv, Gone
  <2>2. \A u \in Task : "NOWAIT" \in attr'[u] => \A v \in Task : son'[v] # u
    BY <1>5, <1>6, <1>7, <1>8 DEF LifeInv, WaitInv
  <2>3. \A u \in Task \ Root : "NOWAIT" \notin attr'[u] /\ pc'[u] # "free" =>
            \E v \in Task : son'[v] = u
    <3>1. SUFFICES ASSUME NEW u \in Task \ Root, u # k, "NOWAIT" \notin attr'[u],
                          pc'[u] # "free"
                   PROVE  \E v \in Task : son'[v] = u
      BY <1>5
    <3>2. "NOWAIT" \notin attr[u] /\ pc[u] # "free"
      BY <3>1, <1>1, <1>4, <1>7
    <3>3. PICK v \in Task : son[v] = u
      BY <3>2 DEF LifeInv, WaitInv
    <3>4. v # t
      BY <3>3, <1>5, KmtAssumption
    <3> QED BY <3>3, <3>4, <1>6
  <2>4. \A u \in Root : pc'[u] \notin Gone \cup {"exiting"}
    BY <2>1, <1>4, <1>5, KmtAssumption DEF LifeInv, WaitInv, Gone
  <2> QED BY <2>2, <2>3, <2>4 DEF WaitInv
<1>13. QueueInv'
  <2>1. \A i \in 1 .. Len(ctxQueue) : ctxQueue[i] \in Task \ {t, k}
    BY <1>1, <1>2 DEF LifeInv, QueueInv
  <2>2. \A i \in 1 .. Len(ctxQueue) : pc'[ctxQueue[i]] = "exited" /\ "NOWAIT" \in attr'[ctxQueue[i]]
    BY <1>4, <1>7, <2>1 DEF LifeInv, QueueInv
  <2>3. ctxQueue' = ctxQueue
    BY <1>1
  <2> QED BY <2>2, <2>3 DEF LifeInv, QueueInv
<1> QED BY <1>9, <1>10, <1>11, <1>12, <1>13 DEF LifeInv

LEMMA AddTaskLife ==
    ASSUME Base, LifeInv, NEW c \in CPU, NEW t \in Task, AddTask(c, t)
    PROVE  LifeInv'
<1> DEFINE k == son[t]
<1>1. /\ pc[t] = "adding" /\ k \in Task /\ pc[k] = "new" /\ k # t
      /\ NextPid \in Slot /\ tasks[NextPid] = NULL
      /\ tasks' = [tasks EXCEPT ![NextPid] = k]
      /\ pid' = [pid EXCEPT ![k] = NextPid]
      /\ pc' = [pc EXCEPT ![t] = "created", ![k] = "work"]
      /\ UNCHANGED <<son, attr, ctxQueue>>
  BY KmtAssumption
     DEF AddTask, AddTaskBlind, NextPid, Slot, At, Base, TypeInv, TypeOK, SonInv, SonPc,
         LifeInv, SonsInv
<1> HIDE DEF k
<1>2. /\ pc \in [Task -> Pc] /\ pid \in [Task -> Slot] /\ ctxQueue \in Seq(Task)
      /\ tasks \in [Slot -> Task \cup {NULL}]
  BY DEF Base, TypeInv, TypeOK
<1>3. \A u \in Task : pc[u] \in SonPc => son[u] \in Task
  BY DEF Base, TypeInv, SonInv
<1>4. /\ pc'[t] = "created" /\ pc'[k] = "work"
      /\ \A u \in Task \ {t, k} : pc'[u] = pc[u]
  BY <1>1, <1>2
<1>5. pid'[k] = NextPid /\ \A u \in Task \ {k} : pid'[u] = pid[u]
  BY <1>1, <1>2
<1>6. /\ tasks[NextPid] = NULL /\ tasks'[NextPid] = k
      /\ \A n \in Slot : n # NextPid => tasks'[n] = tasks[n]
  BY <1>1, <1>2
<1>7. TableInv'
  <2>1. ASSUME NEW n \in Slot, tasks'[n] # NULL
        PROVE  pid'[tasks'[n]] = n /\ pc'[tasks'[n]] \notin Gone
    <3>1. CASE n = NextPid
      BY <3>1, <1>4, <1>5, <1>6 DEF Gone
    <3>2. CASE n # NextPid
      <4>1. tasks'[n] = tasks[n] /\ tasks[n] \in Task
        BY <3>2, <2>1, <1>2, <1>6
      <4>2. pid[tasks[n]] = n /\ pc[tasks[n]] \notin Gone
        BY <4>1, <2>1 DEF LifeInv, TableInv
      <4>3. tasks[n] # k /\ pc'[tasks[n]] \notin Gone
        BY <4>1, <4>2, <1>1, <1>4 DEF Gone
      <4> QED BY <4>1, <4>2, <4>3, <1>5
    <3> QED BY <3>1, <3>2
  <2>2. ASSUME NEW u \in Task, pc'[u] \notin Gone
        PROVE  pid'[u] \in Slot /\ tasks'[pid'[u]] = u
    <3>1. CASE u = k
      BY <3>1, <1>1, <1>5, <1>6
    <3>2. CASE u # k
      <4>1. pc[u] \notin Gone /\ pid'[u] = pid[u]
        BY <3>2, <2>2, <1>1, <1>4, <1>5 DEF Gone
      <4>2. pid[u] \in Slot /\ tasks[pid[u]] = u
        BY <4>1 DEF LifeInv, TableInv
      <4>3. pid[u] # NextPid
        BY <4>2, <1>6, KmtAssumption
      <4> QED BY <4>1, <4>2, <4>3, <1>6
    <3> QED BY <3>1, <3>2
  <2> QED BY <2>1, <2>2 DEF TableInv
<1>8. SonsInv'
  <2>1. \A u \in Task : pc'[u] \notin SonPc => son[u] = NULL
    <3>1. pc[k] \notin SonPc
      BY <1>1 DEF SonPc
    <3> QED BY <3>1, <1>4 DEF LifeInv, SonsInv, SonPc
  <2>2. ASSUME NEW u \in Task, pc'[u] \in {"add", "adding"}
        PROVE  pc'[son[u]] = "new"
    <3>1. u \notin {t, k} /\ pc[u] = pc'[u] /\ pc[u] \in SonPc
      BY <2>2, <1>4 DEF SonPc
    <3>2. son[u] \in Task /\ pc[son[u]] = "new"
      BY <2>2, <3>1, <1>3 DEF LifeInv, SonsInv
    <3>3. son[u] # son[t]
      BY <3>1, <3>2, KmtAssumption DEF LifeInv, SonsInv
    <3> QED BY <3>2, <3>3, <1>1, <1>4 DEF k
  <2>3. ASSUME NEW u \in Task, pc'[u] \in SonPc \ {"add", "adding"}
        PROVE  pc'[son[u]] \notin {"free", "new"}
    <3>1. CASE u = t
      BY <3>1, <1>4 DEF k
    <3>2. CASE u # t
      <4>1. pc[u] = pc'[u]
        BY <2>3, <3>2, <1>4 DEF SonPc
      <4>2. son[u] \in Task /\ pc[son[u]] \notin {"free", "new"}
        BY <4>1, <2>3, <1>3 DEF LifeInv, SonsInv
      <4> QED BY <4>2, <1>4
    <3> QED BY <3>1, <3>2
  <2>4. son' = son
    BY <1>1
  <2> QED BY <2>1, <2>2, <2>3, <2>4 DEF LifeInv, SonsInv
<1>9. DeadInv'
  <2>1. \A u \in Task : "ZOMBIE" \in attr[u] => u \notin {t, k}
    BY <1>1 DEF LifeInv, DeadInv
  <2>2. \A u \in Task : pc'[u] \in {"exiting", "exited", "locking", "nowait"} =>
            pc[u] = pc'[u]
    BY <1>4
  <2> QED BY <2>1, <2>2, <1>1, <1>4 DEF LifeInv, DeadInv
<1>10. WaitInv'
  <2>1. k \notin Root
    BY <1>1 DEF LifeInv, WaitInv, Gone
  <2>2. \A u \in Task : pc'[u] # "free" => pc[u] # "free"
    BY <1>1, <1>4
  <2>3. \A u \in Root : pc'[u] \notin Gone \cup {"exiting"}
    BY <2>1, <1>4, KmtAssumption DEF LifeInv, WaitInv, Gone
  <2> QED BY <2>2, <2>3, <1>1 DEF LifeInv, WaitInv
<1>11. QueueInv'
  <2>1. \A u \in Task : pc'[u] = "exited" <=> pc[u] = "exited"
    BY <1>1, <1>4
  <2>2. \A i \in 1 .. Len(ctxQueue) : ctxQueue[i] \in Task
    BY <1>2
  <2>3. ctxQueue' = ctxQueue /\ attr' = attr
    BY <1>1
  <2> QED BY <2>1, <2>2, <2>3 DEF LifeInv, QueueInv
<1> QED BY <1>7, <1>8, <1>9, <1>10, <1>11 DEF LifeInv

LEMMA FreeSonLife ==
    ASSUME Base, LifeInv, ExitingInv, NEW c \in CPU, NEW t \in Task,
           WaitLock(c, t) \/ BackDead(c, t)
    PROVE  LifeInv'
<1> DEFINE k == son[t]
<1>1. /\ pc[t] \in {"locking", "backing"}
      /\ ~running[son[t]]
      /\ pc[t] = "locking" \/ "ZOMBIE" \in attr[son[t]]
      /\ pc' = [pc EXCEPT ![t] = "work", ![k] = "free"]
      /\ son' = [son EXCEPT ![t] = NULL]
      /\ UNCHANGED <<tasks, pid, attr, ctxQueue>>
  BY DEF WaitLock, BackDead, FreeSon, At, tableVars
<1>2. /\ pc \in [Task -> Pc] /\ son \in [Task -> Task \cup {NULL}] /\ ctxQueue \in Seq(Task)
      /\ tasks \in [Slot -> Task \cup {NULL}]
  BY DEF Base, TypeInv, TypeOK
<1>3. k \in Task /\ pc[k] = "exited" /\ k # t
  <2>1. "ZOMBIE" \in attr[son[t]] /\ pc[t] \in SonPc \ {"add", "adding"}
    BY <1>1 DEF LifeInv, DeadInv, SonPc
  <2> QED BY <2>1, <1>1, DeadAndLeft
<1>4. \A u \in Task : u # t => son[u] # k
  BY <1>3, KmtAssumption DEF LifeInv, SonsInv
<1>5. \A u \in Task : pc[u] \in SonPc => son[u] \in Task
  BY DEF Base, TypeInv, SonInv
<1>6. "NOWAIT" \notin attr[k] /\ k \notin Root
  BY <1>3 DEF LifeInv, WaitInv, Gone, k
<1> HIDE DEF k
<1>7. /\ pc'[t] = "work" /\ pc'[k] = "free"
      /\ \A u \in Task \ {t, k} : pc'[u] = pc[u]
  BY <1>1, <1>2, <1>3
<1>8. son'[t] = NULL /\ \A u \in Task \ {t} : son'[u] = son[u]
  BY <1>1, <1>2
<1>9. TableInv'
  <2>1. \A u \in Task : pc'[u] \notin Gone <=> pc[u] \notin Gone
    BY <1>1, <1>3, <1>7 DEF Gone
  <2>2. \A n \in Slot : tasks[n] \in Task \cup {NULL}
    BY <1>2
  <2>3. tasks' = tasks /\ pid' = pid
    BY <1>1
  <2> QED BY <2>1, <2>2, <2>3 DEF LifeInv, TableInv
<1>10. SonsInv'
  <2>1. \A u \in Task : pc'[u] \notin SonPc => son'[u] = NULL
    BY <1>3, <1>7, <1>8 DEF LifeInv, SonsInv, SonPc
  <2>2. ASSUME NEW u \in Task, pc'[u] \in SonPc
        PROVE  /\ u \notin {t, k} /\ pc[u] = pc'[u] /\ son'[u] = son[u]
               /\ son[u] \in Task \ {k}
    BY <2>2, <1>4, <1>5, <1>7, <1>8 DEF SonPc
  <2>3. ASSUME NEW u \in Task, pc'[u] \in {"add", "adding"}
        PROVE  pc'[son'[u]] = "new"
    <3>1. pc'[u] \in SonPc
      BY <2>3 DEF SonPc
    <3>2. pc[son[u]] = "new" /\ son[u] # t
      BY <2>2, <2>3, <3>1, <1>1 DEF LifeInv, SonsInv
    <3> QED BY <2>2, <3>1, <3>2, <1>7
  <2>4. ASSUME NEW u \in Task, pc'[u] \in SonPc \ {"add", "adding"}
        PROVE  pc'[son'[u]] \notin {"free", "new"}
    <3>1. pc[son[u]] \notin {"free", "new"} /\ son'[u] = son[u] /\ son[u] \in Task \ {k}
      BY <2>2, <2>4 DEF LifeInv, SonsInv
    <3> QED BY <3>1, <1>7
  <2> QED BY <2>1, <2>3, <2>4, <1>8 DEF LifeInv, SonsInv
<1>11. DeadInv'
  <2>1. \A u \in Task : pc'[u] \in {"exiting", "exited", "locking", "nowait"} =>
            pc[u] = pc'[u] /\ son'[u] = son[u]
    BY <1>7, <1>8
  <2>2. "ZOMBIE" \notin attr[t]
    BY <1>1 DEF LifeInv, DeadInv
  <2> QED BY <2>1, <2>2, <1>1, <1>7 DEF LifeInv, DeadInv
<1>12. WaitInv'
  <2>1. \A u \in Task : "NOWAIT" \in attr[u] => \A v \in Task : son'[v] # u
    BY <1>8, KmtAssumption DEF LifeInv, WaitInv
  <2>2. ASSUME NEW u \in Task \ Root, "NOWAIT" \notin attr[u], pc'[u] # "free"
        PROVE  \E v \in Task : son'[v] = u
    <3>1. u # k /\ pc[u] # "free"
      BY <2>2, <1>1, <1>7
    <3>2. PICK v \in Task : son[v] = u
      BY <2>2, <3>1 DEF LifeInv, WaitInv
    <3>3. v # t
      BY <3>1, <3>2 DEF k
    <3> QED BY <3>2, <3>3, <1>8
  <2>3. \A u \in Root : pc'[u] \notin Gone \cup {"exiting"}
    BY <1>6, <1>7, KmtAssumption DEF LifeInv, WaitInv, Gone
  <2> QED BY <2>1, <2>2, <2>3, <1>1 DEF WaitInv
<1>13. QueueInv'
  <2>1. \A i \in 1 .. Len(ctxQueue) : ctxQueue[i] \in Task \ {t, k}
    BY <1>1, <1>2, <1>6 DEF LifeInv, QueueInv
  <2>2. \A i \in 1 .. Len(ctxQueue) : pc'[ctxQueue[i]] = "exited"
    BY <2>1, <1>7 DEF LifeInv, QueueInv
  <2>3. ctxQueue' = ctxQueue /\ attr' = attr
    BY <1>1
  <2> QED BY <2>2, <2>3 DEF LifeInv, QueueInv
<1> QED BY <1>9, <1>10, <1>11, <1>12, <1>13 DEF LifeInv

LEMMA BackMarkLife ==
    ASSUME Base, LifeInv, NEW c \in CPU, NEW t \in Task, BackMark(c, t)
    PROVE  LifeInv'
<1> DEFINE k == son[t]
<1>1. /\ pc[t] = "nowait" /\ current[c] = t
      /\ attr' = [attr EXCEPT ![k] = @ \cup {"NOWAIT"}]
      /\ son' = [son EXCEPT ![t] = NULL]
      /\ pc' = [pc EXCEPT ![t] = "work"]
      /\ UNCHANGED <<tasks, pid, ctxQueue>>
  BY DEF BackMark, At, Goto, tableVars
<1>2. /\ pc \in [Task -> Pc] /\ son \in [Task -> Task \cup {NULL}] /\ ctxQueue \in Seq(Task)
      /\ tasks \in [Slot -> Task \cup {NULL}] /\ attr \in [Task -> SUBSET Flag]
  BY DEF Base, TypeInv, TypeOK
<1>3. k \in Task /\ pc[k] \notin {"free", "new", "exiting", "exited"} /\ k # t
  <2>1. k \in Task /\ pc[k] \notin {"free", "new"}
    BY <1>1 DEF Base, TypeInv, SonInv, LifeInv, SonsInv, SonPc
  <2>2. pc[k] \notin {"exiting", "exited"}
    BY <1>1, <2>1 DEF LifeInv, DeadInv
  <2> QED BY <1>1, <2>1, <2>2, NotMarked
<1>4. \A u \in Task : u # t => son[u] # k
  BY <1>3, KmtAssumption DEF LifeInv, SonsInv
<1> HIDE DEF k
<1>5. pc'[t] = "work" /\ \A u \in Task \ {t} : pc'[u] = pc[u]
  BY <1>1, <1>2
<1>6. son'[t] = NULL /\ \A u \in Task \ {t} : son'[u] = son[u]
  BY <1>1, <1>2
<1>7. /\ attr'[k] = attr[k] \cup {"NOWAIT"}
      /\ \A u \in Task \ {k} : attr'[u] = attr[u]
  BY <1>1, <1>2, <1>3
<1>8. \A u \in Task : "ZOMBIE" \in attr'[u] <=> "ZOMBIE" \in attr[u]
  BY <1>7
<1>9. \A u \in Task : pc[u] \in SonPc => son[u] \in Task
  BY DEF Base, TypeInv, SonInv
<1>10. TableInv'
  <2>1. \A u \in Task : pc'[u] \notin Gone <=> pc[u] \notin Gone
    BY <1>1, <1>5 DEF Gone
  <2>2. \A n \in Slot : tasks[n] \in Task \cup {NULL}
    BY <1>2
  <2>3. tasks' = tasks /\ pid' = pid
    BY <1>1
  <2> QED BY <2>1, <2>2, <2>3 DEF LifeInv, TableInv
<1>11. SonsInv'
  <2>1. \A u \in Task : pc'[u] \notin SonPc => son'[u] = NULL
    BY <1>5, <1>6 DEF LifeInv, SonsInv, SonPc
  <2>2. ASSUME NEW u \in Task, pc'[u] \in SonPc
        PROVE  u # t /\ pc[u] = pc'[u] /\ son'[u] = son[u] /\ son[u] \in Task
    BY <2>2, <1>5, <1>6, <1>9 DEF SonPc
  <2>3. ASSUME NEW u \in Task, pc'[u] \in {"add", "adding"}
        PROVE  pc'[son'[u]] = "new"
    <3>1. pc'[u] \in SonPc
      BY <2>3 DEF SonPc
    <3>2. pc[son[u]] = "new" /\ son[u] # t
      BY <2>2, <2>3, <3>1, <1>1 DEF LifeInv, SonsInv
    <3> QED BY <2>2, <3>1, <3>2, <1>5
  <2>4. ASSUME NEW u \in Task, pc'[u] \in SonPc \ {"add", "adding"}
        PROVE  pc'[son'[u]] \notin {"free", "new"}
    <3>1. pc[son[u]] \notin {"free", "new"} /\ son'[u] = son[u] /\ son[u] \in Task
      BY <2>2, <2>4 DEF LifeInv, SonsInv
    <3> QED BY <3>1, <1>5
  <2> QED BY <2>1, <2>3, <2>4, <1>6 DEF LifeInv, SonsInv
<1>12. DeadInv'
  <2>1. \A u \in Task : pc'[u] \in {"exiting", "exited", "locking", "nowait"} =>
            u # t /\ pc[u] = pc'[u] /\ son'[u] = son[u]
    BY <1>5, <1>6
  <2>2. \A u \in Task : pc[u] \in {"locking", "nowait"} => son[u] \in Task
    BY <1>9 DEF SonPc
  <2>3. "ZOMBIE" \notin attr[t]
    BY <1>1 DEF LifeInv, DeadInv
  <2> QED BY <2>1, <2>2, <2>3, <1>5, <1>8 DEF LifeInv, DeadInv
<1>13. WaitInv'
  <2>1. \A u \in Task : "NOWAIT" \in attr'[u] => \A v \in Task : son'[v] # u
    BY <1>4, <1>6, <1>7, KmtAssumption DEF LifeInv, WaitInv
  <2>2. ASSUME NEW u \in Task \ Root, "NOWAIT" \notin attr'[u], pc'[u] # "free"
        PROVE  \E v \in Task : son'[v] = u
    <3>1. u # k /\ "NOWAIT" \notin attr[u] /\ pc[u] # "free"
      BY <2>2, <1>1, <1>5, <1>7
    <3>2. PICK v \in Task : son[v] = u
      BY <3>1 DEF LifeInv, WaitInv
    <3>3. v # t
      BY <3>1, <3>2 DEF k
    <3> QED BY <3>2, <3>3, <1>6
  <2>3. \A u \in Root : pc'[u] \notin Gone \cup {"exiting"}
    BY <1>5, KmtAssumption DEF LifeInv, WaitInv, Gone
  <2> QED BY <2>1, <2>2, <2>3 DEF WaitInv
<1>14. QueueInv'
  <2>1. \A i \in 1 .. Len(ctxQueue) : ctxQueue[i] \in Task \ {t, k}
    BY <1>1, <1>2, <1>3 DEF LifeInv, QueueInv
  <2>2. ctxQueue' = ctxQueue
    BY <1>1
  <2> QED BY <2>1, <2>2, <1>5, <1>7 DEF LifeInv, QueueInv
<1> QED BY <1>10, <1>11, <1>12, <1>13, <1>14 DEF LifeInv

LEMMA ExitZombieLife ==
    ASSUME Base, LifeInv, NEW c \in CPU, NEW t \in Task, ExitZombie(c, t)
    PROVE  LifeInv'
<1>1. /\ pc[t] = "work" /\ current[c] = t /\ t \notin Root
      /\ attr' = [attr EXCEPT ![t] = @ \cup {"ZOMBIE"}]
      /\ pc' = [pc EXCEPT ![t] = "exiting"]
      /\ UNCHANGED <<tasks, pid, son, ctxQueue>>
  BY DEF ExitZombie, At, Goto, tableVars
<1>2. /\ pc \in [Task -> Pc] /\ ctxQueue \in Seq(Task)
      /\ tasks \in [Slot -> Task \cup {NULL}] /\ attr \in [Task -> SUBSET Flag]
  BY DEF Base, TypeInv, TypeOK
<1>3. pc'[t] = "exiting" /\ \A u \in Task \ {t} : pc'[u] = pc[u]
  BY <1>1, <1>2
<1>4. /\ attr'[t] = attr[t] \cup {"ZOMBIE"}
      /\ \A u \in Task \ {t} : attr'[u] = attr[u]
  BY <1>1, <1>2
<1>5. \A u \in Task : pc[u] \in SonPc => son[u] \in Task
  BY DEF Base, TypeInv, SonInv
<1>6. TableInv'
  <2>1. \A u \in Task : pc'[u] \notin Gone <=> pc[u] \notin Gone
    BY <1>1, <1>3 DEF Gone
  <2>2. \A n \in Slot : tasks[n] \in Task \cup {NULL}
    BY <1>2
  <2>3. tasks' = tasks /\ pid' = pid
    BY <1>1
  <2> QED BY <2>1, <2>2, <2>3 DEF LifeInv, TableInv
<1>7. SonsInv'
  <2>1. \A u \in Task : /\ pc'[u] \in SonPc <=> pc[u] \in SonPc
                        /\ pc'[u] \in SonPc => pc'[u] = pc[u]
                        /\ pc'[u] \in {"new", "free"} <=> pc[u] \in {"new", "free"}
                        /\ pc[u] = "new" => pc'[u] = "new"
    BY <1>1, <1>3 DEF SonPc
  <2>2. son' = son
    BY <1>1
  <2>3. \A u \in Task : pc[u] \in {"add", "adding"} => pc[u] \in SonPc
    BY DEF SonPc
  <2>4. \A u \in Task : pc'[u] \in {"add", "adding"} => pc[u] \in {"add", "adding"}
    BY <1>3
  <2> QED BY <2>1, <2>2, <2>3, <2>4, <1>5 DEF LifeInv, SonsInv
<1>8. DeadInv'
  <2>1. \A u \in Task : pc[u] = "nowait" => son[u] \in Task \ {t}
    BY <1>1, <1>5, NotMarked DEF SonPc
  <2>2. \A u \in Task : pc[u] = "locking" => son[u] \in Task
    BY <1>5 DEF SonPc
  <2>3. son' = son
    BY <1>1
  <2> QED BY <2>1, <2>2, <2>3, <1>3, <1>4 DEF LifeInv, DeadInv
<1>9. WaitInv'
  <2>1. \A u \in Task : "NOWAIT" \in attr'[u] <=> "NOWAIT" \in attr[u]
    BY <1>4
  <2>2. \A u \in Task : pc'[u] # "free" <=> pc[u] # "free"
    BY <1>1, <1>3
  <2>3. \A u \in Root : pc'[u] \notin Gone \cup {"exiting"}
    BY <1>1, <1>3, KmtAssumption DEF LifeInv, WaitInv, Gone
  <2>4. son' = son
    BY <1>1
  <2> QED BY <2>1, <2>2, <2>3, <2>4 DEF LifeInv, WaitInv
<1>10. QueueInv'
  <2>1. \A i \in 1 .. Len(ctxQueue) : ctxQueue[i] \in Task \ {t}
    BY <1>1, <1>2 DEF LifeInv, QueueInv
  <2>2. ctxQueue' = ctxQueue
    BY <1>1
  <2> QED BY <2>1, <2>2, <1>3, <1>4 DEF LifeInv, QueueInv
<1> QED BY <1>6, <1>7, <1>8, <1>9, <1>10 DEF LifeInv

LEMMA ExitYieldLife ==
    ASSUME Base, LifeInv, NEW c \in CPU, NEW t \in Task, ExitYield(c, t)
    PROVE  LifeInv'
<1>1. /\ pc[t] = "exiting" /\ current[c] = t
      /\ tasks' = [tasks EXCEPT ![pid[t]] = NULL]
      /\ ctxQueue' = ctxQueue \/ ("NOWAIT" \in attr[t] /\ ctxQueue' = Append(ctxQueue, t))
      /\ pc' = [pc EXCEPT ![t] = "exited"]
      /\ UNCHANGED <<pid, son, attr>>
  BY DEF ExitYield, ExitAs, At, Goto
<1>2. /\ pc \in [Task -> Pc] /\ ctxQueue \in Seq(Task) /\ attr \in [Task -> SUBSET Flag]
      /\ tasks \in [Slot -> Task \cup {NULL}]
  BY DEF Base, TypeInv, TypeOK
<1>3. pc'[t] = "exited" /\ \A u \in Task \ {t} : pc'[u] = pc[u]
  BY <1>1, <1>2
<1>4. \A u \in Task : pc[u] \in SonPc => son[u] \in Task
  BY DEF Base, TypeInv, SonInv
<1>5. pid[t] \in Slot /\ tasks[pid[t]] = t
  BY <1>1 DEF LifeInv, TableInv, Gone
<1>6. tasks'[pid[t]] = NULL /\ \A n \in Slot : n # pid[t] => tasks'[n] = tasks[n]
  BY <1>1, <1>2, <1>5
<1>7. TableInv'
  <2>1. ASSUME NEW n \in Slot, tasks'[n] # NULL
        PROVE  pid'[tasks'[n]] = n /\ pc'[tasks'[n]] \notin Gone
    <3>1. n # pid[t] /\ tasks'[n] = tasks[n] /\ tasks[n] \in Task
      BY <2>1, <1>2, <1>6
    <3>2. pid[tasks[n]] = n /\ pc[tasks[n]] \notin Gone
      BY <2>1, <3>1 DEF LifeInv, TableInv
    <3>3. tasks[n] # t /\ pid' = pid
      BY <3>1, <3>2, <1>1
    <3> QED BY <3>1, <3>2, <3>3, <1>3
  <2>2. ASSUME NEW u \in Task, pc'[u] \notin Gone
        PROVE  pid'[u] \in Slot /\ tasks'[pid'[u]] = u
    <3>1. u # t /\ pc[u] \notin Gone /\ pid' = pid
      BY <2>2, <1>1, <1>3 DEF Gone
    <3>2. pid[u] \in Slot /\ tasks[pid[u]] = u
      BY <3>1 DEF LifeInv, TableInv
    <3>3. pid[u] # pid[t]
      BY <3>1, <3>2, <1>5
    <3> QED BY <3>1, <3>2, <3>3, <1>6
  <2> QED BY <2>1, <2>2 DEF TableInv
<1>8. SonsInv'
  <2>1. \A u \in Task : /\ pc'[u] \in SonPc <=> pc[u] \in SonPc
                        /\ pc'[u] \in SonPc => pc'[u] = pc[u]
                        /\ pc'[u] \in {"new", "free"} <=> pc[u] \in {"new", "free"}
                        /\ pc[u] = "new" => pc'[u] = "new"
    BY <1>1, <1>3 DEF SonPc
  <2>2. son' = son
    BY <1>1
  <2>3. \A u \in Task : pc[u] \in {"add", "adding"} => pc[u] \in SonPc
    BY DEF SonPc
  <2>4. \A u \in Task : pc'[u] \in {"add", "adding"} => pc[u] \in {"add", "adding"}
    BY <1>3
  <2> QED BY <2>1, <2>2, <2>3, <2>4, <1>4 DEF LifeInv, SonsInv
<1>9. DeadInv'
  <2>1. son' = son /\ attr' = attr
    BY <1>1
  <2> QED BY <2>1, <1>1, <1>3 DEF LifeInv, DeadInv
<1>10. WaitInv'
  <2>1. \A u \in Task : pc'[u] # "free" <=> pc[u] # "free"
    BY <1>1, <1>3
  <2>2. \A u \in Root : pc'[u] \notin Gone \cup {"exiting"}
    BY <1>1, <1>3, KmtAssumption DEF LifeInv, WaitInv, Gone
  <2>3. son' = son /\ attr' = attr
    BY <1>1
  <2> QED BY <2>1, <2>2, <2>3 DEF LifeInv, WaitInv
<1>11. QueueInv'
  <2>1. \A i \in 1 .. Len(ctxQueue) : ctxQueue[i] \in Task \ {t}
    BY <1>1, <1>2 DEF LifeInv, QueueInv
  <2>2. attr' = attr
    BY <1>1
  <2>3. CASE ctxQueue' = ctxQueue
    BY <2>1, <2>2, <2>3, <1>3 DEF LifeInv, QueueInv
  <2>4. CASE "NOWAIT" \in attr[t] /\ ctxQueue' = Append(ctxQueue, t)
    <3>1. /\ Len(ctxQueue') = Len(ctxQueue) + 1 /\ Len(ctxQueue) \in Nat
          /\ ctxQueue'[Len(ctxQueue) + 1] = t
          /\ \A i \in 1 .. Len(ctxQueue) : ctxQueue'[i] = ctxQueue[i]
      BY <2>4, <1>2
    <3>2. \A i, j \in 1 .. Len(ctxQueue') : ctxQueue'[i] = ctxQueue'[j] => i = j
      BY <2>1, <3>1 DEF LifeInv, QueueInv
    <3>3. ASSUME NEW i \in 1 .. Len(ctxQueue')
          PROVE  pc'[ctxQueue'[i]] = "exited" /\ "NOWAIT" \in attr[ctxQueue'[i]]
      <4>1. CASE i = Len(ctxQueue) + 1
        BY <4>1, <3>1, <2>4, <1>3
      <4>2. CASE i # Len(ctxQueue) + 1
        <5>1. i \in 1 .. Len(ctxQueue) /\ ctxQueue'[i] = ctxQueue[i]
          BY <4>2, <3>1
        <5> QED BY <5>1, <2>1, <1>3 DEF LifeInv, QueueInv
      <4> QED BY <4>1, <4>2
    <3> QED BY <3>2, <3>3, <2>2 DEF QueueInv
  <2> QED BY <2>3, <2>4, <1>1
<1> QED BY <1>7, <1>8, <1>9, <1>10, <1>11 DEF LifeInv

\* What is left of the queue behind its first, and the queue with the first at its end.
LEMMA Rotated ==
    ASSUME TypeInv, QueueInv, ctxQueue # <<>>
    PROVE  LET q == ctxQueue
               r == Append(Tail(q), Head(q))
           IN  /\ Head(q) = q[1] /\ 1 \in 1 .. Len(q)
               /\ Len(Tail(q)) = Len(q) - 1 /\ Len(q) \in Nat
               /\ \A i \in 1 .. Len(Tail(q)) : Tail(q)[i] = q[i + 1]
               /\ Len(r) = Len(q) /\ r[Len(q)] = q[1]
               /\ \A i \in 1 .. Len(q) - 1 : r[i] = q[i + 1]
<1> DEFINE q == ctxQueue
           s == Tail(q)
           r == Append(s, q[1])
<1>1. q \in Seq(Task) /\ q # <<>>
  BY DEF TypeInv, TypeOK
<1>2. Head(q) = q[1] /\ Len(q) \in Nat /\ Len(q) >= 1
  BY <1>1
<1>3. s \in Seq(Task) /\ Len(s) = Len(q) - 1 /\ \A i \in 1 .. Len(s) : s[i] = q[i + 1]
  BY <1>1
<1>4. q[1] \in Task
  BY <1>1, <1>2
<1> HIDE DEF q, s
<1>5. Len(r) = Len(s) + 1 /\ r[Len(s) + 1] = q[1] /\ \A i \in 1 .. Len(s) : r[i] = s[i]
  BY <1>3, <1>4
<1>6. Len(r) = Len(q) /\ r[Len(q)] = q[1] /\ \A i \in 1 .. Len(q) - 1 : r[i] = q[i + 1]
  BY <1>2, <1>3, <1>5
<1> QED BY <1>2, <1>3, <1>6 DEF q, s

LEMMA CleanBusyLife ==
    ASSUME Base, LifeInv, NEW c \in CPU, CleanBusy(c)
    PROVE  LifeInv' /\ (QueuedInv => QueuedInv')
<1>1. /\ ctxQueue # <<>> /\ ctxQueue' = Append(Tail(ctxQueue), Head(ctxQueue))
      /\ UNCHANGED <<tasks, pid, pc, son, attr>>
  BY DEF CleanBusy, Resume, tableVars
<1>2. /\ Len(ctxQueue') = Len(ctxQueue) /\ ctxQueue'[Len(ctxQueue)] = ctxQueue[1]
      /\ 1 \in 1 .. Len(ctxQueue) /\ Len(ctxQueue) \in Nat
      /\ \A i \in 1 .. Len(ctxQueue) - 1 : ctxQueue'[i] = ctxQueue[i + 1]
  BY <1>1, Rotated DEF Base, LifeInv
<1> DEFINE old(i) == IF i = Len(ctxQueue) THEN 1 ELSE i + 1
<1>3. \A i \in 1 .. Len(ctxQueue) : old(i) \in 1 .. Len(ctxQueue) /\ ctxQueue'[i] = ctxQueue[old(i)]
  BY <1>2
<1>4. \A i, j \in 1 .. Len(ctxQueue) : old(i) = old(j) => i = j
  BY <1>2
<1>5. \A i \in 1 .. Len(ctxQueue) : \E j \in 1 .. Len(ctxQueue) : ctxQueue'[j] = ctxQueue[i]
  <2> SUFFICES ASSUME NEW i \in 1 .. Len(ctxQueue)
               PROVE  \E j \in 1 .. Len(ctxQueue) : ctxQueue'[j] = ctxQueue[i]
    OBVIOUS
  <2>1. CASE i = 1
    BY <2>1, <1>2
  <2>2. CASE i # 1
    <3>1. i - 1 \in 1 .. Len(ctxQueue) - 1 /\ (i - 1) + 1 = i
      BY <2>2, <1>2
    <3>2. i - 1 \in 1 .. Len(ctxQueue) /\ ctxQueue'[i - 1] = ctxQueue[(i - 1) + 1]
      BY <3>1, <1>2
    <3> QED BY <3>1, <3>2
  <2> QED BY <2>1, <2>2
<1> HIDE DEF old
<1>len. Len(ctxQueue') = Len(ctxQueue) /\ pc' = pc /\ attr' = attr
  BY <1>1, <1>2
<1>6. QueueInv'
  <2>1. \A i, j \in 1 .. Len(ctxQueue) : ctxQueue'[i] = ctxQueue'[j] => i = j
    BY <1>3, <1>4 DEF LifeInv, QueueInv
  <2>2. \A i \in 1 .. Len(ctxQueue) :
            pc[ctxQueue'[i]] = "exited" /\ "NOWAIT" \in attr[ctxQueue'[i]]
    BY <1>3 DEF LifeInv, QueueInv
  <2> QED BY <2>1, <2>2, <1>len DEF QueueInv
<1>7. QueuedInv => QueuedInv'
  BY <1>5, <1>len DEF QueuedInv
<1>8. TableInv' /\ SonsInv' /\ DeadInv' /\ WaitInv'
  BY <1>1 DEF LifeInv, TableInv, SonsInv, DeadInv, WaitInv
<1> QED BY <1>6, <1>7, <1>8 DEF LifeInv

LEMMA CleanFreeLife ==
    ASSUME Base, LifeInv, NEW c \in CPU, CleanFree(c)
    PROVE  LifeInv' /\ (QueuedInv => QueuedInv')
<1> DEFINE z == Head(ctxQueue)
<1>1. /\ ctxQueue # <<>> /\ ctxQueue' = Tail(ctxQueue)
      /\ pc' = [pc EXCEPT ![z] = "free"]
      /\ UNCHANGED <<tasks, pid, son, attr>>
  BY DEF CleanFree, Resume, tableVars
<1>2. /\ pc \in [Task -> Pc] /\ ctxQueue \in Seq(Task)
      /\ tasks \in [Slot -> Task \cup {NULL}]
  BY DEF Base, TypeInv, TypeOK
<1>3. /\ z = ctxQueue[1] /\ 1 \in 1 .. Len(ctxQueue)
      /\ Len(ctxQueue') = Len(ctxQueue) - 1 /\ Len(ctxQueue) \in Nat
      /\ \A i \in 1 .. Len(ctxQueue') : ctxQueue'[i] = ctxQueue[i + 1]
  BY <1>1, Rotated DEF Base, LifeInv
<1>4. z \in Task /\ pc[z] = "exited" /\ "NOWAIT" \in attr[z]
  BY <1>2, <1>3 DEF LifeInv, QueueInv
<1>5. z \notin Root /\ \A u \in Task : son[u] # z
  BY <1>4 DEF LifeInv, WaitInv, Gone
<1> HIDE DEF z
<1>6. pc'[z] = "free" /\ \A u \in Task \ {z} : pc'[u] = pc[u]
  BY <1>1, <1>2, <1>4
<1>7. \A u \in Task : pc[u] \in SonPc => son[u] \in Task \ {z}
  BY <1>5 DEF Base, TypeInv, SonInv
<1>8. son' = son /\ attr' = attr /\ tasks' = tasks /\ pid' = pid
  BY <1>1
<1>9. TableInv'
  <2>1. \A u \in Task : pc'[u] \notin Gone <=> pc[u] \notin Gone
    BY <1>4, <1>6 DEF Gone
  <2>2. \A n \in Slot : tasks[n] \in Task \cup {NULL}
    BY <1>2
  <2> QED BY <2>1, <2>2, <1>8 DEF LifeInv, TableInv
<1>10. SonsInv'
  <2>1. \A u \in Task : pc'[u] \in SonPc <=> pc[u] \in SonPc
    BY <1>4, <1>6 DEF SonPc
  <2>2. \A u \in Task : pc'[u] \in SonPc => pc'[u] = pc[u] /\ pc'[son[u]] = pc[son[u]]
    BY <2>1, <1>4, <1>6, <1>7 DEF SonPc
  <2>3. \A u \in Task : pc'[u] \in {"add", "adding"} => pc'[u] \in SonPc
    BY DEF SonPc
  <2> QED BY <2>1, <2>2, <2>3, <1>8 DEF LifeInv, SonsInv
<1>11. DeadInv'
  BY <1>4, <1>6, <1>8 DEF LifeInv, DeadInv
<1>12. WaitInv'
  <2>1. \A u \in Task : pc'[u] # "free" => pc[u] # "free"
    BY <1>4, <1>6
  <2>2. \A u \in Root : pc'[u] \notin Gone \cup {"exiting"}
    BY <1>5, <1>6, KmtAssumption DEF LifeInv, WaitInv, Gone
  <2> QED BY <2>1, <2>2, <1>8 DEF LifeInv, WaitInv
<1>13. \A i \in 1 .. Len(ctxQueue') :
           i + 1 \in 1 .. Len(ctxQueue) /\ ctxQueue'[i] = ctxQueue[i + 1] /\ i \in Nat
  BY <1>3
<1>14. \A i \in 1 .. Len(ctxQueue') : ctxQueue'[i] \in Task \ {z}
  <2>1. \A i \in 1 .. Len(ctxQueue') : ctxQueue[i + 1] # ctxQueue[1] /\ ctxQueue[i + 1] \in Task
    BY <1>2, <1>3, <1>13 DEF LifeInv, QueueInv
  <2> QED BY <2>1, <1>3, <1>13
<1>15. QueueInv'
  <2>1. \A i, j \in 1 .. Len(ctxQueue') : ctxQueue'[i] = ctxQueue'[j] => i = j
    BY <1>13 DEF LifeInv, QueueInv
  <2>2. \A i \in 1 .. Len(ctxQueue') :
            pc[ctxQueue'[i]] = "exited" /\ "NOWAIT" \in attr[ctxQueue'[i]]
    BY <1>13 DEF LifeInv, QueueInv
  <2> QED BY <2>1, <2>2, <1>6, <1>8, <1>14 DEF QueueInv
<1>16. ASSUME QueuedInv PROVE QueuedInv'
  <2> SUFFICES ASSUME NEW u \in Task, pc'[u] = "exited", "NOWAIT" \in attr[u]
               PROVE  \E i \in 1 .. Len(ctxQueue') : ctxQueue'[i] = u
    BY <1>8 DEF QueuedInv
  <2>1. u # z /\ pc[u] = "exited"
    BY <1>6
  <2>2. PICK i \in 1 .. Len(ctxQueue) : ctxQueue[i] = u
    BY <2>1, <1>16 DEF QueuedInv
  <2>3. i # 1 /\ i - 1 \in 1 .. Len(ctxQueue') /\ (i - 1) + 1 = i
    BY <2>1, <2>2, <1>3
  <2> QED BY <2>2, <2>3, <1>13
<1> QED BY <1>9, <1>10, <1>11, <1>12, <1>15, <1>16 DEF LifeInv

\* A signal takes SLEEP from one task and changes no other flag.
LEMMA SignalFlags ==
    ASSUME TypeInv, kmt_sem_signal
    PROVE  \A t \in Task, x \in {"ZOMBIE", "NOWAIT"} : x \in attr'[t] <=> x \in attr[t]
<1>1. CASE sem_remove_task
  <2>1. pool[head] \in Task \cup {NULL} /\ attr \in [Task -> SUBSET Flag]
    BY DEF TypeInv, TypeOK
  <2> QED BY <1>1, <2>1 DEF sem_remove_task
<1>2. CASE UNCHANGED attr
  BY <1>2
<1> QED BY <1>1, <1>2 DEF kmt_sem_signal

\* A step of one task within a stage.
LEMMA OneMoves ==
    ASSUME TypeInv, LifeInv, NEW t \in Task, NEW p \in Pc,
           UNCHANGED <<tasks, pid, son, ctxQueue>>,
           \A u \in Task, x \in {"ZOMBIE", "NOWAIT"} : x \in attr'[u] <=> x \in attr[u],
           pc' = [pc EXCEPT ![t] = p],
           pc[t] \notin Gone \cup {"exiting"}, p \notin Gone \cup {"exiting"},
           p \in SonPc <=> pc[t] \in SonPc,
           p \in {"add", "adding"} <=> pc[t] \in {"add", "adding"},
           p = "locking" => "ZOMBIE" \in attr[son[t]],
           p = "nowait" => "ZOMBIE" \notin attr[son[t]]
    PROVE  LifeInv'
<1>1. pc'[t] = p /\ \A u \in Task \ {t} : pc'[u] = pc[u]
  BY DEF TypeInv, TypeOK
<1>2. \A u \in Task : \/ pc'[u] = pc[u]
                      \/ /\ pc[u] \notin Gone \cup {"exiting"}
                         /\ pc'[u] \notin Gone \cup {"exiting"}
  BY <1>1
<1>3. \A u \in Task : pc'[u] \in SonPc <=> pc[u] \in SonPc
  BY <1>1
<1>4. \A u \in Task : pc'[u] \in {"add", "adding"} <=> pc[u] \in {"add", "adding"}
  BY <1>1
<1>5. \A u \in Task : pc'[u] = "locking" => "ZOMBIE" \in attr[son[u]]
  BY <1>1 DEF LifeInv, DeadInv
<1>6. \A u \in Task : pc'[u] = "nowait" => "ZOMBIE" \notin attr[son[u]]
  BY <1>1 DEF LifeInv, DeadInv
<1>7. /\ \A u \in Task : "ZOMBIE" \in attr'[u] <=> "ZOMBIE" \in attr[u]
      /\ \A u \in Task : "NOWAIT" \in attr'[u] <=> "NOWAIT" \in attr[u]
  OBVIOUS
<1> QED BY <1>2, <1>3, <1>4, <1>5, <1>6, <1>7, SameStage

LEMMA LifeStep ==
    ASSUME Base, LifeInv, ExitingInv, [Next]_vars
    PROVE  LifeInv'
<1> USE DEF Base
<1>1. CASE UNCHANGED <<tasks, pid, son, ctxQueue, pc, attr>>
  BY <1>1 DEF LifeInv, TableInv, SonsInv, DeadInv, WaitInv, QueueInv
<1>2. ASSUME NEW c \in CPU,
             \/ \E irq \in {"save", "saveio"} : Trap(c, irq)
             \/ Save(c) \/ PickIdle(c) \/ TryBusy(c) \/ TryRun(c) \/ CleanNone(c)
             \/ \E n \in Slot : Pick(c, n)
             \/ \E t \in Task : SemPass(c, t) \/ AddProbe(c, t)
      PROVE  LifeInv'
  BY <1>1, <1>2 DEF Trap, Save, PickIdle, TryBusy, TryRun, CleanNone, Resume, Pick, PickIf,
                    SemPass, AddProbe, tableVars
<1>3. ASSUME NEW c \in CPU, Notify(c) \/ \E t \in Task : SemSignal(c, t)
      PROVE  LifeInv'
  <2>1. UNCHANGED <<tasks, pid, son, ctxQueue, pc>> /\ kmt_sem_signal
    BY <1>3 DEF Notify, SemSignal, tableVars
  <2>2. \A t \in Task, x \in {"ZOMBIE", "NOWAIT"} : x \in attr'[t] <=> x \in attr[t]
    BY <2>1, SignalFlags
  <2>3. /\ \A t \in Task : pc'[t] = "locking" => "ZOMBIE" \in attr[son[t]]
        /\ \A t \in Task : pc'[t] = "nowait" => "ZOMBIE" \notin attr[son[t]]
    BY <2>1 DEF LifeInv, DeadInv
  <2> QED BY <2>1, <2>2, <2>3, SameStage
<1>4. ASSUME NEW c \in CPU, NEW t \in Task,
             LockTasks(c, t) \/ Foreground(c, t) \/ Background(c, t) \/ WaitZombie(c, t)
             \/ BackAlive(c, t) \/ ParkYield(c, t) \/ Unpark(c, t)
      PROVE  LifeInv'
  <2>1. UNCHANGED <<tasks, pid, son, ctxQueue, attr>>
    BY <1>4 DEF LockTasks, Foreground, Background, WaitZombie, BackAlive, BackLock,
                ParkYield, Unpark, tableVars
  <2>2. CASE LockTasks(c, t)
    <3>1. pc[t] = "add" /\ pc' = [pc EXCEPT ![t] = "adding"]
      BY <2>2 DEF LockTasks, At, Goto
    <3> QED BY <2>1, <3>1, OneMoves DEF Pc, SonPc, Gone
  <2>3. CASE Foreground(c, t)
    <3>1. pc[t] = "created" /\ pc' = [pc EXCEPT ![t] = "waiting"]
      BY <2>3 DEF Foreground, At, Goto
    <3> QED BY <2>1, <3>1, OneMoves DEF Pc, SonPc, Gone
  <2>4. CASE Background(c, t)
    <3>1. pc[t] = "created" /\ pc' = [pc EXCEPT ![t] = "backing"]
      BY <2>4 DEF Background, At, Goto
    <3> QED BY <2>1, <3>1, OneMoves DEF Pc, SonPc, Gone
  <2>5. CASE WaitZombie(c, t)
    <3>1. pc[t] = "waiting" /\ pc' = [pc EXCEPT ![t] = "locking"] /\ "ZOMBIE" \in attr[son[t]]
      BY <2>5 DEF WaitZombie, At, Goto
    <3> QED BY <2>1, <3>1, OneMoves DEF Pc, SonPc, Gone
  <2>6. CASE BackAlive(c, t)
    <3>1. pc[t] = "backing" /\ pc' = [pc EXCEPT ![t] = "nowait"] /\ "ZOMBIE" \notin attr[son[t]]
      BY <2>6 DEF BackAlive, BackLock, At, Goto
    <3> QED BY <2>1, <3>1, OneMoves DEF Pc, SonPc, Gone
  <2>7. CASE ParkYield(c, t)
    <3>1. pc[t] = "parking" /\ pc' = [pc EXCEPT ![t] = "parked"]
      BY <2>7 DEF ParkYield, At, Goto
    <3> QED BY <2>1, <3>1, OneMoves DEF Pc, SonPc, Gone
  <2>8. CASE Unpark(c, t)
    <3>1. pc[t] = "parked" /\ pc' = [pc EXCEPT ![t] = "work"]
      BY <2>8 DEF Unpark, At, Goto
    <3> QED BY <2>1, <3>1, OneMoves DEF Pc, SonPc, Gone
  <2> QED BY <1>4, <2>2, <2>3, <2>4, <2>5, <2>6, <2>7, <2>8
<1>5. ASSUME NEW c \in CPU, NEW t \in Task, SemPark(c, t) PROVE LifeInv'
  <2>1. /\ UNCHANGED <<tasks, pid, son, ctxQueue>>
        /\ pc[t] = "work" /\ pc' = [pc EXCEPT ![t] = "parking"]
        /\ attr' = [attr EXCEPT ![t] = @ \cup {"SLEEP"}]
    BY <1>5 DEF SemPark, At, Goto, tableVars
  <2>2. \A u \in Task, x \in {"ZOMBIE", "NOWAIT"} : x \in attr'[u] <=> x \in attr[u]
    BY <2>1 DEF TypeInv, TypeOK
  <2> QED BY <2>1, <2>2, OneMoves DEF Pc, SonPc, Gone
<1>6. ASSUME NEW c \in CPU, CleanBusy(c) \/ CleanFree(c) PROVE LifeInv'
  BY <1>6, CleanBusyLife, CleanFreeLife
<1>7. ASSUME NEW c \in CPU, NEW t \in Task, NEW k \in Task, Create(c, t, k) PROVE LifeInv'
  BY <1>7, CreateLife
<1>8. ASSUME NEW c \in CPU, NEW t \in Task,
             \/ AddTask(c, t) \/ WaitLock(c, t) \/ BackDead(c, t) \/ BackMark(c, t)
             \/ ExitZombie(c, t) \/ ExitYield(c, t)
      PROVE  LifeInv'
  BY <1>8, AddTaskLife, FreeSonLife, BackMarkLife, ExitZombieLife, ExitYieldLife
<1>9. CASE UNCHANGED vars
  BY <1>1, <1>9 DEF vars
<1> HIDE DEF Base
<1> QED BY <1>2, <1>3, <1>4, <1>5, <1>6, <1>7, <1>8, <1>9, ZenonT(30)
        DEF Next, TrapStep, Duty, Choice

LEMMA ExitingStep ==
    ASSUME Base, ExitingInv, [Next]_vars
    PROVE  ExitingInv'
<1> USE KmtAssumption DEF ExitingInv
<1>0. /\ mode \in [CPU -> Mode] /\ pc \in [Task -> Pc] /\ current \in [CPU -> Task \cup {NULL}]
      /\ \A t \in Task : pc[t] \in SonPc => son[t] \in Task
      /\ ctxQueue \in Seq(Task)
  BY DEF Base, TypeInv, TypeOK, SonInv
<1>1. CASE UNCHANGED <<mode, current>> /\ \A t \in Task : pc'[t] = "exiting" => pc[t] = "exiting"
  BY <1>1
<1>2. ASSUME NEW c \in CPU, NEW irq \in {"save", "saveio"}, Trap(c, irq) PROVE ExitingInv'
  BY <1>0, <1>2 DEF Trap, IntrOn
<1>3. ASSUME NEW c \in CPU,
             TrapStep(c) \/ \E n \in Slot : Pick(c, n)
      PROVE  ExitingInv'
  <2>1. mode[c] # "run" /\ \A d \in CPU \ {c} : mode'[d] = mode[d] /\ current'[d] = current[d]
    BY <1>0, <1>3 DEF TrapStep, Save, Notify, PickIdle, TryBusy, TryRun, CleanNone, CleanBusy,
                CleanFree, Resume, Pick, PickIf
  <2>2. \A t \in Task : pc'[t] = "exiting" => pc[t] = "exiting"
    BY <1>0, <1>3 DEF TrapStep, Save, Notify, PickIdle, TryBusy, TryRun, CleanNone, CleanBusy,
                CleanFree, Resume, Pick, PickIf
  <2> QED BY <2>1, <2>2
<1>4. ASSUME NEW c \in CPU, NEW t \in Task, ExitZombie(c, t) PROVE ExitingInv'
  BY <1>0, <1>4 DEF ExitZombie, At, Goto, cpuVars
<1>5. ASSUME NEW c \in CPU, NEW t \in Task, ExitYield(c, t) \/ ParkYield(c, t)
      PROVE  ExitingInv'
  <2>1. /\ current[c] = t /\ current' = current
        /\ \A d \in CPU \ {c} : mode'[d] = mode[d]
        /\ \A u \in Task : pc'[u] = "exiting" => u # t /\ pc[u] = "exiting"
    BY <1>0, <1>5 DEF ExitYield, ExitAs, ParkYield, At, Goto
  <2> QED BY <2>1
<1>6. ASSUME NEW c \in CPU, NEW t \in Task, Duty(c, t), ~ExitYield(c, t), ~ParkYield(c, t)
      PROVE  ExitingInv'
  <2>1. UNCHANGED <<mode, current>> /\ \A u \in Task : pc'[u] = "exiting" => pc[u] = "exiting"
    BY <1>0, <1>6 DEF Duty, LockTasks, AddProbe, AddTask, AddTaskBlind, Foreground, Background,
              WaitZombie,
              WaitLock, BackDead, BackAlive, BackLock, BackMark, FreeSon, Unpark, At, Goto,
              cpuVars
  <2> QED BY <1>1, <2>1
<1>7. ASSUME NEW c \in CPU, NEW t \in Task, Choice(c, t), ~ExitZombie(c, t)
      PROVE  ExitingInv'
  <2>1. UNCHANGED <<mode, current>> /\ \A u \in Task : pc'[u] = "exiting" => pc[u] = "exiting"
    BY <1>0, <1>7 DEF Choice, Create, SemPass, SemPark, SemSignal, At, Goto, cpuVars
  <2> QED BY <1>1, <2>1
<1>8. CASE UNCHANGED vars
  BY <1>1, <1>8 DEF vars
<1> QED BY <1>2, <1>3, <1>4, <1>5, <1>6, <1>7, <1>8 DEF Next

\* What holds until swapped.
Ordered == Base /\ LifeInv /\ ExitingInv

LEMMA LifeInvariant == Spec => [](TypeInv /\ (swapped \/ Ordered))
<1>1. Init => Ordered
  BY TypeInit, ExclInit, LifeInit DEF Base, Ordered
<1>2. Ordered /\ [Next]_vars /\ ~swapped' => Ordered'
  BY TypeStep, StackStep, LockStep, LifeStep, ExitingStep DEF Base, ExclInv, Ordered
<1>3. [Next]_vars /\ swapped => swapped'
  BY HistoryStays
<1> QED BY <1>1, <1>2, <1>3, TypeInvariant, PTL DEF Spec

\* A task is found under its pid from add_task (kmt.c:41) to exit (kmt.c:330), and
\* what the table holds is a task that lives, with the pid of its slot: add_task takes
\* a slot that is free (kmt.c:35), however often the slots were used before.
THEOREM TableAgrees == Spec => []TableExact
<1>1. Ordered => TableExact
  BY DEF Ordered, LifeInv, TableInv, TableExact, Gone
<1>2. swapped => TableExact
  BY DEF TableExact
<1> QED BY <1>1, <1>2, LifeInvariant, PTL

\* kmt_wait, run_back_cmd and kmt_context_clean free a task when neither a CPU, a
\* slot, a creator nor ctx_queue leads to it any more (kmt.c:148, 339).  A candidate
\* may still; that trylock then writes to freed memory is what swapped says.
THEOREM FreedIsUnreachable == Spec => []FreedUnreachable
<1>1. ASSUME Base, LifeInv PROVE FreedUnreachable
  <2> SUFFICES ASSUME NEW t \in Task, pc[t] = "free"
               PROVE  /\ \A c \in CPU : t \notin {stack[c], current[c], last[c]}
                      /\ \A n \in Slot : tasks[n] # t
                      /\ \A u \in Task : son[u] # t
                      /\ Occurrences(t) = {}
    BY DEF FreedUnreachable
  <2>1. t # NULL
    BY KmtAssumption
  <2>2. \A c \in CPU : t \notin {stack[c], current[c], last[c]}
    <3>1. \A c \in CPU : t # current[c] /\ t # last[c]
      BY <1>1 DEF Base, ExclInv, LockInv, FreeInv, Holds
    <3>2. \A c \in CPU : stack[c] \in {current[c], last[c]}
      BY <1>1 DEF Base, ExclInv, StackInv
    <3> QED BY <3>1, <3>2
  <2>3. \A n \in Slot : tasks[n] # t
    BY <1>1, <2>1 DEF LifeInv, TableInv, Gone
  <2>4. \A u \in Task : son[u] # t
    BY <1>1, <2>1 DEF LifeInv, SonsInv
  <2>5. Occurrences(t) = {}
    BY <1>1 DEF LifeInv, QueueInv, Occurrences
  <2> QED BY <2>2, <2>3, <2>4, <2>5
<1>2. swapped => FreedUnreachable
  BY DEF FreedUnreachable
<1>3. Ordered => FreedUnreachable
  BY <1>1 DEF Ordered
<1> QED BY <1>2, <1>3, LifeInvariant, PTL

-----------------------------------------------------------------------------
(* Every dead task has a reaper.  exit drops a task when ctx_queue is full     *)
(* (enqueue yields, and a zombie does not come back), so this needs a queue    *)
(* with room for the tasks there are besides the roots.                        *)

LEMMA QueueRoom ==
    ASSUME Base, LifeInv, IsFiniteSet(Task \ Root), Cardinality(Task \ Root) < PoolLen,
           NEW t \in Task, pc[t] = "exiting"
    PROVE  Len(ctxQueue) < PoolLen - 1
<1> DEFINE n == Len(ctxQueue)
           f == [i \in 1 .. n + 1 |-> IF i = n + 1 THEN t ELSE ctxQueue[i]]
<1>1. ctxQueue \in Seq(Task) /\ n \in Nat /\ PoolLen \in Nat
  BY KmtAssumption DEF Base, TypeInv, TypeOK
<1>2. t \in Task \ Root
  BY DEF LifeInv, WaitInv
<1>3. \A i \in 1 .. n : ctxQueue[i] \in Task \ Root /\ ctxQueue[i] # t
  BY <1>1 DEF LifeInv, QueueInv, WaitInv, Gone
<1>4. f \in [1 .. n + 1 -> Task \ Root]
  BY <1>1, <1>2, <1>3
<1>5. ~ \E i, j \in 1 .. n + 1 : i # j /\ f[i] = f[j]
  <2> SUFFICES ASSUME NEW i \in 1 .. n + 1, NEW j \in 1 .. n + 1, i # j, f[i] = f[j]
               PROVE  FALSE
    OBVIOUS
  <2>1. i = n + 1 => j \in 1 .. n
    BY <1>1
  <2>2. j = n + 1 => i \in 1 .. n
    BY <1>1
  <2>3. i # n + 1 /\ j # n + 1
    BY <2>1, <2>2, <1>3
  <2>4. i \in 1 .. n /\ j \in 1 .. n
    BY <2>3, <1>1
  <2> QED BY <2>3, <2>4 DEF LifeInv, QueueInv
<1>6. IsFiniteSet(1 .. n + 1) /\ Cardinality(1 .. n + 1) = n + 1
  <2>1. 1 \in Int /\ n + 1 \in Int
    BY <1>1
  <2> QED BY <2>1, <1>1, FS_Interval
<1> HIDE DEF n, f
<1>7. ~ (Cardinality(Task \ Root) < Cardinality(1 .. n + 1))
  <2> SUFFICES ASSUME Cardinality(Task \ Root) < Cardinality(1 .. n + 1) PROVE FALSE
    OBVIOUS
  <2> DEFINE S == 1 .. n + 1
             T == Task \ Root
  <2>2. IsFiniteSet(S) /\ IsFiniteSet(T) /\ Cardinality(T) < Cardinality(S) /\ f \in [S -> T]
    BY <1>4, <1>6
  <2> HIDE DEF S, T
  <2>3. \E x, y \in S : x # y /\ f[x] = f[y]
    BY <2>2, FS_PigeonHole
  <2>1. \E x, y \in 1 .. n + 1 : x # y /\ f[x] = f[y]
    BY <2>3 DEF S
  <2> QED BY <2>1, <1>5
<1>8. Cardinality(Task \ Root) \in Nat
  BY FS_CardinalityType
<1>9. n < PoolLen - 1
  BY <1>1, <1>6, <1>7, <1>8
<1> QED BY <1>9 DEF n

LEMMA QueuedStep ==
    ASSUME Base, LifeInv, QueuedInv, [Next]_vars,
           IsFiniteSet(Task \ Root), Cardinality(Task \ Root) < PoolLen
    PROVE  QueuedInv'
<1>0. /\ pc \in [Task -> Pc] /\ attr \in [Task -> SUBSET Flag] /\ ctxQueue \in Seq(Task)
      /\ \A t \in Task : pc[t] \in SonPc => son[t] \in Task
  BY DEF Base, TypeInv, TypeOK, SonInv
<1>1. CASE /\ ctxQueue' = ctxQueue
           /\ \A t \in Task : pc'[t] = "exited" => pc[t] = "exited"
           /\ \A t \in Task : pc'[t] = "exited" /\ "NOWAIT" \in attr'[t] => "NOWAIT" \in attr[t]
  BY <1>1 DEF QueuedInv
<1>2. ASSUME NEW c \in CPU,
             \/ \E irq \in {"save", "saveio"} : Trap(c, irq)
             \/ Save(c) \/ PickIdle(c) \/ TryBusy(c) \/ TryRun(c) \/ CleanNone(c)
             \/ \E n \in Slot : Pick(c, n)
             \/ \E t \in Task : SemPass(c, t) \/ AddProbe(c, t)
      PROVE  QueuedInv'
  BY <1>1, <1>2 DEF Trap, Save, PickIdle, TryBusy, TryRun, CleanNone, Resume, Pick, PickIf,
                    SemPass, AddProbe
<1>3. ASSUME NEW c \in CPU, Notify(c) \/ \E t \in Task : SemSignal(c, t) PROVE QueuedInv'
  <2>1. UNCHANGED <<ctxQueue, pc>> /\ kmt_sem_signal
    BY <1>3 DEF Notify, SemSignal
  <2>2. \A t \in Task : "NOWAIT" \in attr'[t] <=> "NOWAIT" \in attr[t]
    BY <2>1, SignalFlags DEF Base
  <2> QED BY <1>1, <2>1, <2>2
<1>4. ASSUME NEW c \in CPU, CleanBusy(c) \/ CleanFree(c) PROVE QueuedInv'
  BY <1>4, CleanBusyLife, CleanFreeLife
<1>5. ASSUME NEW c \in CPU, NEW t \in Task,
             \/ LockTasks(c, t) \/ Foreground(c, t) \/ Background(c, t) \/ WaitZombie(c, t)
             \/ BackAlive(c, t) \/ ParkYield(c, t) \/ Unpark(c, t) \/ AddTask(c, t)
             \/ WaitLock(c, t) \/ BackDead(c, t)
      PROVE  QueuedInv'
  <2>1. ctxQueue' = ctxQueue /\ attr' = attr
    BY <1>5 DEF LockTasks, Foreground, Background, WaitZombie, BackAlive, BackLock, ParkYield,
                Unpark, AddTask, AddTaskBlind, WaitLock, BackDead, FreeSon
  <2>2. \A u \in Task : pc'[u] = "exited" => pc[u] = "exited"
    BY <1>0, <1>5 DEF LockTasks, Foreground, Background, WaitZombie, BackAlive, BackLock,
                ParkYield, Unpark, AddTask, AddTaskBlind, WaitLock, BackDead, FreeSon, Goto
  <2> QED BY <1>1, <2>1, <2>2
<1>6. ASSUME NEW c \in CPU, NEW t \in Task,
             ExitZombie(c, t) \/ SemPark(c, t) \/ \E k \in Task : Create(c, t, k)
      PROVE  QueuedInv'
  <2>1. ctxQueue' = ctxQueue
    BY <1>6 DEF ExitZombie, SemPark, Create
  <2>2. /\ \A u \in Task : pc'[u] = "exited" => pc[u] = "exited"
        /\ \A u \in Task : "NOWAIT" \in attr'[u] => "NOWAIT" \in attr[u]
    BY <1>0, <1>6 DEF ExitZombie, SemPark, Create, Goto
  <2> QED BY <1>1, <2>1, <2>2
<1>7. ASSUME NEW c \in CPU, NEW t \in Task, BackMark(c, t) PROVE QueuedInv'
  <2> DEFINE k == son[t]
  <2>1. /\ pc[t] = "nowait"
        /\ attr' = [attr EXCEPT ![k] = @ \cup {"NOWAIT"}]
        /\ pc' = [pc EXCEPT ![t] = "work"] /\ ctxQueue' = ctxQueue
    BY <1>7 DEF BackMark, At, Goto
  <2>2. k \in Task /\ pc[k] # "exited"
    BY <1>0, <2>1 DEF LifeInv, DeadInv, SonPc
  <2> HIDE DEF k
  <2>3. \A u \in Task : pc'[u] = "exited" => pc[u] = "exited" /\ u # k
    BY <1>0, <2>1, <2>2
  <2>4. \A u \in Task : u # k => attr'[u] = attr[u]
    BY <1>0, <2>1
  <2> QED BY <1>1, <2>1, <2>3, <2>4
<1>8. ASSUME NEW c \in CPU, NEW t \in Task, ExitYield(c, t) PROVE QueuedInv'
  <2>1. /\ pc[t] = "exiting" /\ pc' = [pc EXCEPT ![t] = "exited"] /\ attr' = attr
        /\ ctxQueue' = IF "NOWAIT" \in attr[t] /\ Len(ctxQueue) < PoolLen - 1
                       THEN Append(ctxQueue, t) ELSE ctxQueue
    BY <1>8 DEF ExitYield, ExitAs, At, Goto
  <2>2. Len(ctxQueue) < PoolLen - 1
    BY <2>1, QueueRoom
  <2>3. \A u \in Task : pc'[u] = "exited" => u = t \/ pc[u] = "exited"
    BY <1>0, <2>1
  <2>4. CASE "NOWAIT" \notin attr[t]
    BY <2>1, <2>3, <2>4 DEF QueuedInv
  <2>5. CASE "NOWAIT" \in attr[t]
    <3>1. ctxQueue' = Append(ctxQueue, t)
      BY <2>1, <2>2, <2>5
    <3>2. /\ Len(ctxQueue') = Len(ctxQueue) + 1 /\ Len(ctxQueue) \in Nat
          /\ ctxQueue'[Len(ctxQueue) + 1] = t
          /\ \A i \in 1 .. Len(ctxQueue) : ctxQueue'[i] = ctxQueue[i]
      BY <1>0, <3>1
    <3> SUFFICES ASSUME NEW u \in Task, pc'[u] = "exited", "NOWAIT" \in attr[u]
                 PROVE  \E i \in 1 .. Len(ctxQueue') : ctxQueue'[i] = u
      BY <2>1 DEF QueuedInv
    <3>3. CASE u = t
      BY <3>2, <3>3
    <3>4. CASE u # t
      <4>1. PICK i \in 1 .. Len(ctxQueue) : ctxQueue[i] = u
        BY <2>3, <3>4 DEF QueuedInv
      <4> QED BY <4>1, <3>2
    <3> QED BY <3>3, <3>4
  <2> QED BY <2>4, <2>5
<1>9. CASE UNCHANGED vars
  BY <1>1, <1>9 DEF vars
<1> QED BY <1>2, <1>3, <1>4, <1>5, <1>6, <1>7, <1>8, <1>9, ZenonT(30)
        DEF Next, TrapStep, Duty, Choice

\* A task that exited has one reaper: its creator, in kmt_wait or run_back_cmd
\* (runcmd.c:118), or one entry of ctx_queue, if the queue has room.
THEOREM ReaperIsOne ==
    ASSUME IsFiniteSet(Task \ Root), Cardinality(Task \ Root) < PoolLen
    PROVE  Spec => []OneReaper
<1>1. Ordered /\ QueuedInv /\ [Next]_vars => QueuedInv'
  BY QueuedStep DEF Ordered
<1>2. ASSUME LifeInv, QueuedInv PROVE OneReaper
  <2> SUFFICES ASSUME NEW t \in Task
               PROVE  LET creators == {u \in Task : son[u] = t}
                      IN  /\ \A u, v \in creators : u = v
                          /\ \A i, j \in Occurrences(t) : i = j
                          /\ creators = {} \/ Occurrences(t) = {}
                          /\ pc[t] = "exited" => creators # {} \/ Occurrences(t) # {}
    BY DEF OneReaper
  <2> DEFINE creators == {u \in Task : son[u] = t}
  <2>1. \A u, v \in creators : u = v
    BY <1>2, KmtAssumption DEF LifeInv, SonsInv
  <2>2. \A i, j \in Occurrences(t) : i = j
    BY <1>2 DEF LifeInv, QueueInv, Occurrences
  <2>3. creators = {} \/ Occurrences(t) = {}
    BY <1>2 DEF LifeInv, QueueInv, WaitInv, Occurrences
  <2>4. ASSUME pc[t] = "exited" PROVE creators # {} \/ Occurrences(t) # {}
    <3>1. CASE "NOWAIT" \in attr[t]
      BY <1>2, <2>4, <3>1 DEF QueuedInv, Occurrences
    <3>2. CASE "NOWAIT" \notin attr[t]
      <4>1. t \notin Root
        BY <1>2, <2>4 DEF LifeInv, WaitInv, Gone
      <4> QED BY <1>2, <2>4, <3>2, <4>1 DEF LifeInv, WaitInv
    <3> QED BY <3>1, <3>2
  <2> QED BY <2>1, <2>2, <2>3, <2>4
<1>3. Init => QueuedInv
  BY LifeInit
<1>4. [Next]_vars /\ swapped => swapped'
  BY HistoryStays
<1>5. swapped \/ (Ordered /\ QueuedInv) => OneReaper
  BY <1>2 DEF Ordered, OneReaper
<1> QED BY <1>1, <1>3, <1>4, <1>5, LifeInvariant, PTL DEF Spec

-----------------------------------------------------------------------------
(* The lock task->running is held for a reason: no lock is left behind, which  *)
(* would keep its task from ever running, or from being freed.                 *)

\* The steps that take no lock and leave the holders alone.
LEMMA WhyKept ==
    ASSUME WhyInv,
           \A t \in Task : running'[t] => running[t],
           \A c \in CPU : current'[c] = current[c] /\ last'[c] = last[c],
           \A c \in CPU : mode[c] = "hung" => mode'[c] = "hung",
           \A c \in CPU : mode'[c] \in {"notify", "switch", "try"} =>
                              mode[c] \in {"notify", "switch", "try"},
           \A u \in Task : pc[u] = "nowait" =>
               (pc'[u] = "nowait" /\ son'[u] = son[u]) \/ ~running'[son[u]],
           \A t \in Task : pc[t] = "free" => pc'[t] = "free" \/ ~running'[t]
    PROVE  WhyInv'
<1>1. CurInv'
  BY DEF WhyInv, CurInv
<1>2. Hung => Hung'
  BY DEF Hung
<1>3. ASSUME NEW t \in Task, running'[t] PROVE Holder(t)' \/ Hung'
  <2>1. Holder(t) \/ Hung
    BY <1>3 DEF WhyInv
  <2>2. Holder(t) => Holder(t)'
    BY <1>3 DEF Holder
  <2> QED BY <1>2, <2>1, <2>2
<1> QED BY <1>1, <1>3 DEF WhyInv

LEMMA WhyTrap ==
    ASSUME Base, LifeInv, WhyInv, ~swapped', NEW c \in CPU,
           \/ \E irq \in {"save", "saveio"} : Trap(c, irq)
           \/ TrapStep(c)
           \/ \E n \in Slot : Pick(c, n)
    PROVE  WhyInv'
<1>0. /\ mode \in [CPU -> Mode]
      /\ current \in [CPU -> Task \cup {NULL}] /\ last \in [CPU -> Task \cup {NULL}]
      /\ running \in [Task -> BOOLEAN] /\ pc \in [Task -> Pc]
      /\ son \in [Task -> Task \cup {NULL}] /\ ctxQueue \in Seq(Task)
  BY DEF Base, TypeInv, TypeOK
<1>1. CASE \/ \E irq \in {"save", "saveio"} : Trap(c, irq)
           \/ Notify(c) \/ \E n \in Slot : Pick(c, n)
           \/ TryBusy(c) \/ CleanNone(c) \/ CleanBusy(c)
  <2>1. UNCHANGED <<running, current, last, pc, son>>
    BY <1>1 DEF Trap, Notify, Pick, PickIf, TryBusy, CleanNone, CleanBusy, Resume
  <2>2. /\ \A d \in CPU : mode[d] = "hung" => mode'[d] = "hung"
        /\ \A d \in CPU : mode'[d] \in {"notify", "switch", "try"} =>
                              mode[d] \in {"notify", "switch", "try"}
    BY <1>0, <1>1 DEF Trap, Notify, Pick, PickIf, TryBusy, CleanNone, CleanBusy, Resume
  <2> QED BY <2>1, <2>2, WhyKept
<1>2. CASE Save(c)
  <2>1. /\ mode[c] \in {"save", "saveio"} /\ mode'[c] \in {"switch", "notify"}
        /\ \A d \in CPU \ {c} : mode'[d] = mode[d] /\ last'[d] = last[d]
        /\ last'[c] = current[c]
        /\ UNCHANGED <<current, pc, son>>
    BY <1>0, <1>2 DEF Save
  <2>2. \A t \in Task : running'[t] => running[t] /\ (t = last[c] => t = current[c])
    BY <1>0, <1>2, KmtAssumption DEF Save
  <2>3. CurInv'
    BY <2>1 DEF WhyInv, CurInv
  <2>4. ASSUME NEW t \in Task, running'[t] PROVE Holder(t)' \/ Hung'
    <3>1. Holder(t) \/ Hung
      BY <2>2, <2>4 DEF WhyInv
    <3>2. Hung => Hung'
      BY <2>1 DEF Hung
    <3>3. Holder(t) => Holder(t)'
      BY <2>1, <2>2, <2>4 DEF Holder
    <3> QED BY <3>1, <3>2, <3>3
  <2> QED BY <2>3, <2>4 DEF WhyInv
<1>3. CASE PickIdle(c)
  <2>1. /\ mode[c] = "switch" /\ mode'[c] = "clean"
        /\ \A d \in CPU \ {c} : mode'[d] = mode[d] /\ current'[d] = current[d]
        /\ UNCHANGED <<last, pc, son, running>>
    BY <1>0, <1>3 DEF PickIdle
  <2>2. current[c] = last[c]
    BY <2>1 DEF WhyInv, CurInv
  <2>3. CurInv'
    BY <2>1 DEF WhyInv, CurInv
  <2>4. ASSUME NEW t \in Task, running'[t] PROVE Holder(t)' \/ Hung'
    <3>1. Holder(t) \/ Hung
      BY <2>1, <2>4 DEF WhyInv
    <3>2. Hung => Hung'
      BY <2>1 DEF Hung
    <3>3. Holder(t) => Holder(t)'
      BY <2>1, <2>2 DEF Holder
    <3> QED BY <3>1, <3>2, <3>3
  <2> QED BY <2>3, <2>4 DEF WhyInv
<1>4. CASE TryRun(c)
  <2>1. /\ mode[c] = "try" /\ mode'[c] \in {"clean", "hung"}
        /\ tasks[slot[c]] = NULL => mode'[c] = "hung"
        /\ \A d \in CPU \ {c} : mode'[d] = mode[d] /\ current'[d] = current[d]
        /\ current'[c] = tasks[slot[c]]
        /\ UNCHANGED <<last, pc, son>>
    BY <1>0, <1>4 DEF TryRun
  <2>2. /\ cand[c] \in Task
        /\ \A t \in Task : t # cand[c] => running'[t] = running[t]
    BY <1>0, <1>4, <2>1 DEF TryRun, Base, TypeInv, CandInv
  <2>3. current[c] = last[c] /\ tasks[slot[c]] \in {cand[c], NULL}
    BY <1>4, <2>1, SameTask DEF WhyInv, CurInv, Base
  <2>4. CurInv'
    BY <2>1 DEF WhyInv, CurInv
  <2>5. ASSUME NEW t \in Task, running'[t] PROVE Holder(t)' \/ Hung'
    <3>1. Hung => Hung'
      BY <2>1 DEF Hung
    <3>2. CASE t = cand[c]
      <4>1. tasks[slot[c]] = NULL => Hung'
        BY <2>1 DEF Hung
      <4>2. tasks[slot[c]] = t => Holder(t)'
        BY <2>1 DEF Holder
      <4> QED BY <2>3, <3>2, <4>1, <4>2
    <3>3. CASE t # cand[c]
      <4>1. Holder(t) \/ Hung
        BY <2>2, <2>5, <3>3 DEF WhyInv
      <4>2. Holder(t) => Holder(t)'
        BY <2>1, <2>3 DEF Holder
      <4> QED BY <3>1, <4>1, <4>2
    <3> QED BY <3>2, <3>3
  <2> QED BY <2>4, <2>5 DEF WhyInv
<1>5. CASE CleanFree(c)
  <2> DEFINE k == Head(ctxQueue)
  <2>1. /\ mode[c] = "clean" /\ mode'[c] = "run"
        /\ \A d \in CPU \ {c} : mode'[d] = mode[d]
        /\ UNCHANGED <<current, last, son>>
    BY <1>0, <1>5 DEF CleanFree, Resume
  <2>2. k \in Task /\ pc[k] = "exited"
    BY <1>0, <1>5 DEF CleanFree, LifeInv, QueueInv
  <2>3. /\ running' = [running EXCEPT ![k] = TRUE] /\ pc' = [pc EXCEPT ![k] = "free"]
    BY <1>5 DEF CleanFree
  <2> HIDE DEF k
  <2>4. /\ pc'[k] = "free"
        /\ \A t \in Task \ {k} : pc'[t] = pc[t] /\ running'[t] = running[t]
    BY <1>0, <2>2, <2>3
  <2>5. CurInv'
    BY <2>1 DEF WhyInv, CurInv
  <2>6. ASSUME NEW t \in Task, running'[t] PROVE Holder(t)' \/ Hung'
    <3>1. CASE t = k
      BY <2>4, <3>1 DEF Holder
    <3>2. CASE t # k
      <4>1. Holder(t) \/ Hung
        BY <2>4, <2>6, <3>2 DEF WhyInv
      <4>2. Hung => Hung'
        BY <2>1 DEF Hung
      <4>3. Holder(t) => Holder(t)'
        BY <2>1, <2>2, <2>4, <3>2 DEF Holder
      <4> QED BY <4>1, <4>2, <4>3
    <3> QED BY <3>1, <3>2
  <2> QED BY <2>5, <2>6 DEF WhyInv
<1> QED BY <1>1, <1>2, <1>3, <1>4, <1>5 DEF TrapStep

LEMMA WhyTask ==
    ASSUME Base, LifeInv, WhyInv, NEW c \in CPU, NEW t \in Task, Duty(c, t) \/ Choice(c, t)
    PROVE  WhyInv'
<1>0. /\ mode \in [CPU -> Mode] /\ running \in [Task -> BOOLEAN] /\ pc \in [Task -> Pc]
      /\ son \in [Task -> Task \cup {NULL}]
      /\ \A u \in Task : pc[u] \in SonPc => son[u] \in Task
  BY DEF Base, TypeInv, TypeOK, SonInv
<1>1. /\ UNCHANGED <<current, last>>
      /\ \A d \in CPU : mode[d] = "hung" => mode'[d] = "hung"
      /\ \A d \in CPU : mode'[d] \in {"notify", "switch", "try"} =>
                            mode[d] \in {"notify", "switch", "try"}
  <2>1. CASE ExitYield(c, t) \/ ParkYield(c, t)
    BY <1>0, <2>1 DEF ExitYield, ExitAs, ParkYield, At
  <2>2. CASE ~ExitYield(c, t) /\ ~ParkYield(c, t)
    <3>1. CASE Duty(c, t)
      BY <2>2, <3>1 DEF Duty, LockTasks, AddProbe, AddTask, AddTaskBlind, Foreground, Background,
         WaitZombie, WaitLock, BackDead, BackAlive, BackLock, BackMark, FreeSon, Unpark, cpuVars
    <3>2. CASE Choice(c, t)
      BY <3>2 DEF Choice, Create, ExitZombie, SemPass, SemPark, SemSignal, cpuVars
    <3> QED BY <3>1, <3>2
  <2> QED BY <2>1, <2>2
<1>2. CASE \/ LockTasks(c, t) \/ Foreground(c, t) \/ Background(c, t) \/ WaitZombie(c, t)
           \/ ExitYield(c, t) \/ ParkYield(c, t) \/ Unpark(c, t)
           \/ ExitZombie(c, t) \/ SemPass(c, t) \/ SemPark(c, t) \/ SemSignal(c, t)
           \/ AddProbe(c, t)
  <2>1. running' = running /\ son' = son /\ pc[t] \notin {"nowait", "free"}
    BY <1>2 DEF LockTasks, Foreground, Background, WaitZombie, ExitYield, ExitAs, ParkYield,
                Unpark, ExitZombie, SemPass, SemPark, SemSignal, AddProbe, At
  <2>2. \A u \in Task \ {t} : pc'[u] = pc[u]
    BY <1>0, <1>2 DEF LockTasks, Foreground, Background, WaitZombie, ExitYield, ExitAs,
                ParkYield, Unpark, ExitZombie, SemPass, SemPark, SemSignal, AddProbe, Goto
  <2> QED BY <1>1, <2>1, <2>2, WhyKept
<1>3. ASSUME NEW k \in Task, Create(c, t, k) PROVE WhyInv'
  <2>1. /\ pc[t] = "work" /\ pc[k] = "free"
        /\ ~running'[k]
        /\ \A u \in Task \ {k} : running'[u] = running[u]
        /\ \A u \in Task \ {t, k} : pc'[u] = pc[u]
        /\ \A u \in Task \ {t} : son'[u] = son[u]
    BY <1>0, <1>3 DEF Create, At
  <2> QED BY <1>1, <2>1, WhyKept
<1>4. CASE AddTask(c, t)
  <2>1. pc[t] = "adding" /\ running' = running /\ son' = son
    BY <1>4 DEF AddTask, AddTaskBlind, At
  <2>2. pc[son[t]] = "new"
    BY <2>1 DEF LifeInv, SonsInv
  <2>3. \A u \in Task \ {t, son[t]} : pc'[u] = pc[u]
    BY <1>0, <1>4 DEF AddTask, AddTaskBlind
  <2> QED BY <1>1, <2>1, <2>2, <2>3, WhyKept
<1>5. CASE BackMark(c, t)
  <2>1. /\ pc[t] = "nowait" /\ son[t] \in Task
        /\ ~running'[son[t]]
        /\ \A u \in Task \ {son[t]} : running'[u] = running[u]
        /\ \A u \in Task \ {t} : pc'[u] = pc[u] /\ son'[u] = son[u]
    BY <1>0, <1>5 DEF BackMark, At, Goto, SonPc
  <2>2. \A u \in Task : running'[u] => running[u]
    BY <2>1
  <2> QED BY <1>1, <2>1, <2>2, WhyKept
<1>6. CASE BackAlive(c, t)
  <2>1. /\ pc[t] = "backing" /\ pc'[t] = "nowait" /\ son' = son
        /\ \A u \in Task \ {son[t]} : running'[u] = running[u]
        /\ \A u \in Task \ {t} : pc'[u] = pc[u]
    BY <1>0, <1>6 DEF BackAlive, BackLock, At, Goto
  <2>2. CurInv'
    BY <1>1 DEF WhyInv, CurInv
  <2>3. ASSUME NEW u \in Task, running'[u] PROVE Holder(u)' \/ Hung'
    <3>1. CASE u = son[t]
      BY <2>1, <3>1 DEF Holder
    <3>2. CASE u # son[t]
      <4>1. Holder(u) \/ Hung
        BY <2>1, <2>3, <3>2 DEF WhyInv
      <4>2. Hung => Hung'
        BY <1>1 DEF Hung
      <4>3. Holder(u) => Holder(u)'
        BY <1>1, <2>1 DEF Holder
      <4> QED BY <4>1, <4>2, <4>3
    <3> QED BY <3>1, <3>2
  <2> QED BY <2>2, <2>3 DEF WhyInv
<1>7. CASE WaitLock(c, t) \/ BackDead(c, t)
  <2>1. pc[t] \in {"locking", "backing"} /\ FreeSon(t) /\ "ZOMBIE" \in attr[son[t]]
    BY <1>7 DEF WaitLock, BackDead, At, LifeInv, DeadInv
  <2>2. son[t] \in Task /\ pc[son[t]] \in {"exiting", "exited", "free"}
    BY <1>0, <2>1 DEF LifeInv, DeadInv, SonPc
  <2>3. /\ pc'[son[t]] = "free"
        /\ \A u \in Task \ {son[t]} : running'[u] = running[u]
        /\ \A u \in Task \ {t, son[t]} : pc'[u] = pc[u]
        /\ \A u \in Task \ {t} : son'[u] = son[u]
    BY <1>0, <2>1, <2>2 DEF FreeSon
  <2>4. CurInv'
    BY <1>1 DEF WhyInv, CurInv
  <2>5. ASSUME NEW u \in Task, running'[u] PROVE Holder(u)' \/ Hung'
    <3>1. CASE u = son[t]
      BY <2>3, <3>1 DEF Holder
    <3>2. CASE u # son[t]
      <4>1. Holder(u) \/ Hung
        BY <2>3, <2>5, <3>2 DEF WhyInv
      <4>2. Hung => Hung'
        BY <1>1 DEF Hung
      <4>3. Holder(u) => Holder(u)'
        BY <1>1, <2>1, <2>2, <2>3, <3>2 DEF Holder
      <4> QED BY <4>1, <4>2, <4>3
    <3> QED BY <3>1, <3>2
  <2> QED BY <2>4, <2>5 DEF WhyInv
<1> QED BY <1>2, <1>3, <1>4, <1>5, <1>6, <1>7 DEF Duty, Choice

\* task->running is held exactly while a CPU runs the task or has its stack, a creator
\* marks it, or it is freed memory (kmt.c:83, 118, 343; runcmd.c:121), until swapped.
THEOREM RunningIsExact == Spec => []RunningExact
<1>1. ASSUME Base, LifeInv, WhyInv, [Next]_vars, ~swapped' PROVE WhyInv'
  <2>1. CASE UNCHANGED vars
    <3>1. UNCHANGED <<mode, current, last, pc, son, running>>
      BY <2>1 DEF vars
    <3> QED BY <1>1, <3>1, WhyKept
  <2>2. ASSUME NEW c \in CPU,
               \/ \E irq \in {"save", "saveio"} : Trap(c, irq)
               \/ TrapStep(c)
               \/ \E n \in Slot : Pick(c, n)
        PROVE  WhyInv'
    BY <1>1, <2>2, WhyTrap
  <2>3. ASSUME NEW c \in CPU, NEW t \in Task, Duty(c, t) \/ Choice(c, t) PROVE WhyInv'
    BY <1>1, <2>3, WhyTask
  <2> QED BY <1>1, <2>1, <2>2, <2>3 DEF Next
<1>2. ASSUME Base, WhyInv PROVE RunningExact
  <2>1. \A t \in Task : Holder(t) => running[t]
    BY <1>2 DEF Holder, Base, ExclInv, LockInv, HeldInv, Holds, FreeInv, MarkInv
  <2>2. \A t \in Task : running[t] => Holder(t) \/ \E c \in CPU : mode[c] = "hung"
    BY <1>2 DEF WhyInv, Hung
  <2> QED BY <2>1, <2>2, Zenon DEF RunningExact, Holder
<1>3. Init => WhyInv
  BY LifeInit
<1>4. Ordered /\ WhyInv /\ [Next]_vars /\ ~swapped' => WhyInv'
  BY <1>1 DEF Ordered
<1>5. swapped \/ (Ordered /\ WhyInv) => RunningExact
  BY <1>2 DEF Ordered, RunningExact
<1>6. [Next]_vars /\ swapped => swapped'
  BY HistoryStays
<1> QED BY <1>3, <1>4, <1>5, <1>6, LifeInvariant, PTL DEF Spec

-----------------------------------------------------------------------------
(* The semaphore                                                               *)

\* The ring cannot hold a task twice, so this is room for every waiter.
RingHasRoom == IsFiniteSet(Task) /\ Cardinality(Task) < PoolLen

RingInv ==
    /\ RingLen = IF value < 0 THEN -value ELSE 0
    /\ \A i \in 1 .. RingLen : Ring[i] \in Task
    /\ \A i, j \in 1 .. RingLen : Ring[i] = Ring[j] => i = j
    /\ \A t \in Task : "SLEEP" \in attr[t] <=> \E i \in 1 .. RingLen : Ring[i] = t

\* A sleeper is in sem_wait.
SleepInv == \A t \in Task : "SLEEP" \in attr[t] => pc[t] \in {"parking", "parked"}

\* No CPU runs a task that is to sleep yet, nor is about to.
AwakeInv ==
    \A c \in CPU, t \in Task :
        mode[c] \in {"clean", "run"} /\ current[c] = t /\ pc[t] = "parked" =>
            "SLEEP" \notin attr[t]

SleepersInv == RingInv /\ SleepInv /\ AwakeInv

-----------------------------------------------------------------------------
(* The ring.                                                                 *)

LEMMA Modulo ==
    ASSUME NEW h \in 0 .. PoolLen - 1, NEW j \in 0 .. PoolLen - 1
    PROVE  (h + j) % PoolLen = IF h + j < PoolLen THEN h + j ELSE h + j - PoolLen
<1> QED BY KmtAssumption

RingShape ==
    /\ RingLen \in 0 .. PoolLen - 1
    /\ \A i \in 1 .. RingLen :
           Ring[i] = pool[IF head + i - 1 < PoolLen THEN head + i - 1
                                                    ELSE head + i - 1 - PoolLen]

LEMMA RingSlots == TypeOK => RingShape
<1> SUFFICES ASSUME TypeOK PROVE RingShape
  OBVIOUS
<1>1. PoolLen \in Nat /\ head \in 0 .. PoolLen - 1 /\ tail \in 0 .. PoolLen - 1
  BY KmtAssumption DEF TypeOK
<1>2. RingLen \in 0 .. PoolLen - 1
  BY <1>1 DEF RingLen
<1>3. ASSUME NEW i \in 1 .. RingLen
      PROVE  Ring[i] = pool[IF head + i - 1 < PoolLen THEN head + i - 1
                                                      ELSE head + i - 1 - PoolLen]
  <2>1. i - 1 \in 0 .. PoolLen - 1 /\ head + i - 1 = head + (i - 1)
    BY <1>1, <1>2
  <2>2. Ring[i] = pool[(head + i - 1) % PoolLen]
    BY DEF Ring
  <2> QED BY <1>1, <2>1, <2>2, Modulo
<1> QED BY <1>2, <1>3 DEF RingShape

LEMMA RingSlotsNext == TypeOK' => RingShape'
<1> QED BY RingSlots, PTL

\* A signal releases the task at the head of the ring, if there is one.
LEMMA Released ==
    ASSUME TypeOK, TypeOK', RingInv, kmt_sem_signal, value < 0
    PROVE  /\ RingLen >= 1 /\ RingLen' = RingLen - 1 /\ value' = value + 1
           /\ \A i \in 1 .. RingLen' : Ring'[i] = Ring[i + 1]
           /\ attr' = [attr EXCEPT ![Ring[1]] = @ \ {"SLEEP"}]
<1>1. /\ PoolLen \in Nat /\ head \in 0 .. PoolLen - 1 /\ tail \in 0 .. PoolLen - 1
      /\ value \in Int
  BY KmtAssumption DEF TypeOK
<1>2. value' = value + 1 /\ sem_remove_task /\ pool' = pool /\ tail' = tail
  BY <1>1 DEF kmt_sem_signal
<1>3. RingLen >= 1 /\ RingLen \in Nat
  BY <1>1, RingSlots DEF RingInv, RingShape
<1>4. head' = IF head + 1 >= PoolLen THEN head + 1 - PoolLen ELSE head + 1
  BY <1>2 DEF sem_remove_task, Wrap
<1>5. RingLen' = RingLen - 1
  BY <1>1, <1>2, <1>3, <1>4 DEF RingLen
<1>6. ASSUME NEW i \in 1 .. RingLen' PROVE Ring'[i] = Ring[i + 1]
  <2>1. Ring'[i] = pool'[IF head' + i - 1 < PoolLen THEN head' + i - 1
                                                    ELSE head' + i - 1 - PoolLen]
    BY RingSlotsNext DEF RingShape
  <2>2. i + 1 \in 1 .. RingLen
    BY <1>3, <1>5
  <2>3. Ring[i + 1] = pool[IF head + i < PoolLen THEN head + i ELSE head + i - PoolLen]
    BY <1>1, <2>2, RingSlots DEF RingShape
  <2>4. i \in 1 .. PoolLen - 1
    BY <1>1, <1>3, <1>5, RingSlots DEF RingShape
  <2> QED BY <1>1, <1>2, <1>4, <2>1, <2>3, <2>4
<1>7. Ring[1] = pool[head] /\ Ring[1] \in Task
  BY <1>1, <1>3, RingSlots DEF RingInv, RingShape
<1>8. attr' = [attr EXCEPT ![Ring[1]] = @ \ {"SLEEP"}]
  BY <1>2, <1>7, KmtAssumption DEF sem_remove_task
<1> QED BY <1>2, <1>3, <1>5, <1>6, <1>8

\* A signal nobody waits for is kept.
LEMMA Spared ==
    ASSUME TypeOK, RingInv, kmt_sem_signal, ~(value < 0)
    PROVE  value' = value + 1 /\ RingLen' = RingLen /\ Ring' = Ring /\ attr' = attr
           /\ RingLen = 0
<1>1. value \in Int
  BY DEF TypeOK
<1>2. value' = value + 1 /\ UNCHANGED <<attr, head, pool, tail>>
  BY <1>1 DEF kmt_sem_signal
<1> QED BY <1>1, <1>2 DEF RingLen, Ring, RingInv

\* A waiter joins the ring at its end.
LEMMA Joined ==
    ASSUME TypeOK, TypeOK', NEW t \in Task, RingLen < PoolLen - 1,
           pool' = [pool EXCEPT ![tail] = t], tail' = Wrap(tail), head' = head
    PROVE  /\ RingLen' = RingLen + 1
           /\ \A i \in 1 .. RingLen : Ring'[i] = Ring[i]
           /\ Ring'[RingLen + 1] = t
<1>1. /\ PoolLen \in Nat /\ head \in 0 .. PoolLen - 1 /\ tail \in 0 .. PoolLen - 1
      /\ pool \in [0 .. PoolLen - 1 -> Task \cup {NULL}]
  BY KmtAssumption DEF TypeOK
<1>2. tail' = IF tail + 1 >= PoolLen THEN tail + 1 - PoolLen ELSE tail + 1
  BY DEF Wrap
<1>3. RingLen \in 0 .. PoolLen - 1
  BY RingSlots DEF RingShape
<1>4. RingLen' = RingLen + 1
  BY <1>1, <1>2 DEF RingLen
<1>5. tail = IF head + RingLen < PoolLen THEN head + RingLen ELSE head + RingLen - PoolLen
  BY <1>1 DEF RingLen
<1>6. \A i \in 1 .. RingLen' :
          Ring'[i] = pool'[IF head' + i - 1 < PoolLen THEN head' + i - 1
                                                      ELSE head' + i - 1 - PoolLen]
  BY RingSlotsNext DEF RingShape
<1>7. pool'[tail] = t /\ \A m \in 0 .. PoolLen - 1 : m # tail => pool'[m] = pool[m]
  BY <1>1
<1>8. Ring'[RingLen + 1] = t
  <2>1. RingLen + 1 \in 1 .. RingLen'
    BY <1>3, <1>4
  <2> QED BY <1>1, <1>3, <1>5, <1>6, <1>7, <2>1
<1>9. ASSUME NEW i \in 1 .. RingLen PROVE Ring'[i] = Ring[i]
  <2> DEFINE m == IF head + i - 1 < PoolLen THEN head + i - 1 ELSE head + i - 1 - PoolLen
  <2>1. m \in 0 .. PoolLen - 1 /\ m # tail
    BY <1>1, <1>3, <1>5
  <2>2. Ring[i] = pool[m]
    BY RingSlots DEF RingShape
  <2>3. i \in 1 .. RingLen'
    BY <1>3, <1>4
  <2>4. Ring'[i] = pool'[m]
    BY <1>6, <2>3
  <2> QED BY <1>7, <2>1, <2>2, <2>4
<1> QED BY <1>4, <1>8, <1>9

-----------------------------------------------------------------------------
(* The steps.                                                                *)

LEMMA SignalRing ==
    ASSUME TypeOK, TypeOK', RingInv, kmt_sem_signal
    PROVE  RingInv' /\ \A t \in Task : "SLEEP" \in attr'[t] => "SLEEP" \in attr[t]
<1>0. value \in Int /\ attr \in [Task -> SUBSET Flag]
  BY DEF TypeOK
<1>1. CASE value < 0
  <2>1. /\ RingLen >= 1 /\ RingLen' = RingLen - 1 /\ value' = value + 1
        /\ \A i \in 1 .. RingLen' : Ring'[i] = Ring[i + 1]
        /\ attr' = [attr EXCEPT ![Ring[1]] = @ \ {"SLEEP"}]
    BY <1>1, Released
  <2>2. RingLen \in Nat /\ RingLen = -value
    BY <1>1, RingSlots, KmtAssumption DEF RingShape, RingInv
  <2>3. \A i \in 1 .. RingLen' : i + 1 \in 1 .. RingLen /\ i + 1 # 1
    BY <2>1, <2>2
  <2>4. 1 \in 1 .. RingLen /\ Ring[1] \in Task
    BY <2>1, <2>2 DEF RingInv
  <2>5. /\ "SLEEP" \notin attr'[Ring[1]]
        /\ \A t \in Task : t # Ring[1] => attr'[t] = attr[t]
    BY <1>0, <2>1, <2>4
  <2>6. RingLen' = IF value' < 0 THEN -value' ELSE 0
    BY <1>0, <1>1, <2>1, <2>2
  <2>7. /\ \A i \in 1 .. RingLen' : Ring'[i] \in Task
        /\ \A i, j \in 1 .. RingLen' : Ring'[i] = Ring'[j] => i = j
    <3>1. \A i \in 1 .. RingLen' : Ring'[i] \in Task
      BY <2>1, <2>3 DEF RingInv
    <3>2. ASSUME NEW i \in 1 .. RingLen', NEW j \in 1 .. RingLen', Ring'[i] = Ring'[j]
          PROVE  i = j
      <4>1. Ring[i + 1] = Ring[j + 1]
        BY <2>1, <3>2
      <4>2. i + 1 = j + 1
        BY <2>3, <4>1 DEF RingInv
      <4> QED BY <2>1, <2>2, <4>2
    <3> QED BY <3>1, <3>2
  <2>8. ASSUME NEW t \in Task
        PROVE  "SLEEP" \in attr'[t] <=> \E i \in 1 .. RingLen' : Ring'[i] = t
    <3>1. CASE t = Ring[1]
      BY <2>1, <2>3, <2>4, <2>5, <3>1 DEF RingInv
    <3>2. CASE t # Ring[1]
      <4>1. ASSUME NEW i \in 1 .. RingLen, Ring[i] = t
            PROVE  \E j \in 1 .. RingLen' : Ring'[j] = t
        <5>1. i - 1 \in 1 .. RingLen' /\ (i - 1) + 1 = i
          BY <2>1, <2>2, <3>2, <4>1
        <5> QED BY <2>1, <4>1, <5>1
      <4>2. ASSUME NEW j \in 1 .. RingLen', Ring'[j] = t
            PROVE  \E i \in 1 .. RingLen : Ring[i] = t
        BY <2>1, <2>3, <4>2
      <4>3. "SLEEP" \in attr[t] <=> \E i \in 1 .. RingLen : Ring[i] = t
        BY DEF RingInv
      <4> QED BY <2>5, <3>2, <4>1, <4>2, <4>3
    <3> QED BY <3>1, <3>2
  <2> QED BY <2>5, <2>6, <2>7, <2>8 DEF RingInv
<1>2. CASE ~(value < 0)
  <2>1. /\ value' = value + 1 /\ RingLen' = RingLen /\ Ring' = Ring /\ attr' = attr
        /\ RingLen = 0
    BY <1>2, Spared
  <2> QED BY <1>0, <1>2, <2>1 DEF RingInv
<1> QED BY <1>1, <1>2

\* The tasks of the ring and one more are tasks.
LEMMA RingRoom ==
    ASSUME TypeOK, RingInv, RingHasRoom,
           NEW t \in Task, \A i \in 1 .. RingLen : Ring[i] # t
    PROVE  RingLen < PoolLen - 1
<1> DEFINE n == RingLen
           f == [i \in 1 .. n + 1 |-> IF i = n + 1 THEN t ELSE Ring[i]]
<1>1. n \in Nat /\ PoolLen \in Nat
  BY RingSlots, KmtAssumption DEF RingShape
<1>2. \A i \in 1 .. n : Ring[i] \in Task /\ Ring[i] # t
  BY DEF RingInv
<1>3. f \in [1 .. n + 1 -> Task]
  BY <1>1, <1>2
<1>4. ~ \E i, j \in 1 .. n + 1 : i # j /\ f[i] = f[j]
  <2> SUFFICES ASSUME NEW i \in 1 .. n + 1, NEW j \in 1 .. n + 1, i # j, f[i] = f[j]
               PROVE  FALSE
    OBVIOUS
  <2>1. i = n + 1 => j \in 1 .. n
    BY <1>1
  <2>2. j = n + 1 => i \in 1 .. n
    BY <1>1
  <2>3. i # n + 1 /\ j # n + 1
    BY <2>1, <2>2, <1>2
  <2>4. i \in 1 .. n /\ j \in 1 .. n
    BY <2>3, <1>1
  <2> QED BY <2>3, <2>4 DEF RingInv
<1>5. IsFiniteSet(1 .. n + 1) /\ Cardinality(1 .. n + 1) = n + 1
  <2>1. 1 \in Int /\ n + 1 \in Int
    BY <1>1
  <2> QED BY <2>1, <1>1, FS_Interval
<1> HIDE DEF n, f
<1>6. ~ (Cardinality(Task) < Cardinality(1 .. n + 1))
  <2> SUFFICES ASSUME Cardinality(Task) < Cardinality(1 .. n + 1) PROVE FALSE
    OBVIOUS
  <2>1. \E x, y \in 1 .. n + 1 : x # y /\ f[x] = f[y]
    BY <1>3, <1>5, FS_PigeonHole DEF RingHasRoom
  <2> QED BY <2>1, <1>4
<1>7. Cardinality(Task) \in Nat
  BY FS_CardinalityType DEF RingHasRoom
<1>8. n < PoolLen - 1
  BY <1>1, <1>5, <1>6, <1>7 DEF RingHasRoom
<1> QED BY <1>8 DEF n

LEMMA ParkRing ==
    ASSUME TypeOK, TypeOK', RingInv, SleepInv, RingHasRoom,
           NEW c \in CPU, NEW t \in Task, SemPark(c, t)
    PROVE  /\ RingInv' /\ RingLen' = RingLen + 1
           /\ \A i \in 1 .. RingLen : Ring'[i] = Ring[i]
           /\ Ring'[RingLen + 1] = t
<1>0. value \in Int /\ attr \in [Task -> SUBSET Flag] /\ RingLen \in Nat
  BY RingSlots, KmtAssumption DEF TypeOK, RingShape
<1>1. /\ pc[t] = "work" /\ value <= 0 /\ value' = value - 1
      /\ pool' = [pool EXCEPT ![tail] = t] /\ tail' = Wrap(tail) /\ head' = head
      /\ attr' = [attr EXCEPT ![t] = @ \cup {"SLEEP"}]
  BY DEF SemPark, At
<1>2. "SLEEP" \notin attr[t]
  BY <1>1 DEF SleepInv
<1>3. \A i \in 1 .. RingLen : Ring[i] # t
  BY <1>2 DEF RingInv
<1>4. RingLen < PoolLen - 1
  BY <1>3, RingRoom
<1>5. /\ RingLen' = RingLen + 1
      /\ \A i \in 1 .. RingLen : Ring'[i] = Ring[i]
      /\ Ring'[RingLen + 1] = t
  BY <1>1, <1>4, Joined
<1>6. \A i \in 1 .. RingLen' : i \in 1 .. RingLen \/ i = RingLen + 1
  BY <1>0, <1>5
<1>7. \A i \in 1 .. RingLen : i \in 1 .. RingLen'
  BY <1>0, <1>5
<1>8. RingLen + 1 \in 1 .. RingLen'
  BY <1>0, <1>5
<1>9. RingLen' = IF value' < 0 THEN -value' ELSE 0
  BY <1>0, <1>1, <1>5 DEF RingInv
<1>10. \A i \in 1 .. RingLen' : Ring'[i] \in Task
  BY <1>5, <1>6 DEF RingInv
<1>11. ASSUME NEW i \in 1 .. RingLen', NEW j \in 1 .. RingLen', Ring'[i] = Ring'[j]
       PROVE  i = j
  <2>1. CASE i = RingLen + 1
    BY <1>3, <1>5, <1>6, <1>11, <2>1
  <2>2. CASE i \in 1 .. RingLen
    BY <1>3, <1>5, <1>6, <1>11, <2>2 DEF RingInv
  <2> QED BY <1>6, <2>1, <2>2
<1>12. ASSUME NEW u \in Task
       PROVE  "SLEEP" \in attr'[u] <=> \E i \in 1 .. RingLen' : Ring'[i] = u
  <2>1. CASE u = t
    BY <1>0, <1>1, <1>5, <1>8, <2>1
  <2>2. CASE u # t
    <3>1. "SLEEP" \in attr'[u] <=> "SLEEP" \in attr[u]
      BY <1>0, <1>1, <2>2
    <3>2. (\E i \in 1 .. RingLen' : Ring'[i] = u) <=> \E i \in 1 .. RingLen : Ring[i] = u
      BY <1>5, <1>6, <1>7, <2>2
    <3> QED BY <3>1, <3>2 DEF RingInv
  <2> QED BY <2>1, <2>2
<1> QED BY <1>5, <1>9, <1>10, <1>11, <1>12 DEF RingInv

\* The steps that leave the ring and who sleeps alone.
LEMMA SameRing ==
    ASSUME RingInv, UNCHANGED semVars,
           \A t \in Task : "SLEEP" \in attr'[t] <=> "SLEEP" \in attr[t]
    PROVE  RingInv'
<1>1. UNCHANGED <<value, pool, head, tail>>
  BY DEF semVars
<1>2. RingLen' = RingLen /\ Ring' = Ring
  BY <1>1 DEF RingLen, Ring
<1> QED BY <1>1, <1>2 DEF RingInv

\* The steps of a CPU that put nobody to sleep and lead into no sleeper.
LEMMA SameSleepers ==
    ASSUME Base, SleepInv, AwakeInv, NEW c \in CPU,
           \A t \in Task : "SLEEP" \in attr'[t] => "SLEEP" \in attr[t],
           \A t \in Task : \/ pc'[t] = pc[t] \/ "SLEEP" \notin attr[t]
                           \/ pc[t] = "parking" /\ pc'[t] = "parked",
           \A d \in CPU \ {c} : mode'[d] = mode[d] /\ current'[d] = current[d],
           mode'[c] \in {"clean", "run"} =>
               /\ mode[c] \in {"clean", "run"} /\ current'[c] = current[c]
               /\ \A t \in Task : pc'[t] = "parked" => pc[t] = "parked",
           \A t \in Task : pc'[t] = "parked" /\ pc[t] # "parked" => current[c] = t
    PROVE  SleepInv' /\ AwakeInv'
<1>1. SleepInv'
  BY DEF SleepInv
<1>2. \A t \in Task :
          mode'[c] \in {"clean", "run"} /\ current'[c] = t /\ pc'[t] = "parked" =>
              "SLEEP" \notin attr'[t]
  BY DEF AwakeInv
<1>3. ASSUME NEW d \in CPU \ {c}, NEW t \in Task,
             mode'[d] \in {"clean", "run"}, current'[d] = t, pc'[t] = "parked"
      PROVE  "SLEEP" \notin attr'[t]
  <2>1. current[c] # t
    BY <1>3 DEF Base, ExclInv, LockInv, OneHolder, Holds
  <2>2. pc[t] = "parked"
    BY <1>3, <2>1
  <2> QED BY <1>3, <2>2 DEF AwakeInv
<1> QED BY <1>1, <1>2, <1>3 DEF AwakeInv

LEMMA SleepersTrap ==
    ASSUME Base, TypeInv', LifeInv, SleepersInv, ~swapped', ~late', NEW c \in CPU,
           \/ \E irq \in {"save", "saveio"} : Trap(c, irq)
           \/ TrapStep(c)
           \/ \E n \in Slot : Pick(c, n)
    PROVE  SleepersInv'
<1> USE DEF SleepersInv
<1>0. /\ mode \in [CPU -> Mode] /\ cand \in [CPU -> Task \cup {NULL}]
      /\ current \in [CPU -> Task \cup {NULL}] /\ pc \in [Task -> Pc]
      /\ attr \in [Task -> SUBSET Flag] /\ ctxQueue \in Seq(Task)
  BY DEF Base, TypeInv, TypeOK
<1>oth. \A d \in CPU \ {c} : mode'[d] = mode[d] /\ current'[d] = current[d]
  BY <1>0 DEF TrapStep, Trap, Save, Notify, PickIdle, TryBusy, TryRun, CleanNone, CleanBusy,
              CleanFree, Resume, Pick, PickIf
<1>1. CASE \/ \E irq \in {"save", "saveio"} : Trap(c, irq)
           \/ Save(c) \/ TryBusy(c) \/ CleanNone(c) \/ CleanBusy(c)
  <2>1. UNCHANGED <<pc, attr>> /\ UNCHANGED semVars
    BY <1>1 DEF Trap, Save, TryBusy, CleanNone, CleanBusy, Resume
  <2>2. mode'[c] \in {"clean", "run"} =>
            mode[c] = "clean" /\ current'[c] = current[c]
    BY <1>0, <1>1 DEF Trap, Save, TryBusy, CleanNone, CleanBusy, Resume
  <2>3. RingInv'
    BY <2>1, SameRing
  <2> QED BY <1>oth, <2>1, <2>2, <2>3, SameSleepers
<1>2. CASE Notify(c)
  <2>1. kmt_sem_signal /\ mode'[c] = "switch" /\ pc' = pc
    BY <1>0, <1>2 DEF Notify
  <2>2. RingInv' /\ \A t \in Task : "SLEEP" \in attr'[t] => "SLEEP" \in attr[t]
    BY <2>1, SignalRing DEF Base, TypeInv
  <2> QED BY <1>oth, <2>1, <2>2, SameSleepers
<1>3. ASSUME NEW n \in Slot, Pick(c, n) PROVE SleepersInv'
  <2>1. UNCHANGED <<pc, attr>> /\ UNCHANGED semVars /\ mode'[c] = "try"
    BY <1>0, <1>3 DEF Pick, PickIf
  <2>2. RingInv'
    BY <2>1, SameRing
  <2> QED BY <1>oth, <2>1, <2>2, SameSleepers
<1>4. CASE PickIdle(c)
  <2>1. /\ UNCHANGED <<pc, attr>> /\ UNCHANGED semVars
        /\ mode'[c] = "clean" /\ current'[c] = NULL
    BY <1>0, <1>4 DEF PickIdle
  <2>2. RingInv' /\ SleepInv'
    BY <2>1, SameRing DEF SleepInv
  <2>4. AwakeInv'
    BY <1>oth, <2>1, KmtAssumption DEF AwakeInv
  <2> QED BY <2>2, <2>4
<1>5. CASE TryRun(c)
  <2>1. /\ UNCHANGED <<pc, attr>> /\ UNCHANGED semVars
        /\ mode[c] = "try" /\ mode'[c] \in {"clean", "hung"}
        /\ current'[c] = tasks[slot[c]]
        /\ tasks[slot[c]] # NULL => "SLEEP" \notin attr[tasks[slot[c]]]
    BY <1>0, <1>5 DEF TryRun
  <2>3. RingInv' /\ SleepInv'
    BY <2>1, SameRing DEF SleepInv
  <2>5. AwakeInv'
    BY <1>oth, <2>1, KmtAssumption DEF AwakeInv
  <2> QED BY <2>3, <2>5
<1>6. CASE CleanFree(c)
  <2> DEFINE k == Head(ctxQueue)
  <2>1. /\ attr' = attr /\ UNCHANGED semVars
        /\ mode[c] = "clean" /\ mode'[c] = "run" /\ current'[c] = current[c]
    BY <1>0, <1>6 DEF CleanFree, Resume
  <2>2. k \in Task /\ pc[k] = "exited"
    BY <1>0, <1>6 DEF CleanFree, LifeInv, QueueInv
  <2>3. pc' = [pc EXCEPT ![k] = "free"]
    BY <1>6 DEF CleanFree
  <2> HIDE DEF k
  <2>4. \A t \in Task : \/ pc'[t] = pc[t]
                        \/ pc[t] = "exited" /\ pc'[t] = "free"
    BY <1>0, <2>2, <2>3
  <2>5. RingInv'
    BY <2>1, SameRing
  <2>6. \A t \in Task : pc'[t] = pc[t] \/ "SLEEP" \notin attr[t]
    BY <2>4 DEF SleepInv
  <2> QED BY <1>oth, <2>1, <2>4, <2>5, <2>6, SameSleepers
<1> QED BY <1>1, <1>2, <1>3, <1>4, <1>5, <1>6 DEF TrapStep

LEMMA SleepersTask ==
    ASSUME Base, TypeInv', LifeInv, RingHasRoom, SleepersInv,
           NEW c \in CPU, NEW t \in Task, Duty(c, t) \/ Choice(c, t)
    PROVE  SleepersInv'
<1> USE DEF SleepersInv
<1>0. /\ mode \in [CPU -> Mode] /\ pc \in [Task -> Pc] /\ attr \in [Task -> SUBSET Flag]
      /\ value \in Int /\ \A u \in Task : pc[u] \in SonPc => son[u] \in Task
  BY DEF Base, TypeInv, TypeOK, SonInv
<1>1. /\ mode[c] = "run" /\ current' = current /\ current[c] = t
      /\ mode' = mode \/ mode'[c] = "save"
      /\ \A d \in CPU \ {c} : mode'[d] = mode[d]
  <2>1. CASE ExitYield(c, t) \/ ParkYield(c, t)
    BY <1>0, <2>1 DEF ExitYield, ExitAs, ParkYield, At
  <2>2. CASE ~ExitYield(c, t) /\ ~ParkYield(c, t)
    <3>1. CASE Duty(c, t)
      BY <2>2, <3>1 DEF Duty, LockTasks, AddProbe, AddTask, AddTaskBlind, Foreground,
         Background, At, WaitZombie, WaitLock, BackDead, BackAlive, BackLock, BackMark,
        FreeSon, Unpark, cpuVars
    <3>2. CASE Choice(c, t)
      BY <3>2 DEF Choice, Create, ExitZombie, SemPass, SemPark, SemSignal, cpuVars, At
    <3> QED BY <3>1, <3>2
  <2> QED BY <2>1, <2>2
<1>2. mode'[c] \in {"clean", "run"} => mode'[c] = "run"
  BY <1>1
<1>3. CASE \/ LockTasks(c, t) \/ Foreground(c, t) \/ Background(c, t) \/ WaitZombie(c, t)
           \/ BackAlive(c, t) \/ Unpark(c, t) \/ ExitYield(c, t) \/ ParkYield(c, t)
           \/ AddProbe(c, t)
  <2>1. attr' = attr /\ UNCHANGED semVars
    BY <1>3 DEF AddProbe, LockTasks, Foreground, Background, WaitZombie, BackAlive, BackLock,
                Unpark, ExitYield, ExitAs, ParkYield
  <2>2. /\ \A u \in Task \ {t} : pc'[u] = pc[u]
        /\ pc[t] # "parking" => "SLEEP" \notin attr[t]
        /\ pc[t] = "parking" => pc'[t] = "parked" /\ mode'[c] = "save"
        /\ pc[t] # "parking" => pc'[t] # "parked"
    <3>1. pc[t] # "parking" => "SLEEP" \notin attr[t]
      BY <1>1 DEF SleepInv, AwakeInv
    <3>2. CASE ParkYield(c, t)
      BY <1>0, <3>1, <3>2 DEF ParkYield, At, Goto
    <3>3. CASE Unpark(c, t)
      BY <1>0, <3>1, <3>3 DEF Unpark, At, Goto
    <3>4. CASE ExitYield(c, t)
      BY <1>0, <3>1, <3>4 DEF ExitYield, ExitAs, At, Goto
    <3>5. CASE LockTasks(c, t) \/ Foreground(c, t) \/ Background(c, t)
      BY <1>0, <3>1, <3>5 DEF LockTasks, Foreground, Background, At, Goto
    <3>6. CASE WaitZombie(c, t) \/ BackAlive(c, t)
      BY <1>0, <3>1, <3>6 DEF WaitZombie, BackAlive, BackLock, At, Goto
    <3>7. CASE AddProbe(c, t)
      BY <1>0, <3>1, <3>7 DEF AddProbe, At
    <3> QED BY <1>3, <3>2, <3>3, <3>4, <3>5, <3>6, <3>7
  <2>3. RingInv'
    BY <2>1, SameRing
  <2>4. \A u \in Task : \/ pc'[u] = pc[u] \/ "SLEEP" \notin attr[u]
                        \/ pc[u] = "parking" /\ pc'[u] = "parked"
    BY <2>2
  <2>5. mode'[c] = "run" => \A u \in Task : pc'[u] = "parked" => pc[u] = "parked"
    BY <2>2
  <2>6. \A u \in Task : pc'[u] = "parked" /\ pc[u] # "parked" => current[c] = u
    BY <1>1, <2>2
  <2> QED BY <1>1, <1>2, <2>1, <2>3, <2>4, <2>5, <2>6, SameSleepers
<1>4. ASSUME NEW k \in Task, Create(c, t, k) PROVE SleepersInv'
  <2>1. /\ pc[t] = "work" /\ pc[k] = "free" /\ UNCHANGED semVars
        /\ attr' = [attr EXCEPT ![k] = {}]
        /\ pc' = [pc EXCEPT ![t] = "add", ![k] = "new"]
    BY <1>4 DEF Create, At
  <2>2. "SLEEP" \notin attr[t] /\ "SLEEP" \notin attr[k]
    BY <2>1 DEF SleepInv
  <2>3. \A u \in Task : "SLEEP" \in attr'[u] <=> "SLEEP" \in attr[u]
    BY <1>0, <2>1, <2>2
  <2>4. /\ \A u \in Task \ {t, k} : pc'[u] = pc[u]
        /\ pc'[t] # "parked" /\ pc'[k] # "parked"
    BY <1>0, <2>1
  <2>5. RingInv'
    BY <2>1, <2>3, SameRing
  <2>6. \A u \in Task : pc'[u] = pc[u] \/ "SLEEP" \notin attr[u]
    BY <2>2, <2>4
  <2>7. \A u \in Task : pc'[u] = "parked" => pc[u] = "parked"
    BY <2>4
  <2> QED BY <1>1, <1>2, <2>3, <2>5, <2>6, <2>7, SameSleepers
<1>5. CASE AddTask(c, t) \/ WaitLock(c, t) \/ BackDead(c, t)
  <2>1. /\ attr' = attr /\ UNCHANGED semVars
        /\ pc[t] \in {"adding", "locking", "backing"}
        /\ pc[t] = "adding" => AddTask(c, t)
        /\ pc[t] # "adding" => FreeSon(t) /\ "ZOMBIE" \in attr[son[t]]
    BY <1>5 DEF AddTask, AddTaskBlind, WaitLock, BackDead, FreeSon, At, LifeInv, DeadInv
  <2>2. son[t] \in Task
    BY <1>0, <2>1 DEF SonPc
  <2>3. pc[son[t]] \in {"new", "exiting", "exited", "free"}
    BY <2>1, <2>2 DEF LifeInv, SonsInv, DeadInv
  <2>4. /\ \A u \in Task \ {t, son[t]} : pc'[u] = pc[u]
        /\ pc'[t] # "parked" /\ pc'[son[t]] # "parked"
    <3>1. CASE pc[t] = "adding"
      BY <1>0, <2>1, <2>2, <3>1 DEF AddTask, AddTaskBlind
    <3>2. CASE pc[t] # "adding"
      BY <1>0, <2>1, <2>2, <3>2 DEF FreeSon
    <3> QED BY <3>1, <3>2
  <2>5. RingInv'
    BY <2>1, SameRing
  <2>6. \A u \in Task : pc'[u] = pc[u] \/ "SLEEP" \notin attr[u]
    BY <2>1, <2>3, <2>4 DEF SleepInv
  <2>7. \A u \in Task : pc'[u] = "parked" => pc[u] = "parked"
    BY <2>4
  <2> QED BY <1>1, <1>2, <2>1, <2>5, <2>6, <2>7, SameSleepers
<1>6. CASE BackMark(c, t) \/ ExitZombie(c, t)
  <2>1. pc[t] \in {"nowait", "work"} /\ UNCHANGED semVars
    BY <1>6 DEF BackMark, ExitZombie, At
  <2>2. \A u \in Task : "SLEEP" \in attr'[u] <=> "SLEEP" \in attr[u]
    BY <1>0, <1>6 DEF BackMark, ExitZombie
  <2>3. /\ \A u \in Task \ {t} : pc'[u] = pc[u]
        /\ pc'[t] # "parked"
    BY <1>0, <1>6 DEF BackMark, ExitZombie, Goto
  <2>4. RingInv'
    BY <2>1, <2>2, SameRing
  <2>5. \A u \in Task : pc'[u] = pc[u] \/ "SLEEP" \notin attr[u]
    BY <2>1, <2>3 DEF SleepInv
  <2>6. \A u \in Task : pc'[u] = "parked" => pc[u] = "parked"
    BY <2>3
  <2> QED BY <1>1, <1>2, <2>2, <2>4, <2>5, <2>6, SameSleepers
<1>7. CASE SemPass(c, t)
  <2>1. value > 0 /\ value' = value - 1 /\ UNCHANGED <<attr, pc, pool, head, tail>>
    BY <1>7 DEF SemPass
  <2>2. RingLen' = RingLen /\ Ring' = Ring
    BY <2>1 DEF RingLen, Ring
  <2>3. RingInv'
    BY <1>0, <2>1, <2>2 DEF RingInv
  <2> QED BY <1>1, <1>2, <2>1, <2>3, SameSleepers
<1>8. CASE SemSignal(c, t)
  <2>1. kmt_sem_signal /\ pc' = pc
    BY <1>8 DEF SemSignal
  <2>2. RingInv' /\ \A u \in Task : "SLEEP" \in attr'[u] => "SLEEP" \in attr[u]
    BY <2>1, SignalRing DEF Base, TypeInv
  <2> QED BY <1>1, <1>2, <2>1, <2>2, SameSleepers
<1>9. CASE SemPark(c, t)
  <2>1. /\ attr' = [attr EXCEPT ![t] = @ \cup {"SLEEP"}]
        /\ pc' = [pc EXCEPT ![t] = "parking"] /\ mode' = mode
    BY <1>9 DEF SemPark, Goto, cpuVars
  <2>2. RingInv'
    BY <1>9, ParkRing DEF Base, TypeInv
  <2>3. /\ pc'[t] = "parking"
        /\ \A u \in Task \ {t} : pc'[u] = pc[u] /\ attr'[u] = attr[u]
    BY <1>0, <2>1
  <2>4. SleepInv'
    BY <2>3 DEF SleepInv
  <2>6. AwakeInv'
    BY <1>1, <2>1, <2>3 DEF AwakeInv
  <2> QED BY <2>2, <2>4, <2>6
<1> QED BY <1>3, <1>4, <1>5, <1>6, <1>7, <1>8, <1>9 DEF Duty, Choice

LEMMA SleepersInit == Init => SleepersInv
<1> SUFFICES ASSUME Init PROVE SleepersInv
  OBVIOUS
<1>1. RingLen = 0 /\ value = 0 /\ \A t \in Task : attr[t] = {}
  BY DEF Init, RingLen
<1>2. RingInv
  BY <1>1 DEF RingInv
<1>3. SleepInv /\ AwakeInv
  BY <1>1, KmtAssumption DEF Init, SleepInv, AwakeInv
<1> QED BY <1>2, <1>3 DEF SleepersInv

LEMMA SleepersStep ==
    ASSUME RingHasRoom, Base, TypeInv', LifeInv, SleepersInv, [Next]_vars, ~swapped', ~late'
    PROVE  SleepersInv'
<1>1. CASE UNCHANGED vars
  <2>1. UNCHANGED <<mode, current, cand, pc, attr>> /\ UNCHANGED semVars
    BY <1>1 DEF vars, semVars
  <2>2. RingInv'
    BY <2>1, SameRing DEF SleepersInv
  <2> QED BY <2>1, <2>2 DEF SleepersInv, SleepInv, AwakeInv
<1>3. ASSUME NEW c \in CPU,
             \/ \E irq \in {"save", "saveio"} : Trap(c, irq)
             \/ TrapStep(c)
             \/ \E n \in Slot : Pick(c, n)
      PROVE  SleepersInv'
  BY <1>3, SleepersTrap
<1>4. ASSUME NEW c \in CPU, NEW t \in Task, Duty(c, t) \/ Choice(c, t)
      PROVE  SleepersInv'
  BY <1>4, SleepersTask
<1> QED BY <1>1, <1>3, <1>4 DEF Next

LEMMA SleepersInvariant ==
    ASSUME RingHasRoom
    PROVE  Spec => [](TypeInv /\ (swapped \/ late \/ (Ordered /\ SleepersInv)))
<1>1. Ordered /\ TypeInv' /\ SleepersInv /\ [Next]_vars /\ ~swapped' /\ ~late' => SleepersInv'
  BY SleepersStep DEF Ordered
<1>2. Init => SleepersInv
  BY SleepersInit
<1>3. [Next]_vars => (swapped => swapped') /\ (late => late')
  BY HistoryStays
<1> QED BY <1>1, <1>2, <1>3, LifeInvariant, PTL DEF Spec

-----------------------------------------------------------------------------
\* The semaphore's value counts the tasks in its ring and exactly those sleep
\* (sem_add_task, sem_remove_task; kmt.c), until a CPU runs a sleeper.
THEOREM SemaphoreExact ==
    ASSUME RingHasRoom
    PROVE  Spec => []SemExact
<1>1. swapped \/ late \/ (Ordered /\ SleepersInv) => SemExact
  BY DEF SleepersInv, RingInv, SemExact
<1> QED BY <1>1, SleepersInvariant, PTL

-----------------------------------------------------------------------------
(* The refinement.                                                           *)

RingIsSeq == Ring \in Seq(Task) /\ Len(Ring) = RingLen /\ DOMAIN Ring = 1 .. RingLen

LEMMA RingSeq == TypeOK /\ RingInv => RingIsSeq
<1> SUFFICES ASSUME TypeOK, RingInv PROVE RingIsSeq
  OBVIOUS
<1>1. RingLen \in Nat
  BY RingSlots, KmtAssumption DEF RingShape
<1>2. Ring \in [1 .. RingLen -> Task]
  BY DEF Ring, RingInv
<1> QED BY <1>1, <1>2 DEF RingIsSeq

LEMMA RingSeqNext == TypeOK' /\ RingInv' => RingIsSeq'
<1> QED BY RingSeq, PTL

LEMMA SignalMaps ==
    ASSUME TypeOK, TypeOK', RingInv, kmt_sem_signal, pc' = pc
    PROVE  Sem!Signal
<1>0. waiting' = waiting
  BY DEF waiting
<1>1. RingInv'
  BY SignalRing
<1>2. /\ Ring \in Seq(Task) /\ Len(Ring) = RingLen
      /\ Ring' \in Seq(Task) /\ Len(Ring') = RingLen'
  BY <1>1, RingSeq, RingSeqNext DEF RingIsSeq
<1>3. CASE value < 0
  <2>1. /\ RingLen >= 1 /\ RingLen' = RingLen - 1 /\ value' = value + 1
        /\ \A i \in 1 .. RingLen' : Ring'[i] = Ring[i + 1]
    BY <1>3, Released
  <2>2. Ring # <<>> /\ Ring' = Tail(Ring)
    BY <1>2, <2>1
  <2> QED BY <1>0, <2>1, <2>2 DEF Sem!Signal
<1>4. CASE ~(value < 0)
  <2>1. value' = value + 1 /\ Ring' = Ring /\ RingLen = 0
    BY <1>4, Spared
  <2>2. Ring = <<>>
    BY <1>2, <2>1
  <2> QED BY <1>0, <2>1, <2>2 DEF Sem!Signal
<1> QED BY <1>3, <1>4

LEMMA ParkMaps ==
    ASSUME TypeInv, TypeInv', SleepersInv, RingHasRoom,
           NEW c \in CPU, NEW t \in Task, SemPark(c, t)
    PROVE  Sem!Park(t)
<1>0. TypeOK /\ TypeOK' /\ RingInv /\ SleepInv /\ pc \in [Task -> Pc]
  BY DEF TypeInv, TypeOK, SleepersInv
<1>1. /\ pc[t] = "work" /\ value <= 0 /\ value' = value - 1
      /\ pc' = [pc EXCEPT ![t] = "parking"]
  BY DEF SemPark, At, Goto
<1>2. /\ RingInv' /\ RingLen' = RingLen + 1
      /\ \A i \in 1 .. RingLen : Ring'[i] = Ring[i]
      /\ Ring'[RingLen + 1] = t
  BY <1>0, ParkRing
<1>3. /\ Ring \in Seq(Task) /\ Len(Ring) = RingLen
      /\ Ring' \in Seq(Task) /\ Len(Ring') = RingLen'
  BY <1>0, <1>2, RingSeq, RingSeqNext DEF RingIsSeq
<1>4. Ring' = Append(Ring, t)
  BY <1>2, <1>3
<1>5. /\ pc'[t] = "parking"
      /\ \A u \in Task \ {t} : pc'[u] = pc[u]
  BY <1>0, <1>1
<1>6. t \notin waiting /\ waiting' = waiting \cup {t}
  BY <1>1, <1>5 DEF waiting
<1> QED BY <1>1, <1>4, <1>6 DEF Sem!Park

LEMMA UnparkMaps ==
    ASSUME TypeInv, SleepersInv, NEW c \in CPU, NEW t \in Task, Unpark(c, t)
    PROVE  Sem!Back(t)
<1>0. TypeOK /\ RingInv /\ pc \in [Task -> Pc]
  BY DEF TypeInv, TypeOK, SleepersInv
<1>1. /\ mode[c] = "run" /\ current[c] = t /\ pc[t] = "parked"
      /\ pc' = [pc EXCEPT ![t] = "work"] /\ UNCHANGED <<value, pool, head, tail>>
  BY DEF Unpark, At, Goto, semVars
<1>2. "SLEEP" \notin attr[t]
  BY <1>1 DEF SleepersInv, AwakeInv
<1>3. \A i \in DOMAIN Ring : Ring[i] # t
  BY <1>0, <1>2, RingSeq DEF RingInv, RingIsSeq
<1>4. Ring' = Ring
  BY <1>1 DEF Ring, RingLen
<1>5. /\ pc'[t] = "work"
      /\ \A u \in Task \ {t} : pc'[u] = pc[u]
  BY <1>0, <1>1
<1>6. t \in waiting /\ waiting' = waiting \ {t}
  BY <1>1, <1>5 DEF waiting
<1> QED BY <1>1, <1>3, <1>4, <1>6 DEF Sem!Back

\* The steps that stutter: they leave the ring alone, and who is in sem_wait.
LEMMA Stutters ==
    ASSUME UNCHANGED semVars,
           \A t \in Task : pc'[t] \in {"parking", "parked"} <=> pc[t] \in {"parking", "parked"}
    PROVE  UNCHANGED <<value, Ring, waiting>>
<1>1. UNCHANGED <<value, pool, head, tail>>
  BY DEF semVars
<1>2. value' = value /\ Ring' = Ring
  BY <1>1 DEF Ring, RingLen
<1>3. waiting' = waiting
  BY DEF waiting
<1> QED BY <1>2, <1>3

LEMMA TrapMaps ==
    ASSUME TypeInv, TypeInv', LifeInv, SleepersInv, NEW c \in CPU,
           \/ \E irq \in {"save", "saveio"} : Trap(c, irq)
           \/ TrapStep(c)
           \/ \E n \in Slot : Pick(c, n)
    PROVE  [Sem!Next]_<<value, Ring, waiting>>
<1>1. CASE Notify(c)
  <2>1. kmt_sem_signal /\ pc' = pc
    BY <1>1 DEF Notify
  <2>2. Sem!Signal
    BY <2>1, SignalMaps DEF TypeInv, SleepersInv
  <2> QED BY <2>2 DEF Sem!Next
<1>2. CASE CleanFree(c)
  <2> DEFINE k == Head(ctxQueue)
  <2>4. ctxQueue \in Seq(Task) /\ ctxQueue # <<>> /\ pc \in [Task -> Pc]
    BY <1>2 DEF CleanFree, TypeInv, TypeOK
  <2>1. k \in Task /\ pc[k] = "exited" /\ pc \in [Task -> Pc]
    BY <2>4 DEF LifeInv, QueueInv
  <2>2. pc' = [pc EXCEPT ![k] = "free"] /\ UNCHANGED semVars
    BY <1>2 DEF CleanFree, Resume
  <2> HIDE DEF k
  <2>3. \A t \in Task : pc'[t] \in {"parking", "parked"} <=> pc[t] \in {"parking", "parked"}
    BY <2>1, <2>2
  <2> QED BY <2>2, <2>3, Stutters
<1>3. CASE \/ \E irq \in {"save", "saveio"} : Trap(c, irq)
           \/ Save(c) \/ PickIdle(c) \/ TryBusy(c) \/ TryRun(c)
           \/ CleanNone(c) \/ CleanBusy(c) \/ \E n \in Slot : Pick(c, n)
  <2>1. pc' = pc /\ UNCHANGED semVars
    BY <1>3 DEF Trap, Save, PickIdle, TryBusy, TryRun, CleanNone, CleanBusy, Resume, Pick,
                PickIf
  <2> QED BY <2>1, Stutters
<1> QED BY <1>1, <1>2, <1>3 DEF TrapStep

LEMMA TaskMaps ==
    ASSUME TypeInv, TypeInv', LifeInv, SleepersInv, RingHasRoom,
           NEW c \in CPU, NEW t \in Task, Duty(c, t) \/ Choice(c, t)
    PROVE  [Sem!Next]_<<value, Ring, waiting>>
<1>0. /\ pc \in [Task -> Pc] /\ value \in Int
      /\ \A u \in Task : pc[u] \in SonPc => son[u] \in Task
  BY DEF TypeInv, TypeOK, SonInv
<1>1. CASE SemPark(c, t)
  <2>1. Sem!Park(t)
    BY <1>1, ParkMaps
  <2> QED BY <2>1 DEF Sem!Next
<1>2. CASE Unpark(c, t)
  <2>1. Sem!Back(t)
    BY <1>2, UnparkMaps
  <2> QED BY <2>1 DEF Sem!Next
<1>3. CASE SemSignal(c, t)
  <2>1. kmt_sem_signal /\ pc' = pc
    BY <1>3 DEF SemSignal
  <2>2. Sem!Signal
    BY <2>1, SignalMaps DEF TypeInv, SleepersInv
  <2> QED BY <2>2 DEF Sem!Next
<1>4. CASE SemPass(c, t)
  <2>1. value > 0 /\ value' = value - 1 /\ UNCHANGED <<pc, pool, head, tail>>
    BY <1>4 DEF SemPass
  <2>2. Ring' = Ring /\ waiting' = waiting
    BY <2>1 DEF Ring, RingLen, waiting
  <2>3. Sem!Pass
    BY <2>1, <2>2 DEF Sem!Pass
  <2> QED BY <2>3 DEF Sem!Next
<1>5. CASE \/ LockTasks(c, t) \/ Foreground(c, t) \/ Background(c, t) \/ WaitZombie(c, t)
           \/ BackAlive(c, t) \/ BackMark(c, t)
           \/ ExitZombie(c, t) \/ ExitYield(c, t) \/ ParkYield(c, t) \/ AddProbe(c, t)
  <2>1. UNCHANGED semVars
    BY <1>5 DEF LockTasks, Foreground, Background, WaitZombie, BackAlive, BackLock, BackMark,
                ExitZombie, ExitYield, ExitAs, ParkYield, AddProbe
  <2>2. \A u \in Task \ {t} : pc'[u] = pc[u]
    BY <1>0, <1>5 DEF LockTasks, Foreground, Background, WaitZombie, BackAlive, BackLock,
                      BackMark, ExitZombie, ExitYield, ExitAs, ParkYield, AddProbe,
                      Goto
  <2>3. pc'[t] \in {"parking", "parked"} <=> pc[t] \in {"parking", "parked"}
    BY <1>0, <1>5 DEF LockTasks, Foreground, Background, WaitZombie, BackAlive, BackLock,
                      BackMark, ExitZombie, ExitYield, ExitAs, ParkYield, AddProbe,
                      Goto, At
  <2> QED BY <2>1, <2>2, <2>3, Stutters
<1>6. ASSUME NEW k \in Task, Create(c, t, k) PROVE [Sem!Next]_<<value, Ring, waiting>>
  <2>1. /\ pc[t] = "work" /\ pc[k] = "free" /\ UNCHANGED semVars
        /\ pc' = [pc EXCEPT ![t] = "add", ![k] = "new"]
    BY <1>6 DEF Create, At
  <2>2. \A u \in Task : pc'[u] \in {"parking", "parked"} <=> pc[u] \in {"parking", "parked"}
    BY <1>0, <2>1
  <2> QED BY <2>1, <2>2, Stutters
<1>7. CASE AddTask(c, t) \/ WaitLock(c, t) \/ BackDead(c, t)
  <2>1. /\ UNCHANGED semVars
        /\ pc[t] \in {"adding", "locking", "backing"}
        /\ pc[t] = "adding" => AddTask(c, t)
        /\ pc[t] # "adding" => FreeSon(t) /\ "ZOMBIE" \in attr[son[t]]
    BY <1>7 DEF AddTask, AddTaskBlind, WaitLock, BackDead, FreeSon, At, LifeInv, DeadInv
  <2>2. son[t] \in Task
    BY <1>0, <2>1 DEF SonPc
  <2>3. pc[son[t]] \in {"new", "exiting", "exited", "free"}
    BY <2>1, <2>2 DEF LifeInv, SonsInv, DeadInv
  <2>4. /\ \A u \in Task \ {t, son[t]} : pc'[u] = pc[u]
        /\ pc'[t] \notin {"parking", "parked"} /\ pc'[son[t]] \notin {"parking", "parked"}
    <3>1. CASE pc[t] = "adding"
      BY <1>0, <2>1, <2>2, <3>1 DEF AddTask, AddTaskBlind
    <3>2. CASE pc[t] # "adding"
      BY <1>0, <2>1, <2>2, <3>2 DEF FreeSon
    <3> QED BY <3>1, <3>2
  <2>5. \A u \in Task : pc'[u] \in {"parking", "parked"} <=> pc[u] \in {"parking", "parked"}
    BY <2>1, <2>3, <2>4
  <2> QED BY <2>1, <2>5, Stutters
<1> QED BY <1>1, <1>2, <1>3, <1>4, <1>5, <1>6, <1>7 DEF Duty, Choice

\* kmt_sem_wait and kmt_sem_signal with their ring and the scheduler implement the
\* abstract semaphore, until a CPU runs a sleeper: first come, first woken, one for
\* each signal.
THEOREM SemaphoreImplemented ==
    ASSUME RingHasRoom
    PROVE  Spec => SemSpec
<1>1. Init => Sem!Init
  <2> SUFFICES ASSUME Init PROVE Sem!Init
    OBVIOUS
  <2>1. value = 0 /\ waiting = {}
    BY DEF Init, waiting
  <2>2. TypeOK /\ RingInv
    BY TypeInit, SleepersInit DEF TypeInv, SleepersInv
  <2>3. Ring = <<>>
    BY <2>1, <2>2, RingSeq DEF RingIsSeq, RingInv
  <2> QED BY <2>1, <2>3 DEF Sem!Init
<1>2. TypeInv /\ TypeInv' /\ LifeInv /\ SleepersInv /\ [Next]_vars =>
          [Sem!Next]_<<value, Ring, waiting>>
  <2> SUFFICES ASSUME TypeInv, TypeInv', LifeInv, SleepersInv, [Next]_vars
               PROVE  [Sem!Next]_<<value, Ring, waiting>>
    OBVIOUS
  <2>2. CASE UNCHANGED vars
    <3>1. pc' = pc /\ UNCHANGED semVars
      BY <2>2 DEF vars, semVars
    <3> QED BY <3>1, Stutters
  <2>3. ASSUME NEW c \in CPU,
               \/ \E irq \in {"save", "saveio"} : Trap(c, irq)
               \/ TrapStep(c)
               \/ \E n \in Slot : Pick(c, n)
        PROVE  [Sem!Next]_<<value, Ring, waiting>>
    BY <2>3, TrapMaps
  <2>4. ASSUME NEW c \in CPU, NEW t \in Task, Duty(c, t) \/ Choice(c, t)
        PROVE  [Sem!Next]_<<value, Ring, waiting>>
    BY <2>4, TaskMaps
  <2> QED BY <2>2, <2>3, <2>4 DEF Next
<1>3. [Next]_vars => (swapped => swapped') /\ (late => late')
  BY HistoryStays
<1>4. TypeInv /\ TypeInv' /\ (swapped \/ late \/ (Ordered /\ SleepersInv)) /\ [Next]_vars
          => [Sem!Next \/ swapped' \/ late']_<<value, Ring, waiting>>
  BY <1>2, <1>3 DEF Ordered
<1> QED BY <1>1, <1>4, SleepersInvariant, PTL DEF Spec, SemSpec
=============================================================================
