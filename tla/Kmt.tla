-------------------------------- MODULE Kmt --------------------------------
(***************************************************************************)
(* The kernel's task scheduler, kernel/src/kmt.c: the trap path that saves  *)
(* a context, picks the next task and reaps dead ones on every CPU, the     *)
(* life cycle of a task (create, wait, background, exit, free) and the      *)
(* sleeping semaphore.                                                      *)
(*                                                                          *)
(* A task is an object of memory (task_t).  One step is the code between    *)
(* two points where another CPU or an interrupt can make a difference: the  *)
(* trap handler is four steps (save, pick, try, clean) because the other    *)
(* CPUs run between them; a section under a semaphore's lock, which runs    *)
(* with interrupts closed, is one.                                          *)
(*                                                                          *)
(* A definition commented "slip:" is a mistake the code does not make; the  *)
(* mutation runs put it in the place of the definition after it, to see     *)
(* which property notices.                                                  *)
(***************************************************************************)
EXTENDS Integers, Sequences

CONSTANTS
    CPU,            \* the processors
    Task,           \* the task_t objects memory has room for
    Root,           \* those os_init and the devices create; they never exit
    RootPid,        \* the pid each of them got
    NULL,
    PoolLen,        \* POOL_LEN: of a semaphore's ring and of ctx_queue
    MaxPid,         \* the last slot of the task table (0x3f)
    MaxValue,       \* bound: nobody signals a semaphore that has reached it
    MaxWaiters,     \* bound: on the waits a semaphore is short of
    TimerInCreate   \* whether an interrupt may hit add_task's locked section

ASSUME KmtAssumption ==
    /\ NULL \notin Task
    /\ Root \subseteq Task
    /\ MaxPid \in Nat /\ MaxValue \in Nat /\ MaxWaiters \in Nat
    /\ PoolLen \in Nat \ {0}
    /\ RootPid \in [Root -> 1 .. MaxPid]
    /\ \A r, q \in Root : RootPid[r] = RootPid[q] => r = q
    /\ TimerInCreate \in BOOLEAN

VARIABLES
    mode,       \* where a CPU is: the task's code, or a step of os_trap
    current,    \* currents[cpu]; NULL while the idle context is chosen
    last,       \* lasts[cpu]: whose stack the trap handler still uses
    stack,      \* whose stack the CPU's stack pointer is in
    slot, cand, \* kmt_context_switch_real's new and the tasks[new] it read
    tasks,      \* the task table
    cursor,     \* add_task_real's static pid
    tasksLk,    \* tasks_lk is held
    running,    \* task->running, a spin lock
    attr,       \* task->attr, the set of its flags
    pid,        \* task->pid
    pc,         \* the point of its code a task's context is at
    son,        \* the task its creator has yet to wait for or let go
    ctxQueue,   \* ctx_queue: dead tasks nobody waits for
    value, pool, head, tail,    \* one semaphore
    \* History, which no guard reads:
    swapped,    \* a CPU ran what another task's lock, or freed memory, let it run
    late        \* a CPU ran a task that went to sleep after the look at its attr

cpuVars  == <<mode, current, last, stack, slot, cand>>
tableVars == <<tasks, cursor, tasksLk, pid>>
semVars  == <<value, pool, head, tail>>
history == <<swapped, late>>
vars == <<mode, current, last, stack, slot, cand, tasks, cursor, tasksLk, pid,
          running, attr, pc, son, ctxQueue, value, pool, head, tail, swapped, late>>

Slot == 0 .. MaxPid

Flag == {"SLEEP", "ZOMBIE", "NOWAIT"}

Mode == {"run", "save", "saveio", "notify", "switch", "try", "clean", "hung"}

\* With a son: between kmt->create and the end of kmt->wait or run_back_cmd.
SonPc == {"add", "adding", "created", "waiting", "locking", "backing", "nowait"}

Pc == SonPc \cup {"free", "new", "work", "parking", "parked", "exiting", "exited"}

TypeOK ==
    /\ mode \in [CPU -> Mode]
    /\ current \in [CPU -> Task \cup {NULL}]
    /\ last \in [CPU -> Task \cup {NULL}]
    /\ stack \in [CPU -> Task \cup {NULL}]
    /\ slot \in [CPU -> Slot]
    /\ cand \in [CPU -> Task \cup {NULL}]
    /\ tasks \in [Slot -> Task \cup {NULL}]
    /\ cursor \in Slot
    /\ tasksLk \in BOOLEAN
    /\ running \in [Task -> BOOLEAN]
    /\ attr \in [Task -> SUBSET Flag]
    /\ pid \in [Task -> Slot]
    /\ pc \in [Task -> Pc]
    /\ son \in [Task -> Task \cup {NULL}]
    /\ ctxQueue \in Seq(Task)
    /\ value \in Int
    /\ pool \in [0 .. PoolLen - 1 -> Task \cup {NULL}]
    /\ head \in 0 .. PoolLen - 1
    /\ tail \in 0 .. PoolLen - 1
    /\ swapped \in BOOLEAN /\ late \in BOOLEAN

\* After os_init: the root tasks are in the table and every CPU loops in os_run
\* on its boot stack, which, like the idle stack, belongs to no task.
Init ==
    /\ mode = [c \in CPU |-> "run"]
    /\ current = [c \in CPU |-> NULL]
    /\ last = [c \in CPU |-> NULL]
    /\ stack = [c \in CPU |-> NULL]
    /\ slot = [c \in CPU |-> 0]
    /\ cand = [c \in CPU |-> NULL]
    /\ tasks = [n \in Slot |->
                  IF \E r \in Root : RootPid[r] = n
                  THEN CHOOSE r \in Root : RootPid[r] = n ELSE NULL]
    /\ cursor \in Slot
    /\ \A r \in Root : RootPid[r] <= cursor
    /\ \A m \in 0 .. cursor - 1 : \E r \in Root : RootPid[r] > m
    /\ tasksLk = FALSE
    \* kmt_create overwrites what the memory of a task to be holds
    /\ running = [t \in Task |-> t \notin Root]
    /\ attr = [t \in Task |-> {}]
    /\ pid = [t \in Task |-> IF t \in Root THEN RootPid[t] ELSE 0]
    /\ pc = [t \in Task |-> IF t \in Root THEN "work" ELSE "free"]
    /\ son = [t \in Task |-> NULL]
    /\ ctxQueue = <<>>
    /\ value = 0
    /\ pool = [i \in 0 .. PoolLen - 1 |-> NULL]
    /\ head = 0 /\ tail = 0
    /\ swapped = FALSE /\ late = FALSE

-----------------------------------------------------------------------------
(* The trap path: os_trap calls the handlers in the order of their seq.     *)

\* exit() runs with interrupts closed; the sections under a semaphore's lock
\* do too, and are single steps here.
IntrOn(c) ==
    current[c] # NULL =>
        pc[current[c]] \notin {"exiting", "exited"}
                          \cup (IF TimerInCreate THEN {} ELSE {"adding"})

\* A timer or keyboard interrupt, or the _yield of idle and of kmt_wait's loop.
Trap(c, irq) ==
    /\ mode[c] = "run" /\ IntrOn(c)
    /\ irq = "saveio" => value < MaxValue
    /\ mode' = [mode EXCEPT ![c] = irq]
    /\ UNCHANGED <<current, last, stack, slot, cand, tableVars, running, attr, pc,
                   son, ctxQueue, semVars, history>>

\* slip: the lock of the task that is being left goes at once.
SaveEarly(c) ==
    /\ mode[c] \in {"save", "saveio"}
    /\ ~tasksLk
    /\ running' = [t \in Task |-> running[t] /\ t # current[c]]
    /\ last' = [last EXCEPT ![c] = current[c]]
    /\ mode' = [mode EXCEPT ![c] = IF @ = "save" THEN "switch" ELSE "notify"]
    /\ UNCHANGED <<current, stack, slot, cand, tableVars, attr, pc, son, ctxQueue,
                   semVars, history>>

\* slip: the lock of the task left before stays.
SaveNever(c) ==
    /\ mode[c] \in {"save", "saveio"}
    /\ ~tasksLk
    /\ last' = [last EXCEPT ![c] = current[c]]
    /\ mode' = [mode EXCEPT ![c] = IF @ = "save" THEN "switch" ELSE "notify"]
    /\ UNCHANGED <<current, stack, slot, cand, tableVars, running, attr, pc, son,
                   ctxQueue, semVars, history>>

\* kmt_context_save, first in every trap.
Save(c) ==
    /\ mode[c] \in {"save", "saveio"}
    /\ ~tasksLk
    /\ running' = IF last[c] # NULL /\ current[c] # last[c]
                  THEN [running EXCEPT ![last[c]] = FALSE] ELSE running
    /\ last' = [last EXCEPT ![c] = current[c]]
    /\ mode' = [mode EXCEPT ![c] = IF @ = "save" THEN "switch" ELSE "notify"]
    /\ UNCHANGED <<current, stack, slot, cand, tableVars, attr, pc, son, ctxQueue,
                   semVars, history>>

\* slip: the wrap comes one place late.
WrapLate(i) == IF i + 1 > PoolLen THEN 0 ELSE i + 1

Wrap(i) == IF i + 1 >= PoolLen THEN i + 1 - PoolLen ELSE i + 1

\* slip: the waiter that came last is woken.
WakeNewest ==
    /\ attr' = [attr EXCEPT ![pool[(tail + PoolLen - 1) % PoolLen]] = @ \ {"SLEEP"}]
    /\ head' = Wrap(head)

\* sem_remove_task
sem_remove_task ==
    /\ attr' = IF pool[head] = NULL THEN attr
               ELSE [attr EXCEPT ![pool[head]] = @ \ {"SLEEP"}]
    /\ head' = Wrap(head)

\* slip: the last waiter is not woken.
SignalShort ==
    /\ value' = value + 1
    /\ IF value' < 0 THEN sem_remove_task ELSE UNCHANGED <<attr, head>>
    /\ UNCHANGED <<pool, tail>>

kmt_sem_signal ==
    /\ value' = value + 1
    /\ IF value' <= 0 THEN sem_remove_task ELSE UNCHANGED <<attr, head>>
    /\ UNCHANGED <<pool, tail>>

\* input_notify, the handler of keyboard interrupts, runs between save and switch.
Notify(c) ==
    /\ mode[c] = "notify"
    /\ kmt_sem_signal
    /\ mode' = [mode EXCEPT ![c] = "switch"]
    /\ UNCHANGED <<current, last, stack, slot, cand, tableVars, running, pc, son,
                   ctxQueue, history>>

PickIf(c, n, runnable) ==
    /\ mode[c] = "switch"
    /\ tasks[n] # NULL
    /\ runnable
    /\ mode' = [mode EXCEPT ![c] = "try"]
    /\ slot' = [slot EXCEPT ![c] = n]
    /\ cand' = [cand EXCEPT ![c] = tasks[n]]
    /\ UNCHANGED <<current, last, stack, tableVars, running, attr, pc, son, ctxQueue,
                   semVars, history>>

\* slip: background tasks fail the test.
PickForeground(c, n) == PickIf(c, n, attr[tasks[n]] = {})

\* kmt_context_switch_real: the random slot holds a task whose attr allows it to
\* run.  A slot that fails the test costs an iteration and changes nothing.
Pick(c, n) == PickIf(c, n, attr[tasks[n]] \subseteq {"NOWAIT"})

\* 10000 draws found nothing, or the draws went wrong: the idle context.
PickIdle(c) ==
    /\ mode[c] = "switch"
    /\ current' = [current EXCEPT ![c] = NULL]
    /\ mode' = [mode EXCEPT ![c] = "clean"]
    /\ UNCHANGED <<last, stack, slot, cand, tableVars, running, attr, pc, son, ctxQueue,
                   semVars, history>>

\* The task read by Pick, as trylock finds it: its memory may have been freed, and
\* then holds anything, or be a new task by now.
FoundBusy(c) == running[cand[c]] \/ pc[cand[c]] = "free"
FoundFree(c) == ~running[cand[c]] \/ pc[cand[c]] = "free"

\* trylock on the task read by Pick; on success current becomes what the slot
\* holds by now: that task, another one whose lock nobody took, or none.  If none,
\* the fence test reads address 0 and the CPU spins for ever with interrupts off.
TryBusy(c) ==
    /\ mode[c] = "try" /\ FoundBusy(c)
    /\ mode' = [mode EXCEPT ![c] = "switch"]
    /\ slot' = [slot EXCEPT ![c] = 0]
    /\ cand' = [cand EXCEPT ![c] = NULL]
    /\ UNCHANGED <<current, last, stack, tableVars, running, attr, pc, son, ctxQueue,
                   semVars, history>>

TryRun(c) ==
    LET new == tasks[slot[c]]
    IN  /\ mode[c] = "try" /\ FoundFree(c)
        /\ running' = [running EXCEPT ![cand[c]] = TRUE]
        /\ current' = [current EXCEPT ![c] = new]
        /\ mode' = [mode EXCEPT ![c] = IF new = NULL THEN "hung" ELSE "clean"]
        /\ slot' = [slot EXCEPT ![c] = 0]
        /\ cand' = [cand EXCEPT ![c] = NULL]
        /\ swapped' = (swapped \/ new \notin {cand[c], NULL} \/ pc[cand[c]] = "free")
        /\ late' = (late \/ (new # NULL /\ "SLEEP" \in attr[new]))
        /\ UNCHANGED <<last, stack, tableVars, attr, pc, son, ctxQueue, semVars>>

\* kmt_context_clean, last in every trap, and the return to the chosen context.
Resume(c) ==
    /\ mode' = [mode EXCEPT ![c] = "run"]
    /\ stack' = [stack EXCEPT ![c] = current[c]]
    /\ UNCHANGED <<current, last, slot, cand, tableVars, attr, son, semVars, history>>

CleanNone(c) ==
    /\ mode[c] = "clean" /\ ctxQueue = <<>>
    /\ Resume(c)
    /\ UNCHANGED <<running, pc, ctxQueue>>

CleanBusy(c) ==
    /\ mode[c] = "clean" /\ ctxQueue # <<>>
    /\ running[Head(ctxQueue)]
    /\ ctxQueue' = Append(Tail(ctxQueue), Head(ctxQueue))
    /\ Resume(c)
    /\ UNCHANGED <<running, pc>>

CleanFree(c) ==
    /\ mode[c] = "clean" /\ ctxQueue # <<>>
    /\ ~running[Head(ctxQueue)]
    /\ running' = [running EXCEPT ![Head(ctxQueue)] = TRUE]
    /\ pc' = [pc EXCEPT ![Head(ctxQueue)] = "free"]
    /\ ctxQueue' = Tail(ctxQueue)
    /\ Resume(c)

TrapStep(c) ==
    \/ Save(c) \/ Notify(c) \/ PickIdle(c)
    \/ TryBusy(c) \/ TryRun(c)
    \/ CleanNone(c) \/ CleanBusy(c) \/ CleanFree(c)

-----------------------------------------------------------------------------
(* What a task does.  At(c, t, p): t executes on c at point p.              *)

At(c, t, p) == mode[c] = "run" /\ current[c] = t /\ pc[t] = p

Goto(t, p) == pc' = [pc EXCEPT ![t] = p]

\* kmt_create up to add_task: the new object overwrites freed memory.
Create(c, t, k) ==
    /\ At(c, t, "work") /\ pc[k] = "free"
    /\ running' = [running EXCEPT ![k] = FALSE]
    /\ attr' = [attr EXCEPT ![k] = {}]
    /\ pid' = [pid EXCEPT ![k] = 0]
    /\ pc' = [pc EXCEPT ![t] = "add", ![k] = "new"]
    /\ son' = [son EXCEPT ![t] = k]
    /\ UNCHANGED <<cpuVars, tasks, cursor, tasksLk, ctxQueue, semVars, history>>

\* add_task takes tasks_lk with interrupts on.
LockTasks(c, t) ==
    /\ At(c, t, "add") /\ ~tasksLk
    /\ tasksLk' = TRUE
    /\ Goto(t, "adding")
    /\ UNCHANGED <<cpuVars, tasks, cursor, pid, running, attr, son, ctxQueue, semVars,
                   history>>

\* The next slot: ++pid, pid &= 0x3f.
NextPid == IF cursor = MaxPid THEN 0 ELSE cursor + 1

\* add_task_real's loop: a slot in use is passed over.
AddProbe(c, t) ==
    /\ At(c, t, "adding") /\ tasks[NextPid] # NULL
    /\ cursor' = NextPid
    /\ UNCHANGED <<cpuVars, tasks, tasksLk, pid, running, attr, pc, son, ctxQueue,
                   semVars, history>>

\* slip: the slot is taken without a look.
AddTaskBlind(c, t) ==
    /\ At(c, t, "adding")
    /\ cursor' = NextPid
    /\ tasks' = [tasks EXCEPT ![NextPid] = son[t]]
    /\ pid' = [pid EXCEPT ![son[t]] = NextPid]
    /\ tasksLk' = FALSE
    /\ pc' = [pc EXCEPT ![t] = "created", ![son[t]] = "work"]
    /\ UNCHANGED <<cpuVars, running, attr, son, ctxQueue, semVars, history>>

\* Its end, and the unlock: the slot may have been another task's before.
AddTask(c, t) == tasks[NextPid] = NULL /\ AddTaskBlind(c, t)

\* The creator waits for the son (mysh, run_list_cmd) or leaves it in the
\* background (run_back_cmd).
Foreground(c, t) ==
    /\ At(c, t, "created") /\ Goto(t, "waiting")
    /\ UNCHANGED <<cpuVars, tableVars, running, attr, son, ctxQueue, semVars, history>>

Background(c, t) ==
    /\ At(c, t, "created") /\ Goto(t, "backing")
    /\ UNCHANGED <<cpuVars, tableVars, running, attr, son, ctxQueue, semVars, history>>

\* kmt_wait's loop ends; until then it yields, which is Trap.
WaitZombie(c, t) ==
    /\ At(c, t, "waiting") /\ "ZOMBIE" \in attr[son[t]]
    /\ Goto(t, "locking")
    /\ UNCHANGED <<cpuVars, tableVars, running, attr, son, ctxQueue, semVars, history>>

\* The son's running lock is free: take it for good, tear down and free.
FreeSon(t) ==
    /\ running' = [running EXCEPT ![son[t]] = TRUE]
    /\ pc' = [pc EXCEPT ![t] = "work", ![son[t]] = "free"]
    /\ son' = [son EXCEPT ![t] = NULL]
    /\ UNCHANGED <<cpuVars, tableVars, attr, ctxQueue, semVars, history>>

\* slip: kmt_wait frees the zombie without its lock.
WaitNoLock(c, t) == At(c, t, "locking") /\ FreeSon(t)

WaitLock(c, t) ==
    /\ At(c, t, "locking") /\ ~running[son[t]]
    /\ FreeSon(t)

BackDead(c, t) ==
    /\ At(c, t, "backing") /\ ~running[son[t]]
    /\ "ZOMBIE" \in attr[son[t]]
    /\ FreeSon(t)

\* run_back_cmd after kmt->create: take the son's lock, and look.  Leaving the look
\* out is a slip.
BackLock(c, t) ==
    /\ At(c, t, "backing") /\ ~running[son[t]]
    /\ running' = [running EXCEPT ![son[t]] = TRUE]
    /\ Goto(t, "nowait")
    /\ UNCHANGED <<cpuVars, tableVars, attr, son, ctxQueue, semVars, history>>

BackAlive(c, t) == BackLock(c, t) /\ "ZOMBIE" \notin attr[son[t]]

BackMark(c, t) ==
    /\ At(c, t, "nowait")
    /\ attr' = [attr EXCEPT ![son[t]] = @ \cup {"NOWAIT"}]
    /\ running' = [running EXCEPT ![son[t]] = FALSE]
    /\ son' = [son EXCEPT ![t] = NULL]
    /\ Goto(t, "work")
    /\ UNCHANGED <<cpuVars, tableVars, ctxQueue, semVars, history>>

\* exit: close interrupts and the files, then die.
ExitZombie(c, t) ==
    /\ At(c, t, "work") /\ t \notin Root
    /\ attr' = [attr EXCEPT ![t] = @ \cup {"ZOMBIE"}]
    /\ Goto(t, "exiting")
    /\ UNCHANGED <<cpuVars, tableVars, running, son, ctxQueue, semVars, history>>

ExitAs(c, t, queued) ==
    /\ At(c, t, "exiting")
    /\ tasks' = [tasks EXCEPT ![pid[t]] = NULL]
    /\ ctxQueue' = IF queued /\ Len(ctxQueue) < PoolLen - 1
                   THEN Append(ctxQueue, t) ELSE ctxQueue
    /\ Goto(t, "exited")
    /\ mode' = [mode EXCEPT ![c] = "save"]
    /\ UNCHANGED <<current, last, stack, slot, cand, cursor, tasksLk, pid, running,
                   attr, son, semVars, history>>

\* slip: every dead task joins ctx_queue.
ExitQueued(c, t) == ExitAs(c, t, TRUE)

\* Leave the table, join ctx_queue if nobody waits, yield.  A full ctx_queue
\* makes enqueue yield first, and a zombie never comes back from a yield.
ExitYield(c, t) == ExitAs(c, t, "NOWAIT" \in attr[t])

\* kmt_sem_wait: pass, or enter the ring and yield.
SemPass(c, t) ==
    /\ At(c, t, "work") /\ value > 0
    /\ value' = value - 1
    /\ UNCHANGED <<cpuVars, tableVars, running, attr, pc, son, ctxQueue, pool, head,
                   tail, history>>

SemPark(c, t) ==
    /\ At(c, t, "work") /\ value <= 0 /\ value > -MaxWaiters
    /\ value' = value - 1
    /\ pool' = [pool EXCEPT ![tail] = t]
    /\ attr' = [attr EXCEPT ![t] = @ \cup {"SLEEP"}]
    /\ tail' = Wrap(tail)
    /\ Goto(t, "parking")
    /\ UNCHANGED <<cpuVars, tableVars, running, son, ctxQueue, head, history>>

\* The _yield at the end of sem_add_task, and the return from it.
ParkYield(c, t) ==
    /\ At(c, t, "parking")
    /\ Goto(t, "parked")
    /\ mode' = [mode EXCEPT ![c] = "save"]
    /\ UNCHANGED <<current, last, stack, slot, cand, tableVars, running, attr, son,
                   ctxQueue, semVars, history>>

Unpark(c, t) ==
    /\ At(c, t, "parked")
    /\ Goto(t, "work")
    /\ UNCHANGED <<cpuVars, tableVars, running, attr, son, ctxQueue, semVars, history>>

SemSignal(c, t) ==
    /\ At(c, t, "work") /\ value < MaxValue
    /\ kmt_sem_signal
    /\ UNCHANGED <<cpuVars, tableVars, running, pc, son, ctxQueue, history>>

\* The steps a task owes once it runs, and those it is free to choose.
Duty(c, t) ==
    \/ LockTasks(c, t) \/ AddProbe(c, t) \/ AddTask(c, t)
    \/ Foreground(c, t) \/ Background(c, t)
    \/ WaitZombie(c, t) \/ WaitLock(c, t)
    \/ BackDead(c, t) \/ BackAlive(c, t) \/ BackMark(c, t)
    \/ ExitYield(c, t) \/ ParkYield(c, t) \/ Unpark(c, t)

Choice(c, t) ==
    \/ \E k \in Task : Create(c, t, k)
    \/ ExitZombie(c, t)
    \/ SemPass(c, t) \/ SemPark(c, t) \/ SemSignal(c, t)

Next ==
    \E c \in CPU :
        \/ \E irq \in {"save", "saveio"} : Trap(c, irq)
        \/ TrapStep(c)
        \/ \E n \in Slot : Pick(c, n)
        \/ \E t \in Task : Duty(c, t) \/ Choice(c, t)

Spec == Init /\ [][Next]_vars

-----------------------------------------------------------------------------
(* Fairness.  Every CPU goes on executing (WF).  A timer keeps interrupting   *)
(* (WF on Trap).  rand() over 64 slots, drawn up to 10000 times a trap, does  *)
(* not miss a slot for ever (SF on Pick), and the timer's period leaves a     *)
(* dispatched task time for a step (SF on Duty).  The count of draws ends the  *)
(* loop of one trap (SF on its two exits).                                    *)

Fairness ==
    /\ \A c \in CPU :
        /\ WF_vars(Trap(c, "save"))
        /\ WF_vars(TrapStep(c))
        /\ SF_vars(PickIdle(c) \/ TryRun(c))
        /\ \A n \in Slot : SF_vars(Pick(c, n) /\ ~running[tasks[n]])
    /\ \A t \in Task : SF_vars(\E c \in CPU : Duty(c, t))

FairSpec == Spec /\ Fairness

-----------------------------------------------------------------------------
(* Properties.  kmt_context_switch_real uses tasks[new] three times without a *)
(* lock: for attr and for trylock (the build reads the slot once for both),   *)
(* and for current (kmt.c:90-93).  The table and the task may change in       *)
(* between; swapped and late remember the two changes after which its code    *)
(* does not do what it is for, and what is said below holds until then, and   *)
(* for every other interleaving.                                              *)

\* No two CPUs execute on the stack of one task, the handler that switches away
\* from it included: what task->running, released one trap late, is for.
StackExclusive ==
    swapped \/ \A c, d \in CPU : c # d /\ stack[c] # NULL => stack[c] # stack[d]

\* task->running is held exactly while somebody may use the task: a CPU that runs
\* it or still has its stack, a creator that marks it, or whoever freed it.  (A
\* CPU that hangs in the fence test keeps the lock it took.)
RunningExact ==
    swapped \/
    \A t \in Task :
        LET holder == \/ \E c \in CPU : t \in {current[c], last[c]}
                      \/ \E u \in Task : pc[u] = "nowait" /\ son[u] = t
                      \/ pc[t] = "free"
        IN  /\ holder => running[t]
            /\ running[t] => holder \/ \E c \in CPU : mode[c] = "hung"

Occurrences(t) == {i \in 1 .. Len(ctxQueue) : ctxQueue[i] = t}

\* A task that exited has one reaper, its creator or one entry of ctx_queue,
\* however exit, kmt_wait, run_back_cmd and kmt_context_clean interleave: it is
\* neither leaked nor freed twice.
OneReaper ==
    swapped \/
    \A t \in Task :
        LET creators == {u \in Task : son[u] = t}
        IN  /\ \A u, v \in creators : u = v
            /\ \A i, j \in Occurrences(t) : i = j
            /\ creators = {} \/ Occurrences(t) = {}
            /\ pc[t] = "exited" => creators # {} \/ Occurrences(t) # {}

\* No stack, no current or last, no slot of the table, no creator and no entry of
\* ctx_queue leads to freed memory.  One pointer may: the candidate of a CPU that is
\* between its look at attr and its trylock.  The slot does not hold that task any
\* more, so it does not become current; if trylock finds the memory free it has
\* written to it, which is one of the two ways of swapped.
FreedUnreachable ==
    swapped \/
    \A t \in Task :
        pc[t] = "free" =>
            /\ \A c \in CPU : t \notin {stack[c], current[c], last[c]}
            /\ \A n \in Slot : tasks[n] # t
            /\ \A u \in Task : son[u] # t
            /\ Occurrences(t) = {}

\* A task is found in the table under its pid from add_task to exit, however the
\* slots are reused, and no slot outlives its task.
TableExact ==
    swapped \/
    /\ \A n \in Slot : tasks[n] # NULL => pid[tasks[n]] = n
    /\ \A t \in Task : pc[t] \notin {"free", "new", "exited"} => tasks[pid[t]] = t

\* The tasks waiting in the semaphore's ring, longest first.
RingLen == IF tail >= head THEN tail - head ELSE tail - head + PoolLen
Ring == [i \in 1 .. RingLen |-> pool[(head + i - 1) % PoolLen]]

\* A negative value counts the tasks in the ring, and exactly those sleep: no
\* wakeup is lost and none is left over, until a CPU runs a sleeper.
SemExact ==
    swapped \/ late \/
    /\ RingLen = IF value < 0 THEN -value ELSE 0
    /\ \A t \in Task : "SLEEP" \in attr[t] <=> \E i \in 1 .. RingLen : Ring[i] = t

\* The semaphore behaves as the abstract one, first come, first woken, until a CPU
\* runs a sleeper.
waiting == {t \in Task : pc[t] \in {"parking", "parked"}}
Sem == INSTANCE Semaphore WITH count <- value, queue <- Ring
SemSpec == Sem!Init /\ [][Sem!Next \/ swapped' \/ late']_<<value, Ring, waiting>>

\* A dead task is freed in the end, by kmt_wait, run_back_cmd or the trap path.
Reaped == \A t \in Task : pc[t] = "exited" ~> pc[t] = "free"

\* A task that was signalled comes back from sem_wait.
Awakened ==
    \A t \in Task :
        pc[t] = "parked" /\ "SLEEP" \notin attr[t] ~> pc[t] = "work"
=============================================================================
