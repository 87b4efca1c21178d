------------------------------- MODULE Vfile -------------------------------
(***************************************************************************)
(* Open files shared between tasks: the reference count of a vfile_t as     *)
(* vfs_open, vfs_close, kmt_create and exit keep it, and the memory it lives *)
(* in.  A task that is created gets its creator's open files; the creator of *)
(* a pipe keeps one back, and forgets one it never closes.  A count is       *)
(* changed under the file's lock, but vfs_close looks at it again, without   *)
(* the lock, to decide whether the memory goes back.  The files are those of *)
(* the file systems: the close of a pipe counts nothing.                     *)
(***************************************************************************)
EXTENDS Integers, FiniteSets

CONSTANTS
    Task,       \* the tasks memory has room for
    File,       \* the vfile_t objects memory has room for
    First,      \* the shell, the task that is there from the start
    NULL,
    MaxDropped  \* bound: the times a file is forgotten

ASSUME VfileAssumption ==
    /\ First \in Task /\ IsFiniteSet(Task)
    /\ NULL \notin Task \cup File
    /\ MaxDropped \in Nat

VARIABLES
    pc,         \* where a task is; "absent" before its creation and after its end
    parent,     \* who created it and waits for it; nobody waits behind an "&"
    fd,         \* the files in its table
    todo,       \* kmt_create's loop: the files it has yet to copy
    arg,        \* the file vfs_open or vfs_close is at
    refcnt,
    fence,      \* whether the block's fence is the one of memory in use
    alert,      \* kfree met the fence of a block that was freed before
    dropped,    \* history: how often an entry with the file was overwritten
    backed,     \* history: a task was created that nobody waits for
    raced       \* history: the last user counted down before another one's test

fileVars == <<refcnt, fence, alert>>
history  == <<dropped, backed, raced>>
vars == <<pc, parent, fd, todo, arg, refcnt, fence, alert, dropped, backed, raced>>

Pc == {"absent", "new", "run", "open", "fork", "close", "exit", "exitclose"}

TypeOK ==
    /\ pc \in [Task -> Pc]
    /\ parent \in [Task -> Task \cup {NULL}]
    /\ fd \in [Task -> SUBSET File] /\ todo \in [Task -> SUBSET File]
    /\ arg \in [Task -> File \cup {NULL}]
    /\ refcnt \in [File -> Int] /\ fence \in [File -> BOOLEAN] /\ alert \in BOOLEAN
    /\ dropped \in [File -> 0 .. MaxDropped]
    /\ backed \in BOOLEAN /\ raced \in BOOLEAN

Init ==
    /\ pc = [t \in Task |-> IF t = First THEN "run" ELSE "absent"]
    /\ parent = [t \in Task |-> NULL]
    /\ fd = [t \in Task |-> {}] /\ todo = [t \in Task |-> {}]
    /\ arg = [t \in Task |-> NULL]
    /\ refcnt = [f \in File |-> 0]
    /\ fence = [f \in File |-> FALSE] /\ alert = FALSE
    /\ dropped = [f \in File |-> 0] /\ backed = FALSE /\ raced = FALSE

Goto(t, p) == pc' = [pc EXCEPT ![t] = p]

Sons(t) == {k \in Task : parent[k] = t /\ pc[k] # "absent"}

\* A creator does nothing with files before the sons it waits for have exited.
Free(t) == pc[t] = "run" /\ Sons(t) = {}

Opening(f) == {t \in Task : pc[t] = "open" /\ arg[t] = f}
Leaving(f) == {t \in Task : pc[t] \in {"close", "exitclose"} /\ arg[t] = f}
Holding(f) == {t \in Task : f \in fd[t]} \ (Opening(f) \cup Leaving(f))

\* vfs_open: a cleared block, then the iopen of its file system.
OpenAlloc(t, f) ==
    /\ Free(t) /\ ~fence[f]
    /\ fence' = [fence EXCEPT ![f] = TRUE]
    /\ refcnt' = [refcnt EXCEPT ![f] = 0]
    /\ dropped' = [dropped EXCEPT ![f] = 0]
    /\ fd' = [fd EXCEPT ![t] = @ \cup {f}]
    /\ arg' = [arg EXCEPT ![t] = f]
    /\ Goto(t, "open")
    /\ UNCHANGED <<parent, todo, alert, backed, raced>>

OpenInit(t) ==
    /\ pc[t] = "open"
    /\ refcnt' = [refcnt EXCEPT ![arg[t]] = 1]
    /\ arg' = [arg EXCEPT ![t] = NULL]
    /\ Goto(t, "run")
    /\ UNCHANGED <<parent, fd, todo, fence, alert, history>>

\* kmt_create: the loop over the creator's files.  The new task starts after it.
\* The shell has one son at a time.
ForkWith(t, k, files) ==
    /\ pc[t] = "run" /\ pc[k] = "absent" /\ k # First
    /\ t = First => Sons(t) = {}
    /\ parent' = [parent EXCEPT ![k] = t]
    /\ todo' = [todo EXCEPT ![k] = files]
    /\ pc' = [pc EXCEPT ![t] = "fork", ![k] = "new"]
    /\ UNCHANGED <<arg, fileVars, backed, raced>>

\* The shell, run_list_cmd, run_back_cmd; run_pipe_cmd between two other pipes.
Fork(t, k) ==
    /\ ForkWith(t, k, fd[t])
    /\ fd' = [fd EXCEPT ![k] = {}]
    /\ UNCHANGED dropped

\* run_pipe_cmd's first son: f, the creator's output, is kept back (backup).
PipeLeft(t, k, f) ==
    /\ t # First /\ f \in fd[t]
    /\ ForkWith(t, k, fd[t] \ {f})
    /\ fd' = [fd EXCEPT ![k] = {}]
    /\ UNCHANGED dropped

\* Its second son: the pipe has overwritten the entry of f, the creator's input, which
\* is not closed.
PipeRight(t, k, f) ==
    /\ t # First /\ f \in fd[t]
    /\ dropped[f] < MaxDropped
    /\ ForkWith(t, k, fd[t] \ {f})
    /\ fd' = [fd EXCEPT ![t] = @ \ {f}, ![k] = {}]
    /\ dropped' = [dropped EXCEPT ![f] = @ + 1]

\* t creates k at the moment.
Creating(t, k) == parent[k] = t /\ pc[t] = "fork" /\ pc[k] = "new"

ForkFileBy(t, k, f, n) ==
    /\ Creating(t, k) /\ f \in todo[k]
    /\ fd' = [fd EXCEPT ![k] = @ \cup {f}]
    /\ refcnt' = [refcnt EXCEPT ![f] = @ + n]
    /\ todo' = [todo EXCEPT ![k] = @ \ {f}]
    /\ UNCHANGED <<pc, parent, arg, fence, alert, history>>

\* slip: the copy is not counted.
ForkUncounted(t, k, f) == ForkFileBy(t, k, f, 0)

ForkFile(t, k, f) == ForkFileBy(t, k, f, 1)

ForkEnd(t, k) ==
    /\ Creating(t, k) /\ todo[k] = {}
    /\ pc' = [pc EXCEPT ![t] = "run", ![k] = "run"]
    /\ UNCHANGED <<parent, fd, todo, arg, fileVars, history>>

\* run_back_cmd, which the shell (mysh) leaves to the tasks it creates.
ForkBack(t, k) ==
    /\ Creating(t, k) /\ todo[k] = {} /\ t # First
    /\ pc' = [pc EXCEPT ![t] = "run", ![k] = "run"]
    /\ parent' = [parent EXCEPT ![k] = NULL]
    /\ backed' = TRUE
    /\ UNCHANGED <<fd, todo, arg, fileVars, dropped, raced>>

\* vfs_close, called for one file or by exit for each.  The iclose of the file
\* system counts down under the lock.
Close(t, f) ==
    /\ f \in fd[t] /\ t # First
    /\ \/ Free(t) /\ Goto(t, "close")
       \/ pc[t] = "exit" /\ Goto(t, "exitclose")
    /\ refcnt' = [refcnt EXCEPT ![f] = @ - 1]
    /\ raced' = (raced \/ (refcnt[f] = 1 /\ Leaving(f) # {}))
    /\ arg' = [arg EXCEPT ![t] = f]
    /\ UNCHANGED <<parent, fd, todo, fence, alert, dropped, backed>>

\* The test of refcnt without the lock, kfree, and the end of vfs_close.
CloseIf(t, unused) ==
    /\ pc[t] \in {"close", "exitclose"}
    /\ fence' = IF unused THEN [fence EXCEPT ![arg[t]] = FALSE] ELSE fence
    /\ alert' = (alert \/ (unused /\ ~fence[arg[t]]))
    /\ fd' = [fd EXCEPT ![t] = @ \ {arg[t]}]
    /\ arg' = [arg EXCEPT ![t] = NULL]
    /\ Goto(t, IF pc[t] = "close" THEN "run" ELSE "exit")
    /\ UNCHANGED <<parent, todo, refcnt, history>>

\* slip: the memory goes back when one user is left.
CloseEarly(t) == CloseIf(t, refcnt[arg[t]] <= 1)

CloseCheck(t) == CloseIf(t, refcnt[arg[t]] = 0)

Exit(t) ==
    /\ Free(t) /\ t # First
    /\ Goto(t, "exit")
    /\ UNCHANGED <<parent, fd, todo, arg, fileVars, history>>

ExitEnd(t) ==
    /\ pc[t] = "exit" /\ fd[t] = {}
    /\ Goto(t, "absent")
    /\ UNCHANGED <<parent, fd, todo, arg, fileVars, history>>

Next ==
    \E t \in Task :
        \/ \E f \in File : OpenAlloc(t, f) \/ Close(t, f)
        \/ \E k \in Task :
            \/ \E f \in File :
                \/ PipeLeft(t, k, f) \/ PipeRight(t, k, f) \/ ForkFile(t, k, f)
            \/ Fork(t, k) \/ ForkEnd(t, k) \/ ForkBack(t, k)
        \/ OpenInit(t) \/ CloseCheck(t) \/ Exit(t) \/ ExitEnd(t)

Spec == Init /\ [][Next]_vars

-----------------------------------------------------------------------------
(* Properties                                                                *)

\* As long as no two tasks close a file last at once, refcnt is the number of tasks
\* that have it open and of entries that were overwritten, whatever the tasks do.
\* While there are any the file is memory in use, so no reader or writer of it works
\* on memory that was given back; and memory in use is somebody's file, or one that
\* an overwritten entry counts for ever.
RefcntExact ==
    /\ TypeOK
    /\ raced \/ \A f \in File :
         /\ fence[f] => refcnt[f] = Cardinality(Holding(f)) + dropped[f]
         /\ Holding(f) # {} => fence[f]
         /\ fence[f] => dropped[f] > 0 \/ \E t \in Task : f \in fd[t]

\* "Alert if multi-free" (kfree) tells of nothing but two tasks that have both
\* counted down when the first of them tests; and this takes an "&": before there
\* was one, a creator who waits, or the count of an overwritten entry, keeps the
\* memory for all but the last.
FreedOnce == (alert => raced) /\ (raced => backed)
=============================================================================
