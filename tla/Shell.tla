------------------------------- MODULE Shell -------------------------------
(***************************************************************************)
(* A line of the shell, from mysh (kernel/src/shell/shell.c) through its     *)
(* tree to the tasks that run it (runcmd.c) with their tables of open files: *)
(* redirections, lists, pipes and "&".  The tree a line has is a constant    *)
(* here; ShellLine puts the parser in its place.  A node of the tree is      *)
(* known by its path, a sequence of 1 (left, or the only one) and 2 (right); *)
(* a task by the path of the node it was created for.  A command may read    *)
(* its standard input to the end before it ends; what it writes fits into a  *)
(* pipe.  The memory of tasks and open files is in Kmt and Vfile.            *)
(***************************************************************************)
EXTENDS Integers, Sequences, FiniteSets

CONSTANTS
    Line,       \* the lines that may be typed
    TreeOf(_),  \* what parsecmd makes of a line: whether it panics, or the tree
    FdNum       \* FD_NUM

ASSUME ShellAssumption == FdNum \in Nat /\ FdNum > 4

VARIABLES
    line,       \* mysh's buffer, input
    tree,       \* TreeOf(line)
    shell,      \* mysh: "type", "wait", "prompt", "next" when the buffer has a new line
    task,       \* the tasks created so far: at (a node), pc, fd
    refcnt,     \* of the open files that are not pipes
    open,       \* the pipes, by their node, and whether they are open
    place,      \* of each command that was started: what it reads and writes
    late,       \* the commands started when the buffer had a new line
    early       \* the pipes of which a reader saw the end before a writer ended

vars == <<line, tree, shell, task, refcnt, open, place, late, early>>

-----------------------------------------------------------------------------
(* Files, nodes, tables                                                      *)

None == <<"none", <<>> >>
In == <<"in", <<>> >>
Out == <<"out", <<>> >>
Err == <<"err", <<>> >>
Target(p) == <<"file", p>>
ReadEnd(p) == <<"r", p>>
WriteEnd(p) == <<"w", p>>
IsPipe(f) == f[1] \in {"r", "w"}

Fd == 0 .. FdNum - 1
ShellFd == [i \in Fd |-> CASE i = 0 -> In [] i = 1 -> Out [] i = 2 -> Err [] i > 2 -> None]

Child(cmd, i) == IF cmd.type \in {"REDIR", "BACK"} THEN cmd.cmd
                 ELSE IF i = 1 THEN cmd.left ELSE cmd.right

NodeAt(p) ==
    LET node[n \in 0 .. Len(p)] == IF n = 0 THEN tree.cmd ELSE Child(node[n - 1], p[n])
    IN  node[Len(p)]
At(t) == NodeAt(task[t].at)

\* new_fd_num
NewFd(fd) == CHOOSE i \in Fd : fd[i] = None /\ \A j \in 0 .. i - 1 : fd[j] # None

\* vfs_close of the files of a set: pipe_iclose, and the count of the others.
Files(fd) == {fd[i] : i \in Fd} \ {None}
ClosesWith(S, open2) ==
    /\ refcnt' = [f \in DOMAIN refcnt |-> IF f \in S THEN refcnt[f] - 1 ELSE refcnt[f]]
    /\ open' = open2

\* slip: a pipe has no iclose.
ClosesFiles(S) == ClosesWith(S, open)

Closes(S) == ClosesWith(S, [p \in DOMAIN open |->
                              open[p] /\ S \cap {ReadEnd(p), WriteEnd(p)} = {}])

\* kmt_create: the new task has its creator's files, each counted once more.
CountedFor(fd) ==
    [f \in DOMAIN refcnt |-> IF f \in Files(fd) THEN refcnt[f] + 1 ELSE refcnt[f]]

State(p, pc, fd) == [at |-> p, pc |-> pc, fd |-> fd]
New(p, fd) == State(p, "run", fd)
With(f, x, v) == [y \in DOMAIN f \cup {x} |-> IF y = x THEN v ELSE f[y]]

Ended(p) == p \in DOMAIN task /\ task[p].pc = "end"

-----------------------------------------------------------------------------
(* mysh                                                                      *)

Init ==
    /\ line \in Line
    /\ tree = TreeOf(line)
    /\ shell = "type"
    /\ task = <<>> \* no task
    /\ refcnt = [f \in {In, Out, Err} |-> 1]
    /\ open = <<>> /\ place = <<>>
    /\ late = {} /\ early = {}

\* The line was read: a son is created for it.
Enter ==
    /\ shell = "type"
    /\ shell' = "wait"
    /\ task' = With(task, <<>>, State(<<>>, "parse", ShellFd))
    /\ refcnt' = CountedFor(ShellFd)
    /\ UNCHANGED <<line, tree, open, place, late, early>>

\* slip: mysh does not wait.
PromptAtOnce ==
    /\ shell = "wait"
    /\ shell' = "prompt"
    /\ UNCHANGED <<line, tree, task, refcnt, open, place, late, early>>

\* kmt_wait returns; the prompt is written.
Prompt ==
    /\ shell = "wait" /\ Ended(<<>>)
    /\ shell' = "prompt"
    /\ UNCHANGED <<line, tree, task, refcnt, open, place, late, early>>

\* std_read puts the next line into the same buffer.
NextLine ==
    /\ shell = "prompt"
    /\ shell' = "next"
    /\ UNCHANGED <<line, tree, task, refcnt, open, place, late, early>>

-----------------------------------------------------------------------------
(* The tasks                                                                 *)

Goto(t, pc) == task' = [task EXCEPT ![t].pc = pc]

\* fork_and_run_raw's parsecmd; a panic is exit.
Parse(t) ==
    /\ task[t].pc = "parse"
    /\ Goto(t, IF tree.panic THEN "exit" ELSE "run")
    /\ UNCHANGED <<line, tree, shell, refcnt, open, place, late, early>>

\* runcmd at a node of the type
Runs(t, type) == task[t].pc = "run" /\ At(t).type = type

RunNothing(t) ==
    /\ Runs(t, "EXEC") /\ At(t).argv = <<>>
    /\ Goto(t, "exit")
    /\ UNCHANGED <<line, tree, shell, refcnt, open, place, late, early>>

\* vfs_exec.  The command may be one that reads its input to the end; the end of a
\* pipe depends on other tasks.
RunExec(t) ==
    /\ Runs(t, "EXEC") /\ At(t).argv # <<>>
    /\ place' = With(place, task[t].at, <<task[t].fd[0], task[t].fd[1]>>)
    /\ late' = IF shell = "next" THEN late \cup {task[t].at} ELSE late
    /\ Goto(t, "exec") \/ (IsPipe(task[t].fd[0]) /\ Goto(t, "read"))
    /\ UNCHANGED <<line, tree, shell, refcnt, open, early>>

\* The command ends.
ExecEnd(t) ==
    /\ task[t].pc = "exec"
    /\ Goto(t, "exit")
    /\ UNCHANGED <<line, tree, shell, refcnt, open, place, late, early>>

\* pipe_read returns 0.
ExecRead(t) ==
    LET p == task[t].fd[0][2]
    IN  /\ task[t].pc = "read" /\ ~open[p]
        /\ early' = IF \E u \in DOMAIN task : /\ task[u].pc \notin {"exit", "end"}
                                              /\ task[u].fd[1] = WriteEnd(p)
                    THEN early \cup {p} ELSE early
        /\ Goto(t, "exec")
        /\ UNCHANGED <<line, tree, shell, refcnt, open, place, late>>

\* run_redir_cmd
RunRedir(t) ==
    LET fd == [task[t].fd EXCEPT ![At(t).fd] = None]
        f == Target(task[t].at)
    IN  /\ Runs(t, "REDIR")
        /\ \/ /\ Closes({task[t].fd[At(t).fd]})       \* the file cannot be opened
              /\ task' = [task EXCEPT ![t] = State(@.at, "exit", fd)]
           \/ /\ NewFd(fd) = At(t).fd
              /\ task' = [task EXCEPT ![t] = State(Append(@.at, 1), "run",
                                                    [fd EXCEPT ![NewFd(fd)] = f])]
              /\ LET g == task[t].fd[At(t).fd]
                 IN  /\ refcnt' = With([h \in DOMAIN refcnt |->
                                          IF h = g THEN refcnt[h] - 1 ELSE refcnt[h]], f, 1)
                     /\ open' = [p \in DOMAIN open |->
                                   open[p] /\ g \notin {ReadEnd(p), WriteEnd(p)}]
        /\ UNCHANGED <<line, tree, shell, place, late, early>>

\* run_list_cmd and run_back_cmd create a son for the left, or only, part.
Creates(t, pc) ==
    LET son == Append(task[t].at, 1)
    IN  /\ task' = With([task EXCEPT ![t].pc = pc], son, New(son, task[t].fd))
        /\ refcnt' = CountedFor(task[t].fd)
        /\ UNCHANGED <<line, tree, shell, open, place, late, early>>

RunList(t) == Runs(t, "LIST") /\ Creates(t, "list")
RunBack(t) == Runs(t, "BACK") /\ Creates(t, "exit")

\* slip: the right part does not wait for the left one.
ListOn(t) ==
    /\ task[t].pc = "list"
    /\ task' = [task EXCEPT ![t] = State(Append(@.at, 2), "run", @.fd)]
    /\ UNCHANGED <<line, tree, shell, refcnt, open, place, late, early>>

ListRight(t) ==
    /\ task[t].pc = "list" /\ Ended(Append(task[t].at, 1))
    /\ task' = [task EXCEPT ![t] = State(Append(@.at, 2), "run", @.fd)]
    /\ UNCHANGED <<line, tree, shell, refcnt, open, place, late, early>>

PipeFds(fd) == LET r == NewFd(fd) IN <<r, NewFd([fd EXCEPT ![r] = Err])>>

\* slip: the second entry for the end to write to is not cleared.
LeftTwice(fd, p) == [fd EXCEPT ![PipeFds(fd)[1]] = ReadEnd(p), ![1] = WriteEnd(p),
                               ![PipeFds(fd)[2]] = WriteEnd(p)]

\* run_pipe_cmd, up to the creation of the left son, who has the end to write to as
\* its output, and the end to read from besides.
LeftTable(fd, p) == [fd EXCEPT ![PipeFds(fd)[1]] = ReadEnd(p), ![1] = WriteEnd(p)]

\* slip: the output is not put back.
NotRestored(fd, output) == fd

Restored(fd, output) == [fd EXCEPT ![1] = output]

RunPipe(t) ==
    LET p == task[t].at
        fd == LeftTable(task[t].fd, p)
        son == Append(p, 1)
    IN  /\ Runs(t, "PIPE")
        /\ open' = With(open, p, TRUE)
        /\ task' = With([task EXCEPT ![t] = State(p, "right", Restored(fd, task[t].fd[1]))],
                        son, New(son, fd))
        /\ refcnt' = CountedFor(fd)
        /\ UNCHANGED <<line, tree, shell, place, late, early>>

\* The rest: the end to read from becomes the input, whatever was there.
RightTable(fd, p) ==
    [i \in Fd |-> CASE i = 0 -> ReadEnd(p)
                    [] i # 0 /\ fd[i] = ReadEnd(p) -> None
                    [] OTHER -> fd[i]]

PipeRight(t) ==
    LET p == task[t].at
        fd == RightTable(task[t].fd, p)
        son == Append(p, 2)
    IN  /\ task[t].pc = "right"
        /\ task' = With([task EXCEPT ![t] = State(p, "pipe", fd)], son, New(son, fd))
        /\ refcnt' = CountedFor(fd)
        /\ UNCHANGED <<line, tree, shell, open, place, late, early>>

PipeEnd(t) ==
    /\ task[t].pc = "pipe"
    /\ Ended(Append(task[t].at, 1)) /\ Ended(Append(task[t].at, 2))
    /\ Goto(t, "exit")
    /\ UNCHANGED <<line, tree, shell, refcnt, open, place, late, early>>

\* exit
Exit(t) ==
    /\ task[t].pc = "exit"
    /\ Closes(Files(task[t].fd))
    /\ task' = [task EXCEPT ![t] = State(@.at, "end", [i \in Fd |-> None])]
    /\ UNCHANGED <<line, tree, shell, place, late, early>>

Next ==
    \/ Enter \/ Prompt \/ NextLine
    \/ \E t \in DOMAIN task :
         \/ Parse(t) \/ RunNothing(t) \/ RunExec(t) \/ ExecEnd(t) \/ ExecRead(t)
         \/ RunRedir(t) \/ RunList(t) \/ RunBack(t) \/ ListRight(t)
         \/ RunPipe(t) \/ PipeRight(t) \/ PipeEnd(t) \/ Exit(t)

Spec == Init /\ [][Next]_vars /\ WF_vars(Next)

-----------------------------------------------------------------------------
(* Properties                                                                *)

Pc == {"parse", "run", "exec", "read", "list", "right", "pipe", "exit", "end"}

TypeOK ==
    /\ line \in Line
    /\ shell \in {"type", "wait", "prompt", "next"}
    /\ \A t \in DOMAIN task :
         /\ task[t].pc \in Pc
         /\ task[t].pc \notin {"exit", "end"} => \A i \in {0, 1, 2} : task[t].fd[i] # None
         /\ \A i \in Fd : IsPipe(task[t].fd[i]) => task[t].fd[i][2] \in DOMAIN open
    /\ \A f \in DOMAIN refcnt : refcnt[f] >= 0
    /\ late \subseteq DOMAIN place /\ early \subseteq DOMAIN open

\* What the command at a node is to read and write: it flows down the tree, into and
\* out of the ends of the pipes; of several redirections of one descriptor the first
\* in the line, the innermost node, counts.
Onward(p, i, flow) ==
    CASE NodeAt(p).type = "REDIR" ->
           <<IF NodeAt(p).fd = 0 THEN Target(p) ELSE flow[1],
             IF NodeAt(p).fd = 1 THEN Target(p) ELSE flow[2]>>
      [] NodeAt(p).type = "PIPE" /\ i = 1 -> <<flow[1], WriteEnd(p)>>
      [] NodeAt(p).type = "PIPE" /\ i = 2 -> <<ReadEnd(p), flow[2]>>
      [] OTHER -> flow

Streams(p) ==
    LET flow[n \in 0 .. Len(p)] ==
          IF n = 0 THEN <<In, Out>> ELSE Onward(SubSeq(p, 1, n - 1), p[n], flow[n - 1])
    IN  flow[Len(p)]

Held(f) == {h \in (DOMAIN task) \X Fd : task[h[1]].fd[h[2]] = f}
Holders(f) == (IF f \in {In, Out, Err} THEN 1 ELSE 0) + Cardinality(Held(f))

\* Every command reads and writes what its place in the line says, through all the
\* moving of entries in the tables that tasks pass on.  And a file somebody has open
\* counts at least its holders, so it is not freed under them; up to the first pipe,
\* which drops its creator's input unclosed, it counts exactly.
Placed == \A p \in DOMAIN place : NodeAt(p).type = "EXEC" /\ place[p] = Streams(p)
CountsCover ==
    \A f \in DOMAIN refcnt :
        IF DOMAIN open = {} THEN refcnt[f] = Holders(f) ELSE refcnt[f] >= Holders(f)
TablesRight == TypeOK /\ Placed /\ CountsCover

\* What TablesRight rests on: a redirection is of the input or the output, and a
\* table has room for both ends of a pipe (new_fd_num's -1 is not looked at).
Roomy ==
    \A t \in DOMAIN task :
        /\ Runs(t, "REDIR") => At(t).fd \in {0, 1}
        /\ Runs(t, "PIPE") =>
             \E i, j \in Fd : i # j /\ task[t].fd[i] = None /\ task[t].fd[j] = None

Prefix(p, q) == Len(p) <= Len(q) /\ SubSeq(q, 1, Len(p)) = p

\* The task was created below p behind an "&".
Behind(p, q) ==
    \E n \in Len(p) .. Len(q) - 1 : NodeAt(SubSeq(q, 1, n)).type = "BACK"

\* The part behind ";" starts when nothing of the part before it runs any more, but
\* for what is behind an "&" there.
InOrder ==
    \A t, u \in DOMAIN task : \A n \in 0 .. Len(task[t].at) - 1 :
        LET p == SubSeq(task[t].at, 1, n)
        IN  /\ NodeAt(p).type = "LIST" /\ task[t].at[n + 1] = 2
            /\ Prefix(Append(p, 1), u) /\ ~Behind(p, u)
            => task[u].pc = "end"

\* At the prompt nothing of the line runs but what is behind an "&", and only such
\* commands can meet the next line in the buffer where their words were.
OnlyBackgroundLate ==
    /\ shell \in {"prompt", "next"} =>
         \A t \in DOMAIN task : task[t].pc = "end" \/ Behind(<<>>, t)
    /\ \A p \in late : Behind(<<>>, p)

\* Whatever the line, mysh prompts again, and all its tasks end: every reader of a
\* pipe sees an end, every waiting task has its sons back.
Settles == <>(shell = "next" /\ \A t \in DOMAIN task : task[t].pc = "end")
=============================================================================
