# A specification of os-workbench

TLA+ modules, TLC runs and TLAPS proofs about the programs of this repository:
a small multiprocessor kernel (`kernel/`), a key-value store shared by threads
and processes (`libkvdb/`), a coroutine library (`libco/`) and a few command-line
programs. Line numbers below are those of the files under `src/`.

`Kmt` is the core: the kernel's scheduler. Everything else the kernel does
happens inside the tasks it switches.

## 1. Inventory

| Part | State | Operations | Works with | Hard behaviour | Correct when |
|---|---|---|---|---|---|
| Scheduler, tasks (`kernel/src/kmt.c`, `os.c`) | `tasks[0x40]`, `currents`, `lasts`, `tasks_lk`, the pid counter; per task `attr`, `running`, `pid`, context, stack | `kmt_context_save/switch/clean` (in every trap), `kmt_create`, `kmt_wait`, `kmt_teardown`, `exit` | called by traps, the shell and device tasks; `pmm`, `pool`, `vfs` | CPUs interleave inside one trap; a task's stack is used after the task was switched out; memory is freed by another task | one CPU per stack; each dead task freed once and never used again |
| Semaphores (`kmt.c` 254-310) | `value`, ring `pool`, `head`, `tail`, lock | `sem_wait`, `sem_signal` | tty, input, and keyboard interrupts | signals from interrupt handlers; the gap between parking and yielding | no lost wakeup, first come first woken |
| Spin locks, interrupt counters (`kmt.c` 210-252, `klib/src/intr.c`, `pthread.c`) | `locked`, `owner`, `reen`; `ncli`, `intena` per CPU, saved with a task | `spin_lock`, `spin_unlock`, `intr_close`, `intr_open` | input queue; the scheduler saves and restores the counters | reentrance, migration between CPUs | mutual exclusion; interrupts open again exactly when they were |
| Pool (`pool.c`) | ring of 20 pointers, lock | `enqueue` (yields when full), `dequeue` | `ctx_queue` of dead background tasks | a full ring inside `exit` | FIFO, nothing lost |
| Shell (`shell/shell.c`, `runcmd.c`, `parse.c`) | input buffer, command tree, the fd table it edits | `mysh`, `parsecmd`, `runcmd` and one function per command kind | creates, waits for and frees tasks; pipes; files | background commands outlive the buffer they point into; ends of pipes are in the tables of tasks that do not use them | every son has one reaper; every command has the input and output its place in the line says; a line ends |
| Pipe (`pipe.c`) | ring of 0x100 bytes, `head`, `tail`, `open` | `pipe`, read, write, close | two tasks, through `vfs` | no lock; requests split at the ring's end and when full; end of file | FIFO stream; both ends make progress |
| Open files (`fs/vfs.c`) | fd tables, `vfile_t` (`refcnt`, `lk`, `offset`), mount table | open, close, read, write, mount, link, lookup | file systems below; `kmt_create` copies, `exit` closes | the last users close at the same time | count exact; freed once, after the last use |
| blkfs on yls (`fs/blkfs.c`, `yls/`) | bitmap, inodes, block chains, directory entries on a ramdisk; inode cache | lookup and create, read, write, mkdir, rmdir, link, unlink | `vfs`, ramdisk device | several writes per operation, no lock; chains grow and are read across block ends | no block in two files; a file holds what was written; a directory finds its names |
| devfs, procfs (`fs/devfs.c`, `procfs.c`) | inodes per device, and per pid | open, read, readdir | reads `tasks[]` | tasks vanish while they are read | shows live tasks only |
| Path names (`dir.c`) | none (a pure function on strings) | `dir_cat`, `to_absolute` | shell, vfs | `..` at the root, repeated slashes | result is absolute and normal |
| Allocator (`alloc.c`) | a free list per CPU, a global rest, fences | `kalloc`, `kfree` | everybody | `kfree` runs with interrupts on; blocks change CPU | blocks disjoint; nothing handed out twice; nothing lost |
| Input, tty (`devices/input`, `devices/tty`) | event ring, line queue, screen | key events, cook, read, write | semaphores, keyboard interrupt | full queues, producer in two tasks | a line read is a line typed |
| Devices (`devices/dev.c`, video, ramdisk, virtual) | frame buffer, memory | read, write | tty, blkfs | - | - |
| libkvdb locking (`libkvdb/kvdb.c` 296-333) | `wr_acq`, `rd_cnt`, rwlock, flock | `kvdb_lock` for read, write, unlock | threads and processes on one file | an unguarded counter; two locks in one order, released in another | one writer, or readers; no starvation |
| libkvdb file (`kvdb.c` 135-293, 356-429) | table and string chains, free list, backup in the header | `kvdb_put`, `kvdb_get`, recovery | the lock above | a crash between two writes | a reader sees the old or the new value |
| libco (`libco/co.c`) | routine objects, their pool, `current`, `ret_buf` | `co_init`, `co_start`, `co_yield`, `co_wait` | the program's coroutines | jumps into frames that may be gone; reuse of routine objects | no jump lands in a dead frame; waiting waits |
| crepl, frecov, pstree, sperf, amgame | local | sequential programs | compilers, disk images, `/proc`, `strace`, a screen | - | not modelled |
| abstract-machine | hardware, benchmarks, vendored libraries | - | kernel, amgame | - | not modelled, except the mutex and interrupt functions of klib |

`PROJECT.json` repeats the list with the status of each part, and has the hazards
of the code, each at its line, with the properties that watch it.

## 2. Modules

| Module | Models | Checked by |
|---|---|---|
| `Kmt` | `kmt.c`, the trap loop of `os.c`, what `shell.c`, `runcmd.c` do with tasks | `MCKmt` with two cfgs, `KmtProofs` |
| `Semaphore` | abstract: what `sem_wait` and `sem_signal` promise | `SemSpec` in `Kmt` |
| `KmtProofs` | theorems about `Kmt`: stacks, the life of tasks, the semaphore | tlapm |
| `Pmm` | `alloc.c` | `MCPmm`, `PmmProofs` |
| `PmmProofs` | theorems about `Pmm` | tlapm |
| `Pipe` | `pipe.c` | `MCPipe`, `PipeProofs` |
| `ByteStream` | abstract: a bounded stream of bytes | `StreamSpec` in `Pipe` |
| `PipeProofs` | theorems about `Pipe` | tlapm |
| `Vfile` | `vfile_t` from `vfs_open` to the free in `vfs_close` | `MCVfile`, `VfileProofs` |
| `VfileProofs` | theorems about `Vfile` | tlapm |
| `Blkfs` | `blkfs.c` over `yls/`, the calls of `vfs.c` that reach it, `dir.c` | `MCBlkfs`, `BlkfsProofs` |
| `BlkfsProofs` | theorems about `Blkfs` | tlapm |
| `ShellParse` | `parse.c`, and the language it is to recognise | `ParseRight` in `ShellLine` |
| `Shell` | `mysh`, `runcmd.c`, the fd tables of a line's tasks, for any tree | `MCShell`, `ShellProofs` |
| `ShellLine` | composes the two: lines of text, parsed and run | `MCShell` |
| `ShellProofs` | theorems about `Shell` | tlapm |
| `Tty` | `input.c` and `tty.c`, from the keyboard to `tty_read` | `MCTty`, `TtyProofs` |
| `LineDiscipline` | abstract: the lines of one terminal | `LineSpec` in `Tty` |
| `TtyProofs` | theorems about `Tty` | tlapm |
| `KvdbLock` | `kvdb_lock` | `MCKvdbLock`, `LibProofs` |
| `KvdbFile` | the file: `init_db`, `kvdb_get`, `kvdb_put`, recovery | `MCKvdbFile`, `LibProofs` |
| `Libco` | `co.c` | `MCLibco`, `LibProofs` |
| `LibProofs` | theorems about the two libraries: `KvdbLock`, `KvdbFile` and `Libco` | tlapm |

The kernel's parts meet in shared state that each module keeps as much of as its
questions need: `Kmt` has the life of tasks and none of their files; `Vfile` the
counting of files by tasks that come and go; `Shell` the tables of files of the
tasks of one line, with a pipe reduced to open or closed; `Pipe` one pipe with its
bytes; `Blkfs` what is behind a file.

Where the code has a race it does not guard, the module has the race too, and a history
variable that no guard reads becomes TRUE in the step in which it has done harm
(`swapped` and `late` in `Kmt`, `raced` in `Pmm` and `Vfile`, `spoilt` in `KvdbFile`). The
properties of these modules say what holds until then: that the code is right in every
interleaving but that one, and that nothing else brings it about. The runs do not go on
behind such a step (`CONSTRAINT InOrder`), where the invariants say nothing; the theorems
are about all behaviours.

A definition whose comment begins "slip:" is a mistake the code does not make (a
dropped guard, an unlock at the wrong place). It has no part in the
specification; a mutation run puts it in the place of the definition that
follows it, and one of the properties has to notice.

### Kmt

A CPU is in `mode` "run", or at a step of `os_trap`: the handlers run in the order
of their sequence number: `kmt_context_save` ("save"), then the keyboard handler
`input_notify` if the trap was its interrupt ("notify"), then
`kmt_context_switch` ("switch", and "try" between the look at a slot of the
table and the `trylock`), then `kmt_context_clean` ("clean"). Each is a step of
its own because other CPUs run between them. `current`, `last` are the arrays of
the code; `stack` is the task whose stack the CPU's stack pointer is in, which
changes only when the trap returns and is what makes the late release of
`running` necessary. `rand()` is a choice of the slot.

A task is a `task_t` object. `pc` says where its code is: `work` stands for any
code that may create a task, wait for or signal the semaphore, or exit. From a
creation follows the code that all of the shell has in common: wait for the son
and free it (`mysh`, `run_list_cmd`), or leave it in the background
(`run_back_cmd`). Freeing returns the object; the contents of freed memory
(`attr`, `pid`, ...) stay until the next creation overwrites them, as in the
code. `exit` and the sections under a semaphore's lock run with interrupts
closed; so does nothing else, in particular not `add_task`: `TimerInCreate` says
whether an interrupt may hit it there.

`add_task` takes the next slot of the table that is free, round and round
(`NextPid`, `AddProbe`, `AddTask`): a slot is one task's and later another's.
`kmt_context_switch_real` uses `tasks[new]` three times without a lock, for `attr`
(`Pick`), for the `trylock` and for `current` (both `TryRun`). The array is not volatile, and the
build (`-O2`) reads it once for the first two: that is `cand`. What is locked can be another
task than the one that is dispatched, if the slot was given to another in between, and can be
memory that was freed: then `swapped` becomes TRUE. (`kfree` leaves memory as it is and `kalloc`
zeroes it, so `trylock` on freed memory is taken to succeed or not.) If the task went to sleep in
between, it runs all the same: `late`. If the slot is NULL by then, the fence test reads address 0
and the CPU spins for ever; that is the mode "hung".

Left out: the 10000 draws are not counted; `idle`, `os_run` and their contexts
are one thing (no task); one semaphore stands for all; the fd table is in
`Vfile`.

### Pipe

`pipe_read` and `pipe_write` are recursive. What a call still has to do is a stack
of counts, with a mark for the assignment `head = 0` or `tail = 0` between the two
parts of a request that goes around the ring. The computation of `size`, the test
of `open`, `memcpy` and the store of the index are separate steps. The ring has
`Size` bytes where the code has 0x100, and holds `Size - 1`. Byte number i has
the value i, so that the order and the identity of bytes are visible.

`pipe_read` looks at `size` (`ReadSize`) and, if there is nothing, at `open` (`ReadOpen`,
`pipe.c:57-58`). When the writer writes and closes in between, the reader takes the close
for the end and the last bytes never come out. `ByteStream` allows it: bytes that are on
their way when the end is told are gone. `EndMissed` says which bytes these can be.

### Vfile

The reference count of an open file: `vfs_open` (a cleared block, then `iopen` sets
1), the loop of `kmt_create` (one step per file), `vfs_close` in two steps (the
count under the lock; the test and the free without), and `exit`. The shell waits
for its commands, one at a time; a command waits for its parts (`Free`), but not for one
behind an `&` (`ForkBack`), and creates the second part of a pipe before the first has ended.
The two sons of a pipe do not get all of their creator's files: the first lacks its
output, which `run_pipe_cmd` keeps back (`PipeLeft`); for the second the creator's input is
overwritten with the pipe's end and never closed (`PipeRight`, `runcmd.c:103`). Such an entry
counts for ever: `dropped`. The `iclose` functions of blkfs, devfs and procfs are the same;
that of a pipe counts and frees nothing (`pipe.c` 104), so pipes are not files of this module.

A task being created has the pc "new" until its creator's loop is done. `raced` becomes TRUE when a
file's last user counts down while another closer has yet to test the count: then both may free
it.

### Pmm

Memory is counted in units of the 16 bytes every request is rounded up to; a header
takes `Header` of them. `next` and `size` are the headers, by address, as they lie in
memory; a block handed out overwrites what was there (`memset`). `kalloc` runs with
interrupts closed and on the list of its CPU alone: one step, first fit, the block
from the tail of the node; else a page from `global`, linked at the end of the ring;
else the assertion (`panicked`). `kfree` is two steps, the walk and the linking with
its merges, because it runs with interrupts on and on the list of whichever CPU the
task happened to be on when it asked for `_cpu()`: the task may be interrupted or be
elsewhere by then, and between the two steps any CPU and any task may do anything, on the same
ring too. If one does change that ring, `raced` becomes TRUE: the place found may not be a
place any more. An interrupt inside the walk, or inside the linking, is not a state of
the model; one that changes the ring there is harm of the same kind, and as little claimed
about. `alloc_cnt` and `free_cnt` are left out. A CPU stands for its sentinel too, which is in no list but its
own and outside the heap; so no CPU is a number.

### Blkfs

All blocks of the disk are one array of words, and a pointer is a position in it,
because `block_read` and `block_write` compute with such pointers. A block has
`Mem` words and the link. `FindBlock`, `BlockRead` and `BlockWrite` are the
functions of `yls/string.c`; `Lookup` is `blkfs_ifind` along a path, with the four ways
it ends; the calls (`Open`, `Read`, `Write`, `Mkdir`, `Link`, `Remove`, `Chdir`) are
what `vfs.c` and `blkfs.c` do with them, and each is one step: what two calls
at the same time do is another question, which the run does not ask. Where the code goes
on with block 0, an inode behind the table or a null pointer, the model stops
(`fault`).

`text` and `tree` are what the calls promise: what was written to a file at each
position (positions skipped are NULL), and the inode each name of a directory
stands for. Names that begin with a dot are not modelled (the code takes
all of them for "." or ".."), nor is `ireaddir`.

### ShellParse and Shell

The parser works on the tokens of a line and is the code's descent, function by
function. Next to it stands the language: `LineTrees(s, i, j)` is the set of trees
that a stretch of tokens can stand for, by the grammar, without a direction.

`Shell` runs one line. The tree a line has is the constant `TreeOf(_)`, so the module can
be proved about for every tree; `ShellLine` says that it is `parsecmd`, and states what
depends on the form of a whole tree. A node of the tree is known by its path from the root, a task
by the node it was created for; a task that goes on with a part of its command
(`runcmd` calls itself) moves its `at`. `fd` is its table. `refcnt` counts the users
of files that are not pipes; of a pipe there is what `pipe.c` keeps, whether it is
`open`. A command may read its input to the end (`read`) or not; what it writes fits
into a pipe. `Streams(p)` is what the command at a node is to read and write: the flow
from the root down, with what each node on the way makes of it (`Onward`). `Roomy` is what
`runcmd` takes for granted: a redirection is of descriptor 0 or 1, and a table has two
free places when a pipe is made (`new_fd_num` answers -1 otherwise, and nobody looks). `shell` is "next" when the user has typed another line into the buffer
that the words of the old one point into. A redirection may fail.

`cd`, which `mysh` does itself, is `Chdir` of `Blkfs`; what the other built-in commands do
to files are the calls of `Blkfs`.

### KvdbLock

One action per access to shared memory: the two halves of `++rd_cnt` are two
actions, as are the two looks at `wr_acq`. The rwlock is the default of pthread:
readers enter unless a writer is inside. flock belongs to the open file, which the
threads of a process share, and a change of its kind lets go of the old lock
first. Both are external code, modelled from how `kvdb_lock` calls them.

### KvdbFile

The file is an array of 32-bit words with the real sizes of a tab (5 words) and a
string block (7 words and a link), so that a write at a wrong place hits what it
would hit. `put` is the call in progress: its place and its local variables; one
action per `pwrite` that something else depends on (the two writes of a block's
text are one: nothing refers to the block yet). A get runs under the lock and
changes nothing, so it is an operator: `kvdb_get(key)` is what a get would answer
in the state. `Die` ends the process between two writes. `dict` is what the puts
that returned have promised, `half` a new key whose put died after its entry was
written.

`Die` may come before any write of a put, of the recovery too. What the next put's
recovery makes of it depends on the header: recovery writes one link, from `backup_prev`
to the head it finds. It is right in two cases, `Untouched` (no block has been taken from the
free list, and the first block, where recovery writes if no block was noted, is
unused) and `Linked` (an update that has noted the last block it took and moved the head of the
list past it). Any other death leaves the file `torn`; when such a file is recovered from,
it is `spoilt`. `torn` is a little more than the files recovery damages: an
insertion that died after its value and before its key took a block would be undone.

Not modelled: empty strings (an entry with one shows stale text, hazard at
`kvdb.c:213`), reads past the end of the file, `kvdb_traverse`.

### Libco

`main` starts and waits for coroutines, as in `libco/tests`; a body works, yields
and returns. `executing` is main or the routine `current` points to. A jump is
an assignment to `executing`; `waited` is the `co_wait` whose frame `ret_buf`
points to. `co_start` from inside a coroutine is not modelled: the tests do not
do it, and it overwrites `current`.

### Tty

Four actors: the keyboard (`Key`) with its interrupt (`Irq`), `input_task`,
`tty_task`, and tasks that read. `sem_wait` and `sem_signal` are a counter here;
what they promise is `Semaphore`'s business. The gap between the last `read_key`
and `sem_wait`, the gap between the store of an event and its signal, and the one
between `cooked` and `lock` in `tty_read` are states of the model. A section under
a terminal's lock is one step, because everybody who touches the terminal takes
the lock; the loop of `tty_read` takes a step per character. Events are the
sequence between `front` and `rear` of their ring; the cooking buffer is modelled
as the code has it, an array with two indexes and a `'\0'` at the rear, because
Backspace and the reader look for the `'\0'`.

`LineDiscipline` speaks of one terminal: the lines to be read, the last of them
being typed, and what was read last. `Tty` maps to it the text between `front`
and `rear`, with what the reader in the loop has taken, cut at each `'\0'`.
A panic (a full ring or buffer) ends the behaviours.

Not modelled: shift and capslock, which only choose the character; what tasks
write to a terminal; drawing.

## 3. Runs

| Run | Question | Bounds |
|---|---|---|
| `kmt_semaphore` | Does the semaphore implement `Semaphore`, with creation, exit, keyboard interrupts and switches going on? Are dead tasks freed, and woken tasks run, in the end? | 1 CPU, 2 tasks, 3 slots, values from -2 to 1 |
| `kmt_life` | Are stacks and memory of tasks safe when two CPUs create, wait, background, exit and reap, and slots are used again? | 2 CPUs, 3 tasks, 3 slots, no semaphore |
| `pmm_heap` | Is no memory handed out twice, and none lost, by splitting, joining and freeing on the other CPU, with interrupts inside `kfree`, until one changes its ring? | 2 CPUs, 2 tasks, a heap of 16 units, headers of 2, pages of 4, sizes 2, 3 and 5 |
| `pipe_stream` | Is the pipe a FIFO stream, what can a reader miss at its end, and do both ends get on? | ring of 4, 10 bytes, requests up to 6 |
| `vfile_shell` | Are open files counted exactly and freed once, with pipes and `&`, until two tasks close one last at once? Does that take an `&`? | 5 tasks, 2 files, one overwritten entry per file |
| `blkfs_disk` | Does a file hold what was written and a directory find its names, after any sequence of calls? Is every block used once, and the prompt right? | 3 inodes, 6 blocks of 3 words, 2 handles, reads and writes of 3 and 4 words up to a size of 7, 2 names, paths of one and two of them and `..` |
| `shell_line` | Is every line parsed as the grammar says? Does every command get its files, in the order the line asks for, and does the line end? | all lines of up to 4 tokens of 8 kinds, of 5 tokens without redirections, and 16 longer ones; 2 words per command |
| `tty_lines` | Are lines read whole, once and in order, and do the semaphores' counts agree with the queues? | 2 terminals, 2 readers, 4 keys of 6 codes (2 unread), 3 places for events, 5 in the buffer, a screen of 2 characters |
| `kvdb_threads` | Are waiting writers counted, and is nobody starved or parked for ever? | 1 process, 2 readers, 2 writers, limit 1 |
| `kvdb_file` | Does a get answer with the last value put, is every block used once, whichever write was the last of a put that died? | 2 keys; values of 1 word, 1 block, 2 blocks; 5 puts |
| `kvdb_shared_file` (violation) | Is a writer alone in the file when processes have several threads? | 2 processes, 2 writers and a reader |
| `libco_pool` | Do routine objects come back exactly once, and do jumps land? | 3 routines, 2 yields each, 4 handles |

Why the bounds are enough. Two CPUs and three tasks are what the protocols of
`Kmt` relate: a CPU that leaves a stack, one that wants it, and the task that
creates or reaps the other two. With three slots the pids go round in a few creations: a slot
is passed over while its task lives, used again after, and given to another task while a
CPU has it in hand. The semaphore on several CPUs, whose dispatch of a sleeper the run's one CPU
cannot make, is left to the theorems. The semaphore's ring has one place more than there are tasks (assumed in
`MCKmt`), so it goes around its end. In `Pmm` the heap has room for three pages and a
large block: a ring has nodes before, between and behind one that is freed, blocks of
one CPU's pages end up in the other's ring, a request fits with room for a header,
fits without, and exceeds a page, and the heap runs out. In `Pipe` the stream goes
around the ring twice and a request is longer than the ring (assumed in `MCPipe`), so
every split occurs at every position. Five tasks of `Vfile` are a shell, its command,
and a command's parts with parts of their own, so two last users of a file can be
of different depth, and closers can be two sons of one creator behind an `&`. A second
overwritten entry would only keep a count at 2 instead of 1.
In `Blkfs` a size of 7 is two block ends and a word; a directory has two entries, so that it is full, and a removed entry is between used ones; six
blocks run out after two creations with a long file. `Shell` has every form inside every
other one (groups, pipes and lists two deep), and a pipe next to each. `Limit` 1 in
`KvdbLock` keeps the three cases apart: below, at and above the threshold; a larger one
only repeats the first. In `KvdbFile` five puts are
enough to enter both keys, free a value of two blocks, use its blocks again, and
recover in between; the values end inside a block, at its end, and behind it. In
`Tty` four keys are enough to have two different lines unread, to go round the
cooking buffer and erase back over its end, and to fill either queue; the readers
are alike, so states that differ only in their names are one (`SYMMETRY`), as are
CPUs and tasks of `Pmm`, CPUs and created tasks of `kmt_life`, handles of `Blkfs` and all but
the first task of `Vfile`. No run with a symmetry checks liveness.

Deadlock is not checked where the system may stop: `kmt_life` (the self-deadlock
on `tasks_lk` and the hung CPU are among its behaviours), `pipe_stream` (both ends
have finished), `libco_pool` (the pool is empty and the program ends in new_co's
Assert), `tty_lines` (no more keys, or a panic), `pmm_heap` (the assertion), `blkfs_disk`
(a `fault`), `shell_line` (the line has ended; that it does is `Settles`).

### The violation

`kvdb_shared_file`: unlocking releases the rwlock before the file; the next
thread of the process thinks it holds the file and loses it (`kvdb.c:6`
promises control between processes and between threads).

### What the code does otherwise

The modules have these races, and the properties end with them. Each can be seen by taking the
history variable out of the property and the `CONSTRAINT` out of the cfg; TLC then shows the
behaviour.

* `late`: `kmt_context_switch_real` looks at `attr` and takes the lock afterwards
  (`kmt.c:90`). With two CPUs the task can run and park on the other one in between; it is then
  dispatched asleep and comes back from `sem_wait` without a signal. `input.c:26`
  panics in that case. `SemExact` and `SemSpec` hold until then.
* `swapped`: between the same look and `current = tasks[new]` the slot can be given to
  another task (`kmt.c:32-35`, `90-93`). The CPU then has the first one's lock, or has written into
  freed memory, and runs the second one, which another CPU may run too. The properties of
  `kmt_life` hold until then. The slot must be left and taken again within a few instructions of
  the other CPU, with a table of 64 places that is filled in turn.
* `seen`: a pipe written to and closed between `pipe.c:57` and `58` loses what was written.
  `EndMissed` says that it loses no more than that.
* `dropped`: the second son of a pipe takes the place of its creator's input, which is not
  closed (`runcmd.c:103`): the count stays too high for ever and the file is never
  freed. `RefcntExact` counts it.
* `raced` of `Vfile`: two last users of a file (`(cat a &) > b`) both count down before
  either tests for 0 (`vfs.c:257-266`), and both free it; `alloc.c:110` has a fence to "alert if
  multi-free". `FreedOnce` says that nothing else leads there, and that it takes an `&`.
* `torn` and `spoilt`: recovery links the last free block
  the dead put took to the head of the list as it finds it (`kvdb.c:263`). If the head had not
  moved yet, the block is linked to itself; the next value of two blocks is written over
  itself, and the get does not answer with it (`multithread/incre_write.c:35` stops the
  test then). If no block was noted, recovery writes into the first block, whatever it is by
  now. `Durable` holds after every death, until such a file is recovered from.
* `raced` of `Pmm`: a task interrupted between the walk of `kfree` and its linking links behind
  a node that another task has taken from the same ring meanwhile (`alloc.c:102-136`; a heap of
  15 units is enough); `memory_test.c` prints "Memory test failed!" then.

One more is a constant:

* `TimerInCreate = TRUE` in `KmtOne.cfg`: `add_task` holds `tasks_lk` with
  interrupts on, and every trap takes it (`kmt.c:61`). A timer interrupt there stops the
  CPU, and soon all of them. `kmt_life` allows it; `kmt_semaphore`, whose liveness would
  fail, does not.

Properties are stated as far as they hold; beyond:

* `Libco`: the end of any coroutine makes `co_wait` return, and the one waited
  for is dropped with its routine object, though `libco/tests/main.c:119` expects all
  200 lines of output. `WaitReturn` models it so.
* `EndsSeen` speaks of pipelines of single commands. In `(a ; b) | c`, `(a | b) | c` and
  `(a &) | c` the reader `c` may see the end of its input while a writer lives: any
  close of either end by any task clears `open` (`pipe.c:106`), and the left part has the
  read end in its table besides (`runcmd.c`, `run_pipe_cmd`).
* `TablesRight` asks for an exact `refcnt` only where the line has no pipe: the right side
  of a pipe overwrites its input without closing it (`dropped` in `Vfile`, above).
* Of two redirections of one descriptor the first in the line counts (each is a node
  around the ones before it); `a > x > y` writes `x` and only creates `y`.
* A pipeline whose right side ends first, or does not read, leaves a left side that
  writes more than 255 bytes waiting; `Shell` has no bytes, so `Settles` is about
  commands that write less.
* A file whose offset is behind a cut is read with a negative length (`blkfs.c:114`), and a
  read that starts inside a block and goes past its end takes content for a link
  (`yls/string.c:42`). `Blkfs` stops at the first (`fault`) and has the second, so `ReadsRight`
  is about reads from the start, as `cat` and `wc` begin.
* `rmdir` does not look whether the directory is empty, though the text in `buildin.c` says
  "if they are empty"; a task inside goes on in it. `link` takes directories. From then on
  `pwd` is not where the task is, and `PwdIsCwd` ends. `unlink` and `rmdir` give neither block
  nor inode back.
* `block_write` tests its old `off` against 0 where the new one is 0 when the disk is full;
  the model's `fault` there is what follows from writing to block 0.
* The `pmm` appends pages to the end of a ring though their addresses fall, so a ring
  is not sorted, as `kfree` presumes. What comes of it is only that neighbours are
  not always joined; `Tiled` holds.
* `yls/yls.c` marks blocks 0 to 7 of a new disk and not 8 and 9, where it puts the root; the
  image the kernel boots from is the other program's, which is what `Init` is.

### Fairness

`Kmt`: a CPU goes on executing; the timer goes on interrupting; `rand()` drawn up
to 10000 times per trap over 64 slots does not miss a slot for ever (strong
fairness on `Pick` of a slot whose lock is free, because the slot is not
continuously available), and the draws end (strong fairness on leaving the loop);
a task that is dispatched again and again gets a step done before the next timer
interrupt. `Pipe`: both tasks are scheduled and the reader reads on. `KvdbLock`:
threads are scheduled; the rwlock is not assumed to choose a particular writer,
so `WriterServed` speaks of some writer of the process, and no fairness is put
on the start of new calls. `Shell`: some task that can go on does (weak fairness of
`Next`). That is enough because a line is finite work: no action repeats, and what
polls in the code (`kmt_wait`, `pipe_read`) is an action that waits.

## 4. Proofs

`KmtProofs`, for every number of CPUs and tasks, every table and all bounds, from
`KmtAssumption` alone (the root tasks have distinct pids within `MaxPid`). All but the types
hold until `swapped`, which every lemma about a step has as a case of its own:

* `TypeCorrect`: `Spec => []TypeOK`, by `TypeInit` and `TypeStep` (one case per
  action). `WrapType` bounds the ring's indexes, `SignalType` is the common part
  of the three places that signal.
* `StackExclusion`: `Spec => []StackExclusive`. The property is not inductive: it
  speaks of stacks, and the code protects them by a lock that is taken and
  released elsewhere. `ExclInv` adds what is between:
  - `StackInv`: a CPU's stack belongs to `last` while a trap runs and to
    `current` outside of traps, so a stack in use is that of a task the CPU holds;
  - `LockInv`: whoever may use a task (a CPU as `current` or `last`, a creator that
    marks it, the owner of its freed memory) holds its `running`, and no two do.

  `StackStep` and `LockStep` prove that each is preserved, one step per action. About what
  a CPU is to lock the invariant says nothing, and can say nothing: between `Pick` and `TryRun` that
  task may exit, be freed, and be created anew in another slot. `SameTask` is the step's
  case: as long as not `swapped`, what is dispatched is what was locked, and was
  not freed; or the slot is empty and the CPU hangs.

The second part of `KmtProofs` goes on from there, on any number of CPUs:

* `TableAgrees`: the table has the tasks between `add_task` and `exit`, each in the
  slot of its pid.
* `FreedIsUnreachable`: no slot, no queue, no CPU's `current`, `last` or stack, and no creator leads
  to freed memory. A CPU's candidate may (the task freed after the look at it); its slot does
  not hold that task, so the CPU does not run it, and a `trylock` on it is `swapped`.
* `RunningIsExact`: a task is locked only for one of the reasons the property names
  (`WhyInv`), so a lock is never left behind, unless a CPU hangs.
* `ReaperIsOne`: a task that exited has one reaper, its creator or one entry of
  `ctx_queue`. This one assumes that the queue has room for all tasks but the roots:
  `enqueue` yields when the queue is full, and a zombie that yields does not come back,
  so the task would be lost. `QueueRoom` is the counting (pigeonhole) behind it.

The invariant `LifeInv` says what the flags stand for. `DeadInv`: ZOMBIE means that
the task has passed `exit`, and what a creator saw of it under the lock stays true.
`WaitInv`: NOWAIT means that no creator is left. `SonsInv`: a task has one creator,
who is at a known place of the code while it has it. `ExitingInv` carries the step that
is hard to test, a creator that frees at the moment its son exits: a task inside `exit` runs
with interrupts closed, so it is executing on a CPU and its lock is taken; the creator
that gets the lock and sees ZOMBIE knows that the task has left its stack.

The third part is about the semaphore on any number of CPUs, until `swapped` or `late`. It
assumes a ring with more places than there are tasks (`RingHasRoom`), because nothing in the
code guards its 20 places:

* `SemaphoreExact`: a negative value is the number of tasks in the ring, which are those
  that sleep (`RingInv`, `SleepInv`). A CPU does not run a task that sleeps: `AwakeInv`, which
  is where `late` is needed, and only there.
* `SemaphoreImplemented`: `Spec => SemSpec`, the safety of `Semaphore` until then: one lemma for
  each operation (`ParkMaps`, `SignalMaps`, `UnparkMaps`), and everything else stutters.

`PipeProofs`, for every `Size`, number of bytes and size of request:

* `StreamImplemented`: `Spec => StreamSpec`. The bytes that are held start at `head` and
  end at `tail`, up to one turn around the ring (`TurnInv`, `BytesInv`). There is no lock, so
  the rest is about what each end may do without looking: `WriterInv` and `ReaderInv` say
  that the plan of a call (the stack of counts) fits the room, or the bytes, there are.
  `WriterPlanKept` and `ReaderPlanKept` are the argument why no lock is needed: what
  the other end does gives room, or bytes, and never takes them. The `size` the reader computed
  may be stale, and is then too small. `WriteStore` implements the sending of a part
  and `ReadCopy` its receipt; nothing is sent after the close (`OpenInv`).
* `MissedAtEnd`: between the reader's two looks nothing is read, and when it found the ring empty
  it had all that was written before (`SizeIsHeld`: the distance of the indexes is what is held).

`LibProofs` on `Libco`, for any number of routines, from `LibcoAssumption`:

* `PoolIsSound`: a routine object is in the pool once, or in use. `PoolRoom`: the array has
  room for one that comes back.
* `EveryJumpLands`: a body executes between its start and its end only, and while
  `ret_buf` leads into a `co_wait` that has not returned.

`LibProofs` on `KvdbLock`, for every assignment of finitely many writers and any readers to
processes and every limit, from `KvdbLockAssumption`:

* `TypeCorrect` and `Counted`: `wr_acq` is the number of writers that wait, which
  also bounds it.
* `NoneParkedForEver`: the argument of the header comment (`kvdb.c:20-25`).
  `ParkedForSomeone` is not inductive: a reader between its two looks at `wr_acq` is
  help only if it will see another value. `HelpComes` counts every such reader as
  help; the step to prove is `CheckAgain` with the value seen before, and there
  `SawWriter` (readers count only after they have seen a writer) and `Counted`
  give a writer that is still waiting. That the help arrives is `ReaderServed`,
  which TLC checks.

`LibProofs` on `KvdbFile`, for all non-empty keys and values, any number of puts and a file of any
length, from `KvdbFileAssumption`, with deaths at any write. The theorems assume `[]Roomy`: the
file never grows past the model's `Words`. The code's file has no end, so `Roomy` is about the
model only.

* `FileDurable`: `[]Durable`. `FileDisjoint`: `[]BlocksDisjoint`.

Neither property is inductive: both are silent while a put is under way, and what a get
answers after a death depends on what the backup in the header says about blocks
that are half written. The invariant `FileInv` explains every state by a file `G`,
the one the last put that returned has left: its tabs `T`, its strings `S` with
their texts `X`, its free blocks `F` in order, and a map `o` of who uses which words
(`Laid`: no two uses overlap, which is what keeps a write from hitting anything else).

* `Quiet`: no put is under way and none has died. The file is `G`, and `G` says what
  `dict` says (`Means`).
* `Crashed`: a put has died, or the next one is at its recovery. `Backed`: the header
  has a backup, and all of `G` that recovery does not restore is there. `Undo`: the one
  link recovery writes makes the free list whole again, unless the file is
  `torn`. `Seen`: until then the tab the dead put was to write is as it was, or a whole new entry
  shows (`half`).
* `Flight`: a put is under way. `Z` is what it has done: the `k` free blocks it has
  taken, the place `h` of the header's head among them, the chains `V` and `K` of the
  value and the key. `At` has what each place of `kvdb_put` and `alloc_str` relies on.

There is one lemma for each action (`FindKeeps`, `LinkMoreKeeps`, ...), joined in `NextInv`. The
invariant holds in every state until `spoilt`: the lock's owner may die anywhere, and what is
left still answers every get (`Seen`); `RecoverLinkKeeps` is the one that needs a file that is not
`torn`. The steps that carry the weight:

* `WalkIs` and `Reading`: a walk along links is the chain that is there. The model's
  walk stops after `Steps` nodes; `FewStarts` is the counting (pigeonhole) by which no
  chain of disjoint blocks has more, so the stop is never taken in such a file.
* `ReturnKeeps`, the write of the flag at the end of a put: the new file is `G` with one more entry
  (`Inserted`), or with a string exchanged and the old one's blocks at the end of the
  free list (`Replaced`).
* `DieKeeps`: wherever a put dies, the tabs of `G` and what its strings say are there, with the
  backup of the list (`SeenFlight`); and if the death is `Untouched` or `Linked`, recovery can undo
  what is in flight (`UndoFlight`). `Undoable` is why: if no block is noted, the links of the free
  blocks are untouched; if one is, it is the last taken, and the head is past it.

`VfileProofs`, for finitely many tasks, any files and any number of overwritten entries, from
`VfileAssumption`, with pipes and `&`:

* `CountsExact` and `NeverFreedTwice`. The invariant has two parts. `Shape` holds at all
  times; `Orderly` until `raced`: the count of a file is its users and its overwritten entries
  (`CountInv`), a file in a table is memory in use (`LiveInv`), and of a file whose count has come
  to 0 one task at most is about to test it (`LastInv`). The hard step is
  `CloseCheck`, the test for 0 after the lock was given back: `LastUser` says that then only
  this task has the file and no entry of it was overwritten, so that the memory that goes back is
  nobody's. `RaceBacked` is the other half: without an `&` there is no race. A file spreads
  from a creator to a son alone, so of two tasks that have it and no overwritten entry counts, one was
  given it by its creator, who still has it (`SpreadInv`); but a task with living sons does
  not close, it waits (`SonsInv`). `NewInv` is about the loop of `kmt_create`: a son gets each
  file once, from one creator, who stands still. The count itself is a cardinality; one lemma per
  action (`OrderlyForkFile`, `OrderlyClose`, ...) changes it by one element.

`TtyProofs`, for any keys and terminals, finitely many readers and all sizes, from
`TtyAssumption`:

* `EventsAgree`: the ring has as many events as the semaphore counts, plus the one a
  producer has stored and not yet signalled, plus the one the consumer was promised
  and has not yet taken. So `pop_event` finds an event (`input.c:26`).
* `KeysAwait`: `input_task` between its last look at the keyboard and `sem_wait` does not
  sleep over a key, because the interrupt of a key that came in between is still to come
  or has signalled.
* `LinesAreCounted`, with the types: `cooked` and the readers it was promised to count
  the ends of lines from `front` to `rear`. So a reader that was let in finds a `'\0'` and
  does not run over the rear. The count is kept in places of the array (`Ends`), where
  each operation changes one: `PutQueue`, `PopBackQueue` and `ReadQueue` are those facts;
  `EndsOfText` is the bijection to the text of the property. Erasing is the hard one: it
  stops at a `'\0'` and does not look at `front`, so the place before `front` must have
  one, also after the line there was read and in the empty buffer (`Stopped`). While a
  reader is in its loop it has none, but then the lock is taken (`LockInv`).

* `LinesAreRead`: `Spec => LineSpec`, every terminal is a line discipline. What `Tty` maps to
  the abstract lines is a text cut at each `'\0'`, by a recursive function over the text.
  `Induction` is the principle in the form the provers can use (a set that has 0 and with
  each number the next one), and `SplitAppend` and `SplitHead` are what it gives: how the
  cut text changes when a character comes at its end, leaves its end, or leaves its front.
  `PutText`, `PopText` and `ReadText` carry each operation on the array to the text;
  `HandOf` is what the reader in its loop has taken, which still counts as unread.
  `LineOfCook` and `LineOfRead` put them together, one step of `LineDiscipline` each.

`ShellProofs`, for every line, every tree, and every `FdNum` above 4:

* `InOrderHolds` and `OnlyBackgroundLateHolds`. The invariant `Ordered` is about where tasks
  stand in the tree: a task is at its node or below it, no other task stands between
  (`PlaceOf`); nothing exists yet where a task has not been (`AheadOf`); above a task that has
  not ended, up to an `&`, every task waits, and above it (`WaitOf`); what is right of a
  `;` is there because the left part has ended (`LeftOf`). The steps are of three shapes, one
  lemma for each: a task goes on (`PlainStep`), moves to a part (`MoveStep`), or creates
  a son (`ForkStep`); the rest of the proof gives each action its shape.
* `TablesRightHolds`: `Spec /\ []Roomy => []TablesRight`. `Tabled` says that a task that has
  not come to its command yet has, in its table, the streams of the node it is at
  (`TableOf`), that no table has a file twice, that what is in a table is counted, or is the
  end of a pipe there is, and that a target is counted only after its node was left
  (`FilesIn`; with `Untouched`, from `Ordered`, an open makes a new entry). `RedirTable`,
  `LeftTables` and `RightTables` are what each moving of entries leaves; `StreamsSon` is
  the flow from a node to its part. The counts are cardinalities: `CountMore` for a creation,
  `CountLess` for what is closed. Without `Roomy` the property is wrong; that the trees
  the parser makes of short lines are roomy is a part of `ParseRight`.

`PmmProofs`, for any heap, header, page, sizes, CPUs and tasks, from `PmmAssumption`, with any
other step between the two of a `kfree`; until `raced`, when one of them has changed its ring:

* `TiledHolds` and `NoOverlapHolds`. The invariant (`Inv`) says that there is a set of nodes
  for each CPU with three properties. `Rings`: the CPU's pointers lead through them and back
  to the sentinel, and no node is in two rings. `Tiles`: nodes and blocks in use lie end to
  end from what is left to the end of the heap. `Freeing`: a task in the middle of a `kfree`
  has the block to itself, and the node it will link behind is still there, and
  still leads where the walk saw it lead, although other rings have changed (`FreeingKept`). The two sides are separate: `Insert` and `Remove`
  are about the pointers (a chain with one node more or less is a chain), `SplitTiles`,
  `JoinTiles` and `PageTiles` about the addresses. `TakeStep`, `PageStep`, `FreeInto`,
  `FreeBehind` and `JoinStep` put them together, one for each thing `kalloc_real` and
  `kfree_real` do to a list; that a block's new header and its `memset` hit no other header is
  in `TakeStep`. Whether a ring is sorted plays no part, and it need not be (see above).
* `RingIs` is what lets the proof speak of the model's walk at all: it is a recursive function
  over the length, and for a chain it gives the chain, which is never longer than the heap
  (`ChainShort`).

`BlkfsProofs`, for any disk (blocks, their size, inode table, where the root is), names, paths,
files opened and chunks written, from `BlkfsAssumption`. One call at a time, as `Blkfs` says:

* `TypeHolds`, `BlocksOwnedHolds`, `ContentKeptHolds`, `NamesHold`. The invariant (`Inv`) says
  that there are chains of blocks, one per inode, that explain the disk. `Layout`: each inode in
  use has its chain, in the blocks' last words; chains share no block; their blocks are marked;
  and a block that is not marked holds zeros, which is what ends the chain it is put behind
  (`new_block` clears nothing). `Directories`: behind the first entry never used there is no
  other, so the scan that stops there has seen every name; each entry has a block of its own,
  in no chain, and leads to an inode in use. `Contents` and `Handles`: a file is as long as its
  text, which its chain holds; an offset is never behind the end of the chain (it may be behind
  the end of the file).
* What a call does to the disk is one of four things, with lemmas of what it leaves alone:
  an entry comes (`Adds`, `AddedLayout`, `AddedDirs`), an entry is wiped (`Wipes`), an inode is
  born with a block (`Born`), a chain grows and its words change (`Grows`). `Apart` and
  `SlotApart` are the addresses behind all of them. `new_file` is a birth and an entry, in the
  order that lets each be read off the disk the other left.
* `block_write` is a loop, in the model a recursive function: `Recursion` says that such a
  function is the one that satisfies its equation, `Runs` that it keeps what its step keeps,
  both from `Induction`. `Going` is the loop's invariant: the first words are stored, the next
  goes where `Cursor` says, and elsewhere there is what was there (`Stored`). The step that
  a test hardly reaches is `StepGoing` at the end of a block, into a block that exists or a new
  one. `LookupAlong` is the same for `blkfs_ifind`, `FindIs` for `find_block`.
* `ReadsRightHolds`: reading from the start. `ReadTo` is what the loop of `block_read` has
  after each block.
* `PwdIsCwdHolds`. `AtPwd`, while nothing was moved: the names of `pwd` lead from the root to
  `cwd` through directories (`Walk`), and a directory that is found by a name has that name's
  directory as its `..` on the disk (`Parents`). Then `vfs_chdir`'s lookup, which reads `..`
  from the disk, and `dir_cat`, which cuts the last name, go hand in hand (`ChdirStep`). `Grown`
  is what the other calls may do to the tree.

Only model-checked: `ParseRight` and `EndsSeen` (they use recursive operators, which no module
with a theorem may reach) and all liveness
(`Reaped`, `Awakened`, `WriterServed`, `ReaderServed`, `WriteReturns`, `Settles`), which is out
of the prover's reach, with ENABLED.

## 5. Plan

Modules that remain, the most important behaviour first:

1. Two calls of `Blkfs` at once: the writes of `blkfs_iwrite`, `new_file`, `link` and `unlink`
   as steps of their own (hazard at `blkfs.c:170`).
2. `SpinLock`: `kmt_spin_lock` with `ncli` and `intena`, saved and restored by
   the scheduler; mutual exclusion and the balance of interrupts.
3. `Pool` implementing a bounded FIFO, and `ctx_queue` of `Kmt` through it.
4. The mount table; `procfs` reading tasks that vanish.

## 6. Not modelled

* `devfs`, `procfs`: read-only views. `procfs` reads a task's name through `tasks[]`
  without holding it (hazard at `procfs.c:105`).
* Mounting: the kernel mounts at start and never again, except by hand; the way back over
  a mount point (`cd /mnt`, then `cd ..`) stays in the mounted root.
* Video, ramdisk, the virtual devices, drawing, colours: memory and pixels.
* What the built-in commands print.
* `crepl`, `frecov`, `pstree`, `sperf`: sequential programs around a compiler, a disk image,
  `/proc` and `strace`; `amgame`: a game loop.
* `abstract-machine`: the hardware layer of a course, with benchmarks and vendored libraries
  (imgui, fixmath, an emulator). It is the greater part of the repository's lines and none of
  its logic.
