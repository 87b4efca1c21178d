------------------------------- MODULE Blkfs -------------------------------
(***************************************************************************)
(* The kernel's file system on a ramdisk: kernel/src/fs/blkfs.c over the     *)
(* format of kernel/src/yls (bitmap, inode table, chains of blocks), the     *)
(* calls of vfs.c that reach it and the working directory (dir.c).           *)
(* The blocks are one array of four-byte words, and pointers are positions   *)
(* in it, because block_read adds to them; sizes and offsets count words.    *)
(* No call is interrupted by another here.  fault: the code goes on with     *)
(* block 0, an inode past the table, a directory it has left through its     *)
(* last slot (a null pointer), or stops at a TODO().                         *)
(***************************************************************************)
EXTENDS Integers, Sequences, FiniteSets

CONSTANTS
    Inode,      \* 0 .. n, 0 is the root's
    Block,      \* the numbers of the blocks behind the inode table
    Mem,        \* BLK_MEM in words: what a block holds before its next pointer
    Name,       \* file names, as words; none begins with a dot
    Wipe,       \* YLS_WIPE, as a word
    Handle,     \* open files
    Chunk,      \* the lengths of reads and writes
    MaxSize,    \* bound on the length of a file
    MaxPwd,     \* bound on the names in a pwd
    UP,         \* the path component ".."
    Path,       \* the paths given to the calls: sequences of names and UP
    NULL

BlkSz == Mem + 1
Addr == {b * BlkSz + i : b \in Block, i \in 0 .. Mem}
RootName == BlkSz * CHOOSE b \in Block : \A c \in Block : b <= c
RootInfo == RootName + BlkSz

ASSUME BlkfsAssumption ==
    /\ 0 \in Inode /\ Inode \subseteq Nat
    /\ Mem \in Nat \ {0, 1} /\ Block \subseteq Nat \ {0} /\ IsFiniteSet(Block)
    /\ RootInfo \in Addr
    /\ Wipe \in Int \ Nat /\ Name \subseteq Int \ {Wipe, UP, 0} /\ NULL \notin Int
    /\ Path \subseteq Seq(Name \cup {UP}) \ {<<>>}
    /\ Chunk \subseteq Nat \ {0} /\ MaxSize \in Nat

VARIABLES
    mem, used,  \* the blocks' words; the bitmap
    inode,      \* the inode table
    file,       \* open files: inode, offset, flags
    cwd, pwd,   \* a task's cur_dir and pwd
    fault,
    \* what the calls so far promise
    text,       \* of a file: the word written last at each position, NULL in holes
    tree,       \* of a directory: the inode each name stands for
    moved       \* a directory was removed or linked

vars == <<mem, used, inode, file, cwd, pwd, fault, text, tree, moved>>
disk == <<mem, used, inode>>
promise == <<text, tree, moved>>

\* initrd.c's image, with an empty root
Init ==
    /\ mem = [a \in Addr |-> 0]
    /\ used = {RootName \div BlkSz, RootInfo \div BlkSz}
    /\ inode = [i \in Inode |->
                  IF i = 0 THEN [refcnt |-> 1, info |-> RootInfo, size |-> 0, dir |-> TRUE]
                  ELSE [refcnt |-> 0, info |-> 0, size |-> 0, dir |-> FALSE]]
    /\ file = [h \in Handle |-> NULL]
    /\ cwd = 0 /\ pwd = <<>>
    /\ fault = FALSE
    /\ text = [i \in Inode |-> <<>>]
    /\ tree = [i \in Inode |-> [n \in Name |-> NULL]]
    /\ moved = FALSE

-----------------------------------------------------------------------------
(* yls: blocks and chains                                                    *)

Least(S) == CHOOSE x \in S : \A y \in S : x <= y
Lesser(x, y) == IF x < y THEN x ELSE y

\* new_block: the first clear bit of the bitmap; 0 when there is none
NewBlock(u) == IF Block \subseteq u THEN 0 ELSE BlkSz * Least(Block \ u)

\* slip: the changed byte of the bitmap is not written back.
MarkedInCopy(u, b) == u

Marked(u, b) == u \cup {b \div BlkSz}

NewInode == {i \in Inode : inode[i].refcnt = 0}

\* A short read or one outside the device gives a word nobody wrote.
Word(a) == IF a \in Addr THEN mem[a] ELSE Wipe

\* find_block: the block a position is in and what remains of the position.  The
\* end of a full block is a position of that block.
FindBlock(off, pos) ==
    LET hops == IF pos = 0 THEN 0 ELSE (pos - 1) \div Mem
        base[k \in 0 .. hops] == IF k = 0 THEN off ELSE Word(base[k - 1] + Mem)
    IN  base[hops] + (pos - hops * Mem)

\* block_read, of n words from a position of the chain at off.  The next pointer is
\* looked for Mem words behind where the reading began.
BlockRead(off, pos, n) ==
    LET at(a, rest) == Lesser(Mem - (a % BlkSz), rest)
        words(a, k) == [i \in 1 .. k |-> Word(a + i - 1)]
        step[k \in 0 .. n + 2] ==
          IF k = 0 THEN [from |-> FindBlock(off, pos), got |-> <<>>]
          ELSE LET s == step[k - 1]
                   rest == n - Len(s.got)
               IN  IF rest = 0 \/ s.from = 0 THEN s
                   ELSE [got |-> s.got \o words(s.from, at(s.from, rest)),
                         from |-> Word(s.from + Mem)]
    IN  step[n + 2].got

\* block_write.  One step is one block; a chain that ends grows by a new block.
WriteStep(s, data) ==
    LET rest == Len(data) - s.done
        b == IF s.mem[s.at] # 0 THEN s.mem[s.at] ELSE NewBlock(s.used)
        k == Lesser(Mem, rest)
    IN  IF rest = 0 \/ s.full THEN s
        ELSE IF b = 0 THEN [s EXCEPT !.full = TRUE]
        ELSE [mem |-> [a \in Addr |-> IF a = s.at THEN b
                                      ELSE IF a \in b .. b + k - 1 THEN data[s.done + a - b + 1]
                                      ELSE s.mem[a]],
              used |-> Marked(s.used, b), at |-> b + k, done |-> s.done + k, full |-> FALSE]

BlockWrite(off, pos, data) ==
    LET a0 == FindBlock(off, pos)
        k0 == Lesser(Mem - (a0 % BlkSz), Len(data))
        step[k \in 0 .. Len(data)] ==
          IF k = 0
          THEN [mem |-> [a \in Addr |-> IF a \in a0 .. a0 + k0 - 1 THEN data[a - a0 + 1]
                                        ELSE mem[a]],
                used |-> used, at |-> a0 + k0, done |-> k0, full |-> FALSE]
          ELSE WriteStep(step[k - 1], data)
    IN  step[Len(data)]
-----------------------------------------------------------------------------
(* Names                                                                     *)

\* The entry the scan of blkfs_ifind, rmdir and unlink stops at: the name's, or the
\* first one never used; NULL when it runs off the end of the block.
Entry(d, n) ==
    LET slots == {inode[d].info + k : k \in 1 .. Mem - 1}
        stops == {a \in slots : \/ mem[a] = 0
                                \/ mem[a] # Wipe /\ mem[mem[a] + 1] = n}
    IN  IF stops = {} THEN NULL ELSE Least(stops)

\* blkfs_ifind, one name of a path: an inode; nothing; where to make the missing last
\* name; or over the end of a full directory.
Found(i) == [is |-> "found", id |-> i]
Onward(r, n, last) ==
    IF r.is # "found" THEN r
    ELSE IF ~inode[r.id].dir THEN [is |-> "none"]
    ELSE IF n = UP THEN Found(IF r.id = 0 THEN 0 ELSE mem[inode[r.id].info])
    ELSE LET a == Entry(r.id, n)
         IN  IF a = NULL THEN [is |-> "over"]
             ELSE IF mem[a] # 0 THEN Found(mem[mem[a]])
             ELSE IF last THEN [is |-> "absent", dir |-> r.id, slot |-> a, name |-> n]
             ELSE [is |-> "none"]

\* blkfs_ifind from d along the path
Lookup(d, path) ==
    LET at[k \in 0 .. Len(path)] ==
          IF k = 0 THEN Found(d) ELSE Onward(at[k - 1], path[k], k = Len(path))
    IN  at[Len(path)]

\* The parent of a path and its last name (get_parent).
Parent(path) == Lookup(cwd, SubSeq(path, 1, Len(path) - 1))
Last(path) == path[Len(path)]

\* slip: ".." only cuts the slash that dir_cat put behind the pwd.
DirCatSlash(dest, path) == dest \o SelectSeq(path, LAMBDA n : n # UP)

\* dir_cat
DirCat(dest, path) ==
    LET cat[k \in 0 .. Len(path)] ==
          IF k = 0 THEN dest
          ELSE LET p == cat[k - 1]
               IN  CASE path[k] # UP -> Append(p, path[k])
                     [] path[k] = UP /\ p # <<>> -> SubSeq(p, 1, Len(p) - 1)
                     [] OTHER -> p
    IN  cat[Len(path)]

-----------------------------------------------------------------------------
(* Calls                                                                     *)

Fails == fault' = TRUE /\ UNCHANGED <<disk, file, cwd, pwd, promise>>

\* new_file and new_direc: a block for the name, an inode, a block for its content.
Made(r, isDir) ==
    LET b == NewBlock(used)
        c == NewBlock(Marked(used, b))
        i == Least(NewInode)
    IN  /\ b # 0 /\ c # 0 /\ NewInode # {}
        /\ mem' = [mem EXCEPT ![r.slot] = b, ![b] = i, ![b + 1] = r.name,
                              ![c] = IF isDir THEN r.dir ELSE 0]
        /\ used' = Marked(Marked(used, b), c)
        /\ inode' = [inode EXCEPT ![i] = [refcnt |-> 1, info |-> c, size |-> 0, dir |-> isDir]]
        /\ tree' = [tree EXCEPT ![r.dir][r.name] = i]

NoRoom == \/ NewInode = {} \/ NewBlock(used) = 0
          \/ NewBlock(Marked(used, NewBlock(used))) = 0

\* vfs_open with the iopen of blkfs: "r", "w" (the file is cut) and "a" (append), the
\* latter two with O_CREATE, as the shell's redirections and cp open files.
Opened(h, i, flags) == file' = [file EXCEPT ![h] = [id |-> i, off |-> 0, flags |-> flags]]

Open(h, path, flags) ==
    LET r == Lookup(cwd, path)
    IN  /\ file[h] = NULL
        /\ \/ /\ r.is = "found" /\ ~inode[r.id].dir
              /\ Opened(h, r.id, flags)
              /\ inode' = IF flags = "w" THEN [inode EXCEPT ![r.id].size = 0] ELSE inode
              /\ text' = IF flags = "w" THEN [text EXCEPT ![r.id] = <<>>] ELSE text
              /\ UNCHANGED <<mem, used, tree, moved, fault>>
           \/ /\ r.is = "absent" /\ flags # "r"
              /\ Made(r, FALSE)
              /\ Opened(h, Least(NewInode), flags)
              /\ UNCHANGED <<text, moved, fault>>
        /\ UNCHANGED <<cwd, pwd>>

Close(h) ==
    /\ file[h] # NULL
    /\ file' = [file EXCEPT ![h] = NULL]
    /\ UNCHANGED <<disk, cwd, pwd, fault, promise>>

\* slip: the end of the file is not looked at.
AskedPast(f, n) == n

\* blkfs_iread.  The offset is compared with the length asked for.
Asked(f, n) ==
    LET size == inode[f.id].size
    IN  IF f.off > n THEN 0 ELSE IF n + f.off > size THEN size - f.off ELSE n

Got(f, n) == BlockRead(inode[f.id].info, f.off, Asked(f, n))

Read(h, n) ==
    /\ file[h] # NULL /\ file[h].flags = "r"
    /\ IF Asked(file[h], n) < 0 THEN Fails   \* as a size_t: over the caller's buffer
       ELSE /\ file' = [file EXCEPT ![h].off = @ + Len(Got(file[h], n))]
            /\ UNCHANGED <<disk, cwd, pwd, fault, promise>>

\* What is written tells the file, the position and the mode.
Words(f, pos, n) ==
    [i \in 1 .. n |-> 1000 * (f.id + 1) + (IF f.flags = "a" THEN 500 ELSE 0) + pos + i]

\* blkfs_iwrite and update_size
WriteAt(h, n, pos) ==
    LET f == file[h]
        t == text[f.id]
        at == IF f.flags = "a" THEN Len(t) ELSE f.off
        data == Words(f, at, n)
        w == BlockWrite(inode[f.id].info, pos, data)
    IN  /\ f # NULL /\ f.flags # "r" /\ at + n <= MaxSize
        /\ IF w.full THEN Fails
           ELSE /\ mem' = w.mem /\ used' = w.used
                /\ file' = [file EXCEPT ![h].off = pos + n]
                /\ inode' = [inode EXCEPT ![f.id].size = IF pos + n > @ THEN pos + n ELSE @]
                /\ text' = [text EXCEPT ![f.id] =
                              [j \in 1 .. (IF at + n > Len(t) THEN at + n ELSE Len(t)) |->
                                 CASE j \in at + 1 .. at + n -> data[j - at]
                                   [] j \in 1 .. Lesser(at, Len(t)) -> t[j]
                                   [] j > at + n -> t[j]
                                   [] OTHER -> NULL]]
                /\ UNCHANGED <<cwd, pwd, fault, tree, moved>>

\* slip: O_APPEND is only looked at when the file is opened.
WriteHere(h, n) == file[h] # NULL /\ WriteAt(h, n, file[h].off)

Write(h, n) ==
    /\ file[h] # NULL
    /\ WriteAt(h, n, IF file[h].flags = "a" THEN inode[file[h].id].size ELSE file[h].off)

Mkdir(path) ==
    LET r == Lookup(cwd, path)
    IN  /\ r.is = "absent"
        /\ Made(r, TRUE)
        /\ UNCHANGED <<file, cwd, pwd, fault, text, moved>>

\* Open and Mkdir where blocks or inodes ran out, or a full directory was searched.
Exhaust(path) ==
    /\ Lookup(cwd, path).is = "over" \/ (Lookup(cwd, path).is = "absent" /\ NoRoom)
    /\ Fails

\* blkfs_ilink; find_empty takes the first entry that is free or wiped.
Link(old, path) ==
    LET p == Parent(path)
        o == Lookup(cwd, old)
        b == NewBlock(used)
        free == {a \in {inode[p.id].info + k : k \in 1 .. Mem - 1} : mem[a] \in {0, Wipe}}
    IN  /\ p.is = "found" /\ inode[p.id].dir
        /\ Lookup(p.id, <<Last(path)>>).is = "absent" /\ Last(path) # UP
        /\ o.is = "found"
        /\ IF b = 0 \/ free = {} THEN Fails
           ELSE /\ mem' = [mem EXCEPT ![Least(free)] = b, ![b] = o.id, ![b + 1] = Last(path)]
                /\ used' = Marked(used, b)
                /\ tree' = [tree EXCEPT ![p.id][Last(path)] = o.id]
                /\ moved' = (moved \/ inode[o.id].dir)
                /\ UNCHANGED <<inode, file, cwd, pwd, fault, text>>

\* blkfs_iunlink and blkfs_irmdir, which differ in what they refuse.  Only the entry
\* is overwritten.
RemoveWith(path, isDir, word) ==
    LET p == Parent(path)
        a == Entry(p.id, Last(path))
    IN  /\ p.is = "found" /\ inode[p.id].dir /\ Last(path) # UP
        /\ a # NULL /\ mem[a] # 0
        /\ inode[mem[mem[a]]].dir = isDir
        /\ mem' = [mem EXCEPT ![a] = word]
        /\ tree' = [tree EXCEPT ![p.id][Last(path)] = NULL]
        /\ moved' = (moved \/ isDir)
        /\ UNCHANGED <<used, inode, file, cwd, pwd, fault, text>>

\* slip: the entry becomes like one never used, where searches stop.
RemoveClear(path, isDir) == RemoveWith(path, isDir, 0)

Remove(path, isDir) == RemoveWith(path, isDir, Wipe)
Unlink(path) == Remove(path, FALSE)
Rmdir(path) == Remove(path, TRUE)

\* vfs_chdir
Chdir(path) ==
    LET r == Lookup(cwd, path)
    IN  /\ r.is = "found" /\ inode[r.id].dir
        /\ cwd' = r.id /\ pwd' = DirCat(pwd, path) /\ Len(pwd') <= MaxPwd
        /\ UNCHANGED <<disk, file, fault, promise>>

Next ==
    /\ ~fault
    /\ \/ \E h \in Handle :
            \/ \E path \in Path, flags \in {"r", "w", "a"} : Open(h, path, flags)
            \/ \E n \in Chunk : Read(h, n) \/ Write(h, n)
            \/ Close(h)
       \/ \E path \in Path :
            \/ Mkdir(path) \/ Exhaust(path)
            \/ Unlink(path) \/ Rmdir(path) \/ Chdir(path)
            \/ \E old \in Path : Link(old, path)

Spec == Init /\ [][Next]_vars

-----------------------------------------------------------------------------
(* Properties                                                                *)

TypeOK ==
    /\ mem \in [Addr -> Int] /\ used \subseteq Block
    /\ inode \in [Inode -> [refcnt : {0, 1}, info : Addr \cup {0}, size : 0 .. MaxSize,
                            dir : BOOLEAN]]
    /\ cwd \in Inode
    /\ \A h \in Handle : file[h] # NULL =>
         /\ file[h].id \in Inode /\ inode[file[h].id].refcnt = 1
         /\ file[h].off \in 0 .. MaxSize

\* The blocks of a chain.
Chain(off) ==
    LET upto[k \in Nat] == IF k = 0 THEN <<off>>
                           ELSE LET c == upto[k - 1]
                                    n == mem[c[Len(c)] + Mem]
                                IN  IF n = 0 THEN c ELSE Append(c, n)
    IN  upto[Cardinality(Block)]

Taken == {i \in Inode : inode[i].refcnt = 1}
Files == {i \in Taken : ~inode[i].dir}
Dirs == {i \in Taken : inode[i].dir}
Entries(d) == {a \in {inode[d].info + k : k \in 1 .. Mem - 1} : mem[a] \notin {0, Wipe}}

\* A block holds one name or belongs to one inode's content, once, and is marked in
\* the bitmap, after any sequence of calls: a block handed out twice would put one
\* file's words into another file or into a directory.
BlocksOwned ==
    LET names == {<<0, a, mem[a]>> : a \in UNION {Entries(d) : d \in Dirs}}
        parts == UNION {{<<1, <<i, k>>, Chain(inode[i].info)[k]>> :
                           k \in DOMAIN Chain(inode[i].info)} : i \in Taken}
        uses == names \cup parts
    IN  /\ TypeOK
        /\ \A x, y \in uses : x[3] = y[3] => x = y
        /\ \A x \in uses : x[3] \div BlkSz \in used

\* What a file's chain holds, position by position, is what was written there last,
\* through whichever handle, mode and sequence of cuts.
ContentKept ==
    \A i \in Files :
        LET c == Chain(inode[i].info)
            all[k \in 0 .. Len(c)] == IF k = 0 THEN <<>>
                              ELSE all[k - 1] \o [j \in 1 .. Mem |-> mem[c[k] + j - 1]]
        IN  /\ inode[i].size = Len(text[i])
            /\ \A j \in DOMAIN text[i] : text[i][j] \in {NULL, all[Len(c)][j]}

\* A read from the start of a file, of any length, returns the file's words: all of
\* them, or as many as were asked for.
ReadsRight ==
    \A i \in Files, n \in Chunk :
        LET got == Got([id |-> i, off |-> 0], n)
        IN  /\ Len(got) = Lesser(n, Len(text[i]))
            /\ \A j \in DOMAIN got : text[i][j] \in {NULL, got[j]}

\* A directory finds the names that were put into it and not removed, with their
\* inodes, and no other, although creating, linking and removing fill and reuse its
\* entries in different orders.
NamesKept ==
    \A d \in Dirs : \A n \in Name :
        LET a == Entry(d, n)
        IN  IF a # NULL /\ mem[a] # 0 THEN tree[d][n] = mem[mem[a]] ELSE tree[d][n] = NULL

\* The prompt tells where the task is: pwd leads from the root to cur_dir, until a
\* directory is removed or gets a second name.
PwdIsCwd == ~moved => Lookup(0, pwd) = Found(cwd)
=============================================================================
