-------------------------------- MODULE Pmm --------------------------------
(***************************************************************************)
(* The kernel's memory allocator, kernel/src/alloc.c: every CPU keeps a ring *)
(* of free blocks that starts and ends at its sentinel; new pages are cut    *)
(* off the tail of what is left of the heap, blocks off the tail of a free   *)
(* one.  Memory is counted in units of the 16 bytes every size is rounded up *)
(* to.  kalloc runs with interrupts closed, in one step; kfree does not: it  *)
(* finds its place in the ring first and links the block afterwards, and the *)
(* ring may have changed by then.                                            *)
(***************************************************************************)
EXTENDS Integers, Sequences, FiniteSets

CONSTANTS
    CPU,        \* a CPU stands for its sentinel, free_list[cpu], too
    Task,
    Heap,       \* units from pm_start to pm_end
    Header,     \* sizeof(header)
    Page,       \* PG_SIZE
    Size,       \* the sizes asked for
    NULL

ASSUME PmmAssumption ==
    /\ {Heap, Header, Page} \subseteq Nat \ {0} /\ Heap > Header
    /\ Size \subseteq Nat \ {0}
    /\ CPU \cap Nat = {} /\ NULL \notin CPU

Addr == 0 .. Heap - 1

VARIABLES
    next, size, \* the headers in memory, by address
    left,       \* global->size
    inUse,      \* the blocks handed out and not yet freed: what was asked for
    freeing,    \* kfree_real of a task: cpu_id, to_free, prevp, p
    panicked,   \* "No free space!": the assertion after global_alloc failed
    raced       \* history: a ring has changed in the middle of a kfree to it

vars == <<next, size, left, inUse, freeing, panicked, raced>>

TypeOK ==
    /\ next \in [Addr \cup CPU -> Addr \cup CPU \cup {NULL}]
    /\ size \in [Addr -> 0 .. Heap] /\ left \in 0 .. Heap
    /\ inUse \in [Addr -> Size \cup {0}]
    /\ \A t \in Task : freeing[t] # NULL =>
         freeing[t] \in [cpu : CPU, blk : Addr, prev : Addr \cup CPU, p : Addr \cup CPU]
    /\ panicked \in BOOLEAN /\ raced \in BOOLEAN

\* pmm_init
Init ==
    /\ next = [x \in Addr \cup CPU |-> IF x \in CPU THEN x ELSE NULL]
    /\ size = [a \in Addr |-> 0] /\ left = Heap - Header
    /\ inUse = [a \in Addr |-> 0]
    /\ freeing = [t \in Task |-> NULL]
    /\ panicked = FALSE
    /\ raced = FALSE

\* A walk of c's ring that has come so far, and the nodes in order, without the
\* sentinel.
Longer(nx, c, walk) ==
    LET n == nx[IF walk = <<>> THEN c ELSE walk[Len(walk)]]
    IN  IF n = c THEN walk ELSE Append(walk, n)

RingOf(nx, c) ==
    LET walk[k \in 0 .. Heap] == IF k = 0 THEN <<>> ELSE Longer(nx, c, walk[k - 1])
    IN  walk[Heap]

Ring(c) == RingOf(next, c)

Before(c, ring, i) == IF i = 1 THEN c ELSE ring[i - 1]

First(S, n) == IF S = {} THEN n ELSE CHOOSE i \in S : \A j \in S : i <= j

\* One of the tasks ts has found its place in c's ring and not linked its block.
Between(ts, c) == \E t \in ts : freeing[t] # NULL /\ freeing[t].cpu = c

-----------------------------------------------------------------------------
\* A block of n units for the caller: nx and sz are the headers before, p a node
\* with room, prev the one before it.  Its tail when another header fits, else all
\* of it.  The block's header and memset cover whatever was there.
Take(nx, sz, prev, p, n) ==
    LET split == sz[p] >= n + Header
        b == IF split THEN p + sz[p] - n ELSE p
        got == IF split THEN n ELSE sz[p]
        over == b + 1 .. b + Header + n - 1
    IN  /\ size' = [a \in Addr |-> CASE a = b -> got
                                     [] a = p /\ split -> sz[p] - n - Header
                                     [] a \in over -> 0
                                     [] OTHER -> sz[a]]
        /\ next' = [x \in Addr \cup CPU |->
                      IF x \in over THEN NULL
                      ELSE IF x = prev /\ ~split THEN nx[p] ELSE nx[x]]
        /\ inUse' = [inUse EXCEPT ![b] = n]

\* slip: what is left does not shrink by the page's header.
ShrunkShort(needed) == left - needed

\* global_alloc_real, with room for the page
Shrunk(needed) == left - (needed + Header)

\* kalloc.  First fit; without one, a page goes to the end of the ring.
Kalloc(c, n) ==
    LET ring == Ring(c)
        i == First({j \in DOMAIN ring : size[ring[j]] >= n}, 0)
        last == Before(c, ring, Len(ring) + 1)
        needed == IF n > Page THEN n ELSE Page
        page == left - needed
    IN  /\ ~panicked
        /\ \/ /\ i # 0
              /\ Take(next, size, Before(c, ring, i), ring[i], n)
              /\ UNCHANGED <<left, panicked>>
           \/ /\ i = 0 /\ left > needed + Header
              /\ left' = Shrunk(needed)
              /\ Take([next EXCEPT ![last] = page, ![page] = c],
                      [size EXCEPT ![page] = needed], last, page, n)
              /\ UNCHANGED panicked
           \/ /\ i = 0 /\ left <= needed + Header
              /\ panicked' = TRUE
              /\ UNCHANGED <<next, size, left, inUse>>
        /\ raced' = (raced \/ Between(Task, c))
        /\ UNCHANGED freeing

\* kfree_real up to the end of the loop: the first node behind the block.
KfreeFind(t, c, b) ==
    LET ring == Ring(c)
        i == First({j \in DOMAIN ring : b < ring[j]}, Len(ring) + 1)
    IN  /\ ~panicked /\ freeing[t] = NULL /\ inUse[b] # 0
        /\ \A u \in Task : freeing[u] # NULL => freeing[u].blk # b
        /\ freeing' = [freeing EXCEPT ![t] =
                         [cpu |-> c, blk |-> b, prev |-> Before(c, ring, i),
                          p |-> IF i \in DOMAIN ring THEN ring[i] ELSE c]]
        /\ UNCHANGED <<next, size, left, inUse, panicked, raced>>

\* The rest of kfree_real: into the node before, if it ends where the block starts
\* (it is of joined units then), or behind it; then the node after into that.
LinkBy(t, adjacent, joined) ==
    LET f == freeing[t]
        to == IF adjacent THEN f.prev ELSE f.blk
        grown == IF adjacent THEN joined ELSE size[f.blk]
        linked == IF adjacent THEN next
                  ELSE [next EXCEPT ![f.blk] = next[f.prev], ![f.prev] = f.blk]
        joinNext == f.p = to + Header + grown
    IN  /\ next' = IF joinNext THEN [linked EXCEPT ![to] = linked[f.p]] ELSE linked
        /\ size' = [size EXCEPT ![to] = IF joinNext THEN grown + Header + size[f.p]
                                        ELSE grown]
        /\ inUse' = [inUse EXCEPT ![f.blk] = 0]

Adjacent(f) == f.prev \in Addr /\ f.blk = f.prev + Header + size[f.prev]
JoinedSize(f) == size[f.prev] + Header + size[f.blk]

\* slip: the room of the header that is no longer needed is forgotten.
LinkNoHeader(t) == LinkBy(t, Adjacent(freeing[t]), JoinedSize(freeing[t]) - Header)

Link(t) == LinkBy(t, Adjacent(freeing[t]), JoinedSize(freeing[t]))

KfreeLink(t) ==
    /\ ~panicked /\ freeing[t] # NULL
    /\ Link(t)
    /\ freeing' = [freeing EXCEPT ![t] = NULL]
    /\ raced' = (raced \/ Between(Task \ {t}, freeing[t].cpu))
    /\ UNCHANGED <<left, panicked>>

Next ==
    \/ \E c \in CPU, n \in Size : Kalloc(c, n)
    \/ \E t \in Task, c \in CPU, b \in Addr : KfreeFind(t, c, b)
    \/ \E t \in Task : KfreeLink(t)

Spec == Init /\ [][Next]_vars

-----------------------------------------------------------------------------
(* Properties                                                                *)

Span(a, n) == a .. a + Header + n - 1

\* "Memory test failed!" (memory_test.c): until a kfree has been overtaken on its
\* ring, memory one caller has is not given to another, and is neither part of a
\* ring nor of what is left of the heap.
DisjointSpans ==
    \A a \in Addr : inUse[a] # 0 =>
        LET mine == Span(a, inUse[a])
        IN  /\ mine \subseteq left + Header .. Heap - 1
            /\ \A b \in Addr \ {a} : inUse[b] # 0 => mine \cap Span(b, inUse[b]) = {}
NoOverlap == raced \/ DisjointSpans

\* Until then every unit of the heap is in exactly one block: what is left, a node of
\* one ring, or a block in use; splitting, joining and freeing on another CPU than the
\* one the block came from lose nothing.
CoveredOnce ==
    LET nodes == UNION {{<<c, i, Ring(c)[i]>> : i \in DOMAIN Ring(c)} : c \in CPU}
        used == {<<NULL, 0, a>> : a \in {b \in Addr : inUse[b] # 0}}
        blocks == nodes \cup used
        span(x) == Span(x[3], size[x[3]])
    IN  /\ UNION {span(x) : x \in blocks} = left + Header .. Heap - 1
        /\ \A x, y \in blocks : x # y => span(x) \cap span(y) = {}
Tiled == raced \/ (TypeOK /\ CoveredOnce)
=============================================================================
