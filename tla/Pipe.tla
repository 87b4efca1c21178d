-------------------------------- MODULE Pipe --------------------------------
(***************************************************************************)
(* The kernel's pipe, kernel/src/pipe.c: a ring of 0x100 bytes without a    *)
(* lock, one task writing into it and one reading from it.                  *)
(*                                                                          *)
(* pipe_read and pipe_write call themselves for the parts a request has to  *)
(* be split into: at the end of the ring, and when the ring is too full.    *)
(* What a request still has to do is kept as a stack, work: an item is the  *)
(* count of a (nested) call, or Wrap for the assignment of 0 that stands    *)
(* between the two parts of a request that goes around.  The loads, the     *)
(* copying and the stores of the two ends interleave.                       *)
(*                                                                          *)
(* Byte number i of the stream is the number i.                             *)
(***************************************************************************)
EXTENDS Integers, Sequences

CONSTANTS
    Size,       \* 0x100, the length of the ring
    Total,      \* bound: the bytes the writer has to send
    Chunk,      \* bound: the largest count of a call of read or write
    Wrap

ASSUME PipeAssumption ==
    /\ Size \in Nat /\ Size > 1
    /\ Total \in Nat /\ Chunk \in Nat \ {0}
    /\ Wrap \notin Nat

VARIABLES
    head, tail, open,   \* pipe_t
    mem,                \* its bytes; 0 where none was ever written
    wpc, wwork, sent,   \* the writer: where it is, what it has to do, and the
    wcount,             \* number of bytes it wrote; count of the innermost call
    rpc, rwork, got,    \* the reader: the same, and all the bytes it read
    rcount,
    rsize,              \* size, as pipe_read last computed it
    seen                \* history: sent when pipe_read last found the ring empty

ringVars   == <<head, tail, open, mem>>
writerVars == <<wpc, wwork, sent, wcount>>
readerVars == <<rpc, rwork, got, rcount, rsize, seen>>
vars == <<head, tail, open, mem, wpc, wwork, sent, wcount,
          rpc, rwork, got, rcount, rsize, seen>>

Count == 0 .. Chunk
Item == Count \cup {Wrap}

TypeOK ==
    /\ head \in 0 .. Size /\ tail \in 0 .. Size /\ open \in BOOLEAN
    /\ mem \in [0 .. Size - 1 -> 0 .. Total]
    /\ wpc \in {"user", "size", "copy", "store", "wrap", "closed"}
    /\ wwork \in Seq(Item) /\ sent \in 0 .. Total /\ wcount \in Count
    /\ rpc \in {"user", "size", "open", "call", "copy", "store", "wrap", "eof"}
    /\ rwork \in Seq(Item) /\ got \in Seq(0 .. Total) /\ rcount \in Count
    /\ rsize \in 0 .. Size - 1 /\ seen \in 0 .. Total

\* pipe
Init ==
    /\ head = 0 /\ tail = 0 /\ open = TRUE
    /\ mem = [i \in 0 .. Size - 1 |-> 0]
    /\ wpc = "user" /\ wwork = <<>> /\ sent = 0 /\ wcount = 0
    /\ rpc = "user" /\ rwork = <<>> /\ got = <<>> /\ rcount = 0
    /\ rsize = 0 /\ seen = 0

get_size == (tail - head) % Size

\* Where a task goes on when its innermost call is done.
After(work) ==
    CASE work = <<>> -> "user"
      [] work # <<>> /\ Head(work) = Wrap -> "wrap"
      [] OTHER -> "size"

-----------------------------------------------------------------------------
(* The writer                                                                *)

Write(n) ==
    /\ wpc = "user" /\ sent + n <= Total
    /\ wwork' = <<n>>
    /\ wpc' = "size"
    /\ UNCHANGED <<ringVars, sent, wcount, readerVars>>

\* limit: the bytes the ring may hold; end: where it ends.
WriteSplitAt(limit, end) ==
    LET count == Head(wwork)
        rest  == Tail(wwork)
        size  == get_size
    IN  /\ wpc = "size" /\ size < limit
        /\ \/ /\ count + size > limit
              /\ wwork' = <<limit - size, count - (limit - size)>> \o rest
              /\ UNCHANGED <<wpc, wcount>>
           \/ /\ count + size <= limit /\ count + tail > end
              /\ wwork' = <<end - tail, Wrap, count - (end - tail)>> \o rest
              /\ UNCHANGED <<wpc, wcount>>
           \/ /\ count + size <= limit /\ count + tail <= end
              /\ wwork' = rest /\ wcount' = count
              /\ wpc' = "copy"
        /\ UNCHANGED <<ringVars, sent, readerVars>>

\* slip: the writer fills the ring to the last byte, and full looks like empty.
WriteSplitFull == WriteSplitAt(Size, Size)

\* The head of pipe_write: while the ring is full it yields; then it splits the
\* request or goes on to copy it.
WriteSplit == WriteSplitAt(Size - 1, Size)

\* memcpy into the ring.
WriteCopy ==
    /\ wpc = "copy"
    /\ mem' = [i \in 0 .. Size - 1 |->
                 IF i \in tail .. tail + wcount - 1 THEN sent + 1 + (i - tail) ELSE mem[i]]
    /\ wpc' = "store"
    /\ UNCHANGED <<head, tail, open, wwork, sent, wcount, readerVars>>

WriteStore ==
    /\ wpc = "store"
    /\ tail' = tail + wcount
    /\ sent' = sent + wcount
    /\ wcount' = 0
    /\ wpc' = After(wwork)
    /\ UNCHANGED <<head, open, mem, wwork, readerVars>>

WriteWrap ==
    /\ wpc = "wrap"
    /\ tail' = 0
    /\ wwork' = Tail(wwork)
    /\ wpc' = "size"
    /\ UNCHANGED <<head, open, mem, sent, wcount, readerVars>>

\* pipe_iclose, when the writing task exits.
Close ==
    /\ wpc = "user"
    /\ open' = FALSE
    /\ wpc' = "closed"
    /\ UNCHANGED <<head, tail, mem, wwork, sent, wcount, readerVars>>

-----------------------------------------------------------------------------
(* The reader                                                                *)

Read(n) ==
    /\ rpc = "user"
    /\ rwork' = <<n>>
    /\ rpc' = "size"
    /\ UNCHANGED <<ringVars, writerVars, got, rcount, rsize, seen>>

\* size = get_size(p), the condition of pipe_read's loop.
ReadSize ==
    /\ rpc = "size"
    /\ rsize' = get_size
    /\ rpc' = IF get_size = 0 THEN "open" ELSE "call"
    /\ seen' = IF get_size = 0 THEN sent ELSE seen
    /\ UNCHANGED <<ringVars, writerVars, rwork, got, rcount>>

\* slip: an empty ring is the end of the file.
ReadNoWait ==
    /\ rpc = "open"
    /\ rpc' = "eof" /\ rwork' = <<>>
    /\ UNCHANGED <<ringVars, writerVars, got, rcount, rsize, seen>>

\* Empty: 0 if the pipe is closed, else yield and look again.
ReadOpen ==
    /\ rpc = "open"
    /\ rpc' = IF open THEN "size" ELSE "eof"
    /\ rwork' = IF open THEN rwork ELSE <<>>
    /\ UNCHANGED <<ringVars, writerVars, got, rcount, rsize, seen>>

\* The request is cut to what there is, split at the end of the ring, or copied.
ReadSplit ==
    LET count == Head(rwork)
        rest  == Tail(rwork)
    IN  /\ rpc = "call"
        /\ \/ /\ count > rsize
              /\ rwork' = <<rsize>> \o rest
              /\ rpc' = "size"
              /\ UNCHANGED rcount
           \/ /\ count <= rsize /\ count + head > Size
              /\ rwork' = <<Size - head, Wrap, count - (Size - head)>> \o rest
              /\ rpc' = "size"
              /\ UNCHANGED rcount
           \/ /\ count <= rsize /\ count + head <= Size
              /\ rwork' = rest /\ rcount' = count
              /\ rpc' = "copy"
        /\ UNCHANGED <<ringVars, writerVars, got, rsize, seen>>

\* memcpy out of the ring.
ReadCopy ==
    /\ rpc = "copy"
    /\ got' = got \o [i \in 1 .. rcount |-> mem[head + i - 1]]
    /\ rpc' = "store"
    /\ UNCHANGED <<ringVars, writerVars, rwork, rcount, rsize, seen>>

ReadStore ==
    /\ rpc = "store"
    /\ head' = head + rcount
    /\ rcount' = 0
    /\ rpc' = After(rwork)
    /\ UNCHANGED <<tail, open, mem, writerVars, rwork, got, rsize, seen>>

ReadWrap ==
    /\ rpc = "wrap"
    /\ head' = 0
    /\ rwork' = Tail(rwork)
    /\ rpc' = "size"
    /\ UNCHANGED <<tail, open, mem, writerVars, got, rcount, rsize, seen>>

-----------------------------------------------------------------------------

WriteStep == WriteSplit \/ WriteCopy \/ WriteStore \/ WriteWrap
ReadStep == ReadSize \/ ReadOpen \/ ReadSplit \/ ReadCopy \/ ReadStore \/ ReadWrap

Next ==
    \/ \E n \in 1 .. Chunk : Write(n) \/ Read(n)
    \/ Close \/ WriteStep \/ ReadStep

Spec == Init /\ [][Next]_vars

\* Both tasks are scheduled; the writer ends at last (the shell's left command),
\* and the reader reads until it is told the end (the loop of its right command).
FairSpec ==
    /\ Spec
    /\ WF_vars(WriteStep) /\ WF_vars(ReadStep)
    /\ WF_vars(Close) /\ WF_vars(\E n \in 1 .. Chunk : Read(n))

-----------------------------------------------------------------------------
(* Properties                                                                *)

\* However the two ends interleave and wherever requests are split, the pipe is a
\* first-in first-out stream that holds 0xff bytes at most: no byte is repeated,
\* passed over, read before it is written, or overwritten before it is read, and
\* the reader is told the end only after a close.
Stream == INSTANCE ByteStream WITH
              Capacity <- Size - 1, received <- got, ended <- (rpc = "eof")
StreamSpec == Stream!Spec

\* The end of the file may come too early: pipe_read looks at the size first and at
\* open after it.  What a reader that is told the end has missed is what was
\* written between these two looks, and nothing else.
EndMissed == rpc \in {"open", "eof"} => Len(got) = seen

\* A request of the writer is served, although it may be longer than the ring,
\* as long as somebody reads: the two never wait for one another.
WriteReturns == wpc # "user" ~> wpc \in {"user", "closed"}
=============================================================================
