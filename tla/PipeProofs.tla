----------------------------- MODULE PipeProofs -----------------------------
(***************************************************************************)
(* Theorems of Pipe, for a ring of any size and requests of any length: its *)
(* indexes stay inside the ring, it implements ByteStream although reader   *)
(* and writer take no lock, and what the end of the file can cut off is     *)
(* bounded.                                                                 *)
(***************************************************************************)
EXTENDS Pipe, TLAPS

Work == Seq(Nat \cup {Wrap})

\* The bytes head has passed, and those that are between the ends.
Consumed == IF rpc = "store" THEN Len(got) - rcount ELSE Len(got)
Held == sent - Consumed

DataInv ==
    /\ head \in 0 .. Size /\ tail \in 0 .. Size
    /\ mem \in [0 .. Size - 1 -> Nat]
    /\ sent \in Nat /\ wcount \in Nat /\ rcount \in Nat /\ rsize \in Nat
    /\ got \in Seq(Nat)
    /\ wwork \in Work /\ rwork \in Work

\* The distance of the indexes hd and tl is h, the bytes held, up to a turn of the
\* ring: each end may have come to the end of the ring and not gone round yet.
Turn(hd, tl, h) == tl - hd \in {h - Size, h, h + Size}

TurnInv == Held \in 0 .. Size - 1 /\ Turn(head, tail, Held)

\* The place of the byte that comes j places behind the first one held.
Place(hd, j) == IF hd + j < Size THEN hd + j ELSE hd + j - Size

\* What was read is the beginning of the stream; what is held follows it.
BytesInv ==
    /\ \A i \in 1 .. Len(got) : got[i] = i
    /\ \A j \in 0 .. Held - 1 : mem[Place(head, j)] = Consumed + j + 1
    /\ wpc = "store" => \A j \in 0 .. wcount - 1 : mem[tail + j] = sent + 1 + j

\* What the writer has to do, the stack w, while the tail is at tl and h bytes are
\* held.  A part that was split off fits into the ring, at whatever speed the
\* reader empties it, and a part before Wrap ends where the ring does.
SplitPlan(w, tl, h) ==
    /\ Len(w) \in 1 .. 4 /\ w[1] \in Nat
    /\ Len(w) = 2 => w[2] \in Nat /\ w[1] + h <= Size - 1
    /\ Len(w) > 2 => /\ w[2] = Wrap /\ w[3] \in Nat
                     /\ w[1] + tl = Size
                     /\ w[1] + w[3] + h <= Size - 1
    /\ Len(w) = 4 => w[4] \in Nat

\* The same while it copies c bytes, and when it is about to go round.
CopyPlan(w, c, tl, h) ==
    /\ Len(w) \in 0 .. 3
    /\ c + h <= Size - 1 /\ tl + c <= Size
    /\ Len(w) = 1 => w[1] \in Nat
    /\ Len(w) > 1 => /\ w[1] = Wrap /\ w[2] \in Nat
                     /\ tl + c = Size
                     /\ c + w[2] + h <= Size - 1
    /\ Len(w) = 3 => w[3] \in Nat

WrapPlan(w, tl, h) ==
    /\ Len(w) \in 2 .. 3 /\ tl = Size
    /\ w[1] = Wrap /\ w[2] \in Nat /\ w[2] + h <= Size - 1
    /\ Len(w) = 3 => w[3] \in Nat

WriterInv ==
    /\ wpc \in {"user", "size", "copy", "store", "wrap", "closed"}
    /\ wpc \in {"user", "closed"} => wwork = <<>>
    /\ wpc = "size" => SplitPlan(wwork, tail, Held)
    /\ wpc \in {"copy", "store"} => CopyPlan(wwork, wcount, tail, Held)
    /\ wpc = "wrap" => WrapPlan(wwork, tail, Held)

\* What the reader has to do.  What it is about to copy is there, and the size s
\* it read is stale on the safe side.
CallPlan(w, hd, h) ==
    /\ Len(w) \in {1, 3} /\ w[1] \in Nat
    /\ Len(w) = 3 => /\ w[2] = Wrap /\ w[3] \in Nat
                     /\ w[1] + hd = Size /\ w[1] <= h

CutPlan(w, s, h) == s <= h /\ (Len(w) = 3 => w[1] <= s)

FetchPlan(w, c, hd, h) ==
    /\ Len(w) \in {0, 2}
    /\ c <= h /\ hd + c <= Size
    /\ Len(w) = 2 => w[1] = Wrap /\ w[2] \in Nat /\ hd + c = Size

RoundPlan(w, hd) == Len(w) = 2 /\ hd = Size /\ w[1] = Wrap /\ w[2] \in Nat

ReaderInv ==
    /\ rpc \in {"user", "size", "open", "call", "copy", "store", "wrap", "eof"}
    /\ rpc \in {"user", "eof"} => rwork = <<>>
    /\ rpc \in {"size", "open", "call"} => CallPlan(rwork, head, Held)
    /\ rpc = "call" => CutPlan(rwork, rsize, Held)
    /\ rpc \in {"copy", "store"} => FetchPlan(rwork, rcount, head, Held)
    /\ rpc = "wrap" => RoundPlan(rwork, head)

PipeInv == DataInv /\ TurnInv /\ BytesInv /\ WriterInv /\ ReaderInv

-----------------------------------------------------------------------------
(* The plans.  What one end does leaves the other's plan valid.              *)

LEMMA WriterPlanKept ==
    ASSUME NEW w, NEW c \in Nat, NEW tl, NEW h \in Nat, NEW g \in Nat, g <= h
    PROVE  /\ SplitPlan(w, tl, h) => SplitPlan(w, tl, g)
           /\ CopyPlan(w, c, tl, h) => CopyPlan(w, c, tl, g)
           /\ WrapPlan(w, tl, h) => WrapPlan(w, tl, g)
<1> USE PipeAssumption
<1>1. SplitPlan(w, tl, h) => SplitPlan(w, tl, g)
  BY DEF SplitPlan
<1>2. CopyPlan(w, c, tl, h) => CopyPlan(w, c, tl, g)
  BY DEF CopyPlan
<1>3. WrapPlan(w, tl, h) => WrapPlan(w, tl, g)
  BY DEF WrapPlan
<1> QED BY <1>1, <1>2, <1>3

LEMMA ReaderPlanKept ==
    ASSUME NEW w, NEW c \in Nat, NEW hd, NEW h \in Nat, NEW g \in Nat, h <= g
    PROVE  /\ CallPlan(w, hd, h) => CallPlan(w, hd, g)
           /\ CutPlan(w, c, h) => CutPlan(w, c, g)
           /\ FetchPlan(w, c, hd, h) => FetchPlan(w, c, hd, g)
<1>1. CallPlan(w, hd, h) => CallPlan(w, hd, g)
  BY DEF CallPlan
<1>2. CutPlan(w, c, h) => CutPlan(w, c, g)
  BY DEF CutPlan
<1>3. FetchPlan(w, c, hd, h) => FetchPlan(w, c, hd, g)
  BY DEF FetchPlan
<1> QED BY <1>1, <1>2, <1>3

\* The rest of a stack.
LEMMA Pop ==
    ASSUME NEW w \in Work, Len(w) > 0
    PROVE  /\ Head(w) = w[1] /\ Tail(w) \in Work /\ Len(Tail(w)) = Len(w) - 1
           /\ Len(w) = 1 => Tail(w) = <<>>
           /\ Len(w) > 1 => Tail(w)[1] = w[2]
           /\ Len(w) > 2 => Tail(w)[2] = w[3]
           /\ Len(w) > 3 => Tail(w)[3] = w[4]
<1>1. Head(w) = w[1] /\ Tail(w) \in Work /\ Len(Tail(w)) = Len(w) - 1
  BY DEF Work
<1>2. Len(w) = 1 => Tail(w) = <<>>
  <2> DEFINE r == Tail(w)
  <2>1. r \in Work /\ (Len(w) = 1 => Len(r) = 0)
    BY <1>1
  <2> HIDE DEF r
  <2>2. Len(r) = 0 => r = <<>>
    BY <2>1 DEF Work
  <2> QED BY <2>1, <2>2 DEF r
<1>3. \A i \in 1 .. Len(w) - 1 : Tail(w)[i] = w[i + 1]
  BY DEF Work
<1>4. Len(w) \in Nat
  BY DEF Work
<1>5. Len(w) > 1 => Tail(w)[1] = w[2]
  BY <1>3, <1>4
<1>6. Len(w) > 2 => Tail(w)[2] = w[3]
  BY <1>3, <1>4
<1>7. Len(w) > 3 => Tail(w)[3] = w[4]
  BY <1>3, <1>4
<1> QED BY <1>1, <1>2, <1>5, <1>6, <1>7

\* A writer's request is split in two because the ring is too full,
LEMMA SplitFull ==
    ASSUME NEW w \in Work, NEW tl \in 0 .. Size, NEW h \in Nat, h < Size - 1,
           SplitPlan(w, tl, h), Head(w) + h > Size - 1
    PROVE  LET v == <<Size - 1 - h, Head(w) - (Size - 1 - h)>> \o Tail(w)
           IN  v \in Work /\ SplitPlan(v, tl, h)
<1> USE PipeAssumption
<1>1. Head(w) = w[1] /\ w[1] \in Nat /\ Len(w) = 1 /\ Tail(w) = <<>>
  <2>1. Len(w) \in 1 .. 4 /\ w[1] \in Nat /\ Head(w) = w[1]
    BY Pop DEF SplitPlan
  <2>2. ~(Len(w) = 2) /\ ~(Len(w) > 2)
    BY <2>1 DEF SplitPlan
  <2>3. Len(w) = 1 /\ Len(w) > 0
    <3> DEFINE m == Len(w)
    <3>1. m \in 1 .. 4 /\ ~(m = 2) /\ ~(m > 2)
      BY <2>1, <2>2
    <3> HIDE DEF m
    <3>2. m = 1 /\ m > 0
      BY <3>1
    <3> QED BY <3>2 DEF m
  <2>4. Tail(w) = <<>>
    BY <2>3, Pop
  <2> QED BY <2>1, <2>3, <2>4
<1> DEFINE a == Size - 1 - h
           b == Head(w) - (Size - 1 - h)
<1>2. a \in Nat /\ b \in Nat /\ a + h = Size - 1
  BY <1>1
<1> HIDE DEF a, b
<1>3. <<a, b>> \o Tail(w) = <<a, b>>
  <2>1. <<a, b>> \o <<>> = <<a, b>>
    OBVIOUS
  <2> QED BY <1>1, <2>1
<1>4. <<a, b>> \in Work /\ SplitPlan(<<a, b>>, tl, h)
  BY <1>2 DEF Work, SplitPlan
<1> QED BY <1>3, <1>4 DEF a, b

\* at the end of the ring,
LEMMA SplitEnd ==
    ASSUME NEW w \in Work, NEW tl \in 0 .. Size, NEW h \in Nat, h < Size - 1,
           SplitPlan(w, tl, h), Head(w) + h <= Size - 1, Head(w) + tl > Size
    PROVE  LET v == <<Size - tl, Wrap, Head(w) - (Size - tl)>> \o Tail(w)
           IN  v \in Work /\ SplitPlan(v, tl, h)
<1> USE PipeAssumption
<1>1. /\ Head(w) = w[1] /\ w[1] \in Nat /\ Len(w) \in 1 .. 2
      /\ Tail(w) \in Work /\ Len(Tail(w)) = Len(w) - 1
      /\ Len(w) = 2 => Tail(w)[1] \in Nat
  <2>1. Len(w) \in 1 .. 4 /\ w[1] \in Nat /\ Head(w) = w[1]
    BY Pop DEF SplitPlan
  <2>2. ~(Len(w) > 2)
    BY <2>1 DEF SplitPlan
  <2>3. Len(w) = 2 => w[2] \in Nat
    BY DEF SplitPlan
  <2>4. Len(w) > 0 /\ (Len(w) = 2 => Len(w) > 1) /\ Len(w) \in 1 .. 2
    <3> DEFINE m == Len(w)
    <3>1. m \in 1 .. 4 /\ ~(m > 2)
      BY <2>1, <2>2
    <3> HIDE DEF m
    <3>2. m > 0 /\ (m = 2 => m > 1) /\ m \in 1 .. 2
      BY <3>1
    <3> QED BY <3>2 DEF m
  <2>5. Tail(w) \in Work /\ Len(Tail(w)) = Len(w) - 1 /\ (Len(w) = 2 => Tail(w)[1] = w[2])
    BY <2>4, Pop
  <2> QED BY <2>1, <2>3, <2>4, <2>5
<1> DEFINE a == Size - tl
           b == Head(w) - (Size - tl)
           v == <<a, Wrap, b>> \o Tail(w)
<1>2. a \in Nat /\ b \in Nat /\ a + tl = Size /\ a + b + h <= Size - 1
  BY <1>1
<1> HIDE DEF a, b
<1>3. /\ v \in Work /\ Len(v) = 3 + Len(Tail(w))
      /\ v[1] = a /\ v[2] = Wrap /\ v[3] = b
      /\ Len(w) = 2 => v[4] = Tail(w)[1]
  BY <1>1, <1>2 DEF Work
<1> HIDE DEF v
<1>4. Len(v) \in 3 .. 4 /\ (Len(v) = 4 => v[4] \in Nat)
  <2> DEFINE r == Tail(w)
             n == Len(w)
  <2>1. Len(v) = 3 + Len(r) /\ Len(r) = n - 1 /\ n \in 1 .. 2
    BY <1>1, <1>3
  <2>2. n = 2 => v[4] \in Nat
    BY <1>1, <1>3
  <2> HIDE DEF r, n
  <2> QED BY <2>1, <2>2
<1>5. SplitPlan(v, tl, h)
  BY <1>2, <1>3, <1>4 DEF SplitPlan
<1> QED BY <1>3, <1>5 DEF v, a, b

\* or goes on to be copied.
LEMMA SplitNot ==
    ASSUME NEW w \in Work, NEW tl \in 0 .. Size, NEW h \in Nat, h < Size - 1,
           SplitPlan(w, tl, h), Head(w) + h <= Size - 1, Head(w) + tl <= Size
    PROVE  /\ Head(w) \in Nat /\ Tail(w) \in Work
           /\ CopyPlan(Tail(w), Head(w), tl, h)
<1> USE PipeAssumption
<1> DEFINE r == Tail(w)
           n == Head(w)
<1>1. /\ Len(w) \in 1 .. 4 /\ n \in Nat /\ n = w[1]
      /\ r \in Work /\ Len(r) = Len(w) - 1
  <2>1. Len(w) \in 1 .. 4 /\ w[1] \in Nat
    BY DEF SplitPlan
  <2> QED BY <2>1, Pop
<1>2. n + h <= Size - 1 /\ n + tl <= Size
  OBVIOUS
<1> DEFINE m == Len(w)
           k == Len(r)
<1>6. m \in 1 .. 4 /\ k = m - 1
  BY <1>1
<1>7. /\ k \in 0 .. 3 /\ m > 0
      /\ m = 1 => k # 1 /\ ~(k > 1) /\ k # 3
      /\ m = 2 => m > 1 /\ ~(k > 1) /\ k # 3
      /\ m \in 3 .. 4 => m > 1 /\ m > 2 /\ k # 1 /\ (k = 3 => m = 4) /\ (m = 4 => m > 3)
  <2> HIDE DEF m, k
  <2> QED BY <1>6
<1>3. CASE Len(w) = 1
  <2>1. Len(r) \in 0 .. 3 /\ Len(r) # 1 /\ ~(Len(r) > 1) /\ Len(r) # 3
    BY <1>3, <1>7
  <2>3. n + h <= Size - 1 /\ tl + n <= Size
    BY <1>1, <1>2
  <2> HIDE DEF r, n
  <2>2. CopyPlan(r, n, tl, h)
    BY <2>1, <2>3, Zenon DEF CopyPlan
  <2> QED BY <1>1, <2>2 DEF r, n
<1>4. CASE Len(w) = 2
  <2>1. Len(r) \in 0 .. 3 /\ ~(Len(r) > 1) /\ Len(r) # 3 /\ Len(w) > 0 /\ Len(w) > 1
    BY <1>4, <1>7
  <2>3. n + h <= Size - 1 /\ tl + n <= Size
    BY <1>1, <1>2
  <2>4. r[1] \in Nat
    <3>1. w[2] \in Nat
      BY <1>4 DEF SplitPlan
    <3>2. r[1] = w[2]
      BY <2>1, Pop
    <3> QED BY <3>1, <3>2
  <2> HIDE DEF r, n
  <2>2. CopyPlan(r, n, tl, h)
    BY <2>1, <2>3, <2>4, Zenon DEF CopyPlan
  <2> QED BY <1>1, <2>2 DEF r, n
<1>5. CASE Len(w) \in 3 .. 4
  <2>1. /\ Len(r) \in 0 .. 3 /\ Len(r) # 1 /\ (Len(r) = 3 => Len(w) = 4)
        /\ Len(w) > 0 /\ Len(w) > 1 /\ Len(w) > 2 /\ (Len(w) = 4 => Len(w) > 3)
    BY <1>5, <1>7
  <2>2. r[1] = w[2] /\ r[2] = w[3] /\ (Len(w) = 4 => r[3] = w[4])
    BY <2>1, Pop
  <2>4. /\ w[2] = Wrap /\ w[3] \in Nat /\ w[1] + tl = Size /\ w[1] + w[3] + h <= Size - 1
        /\ Len(w) = 4 => w[4] \in Nat
    BY <2>1 DEF SplitPlan
  <2>5. /\ r[1] = Wrap /\ r[2] \in Nat /\ n + tl = Size /\ n + r[2] + h <= Size - 1
        /\ Len(r) = 3 => r[3] \in Nat
    BY <1>1, <2>1, <2>2, <2>4
  <2>6. n + h <= Size - 1 /\ tl + n <= Size /\ tl + n = Size
    BY <1>1, <1>2, <2>5
  <2> HIDE DEF r, n
  <2>3. CopyPlan(r, n, tl, h)
    BY <2>1, <2>5, <2>6, Zenon DEF CopyPlan
  <2> QED BY <1>1, <2>3 DEF r, n
<1> QED BY <1>1, <1>3, <1>4, <1>5

\* Its bytes are in the ring.
LEMMA StorePlan ==
    ASSUME NEW w \in Work, NEW c \in Nat, NEW tl \in 0 .. Size, NEW h \in Nat,
           CopyPlan(w, c, tl, h)
    PROVE  \/ w = <<>> /\ After(w) = "user"
           \/ After(w) = "size" /\ SplitPlan(w, tl + c, h + c)
           \/ After(w) = "wrap" /\ WrapPlan(w, tl + c, h + c)
<1> USE PipeAssumption
<1>1. Len(w) \in 0 .. 3
  BY DEF CopyPlan
<1>2. CASE Len(w) = 0
  <2>1. w = <<>>
    BY <1>2 DEF Work
  <2> QED BY <2>1 DEF After
<1>3. CASE Len(w) = 1
  <2>1. w # <<>> /\ Head(w) \in Nat /\ w[1] \in Nat
    BY <1>3, Pop DEF CopyPlan
  <2>2. After(w) = "size"
    BY <2>1 DEF After
  <2>3. SplitPlan(w, tl + c, h + c)
    BY <1>3, <2>1 DEF SplitPlan
  <2> QED BY <2>2, <2>3
<1>4. CASE Len(w) \in 2 .. 3
  <2>1. w # <<>> /\ Head(w) = Wrap
    <3>1. Len(w) > 0 /\ Len(w) > 1
      <4>1. \A m \in 2 .. 3 : m > 0 /\ m > 1
        OBVIOUS
      <4> QED BY <1>4, <4>1
    <3>2. w[1] = Wrap
      BY <3>1 DEF CopyPlan
    <3>3. Head(w) = w[1]
      BY <3>1, Pop
    <3> QED BY <3>1, <3>2, <3>3
  <2>2. After(w) = "wrap"
    BY <2>1 DEF After
  <2>3. WrapPlan(w, tl + c, h + c)
    BY <1>4 DEF CopyPlan, WrapPlan
  <2> QED BY <2>2, <2>3
<1> QED BY <1>1, <1>2, <1>3, <1>4

\* It goes round.
LEMMA AfterWrap ==
    ASSUME NEW w \in Work, NEW tl, NEW h \in Nat, WrapPlan(w, tl, h)
    PROVE  Tail(w) \in Work /\ SplitPlan(Tail(w), 0, h)
<1> USE PipeAssumption
<1> DEFINE r == Tail(w)
<1>1. Len(w) \in 2 .. 3 /\ w[2] \in Nat /\ w[2] + h <= Size - 1
  BY DEF WrapPlan
<1>2. Len(w) = 3 => w[3] \in Nat
  BY DEF WrapPlan
<1>3. r \in Work /\ Len(r) = Len(w) - 1 /\ r[1] = w[2]
  BY <1>1, Pop
<1>4. ASSUME Len(w) = 3 PROVE r[2] = w[3]
  <2>1. Len(w) > 0 /\ Len(w) > 2
    BY <1>4
  <2> QED BY <2>1, Pop
<1> HIDE DEF r
<1>5. /\ Len(r) \in 1 .. 2 /\ r[1] \in Nat /\ r[1] + h <= Size - 1
      /\ Len(r) = 2 => r[2] \in Nat
  BY <1>1, <1>2, <1>3, <1>4
<1>6. SplitPlan(r, 0, h)
  BY <1>5 DEF SplitPlan
<1> QED BY <1>3, <1>6 DEF r

\* A reader's request is cut to what there is,
LEMMA CutShort ==
    ASSUME NEW w \in Work, NEW hd \in 0 .. Size, NEW h \in Nat, NEW s \in Nat,
           CallPlan(w, hd, h), CutPlan(w, s, h), Head(w) > s
    PROVE  <<s>> \o Tail(w) \in Work /\ CallPlan(<<s>> \o Tail(w), hd, h)
<1>1. Len(w) = 1 /\ Tail(w) = <<>>
  <2>1. Len(w) \in {1, 3} /\ w[1] \in Nat /\ Head(w) = w[1]
    BY Pop DEF CallPlan
  <2>2. ~(Len(w) = 3)
    BY <2>1 DEF CutPlan
  <2>3. Len(w) = 1
    BY <2>1, <2>2
  <2> QED BY <2>3, Pop
<1>2. <<s>> \o Tail(w) = <<s>>
  <2>1. <<s>> \o <<>> = <<s>>
    OBVIOUS
  <2> QED BY <1>1, <2>1
<1> QED BY <1>2 DEF Work, CallPlan

\* split at the end of the ring,
LEMMA CutEnd ==
    ASSUME NEW w \in Work, NEW hd \in 0 .. Size, NEW h \in Nat, NEW s \in Nat,
           CallPlan(w, hd, h), CutPlan(w, s, h), Head(w) <= s, Head(w) + hd > Size
    PROVE  LET v == <<Size - hd, Wrap, Head(w) - (Size - hd)>> \o Tail(w)
           IN  v \in Work /\ CallPlan(v, hd, h)
<1> USE PipeAssumption
<1>1. Len(w) = 1 /\ Tail(w) = <<>> /\ Head(w) \in Nat
  <2>1. Len(w) \in {1, 3} /\ w[1] \in Nat /\ Head(w) = w[1]
    BY Pop DEF CallPlan
  <2>2. ~(Len(w) = 3)
    BY <2>1 DEF CallPlan
  <2>3. Len(w) = 1 /\ Len(w) > 0
    <3> DEFINE m == Len(w)
    <3>1. m \in {1, 3} /\ ~(m = 3)
      BY <2>1, <2>2
    <3> HIDE DEF m
    <3>2. m = 1 /\ m > 0
      BY <3>1
    <3> QED BY <3>2 DEF m
  <2>4. Tail(w) = <<>>
    BY <2>3, Pop
  <2> QED BY <2>1, <2>3, <2>4
<1> DEFINE a == Size - hd
           b == Head(w) - (Size - hd)
<1>2. a \in Nat /\ b \in Nat /\ a + hd = Size /\ a <= h
  BY <1>1 DEF CutPlan
<1> HIDE DEF a, b
<1>3. <<a, Wrap, b>> \o Tail(w) = <<a, Wrap, b>>
  <2>1. <<a, Wrap, b>> \o <<>> = <<a, Wrap, b>>
    OBVIOUS
  <2> QED BY <1>1, <2>1
<1>4. <<a, Wrap, b>> \in Work /\ CallPlan(<<a, Wrap, b>>, hd, h)
  BY <1>2 DEF Work, CallPlan
<1> QED BY <1>3, <1>4 DEF a, b

\* or goes on to be copied.
LEMMA CutNot ==
    ASSUME NEW w \in Work, NEW hd \in 0 .. Size, NEW h \in Nat, NEW s \in Nat,
           CallPlan(w, hd, h), CutPlan(w, s, h), Head(w) <= s, Head(w) + hd <= Size
    PROVE  /\ Head(w) \in Nat /\ Tail(w) \in Work
           /\ FetchPlan(Tail(w), Head(w), hd, h)
<1> USE PipeAssumption
<1> DEFINE r == Tail(w)
           n == Head(w)
<1>1. /\ Len(w) \in {1, 3} /\ n \in Nat /\ n = w[1]
      /\ r \in Work /\ Len(r) = Len(w) - 1
  <2>1. Len(w) \in {1, 3} /\ w[1] \in Nat
    BY DEF CallPlan
  <2> QED BY <2>1, Pop
<1>2. n <= h /\ hd + n <= Size
  BY <1>1 DEF CutPlan
<1>3. Len(w) = 3 => r[1] = Wrap /\ r[2] \in Nat /\ hd + n = Size
  <2> SUFFICES ASSUME Len(w) = 3 PROVE r[1] = Wrap /\ r[2] \in Nat /\ hd + n = Size
    OBVIOUS
  <2>1. w[2] = Wrap /\ w[3] \in Nat /\ w[1] + hd = Size
    BY DEF CallPlan
  <2>2. r[1] = w[2] /\ r[2] = w[3]
    <3>1. Len(w) > 0 /\ Len(w) > 1 /\ Len(w) > 2
      OBVIOUS
    <3> QED BY <3>1, Pop
  <2> HIDE DEF r, n
  <2> QED BY <1>1, <2>1, <2>2
<1> HIDE DEF r, n
<1>4. Len(r) \in {0, 2} /\ (Len(r) = 2 => Len(w) = 3)
  BY <1>1
<1>5. FetchPlan(r, n, hd, h)
  BY <1>2, <1>3, <1>4 DEF FetchPlan
<1> QED BY <1>1, <1>5 DEF r, n

\* It has its bytes.
LEMMA FetchedPlan ==
    ASSUME NEW w \in Work, NEW c \in Nat, NEW hd \in 0 .. Size, NEW h \in Nat,
           FetchPlan(w, c, hd, h)
    PROVE  \/ w = <<>> /\ After(w) = "user"
           \/ After(w) = "wrap" /\ RoundPlan(w, hd + c)
<1>1. CASE Len(w) = 0
  <2>1. w = <<>>
    BY <1>1 DEF Work
  <2> QED BY <2>1 DEF After
<1>2. CASE Len(w) = 2
  <2>1. w # <<>> /\ Head(w) = Wrap
    <3>1. Len(w) > 0
      BY <1>2
    <3>2. w[1] = Wrap
      BY <1>2 DEF FetchPlan
    <3>3. Head(w) = w[1]
      BY <3>1, Pop
    <3> QED BY <3>1, <3>2, <3>3
  <2>2. After(w) = "wrap"
    BY <2>1 DEF After
  <2>3. RoundPlan(w, hd + c)
    BY <1>2 DEF FetchPlan, RoundPlan
  <2> QED BY <2>2, <2>3
<1> QED BY <1>1, <1>2 DEF FetchPlan

\* It goes round.
LEMMA AfterRound ==
    ASSUME NEW w \in Work, NEW hd, NEW h \in Nat, RoundPlan(w, hd)
    PROVE  Tail(w) \in Work /\ CallPlan(Tail(w), 0, h)
<1> DEFINE r == Tail(w)
<1>1. Len(w) = 2 /\ w[2] \in Nat
  BY DEF RoundPlan
<1>2. r \in Work /\ Len(r) = Len(w) - 1 /\ r[1] = w[2]
  BY <1>1, Pop
<1> HIDE DEF r
<1>3. Len(r) = 1 /\ r[1] \in Nat
  BY <1>1, <1>2
<1>4. CallPlan(r, 0, h)
  BY <1>3 DEF CallPlan
<1> QED BY <1>2, <1>4 DEF r
-----------------------------------------------------------------------------
(* The ring, with its ends at hd and tl and h bytes held.                    *)

LEMMA Modulo ==
    ASSUME NEW d \in 0 .. Size - 1, NEW k \in {d - Size, d, d + Size}
    PROVE  k % Size = d
<1> USE PipeAssumption
<1>1. CASE k = d - Size
  BY <1>1
<1>2. CASE k = d
  BY <1>2
<1>3. CASE k = d + Size
  BY <1>3
<1> QED BY <1>1, <1>2, <1>3

\* What the writer copies into the ring overwrites nothing that is held,
LEMMA Apart ==
    ASSUME NEW hd \in 0 .. Size, NEW tl \in 0 .. Size, NEW h \in 0 .. Size - 1,
           Turn(hd, tl, h), NEW c \in Nat, c + h <= Size - 1, tl + c <= Size,
           NEW j \in 0 .. h - 1
    PROVE  Place(hd, j) \in 0 .. Size - 1 /\ Place(hd, j) \notin tl .. tl + c - 1
<1> USE PipeAssumption
<1>1. CASE hd + j < Size
  BY <1>1 DEF Place, Turn
<1>2. CASE ~(hd + j < Size)
  BY <1>2 DEF Place, Turn
<1> QED BY <1>1, <1>2

\* and follows it.
LEMMA Behind ==
    ASSUME NEW hd \in 0 .. Size, NEW tl \in 0 .. Size, NEW h \in 0 .. Size - 1,
           Turn(hd, tl, h), NEW c \in Nat, c + h <= Size - 1, tl + c <= Size
    PROVE  /\ Turn(hd, tl + c, h + c)
           /\ \A k \in 0 .. c - 1 : Place(hd, h + k) = tl + k
<1> USE PipeAssumption
<1>1. Turn(hd, tl + c, h + c)
  BY DEF Turn
<1>2. ASSUME NEW k \in 0 .. c - 1 PROVE Place(hd, h + k) = tl + k
  BY DEF Turn, Place
<1> QED BY <1>1, <1>2

\* What the reader copies out of the ring is the first that is held.
LEMMA InFront ==
    ASSUME NEW hd \in 0 .. Size, NEW tl \in 0 .. Size, NEW h \in 0 .. Size - 1,
           Turn(hd, tl, h), NEW c \in Nat, c <= h, hd + c <= Size
    PROVE  /\ Turn(hd + c, tl, h - c)
           /\ \A j \in 0 .. c - 1 : Place(hd, j) = hd + j
           /\ \A j \in 0 .. h - c - 1 : Place(hd + c, j) = Place(hd, c + j)
<1> USE PipeAssumption
<1>1. Turn(hd + c, tl, h - c)
  BY DEF Turn
<1>2. ASSUME NEW j \in 0 .. c - 1 PROVE Place(hd, j) = hd + j
  BY DEF Place
<1>3. ASSUME NEW j \in 0 .. h - c - 1 PROVE Place(hd + c, j) = Place(hd, c + j)
  BY DEF Place
<1> QED BY <1>1, <1>2, <1>3

\* An end that goes round moves nothing.
LEMMA GoRound ==
    ASSUME NEW hd \in 0 .. Size, NEW tl \in 0 .. Size, NEW h \in 0 .. Size - 1,
           Turn(hd, tl, h)
    PROVE  /\ tl = Size => Turn(hd, 0, h)
           /\ hd = Size => /\ Turn(0, tl, h)
                           /\ \A j \in 0 .. h - 1 : Place(0, j) = Place(hd, j)
<1> USE PipeAssumption
<1>1. tl = Size => Turn(hd, 0, h)
  BY DEF Turn
<1>2. hd = Size => Turn(0, tl, h)
  BY DEF Turn
<1>3. ASSUME hd = Size, NEW j \in 0 .. h - 1 PROVE Place(0, j) = Place(hd, j)
  BY <1>3 DEF Place
<1> QED BY <1>1, <1>2, <1>3

-----------------------------------------------------------------------------
(* The state.                                                                *)

LEMMA SizeIsHeld ==
    ASSUME TurnInv
    PROVE  get_size = Held
<1> QED BY Modulo DEF TurnInv, Turn, get_size

LEMMA Numbers ==
    ASSUME DataInv, TurnInv
    PROVE  /\ Len(got) \in Nat /\ Consumed \in Int /\ Held \in Nat
           /\ Held \in 0 .. Size - 1 /\ Held = sent - Consumed
<1>1. Len(got) \in Nat /\ rcount \in Nat /\ sent \in Nat
  BY DEF DataInv
<1>2. Consumed \in Int
  BY <1>1 DEF Consumed
<1>3. Held \in 0 .. Size - 1
  BY DEF TurnInv
<1>4. \A x \in 0 .. Size - 1 : x \in Nat
  BY PipeAssumption
<1> QED BY <1>1, <1>2, <1>3, <1>4 DEF Held

LEMMA ReaderKept ==
    ASSUME DataInv, TurnInv, ReaderInv,
           UNCHANGED <<head, rpc, rwork, got, rcount, rsize>>,
           Held' \in Nat, Held <= Held'
    PROVE  ReaderInv'
<1>1. UNCHANGED <<head, rpc, rwork, got, rcount, rsize>>
  OBVIOUS
<1>2. Held \in Nat /\ rcount \in Nat /\ rsize \in Nat
  BY Numbers DEF DataInv
<1>3. CallPlan(rwork, head, Held) => CallPlan(rwork, head, Held')
  BY <1>2, ReaderPlanKept
<1>4. CutPlan(rwork, rsize, Held) => CutPlan(rwork, rsize, Held')
  BY <1>2, ReaderPlanKept
<1>5. FetchPlan(rwork, rcount, head, Held) => FetchPlan(rwork, rcount, head, Held')
  BY <1>2, ReaderPlanKept
<1> QED BY <1>1, <1>3, <1>4, <1>5 DEF ReaderInv

LEMMA WriterKept ==
    ASSUME DataInv, TurnInv, WriterInv, UNCHANGED <<tail, writerVars>>,
           Held' \in Nat, Held' <= Held
    PROVE  WriterInv'
<1>1. UNCHANGED <<tail, wpc, wwork, sent, wcount>>
  BY DEF writerVars
<1>2. Held \in Nat /\ wcount \in Nat
  BY Numbers DEF DataInv
<1>3. SplitPlan(wwork, tail, Held) => SplitPlan(wwork, tail, Held')
  BY <1>2, WriterPlanKept
<1>4. CopyPlan(wwork, wcount, tail, Held) => CopyPlan(wwork, wcount, tail, Held')
  BY <1>2, WriterPlanKept
<1>5. WrapPlan(wwork, tail, Held) => WrapPlan(wwork, tail, Held')
  BY <1>2, WriterPlanKept
<1> QED BY <1>1, <1>3, <1>4, <1>5 DEF WriterInv

LEMMA InitInv == Init => PipeInv
<1> SUFFICES ASSUME Init PROVE PipeInv
  OBVIOUS
<1> USE PipeAssumption DEF Init
<1>1. DataInv
  BY DEF DataInv, Work
<1>2. Consumed = 0 /\ Held = 0
  <2>1. Consumed = 0
    BY DEF Consumed
  <2> QED BY <2>1 DEF Held
<1>3. TurnInv /\ BytesInv
  BY <1>2 DEF TurnInv, Turn, BytesInv
<1>4. WriterInv /\ ReaderInv
  BY DEF WriterInv, ReaderInv
<1> QED BY <1>1, <1>3, <1>4 DEF PipeInv

-----------------------------------------------------------------------------
(* The writer.                                                               *)

\* A step that moves no byte and no index.
LEMMA WriterPlans ==
    ASSUME PipeInv, UNCHANGED <<head, tail, mem, sent, readerVars>>,
           wcount' \in Nat, wwork' \in Work, wpc' # "store", Held' = Held => WriterInv'
    PROVE  PipeInv'
<1> USE DEF PipeInv
<1>1. UNCHANGED <<head, tail, mem, sent, rpc, rwork, got, rcount, rsize>>
  BY DEF readerVars
<1>2. Consumed' = Consumed /\ Held' = Held
  BY <1>1 DEF Consumed, Held
<1>3. DataInv'
  BY <1>1 DEF DataInv
<1>4. TurnInv'
  BY <1>1, <1>2 DEF TurnInv
<1>5. BytesInv'
  BY <1>1, <1>2 DEF BytesInv
<1>6. ReaderInv'
  BY <1>1, <1>2, Numbers, ReaderKept
<1> QED BY <1>2, <1>3, <1>4, <1>5, <1>6

LEMMA WriteInv == ASSUME PipeInv, NEW n \in 1 .. Chunk, Write(n) PROVE PipeInv'
<1>1. /\ n \in Nat /\ wwork' = <<n>> /\ wpc' = "size" /\ wcount' = wcount
      /\ UNCHANGED <<head, tail, mem, sent, readerVars>>
  BY PipeAssumption DEF Write, ringVars
<1>2. <<n>> \in Work /\ wcount \in Nat
  BY <1>1 DEF Work, PipeInv, DataInv
<1>3. SplitPlan(<<n>>, tail', Held')
  BY <1>1 DEF SplitPlan
<1>4. WriterInv'
  BY <1>1, <1>3 DEF WriterInv
<1> QED BY <1>1, <1>2, <1>4, WriterPlans

LEMMA CloseInv == ASSUME PipeInv, Close PROVE PipeInv'
<1>1. /\ wpc' = "closed" /\ wwork' = wwork /\ wcount' = wcount
      /\ UNCHANGED <<head, tail, mem, sent, readerVars>>
  BY DEF Close
<1>2. wwork \in Work /\ wcount \in Nat /\ wwork = <<>>
  BY DEF PipeInv, DataInv, WriterInv, Close
<1>3. WriterInv'
  BY <1>1, <1>2 DEF WriterInv
<1> QED BY <1>1, <1>2, <1>3, WriterPlans

LEMMA WriteSplitInv == ASSUME PipeInv, WriteSplit PROVE PipeInv'
<1> USE DEF PipeInv
<1> DEFINE h == Held
           a == Size - 1 - h
           b == Head(wwork) - (Size - 1 - h)
           v == <<a, b>> \o Tail(wwork)
           e == Size - tail
           f == Head(wwork) - (Size - tail)
           u == <<e, Wrap, f>> \o Tail(wwork)
<1>1. /\ h \in Nat /\ h < Size - 1 /\ tail \in 0 .. Size /\ wcount \in Nat
      /\ wwork \in Work /\ wpc = "size" /\ SplitPlan(wwork, tail, h) /\ get_size = h
  BY SizeIsHeld, Numbers DEF WriteSplit, WriteSplitAt, DataInv, WriterInv
<1>2. UNCHANGED <<head, tail, mem, sent, readerVars>>
  BY DEF WriteSplit, WriteSplitAt, ringVars
<1>3. \/ /\ Head(wwork) + h > Size - 1 /\ wwork' = v
         /\ UNCHANGED <<wpc, wcount>>
      \/ /\ Head(wwork) + h <= Size - 1 /\ Head(wwork) + tail > Size /\ wwork' = u
         /\ UNCHANGED <<wpc, wcount>>
      \/ /\ Head(wwork) + h <= Size - 1 /\ Head(wwork) + tail <= Size
         /\ wwork' = Tail(wwork) /\ wcount' = Head(wwork) /\ wpc' = "copy"
  BY <1>1 DEF WriteSplit, WriteSplitAt
<1>4. CASE /\ Head(wwork) + h > Size - 1 /\ wwork' = v
           /\ UNCHANGED <<wpc, wcount>>
  <2>1. v \in Work /\ SplitPlan(v, tail, h)
    BY <1>1, <1>4, SplitFull
  <2> HIDE DEF v, a, b
  <2>2. Held' = Held => WriterInv'
    BY <1>1, <1>2, <1>4, <2>1 DEF WriterInv
  <2> QED BY <1>1, <1>2, <1>4, <2>1, <2>2, WriterPlans
<1>5. CASE /\ Head(wwork) + h <= Size - 1 /\ Head(wwork) + tail > Size /\ wwork' = u
           /\ UNCHANGED <<wpc, wcount>>
  <2>1. u \in Work /\ SplitPlan(u, tail, h)
    BY <1>1, <1>5, SplitEnd
  <2> HIDE DEF u, e, f
  <2>2. Held' = Held => WriterInv'
    BY <1>1, <1>2, <1>5, <2>1 DEF WriterInv
  <2> QED BY <1>1, <1>2, <1>5, <2>1, <2>2, WriterPlans
<1>6. CASE /\ Head(wwork) + h <= Size - 1 /\ Head(wwork) + tail <= Size
           /\ wwork' = Tail(wwork) /\ wcount' = Head(wwork) /\ wpc' = "copy"
  <2>1. /\ Head(wwork) \in Nat /\ Tail(wwork) \in Work
        /\ CopyPlan(Tail(wwork), Head(wwork), tail, h)
    BY <1>1, <1>6, SplitNot
  <2>2. Held' = Held => WriterInv'
    BY <1>1, <1>2, <1>6, <2>1 DEF WriterInv
  <2> QED BY <1>1, <1>2, <1>6, <2>1, <2>2, WriterPlans
<1> QED BY <1>3, <1>4, <1>5, <1>6
LEMMA WriteCopyInv == ASSUME PipeInv, WriteCopy PROVE PipeInv'
<1> USE DEF PipeInv
<1> DEFINE h == Held
           b == Consumed
<1>1. /\ wpc = "copy" /\ wpc' = "store"
      /\ mem' = [i \in 0 .. Size - 1 |->
                   IF i \in tail .. tail + wcount - 1 THEN sent + 1 + (i - tail) ELSE mem[i]]
      /\ UNCHANGED <<head, tail, wwork, sent, wcount, rpc, rwork, got, rcount, rsize>>
  BY DEF WriteCopy, readerVars
<1>2. /\ head \in 0 .. Size /\ tail \in 0 .. Size /\ wcount \in Nat /\ sent \in Nat
      /\ mem \in [0 .. Size - 1 -> Nat] /\ h \in 0 .. Size - 1 /\ Turn(head, tail, h)
      /\ wwork \in Work /\ CopyPlan(wwork, wcount, tail, h)
  BY <1>1, Numbers DEF DataInv, TurnInv, WriterInv
<1>3. wcount + h <= Size - 1 /\ tail + wcount <= Size
  BY <1>2 DEF CopyPlan
<1>4. Consumed' = b /\ Held' = h
  BY <1>1 DEF Consumed, Held
<1>5. DataInv'
  <2>1. \A i \in 0 .. Size - 1 : i \in tail .. tail + wcount - 1 => sent + 1 + (i - tail) \in Nat
    BY <1>2, PipeAssumption
  <2>2. mem' \in [0 .. Size - 1 -> Nat]
    BY <1>1, <1>2, <2>1
  <2> QED BY <1>1, <2>2 DEF DataInv
<1>6. TurnInv'
  BY <1>1, <1>4 DEF TurnInv
<1>7. WriterInv'
  BY <1>1, <1>2, <1>4 DEF WriterInv
<1>8. ReaderInv'
  BY <1>1, <1>4, Numbers, ReaderKept
<1>9. BytesInv'
  <2>1. \A j \in 0 .. h - 1 : mem[Place(head, j)] = b + j + 1
    BY DEF BytesInv
  <2> HIDE DEF h, b
  <2>2. ASSUME NEW j \in 0 .. h - 1 PROVE mem'[Place(head, j)] = b + j + 1
    <3>1. Place(head, j) \in 0 .. Size - 1 /\ Place(head, j) \notin tail .. tail + wcount - 1
      BY <1>2, <1>3, Apart
    <3>2. mem'[Place(head, j)] = mem[Place(head, j)]
      BY <1>1, <3>1
    <3> QED BY <2>1, <3>2
  <2>3. ASSUME NEW j \in 0 .. wcount - 1 PROVE mem'[tail + j] = sent + 1 + j
    <3>1. /\ tail + j \in 0 .. Size - 1 /\ tail + j \in tail .. tail + wcount - 1
          /\ (tail + j) - tail = j
      BY <1>2, <1>3, PipeAssumption
    <3> QED BY <1>1, <3>1
  <2>4. \A i \in 1 .. Len(got) : got[i] = i
    BY DEF BytesInv
  <2> QED BY <1>1, <1>4, <2>2, <2>3, <2>4 DEF BytesInv
<1> QED BY <1>5, <1>6, <1>7, <1>8, <1>9

LEMMA WriteStoreInv ==
    ASSUME PipeInv, WriteStore
    PROVE  PipeInv' /\ UNCHANGED got /\ sent' = sent + wcount /\ sent' - Len(got) <= Size - 1
<1> USE DEF PipeInv
<1> DEFINE h == Held
           g == Held'
           b == Consumed
           c == wcount
<1>1. /\ wpc = "store" /\ tail' = tail + c /\ sent' = sent + c /\ wcount' = 0
      /\ wpc' = After(wwork)
      /\ UNCHANGED <<head, mem, wwork, rpc, rwork, got, rcount, rsize>>
  BY DEF WriteStore, readerVars
<1>2. /\ head \in 0 .. Size /\ tail \in 0 .. Size /\ c \in Nat /\ sent \in Nat
      /\ h \in 0 .. Size - 1 /\ h \in Nat /\ Turn(head, tail, h) /\ h = sent - b /\ b \in Int
      /\ wwork \in Work /\ CopyPlan(wwork, c, tail, h)
  BY <1>1, Numbers DEF DataInv, TurnInv, WriterInv
<1>3. c + h <= Size - 1 /\ tail + c <= Size
  BY <1>2 DEF CopyPlan
<1>4. Consumed' = b /\ g = sent' - b
  <2>1. Consumed' = b
    BY <1>1 DEF Consumed
  <2> QED BY <2>1 DEF Held
<1>5. g = h + c /\ g \in 0 .. Size - 1 /\ g \in Nat /\ h <= g
  <2> HIDE DEF h, b, g
  <2> QED BY <1>1, <1>2, <1>3, <1>4, PipeAssumption
<1>6. DataInv'
  <2>1. tail' \in 0 .. Size /\ sent' \in Nat /\ wcount' \in Nat
    BY <1>1, <1>2, <1>3, PipeAssumption
  <2> QED BY <1>1, <2>1 DEF DataInv
<1>7. TurnInv'
  <2>1. Turn(head, tail + c, h + c)
    BY <1>2, <1>3, Behind
  <2> QED BY <1>1, <1>5, <2>1 DEF TurnInv, Turn
<1>8. WriterInv'
  <2>1. \/ wwork = <<>> /\ After(wwork) = "user"
        \/ After(wwork) = "size" /\ SplitPlan(wwork, tail + c, h + c)
        \/ After(wwork) = "wrap" /\ WrapPlan(wwork, tail + c, h + c)
    BY <1>2, StorePlan
  <2> HIDE DEF c
  <2>2. CASE wwork = <<>> /\ After(wwork) = "user"
    BY <1>1, <2>2 DEF WriterInv
  <2>3. CASE After(wwork) = "size" /\ SplitPlan(wwork, tail + c, h + c)
    BY <1>1, <1>5, <2>3 DEF WriterInv
  <2>4. CASE After(wwork) = "wrap" /\ WrapPlan(wwork, tail + c, h + c)
    BY <1>1, <1>5, <2>4 DEF WriterInv
  <2> QED BY <2>1, <2>2, <2>3, <2>4
<1>9. ReaderInv'
  BY <1>1, <1>5, ReaderKept
<1>10. BytesInv'
  <2>1. /\ \A j \in 0 .. h - 1 : mem[Place(head, j)] = b + j + 1
        /\ \A k \in 0 .. c - 1 : mem[tail + k] = sent + 1 + k
        /\ \A i \in 1 .. Len(got) : got[i] = i
    BY <1>1 DEF BytesInv
  <2>2. \A k \in 0 .. c - 1 : Place(head, h + k) = tail + k
    BY <1>2, <1>3, Behind
  <2>3. wpc' # "store"
    BY <1>1 DEF After
  <2> HIDE DEF h, b, c, g
  <2>4. ASSUME NEW j \in 0 .. g - 1 PROVE mem[Place(head, j)] = b + j + 1
    <3>1. CASE j < h
      BY <1>2, <1>5, <2>1, <3>1
    <3>2. CASE ~(j < h)
      <4> DEFINE k == j - h
      <4>1. k \in 0 .. c - 1 /\ j = h + k /\ sent + 1 + k = b + j + 1
        BY <1>2, <1>5, <3>2
      <4>2. mem[Place(head, h + k)] = sent + 1 + k
        BY <2>1, <2>2, <4>1
      <4> HIDE DEF k
      <4> QED BY <4>1, <4>2
    <3> QED BY <3>1, <3>2
  <2>5. \A j \in 0 .. Held' - 1 : mem'[Place(head', j)] = Consumed' + j + 1
    BY <1>1, <1>4, <2>4 DEF g
  <2> QED BY <1>1, <2>1, <2>3, <2>5 DEF BytesInv
<1>11. sent' - Len(got) <= Size - 1
  <2>1. Len(got) \in Nat /\ rcount \in Nat
    BY DEF DataInv
  <2>2. b <= Len(got)
    BY <2>1 DEF Consumed
  <2> HIDE DEF h, b, g
  <2> QED BY <1>1, <1>2, <1>4, <1>5, <2>1, <2>2, PipeAssumption
<1> QED BY <1>1, <1>6, <1>7, <1>8, <1>9, <1>10, <1>11

LEMMA WriteWrapInv == ASSUME PipeInv, WriteWrap PROVE PipeInv'
<1> USE DEF PipeInv
<1> DEFINE h == Held
           b == Consumed
<1>1. /\ wpc = "wrap" /\ tail' = 0 /\ wwork' = Tail(wwork) /\ wpc' = "size"
      /\ UNCHANGED <<head, mem, sent, wcount, rpc, rwork, got, rcount, rsize>>
  BY DEF WriteWrap, readerVars
<1>2. /\ head \in 0 .. Size /\ tail \in 0 .. Size
      /\ h \in 0 .. Size - 1 /\ h \in Nat /\ Turn(head, tail, h)
      /\ wwork \in Work /\ WrapPlan(wwork, tail, h)
  BY <1>1, Numbers DEF DataInv, TurnInv, WriterInv
<1>3. tail = Size
  BY <1>2 DEF WrapPlan
<1>4. Consumed' = b /\ Held' = h
  BY <1>1 DEF Consumed, Held
<1>5. Tail(wwork) \in Work /\ SplitPlan(Tail(wwork), 0, h)
  BY <1>2, AfterWrap
<1>6. DataInv'
  BY <1>1, <1>5, PipeAssumption DEF DataInv
<1>7. TurnInv'
  <2>1. Turn(head, 0, h)
    BY <1>2, <1>3, GoRound
  <2> QED BY <1>1, <1>2, <1>4, <2>1 DEF TurnInv, Turn
<1>8. WriterInv'
  BY <1>1, <1>4, <1>5 DEF WriterInv
<1>9. ReaderInv'
  BY <1>1, <1>4, Numbers, ReaderKept
<1>10. BytesInv'
  BY <1>1, <1>4 DEF BytesInv
<1> QED BY <1>6, <1>7, <1>8, <1>9, <1>10

-----------------------------------------------------------------------------
(* The reader.                                                               *)

\* A step that moves no byte and no index.
LEMMA ReaderPlans ==
    ASSUME PipeInv, UNCHANGED <<head, tail, mem, writerVars, got>>,
           rpc # "store", rpc' # "store",
           rcount' \in Nat, rsize' \in Nat, rwork' \in Work, Held' = Held => ReaderInv'
    PROVE  PipeInv'
<1> USE DEF PipeInv
<1>1. UNCHANGED <<head, tail, mem, got, wpc, wwork, sent, wcount>>
  BY DEF writerVars
<1>2. Consumed' = Consumed /\ Held' = Held
  BY <1>1 DEF Consumed, Held
<1>3. DataInv'
  BY <1>1 DEF DataInv
<1>4. TurnInv'
  BY <1>1, <1>2 DEF TurnInv
<1>5. BytesInv'
  BY <1>1, <1>2 DEF BytesInv
<1>6. WriterInv'
  BY <1>1, <1>2, Numbers, WriterKept
<1> QED BY <1>2, <1>3, <1>4, <1>5, <1>6

LEMMA ReadInv == ASSUME PipeInv, NEW n \in 1 .. Chunk, Read(n) PROVE PipeInv'
<1>1. /\ n \in Nat /\ rpc = "user" /\ rpc' = "size" /\ rwork' = <<n>>
      /\ UNCHANGED <<head, tail, mem, writerVars, got, rcount, rsize>>
  BY PipeAssumption DEF Read, ringVars
<1>2. <<n>> \in Work /\ rcount \in Nat /\ rsize \in Nat
  BY <1>1 DEF Work, PipeInv, DataInv
<1>3. CallPlan(<<n>>, head, Held)
  BY <1>1 DEF CallPlan
<1>4. Held' = Held => ReaderInv'
  BY <1>1, <1>3 DEF ReaderInv
<1> QED BY <1>1, <1>2, <1>4, ReaderPlans

LEMMA ReadSizeInv == ASSUME PipeInv, ReadSize PROVE PipeInv'
<1> USE DEF PipeInv
<1> DEFINE h == Held
<1>1. /\ rpc = "size" /\ rsize' = h /\ rpc' = IF h = 0 THEN "open" ELSE "call"
      /\ UNCHANGED <<head, tail, mem, writerVars, got, rwork, rcount>>
  BY SizeIsHeld DEF ReadSize, ringVars
<1>2. rwork \in Work /\ rcount \in Nat /\ h \in Nat /\ CallPlan(rwork, head, h)
  BY <1>1, Numbers DEF DataInv, ReaderInv
<1> HIDE DEF h
<1>3. CutPlan(rwork, h, h)
  BY <1>2 DEF CutPlan, CallPlan
<1>4. Held' = Held => ReaderInv'
  BY <1>1, <1>2, <1>3 DEF ReaderInv, h
<1> QED BY <1>1, <1>2, <1>4, ReaderPlans

LEMMA ReadOpenInv == ASSUME PipeInv, ReadOpen PROVE PipeInv'
<1> USE DEF PipeInv
<1>1. /\ rpc = "open" /\ rpc' = IF open THEN "size" ELSE "eof"
      /\ rwork' = IF open THEN rwork ELSE <<>>
      /\ UNCHANGED <<head, tail, mem, writerVars, got, rcount, rsize>>
  BY DEF ReadOpen, ringVars
<1>2. /\ rwork \in Work /\ <<>> \in Work /\ rcount \in Nat /\ rsize \in Nat
      /\ CallPlan(rwork, head, Held)
  BY <1>1 DEF DataInv, ReaderInv, Work
<1>3. rwork' \in Work /\ rpc' # "store"
  BY <1>1, <1>2
<1>4. Held' = Held => ReaderInv'
  BY <1>1, <1>2 DEF ReaderInv
<1> QED BY <1>1, <1>2, <1>3, <1>4, ReaderPlans

LEMMA ReadSplitInv == ASSUME PipeInv, ReadSplit PROVE PipeInv'
<1> USE DEF PipeInv
<1> DEFINE h == Held
           v == <<rsize>> \o Tail(rwork)
           e == Size - head
           f == Head(rwork) - (Size - head)
           u == <<e, Wrap, f>> \o Tail(rwork)
<1>1. /\ h \in Nat /\ head \in 0 .. Size /\ rsize \in Nat /\ rcount \in Nat
      /\ rwork \in Work /\ rpc = "call"
      /\ CallPlan(rwork, head, h) /\ CutPlan(rwork, rsize, h)
  BY Numbers DEF ReadSplit, DataInv, ReaderInv
<1>2. UNCHANGED <<head, tail, mem, writerVars, got, rsize>>
  BY DEF ReadSplit, ringVars
<1>3. \/ /\ Head(rwork) > rsize /\ rwork' = v
         /\ rpc' = "size" /\ UNCHANGED rcount
      \/ /\ Head(rwork) <= rsize /\ Head(rwork) + head > Size /\ rwork' = u
         /\ rpc' = "size" /\ UNCHANGED rcount
      \/ /\ Head(rwork) <= rsize /\ Head(rwork) + head <= Size
         /\ rwork' = Tail(rwork) /\ rcount' = Head(rwork) /\ rpc' = "copy"
  BY DEF ReadSplit
<1>4. CASE /\ Head(rwork) > rsize /\ rwork' = v
           /\ rpc' = "size" /\ UNCHANGED rcount
  <2>1. v \in Work /\ CallPlan(v, head, h)
    BY <1>1, <1>4, CutShort
  <2> HIDE DEF v
  <2>2. Held' = Held => ReaderInv'
    BY <1>1, <1>2, <1>4, <2>1 DEF ReaderInv
  <2> QED BY <1>1, <1>2, <1>4, <2>1, <2>2, ReaderPlans
<1>5. CASE /\ Head(rwork) <= rsize /\ Head(rwork) + head > Size /\ rwork' = u
           /\ rpc' = "size" /\ UNCHANGED rcount
  <2>1. u \in Work /\ CallPlan(u, head, h)
    BY <1>1, <1>5, CutEnd
  <2> HIDE DEF u, e, f
  <2>2. Held' = Held => ReaderInv'
    BY <1>1, <1>2, <1>5, <2>1 DEF ReaderInv
  <2> QED BY <1>1, <1>2, <1>5, <2>1, <2>2, ReaderPlans
<1>6. CASE /\ Head(rwork) <= rsize /\ Head(rwork) + head <= Size
           /\ rwork' = Tail(rwork) /\ rcount' = Head(rwork) /\ rpc' = "copy"
  <2>1. /\ Head(rwork) \in Nat /\ Tail(rwork) \in Work
        /\ FetchPlan(Tail(rwork), Head(rwork), head, h)
    BY <1>1, <1>6, CutNot
  <2>2. Held' = Held => ReaderInv'
    BY <1>1, <1>2, <1>6, <2>1 DEF ReaderInv
  <2> QED BY <1>1, <1>2, <1>6, <2>1, <2>2, ReaderPlans
<1> QED BY <1>3, <1>4, <1>5, <1>6
LEMMA Joined ==
    ASSUME NEW s \in Seq(Nat), NEW t \in Seq(Nat)
    PROVE  /\ s \o t \in Seq(Nat) /\ Len(s \o t) = Len(s) + Len(t)
           /\ \A i \in 1 .. Len(s) : (s \o t)[i] = s[i]
           /\ \A i \in Len(s) + 1 .. Len(s) + Len(t) : (s \o t)[i] = t[i - Len(s)]
<1> QED OBVIOUS

LEMMA ReadCopyInv ==
    ASSUME PipeInv, ReadCopy
    PROVE  /\ PipeInv' /\ UNCHANGED sent
           /\ got' \in Seq(Nat) /\ Len(got') = Len(got) + rcount /\ Len(got') <= sent
           /\ \A i \in 1 .. Len(got') : got'[i] = i
<1> USE DEF PipeInv
<1> DEFINE h == Held
           b == Consumed
           c == rcount
           l == Len(got)
           t == [i \in 1 .. c |-> mem[head + i - 1]]
           r == got'
<1>1. /\ rpc = "copy" /\ rpc' = "store" /\ r = got \o t
      /\ UNCHANGED <<head, tail, mem, rwork, rcount, rsize, wpc, wwork, sent, wcount>>
  BY DEF ReadCopy, ringVars, writerVars
<1>2. /\ head \in 0 .. Size /\ tail \in 0 .. Size /\ c \in Nat /\ sent \in Nat
      /\ mem \in [0 .. Size - 1 -> Nat] /\ h \in 0 .. Size - 1 /\ Turn(head, tail, h)
      /\ h = sent - b /\ rwork \in Work /\ FetchPlan(rwork, c, head, h)
      /\ got \in Seq(Nat) /\ l \in Nat
  BY <1>1, Numbers DEF DataInv, TurnInv, ReaderInv
<1>3. c <= h /\ head + c <= Size
  BY <1>2 DEF FetchPlan
<1>4. b = l
  BY <1>1 DEF Consumed
<1>5. \A i \in 1 .. c : mem[head + i - 1] \in Nat /\ mem[head + i - 1] = l + i
  <2>1. \A j \in 0 .. h - 1 : mem[Place(head, j)] = b + j + 1
    BY DEF BytesInv
  <2>2. \A j \in 0 .. c - 1 : Place(head, j) = head + j
    BY <1>2, <1>3, InFront
  <2> HIDE DEF h, b, c, l
  <2>3. ASSUME NEW i \in 1 .. c PROVE mem[head + i - 1] \in Nat /\ mem[head + i - 1] = l + i
    <3>1. i - 1 \in 0 .. c - 1 /\ i - 1 \in 0 .. h - 1 /\ head + (i - 1) = head + i - 1
      BY <1>2, <1>3, PipeAssumption
    <3>2. mem[head + i - 1] = b + (i - 1) + 1
      BY <2>1, <2>2, <3>1
    <3> QED BY <1>2, <1>4, <3>2
  <2> QED BY <2>3
<1>6. t \in Seq(Nat) /\ Len(t) = c /\ \A i \in 1 .. c : t[i] = l + i
  <2>1. t \in [1 .. c -> Nat]
    BY <1>5
  <2>2. \A i \in 1 .. c : t[i] = l + i
    BY <1>5
  <2> HIDE DEF t, l
  <2> QED BY <1>2, <2>1, <2>2
<1> HIDE DEF t
<1>7. r \in Seq(Nat) /\ Len(r) = l + c
  BY <1>1, <1>2, <1>6, Joined
<1>8. \A i \in 1 .. l + c : r[i] = i
  <2>1. \A i \in 1 .. l : got[i] = i
    BY DEF BytesInv
  <2>2. /\ \A i \in 1 .. l : r[i] = got[i]
        /\ \A i \in l + 1 .. l + c : r[i] = t[i - l]
    <3> DEFINE m == Len(t)
               q == got \o t
    <3>1. /\ \A i \in 1 .. l : q[i] = got[i]
          /\ \A i \in l + 1 .. l + m : q[i] = t[i - l]
      BY <1>2, <1>6, Joined
    <3>2. r = q /\ m = c
      BY <1>1, <1>6
    <3> HIDE DEF q, m, l, c, r
    <3> QED BY <3>1, <3>2
  <2> HIDE DEF l, c, r
  <2>3. ASSUME NEW i \in 1 .. l + c PROVE r[i] = i
    <3>1. CASE i <= l
      <4>1. l \in Nat /\ c \in Nat
        BY <1>2
      <4>2. i \in 1 .. l
        BY <3>1, <4>1
      <4> QED BY <2>1, <2>2, <4>2
    <3>2. CASE ~(i <= l)
      <4>1. i \in l + 1 .. l + c /\ i - l \in 1 .. c /\ l + (i - l) = i
        BY <1>2, <3>2
      <4> QED BY <1>6, <2>2, <4>1
    <3> QED BY <3>1, <3>2
  <2> QED BY <2>3
<1>9. Consumed' = b /\ Held' = h
  <2>1. Consumed' = Len(r) - c
    BY <1>1 DEF Consumed
  <2>2. Consumed' = b
    <3> HIDE DEF l, c, r, b
    <3> QED BY <1>2, <1>4, <1>7, <2>1
  <2> QED BY <1>1, <2>2 DEF Held
<1>10. DataInv'
  BY <1>1, <1>7 DEF DataInv
<1>11. TurnInv'
  BY <1>1, <1>9 DEF TurnInv
<1>12. BytesInv'
  <2>1. \A i \in 1 .. Len(r) : r[i] = i
    BY <1>7, <1>8
  <2> QED BY <1>1, <1>9, <2>1 DEF BytesInv
<1>13. ReaderInv'
  BY <1>1, <1>2, <1>9 DEF ReaderInv
<1>14. WriterInv'
  BY <1>1, <1>9, Numbers, WriterKept DEF writerVars
<1>15. l + c <= sent
  <2> HIDE DEF l, c, h, b
  <2> QED BY <1>2, <1>3, <1>4
<1> QED BY <1>1, <1>7, <1>8, <1>10, <1>11, <1>12, <1>13, <1>14, <1>15

LEMMA ReadStoreInv == ASSUME PipeInv, ReadStore PROVE PipeInv'
<1> USE DEF PipeInv
<1> DEFINE h == Held
           g == Held'
           b == Consumed
           c == rcount
<1>1. /\ rpc = "store" /\ head' = head + c /\ rcount' = 0 /\ rpc' = After(rwork)
      /\ UNCHANGED <<tail, mem, rwork, got, rsize, wpc, wwork, sent, wcount>>
  BY DEF ReadStore, writerVars
<1>2. /\ head \in 0 .. Size /\ tail \in 0 .. Size /\ c \in Nat /\ sent \in Nat
      /\ h \in 0 .. Size - 1 /\ h \in Nat /\ Turn(head, tail, h) /\ h = sent - b /\ b \in Int
      /\ rwork \in Work /\ FetchPlan(rwork, c, head, h) /\ Len(got) \in Nat
  BY <1>1, Numbers DEF DataInv, TurnInv, ReaderInv
<1>3. c <= h /\ head + c <= Size
  BY <1>2 DEF FetchPlan
<1>4. Consumed' = b + c
  <2>1. rpc' # "store"
    BY <1>1 DEF After
  <2>2. Consumed' = Len(got) /\ b = Len(got) - c
    BY <1>1, <2>1 DEF Consumed
  <2> HIDE DEF b, c
  <2> QED BY <1>2, <2>2
<1>5. g = h - c /\ g \in 0 .. Size - 1 /\ g \in Nat /\ g <= h
  <2>1. g = sent - Consumed'
    BY <1>1 DEF Held
  <2> HIDE DEF h, b, g, c
  <2> QED BY <1>2, <1>3, <1>4, <2>1, PipeAssumption
<1>6. DataInv'
  <2>1. head' \in 0 .. Size /\ rcount' \in Nat
    BY <1>1, <1>2, <1>3, PipeAssumption
  <2> QED BY <1>1, <2>1 DEF DataInv
<1>7. /\ Turn(head + c, tail, h - c)
      /\ \A j \in 0 .. h - c - 1 : Place(head + c, j) = Place(head, c + j)
  BY <1>2, <1>3, InFront
<1>8. TurnInv'
  BY <1>1, <1>5, <1>7 DEF TurnInv, Turn
<1>9. ReaderInv'
  <2>1. \/ rwork = <<>> /\ After(rwork) = "user"
        \/ After(rwork) = "wrap" /\ RoundPlan(rwork, head + c)
    BY <1>2, FetchedPlan
  <2> HIDE DEF c
  <2>2. CASE rwork = <<>> /\ After(rwork) = "user"
    BY <1>1, <2>2 DEF ReaderInv
  <2>3. CASE After(rwork) = "wrap" /\ RoundPlan(rwork, head + c)
    BY <1>1, <2>3 DEF ReaderInv
  <2> QED BY <2>1, <2>2, <2>3
<1>10. WriterInv'
  BY <1>1, <1>5, WriterKept DEF writerVars
<1>11. BytesInv'
  <2>1. /\ \A j \in 0 .. h - 1 : mem[Place(head, j)] = b + j + 1
        /\ \A i \in 1 .. Len(got) : got[i] = i
        /\ wpc = "store" => \A j \in 0 .. wcount - 1 : mem[tail + j] = sent + 1 + j
    BY DEF BytesInv
  <2> HIDE DEF h, b, c, g
  <2>2. ASSUME NEW j \in 0 .. g - 1 PROVE mem[Place(head + c, j)] = b + c + j + 1
    <3>1. j \in 0 .. h - c - 1 /\ c + j \in 0 .. h - 1 /\ b + (c + j) + 1 = b + c + j + 1
      BY <1>2, <1>5
    <3> QED BY <1>7, <2>1, <3>1
  <2>3. \A j \in 0 .. Held' - 1 : mem'[Place(head', j)] = Consumed' + j + 1
    BY <1>1, <1>4, <2>2 DEF g
  <2> QED BY <1>1, <2>1, <2>3 DEF BytesInv
<1> QED BY <1>6, <1>8, <1>9, <1>10, <1>11

LEMMA ReadWrapInv == ASSUME PipeInv, ReadWrap PROVE PipeInv'
<1> USE DEF PipeInv
<1> DEFINE h == Held
           b == Consumed
<1>1. /\ rpc = "wrap" /\ head' = 0 /\ rwork' = Tail(rwork) /\ rpc' = "size"
      /\ UNCHANGED <<tail, mem, got, rcount, rsize, wpc, wwork, sent, wcount>>
  BY DEF ReadWrap, writerVars
<1>2. /\ head \in 0 .. Size /\ tail \in 0 .. Size
      /\ h \in 0 .. Size - 1 /\ h \in Nat /\ Turn(head, tail, h)
      /\ rwork \in Work /\ RoundPlan(rwork, head)
  BY <1>1, Numbers DEF DataInv, TurnInv, ReaderInv
<1>3. head = Size
  BY <1>2 DEF RoundPlan
<1>4. Consumed' = b /\ Held' = h
  <2>1. Consumed' = b
    BY <1>1 DEF Consumed
  <2> QED BY <1>1, <2>1 DEF Held
<1>5. Tail(rwork) \in Work /\ CallPlan(Tail(rwork), 0, h)
  BY <1>2, AfterRound
<1>6. DataInv'
  BY <1>1, <1>5, PipeAssumption DEF DataInv
<1>7. Turn(0, tail, h) /\ \A j \in 0 .. h - 1 : Place(0, j) = Place(head, j)
  BY <1>2, <1>3, GoRound
<1>8. TurnInv'
  BY <1>1, <1>2, <1>4, <1>7 DEF TurnInv, Turn
<1>9. ReaderInv'
  BY <1>1, <1>4, <1>5 DEF ReaderInv
<1>10. WriterInv'
  BY <1>1, <1>4, Numbers, WriterKept DEF writerVars
<1>11. BytesInv'
  <2>1. \A j \in 0 .. h - 1 : mem[Place(head, j)] = b + j + 1
    BY DEF BytesInv
  <2>2. \A j \in 0 .. h - 1 : mem[Place(0, j)] = b + j + 1
    BY <1>7, <2>1
  <2> QED BY <1>1, <1>4, <2>2 DEF BytesInv
<1> QED BY <1>6, <1>8, <1>9, <1>10, <1>11

-----------------------------------------------------------------------------

LEMMA PipeInvariant == Spec => []PipeInv
<1>1. PipeInv /\ [Next]_vars => PipeInv'
  <2> SUFFICES ASSUME PipeInv, [Next]_vars PROVE PipeInv'
    OBVIOUS
  <2>1. CASE \E n \in 1 .. Chunk : Write(n) \/ Read(n)
    BY <2>1, WriteInv, ReadInv
  <2>2. CASE Close
    BY <2>2, CloseInv
  <2>3. CASE WriteStep
    BY <2>3, WriteSplitInv, WriteCopyInv, WriteStoreInv, WriteWrapInv DEF WriteStep
  <2>4. CASE ReadStep
    BY <2>4, ReadSizeInv, ReadOpenInv, ReadSplitInv, ReadCopyInv, ReadStoreInv,
       ReadWrapInv DEF ReadStep
  <2>5. CASE UNCHANGED vars
    BY <2>5 DEF vars, PipeInv, DataInv, TurnInv, BytesInv, WriterInv, ReaderInv,
       Held, Consumed
  <2> QED BY <2>1, <2>2, <2>3, <2>4, <2>5 DEF Next
<1> QED BY <1>1, InitInv, PTL DEF Spec

\* The pipe is closed when its writer has closed it.
OpenInv == open \in BOOLEAN /\ (open <=> wpc # "closed")

LEMMA OpenInvariant == Spec => []OpenInv
<1>1. Init => OpenInv
  BY DEF Init, OpenInv
<1>2. \A w : After(w) # "closed"
  BY DEF After
<1>3. ASSUME OpenInv, [Next]_vars PROVE OpenInv'
  <2>1. CASE Close
    BY <1>3, <2>1 DEF OpenInv, Close
  <2>2. CASE \E n \in 1 .. Chunk : Write(n)
    BY <1>3, <2>2 DEF OpenInv, Write, ringVars
  <2>3. CASE WriteSplit
    BY <1>3, <2>3 DEF OpenInv, WriteSplit, WriteSplitAt, ringVars
  <2>4. CASE WriteCopy \/ WriteWrap
    BY <1>3, <2>4 DEF OpenInv, WriteCopy, WriteWrap
  <2>5. CASE WriteStore
    BY <1>2, <1>3, <2>5 DEF OpenInv, WriteStore
  <2>6. CASE ReadStep \/ (\E n \in 1 .. Chunk : Read(n)) \/ UNCHANGED vars
    <3>1. UNCHANGED <<open, wpc>>
      BY <2>6 DEF Read, ReadStep, ReadSize, ReadOpen, ReadSplit, ReadCopy, ReadStore,
         ReadWrap, vars, ringVars, writerVars
    <3> QED BY <1>3, <3>1 DEF OpenInv
  <2> QED BY <1>3, <2>1, <2>2, <2>3, <2>4, <2>5, <2>6 DEF Next, WriteStep
<1> QED BY <1>1, <1>3, PTL DEF Spec

\* What a reader that is told the end has missed was written after it had found the
\* ring empty: a ring that looks empty holds nothing, and what was read is never
\* less than what had been written when the reader looked.
THEOREM MissedAtEnd == Spec => []EndMissed
<1>1. Init => EndMissed
  BY DEF Init, EndMissed
<1>2. ASSUME PipeInv, EndMissed, [Next]_vars PROVE EndMissed'
  <2>1. CASE ReadSize
    <3>1. /\ rpc = "size" /\ UNCHANGED got /\ rpc' = IF get_size = 0 THEN "open" ELSE "call"
          /\ seen' = IF get_size = 0 THEN sent ELSE seen
      BY <2>1 DEF ReadSize
    <3>2. get_size = sent - Len(got) /\ Len(got) \in Nat /\ sent \in Nat
      BY <1>2, <3>1, SizeIsHeld, Numbers DEF PipeInv, DataInv, Held, Consumed
    <3>3. get_size = 0 => sent = Len(got)
      BY <3>2
    <3> QED BY <3>1, <3>3 DEF EndMissed
  <2>2. CASE ~ReadSize
    <3>1. \/ UNCHANGED <<got, seen>> /\ (rpc' = rpc \/ rpc = "open")
          \/ rpc' \notin {"open", "eof"}
      BY <1>2, <2>2 DEF Next, Write, Read, Close, WriteStep, ReadStep, WriteSplit,
         WriteSplitAt, WriteCopy, WriteStore, WriteWrap, ReadOpen, ReadSplit, ReadCopy,
         ReadStore, ReadWrap, After, vars, ringVars, writerVars, readerVars
    <3> QED BY <1>2, <3>1 DEF EndMissed
  <2> QED BY <2>1, <2>2
<1> QED BY <1>1, <1>2, PipeInvariant, PTL DEF Spec

\* The pipe is the byte stream: what its reader has read is at every time the
\* beginning of what its writer has written, at most Size - 1 bytes lie in between,
\* and the end comes after a close, for a ring of any size, requests of any length
\* and every way the two ends interleave.
THEOREM StreamImplemented == Spec => StreamSpec
<1> USE DEF Stream!Send, Stream!Receive, Stream!Close, Stream!End, Stream!Next
<1> DEFINE streamVars == <<sent, got, open, (rpc = "eof")>>
<1>1. Init => Stream!Init
  BY DEF Init, Stream!Init
<1>2. PipeInv /\ OpenInv /\ [Next]_vars => [Stream!Next]_streamVars
  <2> SUFFICES ASSUME PipeInv, OpenInv, [Next]_vars PROVE [Stream!Next]_streamVars
    OBVIOUS
  <2>1. CASE WriteStore
    <3>1. UNCHANGED got /\ sent' = sent + wcount /\ sent' - Len(got) <= Size - 1
      BY <2>1, WriteStoreInv
    <3>2. sent \in Nat /\ wcount \in Nat
      BY DEF PipeInv, DataInv
    <3>3. wcount = 0 => sent' = sent
      BY <3>1, <3>2
    <3>4. wcount # 0 => sent' > sent
      BY <3>1, <3>2
    <3>5. open /\ UNCHANGED <<open, rpc>>
      BY <2>1 DEF WriteStore, OpenInv, readerVars
    <3> QED BY <3>1, <3>3, <3>4, <3>5
  <2>2. CASE ReadCopy
    <3> DEFINE r == got'
               n == Len(r)
    <3>1. /\ UNCHANGED sent /\ r \in Seq(Nat) /\ n = Len(got) + rcount /\ n <= sent
          /\ \A i \in 1 .. n : r[i] = i
      BY <2>2, ReadCopyInv
    <3>2. got \in Seq(Nat) /\ rcount \in Nat /\ sent \in Nat /\ Len(got) \in Nat
      BY Numbers DEF PipeInv, DataInv
    <3>3. \A i \in 1 .. Len(got) : got[i] = i
      BY DEF PipeInv, BytesInv
    <3>4. r = [i \in 1 .. n |-> i]
      <4> HIDE DEF r
      <4> QED BY <3>1
    <3>7. UNCHANGED open /\ rpc # "eof" /\ rpc' # "eof"
      BY <2>2 DEF ReadCopy, ringVars
    <3>5. CASE rcount = 0
      <4>1. n = Len(got)
        BY <3>1, <3>2, <3>5
      <4> HIDE DEF r, n
      <4>2. got = [i \in 1 .. n |-> i]
        BY <3>2, <3>3, <4>1
      <4> QED BY <3>1, <3>4, <3>7, <4>2 DEF r
    <3>6. CASE rcount # 0
      <4> HIDE DEF r, n
      <4>1. n \in Len(got) + 1 .. sent
        BY <3>1, <3>2, <3>6
      <4> QED BY <3>1, <3>4, <3>7, <4>1 DEF r
    <3> QED BY <3>5, <3>6
  <2>3. CASE Close
    BY <2>3 DEF Close, OpenInv, readerVars
  <2>4. CASE ReadOpen
    BY <2>4 DEF ReadOpen, OpenInv, ringVars, writerVars
  <2>5. CASE ~WriteStore /\ ~ReadCopy /\ ~Close /\ ~ReadOpen
    <3>1. UNCHANGED <<sent, got, open>> /\ (rpc = "eof" <=> rpc' = "eof")
      BY <2>5 DEF Next, Write, Read, WriteStep, ReadStep, WriteSplit, WriteSplitAt,
         WriteCopy, WriteWrap, ReadSize, ReadSplit, ReadStore, ReadWrap, After,
         vars, ringVars, writerVars, readerVars
    <3> QED BY <3>1
  <2> QED BY <2>1, <2>2, <2>3, <2>4, <2>5
<1> QED BY <1>1, <1>2, PipeInvariant, OpenInvariant, PTL
      DEF Spec, StreamSpec, Stream!Spec
=============================================================================
