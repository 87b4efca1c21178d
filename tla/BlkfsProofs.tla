----------------------------- MODULE BlkfsProofs -----------------------------
(***************************************************************************)
(* Theorems of Blkfs, for any disk, inode table, names, paths and chunks:  *)
(* the disk's structure, what files and directories hold, reads from a     *)
(* file's start, and the prompt.                                           *)
(*                                                                         *)
(* The inductive invariant Inv says that there are chains of blocks C, one *)
(* per inode, with which the disk is laid out (Layout), the directories'   *)
(* entries are right (Directories), the chains hold the promised texts     *)
(* (Contents) and the open files are of files in use (Handles).  The lemmas *)
(* in the middle say what each kind of change to the disk keeps of it.      *)
(***************************************************************************)
EXTENDS Blkfs, FiniteSetTheorems, WellFoundedInduction, TLAPS

\* Induction over the naturals, for a set rather than for an operator.
LEMMA Induction ==
  ASSUME NEW T, 0 \in T, \A n \in Nat : n \in T => n + 1 \in T
  PROVE  \A n \in Nat : n \in T
<1> DEFINE R == OpToRel(<, Nat)
           U == {n \in Nat : n \notin T}
<1>1. IsWellFoundedOn(R, Nat)
  BY NatLessThanWellFounded
<1>2. \A i, j \in Nat : i < j => <<i, j>> \in R
  BY DEF OpToRel
<1> SUFFICES ASSUME U # {} PROVE FALSE
  OBVIOUS
<1> HIDE DEF R
<1>3. U \subseteq Nat
  OBVIOUS
<1>4. PICK x \in U : \A y \in U : <<y, x>> \notin R
  <2> HIDE DEF U
  <2> QED BY <1>1, <1>3, WFMin
<1>5. x \in Nat /\ x \notin T
  OBVIOUS
<1>6. x # 0
  BY <1>5
<1>7. x - 1 \in Nat /\ x - 1 < x /\ (x - 1) + 1 = x
  BY <1>5, <1>6
<1>8. <<x - 1, x>> \in R
  BY <1>2, <1>5, <1>7
<1>9. x - 1 \notin U
  BY <1>4, <1>8
<1>10. x - 1 \in T
  BY <1>7, <1>9
<1> QED BY <1>5, <1>7, <1>10

LEMMA LeastIs ==
  ASSUME NEW S, S \subseteq Nat, S # {}
  PROVE  Least(S) \in S /\ \A j \in S : Least(S) <= j
<1> DEFINE P(i) == \A j \in S : i <= j
           T == {m \in Nat : (\E k \in S : k <= m) => \E i \in S : P(i)}
<1>1. 0 \in T
  <2>1. \A k \in S : k <= 0 => P(k)
    OBVIOUS
  <2> HIDE DEF P
  <2> QED BY <2>1
<1>2. ASSUME NEW m \in Nat, m \in T PROVE m + 1 \in T
  <2> SUFFICES ASSUME NEW k \in S, k <= m + 1 PROVE \E i \in S : P(i)
    OBVIOUS
  <2>1. CASE \E j \in S : j <= m
    <3> HIDE DEF P
    <3> QED BY <1>2, <2>1
  <2>2. CASE \A j \in S : j > m
    <3>1. P(k)
      BY <2>2
    <3> HIDE DEF P
    <3> QED BY <3>1
  <2> QED BY <2>1, <2>2
<1>3. \A m \in Nat : m \in T
  <2> HIDE DEF T
  <2> QED BY <1>1, <1>2, Induction
<1>4. \E i \in S : P(i)
  <2>1. PICK k \in S : TRUE
    OBVIOUS
  <2>2. k \in T /\ k <= k
    BY <1>3
  <2> HIDE DEF P
  <2> QED BY <2>2 DEF T
<1>5. Least(S) = CHOOSE i \in S : P(i)
  BY DEF Least
<1>6. (CHOOSE i \in S : P(i)) \in S /\ P(CHOOSE i \in S : P(i))
  <2> HIDE DEF P
  <2> QED BY <1>4
<1> QED BY <1>5, <1>6

-----------------------------------------------------------------------------
(* Blocks and addresses                                                        *)

Base == {b * BlkSz : b \in Block}
Marks(u, w) == w \div BlkSz \in u

LEMMA Numbers ==
  /\ Mem \in Nat /\ Mem >= 2 /\ BlkSz = Mem + 1 /\ MaxSize \in Nat
  /\ Wipe \in Int /\ Wipe < 0 /\ NULL \notin Int /\ UP \notin Name /\ 0 \notin Name
  /\ Name \subseteq Int /\ Wipe \notin Name /\ 0 \in Inode /\ Inode \subseteq Nat
  /\ Block \subseteq Nat /\ 0 \notin Block /\ IsFiniteSet(Block)
<1>1. Mem \in Nat /\ Mem >= 2 /\ BlkSz = Mem + 1 /\ MaxSize \in Nat
  BY BlkfsAssumption DEF BlkSz
<1>2. Wipe \in Int /\ Wipe < 0 /\ NULL \notin Int
  BY BlkfsAssumption
<1>3. UP \notin Name /\ 0 \notin Name /\ Name \subseteq Int /\ Wipe \notin Name
  BY BlkfsAssumption
<1>4. 0 \in Inode /\ Inode \subseteq Nat /\ Block \subseteq Nat /\ 0 \notin Block
  BY BlkfsAssumption
<1>5. IsFiniteSet(Block)
  BY BlkfsAssumption
<1> QED BY <1>1, <1>2, <1>3, <1>4, <1>5

\* The position of a word tells its block and its place in it.
LEMMA BaseIs ==
  /\ \A w \in Base : w \in Nat /\ w >= BlkSz /\ w \div BlkSz \in Block /\ w % BlkSz = 0
  /\ \A w \in Base : \A k \in 0 .. Mem : w + k \in Addr /\ (w + k) % BlkSz = k
  /\ \A v, w \in Base : v \div BlkSz = w \div BlkSz => v = w
<1> USE Numbers
<1>1. ASSUME NEW b \in Block, NEW k \in 0 .. Mem
      PROVE  /\ b \in Nat /\ b >= 1 /\ b * BlkSz \in Nat /\ b * BlkSz >= BlkSz
             /\ b * BlkSz + k \in Addr /\ (b * BlkSz + k) % BlkSz = k /\ (b * BlkSz + k) \div BlkSz = b
  <2>1. b \in Nat /\ b >= 1
    OBVIOUS
  <2>2. b * BlkSz + k \in Addr
    BY DEF Addr
  <2>3. (b * BlkSz + k) % BlkSz = k /\ (b * BlkSz + k) \div BlkSz = b
    BY <2>1
  <2> QED BY <2>1, <2>2, <2>3
<1>2. \A b \in Block : b * BlkSz + 0 = b * BlkSz /\ 0 \in 0 .. Mem
  OBVIOUS
<1>3. \A w \in Base : w \in Nat /\ w >= BlkSz /\ w \div BlkSz \in Block /\ w % BlkSz = 0
  <2> SUFFICES ASSUME NEW b \in Block PROVE LET w == b * BlkSz IN w \in Nat /\ w >= BlkSz /\ w \div BlkSz \in Block /\ w % BlkSz = 0
    BY DEF Base
  <2> QED BY <1>1, <1>2
<1>4. \A w \in Base : \A k \in 0 .. Mem : w + k \in Addr /\ (w + k) % BlkSz = k
  BY <1>1 DEF Base
<1>5. \A b \in Block : (b * BlkSz) \div BlkSz = b
  BY <1>1, <1>2
<1>6. \A v, w \in Base : v \div BlkSz = w \div BlkSz => v = w
  BY <1>5 DEF Base
<1> QED BY <1>3, <1>4, <1>6

LEMMA Apart ==
  ASSUME NEW v \in Base, NEW w \in Base, NEW i \in 0 .. Mem, NEW j \in 0 .. Mem, v + i = w + j
  PROVE  v = w /\ i = j
<1>1. i = j
  BY BaseIs
<1>2. v \in Nat /\ w \in Nat /\ i \in Int
  BY BaseIs
<1> QED BY <1>1, <1>2

LEMMA AddrIs == \A a \in Addr : a \in Nat /\ \E w \in Base : \E k \in 0 .. Mem : a = w + k
<1>1. ASSUME NEW a \in Addr PROVE \E w \in Base : \E k \in 0 .. Mem : a = w + k
  BY DEF Addr, Base
<1>2. \A w \in Base : \A k \in 0 .. Mem : w + k \in Nat
  BY BaseIs, Numbers
<1> QED BY <1>1, <1>2

LEMMA NotBase == 0 \notin Base /\ Wipe \notin Base /\ 0 \notin Addr /\ Wipe \notin Addr
<1>1. 0 \notin Base /\ Wipe \notin Base
  BY BaseIs, Numbers
<1>2. \A w \in Base : \A k \in 0 .. Mem : w + k > 0
  BY BaseIs, Numbers
<1> QED BY <1>1, <1>2, AddrIs, Numbers

\* new_block gives a clear bit's block.
LEMMA NewBlockIs ==
  ASSUME NEW u PROVE NewBlock(u) = 0 \/ (NewBlock(u) \in Base /\ ~Marks(u, NewBlock(u)))
<1>1. CASE Block \subseteq u
  BY <1>1 DEF NewBlock
<1>2. CASE ~(Block \subseteq u)
  <2>1. Least(Block \ u) \in Block \ u
    BY <1>2, LeastIs, Numbers
  <2> DEFINE b == Least(Block \ u)
  <2> HIDE DEF b
  <2>2. NewBlock(u) = BlkSz * b /\ b \in Block /\ b \notin u
    BY <1>2, <2>1 DEF NewBlock, b
  <2>3. BlkSz * b = b * BlkSz /\ (b * BlkSz) \div BlkSz = b
    BY <2>2, Numbers
  <2> QED BY <2>2, <2>3 DEF Base, Marks
<1> QED BY <1>1, <1>2

LEMMA MarkedIs ==
  ASSUME NEW u, u \subseteq Block, NEW b \in Base
  PROVE  /\ Marked(u, b) \subseteq Block
         /\ \A w \in Base : Marks(Marked(u, b), w) <=> Marks(u, w) \/ w = b
BY BaseIs DEF Marks, Marked

\* A position of a file is r words behind the beginning of block j of its chain.
Place(j, r) == (j - 1) * Mem + r

LEMMA PlaceIs ==
  /\ \A j \in Nat \ {0} : \A r \in 0 .. Mem : Place(j, r) \in Nat
  /\ \A j \in Nat \ {0} : \A r, x \in 0 .. Mem : Place(j, x) = Place(j, r) + x - r
  /\ \A j \in Nat \ {0} : Place(j + 1, 0) = Place(j, Mem)
  /\ \A j, l \in Nat \ {0} : \A r \in 0 .. Mem - 1, x \in 0 .. Mem : j < l => Place(j, r) < Place(l, x)
  /\ \A j, l \in Nat \ {0} : j <= l => Place(j, Mem) <= Place(l, Mem)
  /\ \A l \in Nat \ {0} : Place(l, Mem) = Mem * l
<1>1. Mem \in Nat /\ Mem >= 2
  BY Numbers
<1>2. \A j \in Nat \ {0} : j - 1 \in Nat /\ (j - 1) * Mem \in Nat
  BY <1>1
<1>3. \A j \in Nat \ {0} : j * Mem = (j - 1) * Mem + Mem
  BY <1>1
<1>4. \A j, l \in Nat \ {0} : j < l => (j - 1) * Mem + Mem <= (l - 1) * Mem
  <2> SUFFICES ASSUME NEW j \in Nat \ {0}, NEW l \in Nat \ {0}, j < l PROVE (j - 1) * Mem + Mem <= (l - 1) * Mem
    OBVIOUS
  <2>1. l - 1 >= j
    OBVIOUS
  <2>2. j * Mem <= (l - 1) * Mem
    BY <1>1, <2>1
  <2> QED BY <1>3, <2>2
<1>5. \A j \in Nat \ {0} : \A r \in 0 .. Mem : Place(j, r) \in Nat
  BY <1>1, <1>2 DEF Place
<1>6. \A j \in Nat \ {0} : \A r, x \in 0 .. Mem : Place(j, x) = Place(j, r) + x - r
  BY <1>1, <1>2 DEF Place
<1>7. \A j \in Nat \ {0} : Place(j + 1, 0) = Place(j, Mem)
  BY <1>1, <1>2, <1>3 DEF Place
<1>8. \A j, l \in Nat \ {0} : \A r \in 0 .. Mem - 1, x \in 0 .. Mem : j < l => Place(j, r) < Place(l, x)
  BY <1>1, <1>2, <1>4 DEF Place
<1>9. \A j, l \in Nat \ {0} : j <= l => Place(j, Mem) <= Place(l, Mem)
  BY <1>1, <1>2, <1>4 DEF Place
<1>10. \A l \in Nat \ {0} : Place(l, Mem) = Mem * l
  BY <1>1, <1>3 DEF Place
<1> QED BY <1>5, <1>6, <1>7, <1>8, <1>9, <1>10
-----------------------------------------------------------------------------
(* The inductive invariant.  m, u, I, C, t, tr and F stand for mem, used, inode,    *)
(* the chains of the inodes, text, tree and file.                              *)

Inodes == [Inode -> [refcnt : {0, 1}, info : Addr \cup {0}, size : 0 .. MaxSize, dir : BOOLEAN]]
IsTaken(I, i) == i \in Inode /\ I[i].refcnt = 1
IsDir(I, i) == IsTaken(I, i) /\ I[i].dir
Slots(I, d) == {I[d].info + k : k \in 1 .. Mem - 1}
Filled(m, a) == m[a] \notin {0, Wipe}

Chained(m, c) ==
  /\ c \in Seq(Base) /\ Len(c) >= 1
  /\ \A k \in 1 .. Len(c) : m[c[k] + Mem] = IF k = Len(c) THEN 0 ELSE c[k + 1]

InChain(C, w) == \E i \in Inode : \E k \in 1 .. Len(C[i]) : C[i][k] = w

\* The chains share no block, their blocks are marked, and a block that is not
\* marked holds zeros, which ends the chain it is added to.
Layout(m, u, I, C) ==
  /\ m \in [Addr -> Int] /\ u \subseteq Block /\ I \in Inodes
  /\ C \in [Inode -> Seq(Base)]
  /\ \A i \in Inode : ~IsTaken(I, i) => C[i] = <<>>
  /\ \A i \in Inode : IsTaken(I, i) => Chained(m, C[i]) /\ C[i][1] = I[i].info
  /\ \A i \in Inode : IsDir(I, i) => Len(C[i]) = 1
  /\ \A i, j \in Inode : \A k \in 1 .. Len(C[i]), l \in 1 .. Len(C[j]) :
       C[i][k] = C[j][l] => i = j /\ k = l
  /\ \A w \in Base : InChain(C, w) => Marks(u, w)
  /\ \A w \in Base : ~Marks(u, w) => \A k \in 0 .. Mem : m[w + k] = 0

\* An entry leads to a block of its own with a name and an inode.
Named(m, u, I, C, tr, d, a) ==
  /\ m[a] \in Base /\ Marks(u, m[a]) /\ ~InChain(C, m[a])
  /\ IsTaken(I, m[m[a]]) /\ m[m[a] + 1] \in Name
  /\ tr[d][m[m[a] + 1]] = m[m[a]]

\* Behind the first entry never used there is no other, a name is in one entry, and
\* the promised names are those of the entries.
Directories(m, u, I, C, tr) ==
  /\ tr \in [Inode -> [Name -> Inode \cup {NULL}]]
  /\ \A i \in Inode, n \in Name : ~IsDir(I, i) => tr[i][n] = NULL
  /\ \A d \in Inode : IsDir(I, d) => IsDir(I, m[I[d].info])
  /\ \A d \in Inode : \A a, b \in Slots(I, d) : IsDir(I, d) /\ a < b /\ m[a] = 0 => m[b] = 0
  /\ \A d \in Inode : \A a \in Slots(I, d) : IsDir(I, d) /\ Filled(m, a) => Named(m, u, I, C, tr, d, a)
  /\ \A d, e \in Inode : \A a \in Slots(I, d), b \in Slots(I, e) :
       IsDir(I, d) /\ IsDir(I, e) /\ Filled(m, a) /\ m[a] = m[b] => a = b
  /\ \A d \in Inode : \A a, b \in Slots(I, d) :
       IsDir(I, d) /\ Filled(m, a) /\ Filled(m, b) /\ m[m[a] + 1] = m[m[b] + 1] => a = b
  /\ \A d \in Inode, n \in Name : tr[d][n] # NULL =>
       \E a \in Slots(I, d) : Filled(m, a) /\ m[m[a] + 1] = n

\* The chain c holds the text x, or what was there before.
Holds(m, c, x) ==
  \A j \in 1 .. Len(c), r \in 0 .. Mem - 1 :
    Place(j, r) + 1 <= Len(x) => x[Place(j, r) + 1] \in {NULL, m[c[j] + r]}

Contents(m, I, C, t) ==
  /\ t \in [Inode -> Seq(Int \cup {NULL})]
  /\ \A i \in Inode : I[i].size = Len(t[i]) /\ Len(t[i]) <= Mem * Len(C[i])
  /\ \A i \in Inode : IsDir(I, i) => Len(t[i]) = 0
  /\ \A i \in Inode : Holds(m, C[i], t[i])

Handles(I, C, F) ==
  /\ F \in [Handle -> [id : Inode, off : 0 .. MaxSize, flags : {"r", "w", "a"}] \cup {NULL}]
  /\ \A h \in Handle : F[h] # NULL =>
       /\ IsTaken(I, F[h].id) /\ ~IsDir(I, F[h].id)
       /\ F[h].off <= Mem * Len(C[F[h].id])

Good(C) ==
  /\ Layout(mem, used, inode, C) /\ Directories(mem, used, inode, C, tree)
  /\ Contents(mem, inode, C, text) /\ Handles(inode, C, file) /\ IsDir(inode, cwd)

Inv == \E C : Good(C)

-----------------------------------------------------------------------------
(* What keeps it                                                               *)

LEMMA SlotIs ==
  ASSUME NEW m, NEW u, NEW I, NEW C, Layout(m, u, I, C), NEW d, IsDir(I, d)
  PROVE  /\ I[d].info \in Base /\ I[d].info = C[d][1] /\ InChain(C, I[d].info) /\ Marks(u, I[d].info)
         /\ Slots(I, d) \subseteq Addr /\ Slots(I, d) \subseteq Nat /\ d \in Inode /\ Len(C[d]) = 1
         /\ \A a \in Slots(I, d) : \E k \in 1 .. Mem - 1 : a = I[d].info + k
<1>1. d \in Inode /\ IsTaken(I, d)
  BY DEF IsDir, IsTaken
<1>2. Chained(m, C[d]) /\ C[d][1] = I[d].info
  BY <1>1 DEF Layout
<1>3. 1 \in 1 .. Len(C[d]) /\ C[d][1] \in Base
  BY <1>2 DEF Chained
<1>4. InChain(C, I[d].info)
  BY <1>1, <1>2, <1>3 DEF InChain
<1>5. Marks(u, I[d].info)
  BY <1>2, <1>3, <1>4 DEF Layout
<1>6. \A k \in 1 .. Mem - 1 : k \in 0 .. Mem
  BY Numbers
<1>7. Slots(I, d) \subseteq Addr
  BY <1>2, <1>3, <1>6, BaseIs DEF Slots
<1>8. \A a \in Slots(I, d) : \E k \in 1 .. Mem - 1 : a = I[d].info + k
  BY DEF Slots
<1>9. Len(C[d]) = 1
  BY <1>1 DEF Layout
<1> QED BY <1>1, <1>2, <1>3, <1>4, <1>5, <1>7, <1>8, <1>9, AddrIs

\* No word of a block that is in no directory changes it, no mark is taken away, and a
\* new directory is empty.
Keeps(m, u, I, C, m2, u2, I2, C2) ==
  /\ \A w \in Base : Marks(u, w) => Marks(u2, w)
  /\ \A i \in Inode : IsTaken(I, i) => IsTaken(I2, i)
  /\ \A d \in Inode : IsDir(I, d) =>
       /\ IsDir(I2, d) /\ I2[d].info = I[d].info
       /\ \A k \in 0 .. Mem - 1 : m2[I[d].info + k] = m[I[d].info + k]
  /\ \A d \in Inode : IsDir(I2, d) /\ ~IsDir(I, d) =>
       IsDir(I2, m2[I2[d].info]) /\ \A a \in Slots(I2, d) : m2[a] = 0
  /\ \A w \in Base : Marks(u, w) /\ ~InChain(C, w) =>
       m2[w] = m[w] /\ m2[w + 1] = m[w + 1] /\ ~InChain(C2, w)

LEMMA DirsKept ==
  ASSUME NEW m, NEW u, NEW I, NEW C, NEW tr, NEW m2, NEW u2, NEW I2, NEW C2,
         Layout(m, u, I, C), Directories(m, u, I, C, tr), Keeps(m, u, I, C, m2, u2, I2, C2)
  PROVE  Directories(m2, u2, I2, C2, tr)
<1>1. \A d \in Inode : IsDir(I, d) => Slots(I2, d) = Slots(I, d) /\ \A a \in Slots(I, d) : m2[a] = m[a]
  <2> SUFFICES ASSUME NEW d \in Inode, IsDir(I, d)
               PROVE  Slots(I2, d) = Slots(I, d) /\ \A a \in Slots(I, d) : m2[a] = m[a]
    OBVIOUS
  <2>1. I2[d].info = I[d].info /\ \A k \in 0 .. Mem - 1 : m2[I[d].info + k] = m[I[d].info + k]
    BY DEF Keeps
  <2>2. \A k \in 1 .. Mem - 1 : k \in 0 .. Mem - 1
    OBVIOUS
  <2> QED BY <2>1, <2>2 DEF Slots
<1>2. \A d \in Inode : IsDir(I2, d) /\ ~IsDir(I, d) => \A a \in Slots(I2, d) : m2[a] = 0 /\ ~Filled(m2, a)
  BY DEF Keeps, Filled
<1>3. \A d \in Inode : \A a \in Slots(I, d) : IsDir(I, d) /\ Filled(m, a) =>
        Named(m2, u2, I2, C2, tr, d, a) /\ m2[m[a]] = m[m[a]] /\ m2[m[a] + 1] = m[m[a] + 1]
  <2> SUFFICES ASSUME NEW d \in Inode, NEW a \in Slots(I, d), IsDir(I, d), Filled(m, a)
               PROVE  Named(m2, u2, I2, C2, tr, d, a) /\ m2[m[a]] = m[m[a]] /\ m2[m[a] + 1] = m[m[a] + 1]
    OBVIOUS
  <2>1. Named(m, u, I, C, tr, d, a)
    BY DEF Directories
  <2>2. m2[a] = m[a]
    BY <1>1
  <2>3. m[a] \in Base /\ Marks(u2, m[a]) /\ ~InChain(C2, m[a]) /\ m2[m[a]] = m[m[a]] /\ m2[m[a] + 1] = m[m[a] + 1]
    BY <2>1 DEF Named, Keeps
  <2>4. IsTaken(I2, m[m[a]])
    BY <2>1 DEF Named, Keeps, IsTaken
  <2> QED BY <2>1, <2>2, <2>3, <2>4 DEF Named
<1>4. \A d \in Inode : \A a \in Slots(I2, d) : IsDir(I2, d) /\ Filled(m2, a) =>
        IsDir(I, d) /\ a \in Slots(I, d) /\ Filled(m, a) /\ m2[a] = m[a]
  BY <1>1, <1>2 DEF Filled
<1>5. tr \in [Inode -> [Name -> Inode \cup {NULL}]]
  BY DEF Directories
<1>6. \A i \in Inode, n \in Name : ~IsDir(I2, i) => tr[i][n] = NULL
  BY DEF Directories, Keeps
<1>7. ASSUME NEW d \in Inode, IsDir(I2, d) PROVE IsDir(I2, m2[I2[d].info])
  <2>1. CASE IsDir(I, d)
    <3>1. 0 \in 0 .. Mem - 1 /\ I[d].info + 0 = I[d].info
      BY <2>1, SlotIs, BaseIs, Numbers
    <3>2. m2[I2[d].info] = m[I[d].info]
      BY <2>1, <3>1 DEF Keeps
    <3>3. IsDir(I, m[I[d].info])
      BY <2>1 DEF Directories
    <3> QED BY <3>2, <3>3 DEF Keeps, IsDir, IsTaken
  <2>2. CASE ~IsDir(I, d)
    BY <1>7, <2>2 DEF Keeps
  <2> QED BY <2>1, <2>2
<1>8. \A d \in Inode : \A a, b \in Slots(I2, d) : IsDir(I2, d) /\ a < b /\ m2[a] = 0 => m2[b] = 0
  <2> SUFFICES ASSUME NEW d \in Inode, NEW a \in Slots(I2, d), NEW b \in Slots(I2, d),
                      IsDir(I2, d), a < b, m2[a] = 0
               PROVE  m2[b] = 0
    OBVIOUS
  <2>1. CASE IsDir(I, d)
    BY <1>1, <2>1 DEF Directories
  <2>2. CASE ~IsDir(I, d)
    BY <1>2, <2>2
  <2> QED BY <2>1, <2>2
<1>9. \A d \in Inode : \A a \in Slots(I2, d) : IsDir(I2, d) /\ Filled(m2, a) => Named(m2, u2, I2, C2, tr, d, a)
  BY <1>3, <1>4
<1>10. \A d, e \in Inode : \A a \in Slots(I2, d), b \in Slots(I2, e) :
         IsDir(I2, d) /\ IsDir(I2, e) /\ Filled(m2, a) /\ m2[a] = m2[b] => a = b
  <2> SUFFICES ASSUME NEW d \in Inode, NEW e \in Inode, NEW a \in Slots(I2, d), NEW b \in Slots(I2, e),
                      IsDir(I2, d), IsDir(I2, e), Filled(m2, a), m2[a] = m2[b]
               PROVE  a = b
    OBVIOUS
  <2>1. Filled(m2, b)
    BY DEF Filled
  <2>2. IsDir(I, d) /\ a \in Slots(I, d) /\ Filled(m, a) /\ m2[a] = m[a]
    BY <1>4
  <2>3. IsDir(I, e) /\ b \in Slots(I, e) /\ m2[b] = m[b]
    BY <1>4, <2>1
  <2> QED BY <2>2, <2>3 DEF Directories
<1>11. \A d \in Inode : \A a, b \in Slots(I2, d) :
         IsDir(I2, d) /\ Filled(m2, a) /\ Filled(m2, b) /\ m2[m2[a] + 1] = m2[m2[b] + 1] => a = b
  <2> SUFFICES ASSUME NEW d \in Inode, NEW a \in Slots(I2, d), NEW b \in Slots(I2, d),
                      IsDir(I2, d), Filled(m2, a), Filled(m2, b), m2[m2[a] + 1] = m2[m2[b] + 1]
               PROVE  a = b
    OBVIOUS
  <2>1. IsDir(I, d) /\ a \in Slots(I, d) /\ Filled(m, a) /\ m2[a] = m[a]
    BY <1>4
  <2>2. b \in Slots(I, d) /\ Filled(m, b) /\ m2[b] = m[b]
    BY <1>4
  <2>3. m[m[a] + 1] = m[m[b] + 1]
    BY <1>3, <2>1, <2>2
  <2> QED BY <2>1, <2>2, <2>3 DEF Directories
<1>12. \A d \in Inode, n \in Name : tr[d][n] # NULL =>
         \E a \in Slots(I2, d) : Filled(m2, a) /\ m2[m2[a] + 1] = n
  <2> SUFFICES ASSUME NEW d \in Inode, NEW n \in Name, tr[d][n] # NULL
               PROVE  \E a \in Slots(I2, d) : Filled(m2, a) /\ m2[m2[a] + 1] = n
    OBVIOUS
  <2>1. IsDir(I, d)
    BY DEF Directories
  <2>2. PICK a \in Slots(I, d) : Filled(m, a) /\ m[m[a] + 1] = n
    BY DEF Directories
  <2>3. a \in Slots(I2, d) /\ m2[a] = m[a] /\ m2[m[a] + 1] = m[m[a] + 1]
    BY <1>1, <1>3, <2>1, <2>2
  <2> QED BY <2>2, <2>3 DEF Filled
<1> QED BY <1>5, <1>6, <1>7, <1>8, <1>9, <1>10, <1>11, <1>12 DEF Directories

\* The chains and their pointers stay, and blocks are at most marked.
Stays(m, u, I, C, m2, u2, I2) ==
  /\ m2 \in [Addr -> Int] /\ u2 \subseteq Block /\ I2 \in Inodes
  /\ \A w \in Base : Marks(u, w) => Marks(u2, w)
  /\ \A w \in Base : ~Marks(u2, w) => \A k \in 0 .. Mem : m2[w + k] = m[w + k]
  /\ \A i \in Inode : I2[i].refcnt = I[i].refcnt /\ I2[i].info = I[i].info /\ I2[i].dir = I[i].dir
  /\ \A w \in Base : InChain(C, w) => m2[w + Mem] = m[w + Mem]

LEMMA LayoutStays ==
  ASSUME NEW m, NEW u, NEW I, NEW C, NEW m2, NEW u2, NEW I2,
         Layout(m, u, I, C), Stays(m, u, I, C, m2, u2, I2)
  PROVE  Layout(m2, u2, I2, C)
<1>1. \A i \in Inode : (IsTaken(I2, i) <=> IsTaken(I, i)) /\ (IsDir(I2, i) <=> IsDir(I, i)) /\ I2[i].info = I[i].info
  BY DEF Stays, IsTaken, IsDir
<1>2. \A i \in Inode : IsTaken(I2, i) => Chained(m2, C[i]) /\ C[i][1] = I2[i].info
  <2> SUFFICES ASSUME NEW i \in Inode, IsTaken(I2, i) PROVE Chained(m2, C[i]) /\ C[i][1] = I2[i].info
    OBVIOUS
  <2>1. Chained(m, C[i]) /\ C[i][1] = I2[i].info
    BY <1>1 DEF Layout
  <2>2. \A k \in 1 .. Len(C[i]) : C[i][k] \in Base /\ InChain(C, C[i][k])
    BY <2>1 DEF Chained, InChain
  <2>3. \A k \in 1 .. Len(C[i]) : m2[C[i][k] + Mem] = m[C[i][k] + Mem]
    BY <2>2 DEF Stays
  <2> QED BY <2>1, <2>3 DEF Chained
<1>3. \A w \in Base : InChain(C, w) => Marks(u2, w)
  BY DEF Layout, Stays
<1>4. \A w \in Base : ~Marks(u2, w) => \A k \in 0 .. Mem : m2[w + k] = 0
  BY DEF Layout, Stays
<1>5. m2 \in [Addr -> Int] /\ u2 \subseteq Block /\ I2 \in Inodes
  BY DEF Stays
<1> QED BY <1>1, <1>2, <1>3, <1>4, <1>5 DEF Layout

\* An entry of a directory is written: the word of a slot, and a block for the name.
LEMMA SlotApart ==
  ASSUME NEW m, NEW u, NEW I, NEW C, Layout(m, u, I, C),
         NEW d, IsDir(I, d), NEW a \in Slots(I, d)
  PROVE  /\ a \in Addr /\ a \in Nat
         /\ \A e \in Inode : IsDir(I, e) /\ a \in Slots(I, e) => e = d
         /\ \A w \in Base : ~InChain(C, w) => a \notin {w + k : k \in 0 .. Mem}
         /\ \A w \in Base : InChain(C, w) => a # w + Mem /\ a # w
         /\ \A i \in Inode : \A k \in 1 .. Len(C[i]) : i # d => a \notin {C[i][k] + r : r \in 0 .. Mem}
<1>1. I[d].info \in Base /\ I[d].info = C[d][1] /\ InChain(C, I[d].info) /\ a \in Addr /\ a \in Nat /\ d \in Inode
  BY SlotIs
<1>2. PICK k \in 1 .. Mem - 1 : a = I[d].info + k
  BY SlotIs
<1>3. k \in 0 .. Mem /\ k # 0 /\ k # Mem /\ 0 \in 0 .. Mem /\ Mem \in 0 .. Mem
  BY Numbers
<1>4. \A w \in Base : \A l \in 0 .. Mem : a = w + l => w = I[d].info /\ l = k
  BY <1>1, <1>2, <1>3, Apart
<1>5. ASSUME NEW e \in Inode, IsDir(I, e), a \in Slots(I, e) PROVE e = d
  <2>1. I[e].info \in Base /\ I[e].info = C[e][1]
    BY <1>5, SlotIs
  <2>2. PICK l \in 1 .. Mem - 1 : a = I[e].info + l
    BY <1>5, SlotIs
  <2>3. l \in 0 .. Mem
    BY Numbers
  <2>4. C[e][1] = C[d][1]
    BY <1>1, <1>4, <2>1, <2>2, <2>3
  <2>5. 1 \in 1 .. Len(C[e]) /\ 1 \in 1 .. Len(C[d])
    BY <1>1, <1>5 DEF Layout, IsDir, Chained
  <2> QED BY <1>1, <2>4, <2>5 DEF Layout
<1>6. \A w \in Base : ~InChain(C, w) => a \notin {w + l : l \in 0 .. Mem}
  BY <1>1, <1>4
<1>7. \A w \in Base : w + 0 = w
  BY BaseIs
<1>8. \A w \in Base : a # w + Mem /\ a # w
  BY <1>3, <1>4, <1>7
<1>9. ASSUME NEW i \in Inode, NEW l \in 1 .. Len(C[i]), i # d, NEW r \in 0 .. Mem PROVE a # C[i][l] + r
  <2>1. C[i][l] \in Base
    BY DEF Layout
  <2>2. 1 \in 1 .. Len(C[d])
    BY <1>1 DEF Layout, IsDir, Chained
  <2>3. C[i][l] # C[d][1]
    BY <1>1, <1>9, <2>2 DEF Layout
  <2> QED BY <1>1, <1>4, <2>1, <2>3
<1> QED BY <1>1, <1>5, <1>6, <1>8, <1>9

\* new_dirent of the name n for inode i: in slot a, the first that was never used or one
\* before it, with the block b.
Adds(m, u, I, tr, m2, u2, tr2, d, a, b, i, n) ==
  /\ IsDir(I, d) /\ a \in Slots(I, d) /\ ~Filled(m, a)
  /\ \A x \in Slots(I, d) : x < a => m[x] # 0
  /\ n \in Name /\ \A x \in Slots(I, d) : Filled(m, x) => m[m[x] + 1] # n
  /\ IsTaken(I, i) /\ b \in Base /\ ~Marks(u, b)
  /\ m2 = [m EXCEPT ![a] = b, ![b] = i, ![b + 1] = n]
  /\ u2 = Marked(u, b)
  /\ tr2 = [tr EXCEPT ![d][n] = i]

AddedWords(m, I, C, u, m2, d, a, b, i, n) ==
  /\ m2 \in [Addr -> Int] /\ m2[a] = b /\ m2[b] = i /\ m2[b + 1] = n
  /\ \A x \in Addr : x \notin {a, b, b + 1} => m2[x] = m[x]
  /\ \A w \in Base : \A k \in 0 .. Mem : w # b /\ w + k # a => m2[w + k] = m[w + k]
  /\ \A e \in Inode : IsDir(I, e) => \A x \in Slots(I, e) : x # a => m2[x] = m[x]
  /\ \A e \in Inode : IsDir(I, e) => m2[I[e].info] = m[I[e].info] /\ I[e].info # b
  /\ \A w \in Base : Marks(u, w) /\ ~InChain(C, w) => m2[w] = m[w] /\ m2[w + 1] = m[w + 1] /\ w # b

LEMMA AddedIs ==
  ASSUME NEW m, NEW u, NEW I, NEW C, NEW tr, NEW m2, NEW u2, NEW tr2, NEW d, NEW a, NEW b, NEW i, NEW n,
         Layout(m, u, I, C), Adds(m, u, I, tr, m2, u2, tr2, d, a, b, i, n)
  PROVE  AddedWords(m, I, C, u, m2, d, a, b, i, n)
<1>1. IsDir(I, d) /\ a \in Slots(I, d) /\ b \in Base /\ ~Marks(u, b) /\ i \in Int /\ n \in Int
  BY Numbers DEF Adds, IsTaken
<1>2. a \in Addr /\ a \in Nat /\ 0 \in 0 .. Mem /\ 1 \in 0 .. Mem
  BY <1>1, SlotApart, Numbers
<1>3. ~InChain(C, b)
  BY <1>1 DEF Layout
<1>4. a \notin {b + k : k \in 0 .. Mem}
  BY <1>1, <1>3, SlotApart
<1>5. b \in Addr /\ b + 1 \in Addr /\ b + 0 = b /\ b \in Nat /\ b # b + 1
  BY <1>1, <1>2, BaseIs
<1>6. a # b /\ a # b + 1
  BY <1>2, <1>4, <1>5
<1>7. m \in [Addr -> Int] /\ m2 = [m EXCEPT ![a] = b, ![b] = i, ![b + 1] = n]
  BY DEF Layout, Adds
<1>8. m2 \in [Addr -> Int] /\ m2[a] = b /\ m2[b] = i /\ m2[b + 1] = n
  BY <1>1, <1>2, <1>5, <1>6, <1>7
<1>9. \A x \in Addr : x \notin {a, b, b + 1} => m2[x] = m[x]
  BY <1>7
<1>10. ASSUME NEW w \in Base, NEW k \in 0 .. Mem, w # b, w + k # a PROVE m2[w + k] = m[w + k]
  <2>1. w + k \in Addr
    BY BaseIs
  <2>2. w + k # b + 0 /\ w + k # b + 1
    BY <1>1, <1>2, <1>10, Apart
  <2> QED BY <1>5, <1>9, <1>10, <2>1, <2>2
<1>11. ASSUME NEW e \in Inode, IsDir(I, e)
       PROVE  m2[I[e].info] = m[I[e].info] /\ I[e].info # b /\ \A x \in Slots(I, e) : x # a => m2[x] = m[x]
  <2>1. I[e].info \in Base /\ InChain(C, I[e].info) /\ I[e].info + 0 = I[e].info
    BY <1>11, SlotIs, BaseIs
  <2>2. I[e].info # b /\ I[e].info # a
    BY <1>1, <1>3, <2>1, SlotApart
  <2>3. \A x \in Slots(I, e) : \E k \in 0 .. Mem : x = I[e].info + k
    <3>1. \A k \in 1 .. Mem - 1 : k \in 0 .. Mem
      BY Numbers
    <3> QED BY <1>11, <3>1, SlotIs
  <2> QED BY <1>2, <1>10, <2>1, <2>2, <2>3
<1>12. ASSUME NEW w \in Base, Marks(u, w), ~InChain(C, w) PROVE m2[w] = m[w] /\ m2[w + 1] = m[w + 1] /\ w # b
  <2>1. w # b /\ w + 0 = w
    BY <1>1, <1>12, BaseIs
  <2>2. w + 0 # a /\ w + 1 # a
    BY <1>1, <1>2, <1>12, SlotApart
  <2> QED BY <1>2, <1>10, <2>1, <2>2
<1> QED BY <1>8, <1>9, <1>10, <1>11, <1>12 DEF AddedWords

LEMMA AddedLayout ==
  ASSUME NEW m, NEW u, NEW I, NEW C, NEW tr, NEW m2, NEW u2, NEW tr2, NEW d, NEW a, NEW b, NEW i, NEW n,
         Layout(m, u, I, C), Adds(m, u, I, tr, m2, u2, tr2, d, a, b, i, n)
  PROVE  Layout(m2, u2, I, C)
<1>1. AddedWords(m, I, C, u, m2, d, a, b, i, n)
  BY AddedIs
<1>2. IsDir(I, d) /\ a \in Slots(I, d) /\ b \in Base /\ ~Marks(u, b) /\ u2 = Marked(u, b) /\ u \subseteq Block
  BY DEF Adds, Layout
<1>3. u2 \subseteq Block /\ \A w \in Base : Marks(u2, w) <=> Marks(u, w) \/ w = b
  BY <1>2, MarkedIs
<1>4. ASSUME NEW w \in Base, ~Marks(u2, w), NEW k \in 0 .. Mem PROVE m2[w + k] = m[w + k]
  <2>1. w # b /\ ~InChain(C, w)
    BY <1>3, <1>4 DEF Layout
  <2>2. w + k # a
    BY <1>2, <2>1, SlotApart
  <2> QED BY <1>1, <2>1, <2>2 DEF AddedWords
<1>5. ASSUME NEW w \in Base, InChain(C, w) PROVE m2[w + Mem] = m[w + Mem]
  <2>1. w # b /\ Mem \in 0 .. Mem
    BY <1>2, <1>5, Numbers DEF Layout
  <2>2. w + Mem # a
    BY <1>2, <1>5, SlotApart
  <2> QED BY <1>1, <2>1, <2>2 DEF AddedWords
<1>6. Stays(m, u, I, C, m2, u2, I)
  BY <1>1, <1>3, <1>4, <1>5 DEF Stays, Layout, AddedWords
<1> QED BY <1>6, LayoutStays

LEMMA AddedDirs ==
  ASSUME NEW m, NEW u, NEW I, NEW C, NEW tr, NEW m2, NEW u2, NEW tr2, NEW d, NEW a, NEW b, NEW i, NEW n,
         Layout(m, u, I, C), Directories(m, u, I, C, tr), Adds(m, u, I, tr, m2, u2, tr2, d, a, b, i, n)
  PROVE  Directories(m2, u2, I, C, tr2)
<1>1. AddedWords(m, I, C, u, m2, d, a, b, i, n)
  BY AddedIs
<1>2. IsDir(I, d) /\ d \in Inode /\ a \in Slots(I, d) /\ b \in Base /\ ~Marks(u, b) /\ ~Filled(m, a)
  BY DEF Adds, IsDir, IsTaken
<1>3. \A w \in Base : Marks(u2, w) <=> Marks(u, w) \/ w = b
  BY <1>2, MarkedIs DEF Adds, Layout
<1>4. b # 0 /\ b # Wipe /\ n \in Name /\ i \in Inode /\ IsTaken(I, i) /\ ~InChain(C, b)
  BY <1>2, NotBase DEF Adds, IsTaken, Layout
<1>5. \A e \in Inode : IsDir(I, e) /\ a \in Slots(I, e) => e = d
  BY <1>2, SlotApart
<1>6. tr \in [Inode -> [Name -> Inode \cup {NULL}]] /\ tr2 = [tr EXCEPT ![d][n] = i]
  BY DEF Directories, Adds
<1>7. \A e \in Inode, x \in Name : tr2[e][x] = IF e = d /\ x = n THEN i ELSE tr[e][x]
  BY <1>2, <1>4, <1>6
<1>8. tr2 \in [Inode -> [Name -> Inode \cup {NULL}]]
  BY <1>2, <1>4, <1>6
<1>9. ASSUME NEW e \in Inode, IsDir(I, e), NEW x \in Slots(I, e), x # a, Filled(m2, x)
      PROVE  /\ Filled(m, x) /\ m2[x] = m[x] /\ m[x] # b
             /\ m2[m[x]] = m[m[x]] /\ m2[m[x] + 1] = m[m[x] + 1]
             /\ Named(m, u, I, C, tr, e, x) /\ (e = d => m[m[x] + 1] # n)
  <2>1. m2[x] = m[x]
    BY <1>1, <1>9 DEF AddedWords
  <2>2. Filled(m, x)
    BY <1>9, <2>1 DEF Filled
  <2>3. Named(m, u, I, C, tr, e, x)
    BY <1>9, <2>2 DEF Directories
  <2>4. m2[m[x]] = m[m[x]] /\ m2[m[x] + 1] = m[m[x] + 1] /\ m[x] # b
    BY <1>1, <2>3 DEF Named, AddedWords
  <2>5. e = d => m[m[x] + 1] # n
    BY <1>9, <2>2 DEF Adds
  <2> QED BY <2>1, <2>2, <2>3, <2>4, <2>5
<1>10. m2[a] = b /\ m2[b] = i /\ m2[b + 1] = n
  BY <1>1 DEF AddedWords
<1>11. \A e \in Inode, x \in Name : ~IsDir(I, e) => tr2[e][x] = NULL
  BY <1>2, <1>7 DEF Directories
<1>12. \A e \in Inode : IsDir(I, e) => IsDir(I, m2[I[e].info])
  BY <1>1 DEF Directories, AddedWords
<1>13. ASSUME NEW e \in Inode, NEW x \in Slots(I, e), NEW y \in Slots(I, e), IsDir(I, e), x < y, m2[x] = 0
       PROVE  m2[y] = 0
  <2>1. x # a /\ m[x] = 0
    BY <1>1, <1>4, <1>10, <1>13 DEF AddedWords
  <2>2. y # a
    <3> SUFFICES ASSUME y = a PROVE FALSE
      OBVIOUS
    <3>1. e = d
      BY <1>5, <1>13
    <3> QED BY <1>13, <2>1, <3>1 DEF Adds
  <2>3. m[y] = 0
    BY <1>13, <2>1 DEF Directories
  <2> QED BY <1>1, <1>13, <2>2, <2>3 DEF AddedWords
<1>14. ASSUME NEW e \in Inode, NEW x \in Slots(I, e), IsDir(I, e), Filled(m2, x)
       PROVE  Named(m2, u2, I, C, tr2, e, x)
  <2>1. CASE x = a
    <3>1. e = d
      BY <1>5, <1>14, <2>1
    <3>2. tr2[d][n] = i
      BY <1>2, <1>4, <1>7
    <3> QED BY <1>2, <1>3, <1>4, <1>10, <2>1, <3>1, <3>2 DEF Named
  <2>2. CASE x # a
    <3>1. m2[x] = m[x] /\ m2[m[x]] = m[m[x]] /\ m2[m[x] + 1] = m[m[x] + 1]
          /\ Named(m, u, I, C, tr, e, x) /\ (e = d => m[m[x] + 1] # n)
      BY <1>9, <1>14, <2>2
    <3>2. m[m[x] + 1] \in Name
      BY <3>1 DEF Named
    <3>3. tr2[e][m[m[x] + 1]] = tr[e][m[m[x] + 1]]
      BY <1>7, <3>1, <3>2
    <3> QED BY <1>3, <3>1, <3>3 DEF Named
  <2> QED BY <2>1, <2>2
<1>15. ASSUME NEW e \in Inode, NEW f \in Inode, NEW x \in Slots(I, e), NEW y \in Slots(I, f),
              IsDir(I, e), IsDir(I, f), Filled(m2, x), m2[x] = m2[y]
       PROVE  x = y
  <2>1. Filled(m2, y)
    BY <1>15 DEF Filled
  <2>2. x # a => Filled(m, x) /\ m2[x] = m[x] /\ m[x] # b
    BY <1>9, <1>15
  <2>3. y # a => m2[y] = m[y] /\ m[y] # b
    BY <1>9, <1>15, <2>1
  <2>4. x = a <=> y = a
    BY <1>10, <1>15, <2>2, <2>3
  <2> QED BY <1>15, <2>2, <2>3, <2>4 DEF Directories
<1>16. ASSUME NEW e \in Inode, NEW x \in Slots(I, e), NEW y \in Slots(I, e),
              IsDir(I, e), Filled(m2, x), Filled(m2, y), m2[m2[x] + 1] = m2[m2[y] + 1]
       PROVE  x = y
  <2>1. x # a => Filled(m, x) /\ m2[x] = m[x] /\ m2[m[x] + 1] = m[m[x] + 1] /\ (e = d => m[m[x] + 1] # n)
    BY <1>9, <1>16
  <2>2. y # a => Filled(m, y) /\ m2[y] = m[y] /\ m2[m[y] + 1] = m[m[y] + 1] /\ (e = d => m[m[y] + 1] # n)
    BY <1>9, <1>16
  <2>3. x = a \/ y = a => e = d
    BY <1>5, <1>16
  <2>4. x = a <=> y = a
    BY <1>10, <1>16, <2>1, <2>2, <2>3
  <2>5. CASE x # a /\ y # a
    <3>1. m[m[x] + 1] = m[m[y] + 1]
      BY <1>16, <2>1, <2>2, <2>5
    <3> QED BY <1>16, <2>1, <2>2, <2>5, <3>1 DEF Directories
  <2> QED BY <2>4, <2>5
<1>17. ASSUME NEW e \in Inode, NEW x \in Name, tr2[e][x] # NULL
       PROVE  \E y \in Slots(I, e) : Filled(m2, y) /\ m2[m2[y] + 1] = x
  <2>1. CASE e = d /\ x = n
    <3>1. Filled(m2, a)
      BY <1>4, <1>10 DEF Filled
    <3> QED BY <1>2, <1>10, <2>1, <3>1
  <2>2. CASE ~(e = d /\ x = n)
    <3>1. tr[e][x] # NULL
      BY <1>7, <1>17, <2>2
    <3>2. PICK y \in Slots(I, e) : Filled(m, y) /\ m[m[y] + 1] = x
      BY <3>1 DEF Directories
    <3>3. IsDir(I, e)
      BY <3>1 DEF Directories
    <3>4. y # a
      BY <1>2, <3>2
    <3>5. m2[y] = m[y]
      BY <1>1, <3>3, <3>4 DEF AddedWords
    <3>6. Filled(m2, y)
      BY <3>2, <3>5 DEF Filled
    <3>7. m2[m[y] + 1] = m[m[y] + 1]
      BY <1>9, <3>3, <3>4, <3>6
    <3> QED BY <3>2, <3>5, <3>6, <3>7
  <2> QED BY <2>1, <2>2
<1> QED BY <1>8, <1>11, <1>12, <1>13, <1>14, <1>15, <1>16, <1>17 DEF Directories

\* The entry of the name n, in slot a, is wiped.
Wipes(m, I, tr, m2, tr2, d, a, n) ==
  /\ IsDir(I, d) /\ a \in Slots(I, d) /\ Filled(m, a) /\ n \in Name /\ m[m[a] + 1] = n
  /\ m2 = [m EXCEPT ![a] = Wipe] /\ tr2 = [tr EXCEPT ![d][n] = NULL]

LEMMA WipedWords ==
  ASSUME NEW m, NEW u, NEW I, NEW C, NEW tr, NEW m2, NEW tr2, NEW d, NEW a, NEW n,
         Layout(m, u, I, C), Wipes(m, I, tr, m2, tr2, d, a, n)
  PROVE  /\ m2 \in [Addr -> Int] /\ m2[a] = Wipe /\ \A x \in Addr : x # a => m2[x] = m[x]
         /\ \A w \in Base : InChain(C, w) => m2[w + Mem] = m[w + Mem] /\ m2[w] = m[w]
         /\ \A w \in Base : ~InChain(C, w) => \A k \in 0 .. Mem : m2[w + k] = m[w + k]
         /\ \A w \in Base : ~InChain(C, w) => m2[w] = m[w] /\ m2[w + 1] = m[w + 1]
<1>1. IsDir(I, d) /\ a \in Slots(I, d)
  BY DEF Wipes
<1>2. a \in Addr /\ 0 \in 0 .. Mem /\ 1 \in 0 .. Mem /\ Mem \in 0 .. Mem
  BY <1>1, SlotApart, Numbers
<1>3. m2 \in [Addr -> Int] /\ m2[a] = Wipe /\ \A x \in Addr : x # a => m2[x] = m[x]
  BY <1>2, Numbers DEF Layout, Wipes
<1>4. \A w \in Base : w + 0 = w /\ \A k \in 0 .. Mem : w + k \in Addr
  BY BaseIs
<1>5. \A w \in Base : InChain(C, w) => w + Mem # a /\ w # a
  BY <1>1, SlotApart
<1>6. \A w \in Base : ~InChain(C, w) => \A k \in 0 .. Mem : w + k # a
  BY <1>1, SlotApart
<1>7. \A w \in Base : InChain(C, w) => m2[w + Mem] = m[w + Mem] /\ m2[w] = m[w]
  BY <1>2, <1>3, <1>4, <1>5
<1>8. \A w \in Base : ~InChain(C, w) => \A k \in 0 .. Mem : m2[w + k] = m[w + k]
  BY <1>3, <1>4, <1>6
<1>9. \A w \in Base : ~InChain(C, w) => m2[w] = m[w] /\ m2[w + 1] = m[w + 1]
  BY <1>2, <1>4, <1>8
<1> QED BY <1>3, <1>7, <1>8, <1>9

LEMMA WipedLayout ==
  ASSUME NEW m, NEW u, NEW I, NEW C, NEW tr, NEW m2, NEW tr2, NEW d, NEW a, NEW n,
         Layout(m, u, I, C), Wipes(m, I, tr, m2, tr2, d, a, n)
  PROVE  Layout(m2, u, I, C)
<1>1. /\ m2 \in [Addr -> Int]
      /\ \A w \in Base : InChain(C, w) => m2[w + Mem] = m[w + Mem]
      /\ \A w \in Base : ~InChain(C, w) => \A k \in 0 .. Mem : m2[w + k] = m[w + k]
  BY WipedWords
<1>2. Stays(m, u, I, C, m2, u, I)
  BY <1>1 DEF Stays, Layout
<1> QED BY <1>2, LayoutStays

LEMMA WipedDirs ==
  ASSUME NEW m, NEW u, NEW I, NEW C, NEW tr, NEW m2, NEW tr2, NEW d, NEW a, NEW n,
         Layout(m, u, I, C), Directories(m, u, I, C, tr), Wipes(m, I, tr, m2, tr2, d, a, n)
  PROVE  Directories(m2, u, I, C, tr2)
<1>1. IsDir(I, d) /\ d \in Inode /\ a \in Slots(I, d) /\ Filled(m, a) /\ n \in Name /\ m[m[a] + 1] = n
  BY DEF Wipes, IsDir, IsTaken
<1>2. /\ m2[a] = Wipe /\ \A x \in Addr : x # a => m2[x] = m[x]
      /\ \A w \in Base : InChain(C, w) => m2[w] = m[w]
      /\ \A w \in Base : ~InChain(C, w) => m2[w] = m[w] /\ m2[w + 1] = m[w + 1]
  BY WipedWords
<1>3. \A e \in Inode : IsDir(I, e) => m2[I[e].info] = m[I[e].info]
  BY <1>2, SlotIs
<1>4. \A e \in Inode : IsDir(I, e) => \A x \in Slots(I, e) : x # a => m2[x] = m[x]
  BY <1>2, SlotIs
<1>5. \A e \in Inode : IsDir(I, e) /\ a \in Slots(I, e) => e = d
  BY <1>1, SlotApart
<1>6. tr \in [Inode -> [Name -> Inode \cup {NULL}]] /\ tr2 = [tr EXCEPT ![d][n] = NULL]
  BY DEF Directories, Wipes
<1>7. \A e \in Inode, x \in Name : tr2[e][x] = IF e = d /\ x = n THEN NULL ELSE tr[e][x]
  BY <1>1, <1>6
<1>8. tr2 \in [Inode -> [Name -> Inode \cup {NULL}]]
  BY <1>1, <1>6
<1>9. ASSUME NEW e \in Inode, IsDir(I, e), NEW x \in Slots(I, e), Filled(m2, x)
      PROVE  /\ x # a /\ Filled(m, x) /\ m2[x] = m[x]
             /\ m2[m[x]] = m[m[x]] /\ m2[m[x] + 1] = m[m[x] + 1]
             /\ Named(m, u, I, C, tr, e, x) /\ (e = d => m[m[x] + 1] # n)
  <2>1. x # a
    BY <1>2, <1>9 DEF Filled
  <2>2. m2[x] = m[x]
    BY <1>4, <1>9, <2>1
  <2>3. Filled(m, x)
    BY <1>9, <2>2 DEF Filled
  <2>4. Named(m, u, I, C, tr, e, x)
    BY <1>9, <2>3 DEF Directories
  <2>5. m2[m[x]] = m[m[x]] /\ m2[m[x] + 1] = m[m[x] + 1]
    BY <1>2, <2>4 DEF Named
  <2>6. e = d => m[m[x] + 1] # n
    BY <1>1, <1>9, <2>1, <2>3 DEF Directories
  <2> QED BY <2>1, <2>2, <2>3, <2>4, <2>5, <2>6
<1>10. Wipe # 0
  BY Numbers
<1>11. \A e \in Inode, x \in Name : ~IsDir(I, e) => tr2[e][x] = NULL
  BY <1>7 DEF Directories
<1>12. \A e \in Inode : IsDir(I, e) => IsDir(I, m2[I[e].info])
  BY <1>3 DEF Directories
<1>13. ASSUME NEW e \in Inode, NEW x \in Slots(I, e), NEW y \in Slots(I, e), IsDir(I, e), x < y, m2[x] = 0
       PROVE  m2[y] = 0
  <2>1. x # a /\ m[x] = 0
    BY <1>2, <1>4, <1>10, <1>13
  <2>2. m[y] = 0
    BY <1>13, <2>1 DEF Directories
  <2> QED BY <1>1, <1>4, <1>13, <2>2 DEF Filled
<1>14. ASSUME NEW e \in Inode, NEW x \in Slots(I, e), IsDir(I, e), Filled(m2, x)
       PROVE  Named(m2, u, I, C, tr2, e, x)
  <2>1. m2[x] = m[x] /\ m2[m[x]] = m[m[x]] /\ m2[m[x] + 1] = m[m[x] + 1]
        /\ Named(m, u, I, C, tr, e, x) /\ (e = d => m[m[x] + 1] # n)
    BY <1>9, <1>14
  <2>2. m[m[x] + 1] \in Name
    BY <2>1 DEF Named
  <2>3. tr2[e][m[m[x] + 1]] = tr[e][m[m[x] + 1]]
    BY <1>7, <2>1, <2>2
  <2> QED BY <2>1, <2>3 DEF Named
<1>15. ASSUME NEW e \in Inode, NEW f \in Inode, NEW x \in Slots(I, e), NEW y \in Slots(I, f),
              IsDir(I, e), IsDir(I, f), Filled(m2, x), m2[x] = m2[y]
       PROVE  x = y
  <2>1. Filled(m2, y)
    BY <1>15 DEF Filled
  <2>2. Filled(m, x) /\ m[x] = m[y]
    BY <1>9, <1>15, <2>1
  <2> QED BY <1>15, <2>2 DEF Directories
<1>16. ASSUME NEW e \in Inode, NEW x \in Slots(I, e), NEW y \in Slots(I, e),
              IsDir(I, e), Filled(m2, x), Filled(m2, y), m2[m2[x] + 1] = m2[m2[y] + 1]
       PROVE  x = y
  <2>1. Filled(m, x) /\ Filled(m, y) /\ m[m[x] + 1] = m[m[y] + 1]
    BY <1>9, <1>16
  <2> QED BY <1>16, <2>1 DEF Directories
<1>17. ASSUME NEW e \in Inode, NEW x \in Name, tr2[e][x] # NULL
       PROVE  \E y \in Slots(I, e) : Filled(m2, y) /\ m2[m2[y] + 1] = x
  <2>1. ~(e = d /\ x = n) /\ tr[e][x] # NULL
    BY <1>7, <1>17
  <2>2. IsDir(I, e)
    BY <2>1 DEF Directories
  <2>3. PICK y \in Slots(I, e) : Filled(m, y) /\ m[m[y] + 1] = x
    BY <2>1 DEF Directories
  <2>4. y # a
    BY <1>1, <1>5, <2>1, <2>2, <2>3
  <2>5. m2[y] = m[y]
    BY <1>4, <2>2, <2>4
  <2>6. Filled(m2, y)
    BY <2>3, <2>5 DEF Filled
  <2>7. m2[m[y] + 1] = m[m[y] + 1]
    BY <1>9, <2>2, <2>6
  <2> QED BY <2>3, <2>5, <2>6, <2>7
<1> QED BY <1>8, <1>11, <1>12, <1>13, <1>14, <1>15, <1>16, <1>17 DEF Directories

-----------------------------------------------------------------------------
(* New chains and longer ones                                                  *)

\* An inode is taken, with a fresh block that holds the word v: the parent's number in
\* a directory.
Born(m, u, I, C, m2, u2, I2, C2, i, c, v, isDir) ==
  /\ i \in Inode /\ ~IsTaken(I, i) /\ c \in Base /\ ~Marks(u, c)
  /\ v \in Int /\ isDir \in BOOLEAN /\ (isDir => IsDir(I, v))
  /\ m2 = [m EXCEPT ![c] = v] /\ u2 = Marked(u, c)
  /\ I2 = [I EXCEPT ![i] = [refcnt |-> 1, info |-> c, size |-> 0, dir |-> isDir]]
  /\ C2 = [C EXCEPT ![i] = <<c>>]

BornFacts(m, u, I, C, m2, u2, I2, C2, i, c, v, isDir) ==
  /\ m2 \in [Addr -> Int] /\ m2[c] = v /\ u2 \subseteq Block
  /\ \A w \in Base : \A k \in 0 .. Mem : w # c => m2[w + k] = m[w + k]
  /\ \A w \in Base : w # c => m2[w] = m[w]
  /\ \A k \in 1 .. Mem : m2[c + k] = 0
  /\ \A w \in Base : Marks(u2, w) <=> Marks(u, w) \/ w = c
  /\ ~InChain(C, c) /\ \A w \in Base : InChain(C2, w) <=> InChain(C, w) \/ w = c
  /\ I2 \in Inodes /\ I2[i].info = c /\ IsTaken(I2, i) /\ (IsDir(I2, i) <=> isDir)
  /\ \A j \in Inode : j # i => I2[j] = I[j] /\ C2[j] = C[j]
  /\ \A j \in Inode : j # i => (IsTaken(I2, j) <=> IsTaken(I, j)) /\ (IsDir(I2, j) <=> IsDir(I, j))
  /\ C2 \in [Inode -> Seq(Base)] /\ C2[i] = <<c>> /\ C[i] = <<>>

LEMMA BornIs ==
  ASSUME NEW m, NEW u, NEW I, NEW C, NEW m2, NEW u2, NEW I2, NEW C2, NEW i, NEW c, NEW v, NEW isDir,
         Layout(m, u, I, C), Born(m, u, I, C, m2, u2, I2, C2, i, c, v, isDir)
  PROVE  BornFacts(m, u, I, C, m2, u2, I2, C2, i, c, v, isDir)
<1>1. i \in Inode /\ ~IsTaken(I, i) /\ c \in Base /\ ~Marks(u, c) /\ v \in Int /\ isDir \in BOOLEAN
  BY DEF Born
<1>2. m \in [Addr -> Int] /\ u \subseteq Block /\ I \in Inodes /\ C \in [Inode -> Seq(Base)] /\ C[i] = <<>>
  BY <1>1 DEF Layout
<1>3. 0 \in 0 .. Mem /\ c + 0 = c /\ c \in Addr /\ c \in Nat /\ Mem \in Nat
  BY <1>1, BaseIs, Numbers
<1>4. \A w \in Base : \A k \in 0 .. Mem : w + k = c => w = c /\ k = 0
  BY <1>1, <1>3, Apart
<1>5. \A w \in Base : \A k \in 0 .. Mem : w + k \in Addr
  BY BaseIs
<1>6. m2 \in [Addr -> Int] /\ m2[c] = v /\ \A x \in Addr : x # c => m2[x] = m[x]
  BY <1>1, <1>2, <1>3 DEF Born
<1>7. \A w \in Base : \A k \in 0 .. Mem : w # c => m2[w + k] = m[w + k]
  BY <1>4, <1>5, <1>6
<1>8. \A w \in Base : w # c => m2[w] = m[w]
  BY <1>3, <1>7, BaseIs
<1>9. ASSUME NEW k \in 1 .. Mem PROVE m2[c + k] = 0
  <2>1. k \in 0 .. Mem /\ k # 0
    BY <1>3
  <2>2. m[c + k] = 0
    BY <1>1, <2>1 DEF Layout
  <2> QED BY <1>1, <1>4, <1>5, <1>6, <2>1, <2>2
<1>10. u2 \subseteq Block /\ \A w \in Base : Marks(u2, w) <=> Marks(u, w) \/ w = c
  BY <1>1, <1>2, MarkedIs DEF Born
<1>11. ~InChain(C, c)
  BY <1>1 DEF Layout
<1>12. C2 \in [Inode -> Seq(Base)] /\ C2[i] = <<c>> /\ \A j \in Inode : j # i => C2[j] = C[j]
  BY <1>1, <1>2 DEF Born
<1>13. Len(C2[i]) = 1 /\ C2[i][1] = c
  BY <1>12
<1>14. ASSUME NEW w \in Base PROVE InChain(C2, w) <=> InChain(C, w) \/ w = c
  <2>1. w = c => InChain(C2, w)
    BY <1>1, <1>13 DEF InChain
  <2>2. InChain(C2, w) => InChain(C, w) \/ w = c
    BY <1>1, <1>12, <1>13 DEF InChain
  <2>3. InChain(C, w) => InChain(C2, w)
    <3> SUFFICES ASSUME NEW j \in Inode, NEW k \in 1 .. Len(C[j]), C[j][k] = w PROVE InChain(C2, w)
      BY DEF InChain
    <3>1. j # i
      BY <1>2
    <3> QED BY <1>12, <3>1 DEF InChain
  <2> QED BY <2>1, <2>2, <2>3
<1>15. I2 \in Inodes /\ I2[i] = [refcnt |-> 1, info |-> c, size |-> 0, dir |-> isDir]
       /\ \A j \in Inode : j # i => I2[j] = I[j]
  <2>1. [refcnt |-> 1, info |-> c, size |-> 0, dir |-> isDir]
          \in [refcnt : {0, 1}, info : Addr \cup {0}, size : 0 .. MaxSize, dir : BOOLEAN]
    BY <1>1, <1>3, Numbers
  <2> QED BY <1>1, <1>2, <2>1 DEF Born, Inodes
<1>16. I2[i].info = c /\ IsTaken(I2, i) /\ (IsDir(I2, i) <=> isDir)
  <2>1. I2[i].info = c /\ I2[i].refcnt = 1
    BY <1>15
  <2>2. I2[i].dir = isDir
    BY <1>1, <1>15
  <2> QED BY <1>1, <2>1, <2>2, Zenon DEF IsTaken, IsDir
<1>17. \A j \in Inode : j # i => (IsTaken(I2, j) <=> IsTaken(I, j)) /\ (IsDir(I2, j) <=> IsDir(I, j))
  BY <1>15, Zenon DEF IsTaken, IsDir
<1> QED BY <1>2, <1>6, <1>7, <1>8, <1>9, <1>10, <1>11, <1>12, <1>14, <1>15, <1>16, <1>17 DEF BornFacts

LEMMA BornLayout ==
  ASSUME NEW m, NEW u, NEW I, NEW C, NEW m2, NEW u2, NEW I2, NEW C2, NEW i, NEW c, NEW v, NEW isDir,
         Layout(m, u, I, C), Born(m, u, I, C, m2, u2, I2, C2, i, c, v, isDir)
  PROVE  Layout(m2, u2, I2, C2)
<1>1. BornFacts(m, u, I, C, m2, u2, I2, C2, i, c, v, isDir)
  BY BornIs
<1>2. i \in Inode /\ ~IsTaken(I, i) /\ c \in Base /\ ~Marks(u, c)
  BY DEF Born
<1>3. \A j \in Inode : ~IsTaken(I2, j) => C2[j] = <<>>
  BY <1>1 DEF Layout, BornFacts
<1>4. ASSUME NEW j \in Inode, IsTaken(I2, j) PROVE Chained(m2, C2[j]) /\ C2[j][1] = I2[j].info
  <2>1. CASE j = i
    <3>1. Mem \in 1 .. Mem
      BY Numbers
    <3>2. m2[c + Mem] = 0 /\ C2[i] = <<c>> /\ I2[i].info = c
      BY <1>1, <3>1 DEF BornFacts
    <3> QED BY <1>2, <2>1, <3>2 DEF Chained
  <2>2. CASE j # i
    <3>1. Chained(m, C[j]) /\ C[j][1] = I[j].info /\ C2[j] = C[j] /\ I2[j] = I[j]
      BY <1>1, <1>4, <2>2 DEF Layout, BornFacts
    <3>2. \A k \in 1 .. Len(C[j]) : C[j][k] \in Base /\ C[j][k] # c
      BY <1>1, <3>1 DEF Chained, BornFacts, InChain
    <3>3. Mem \in 0 .. Mem
      BY Numbers
    <3>4. \A k \in 1 .. Len(C[j]) : m2[C[j][k] + Mem] = m[C[j][k] + Mem]
      BY <1>1, <3>2, <3>3 DEF BornFacts
    <3> QED BY <3>1, <3>4 DEF Chained
  <2> QED BY <2>1, <2>2
<1>5. ASSUME NEW j \in Inode, IsDir(I2, j) PROVE Len(C2[j]) = 1
  <2>1. CASE j = i
    <3>1. C2[i] = <<c>>
      BY <1>1 DEF BornFacts
    <3> QED BY <2>1, <3>1
  <2>2. CASE j # i
    <3>1. C2[j] = C[j] /\ IsDir(I, j)
      BY <1>1, <1>5, <2>2 DEF BornFacts
    <3> QED BY <3>1, SlotIs
  <2> QED BY <2>1, <2>2
<1>6. ASSUME NEW j \in Inode, NEW l \in Inode, NEW x \in 1 .. Len(C2[j]), NEW y \in 1 .. Len(C2[l]), C2[j][x] = C2[l][y]
      PROVE  j = l /\ x = y
  <2>1. C2[i] = <<c>> /\ \A k \in Inode : k # i => C2[k] = C[k]
    BY <1>1 DEF BornFacts
  <2>2. \A k \in Inode : \A z \in 1 .. Len(C[k]) : C[k][z] # c
    BY <1>1 DEF InChain, BornFacts
  <2>3. CASE j = i
    <3>1. l = i
      BY <1>6, <2>1, <2>2, <2>3
    <3>2. Len(C2[j]) = 1 /\ Len(C2[l]) = 1
      BY <2>1, <2>3, <3>1
    <3> QED BY <2>3, <3>1, <3>2
  <2>4. CASE j # i
    <3>1. l # i
      BY <1>6, <2>1, <2>2, <2>4
    <3> QED BY <1>6, <2>1, <2>4, <3>1 DEF Layout
  <2> QED BY <2>3, <2>4
<1>7. \A w \in Base : InChain(C2, w) => Marks(u2, w)
  BY <1>1 DEF Layout, BornFacts
<1>8. \A w \in Base : ~Marks(u2, w) => \A k \in 0 .. Mem : m2[w + k] = 0
  BY <1>1 DEF Layout, BornFacts
<1>9. m2 \in [Addr -> Int] /\ u2 \subseteq Block /\ I2 \in Inodes /\ C2 \in [Inode -> Seq(Base)]
  BY <1>1 DEF BornFacts
<1> QED BY <1>3, <1>4, <1>5, <1>6, <1>7, <1>8, <1>9 DEF Layout

LEMMA BornKeeps ==
  ASSUME NEW m, NEW u, NEW I, NEW C, NEW m2, NEW u2, NEW I2, NEW C2, NEW i, NEW c, NEW v, NEW isDir,
         Layout(m, u, I, C), Born(m, u, I, C, m2, u2, I2, C2, i, c, v, isDir)
  PROVE  Keeps(m, u, I, C, m2, u2, I2, C2)
<1>1. BornFacts(m, u, I, C, m2, u2, I2, C2, i, c, v, isDir)
  BY BornIs
<1>2. i \in Inode /\ ~IsTaken(I, i) /\ c \in Base /\ ~Marks(u, c) /\ (isDir => IsDir(I, v))
  BY DEF Born
<1>3. \A j \in Inode : IsTaken(I, j) => j # i
  BY <1>2
<1>4. \A j \in Inode : IsTaken(I, j) => IsTaken(I2, j)
  BY <1>1, <1>3 DEF BornFacts
<1>5. ASSUME NEW d \in Inode, IsDir(I, d)
      PROVE  /\ IsDir(I2, d) /\ I2[d].info = I[d].info
             /\ \A k \in 0 .. Mem - 1 : m2[I[d].info + k] = m[I[d].info + k]
  <2>1. I[d].info \in Base /\ I[d].info # c
    BY <1>2, <1>5, SlotIs
  <2>2. d # i
    BY <1>3, <1>5 DEF IsDir
  <2>3. \A k \in 0 .. Mem - 1 : k \in 0 .. Mem
    BY Numbers
  <2> QED BY <1>1, <1>5, <2>1, <2>2, <2>3 DEF BornFacts
<1>6. ASSUME NEW d \in Inode, IsDir(I2, d), ~IsDir(I, d)
      PROVE  IsDir(I2, m2[I2[d].info]) /\ \A a \in Slots(I2, d) : m2[a] = 0
  <2>1. d = i /\ isDir
    BY <1>1, <1>6 DEF BornFacts
  <2>2. I2[d].info = c /\ m2[c] = v
    BY <1>1, <2>1 DEF BornFacts
  <2>3. IsDir(I2, v)
    BY <1>2, <1>5, <2>1 DEF IsDir, IsTaken
  <2>4. \A k \in 1 .. Mem - 1 : k \in 1 .. Mem
    BY Numbers
  <2>5. \A a \in Slots(I2, d) : m2[a] = 0
    BY <1>1, <2>2, <2>4 DEF Slots, BornFacts
  <2> QED BY <2>2, <2>3, <2>5
<1>7. ASSUME NEW w \in Base, Marks(u, w), ~InChain(C, w)
      PROVE  m2[w] = m[w] /\ m2[w + 1] = m[w + 1] /\ ~InChain(C2, w)
  <2>1. w # c /\ 1 \in 0 .. Mem
    BY <1>2, <1>7, Numbers
  <2> QED BY <1>1, <1>7, <2>1 DEF BornFacts
<1>8. \A w \in Base : Marks(u, w) => Marks(u2, w)
  BY <1>1 DEF BornFacts
<1> QED BY <1>4, <1>5, <1>6, <1>7, <1>8 DEF Keeps

\* The chain of the file i is c2: it was the beginning of c2, and the rest was not
\* marked.  No other block has changed.
Grows(m, u, I, C, m2, u2, i, c2) ==
  /\ i \in Inode /\ IsTaken(I, i) /\ ~IsDir(I, i)
  /\ m2 \in [Addr -> Int] /\ u2 \subseteq Block
  /\ Chained(m2, c2) /\ Len(c2) >= Len(C[i])
  /\ \A k \in 1 .. Len(C[i]) : c2[k] = C[i][k]
  /\ \A k \in 1 .. Len(c2) : k > Len(C[i]) => ~Marks(u, c2[k])
  /\ \A k, l \in 1 .. Len(c2) : c2[k] = c2[l] => k = l
  /\ \A w \in Base : Marks(u2, w) <=> Marks(u, w) \/ \E k \in 1 .. Len(c2) : c2[k] = w
  /\ \A w \in Base : (\A k \in 1 .. Len(c2) : c2[k] # w) => \A k \in 0 .. Mem : m2[w + k] = m[w + k]

GrownFacts(m, u, I, C, m2, c2, i) ==
  /\ \A j \in Inode : \A k \in 1 .. Len(C[j]) : j # i => \A l \in 1 .. Len(c2) : c2[l] # C[j][k]
  /\ \A j \in Inode : j # i => \A k \in 1 .. Len(C[j]) : \A r \in 0 .. Mem : m2[C[j][k] + r] = m[C[j][k] + r]
  /\ \A w \in Base : Marks(u, w) /\ ~InChain(C, w) => \A k \in 1 .. Len(c2) : c2[k] # w

LEMMA GrownIs ==
  ASSUME NEW m, NEW u, NEW I, NEW C, NEW m2, NEW u2, NEW i, NEW c2,
         Layout(m, u, I, C), Grows(m, u, I, C, m2, u2, i, c2)
  PROVE  GrownFacts(m, u, I, C, m2, c2, i)
<1>1. i \in Inode /\ c2 \in Seq(Base) /\ Len(C[i]) \in Nat /\ Len(c2) \in Nat
  BY DEF Grows, Chained, Layout
<1>2. ASSUME NEW j \in Inode, NEW k \in 1 .. Len(C[j]), j # i, NEW l \in 1 .. Len(c2), c2[l] = C[j][k]
      PROVE  FALSE
  <2>1. C[j][k] \in Base /\ InChain(C, C[j][k])
    BY DEF Layout, InChain
  <2>2. Marks(u, c2[l])
    BY <1>2, <2>1 DEF Layout
  <2>3. l \in 1 .. Len(C[i]) /\ c2[l] = C[i][l]
    BY <1>1, <2>2 DEF Grows
  <2>4. C[i][l] = C[j][k]
    BY <1>2, <2>3
  <2> QED BY <1>1, <1>2, <2>3, <2>4 DEF Layout
<1>3. \A j \in Inode : j # i => \A k \in 1 .. Len(C[j]) : \A r \in 0 .. Mem : m2[C[j][k] + r] = m[C[j][k] + r]
  <2>1. \A j \in Inode : \A k \in 1 .. Len(C[j]) : C[j][k] \in Base
    BY DEF Layout
  <2> QED BY <1>2, <2>1 DEF Grows
<1>4. ASSUME NEW w \in Base, Marks(u, w), ~InChain(C, w), NEW k \in 1 .. Len(c2), c2[k] = w PROVE FALSE
  <2>1. k \in 1 .. Len(C[i]) /\ c2[k] = C[i][k]
    BY <1>1, <1>4 DEF Grows
  <2> QED BY <1>1, <1>4, <2>1 DEF InChain
<1> QED BY <1>2, <1>3, <1>4 DEF GrownFacts

LEMMA GrownLayout ==
  ASSUME NEW m, NEW u, NEW I, NEW C, NEW m2, NEW u2, NEW i, NEW c2,
         Layout(m, u, I, C), Grows(m, u, I, C, m2, u2, i, c2)
  PROVE  Layout(m2, u2, I, [C EXCEPT ![i] = c2])
<1> DEFINE C2 == [C EXCEPT ![i] = c2]
<1>1. GrownFacts(m, u, I, C, m2, c2, i)
  BY GrownIs
<1>2. i \in Inode /\ IsTaken(I, i) /\ ~IsDir(I, i) /\ c2 \in Seq(Base) /\ C \in [Inode -> Seq(Base)] /\ Chained(m2, c2)
  BY DEF Grows, Chained, Layout
<1>3. C2 \in [Inode -> Seq(Base)] /\ C2[i] = c2 /\ \A j \in Inode : j # i => C2[j] = C[j]
  BY <1>2
<1> HIDE DEF C2
<1>4. \A j \in Inode : ~IsTaken(I, j) => C2[j] = <<>>
  BY <1>2, <1>3 DEF Layout
<1>5. ASSUME NEW j \in Inode, IsTaken(I, j) PROVE Chained(m2, C2[j]) /\ C2[j][1] = I[j].info
  <2>1. Chained(m, C[j]) /\ C[j][1] = I[j].info
    BY <1>5 DEF Layout
  <2>2. CASE j = i
    <3>1. 1 \in 1 .. Len(C[i])
      BY <2>1, <2>2 DEF Chained
    <3>2. c2[1] = C[i][1]
      BY <3>1 DEF Grows
    <3> QED BY <1>2, <1>3, <2>1, <2>2, <3>2
  <2>3. CASE j # i
    <3>1. Mem \in 0 .. Mem
      BY Numbers
    <3>2. \A k \in 1 .. Len(C[j]) : m2[C[j][k] + Mem] = m[C[j][k] + Mem]
      BY <1>1, <2>3, <3>1 DEF GrownFacts
    <3> QED BY <1>3, <2>1, <2>3, <3>2 DEF Chained
  <2> QED BY <2>2, <2>3
<1>6. \A j \in Inode : IsDir(I, j) => Len(C2[j]) = 1
  BY <1>2, <1>3 DEF Layout
<1>7. ASSUME NEW j \in Inode, NEW l \in Inode, NEW x \in 1 .. Len(C2[j]), NEW y \in 1 .. Len(C2[l]), C2[j][x] = C2[l][y]
      PROVE  j = l /\ x = y
  <2>1. j = i <=> l = i
    BY <1>1, <1>3, <1>7 DEF GrownFacts
  <2>2. CASE j = i
    BY <1>3, <1>7, <2>1, <2>2 DEF Grows
  <2>3. CASE j # i
    BY <1>3, <1>7, <2>1, <2>3 DEF Layout
  <2> QED BY <2>2, <2>3
<1>8. ASSUME NEW w \in Base, InChain(C2, w) PROVE Marks(u2, w)
  <2>1. PICK j \in Inode : \E k \in 1 .. Len(C2[j]) : C2[j][k] = w
    BY <1>8 DEF InChain
  <2>2. CASE j = i
    BY <1>3, <2>1, <2>2 DEF Grows
  <2>3. CASE j # i
    <3>1. InChain(C, w)
      BY <1>3, <2>1, <2>3 DEF InChain
    <3> QED BY <3>1 DEF Layout, Grows
  <2> QED BY <2>2, <2>3
<1>9. ASSUME NEW w \in Base, ~Marks(u2, w) PROVE \A k \in 0 .. Mem : m2[w + k] = 0
  <2>1. ~Marks(u, w) /\ \A k \in 1 .. Len(c2) : c2[k] # w
    BY <1>9 DEF Grows
  <2> QED BY <2>1 DEF Grows, Layout
<1>10. m2 \in [Addr -> Int] /\ u2 \subseteq Block /\ I \in Inodes
  BY DEF Grows, Layout
<1>11. Layout(m2, u2, I, C2)
  BY <1>3, <1>4, <1>5, <1>6, <1>7, <1>8, <1>9, <1>10 DEF Layout
<1> QED BY <1>11 DEF C2

LEMMA GrownKeeps ==
  ASSUME NEW m, NEW u, NEW I, NEW C, NEW m2, NEW u2, NEW i, NEW c2,
         Layout(m, u, I, C), Grows(m, u, I, C, m2, u2, i, c2)
  PROVE  Keeps(m, u, I, C, m2, u2, I, [C EXCEPT ![i] = c2])
<1> DEFINE C2 == [C EXCEPT ![i] = c2]
<1>1. GrownFacts(m, u, I, C, m2, c2, i)
  BY GrownIs
<1>2. i \in Inode /\ ~IsDir(I, i) /\ C \in [Inode -> Seq(Base)]
  BY DEF Grows, Layout
<1>3. C2[i] = c2 /\ \A j \in Inode : j # i => C2[j] = C[j]
  BY <1>2
<1> HIDE DEF C2
<1>4. ASSUME NEW d \in Inode, IsDir(I, d), NEW k \in 0 .. Mem - 1 PROVE m2[I[d].info + k] = m[I[d].info + k]
  <2>1. k \in 0 .. Mem /\ d # i
    BY <1>2, <1>4, Numbers
  <2>2. I[d].info = C[d][1]
    BY <1>4, SlotIs
  <2>3. 1 \in 1 .. Len(C[d])
    BY <1>4, SlotIs
  <2> QED BY <1>1, <2>1, <2>2, <2>3 DEF GrownFacts
<1>5. ASSUME NEW w \in Base, Marks(u, w), ~InChain(C, w)
      PROVE  m2[w] = m[w] /\ m2[w + 1] = m[w + 1] /\ ~InChain(C2, w)
  <2>1. \A k \in 1 .. Len(c2) : c2[k] # w
    BY <1>1, <1>5 DEF GrownFacts
  <2>2. 0 \in 0 .. Mem /\ 1 \in 0 .. Mem /\ w + 0 = w
    BY BaseIs, Numbers
  <2>3. m2[w] = m[w] /\ m2[w + 1] = m[w + 1]
    BY <2>1, <2>2 DEF Grows
  <2>4. ~InChain(C2, w)
    BY <1>3, <1>5, <2>1 DEF InChain
  <2> QED BY <2>3, <2>4
<1>6. \A w \in Base : Marks(u, w) => Marks(u2, w)
  BY DEF Grows
<1>7. Keeps(m, u, I, C, m2, u2, I, C2)
  BY <1>4, <1>5, <1>6 DEF Keeps
<1> QED BY <1>7 DEF C2

-----------------------------------------------------------------------------
(* Recursive functions                                                         *)

Solves(n, x, g, f) == f = [k \in 0 .. n |-> IF k = 0 THEN x ELSE g[<<k, f[k - 1]>>]]

\* A recursion whose k-th value stays in D[k] has a solution.
LEMMA Recursion ==
  ASSUME NEW n \in Nat, NEW D, NEW x \in D[0], NEW g,
         \A k \in 1 .. n : \A y \in D[k - 1] : g[<<k, y>>] \in D[k]
  PROVE  \E f : Solves(n, x, g, f) /\ \A k \in 0 .. n : f[k] \in D[k]
<1> USE DEF Solves
<1> DEFINE Eq(f, j) == /\ Solves(j, x, g, f)
                       /\ \A k \in 0 .. j : f[k] \in D[k]
           T == {j \in Nat : j <= n => \E f : Eq(f, j)}
<1>1. 0 \in T
  <2>1. Eq([i \in 0 .. 0 |-> x], 0)
    OBVIOUS
  <2> QED BY <2>1
<1>2. ASSUME NEW j \in Nat, j \in T PROVE j + 1 \in T
  <2> SUFFICES ASSUME j + 1 <= n PROVE \E f : Eq(f, j + 1)
    OBVIOUS
  <2>1. PICK f : Eq(f, j)
    BY <1>2
  <2> DEFINE e == g[<<j + 1, f[j]>>]
             h == [i \in 0 .. j + 1 |-> IF i = j + 1 THEN e ELSE f[i]]
  <2>2. e \in D[j + 1]
    <3>1. j + 1 \in 1 .. n /\ (j + 1) - 1 = j /\ f[j] \in D[j]
      BY <2>1
    <3> QED BY <3>1
  <2> HIDE DEF e
  <2>3. ASSUME NEW i \in 0 .. j + 1
        PROVE  h[i] = (IF i = 0 THEN x ELSE g[<<i, h[i - 1]>>]) /\ h[i] \in D[i]
    <3>1. CASE i = j + 1
      <4>1. i - 1 = j /\ i # 0 /\ h[i] = e /\ h[j] = f[j]
        BY <3>1
      <4> HIDE DEF h
      <4> QED BY <2>2, <3>1, <4>1 DEF e
    <3>2. CASE i # j + 1
      <4>1. i \in 0 .. j /\ h[i] = f[i] /\ (i # 0 => i - 1 \in 0 .. j /\ h[i - 1] = f[i - 1])
        BY <3>2
      <4> HIDE DEF h
      <4>2. f[i] = (IF i = 0 THEN x ELSE g[<<i, f[i - 1]>>]) /\ f[i] \in D[i]
        BY <2>1, <4>1
      <4> QED BY <4>1, <4>2
    <3> QED BY <3>1, <3>2
  <2>4. h = [i \in 0 .. j + 1 |-> h[i]]
    OBVIOUS
  <2> HIDE DEF h
  <2>5. Eq(h, j + 1)
    BY <2>3, <2>4
  <2> QED BY <2>5
<1> HIDE DEF T
<1>3. n \in T
  BY <1>1, <1>2, Induction
<1> QED BY <1>3 DEF T

\* What every step keeps holds of every value.
LEMMA Runs ==
  ASSUME NEW n \in Nat, NEW D, NEW h, h[0] \in D[0],
         \A k \in 1 .. n : h[k - 1] \in D[k - 1] => h[k] \in D[k]
  PROVE  \A k \in 0 .. n : h[k] \in D[k]
<1> DEFINE T == {j \in Nat : j <= n => h[j] \in D[j]}
<1>1. 0 \in T
  OBVIOUS
<1>2. ASSUME NEW j \in Nat, j \in T PROVE j + 1 \in T
  <2> SUFFICES ASSUME j + 1 <= n PROVE h[j + 1] \in D[j + 1]
    OBVIOUS
  <2>1. h[j] \in D[j] /\ j + 1 \in 1 .. n /\ (j + 1) - 1 = j
    BY <1>2
  <2> QED BY <2>1
<1> HIDE DEF T
<1>3. \A k \in Nat : k \in T
  BY <1>1, <1>2, Induction
<1> QED BY <1>3 DEF T

-----------------------------------------------------------------------------
(* Entries and paths                                                           *)

EntryKind(d, n, e) ==
  \/ /\ e = NULL
     /\ \A a \in Slots(inode, d) : mem[a] # 0 /\ (Filled(mem, a) => mem[mem[a] + 1] # n)
  \/ /\ e \in Slots(inode, d) /\ e # NULL /\ mem[e] = 0
     /\ \A a \in Slots(inode, d) : a < e => mem[a] # 0
     /\ \A a \in Slots(inode, d) : Filled(mem, a) => mem[mem[a] + 1] # n
  \/ /\ e \in Slots(inode, d) /\ e # NULL /\ Filled(mem, e) /\ mem[mem[e] + 1] = n

LEMMA EntryIs ==
  ASSUME NEW C, Layout(mem, used, inode, C), Directories(mem, used, inode, C, tree),
         NEW d, IsDir(inode, d), NEW n
  PROVE  EntryKind(d, n, Entry(d, n))
<1> DEFINE S == Slots(inode, d)
           Z == {a \in S : mem[a] = 0 \/ (mem[a] # Wipe /\ mem[mem[a] + 1] = n)}
<1>1. S \subseteq Nat /\ d \in Inode
  BY SlotIs
<1>2. NULL \notin Nat
  BY Numbers
<1>3. Entry(d, n) = IF Z = {} THEN NULL ELSE Least(Z)
  BY DEF Entry, Slots
<1>4. CASE Z = {}
  BY <1>3, <1>4 DEF EntryKind, Filled
<1>5. CASE Z # {}
  <2> DEFINE e == Least(Z)
  <2>1. e \in Z /\ \A a \in Z : e <= a
    <3> HIDE DEF S
    <3>1. Z \subseteq Nat
      BY <1>1
    <3> HIDE DEF Z
    <3> QED BY <1>5, <3>1, LeastIs
  <2> HIDE DEF e
  <2>2. Entry(d, n) = e
    BY <1>3, <1>5 DEF e
  <2>3. e \in S /\ e # NULL /\ (mem[e] = 0 \/ (mem[e] # Wipe /\ mem[mem[e] + 1] = n))
    BY <1>1, <1>2, <2>1
  <2>4. \A a \in S : a < e => mem[a] # 0 /\ (mem[a] # Wipe => mem[mem[a] + 1] # n)
    BY <1>1, <2>1, <2>3
  <2>5. CASE mem[e] = 0
    <3>1. \A a \in S : e < a => mem[a] = 0
      BY <1>1, <2>3, <2>5 DEF Directories
    <3>2. \A a \in S : Filled(mem, a) => mem[mem[a] + 1] # n
      <4> SUFFICES ASSUME NEW a \in S, Filled(mem, a) PROVE mem[mem[a] + 1] # n
        OBVIOUS
      <4>1. a < e
        BY <1>1, <2>3, <2>5, <3>1 DEF Filled
      <4> QED BY <2>4, <4>1 DEF Filled
    <3> QED BY <2>2, <2>3, <2>4, <2>5, <3>2 DEF EntryKind
  <2>6. CASE mem[e] # 0
    BY <2>2, <2>3, <2>6 DEF EntryKind, Filled
  <2> QED BY <2>5, <2>6
<1> QED BY <1>4, <1>5

\* What the lookup of a path comes to.
Results == {Found(i) : i \in {j \in Inode : IsTaken(inode, j)}}
             \cup {[is |-> "none"], [is |-> "over"]}
             \cup {r \in [is : {"absent"}, dir : Inode, slot : Addr, name : Name] :
                     /\ IsDir(inode, r.dir) /\ r.slot = Entry(r.dir, r.name)
                     /\ r.slot \in Slots(inode, r.dir) /\ mem[r.slot] = 0}

LEMMA FoundIs ==
  /\ \A r \in Results : r.is = "found" => IsTaken(inode, r.id) /\ r = Found(r.id) /\ r.id \in Inode
  /\ \A r \in Results : r.is = "absent" =>
       /\ IsDir(inode, r.dir) /\ r.dir \in Inode /\ r.slot = Entry(r.dir, r.name) /\ r.name \in Name
       /\ r.slot \in Slots(inode, r.dir) /\ mem[r.slot] = 0
BY DEF Results, Found

LEMMA OnwardIs ==
  ASSUME NEW C, Layout(mem, used, inode, C), Directories(mem, used, inode, C, tree),
         NEW r \in Results, NEW n \in Name \cup {UP}, NEW last
  PROVE  Onward(r, n, last) \in Results
<1>1. CASE r.is # "found"
  BY <1>1 DEF Onward
<1>2. CASE r.is = "found" /\ ~inode[r.id].dir
  BY <1>2 DEF Onward, Results
<1>3. CASE r.is = "found" /\ inode[r.id].dir
  <2>1. IsDir(inode, r.id) /\ r.id \in Inode
    BY <1>3, FoundIs DEF IsDir
  <2>2. CASE n = UP
    <3>1. IsTaken(inode, mem[inode[r.id].info]) /\ mem[inode[r.id].info] \in Inode
      BY <2>1 DEF Directories, IsDir, IsTaken
    <3>2. Onward(r, n, last) = Found(IF r.id = 0 THEN 0 ELSE mem[inode[r.id].info])
      BY <1>3, <2>2 DEF Onward
    <3>3. CASE r.id = 0
      BY <2>1, <3>2, <3>3 DEF Results, IsDir
    <3>4. CASE r.id # 0
      BY <3>1, <3>2, <3>4 DEF Results
    <3> QED BY <3>3, <3>4
  <2>3. CASE n # UP
    <3> DEFINE a == Entry(r.id, n)
    <3>1. EntryKind(r.id, n, a)
      BY <2>1, EntryIs
    <3>2. Onward(r, n, last) = IF a = NULL THEN [is |-> "over"]
             ELSE IF mem[a] # 0 THEN Found(mem[mem[a]])
             ELSE IF last THEN [is |-> "absent", dir |-> r.id, slot |-> a, name |-> n]
             ELSE [is |-> "none"]
      BY <1>3, <2>3 DEF Onward
    <3>3. a # NULL => a \in Slots(inode, r.id) /\ a \in Addr
      BY <2>1, <3>1, SlotIs DEF EntryKind
    <3>4. a # NULL /\ mem[a] # 0 => IsTaken(inode, mem[mem[a]]) /\ mem[mem[a]] \in Inode
      <4> SUFFICES ASSUME a # NULL, mem[a] # 0 PROVE IsTaken(inode, mem[mem[a]]) /\ mem[mem[a]] \in Inode
        OBVIOUS
      <4>1. Filled(mem, a)
        BY <3>1 DEF EntryKind
      <4>2. Named(mem, used, inode, C, tree, r.id, a)
        BY <2>1, <3>3, <4>1 DEF Directories
      <4> QED BY <4>2 DEF Named, IsTaken
    <3>5. n \in Name
      BY <2>3
    <3>6. a # NULL /\ mem[a] = 0 => [is |-> "absent", dir |-> r.id, slot |-> a, name |-> n] \in Results
      BY <2>1, <3>3, <3>5 DEF Results
    <3> HIDE DEF a
    <3> QED BY <3>2, <3>4, <3>6 DEF Results
  <2> QED BY <2>2, <2>3
<1> QED BY <1>1, <1>2, <1>3

AlongIs(d, path, f) ==
  f = [k \in 0 .. Len(path) |-> IF k = 0 THEN Found(d) ELSE Onward(f[k - 1], path[k], k = Len(path))]

LEMMA LookupAlong ==
  ASSUME NEW C, Layout(mem, used, inode, C), Directories(mem, used, inode, C, tree),
         NEW d, IsTaken(inode, d), NEW path \in Seq(Name \cup {UP})
  PROVE  \E f : /\ AlongIs(d, path, f) /\ Lookup(d, path) = f[Len(path)]
                /\ \A k \in 0 .. Len(path) : f[k] \in Results
<1> DEFINE n == Len(path)
           D == [k \in 0 .. n |-> Results]
           g == [kx \in (1 .. n) \X Results |-> Onward(kx[2], path[kx[1]], kx[1] = n)]
<1>1. n \in Nat /\ \A k \in 1 .. n : path[k] \in Name \cup {UP}
  OBVIOUS
<1>2. Found(d) \in Results
  BY DEF Results, IsTaken
<1> HIDE DEF n
<1>3. \A k \in 1 .. n : \A y \in Results : g[<<k, y>>] = Onward(y, path[k], k = n)
  OBVIOUS
<1>4. \A k \in 1 .. n : \A y \in Results : Onward(y, path[k], k = n) \in Results
  BY <1>1, OnwardIs
<1>5. ASSUME NEW k \in 1 .. n, NEW y \in D[k - 1] PROVE g[<<k, y>>] \in D[k]
  <2>1. D[k] = Results /\ D[k - 1] = Results
    BY <1>1
  <2>2. y \in Results
    BY <2>1
  <2> HIDE DEF g, D
  <2>3. g[<<k, y>>] = Onward(y, path[k], k = n)
    BY <1>3, <2>2
  <2>4. Onward(y, path[k], k = n) \in Results
    BY <1>4, <2>2
  <2> QED BY <2>1, <2>3, <2>4, Zenon
<1>6. Found(d) \in D[0]
  BY <1>1, <1>2
<1> HIDE DEF g
<1>7. PICK f : /\ Solves(n, Found(d), g, f)
               /\ \A k \in 0 .. n : f[k] \in D[k]
  <2> HIDE DEF D
  <2> QED BY <1>1, <1>5, <1>6, Recursion
<1>8. \A k \in 0 .. n : k # 0 => k \in 1 .. n /\ f[k - 1] \in Results
  BY <1>1, <1>7
<1>9. [k \in 0 .. n |-> IF k = 0 THEN Found(d) ELSE g[<<k, f[k - 1]>>]]
        = [k \in 0 .. n |-> IF k = 0 THEN Found(d) ELSE Onward(f[k - 1], path[k], k = n)]
  BY <1>3, <1>8
<1>10. AlongIs(d, path, f)
  BY <1>7, <1>9 DEF AlongIs, n, Solves
<1> DEFINE h == CHOOSE at : AlongIs(d, path, at)
<1>11. AlongIs(d, path, h)
  BY <1>10
<1>12. Lookup(d, path) = h[Len(path)]
  BY Zenon DEF Lookup, h, AlongIs
<1> HIDE DEF h
<1>13. h[0] \in D[0]
  BY <1>1, <1>2, <1>11 DEF AlongIs, n
<1>14. \A k \in 1 .. n : h[k] = Onward(h[k - 1], path[k], k = n)
  BY <1>1, <1>11 DEF AlongIs, n
<1>15. \A k \in 1 .. n : h[k - 1] \in D[k - 1] => h[k] \in D[k]
  BY <1>1, <1>4, <1>14
<1>16. \A k \in 0 .. n : h[k] \in D[k]
  <2> HIDE DEF D
  <2> QED BY <1>1, <1>13, <1>15, Runs
<1> QED BY <1>11, <1>12, <1>16 DEF n

LEMMA LookupIs ==
  ASSUME NEW C, Layout(mem, used, inode, C), Directories(mem, used, inode, C, tree),
         NEW d, IsTaken(inode, d), NEW path \in Seq(Name \cup {UP})
  PROVE  Lookup(d, path) \in Results
<1>1. PICK f : Lookup(d, path) = f[Len(path)] /\ \A k \in 0 .. Len(path) : f[k] \in Results
  BY LookupAlong
<1>2. Len(path) \in 0 .. Len(path)
  OBVIOUS
<1> QED BY <1>1, <1>2

-----------------------------------------------------------------------------
(* Positions of a file                                                         *)

\* The address a is that of position pos, the end of a block for the block's.
Position(c, pos, a) ==
  \E j \in 1 .. Len(c), r \in 0 .. Mem :
    a = c[j] + r /\ pos = Place(j, r) /\ (r = 0 => pos = 0)

LEMMA FindIs ==
  ASSUME NEW c, Chained(mem, c), NEW pos \in Nat, pos <= Mem * Len(c)
  PROVE  Position(c, pos, FindBlock(c[1], pos))
<1> DEFINE n == IF pos = 0 THEN 0 ELSE (pos - 1) \div Mem
           r == pos - n * Mem
<1>1. Len(c) \in Nat /\ Len(c) >= 1 /\ Mem \in Nat /\ Mem >= 2
  BY Numbers DEF Chained
<1>2. n \in Nat /\ n < Len(c) /\ r \in 0 .. Mem /\ (r = 0 => pos = 0)
  <2>1. CASE pos = 0
    BY <1>1, <2>1
  <2>2. CASE pos # 0
    <3> DEFINE q == (pos - 1) \div Mem
               s == (pos - 1) % Mem
    <3>1. q \in Nat /\ s \in 0 .. Mem - 1 /\ pos - 1 = q * Mem + s
      BY <1>1, <2>2
    <3> HIDE DEF q, s
    <3>2. q * Mem < Mem * Len(c)
      BY <1>1, <3>1
    <3>3. q < Len(c)
      BY <1>1, <3>1, <3>2
    <3>4. pos - q * Mem = s + 1
      BY <1>1, <3>1
    <3>5. n = q
      BY <2>2 DEF q
    <3> QED BY <1>1, <3>1, <3>3, <3>4, <3>5
  <2> QED BY <2>1, <2>2
<1> HIDE DEF n
<1> DEFINE D == [k \in 0 .. n |-> {c[k + 1]}]
           g == [kx \in (1 .. n) \X Base |-> Word(kx[2] + Mem)]
<1>3. \A k \in 1 .. n : k \in 1 .. Len(c) /\ k # Len(c) /\ c[k] \in Base /\ c[k + 1] \in Base
  BY <1>1, <1>2 DEF Chained
<1>4. \A w \in Base : w + Mem \in Addr
  BY BaseIs, <1>1
<1>5. \A k \in 1 .. n : Word(c[k] + Mem) = c[k + 1]
  BY <1>3, <1>4 DEF Word, Chained
<1>6. \A k \in 1 .. n : g[<<k, c[k]>>] = c[k + 1]
  BY <1>3, <1>5
<1>7. \A k \in 1 .. n : D[k] = {c[k + 1]} /\ D[k - 1] = {c[k]}
  BY <1>2
<1>8. D[0] = {c[1]} /\ D[n] = {c[n + 1]}
  BY <1>2
<1> HIDE DEF g, D
<1>9. ASSUME NEW k \in 1 .. n, NEW y \in D[k - 1] PROVE g[<<k, y>>] \in D[k]
  BY <1>6, <1>7
<1>10. c[1] \in D[0]
  BY <1>8
<1>11. PICK f : Solves(n, c[1], g, f) /\ \A k \in 0 .. n : f[k] \in D[k]
  BY <1>2, <1>9, <1>10, Recursion
<1> DEFINE Eq(h) == h = [k \in 0 .. n |-> IF k = 0 THEN c[1] ELSE Word(h[k - 1] + Mem)]
<1>12. ASSUME NEW k \in 0 .. n PROVE f[k] = IF k = 0 THEN c[1] ELSE Word(f[k - 1] + Mem)
  <2>1. f[k] \in D[k]
    BY <1>11
  <2>2. CASE k = 0
    BY <1>8, <2>1, <2>2
  <2>3. CASE k # 0
    <3>1. k \in 1 .. n /\ k - 1 \in 0 .. n
      BY <1>2, <2>3
    <3>2. f[k - 1] = c[k] /\ f[k] = c[k + 1]
      BY <1>7, <1>11, <2>1, <3>1
    <3> QED BY <1>5, <2>3, <3>1, <3>2
  <2> QED BY <2>2, <2>3
<1>13. f = [k \in 0 .. n |-> f[k]]
  BY <1>11 DEF Solves
<1>14. Eq(f)
  BY <1>12, <1>13
<1> DEFINE h == CHOOSE base : Eq(base)
<1>15. Eq(h)
  <2> HIDE DEF Eq
  <2> QED BY <1>14
<1>16. FindBlock(c[1], pos) = h[n] + (pos - n * Mem)
  BY Zenon DEF FindBlock, h, n
<1> HIDE DEF h
<1>17. h[0] \in D[0]
  BY <1>2, <1>10, <1>15
<1>18. ASSUME NEW k \in 1 .. n, h[k - 1] \in D[k - 1] PROVE h[k] \in D[k]
  <2>1. h[k] = Word(h[k - 1] + Mem)
    BY <1>2, <1>15
  <2> QED BY <1>5, <1>7, <1>18, <2>1
<1>19. \A k \in 0 .. n : h[k] \in D[k]
  BY <1>2, <1>17, <1>18, Runs
<1>20. h[n] = c[n + 1]
  BY <1>2, <1>8, <1>19
<1>21. n + 1 \in 1 .. Len(c) /\ (n + 1) - 1 = n /\ pos = n * Mem + r
  BY <1>1, <1>2
<1> QED BY <1>2, <1>16, <1>20, <1>21 DEF Position, Place

\* The positions' words are in the blocks they were in, where the file is not empty.
Unread(m, I, C, m2, I2, C2, t) ==
  /\ \A i \in Inode : I2[i].size = I[i].size
  /\ \A i \in Inode : IsDir(I2, i) => Len(t[i]) = 0
  /\ \A i \in Inode : Len(t[i]) > 0 =>
       /\ C2[i] = C[i]
       /\ \A k \in 1 .. Len(C[i]) : \A r \in 0 .. Mem - 1 : m2[C[i][k] + r] = m[C[i][k] + r]

LEMMA ContentsStay ==
  ASSUME NEW m, NEW I, NEW C, NEW m2, NEW I2, NEW C2 \in [Inode -> Seq(Base)], NEW t,
         Contents(m, I, C, t), Unread(m, I, C, m2, I2, C2, t)
  PROVE  Contents(m2, I2, C2, t)
<1>1. t \in [Inode -> Seq(Int \cup {NULL})] /\ \A i \in Inode : Len(t[i]) \in Nat /\ Len(C2[i]) \in Nat
  BY DEF Contents
<1>2. Mem \in Nat
  BY Numbers
<1>3. ASSUME NEW i \in Inode PROVE Len(t[i]) <= Mem * Len(C2[i]) /\ Holds(m2, C2[i], t[i])
  <2>1. CASE Len(t[i]) = 0
    <3>1. 0 <= Mem * Len(C2[i])
      BY <1>1, <1>2
    <3>2. ASSUME NEW j \in 1 .. Len(C2[i]), NEW r \in 0 .. Mem - 1 PROVE ~(Place(j, r) + 1 <= Len(t[i]))
      <4>1. j \in Nat \ {0} /\ r \in 0 .. Mem
        BY <1>1, <1>2
      <4>2. Place(j, r) \in Nat
        BY <4>1, PlaceIs
      <4> QED BY <2>1, <4>2
    <3>3. Holds(m2, C2[i], t[i])
      BY <2>1, <3>2 DEF Holds
    <3> QED BY <2>1, <3>1, <3>3
  <2>2. CASE Len(t[i]) > 0
    <3>1. C2[i] = C[i] /\ \A k \in 1 .. Len(C[i]) : \A r \in 0 .. Mem - 1 : m2[C[i][k] + r] = m[C[i][k] + r]
      BY <2>2 DEF Unread
    <3>2. Len(t[i]) <= Mem * Len(C[i]) /\ Holds(m, C[i], t[i])
      BY DEF Contents
    <3> QED BY <3>1, <3>2 DEF Holds
  <2> QED BY <1>1, <2>1, <2>2
<1>4. \A i \in Inode : I2[i].size = Len(t[i])
  BY DEF Contents, Unread
<1> QED BY <1>1, <1>3, <1>4 DEF Contents, Unread

-----------------------------------------------------------------------------
(* block_read                                                                  *)

At(a, rest) == Lesser(Mem - (a % BlkSz), rest)
Copied(a, k) == [i \in 1 .. k |-> Word(a + i - 1)]
ReadStep(s, n) ==
  LET rest == n - Len(s.got)
  IN  IF rest = 0 \/ s.from = 0 THEN s
      ELSE [got |-> s.got \o Copied(s.from, At(s.from, rest)), from |-> Word(s.from + Mem)]
Reads(off, pos, n, f) ==
  f = [k \in 0 .. n + 2 |-> IF k = 0 THEN [from |-> FindBlock(off, pos), got |-> <<>>]
                            ELSE ReadStep(f[k - 1], n)]

\* What the steps of block_read keep holds of what it returns.
LEMMA ReadRuns ==
  ASSUME NEW off, NEW pos, NEW n \in Nat, NEW S, NEW D,
         \A k \in 0 .. n + 2 : D[k] \subseteq S,
         [from |-> FindBlock(off, pos), got |-> <<>>] \in D[0],
         \A k \in 1 .. n + 2 : \A s \in D[k - 1] : ReadStep(s, n) \in D[k]
  PROVE  \E s \in D[n + 2] : BlockRead(off, pos, n) = s.got
<1> DEFINE N == n + 2
           x == [from |-> FindBlock(off, pos), got |-> <<>>]
           g == [kx \in (1 .. N) \X S |-> ReadStep(kx[2], n)]
<1>1. N \in Nat /\ N = n + 2
  OBVIOUS
<1> HIDE DEF N
<1>2. \A k \in 1 .. N : k \in 0 .. N /\ k - 1 \in 0 .. N
  BY <1>1
<1>3. \A k \in 1 .. N : \A s \in S : g[<<k, s>>] = ReadStep(s, n)
  OBVIOUS
<1> HIDE DEF g, x
<1>4. ASSUME NEW k \in 1 .. N, NEW s \in D[k - 1] PROVE g[<<k, s>>] \in D[k]
  <2>1. s \in S
    BY <1>1, <1>2
  <2>2. ReadStep(s, n) \in D[k]
    BY <1>1
  <2> QED BY <1>3, <2>1, <2>2
<1>5. x \in D[0]
  BY DEF x
<1>6. PICK f : Solves(N, x, g, f) /\ \A k \in 0 .. N : f[k] \in D[k]
  BY <1>1, <1>4, <1>5, Recursion
<1>7. \A k \in 0 .. N : k # 0 => k \in 1 .. N /\ f[k - 1] \in S
  BY <1>1, <1>2, <1>6
<1>8. [k \in 0 .. N |-> IF k = 0 THEN x ELSE g[<<k, f[k - 1]>>]]
        = [k \in 0 .. N |-> IF k = 0 THEN x ELSE ReadStep(f[k - 1], n)]
  BY <1>3, <1>7
<1>9. Reads(off, pos, n, f)
  BY <1>6, <1>8 DEF Solves, Reads, N, x
<1> DEFINE h == CHOOSE step : Reads(off, pos, n, step)
<1>10. Reads(off, pos, n, h)
  BY <1>9
<1>11. BlockRead(off, pos, n) = h[n + 2].got
  BY Zenon DEF BlockRead, h, Reads, ReadStep, At, Copied
<1> HIDE DEF h
<1>12. h[0] \in D[0]
  BY <1>1, <1>5, <1>10 DEF Reads, x
<1>13. \A k \in 1 .. N : h[k] = ReadStep(h[k - 1], n)
  BY <1>1, <1>10 DEF Reads
<1>14. \A k \in 1 .. N : h[k - 1] \in D[k - 1] => h[k] \in D[k]
  BY <1>1, <1>13
<1>15. \A k \in 0 .. N : h[k] \in D[k]
  BY <1>1, <1>12, <1>14, Runs
<1>16. h[n + 2] \in D[n + 2]
  BY <1>1, <1>15
<1> QED BY <1>11, <1>16

LEMMA CopiedIs ==
  ASSUME mem \in [Addr -> Int], NEW a, NEW k \in Nat
  PROVE  Copied(a, k) \in Seq(Int) /\ Len(Copied(a, k)) = k /\ \A i \in 1 .. k : Copied(a, k)[i] = Word(a + i - 1)
<1>1. \A x : Word(x) \in Int
  BY Numbers DEF Word
<1>2. Copied(a, k) \in [1 .. k -> Int] /\ \A i \in 1 .. k : Copied(a, k)[i] = Word(a + i - 1)
  BY <1>1 DEF Copied
<1> QED BY <1>2

\* No more words than were asked for.
LEMMA ReadLen ==
  ASSUME mem \in [Addr -> Int], NEW off, NEW pos, FindBlock(off, pos) \in Int, NEW n \in Nat
  PROVE  Len(BlockRead(off, pos, n)) \in 0 .. n
<1> DEFINE S == {s \in [from : Int, got : Seq(Int)] : Len(s.got) <= n}
           D == [k \in 0 .. n + 2 |-> S]
<1>1. \A k \in 0 .. n + 2 : D[k] = S
  OBVIOUS
<1>2. [from |-> FindBlock(off, pos), got |-> <<>>] \in S
  OBVIOUS
<1>3. ASSUME NEW s \in S PROVE ReadStep(s, n) \in S
  <2> DEFINE rest == n - Len(s.got)
             k == At(s.from, rest)
  <2>1. s.from \in Int /\ s.got \in Seq(Int) /\ Len(s.got) \in Nat /\ Len(s.got) <= n /\ rest \in Nat
    OBVIOUS
  <2>2. CASE rest = 0 \/ s.from = 0
    BY <2>2 DEF ReadStep
  <2>3. CASE ~(rest = 0 \/ s.from = 0)
    <3>1. s.from % BlkSz \in 0 .. Mem
      BY <2>1, Numbers
    <3>2. k \in Nat /\ k <= rest
      BY <2>1, <3>1, Numbers DEF At, Lesser
    <3>3. Copied(s.from, k) \in Seq(Int) /\ Len(Copied(s.from, k)) = k
      BY <3>2, CopiedIs
    <3>4. ReadStep(s, n) = [got |-> s.got \o Copied(s.from, k), from |-> Word(s.from + Mem)]
      BY <2>3 DEF ReadStep
    <3>5. Word(s.from + Mem) \in Int
      BY Numbers DEF Word
    <3> HIDE DEF k
    <3>6. s.got \o Copied(s.from, k) \in Seq(Int) /\ Len(s.got \o Copied(s.from, k)) <= n
      BY <2>1, <3>2, <3>3
    <3> QED BY <3>4, <3>5, <3>6
  <2> QED BY <2>2, <2>3
<1> HIDE DEF S
<1>4. \A k \in 1 .. n + 2 : \A s \in D[k - 1] : ReadStep(s, n) \in D[k]
  <2>1. \A k \in 1 .. n + 2 : D[k - 1] = S /\ D[k] = S
    BY <1>1
  <2> HIDE DEF D
  <2> QED BY <1>3, <2>1
<1>5. 0 \in 0 .. n + 2 /\ n + 2 \in 0 .. n + 2
  OBVIOUS
<1> HIDE DEF D
<1>6. PICK s \in D[n + 2] : BlockRead(off, pos, n) = s.got
  <2>1. \A k \in 0 .. n + 2 : D[k] \subseteq S
    BY <1>1
  <2>2. [from |-> FindBlock(off, pos), got |-> <<>>] \in D[0]
    BY <1>1, <1>2, <1>5
  <2> QED BY <1>4, <2>1, <2>2, ReadRuns
<1>7. s \in S
  BY <1>1, <1>5
<1> QED BY <1>6, <1>7 DEF S

-----------------------------------------------------------------------------
(* block_write                                                                 *)

\* In the chain c2, that was c: the first n words of data from position pos, and
\* elsewhere what was there.
Stored(c, pos, data, m, c2, n) ==
  \A j \in 1 .. Len(c2), r \in 0 .. Mem - 1 :
    /\ pos <= Place(j, r) /\ Place(j, r) < pos + n => m[c2[j] + r] = data[Place(j, r) - pos + 1]
    /\ j <= Len(c) /\ (Place(j, r) < pos \/ pos + n <= Place(j, r)) => m[c2[j] + r] = mem[c[j] + r]

Writing(C, i, pos, data, m, u, c2, n) ==
  /\ Layout(mem, used, inode, C) /\ pos \in Nat /\ data \in Seq(Int)
  /\ Grows(mem, used, inode, C, m, u, i, c2)
  /\ n \in 0 .. Len(data) /\ Stored(C[i], pos, data, m, c2, n)

LEMMA WritingIs ==
  ASSUME NEW C, NEW i, NEW pos, NEW data, NEW m, NEW u, NEW c2, NEW n, Writing(C, i, pos, data, m, u, c2, n)
  PROVE  /\ i \in Inode /\ c2 \in Seq(Base) /\ Len(c2) \in Nat /\ Len(c2) >= 1 /\ Len(C[i]) \in Nat /\ Len(C[i]) <= Len(c2)
         /\ \A k \in 1 .. Len(c2) : c2[k] \in Base /\ Marks(u, c2[k]) /\ (c2[k] + Mem \in Addr)
         /\ m \in [Addr -> Int] /\ n \in Nat /\ n <= Len(data) /\ Len(data) \in Nat /\ pos \in Nat
         /\ Layout(m, u, inode, [C EXCEPT ![i] = c2])
<1>1. i \in Inode /\ c2 \in Seq(Base) /\ m \in [Addr -> Int] /\ Len(C[i]) <= Len(c2) /\ Len(c2) >= 1
  BY DEF Writing, Grows, Chained
<1>2. C[i] \in Seq(Base)
  BY <1>1 DEF Writing, Layout
<1>3. \A k \in 1 .. Len(c2) : c2[k] \in Base
  BY <1>1
<1>4. \A k \in 1 .. Len(c2) : Marks(u, c2[k])
  BY <1>3 DEF Writing, Grows
<1>5. Mem \in 0 .. Mem
  BY Numbers
<1>6. \A k \in 1 .. Len(c2) : c2[k] + Mem \in Addr
  BY <1>3, <1>5, BaseIs
<1>7. Layout(m, u, inode, [C EXCEPT ![i] = c2])
  BY GrownLayout DEF Writing
<1> QED BY <1>1, <1>2, <1>3, <1>4, <1>6, <1>7 DEF Writing

\* k words of data are stored behind word r of block j.
StoresAt(m, m2, c2, j, r, data, n, k) ==
  /\ m2 \in [Addr -> Int]
  /\ \A a \in Addr : m2[a] = IF a \in c2[j] + r .. c2[j] + r + k - 1 THEN data[n + a - (c2[j] + r) + 1] ELSE m[a]

LEMMA StoreIs ==
  ASSUME NEW C, NEW i, NEW pos, NEW data, NEW m, NEW u, NEW c2, NEW n, Writing(C, i, pos, data, m, u, c2, n),
         NEW j \in 1 .. Len(c2), NEW r \in 0 .. Mem, NEW k \in Nat, r + k <= Mem, n + k <= Len(data),
         pos + n = Place(j, r), NEW m2, StoresAt(m, m2, c2, j, r, data, n, k)
  PROVE  Writing(C, i, pos, data, m2, u, c2, n + k)
<1>1. /\ i \in Inode /\ c2 \in Seq(Base) /\ Len(c2) \in Nat /\ Len(c2) >= 1 /\ Len(C[i]) \in Nat /\ Len(C[i]) <= Len(c2)
      /\ \A l \in 1 .. Len(c2) : c2[l] \in Base /\ Marks(u, c2[l]) /\ (c2[l] + Mem \in Addr)
      /\ m \in [Addr -> Int] /\ n \in Nat /\ n <= Len(data) /\ Len(data) \in Nat /\ pos \in Nat
  BY WritingIs
<1>2. c2[j] \in Base /\ c2[j] \in Nat /\ Mem \in Nat /\ Mem >= 2
  BY <1>1, BaseIs, Numbers
<1>0. n \in Nat /\ pos \in Nat /\ k \in Nat /\ Mem \in Nat /\ Mem >= 2 /\ j \in Nat \ {0} /\ r \in 0 .. Mem
      /\ \A l \in 1 .. Len(c2) : l \in Nat \ {0}
  BY <1>1, <1>2
\* which words change
<1>3. ASSUME NEW w \in Base, NEW x \in 0 .. Mem
      PROVE  m2[w + x] = IF w = c2[j] /\ r <= x /\ x < r + k THEN data[n + x - r + 1] ELSE m[w + x]
  <2>1. w + x \in Addr /\ w \in Nat
    BY BaseIs
  <2>2. CASE w = c2[j]
    <3>1. w + x \in w + r .. w + r + k - 1 <=> r <= x /\ x < r + k
      BY <1>0, <2>1
    <3>2. n + (w + x) - (w + r) + 1 = n + x - r + 1
      BY <1>0, <2>1
    <3>3. m2[w + x] = IF w + x \in c2[j] + r .. c2[j] + r + k - 1 THEN data[n + (w + x) - (c2[j] + r) + 1] ELSE m[w + x]
      BY <2>1 DEF StoresAt
    <3> QED BY <2>2, <3>1, <3>2, <3>3
  <2>3. CASE w # c2[j]
    <3>1. ASSUME w + x \in c2[j] + r .. c2[j] + r + k - 1 PROVE FALSE
      <4> DEFINE y == w + x - c2[j]
      <4>1. y \in 0 .. Mem /\ c2[j] + y = w + x
        BY <1>2, <2>1, <3>1
      <4> HIDE DEF y
      <4> QED BY <1>2, <2>3, <4>1, Apart
    <3> QED BY <2>1, <2>3, <3>1 DEF StoresAt
  <2> QED BY <2>2, <2>3
<1>4. \A w \in Base : w # c2[j] => \A x \in 0 .. Mem : m2[w + x] = m[w + x]
  BY <1>3
<1>5. \A w \in Base : m2[w + Mem] = m[w + Mem]
  <2>1. Mem \in 0 .. Mem /\ ~(Mem < r + k)
    BY <1>2
  <2> QED BY <1>3, <2>1
<1>6. Chained(m2, c2)
  <2>1. Chained(m, c2)
    BY DEF Writing, Grows
  <2> QED BY <1>1, <1>5, <2>1 DEF Chained
<1>7. ASSUME NEW w \in Base, \A l \in 1 .. Len(c2) : c2[l] # w, NEW x \in 0 .. Mem PROVE m2[w + x] = mem[w + x]
  <2>1. m2[w + x] = m[w + x]
    BY <1>4, <1>7
  <2>2. m[w + x] = mem[w + x]
    BY <1>7 DEF Writing, Grows
  <2> QED BY <2>1, <2>2
<1>8. Grows(mem, used, inode, C, m2, u, i, c2)
  BY <1>6, <1>7 DEF Grows, Writing, StoresAt
<1>9. ASSUME NEW l \in 1 .. Len(c2), NEW x \in 0 .. Mem - 1
      PROVE  /\ pos <= Place(l, x) /\ Place(l, x) < pos + (n + k) => m2[c2[l] + x] = data[Place(l, x) - pos + 1]
             /\ l <= Len(C[i]) /\ (Place(l, x) < pos \/ pos + (n + k) <= Place(l, x)) => m2[c2[l] + x] = mem[C[i][l] + x]
  <2>0. c2[l] = c2[j] => l = j
    BY DEF Writing, Grows
  <2>1. c2[l] \in Base /\ x \in 0 .. Mem /\ l \in Nat \ {0} /\ j \in Nat \ {0} /\ (c2[l] = c2[j] => l = j)
    BY <1>0, <1>1, <2>0
  <2>2. Place(l, x) \in Nat /\ Place(j, r) \in Nat
    BY <2>1, PlaceIs
  <2>3. /\ pos <= Place(l, x) /\ Place(l, x) < pos + n => m[c2[l] + x] = data[Place(l, x) - pos + 1]
        /\ l <= Len(C[i]) /\ (Place(l, x) < pos \/ pos + n <= Place(l, x)) => m[c2[l] + x] = mem[C[i][l] + x]
    BY DEF Writing, Stored
  <2>4. CASE l = j /\ r <= x /\ x < r + k
    <3>1. Place(l, x) = Place(j, r) + x - r
      BY <2>1, <2>4, PlaceIs
    <3>2. pos <= Place(l, x) /\ Place(l, x) < pos + (n + k) /\ n + x - r + 1 = Place(l, x) - pos + 1
      <4> DEFINE P == Place(l, x)
                 Q == Place(j, r)
      <4>1. P = Q + x - r /\ pos + n = Q /\ r <= x /\ x < r + k
        BY <2>4, <3>1
      <4>2. P \in Nat /\ Q \in Nat /\ x \in Nat /\ r \in Nat /\ n \in Nat /\ pos \in Nat /\ k \in Nat
        BY <1>0, <2>1, <2>2
      <4> HIDE DEF P, Q
      <4>3. pos <= P /\ P < pos + (n + k) /\ n + x - r + 1 = P - pos + 1
        BY <4>1, <4>2
      <4> QED BY <4>3 DEF P
    <3>3. m2[c2[l] + x] = data[n + x - r + 1]
      BY <1>3, <2>1, <2>4
    <3>4. ~(Place(l, x) < pos) /\ ~(pos + (n + k) <= Place(l, x))
      BY <1>0, <2>2, <3>2
    <3> QED BY <3>2, <3>3, <3>4
  <2>5. CASE ~(l = j /\ r <= x /\ x < r + k)
    <3>1. m2[c2[l] + x] = m[c2[l] + x]
      BY <1>3, <2>1, <2>5
    <3>2. Place(l, x) < pos + n \/ pos + (n + k) <= Place(l, x)
      <4>1. CASE l < j
        BY <2>1, <4>1, PlaceIs
      <4>2. CASE l > j
        <5>1. Place(j, Mem) = Place(j, r) + Mem - r /\ Mem \in 0 .. Mem
          BY <1>2, <2>1, PlaceIs
        <5>2. Place(j + 1, 0) = Place(j, Mem) /\ Place(j + 1, 0) <= Place(l, x)
          <6>1. Place(l, x) = Place(l, 0) + x - 0 /\ Place(l, 0) \in Nat
            BY <1>2, <2>1, PlaceIs
          <6>2. l = j + 1 \/ j + 1 < l
            BY <2>1, <4>2
          <6>3. j + 1 < l => Place(j + 1, 0) < Place(l, x)
            <7>1. j + 1 \in Nat \ {0} /\ 0 \in 0 .. Mem - 1
              BY <1>0
            <7> QED BY <2>1, <7>1, PlaceIs
          <6>4. Place(j + 1, 0) = Place(j, Mem)
            BY <2>1, PlaceIs
          <6>5. Place(j + 1, 0) \in Nat
            BY <1>2, <2>1, PlaceIs
          <6> QED BY <2>2, <6>1, <6>2, <6>3, <6>4, <6>5
        <5> QED BY <1>1, <1>2, <2>2, <5>1, <5>2
      <4>3. CASE l = j
        <5>1. Place(l, x) = Place(j, r) + x - r
          BY <2>1, <4>3, PlaceIs
        <5> QED BY <1>1, <1>2, <2>2, <2>5, <4>3, <5>1
      <4> QED BY <2>1, <4>1, <4>2, <4>3
    <3>3. ~(pos <= Place(l, x) /\ Place(l, x) < pos + (n + k)) \/ Place(l, x) < pos + n
      BY <3>2, <2>2, <1>0
    <3>4. ~(pos + (n + k) <= Place(l, x)) \/ pos + n <= Place(l, x)
      BY <2>2, <1>0
    <3> QED BY <2>3, <3>1, <3>3, <3>4
  <2> QED BY <2>4, <2>5
<1>10. Stored(C[i], pos, data, m2, c2, n + k)
  BY <1>9 DEF Stored
<1>11. n + k \in 0 .. Len(data)
  BY <1>1
<1> QED BY <1>8, <1>10, <1>11 DEF Writing

\* A block is added to the chain.
LEMMA ExtendIs ==
  ASSUME NEW C, NEW i, NEW pos, NEW data, NEW m, NEW u, NEW c2, NEW n, Writing(C, i, pos, data, m, u, c2, n),
         pos + n <= Place(Len(c2), Mem), NEW b \in Base, ~Marks(u, b)
  PROVE  Writing(C, i, pos, data, [m EXCEPT ![c2[Len(c2)] + Mem] = b], Marked(u, b), Append(c2, b), n)
<1> DEFINE z == Len(c2)
           a == c2[z] + Mem
           m2 == [m EXCEPT ![a] = b]
           c3 == Append(c2, b)
<1>1. /\ i \in Inode /\ c2 \in Seq(Base) /\ z \in Nat /\ z >= 1 /\ Len(C[i]) \in Nat /\ Len(C[i]) <= z
      /\ \A l \in 1 .. z : c2[l] \in Base /\ Marks(u, c2[l]) /\ (c2[l] + Mem \in Addr)
      /\ m \in [Addr -> Int] /\ n \in Nat /\ n <= Len(data) /\ Len(data) \in Nat /\ pos \in Nat
      /\ Layout(m, u, inode, [C EXCEPT ![i] = c2])
  BY WritingIs
<1>2. b \in Int /\ a \in Addr /\ c2[z] \in Base /\ Mem \in Nat /\ Mem >= 2 /\ Mem \in 0 .. Mem
  BY <1>1, BaseIs, Numbers
<1>3. c3 \in Seq(Base) /\ Len(c3) = z + 1 /\ c3[z + 1] = b /\ \A l \in 1 .. z : c3[l] = c2[l]
  BY <1>1
<1>4. m2 \in [Addr -> Int] /\ m2[a] = b /\ \A x \in Addr : x # a => m2[x] = m[x]
  BY <1>1, <1>2
<1> HIDE DEF m2, c3
<1>5. \A w \in Base : \A x \in 0 .. Mem : w # c2[z] \/ x # Mem => m2[w + x] = m[w + x]
  <2>1. \A w \in Base : \A x \in 0 .. Mem : w + x \in Addr /\ (w + x = a => w = c2[z] /\ x = Mem)
    BY <1>2, BaseIs, Apart
  <2> QED BY <1>4, <2>1
<1>6. \A l \in 1 .. z : c2[l] # b
  BY <1>1
<1>7. m2[b + Mem] = 0
  <2>1. m[b + Mem] = 0
    BY <1>1, <1>2 DEF Layout
  <2>2. z \in 1 .. z
    BY <1>1
  <2> QED BY <1>2, <1>5, <1>6, <2>1, <2>2
<1>8. Chained(m2, c3)
  <2>1. \A l \in 1 .. z : m[c2[l] + Mem] = IF l = z THEN 0 ELSE c2[l + 1]
    BY DEF Writing, Grows, Chained
  <2>2. ASSUME NEW l \in 1 .. z + 1 PROVE m2[c3[l] + Mem] = IF l = z + 1 THEN 0 ELSE c3[l + 1]
    <3>1. CASE l = z + 1
      BY <1>3, <1>7, <3>1
    <3>2. CASE l = z
      BY <1>1, <1>3, <1>4, <3>2
    <3>3. CASE l \in 1 .. z - 1
      <4>1. l \in 1 .. z /\ l + 1 \in 1 .. z /\ l # z /\ z \in 1 .. z
        BY <1>1, <3>3
      <4>2. c2[l] # c2[z]
        BY <4>1 DEF Writing, Grows
      <4>3. m2[c2[l] + Mem] = m[c2[l] + Mem]
        BY <1>1, <1>2, <1>5, <4>1, <4>2
      <4> QED BY <1>1, <1>3, <2>1, <4>1, <4>3
    <3> QED BY <1>1, <3>1, <3>2, <3>3
  <2> QED BY <1>1, <1>3, <2>2 DEF Chained
<1>9. Marked(u, b) \subseteq Block /\ \A w \in Base : Marks(Marked(u, b), w) <=> Marks(u, w) \/ w = b
  <2>1. u \subseteq Block
    BY DEF Writing, Grows
  <2> QED BY <2>1, MarkedIs
<1>10. /\ IsTaken(inode, i) /\ ~IsDir(inode, i) /\ \A l \in 1 .. Len(C[i]) : c2[l] = C[i][l]
       /\ \A l \in 1 .. z : l > Len(C[i]) => ~Marks(used, c2[l])
       /\ \A k, l \in 1 .. z : c2[k] = c2[l] => k = l
       /\ \A w \in Base : Marks(u, w) <=> Marks(used, w) \/ \E k \in 1 .. z : c2[k] = w
       /\ \A w \in Base : (\A k \in 1 .. z : c2[k] # w) => \A k \in 0 .. Mem : m[w + k] = mem[w + k]
  BY DEF Writing, Grows
<1>11. ~Marks(used, b)
  BY <1>10
<1>12. \A l \in 1 .. z + 1 : l = z + 1 \/ l \in 1 .. z
  BY <1>1
<1>13. \A l \in 1 .. z + 1 : l > Len(C[i]) => ~Marks(used, c3[l])
  BY <1>3, <1>10, <1>11, <1>12
<1>14. \A k, l \in 1 .. z + 1 : c3[k] = c3[l] => k = l
  BY <1>3, <1>6, <1>10, <1>12
<1>15. ASSUME NEW w \in Base PROVE Marks(Marked(u, b), w) <=> Marks(used, w) \/ \E k \in 1 .. z + 1 : c3[k] = w
  <2>1. (\E k \in 1 .. z + 1 : c3[k] = w) <=> (\E k \in 1 .. z : c2[k] = w) \/ w = b
    <3>1. z + 1 \in 1 .. z + 1 /\ \A l \in 1 .. z : l \in 1 .. z + 1
      BY <1>1
    <3> QED BY <1>3, <1>12, <3>1
  <2> QED BY <1>9, <1>10, <2>1
<1>16. ASSUME NEW w \in Base, \A k \in 1 .. z + 1 : c3[k] # w, NEW x \in 0 .. Mem PROVE m2[w + x] = mem[w + x]
  <2>1. \A k \in 1 .. z : k \in 1 .. z + 1 /\ c2[k] # w
    BY <1>1, <1>3, <1>16
  <2>2. z \in 1 .. z
    BY <1>1
  <2> QED BY <1>5, <1>10, <2>1, <2>2
<1>17. Grows(mem, used, inode, C, m2, Marked(u, b), i, c3)
  <2>1. \A l \in 1 .. Len(C[i]) : c3[l] = C[i][l]
    BY <1>1, <1>3, <1>10
  <2>2. Len(c3) >= Len(C[i])
    BY <1>1, <1>3
  <2>3. Len(c3) = z + 1
    BY <1>3
  <2>4. /\ \A l \in 1 .. Len(c3) : l > Len(C[i]) => ~Marks(used, c3[l])
        /\ \A k, l \in 1 .. Len(c3) : c3[k] = c3[l] => k = l
    BY <1>13, <1>14, <2>3
  <2>5. \A w \in Base : Marks(Marked(u, b), w) <=> Marks(used, w) \/ \E k \in 1 .. Len(c3) : c3[k] = w
    BY <1>15, <2>3
  <2>6. \A w \in Base : (\A k \in 1 .. Len(c3) : c3[k] # w) => \A k \in 0 .. Mem : m2[w + k] = mem[w + k]
    BY <1>16, <2>3
  <2>7. i \in Inode /\ IsTaken(inode, i) /\ ~IsDir(inode, i) /\ m2 \in [Addr -> Int] /\ Marked(u, b) \subseteq Block
    BY <1>1, <1>4, <1>9, <1>10
  <2> QED BY <1>8, <2>1, <2>2, <2>4, <2>5, <2>6, <2>7, Zenon DEF Grows
<1>18. ASSUME NEW j \in 1 .. z + 1, NEW r \in 0 .. Mem - 1
       PROVE  /\ pos <= Place(j, r) /\ Place(j, r) < pos + n => m2[c3[j] + r] = data[Place(j, r) - pos + 1]
              /\ j <= Len(C[i]) /\ (Place(j, r) < pos \/ pos + n <= Place(j, r)) => m2[c3[j] + r] = mem[C[i][j] + r]
  <2>1. CASE j \in 1 .. z
    <3>1. /\ pos <= Place(j, r) /\ Place(j, r) < pos + n => m[c2[j] + r] = data[Place(j, r) - pos + 1]
          /\ j <= Len(C[i]) /\ (Place(j, r) < pos \/ pos + n <= Place(j, r)) => m[c2[j] + r] = mem[C[i][j] + r]
      BY <2>1 DEF Writing, Stored
    <3>2. r \in 0 .. Mem /\ r # Mem
      BY <1>2
    <3>3. m2[c3[j] + r] = m[c2[j] + r]
      BY <1>1, <1>3, <1>5, <2>1, <3>2
    <3> QED BY <3>1, <3>3
  <2>2. CASE j = z + 1
    <3>1. ~(j <= Len(C[i]))
      BY <1>1, <2>2
    <3>2. Place(z, Mem) = Place(z + 1, 0) /\ Place(j, r) = Place(j, 0) + r - 0 /\ Place(j, 0) \in Nat
      <4>1. z \in Nat \ {0} /\ j \in Nat \ {0} /\ 0 \in 0 .. Mem /\ r \in 0 .. Mem
        BY <1>1, <1>2
      <4> QED BY <4>1, PlaceIs
    <3>3. ~(Place(j, r) < pos + n)
      BY <1>1, <1>2, <2>2, <3>2
    <3> QED BY <3>1, <3>3
  <2> QED BY <1>12, <2>1, <2>2
<1>19. Stored(C[i], pos, data, m2, c3, n)
  <2>1. Len(c3) = z + 1
    BY <1>3
  <2> QED BY <1>18, <2>1 DEF Stored
<1>20. Writing(C, i, pos, data, m2, Marked(u, b), c3, n)
  BY <1>17, <1>19 DEF Writing
<1> QED BY <1>20 DEF m2, c3

States == [mem : [Addr -> Int], used : SUBSET Block, at : Int, done : Nat, full : BOOLEAN]

\* The next word goes behind the last one, or into the next block.
Cursor(c2, pos, data, s) ==
  \E j \in 1 .. Len(c2), r \in 0 .. Mem :
    s.at = c2[j] + r /\ pos + s.done = Place(j, r) /\ (s.done < Len(data) => r = Mem)

\* After the k-th step of block_write.
Going(C, i, pos, data, k) ==
  {s \in States : s.full \/ \E c2 : /\ Writing(C, i, pos, data, s.mem, s.used, c2, s.done)
                                    /\ Cursor(c2, pos, data, s)
                                    /\ (s.done = Len(data) \/ k <= s.done)}

LEMMA WritingFirst ==
  ASSUME NEW C, Layout(mem, used, inode, C), NEW i, IsTaken(inode, i), ~IsDir(inode, i),
         NEW pos \in Nat, NEW data \in Seq(Int)
  PROVE  Writing(C, i, pos, data, mem, used, C[i], 0)
<1>1. i \in Inode
  BY DEF IsTaken
<1>2. mem \in [Addr -> Int] /\ used \subseteq Block /\ Chained(mem, C[i]) /\ C[i] \in Seq(Base)
  BY <1>1 DEF Layout
<1>3. \A k \in 1 .. Len(C[i]) : C[i][k] \in Base /\ Marks(used, C[i][k])
  BY <1>1, <1>2 DEF Layout, InChain
<1>4. \A k, l \in 1 .. Len(C[i]) : C[i][k] = C[i][l] => k = l
  BY <1>1 DEF Layout
<1>5. Len(C[i]) \in Nat
  BY <1>2
<1>6. Grows(mem, used, inode, C, mem, used, i, C[i])
  BY <1>1, <1>2, <1>3, <1>4, <1>5 DEF Grows
<1>7. \A j \in 1 .. Len(C[i]), r \in 0 .. Mem - 1 : Place(j, r) \in Nat
  <2>1. \A j \in 1 .. Len(C[i]) : j \in Nat \ {0}
    BY <1>5
  <2>2. \A r \in 0 .. Mem - 1 : r \in 0 .. Mem
    BY Numbers
  <2> QED BY <2>1, <2>2, PlaceIs
<1>8. Stored(C[i], pos, data, mem, C[i], 0)
  BY <1>7 DEF Stored
<1> QED BY <1>6, <1>8 DEF Writing

FirstStep(off, pos, data) ==
  LET a0 == FindBlock(off, pos)
      k0 == Lesser(Mem - (a0 % BlkSz), Len(data))
  IN  [mem |-> [a \in Addr |-> IF a \in a0 .. a0 + k0 - 1 THEN data[a - a0 + 1] ELSE mem[a]],
       used |-> used, at |-> a0 + k0, done |-> k0, full |-> FALSE]

LEMMA FirstGoing ==
  ASSUME NEW C, Layout(mem, used, inode, C), NEW i, IsTaken(inode, i), ~IsDir(inode, i),
         NEW pos \in Nat, pos <= Mem * Len(C[i]), NEW data \in Seq(Int)
  PROVE  FirstStep(inode[i].info, pos, data) \in Going(C, i, pos, data, 0)
<1> DEFINE c == C[i]
           a0 == FindBlock(inode[i].info, pos)
           k0 == Lesser(Mem - (a0 % BlkSz), Len(data))
           m2 == [a \in Addr |-> IF a \in a0 .. a0 + k0 - 1 THEN data[a - a0 + 1] ELSE mem[a]]
           s == [mem |-> m2, used |-> used, at |-> a0 + k0, done |-> k0, full |-> FALSE]
<1>1. i \in Inode /\ Chained(mem, c) /\ c[1] = inode[i].info /\ mem \in [Addr -> Int] /\ used \subseteq Block
  BY DEF Layout, IsTaken
<1>2. Position(c, pos, a0)
  BY <1>1, FindIs
<1> HIDE DEF a0
<1>3. PICK j \in 1 .. Len(c), r \in 0 .. Mem : a0 = c[j] + r /\ pos = Place(j, r)
  BY <1>2 DEF Position
<1>4. c[j] \in Base /\ c \in Seq(Base) /\ Len(data) \in Nat /\ Mem \in Nat /\ j \in Nat \ {0}
  BY <1>1, <1>3, Numbers DEF Chained
<1>5. a0 % BlkSz = r /\ a0 \in Nat
  <2>1. \A w \in Base : w \in Nat /\ (w + r) % BlkSz = r
    BY <1>3, BaseIs
  <2>2. c[j] \in Nat /\ (c[j] + r) % BlkSz = r
    BY <1>4, <2>1
  <2>3. a0 \in Nat
    BY <1>3, <2>2
  <2> QED BY <1>3, <2>2, <2>3
<1>6. k0 \in Nat /\ r + k0 <= Mem /\ k0 <= Len(data) /\ (k0 < Len(data) => r + k0 = Mem)
  BY <1>4, <1>5 DEF Lesser
<1> HIDE DEF k0
<1>7. m2 \in [Addr -> Int] /\ \A a \in Addr : m2[a] = IF a \in a0 .. a0 + k0 - 1 THEN data[a - a0 + 1] ELSE mem[a]
  <2>1. ASSUME NEW a \in Addr, a \in a0 .. a0 + k0 - 1 PROVE data[a - a0 + 1] \in Int
    <3>1. a - a0 + 1 \in 1 .. Len(data)
      BY <1>4, <1>5, <1>6, <2>1
    <3> QED BY <3>1
  <2> QED BY <1>1, <2>1
<1> HIDE DEF m2
<1>8. StoresAt(mem, m2, c, j, r, data, 0, k0)
  <2>1. ASSUME NEW a \in Addr
        PROVE  m2[a] = IF a \in c[j] + r .. c[j] + r + k0 - 1 THEN data[0 + a - (c[j] + r) + 1] ELSE mem[a]
    <3>1. a \in Nat
      BY AddrIs
    <3>2. 0 + a - (c[j] + r) + 1 = a - a0 + 1
      BY <1>3, <1>5, <3>1
    <3> QED BY <1>3, <1>7, <3>2
  <2> QED BY <1>7, <2>1 DEF StoresAt
<1>9. Writing(C, i, pos, data, mem, used, c, 0)
  BY WritingFirst
<1>10. Writing(C, i, pos, data, m2, used, c, 0 + k0)
  <2>1. pos + 0 = Place(j, r) /\ 0 + k0 <= Len(data)
    BY <1>3, <1>6
  <2> HIDE DEF c
  <2> QED BY <1>3, <1>6, <1>8, <1>9, <2>1, StoreIs
<1>11. s \in States /\ s.mem = m2 /\ s.used = used /\ s.at = a0 + k0 /\ s.done = k0
  BY <1>1, <1>5, <1>6, <1>7 DEF States
<1>12. Cursor(c, pos, data, s)
  <2>1. r + k0 \in 0 .. Mem /\ a0 + k0 = c[j] + (r + k0)
    <3>1. c[j] \in Nat
      BY <1>4, BaseIs
    <3>2. r + k0 \in 0 .. Mem
      BY <1>4, <1>6
    <3> DEFINE b == c[j]
    <3>3. a0 = b + r /\ b \in Nat /\ r \in Nat /\ k0 \in Nat
      BY <1>3, <1>6, <3>1
    <3> HIDE DEF b
    <3>4. a0 + k0 = b + (r + k0)
      BY <3>3
    <3> QED BY <3>2, <3>4 DEF b
  <2>2. pos + k0 = Place(j, r + k0)
    <3>1. Place(j, r + k0) = Place(j, r) + (r + k0) - r /\ Place(j, r) \in Nat
      BY <1>4, <2>1, PlaceIs
    <3> QED BY <1>3, <1>6, <3>1
  <2> HIDE DEF s, c
  <2> QED BY <1>3, <1>6, <1>11, <2>1, <2>2 DEF Cursor
<1>13. 0 + k0 = k0 /\ 0 <= k0
  BY <1>6
<1>14. FirstStep(inode[i].info, pos, data) = s
  BY DEF FirstStep, k0, a0, m2
<1> HIDE DEF s
<1>15. s \in Going(C, i, pos, data, 0)
  BY <1>10, <1>11, <1>12, <1>13 DEF Going
<1> QED BY <1>14, <1>15

LEMMA StepGoing ==
  ASSUME NEW C, NEW i, NEW pos, NEW data, NEW k \in Nat \ {0}, NEW s \in Going(C, i, pos, data, k - 1)
  PROVE  WriteStep(s, data) \in Going(C, i, pos, data, k)
<1> DEFINE rest == Len(data) - s.done
           b == IF s.mem[s.at] # 0 THEN s.mem[s.at] ELSE NewBlock(s.used)
           n == Lesser(Mem, rest)
           m2 == [a \in Addr |-> IF a = s.at THEN b
                                 ELSE IF a \in b .. b + n - 1 THEN data[s.done + a - b + 1]
                                 ELSE s.mem[a]]
           t == [mem |-> m2, used |-> Marked(s.used, b), at |-> b + n, done |-> s.done + n, full |-> FALSE]
<1>1. s \in States /\ s.full \in BOOLEAN
  BY DEF Going, States
<1>2. WriteStep(s, data) = IF rest = 0 \/ s.full THEN s
                           ELSE IF b = 0 THEN [s EXCEPT !.full = TRUE]
                           ELSE t
  BY DEF WriteStep
<1> HIDE DEF t
<1>3. CASE s.full
  <2>1. WriteStep(s, data) = s
    BY <1>2, <1>3
  <2> QED BY <1>1, <1>3, <2>1, Zenon DEF Going
<1>4. CASE ~s.full
  <2>1. PICK c2 : /\ Writing(C, i, pos, data, s.mem, s.used, c2, s.done)
                  /\ Cursor(c2, pos, data, s)
                  /\ (s.done = Len(data) \/ k - 1 <= s.done)
    BY <1>4 DEF Going
  <2>2. /\ i \in Inode /\ c2 \in Seq(Base) /\ Len(c2) \in Nat /\ Len(c2) >= 1
        /\ \A l \in 1 .. Len(c2) : c2[l] \in Base /\ Marks(s.used, c2[l]) /\ (c2[l] + Mem \in Addr)
        /\ s.mem \in [Addr -> Int] /\ s.done \in Nat /\ s.done <= Len(data) /\ Len(data) \in Nat /\ pos \in Nat
        /\ Layout(s.mem, s.used, inode, [C EXCEPT ![i] = c2])
    BY <2>1, WritingIs
  <2>3. CASE rest = 0
    <3>1. WriteStep(s, data) = s
      BY <1>2, <2>3
    <3>2. s.done = Len(data)
      BY <2>2, <2>3
    <3> QED BY <1>1, <2>1, <3>1, <3>2 DEF Going
  <2>4. CASE rest # 0 /\ b = 0
    <3>1. WriteStep(s, data) = [s EXCEPT !.full = TRUE]
      BY <1>2, <1>4, <2>4
    <3>2. [s EXCEPT !.full = TRUE] \in States /\ [s EXCEPT !.full = TRUE].full = TRUE
      BY <1>1 DEF States
    <3> QED BY <3>1, <3>2 DEF Going
  <2>5. CASE rest # 0 /\ b # 0
    <3>1. WriteStep(s, data) = t
      BY <1>2, <1>4, <2>5
    <3>2. s.done < Len(data)
      BY <2>2, <2>5
    <3>3. PICK j \in 1 .. Len(c2) : s.at = c2[j] + Mem /\ pos + s.done = Place(j, Mem)
      BY <2>1, <3>2 DEF Cursor
    <3>4. s.at \in Addr /\ c2[j] \in Base /\ Mem \in Nat /\ Mem >= 2 /\ data \in Seq(Int) /\ j \in Nat \ {0}
      BY <2>1, <2>2, <3>3, Numbers DEF Writing
    <3>5. n \in Nat /\ n >= 1 /\ n <= Mem /\ s.done + n <= Len(data) /\ (s.done + n < Len(data) => n = Mem)
      BY <2>2, <3>2, <3>4 DEF Lesser
    <3>6. s.mem[s.at] = IF j = Len(c2) THEN 0 ELSE c2[j + 1]
      BY <2>1, <3>3 DEF Writing, Grows, Chained
    <3> HIDE DEF n
    \* the chain and the memory with the next block
    <3>7. \E c3 : /\ Writing(C, i, pos, data, [s.mem EXCEPT ![s.at] = b], Marked(s.used, b), c3, s.done)
                  /\ j + 1 \in 1 .. Len(c3) /\ c3[j + 1] = b /\ b \in Base
      <4>1. CASE j = Len(c2)
        <5>1. b = NewBlock(s.used)
          BY <3>6, <4>1
        <5>2. b \in Base /\ ~Marks(s.used, b)
          BY <2>5, <5>1, NewBlockIs
        <5> HIDE DEF b
        <5>3. Writing(C, i, pos, data, [s.mem EXCEPT ![s.at] = b], Marked(s.used, b), Append(c2, b), s.done)
          <6>1. pos + s.done <= Place(Len(c2), Mem)
            <7>1. Place(j, Mem) \in Nat
              BY <3>4, PlaceIs
            <7> QED BY <3>3, <4>1, <7>1
          <6> QED BY <2>1, <3>3, <4>1, <5>2, <6>1, ExtendIs
        <5>4. j + 1 \in 1 .. Len(Append(c2, b)) /\ Append(c2, b)[j + 1] = b
          BY <2>2, <4>1, <5>2
        <5> QED BY <5>2, <5>3, <5>4
      <4>2. CASE j # Len(c2)
        <5>1. j + 1 \in 1 .. Len(c2)
          BY <2>2, <3>3, <4>2
        <5>2. c2[j + 1] \in Base /\ c2[j + 1] # 0 /\ Marks(s.used, c2[j + 1])
          BY <2>2, <5>1, NotBase
        <5>3. b = c2[j + 1]
          BY <3>6, <4>2, <5>2
        <5>4. [s.mem EXCEPT ![s.at] = b] = s.mem
          BY <2>2, <3>4, <3>6, <4>2, <5>3
        <5>5. Marked(s.used, b) = s.used
          BY <5>2, <5>3 DEF Marked, Marks
        <5> HIDE DEF b
        <5> QED BY <2>1, <5>1, <5>2, <5>3, <5>4, <5>5
      <4> QED BY <4>1, <4>2
    <3> HIDE DEF b
    <3> DEFINE m1 == [s.mem EXCEPT ![s.at] = b]
    <3>8. PICK c3 : /\ Writing(C, i, pos, data, m1, Marked(s.used, b), c3, s.done)
                    /\ j + 1 \in 1 .. Len(c3) /\ c3[j + 1] = b /\ b \in Base
      BY <3>7
    <3>9. b \in Nat /\ m1 \in [Addr -> Int]
      <4>1. b \in Nat
        BY <3>8, BaseIs
      <4> QED BY <2>2, <3>4, <4>1
    <3>10. m2 \in [Addr -> Int]
      <4>1. ASSUME NEW a \in Addr, a \in b .. b + n - 1 PROVE data[s.done + a - b + 1] \in Int
        <5> DEFINE z == s.done
                   y == a - b
                   l == Len(data)
        <5>1. y \in 0 .. n - 1 /\ z \in Nat /\ l \in Nat /\ z + n <= l
          BY <2>2, <3>5, <3>9, <4>1
        <5>2. s.done + a - b + 1 = z + y + 1
          BY <2>2, <3>9, <4>1
        <5> HIDE DEF z, y, l
        <5>3. z + y + 1 \in 1 .. l
          BY <3>5, <5>1
        <5>4. s.done + a - b + 1 \in 1 .. Len(data)
          BY <5>2, <5>3 DEF l
        <5> QED BY <3>4, <5>4
      <4> QED BY <2>2, <3>9, <4>1
    <3>11. \A a \in Addr : m2[a] = IF a = s.at THEN b
                                   ELSE IF a \in b .. b + n - 1 THEN data[s.done + a - b + 1]
                                   ELSE s.mem[a]
      OBVIOUS
    <3>12. \A a \in Addr : m1[a] = IF a = s.at THEN b ELSE s.mem[a]
      BY <2>2, <3>4
    <3>13. s.at \notin b .. b + n - 1
      <4> SUFFICES ASSUME s.at \in b .. b + n - 1 PROVE FALSE
        OBVIOUS
      <4> DEFINE x == s.at - b
      <4>1. s.at \in Nat
        BY <3>4, AddrIs
      <4>2. x \in 0 .. Mem /\ b + x = s.at /\ x # Mem /\ Mem \in 0 .. Mem
        BY <3>4, <3>5, <3>9, <4>1
      <4> HIDE DEF x
      <4> QED BY <3>3, <3>4, <3>8, <4>2, Apart
    <3> HIDE DEF m1, m2
    <3>14. StoresAt(m1, m2, c3, j + 1, 0, data, s.done, n)
      <4>1. ASSUME NEW a \in Addr
            PROVE  m2[a] = IF a \in c3[j + 1] + 0 .. c3[j + 1] + 0 + n - 1
                           THEN data[s.done + a - (c3[j + 1] + 0) + 1] ELSE m1[a]
        <5>1. c3[j + 1] + 0 = b
          BY <3>8, <3>9
        <5>2. m2[a] = IF a \in b .. b + n - 1 THEN data[s.done + a - b + 1] ELSE m1[a]
          BY <3>11, <3>12, <3>13
        <5> QED BY <5>1, <5>2
      <4> QED BY <3>10, <4>1 DEF StoresAt
    <3>15. Place(j + 1, 0) = Place(j, Mem) /\ Place(j + 1, n) = Place(j + 1, 0) + n - 0 /\ Place(j + 1, 0) \in Nat
      <4>1. j + 1 \in Nat \ {0} /\ 0 \in 0 .. Mem /\ n \in 0 .. Mem
        BY <3>4, <3>5
      <4> QED BY <3>4, <4>1, PlaceIs
    <3>16. Writing(C, i, pos, data, m2, Marked(s.used, b), c3, s.done + n)
      <4>1. pos + s.done = Place(j + 1, 0) /\ 0 + n <= Mem /\ 0 \in 0 .. Mem
        BY <3>3, <3>4, <3>5, <3>15
      <4> QED BY <3>5, <3>8, <3>14, <4>1, StoreIs
    <3>17. t.mem = m2 /\ t.used = Marked(s.used, b) /\ t.at = b + n /\ t.done = s.done + n /\ t \in States
      <4>1. Marked(s.used, b) \subseteq Block
        BY <3>16 DEF Writing, Grows
      <4>2. t = [mem |-> m2, used |-> Marked(s.used, b), at |-> b + n, done |-> s.done + n, full |-> FALSE]
        BY DEF t, m2, n, b
      <4>3. b + n \in Int /\ s.done + n \in Nat
        BY <2>2, <3>5, <3>9
      <4> QED BY <3>10, <4>1, <4>2, <4>3 DEF States
    <3>18. Cursor(c3, pos, data, t)
      <4>1. n \in 0 .. Mem /\ pos + (s.done + n) = Place(j + 1, n)
        BY <2>2, <3>3, <3>4, <3>5, <3>15
      <4>2. t.at = c3[j + 1] + n /\ pos + t.done = Place(j + 1, n) /\ (t.done < Len(data) => n = Mem)
        BY <3>5, <3>8, <3>17, <4>1
      <4> QED BY <3>8, <4>1, <4>2 DEF Cursor
    <3>19. t.done = Len(data) \/ k <= t.done
      BY <2>1, <2>2, <3>2, <3>5, <3>17
    <3>20. t \in Going(C, i, pos, data, k)
      BY <3>16, <3>17, <3>18, <3>19 DEF Going
    <3> QED BY <3>1, <3>20
  <2> QED BY <2>3, <2>4, <2>5
<1> QED BY <1>1, <1>3, <1>4

Writes(off, pos, data, f) ==
  f = [k \in 0 .. Len(data) |-> IF k = 0 THEN FirstStep(off, pos, data) ELSE WriteStep(f[k - 1], data)]

LEMMA WriteGoes ==
  ASSUME NEW C, Layout(mem, used, inode, C), NEW i, IsTaken(inode, i), ~IsDir(inode, i),
         NEW pos \in Nat, pos <= Mem * Len(C[i]), NEW data \in Seq(Int)
  PROVE  BlockWrite(inode[i].info, pos, data) \in Going(C, i, pos, data, Len(data))
<1> DEFINE n == Len(data)
           off == inode[i].info
           x == FirstStep(off, pos, data)
           D == [k \in 0 .. n |-> Going(C, i, pos, data, k)]
           g == [kx \in (1 .. n) \X States |-> WriteStep(kx[2], data)]
<1>1. n \in Nat
  OBVIOUS
<1> HIDE DEF n, off
<1>2. x \in Going(C, i, pos, data, 0)
  BY FirstGoing DEF off
<1> HIDE DEF x
<1>3. \A k \in 1 .. n : D[k] = Going(C, i, pos, data, k) /\ D[k - 1] = Going(C, i, pos, data, k - 1) /\ k \in Nat \ {0}
  BY <1>1
<1>4. \A k : Going(C, i, pos, data, k) \subseteq States
  BY DEF Going
<1>5. \A k \in 1 .. n : \A s \in States : g[<<k, s>>] = WriteStep(s, data)
  OBVIOUS
<1>6. x \in D[0]
  BY <1>1, <1>2
<1>7. D[n] = Going(C, i, pos, data, n)
  BY <1>1
<1> HIDE DEF D, g
<1>8. ASSUME NEW k \in 1 .. n, NEW s \in D[k - 1] PROVE WriteStep(s, data) \in D[k] /\ s \in States
  <2>1. s \in Going(C, i, pos, data, k - 1) /\ k \in Nat \ {0}
    BY <1>3
  <2>2. WriteStep(s, data) \in Going(C, i, pos, data, k)
    BY <2>1, StepGoing
  <2> QED BY <1>3, <1>4, <2>1, <2>2
<1>9. \A k \in 1 .. n : \A s \in D[k - 1] : g[<<k, s>>] \in D[k]
  BY <1>5, <1>8
<1>10. PICK f : Solves(n, x, g, f) /\ \A k \in 0 .. n : f[k] \in D[k]
  BY <1>1, <1>6, <1>9, Recursion
<1>11. ASSUME NEW k \in 0 .. n, k # 0 PROVE k \in 1 .. n /\ f[k - 1] \in States
  <2>1. k \in 1 .. n /\ k - 1 \in 0 .. n
    BY <1>1, <1>11
  <2>2. f[k - 1] \in D[k - 1]
    BY <1>10, <2>1
  <2> QED BY <1>8, <2>1, <2>2
<1>12. [k \in 0 .. n |-> IF k = 0 THEN x ELSE g[<<k, f[k - 1]>>]]
         = [k \in 0 .. n |-> IF k = 0 THEN x ELSE WriteStep(f[k - 1], data)]
  BY <1>5, <1>11
<1>13. Writes(off, pos, data, f)
  BY <1>10, <1>12 DEF Solves, Writes, n, x
<1> DEFINE h == CHOOSE step : Writes(off, pos, data, step)
<1>14. Writes(off, pos, data, h)
  BY <1>13
<1>15. BlockWrite(off, pos, data) = h[Len(data)]
  BY Zenon DEF BlockWrite, h, Writes, FirstStep
<1> HIDE DEF h
<1>16. h[0] \in D[0]
  BY <1>1, <1>6, <1>14 DEF Writes, x, n
<1>17. ASSUME NEW k \in 1 .. n PROVE h[k] = WriteStep(h[k - 1], data)
  <2>1. h = [l \in 0 .. n |-> IF l = 0 THEN x ELSE WriteStep(h[l - 1], data)]
    BY <1>14 DEF Writes, n, x
  <2>2. k \in 0 .. n /\ k # 0
    BY <1>1
  <2> QED BY <2>1, <2>2
<1>18. \A k \in 1 .. n : h[k - 1] \in D[k - 1] => h[k] \in D[k]
  BY <1>8, <1>17
<1>19. \A k \in 0 .. n : h[k] \in D[k]
  BY <1>1, <1>16, <1>18, Runs
<1>20. h[n] \in Going(C, i, pos, data, n)
  BY <1>1, <1>7, <1>19
<1> QED BY <1>15, <1>20 DEF n, off

\* A write that did not run out of blocks.
LEMMA WrittenIs ==
  ASSUME NEW C, Layout(mem, used, inode, C), NEW i, IsTaken(inode, i), ~IsDir(inode, i),
         NEW pos \in Nat, pos <= Mem * Len(C[i]), NEW data \in Seq(Int),
         ~BlockWrite(inode[i].info, pos, data).full
  PROVE  LET w == BlockWrite(inode[i].info, pos, data)
         IN  \E c2 : Writing(C, i, pos, data, w.mem, w.used, c2, Len(data)) /\ pos + Len(data) <= Mem * Len(c2)
<1> DEFINE s == BlockWrite(inode[i].info, pos, data)
<1>1. s \in Going(C, i, pos, data, Len(data))
  BY WriteGoes
<1>2. ~s.full
  OBVIOUS
<1> HIDE DEF s
<1>3. PICK c2 : /\ Writing(C, i, pos, data, s.mem, s.used, c2, s.done)
                /\ Cursor(c2, pos, data, s)
                /\ (s.done = Len(data) \/ Len(data) <= s.done)
  BY <1>1, <1>2, Zenon DEF Going
<1>4. s.done \in Nat /\ s.done <= Len(data) /\ Len(data) \in Nat /\ Len(c2) \in Nat /\ Len(c2) >= 1
  BY <1>3, WritingIs
<1>5. s.done = Len(data)
  BY <1>3, <1>4
<1>6. PICK j \in 1 .. Len(c2), r \in 0 .. Mem : pos + s.done = Place(j, r)
  BY <1>3 DEF Cursor
<1>7. Place(j, r) <= Mem * Len(c2)
  <2>1. j \in Nat \ {0} /\ Len(c2) \in Nat \ {0} /\ j <= Len(c2) /\ Mem \in 0 .. Mem /\ Mem \in Nat
    BY <1>4, Numbers
  <2>2. Place(j, Mem) = Place(j, r) + Mem - r /\ Place(j, r) \in Nat /\ Place(Len(c2), Mem) \in Nat
    BY <2>1, PlaceIs
  <2>3. Place(j, Mem) <= Place(Len(c2), Mem) /\ Place(Len(c2), Mem) = Mem * Len(c2)
    BY <2>1, PlaceIs
  <2> QED BY <2>1, <2>2, <2>3
<1>8. Writing(C, i, pos, data, s.mem, s.used, c2, Len(data)) /\ pos + Len(data) <= Mem * Len(c2)
  BY <1>3, <1>5, <1>6, <1>7
<1> QED BY <1>8 DEF s

-----------------------------------------------------------------------------
(* The invariant holds at the beginning                                        *)

LEMMA RootIs == /\ RootName \in Base /\ RootInfo \in Base /\ RootInfo # RootName
<1>1. RootInfo \in Addr
  BY BlkfsAssumption
<1>2. Block # {} /\ Block \subseteq Nat
  BY <1>1, Numbers DEF Addr
<1>3. RootName = BlkSz * Least(Block)
  BY DEF RootName, Least
<1>4. Least(Block) \in Block
  BY <1>2, LeastIs
<1> DEFINE b == Least(Block)
<1> HIDE DEF b
<1>5. b \in Block /\ b \in Nat /\ RootName = b * BlkSz /\ BlkSz \in Nat /\ BlkSz > 0 /\ Mem \in Nat /\ BlkSz = Mem + 1
  <2>1. b \in Block /\ b \in Nat /\ BlkSz \in Nat /\ BlkSz > 0 /\ Mem \in Nat /\ BlkSz = Mem + 1
    <3>1. b \in Block /\ b \in Nat
      BY <1>2, <1>4 DEF b
    <3>2. Mem \in Nat /\ BlkSz = Mem + 1
      BY Numbers
    <3> QED BY <3>1, <3>2
  <2>2. RootName = BlkSz * b
    BY <1>3 DEF b
  <2> QED BY <2>1, <2>2
<1>6. RootName \in Base
  BY <1>5 DEF Base
<1>7. PICK w \in Base : \E k \in 0 .. Mem : RootInfo = w + k
  BY <1>1, AddrIs
<1>8. PICK k \in 0 .. Mem : RootInfo = w + k
  BY <1>7
<1>9. RootInfo = RootName + BlkSz
  BY DEF RootInfo
<1>10. PICK d \in Block : w = d * BlkSz
  BY DEF Base
<1>11. d \in Nat /\ d * BlkSz + k = b * BlkSz + BlkSz
  BY <1>2, <1>5, <1>8, <1>9, <1>10
<1>12. (d * BlkSz + k) % BlkSz = k /\ ((b + 1) * BlkSz) % BlkSz = 0 /\ (b + 1) * BlkSz = b * BlkSz + BlkSz
  BY <1>5, <1>11
<1>13. k = 0
  BY <1>11, <1>12
<1>14. RootInfo = w
  BY <1>8, <1>13, BaseIs
<1> QED BY <1>5, <1>6, <1>9, <1>14, BaseIs

FirstChains == [i \in Inode |-> IF i = 0 THEN <<RootInfo>> ELSE <<>>]

LEMMA InitGood == Init => Good(FirstChains)
<1> SUFFICES ASSUME Init PROVE Good(FirstChains)
  OBVIOUS
<1> DEFINE C == FirstChains
<1>1. RootName \in Base /\ RootInfo \in Base /\ 0 \in Inode /\ Mem \in Nat /\ Mem >= 2 /\ Mem \in 0 .. Mem /\ MaxSize \in Nat
  BY RootIs, Numbers
<1>2. C \in [Inode -> Seq(Base)] /\ C[0] = <<RootInfo>> /\ Len(C[0]) = 1 /\ C[0][1] = RootInfo
      /\ \A i \in Inode : i # 0 => C[i] = <<>> /\ Len(C[i]) = 0
  BY <1>1 DEF FirstChains
<1>3. mem = [a \in Addr |-> 0] /\ \A w \in Base : \A k \in 0 .. Mem : mem[w + k] = 0
  BY BaseIs DEF Init
<1>4. \A w \in Base : mem[w] = 0
  <2>1. \A w \in Base : w + 0 = w
    BY BaseIs
  <2> QED BY <1>1, <1>3, <2>1
<1>5. RootInfo \in Addr
  BY BlkfsAssumption
<1>6. inode = [i \in Inode |-> IF i = 0 THEN [refcnt |-> 1, info |-> RootInfo, size |-> 0, dir |-> TRUE]
                               ELSE [refcnt |-> 0, info |-> 0, size |-> 0, dir |-> FALSE]]
  BY DEF Init
<1>7. inode \in Inodes
  BY <1>1, <1>5, <1>6 DEF Inodes
<1>8. inode[0] = [refcnt |-> 1, info |-> RootInfo, size |-> 0, dir |-> TRUE]
      /\ \A i \in Inode : i # 0 => inode[i] = [refcnt |-> 0, info |-> 0, size |-> 0, dir |-> FALSE]
  BY <1>1, <1>6
<1>9. IsDir(inode, 0) /\ inode[0].info = RootInfo /\ \A i \in Inode : i # 0 => ~IsTaken(inode, i) /\ ~IsDir(inode, i)
  BY <1>1, <1>8 DEF IsTaken, IsDir
<1>10. used \subseteq Block /\ \A w \in Base : w = RootInfo => Marks(used, w)
  BY <1>1, BaseIs DEF Init, Marks
<1>11. \A w \in Base : InChain(C, w) => w = RootInfo
  BY <1>2 DEF InChain
<1>12. Chained(mem, C[0])
  BY <1>1, <1>2, <1>3 DEF Chained
<1> HIDE DEF C
<1>13. Layout(mem, used, inode, C)
  <2>1. mem \in [Addr -> Int]
    BY <1>3
  <2>2. \A i \in Inode : ~IsTaken(inode, i) => C[i] = <<>>
    BY <1>2, <1>9 DEF IsDir
  <2>3. \A i \in Inode : IsTaken(inode, i) => Chained(mem, C[i]) /\ C[i][1] = inode[i].info
    BY <1>2, <1>9, <1>12
  <2>4. \A i \in Inode : IsDir(inode, i) => Len(C[i]) = 1
    BY <1>2, <1>9
  <2>5. \A i, j \in Inode : \A k \in 1 .. Len(C[i]), l \in 1 .. Len(C[j]) : C[i][k] = C[j][l] => i = j /\ k = l
    <3>1. \A i \in Inode : \A k \in 1 .. Len(C[i]) : i = 0 /\ k = 1
      BY <1>2
    <3> QED BY <3>1
  <2> QED BY <1>2, <1>3, <1>7, <1>10, <1>11, <2>1, <2>2, <2>3, <2>4, <2>5 DEF Layout
<1>14. tree = [i \in Inode |-> [n \in Name |-> NULL]] /\ \A i \in Inode, n \in Name : tree[i][n] = NULL
  BY DEF Init
<1>15. \A d \in Inode : IsDir(inode, d) => \A a \in Slots(inode, d) : mem[a] = 0 /\ ~Filled(mem, a)
  <2>1. \A d \in Inode : IsDir(inode, d) => \A a \in Slots(inode, d) : a \in Addr
    BY <1>13, SlotIs
  <2> QED BY <1>3, <2>1 DEF Filled
<1>16. Directories(mem, used, inode, C, tree)
  <2>1. tree \in [Inode -> [Name -> Inode \cup {NULL}]]
    BY <1>14
  <2>2. \A d \in Inode : IsDir(inode, d) => IsDir(inode, mem[inode[d].info])
    BY <1>1, <1>4, <1>9
  <2> QED BY <1>14, <1>15, <2>1, <2>2 DEF Directories
<1>17. text = [i \in Inode |-> <<>>] /\ \A i \in Inode : text[i] = <<>> /\ Len(text[i]) = 0
  BY DEF Init
<1>18. Contents(mem, inode, C, text)
  <2>1. ASSUME NEW i \in Inode PROVE Holds(mem, C[i], text[i])
    <3>1. ASSUME NEW j \in 1 .. Len(C[i]), NEW r \in 0 .. Mem - 1 PROVE ~(Place(j, r) + 1 <= Len(text[i]))
      <4>1. j \in Nat \ {0} /\ r \in 0 .. Mem
        BY <1>1, <1>2
      <4>2. Place(j, r) \in Nat
        BY <4>1, PlaceIs
      <4> QED BY <1>17, <4>2
    <3> QED BY <3>1 DEF Holds
  <2>2. \A i \in Inode : inode[i].size = 0
    BY <1>8
  <2>3. \A i \in Inode : 0 <= Mem * Len(C[i])
    <3>1. \A i \in Inode : Len(C[i]) \in Nat
      BY <1>2
    <3> QED BY <1>1, <3>1
  <2>4. text \in [Inode -> Seq(Int \cup {NULL})]
    BY <1>17
  <2> QED BY <1>17, <2>1, <2>2, <2>3, <2>4 DEF Contents
<1>19. Handles(inode, C, file)
  BY DEF Init, Handles
<1>20. IsDir(inode, cwd)
  BY <1>9 DEF Init
<1> QED BY <1>13, <1>16, <1>18, <1>19, <1>20 DEF Good, C

-----------------------------------------------------------------------------
(* Every call keeps the invariant                                              *)

\* Only lengths differ.
Resized(I, I2) ==
  /\ I2 \in Inodes
  /\ \A i \in Inode : I2[i].refcnt = I[i].refcnt /\ I2[i].info = I[i].info /\ I2[i].dir = I[i].dir

SameKinds(I, I2) == \A i \in Inode : (IsTaken(I2, i) <=> IsTaken(I, i)) /\ (IsDir(I2, i) <=> IsDir(I, i))

LEMMA SizeKeeps ==
  ASSUME NEW m, NEW u, NEW I, NEW C, NEW tr, NEW I2, Layout(m, u, I, C), Directories(m, u, I, C, tr), Resized(I, I2)
  PROVE  Layout(m, u, I2, C) /\ Directories(m, u, I2, C, tr) /\ SameKinds(I, I2)
<1> USE DEF Resized, SameKinds
<1>1. \A i \in Inode : (IsTaken(I2, i) <=> IsTaken(I, i)) /\ (IsDir(I2, i) <=> IsDir(I, i))
  BY DEF IsTaken, IsDir
<1>2. Stays(m, u, I, C, m, u, I2)
  BY DEF Stays, Layout
<1>3. Layout(m, u, I2, C)
  BY <1>2, LayoutStays
<1>4. Keeps(m, u, I, C, m, u, I2, C)
  BY <1>1 DEF Keeps
<1>5. Directories(m, u, I2, C, tr)
  BY <1>4, DirsKept
<1> QED BY <1>1, <1>3, <1>5

LEMMA ResultOf ==
  ASSUME NEW C, Good(C), NEW path \in Seq(Name \cup {UP})
  PROVE  Lookup(cwd, path) \in Results
BY LookupIs DEF Good, IsDir

LEMMA PathIs ==
  ASSUME NEW path \in Path
  PROVE  /\ path \in Seq(Name \cup {UP}) /\ path # <<>> /\ Len(path) \in Nat /\ Len(path) >= 1
         /\ SubSeq(path, 1, Len(path) - 1) \in Seq(Name \cup {UP}) /\ Last(path) \in Name \cup {UP}
<1>1. path \in Seq(Name \cup {UP}) /\ path # <<>>
  BY BlkfsAssumption
<1>2. Len(path) \in Nat /\ Len(path) >= 1
  BY <1>1
<1>3. SubSeq(path, 1, Len(path) - 1) \in Seq(Name \cup {UP})
  BY <1>1, <1>2
<1>4. Last(path) \in Name \cup {UP}
  BY <1>1, <1>2 DEF Last
<1> QED BY <1>1, <1>2, <1>3, <1>4

\* A file or directory is made, as the inode i.
Makes(C, C2, i, isDir) ==
  /\ Layout(mem', used', inode', C2) /\ Directories(mem', used', inode', C2, tree')
  /\ Contents(mem', inode', C2, text)
  /\ i \in Inode /\ IsTaken(inode', i) /\ (IsDir(inode', i) <=> isDir) /\ ~IsTaken(inode, i)
  /\ \A j \in Inode : j # i => inode'[j] = inode[j] /\ C2[j] = C[j]

\* A new directory knows the one it is in, and the others what they knew.
MakesDir(d, n, i, isDir) ==
  /\ IsDir(inode, d) /\ n \in Name /\ tree[d][n] = NULL /\ tree' = [tree EXCEPT ![d][n] = i]
  /\ \A e \in Inode : IsDir(inode, e) => inode'[e].info = inode[e].info /\ mem'[inode[e].info] = mem[inode[e].info]
  /\ isDir => mem'[inode'[i].info] = d

LEMMA MadeMakes ==
  ASSUME NEW C, Good(C), NEW r \in Results, r.is = "absent", NEW isDir \in BOOLEAN, Made(r, isDir)
  PROVE  /\ \E C2 : Makes(C, C2, Least(NewInode), isDir)
         /\ MakesDir(r.dir, r.name, Least(NewInode), isDir)
<1> DEFINE b == NewBlock(used)
           c == NewBlock(Marked(used, b))
           i == Least(NewInode)
           v == IF isDir THEN r.dir ELSE 0
           m1 == [mem EXCEPT ![c] = v]
           u1 == Marked(used, c)
           C2 == [C EXCEPT ![i] = <<c>>]
           d == r.dir
           a == r.slot
           n == r.name
<1>1. Layout(mem, used, inode, C) /\ Directories(mem, used, inode, C, tree) /\ Contents(mem, inode, C, text)
  BY DEF Good
<1>2. IsDir(inode, d) /\ d \in Inode /\ a = Entry(d, n) /\ n \in Name /\ a \in Slots(inode, d) /\ mem[a] = 0
  BY FoundIs
<1>3. b \in Base /\ ~Marks(used, b)
  BY NewBlockIs DEF Made
<1>4. c \in Base /\ ~Marks(Marked(used, b), c)
  BY NewBlockIs DEF Made
<1>5. used \subseteq Block /\ mem \in [Addr -> Int] /\ C \in [Inode -> Seq(Base)] /\ inode \in Inodes
  BY <1>1 DEF Layout
<1>6. c # b /\ ~Marks(used, c)
  BY <1>3, <1>4, <1>5, MarkedIs
<1>7. i \in Inode /\ ~IsTaken(inode, i)
  <2>1. NewInode # {} /\ NewInode \subseteq Nat /\ NewInode \subseteq Inode
    BY Numbers DEF Made, NewInode
  <2>2. i \in NewInode
    BY <2>1, LeastIs
  <2> QED BY <2>1, <2>2 DEF NewInode, IsTaken
<1>8. mem' = [mem EXCEPT ![a] = b, ![b] = i, ![b + 1] = n, ![c] = v]
  BY DEF Made
<1>9. used' = Marked(Marked(used, b), c)
  BY DEF Made
<1>10. inode' = [inode EXCEPT ![i] = [refcnt |-> 1, info |-> c, size |-> 0, dir |-> isDir]]
  BY DEF Made
<1>11. tree' = [tree EXCEPT ![d][n] = i]
  BY DEF Made
<1> HIDE DEF b, c, i
<1>12. v \in Int /\ (isDir => IsDir(inode, v))
  <2>0. d \in Nat
    BY <1>2, Numbers, Zenon
  <2>1. d \in Int /\ 0 \in Int /\ IsDir(inode, d)
    BY <1>2, <2>0
  <2>2. CASE isDir
    <3>1. v = d
      BY <2>2
    <3> QED BY <2>1, <3>1
  <2>3. CASE ~isDir
    <3>1. v = 0
      BY <2>3
    <3> QED BY <2>1, <2>3, <3>1
  <2> QED BY <2>2, <2>3
<1> HIDE DEF v
<1>13. Born(mem, used, inode, C, m1, u1, inode', C2, i, c, v, isDir)
  BY <1>4, <1>6, <1>7, <1>10, <1>12 DEF Born
<1>14. BornFacts(mem, used, inode, C, m1, u1, inode', C2, i, c, v, isDir)
  BY <1>1, <1>13, BornIs
<1>15. Layout(m1, u1, inode', C2)
  BY <1>1, <1>13, BornLayout
<1>16. Keeps(mem, used, inode, C, m1, u1, inode', C2)
  BY <1>1, <1>13, BornKeeps
<1>17. Directories(m1, u1, inode', C2, tree)
  BY <1>1, <1>16, DirsKept
<1> HIDE DEF m1, u1, C2
<1>18. IsDir(inode', d) /\ Slots(inode', d) = Slots(inode, d)
  BY <1>2, <1>16 DEF Keeps, Slots
<1>19. \A x \in Slots(inode, d) : m1[x] = mem[x]
  <2>1. ASSUME NEW x \in Slots(inode, d) PROVE m1[x] = mem[x]
    <3>1. PICK k \in 1 .. Mem - 1 : x = inode[d].info + k
      BY DEF Slots
    <3>2. k \in 0 .. Mem - 1
      OBVIOUS
    <3> QED BY <1>2, <1>16, <3>1, <3>2 DEF Keeps
  <2> QED BY <2>1
<1>20. EntryKind(d, n, a)
  BY <1>1, <1>2, EntryIs
<1>21. /\ \A x \in Slots(inode, d) : x < a => mem[x] # 0
       /\ \A x \in Slots(inode, d) : Filled(mem, x) => mem[mem[x] + 1] # n
  <2>1. a # NULL
    BY <1>1, <1>2, SlotIs, Numbers
  <2> QED BY <1>2, <1>20, <2>1 DEF EntryKind, Filled
<1>22. \A x \in Slots(inode, d) : Filled(m1, x) => m1[m1[x] + 1] # n
  <2> SUFFICES ASSUME NEW x \in Slots(inode, d), Filled(m1, x) PROVE m1[m1[x] + 1] # n
    OBVIOUS
  <2>1. m1[x] = mem[x] /\ Filled(mem, x)
    BY <1>19 DEF Filled
  <2>2. Named(mem, used, inode, C, tree, d, x)
    BY <1>1, <1>2, <2>1 DEF Directories
  <2>3. m1[mem[x] + 1] = mem[mem[x] + 1]
    BY <1>16, <2>2 DEF Keeps, Named
  <2> QED BY <1>21, <2>1, <2>3
<1>23. ~Marks(u1, b) /\ IsTaken(inode', i)
  BY <1>3, <1>6, <1>14 DEF BornFacts
<1>24. mem' = [m1 EXCEPT ![a] = b, ![b] = i, ![b + 1] = n]
  <2>1. ~InChain(C, c) /\ 0 \in 0 .. Mem /\ 1 \in 0 .. Mem
    BY <1>14, Numbers DEF BornFacts
  <2>2. a # c
    <3>1. a \notin {c + k : k \in 0 .. Mem} /\ c + 0 = c
      BY <1>1, <1>2, <1>4, <2>1, SlotApart, BaseIs
    <3> QED BY <2>1, <3>1
  <2>3. b + 1 # c
    <3>1. c + 0 = c
      BY <1>4, BaseIs
    <3> QED BY <1>3, <1>4, <1>6, <2>1, <3>1, Apart
  <2> QED BY <1>5, <1>6, <1>8, <2>2, <2>3 DEF m1
<1>25. used' = Marked(u1, b)
  BY <1>9 DEF Marked, u1
<1>26. Adds(m1, u1, inode', tree, mem', used', tree', d, a, b, i, n)
  <2>1. ~Filled(m1, a) /\ \A x \in Slots(inode, d) : x < a => m1[x] # 0
    BY <1>2, <1>19, <1>21 DEF Filled
  <2> QED BY <1>2, <1>3, <1>11, <1>18, <1>22, <1>23, <1>24, <1>25, <2>1 DEF Adds
<1>27. Layout(mem', used', inode', C2)
  BY <1>15, <1>26, AddedLayout
<1>28. Directories(mem', used', inode', C2, tree')
  BY <1>15, <1>17, <1>26, AddedDirs
<1>29. AddedWords(m1, inode', C2, u1, mem', d, a, b, i, n)
  BY <1>15, <1>26, AddedIs
<1>30. Unread(mem, inode, C, mem', inode', C2, text)
  <2>1. C[i] = <<>> /\ Len(text[i]) <= Mem * Len(C[i]) /\ text[i] \in Seq(Int \cup {NULL}) /\ inode[i].size = Len(text[i])
    BY <1>1, <1>7 DEF Contents, Layout
  <2>2. Len(text[i]) = 0
    <3>1. Mem * Len(C[i]) = 0
      BY <2>1, Numbers
    <3> QED BY <2>1, <3>1
  <2>3. inode'[i].size = 0
    BY <1>5, <1>7, <1>10 DEF Inodes
  <2>4. \A j \in Inode : j # i => inode'[j] = inode[j] /\ C2[j] = C[j] /\ (IsDir(inode', j) <=> IsDir(inode, j))
    BY <1>14 DEF BornFacts
  <2>5. ASSUME NEW j \in Inode, Len(text[j]) > 0
        PROVE  C2[j] = C[j] /\ \A k \in 1 .. Len(C[j]) : \A x \in 0 .. Mem - 1 : mem'[C[j][k] + x] = mem[C[j][k] + x]
    <3>1. j # i /\ C2[j] = C[j] /\ ~IsDir(inode, j)
      BY <1>1, <2>2, <2>4, <2>5 DEF Contents
    <3>2. j # d
      BY <1>2, <3>1
    <3>3. ASSUME NEW k \in 1 .. Len(C[j]), NEW x \in 0 .. Mem - 1 PROVE mem'[C[j][k] + x] = mem[C[j][k] + x]
      <4>1. C[j][k] \in Base /\ InChain(C, C[j][k]) /\ x \in 0 .. Mem
        BY <1>5, Numbers DEF InChain
      <4>2. C[j][k] # c /\ C[j][k] # b
        BY <1>1, <1>3, <1>6, <4>1 DEF Layout
      <4>3. C[j][k] + x # a
        BY <1>1, <1>2, <3>2, <4>1, SlotApart
      <4>4. mem'[C[j][k] + x] = m1[C[j][k] + x]
        BY <1>29, <4>1, <4>2, <4>3 DEF AddedWords
      <4>5. m1[C[j][k] + x] = mem[C[j][k] + x]
        BY <1>14, <4>1, <4>2 DEF BornFacts
      <4> QED BY <4>4, <4>5
    <3> QED BY <3>1, <3>3
  <2>6. \A j \in Inode : inode'[j].size = inode[j].size
    BY <2>1, <2>2, <2>3, <2>4
  <2>7. \A j \in Inode : IsDir(inode', j) => Len(text[j]) = 0
    BY <1>1, <2>2, <2>4 DEF Contents
  <2> QED BY <2>5, <2>6, <2>7 DEF Unread
<1>31. Contents(mem', inode', C2, text)
  <2>1. C2 \in [Inode -> Seq(Base)]
    BY <1>27 DEF Layout
  <2> QED BY <1>1, <1>30, <2>1, ContentsStay
<1>32. Makes(C, C2, i, isDir)
  BY <1>7, <1>14, <1>27, <1>28, <1>31 DEF Makes, BornFacts
<1>33. ASSUME NEW e \in Inode, IsDir(inode, e)
       PROVE  inode'[e].info = inode[e].info /\ mem'[inode[e].info] = mem[inode[e].info]
  <2>1. IsDir(inode', e) /\ inode'[e].info = inode[e].info /\ \A k \in 0 .. Mem - 1 : m1[inode[e].info + k] = mem[inode[e].info + k]
    BY <1>16, <1>33 DEF Keeps
  <2>2. 0 \in 0 .. Mem - 1 /\ inode[e].info + 0 = inode[e].info
    BY <1>1, <1>33, SlotIs, BaseIs, Numbers
  <2>3. mem'[inode'[e].info] = m1[inode'[e].info]
    BY <1>29, <2>1 DEF AddedWords
  <2> QED BY <2>1, <2>2, <2>3
<1>34. ASSUME isDir PROVE mem'[inode'[i].info] = d
  <2>1. IsDir(inode', i) /\ inode'[i].info = c /\ m1[c] = v
    BY <1>14, <1>34 DEF BornFacts
  <2>2. mem'[inode'[i].info] = m1[inode'[i].info]
    BY <1>7, <1>29, <2>1 DEF AddedWords
  <2>3. v = d
    BY <1>34 DEF v
  <2> QED BY <2>1, <2>2, <2>3
<1>35. tree[d][n] = NULL
  BY <1>1, <1>2, <1>21 DEF Directories
<1>36. MakesDir(d, n, i, isDir)
  BY <1>2, <1>11, <1>33, <1>34, <1>35 DEF MakesDir
<1> QED BY <1>32, <1>36 DEF i

LEMMA Times == \A off, x, y \in Nat : off <= Mem * x /\ x <= y => off <= Mem * y
<1> SUFFICES ASSUME NEW off \in Nat, NEW x \in Nat, NEW y \in Nat, off <= Mem * x, x <= y PROVE off <= Mem * y
  OBVIOUS
<1>1. Mem \in Nat
  BY Numbers
<1>2. PICK z \in Nat : y = x + z
  <2>1. y - x \in Nat /\ y = x + (y - x)
    OBVIOUS
  <2> QED BY <2>1
<1>3. Mem * y = Mem * x + Mem * z /\ Mem * z \in Nat /\ Mem * x \in Nat
  BY <1>1, <1>2
<1>4. Mem * y \in Nat
  BY <1>1
<1> QED BY <1>3, <1>4

LEMMA HandleOpened ==
  ASSUME NEW I, NEW C \in [Inode -> Seq(Base)], NEW F, Handles(I, C, F), NEW h \in Handle, NEW i,
         IsTaken(I, i), ~IsDir(I, i), NEW flags \in {"r", "w", "a"}
  PROVE  Handles(I, C, [F EXCEPT ![h] = [id |-> i, off |-> 0, flags |-> flags]])
<1>1. i \in Inode /\ 0 \in 0 .. MaxSize
  BY Numbers DEF IsTaken
<1>2. 0 <= Mem * Len(C[i])
  BY <1>1, Numbers
<1> DEFINE f == [id |-> i, off |-> 0, flags |-> flags]
           G == [F EXCEPT ![h] = f]
<1>3. f \in [id : Inode, off : 0 .. MaxSize, flags : {"r", "w", "a"}] /\ f.id = i /\ f.off = 0
  BY <1>1
<1> HIDE DEF f
<1>4. G \in [Handle -> [id : Inode, off : 0 .. MaxSize, flags : {"r", "w", "a"}] \cup {NULL}]
  BY <1>3 DEF Handles
<1>5. \A g \in Handle : G[g] = IF g = h THEN f ELSE F[g]
  BY DEF Handles
<1> HIDE DEF G
<1>6. Handles(I, C, G)
  BY <1>2, <1>3, <1>4, <1>5 DEF Handles
<1> QED BY <1>6 DEF G, f

LEMMA HandleMoved ==
  ASSUME NEW I, NEW C, NEW F, Handles(I, C, F), NEW h \in Handle, F[h] # NULL,
         NEW x \in 0 .. MaxSize, x <= Mem * Len(C[F[h].id])
  PROVE  Handles(I, C, [F EXCEPT ![h].off = x])
<1> DEFINE G == [F EXCEPT ![h].off = x]
           R == [id : Inode, off : 0 .. MaxSize, flags : {"r", "w", "a"}]
<1>1. F[h] \in R /\ F \in [Handle -> R \cup {NULL}]
  BY DEF Handles
<1>2. G[h] = [F[h] EXCEPT !.off = x] /\ \A g \in Handle : g # h => G[g] = F[g]
  BY <1>1
<1>3. G[h] \in R /\ G[h].id = F[h].id /\ G[h].off = x
  BY <1>1, <1>2
<1>4. G \in [Handle -> R \cup {NULL}]
  <2>1. \A g \in Handle : G[g] \in R \cup {NULL}
    BY <1>1, <1>2, <1>3
  <2>2. G = [g \in Handle |-> G[g]]
    BY <1>1
  <2> HIDE DEF G
  <2> QED BY <2>1, <2>2
<1> HIDE DEF G
<1>5. ASSUME NEW g \in Handle, G[g] # NULL
      PROVE  IsTaken(I, G[g].id) /\ ~IsDir(I, G[g].id) /\ G[g].off <= Mem * Len(C[G[g].id])
  <2>1. CASE g = h
    BY <1>3, <2>1 DEF Handles
  <2>2. CASE g # h
    BY <1>2, <1>5, <2>2 DEF Handles
  <2> QED BY <2>1, <2>2
<1>6. Handles(I, C, G)
  BY <1>4, <1>5 DEF Handles
<1> QED BY <1>6 DEF G

LEMMA HandlesKept ==
  ASSUME NEW I, NEW C \in [Inode -> Seq(Base)], NEW F, Handles(I, C, F), NEW I2, NEW C2 \in [Inode -> Seq(Base)],
         \A i \in Inode : IsTaken(I, i) =>
           IsTaken(I2, i) /\ (IsDir(I2, i) <=> IsDir(I, i)) /\ Len(C[i]) <= Len(C2[i])
  PROVE  Handles(I2, C2, F)
<1>1. \A i \in Inode : Len(C[i]) \in Nat /\ Len(C2[i]) \in Nat
  OBVIOUS
<1>2. ASSUME NEW h \in Handle, F[h] # NULL
      PROVE  IsTaken(I2, F[h].id) /\ ~IsDir(I2, F[h].id) /\ F[h].off <= Mem * Len(C2[F[h].id])
  <2> DEFINE i == F[h].id
             off == F[h].off
  <2>1. i \in Inode /\ off \in Nat /\ IsTaken(I, i) /\ ~IsDir(I, i) /\ off <= Mem * Len(C[i])
    <3>1. F[h] \in [id : Inode, off : 0 .. MaxSize, flags : {"r", "w", "a"}]
      BY <1>2 DEF Handles
    <3> QED BY <1>2, <3>1, Numbers DEF Handles
  <2> HIDE DEF i, off
  <2>2. Len(C[i]) <= Len(C2[i]) /\ IsTaken(I2, i) /\ ~IsDir(I2, i)
    BY <2>1
  <2>3. Len(C[i]) \in Nat /\ Len(C2[i]) \in Nat
    BY <1>1, <2>1
  <2>4. off <= Mem * Len(C2[i])
    BY <2>1, <2>2, <2>3, Times
  <2> QED BY <2>2, <2>4 DEF i, off
<1> QED BY <1>2 DEF Handles

LEMMA AddedContents ==
  ASSUME NEW m, NEW u, NEW I, NEW C, NEW tr, NEW m2, NEW u2, NEW tr2, NEW d, NEW a, NEW b, NEW i, NEW n, NEW t,
         Layout(m, u, I, C), Adds(m, u, I, tr, m2, u2, tr2, d, a, b, i, n), Contents(m, I, C, t)
  PROVE  Contents(m2, I, C, t)
<1>1. AddedWords(m, I, C, u, m2, d, a, b, i, n)
  BY AddedIs
<1>2. IsDir(I, d) /\ d \in Inode /\ a \in Slots(I, d) /\ b \in Base /\ ~Marks(u, b) /\ C \in [Inode -> Seq(Base)]
  BY DEF Adds, IsDir, IsTaken, Layout
<1>3. ASSUME NEW j \in Inode, Len(t[j]) > 0, NEW k \in 1 .. Len(C[j]), NEW r \in 0 .. Mem - 1
      PROVE  m2[C[j][k] + r] = m[C[j][k] + r]
  <2>1. ~IsDir(I, j)
    BY <1>3 DEF Contents
  <2>2. j # d /\ r \in 0 .. Mem /\ C[j][k] \in Base /\ InChain(C, C[j][k])
    BY <1>2, <2>1, Numbers DEF InChain
  <2>3. C[j][k] # b
    BY <1>2, <2>2 DEF Layout
  <2>4. C[j][k] + r # a
    BY <1>2, <2>2, SlotApart
  <2> QED BY <1>1, <2>2, <2>3, <2>4 DEF AddedWords
<1>4. Unread(m, I, C, m2, I, C, t)
  BY <1>3 DEF Unread, Contents
<1> QED BY <1>2, <1>4, ContentsStay

LEMMA WipedContents ==
  ASSUME NEW m, NEW u, NEW I, NEW C, NEW tr, NEW m2, NEW tr2, NEW d, NEW a, NEW n, NEW t,
         Layout(m, u, I, C), Wipes(m, I, tr, m2, tr2, d, a, n), Contents(m, I, C, t)
  PROVE  Contents(m2, I, C, t)
<1>1. \A x \in Addr : x # a => m2[x] = m[x]
  BY WipedWords
<1>2. IsDir(I, d) /\ d \in Inode /\ a \in Slots(I, d) /\ C \in [Inode -> Seq(Base)]
  BY DEF Wipes, IsDir, IsTaken, Layout
<1>3. ASSUME NEW j \in Inode, Len(t[j]) > 0, NEW k \in 1 .. Len(C[j]), NEW r \in 0 .. Mem - 1
      PROVE  m2[C[j][k] + r] = m[C[j][k] + r]
  <2>1. ~IsDir(I, j)
    BY <1>3 DEF Contents
  <2>2. j # d /\ r \in 0 .. Mem /\ C[j][k] \in Base
    BY <1>2, <2>1, Numbers
  <2>3. C[j][k] + r # a
    BY <1>2, <2>2, SlotApart
  <2>4. C[j][k] + r \in Addr
    BY <2>2, BaseIs
  <2> QED BY <1>1, <2>3, <2>4
<1>4. Unread(m, I, C, m2, I, C, t)
  BY <1>3 DEF Unread, Contents
<1> QED BY <1>2, <1>4, ContentsStay

SetsSize(I, i, s, I2) == I \in Inodes /\ i \in Inode /\ s \in 0 .. MaxSize /\ I2 = [I EXCEPT ![i].size = s]

LEMMA SizeSet ==
  ASSUME NEW I, NEW i, NEW s, NEW I2, SetsSize(I, i, s, I2)
  PROVE  Resized(I, I2) /\ I2[i].size = s /\ (\A j \in Inode : j # i => I2[j] = I[j])
<1> DEFINE R == [refcnt : {0, 1}, info : Addr \cup {0}, size : 0 .. MaxSize, dir : BOOLEAN]
<1> USE DEF SetsSize
<1>1. I \in [Inode -> R]
  BY DEF Inodes
<1>2. I2[i] = [I[i] EXCEPT !.size = s] /\ (\A j \in Inode : j # i => I2[j] = I[j]) /\ I2 = [j \in Inode |-> I2[j]]
  BY <1>1
<1>3. I[i] \in R
  BY <1>1
<1>4. I2[i] \in R /\ I2[i].size = s /\ I2[i].refcnt = I[i].refcnt /\ I2[i].info = I[i].info /\ I2[i].dir = I[i].dir
  BY <1>2, <1>3
<1>5. \A j \in Inode : I2[j] \in R
  BY <1>1, <1>2, <1>4
<1>6. I2 \in [Inode -> R]
  BY <1>2, <1>5
<1>7. \A j \in Inode : I2[j].refcnt = I[j].refcnt /\ I2[j].info = I[j].info /\ I2[j].dir = I[j].dir
  BY <1>2, <1>4
<1> QED BY <1>2, <1>4, <1>6, <1>7 DEF Inodes, Resized

\* What Good says of the calls' files and directories.
LEMMA GoodIs ==
  ASSUME NEW C, Good(C)
  PROVE  /\ Layout(mem, used, inode, C) /\ Directories(mem, used, inode, C, tree)
         /\ Contents(mem, inode, C, text) /\ Handles(inode, C, file)
         /\ IsDir(inode, cwd) /\ IsTaken(inode, cwd) /\ cwd \in Inode
         /\ C \in [Inode -> Seq(Base)] /\ inode \in Inodes /\ mem \in [Addr -> Int]
BY DEF Good, IsDir, IsTaken, Layout

\* Opening to write cuts a file.
Cut(i, flags) ==
  /\ inode' = IF flags = "w" THEN [inode EXCEPT ![i].size = 0] ELSE inode
  /\ text' = IF flags = "w" THEN [text EXCEPT ![i] = <<>>] ELSE text

LEMMA OpenFound ==
  ASSUME NEW C, Good(C), NEW h \in Handle, NEW i, IsTaken(inode, i), ~inode[i].dir, NEW flags \in {"r", "w", "a"},
         Opened(h, i, flags), Cut(i, flags)
  PROVE  /\ Layout(mem, used, inode', C) /\ Directories(mem, used, inode', C, tree)
         /\ Contents(mem, inode', C, text') /\ Handles(inode', C, file') /\ IsDir(inode', cwd)
<1>1. /\ Layout(mem, used, inode, C) /\ Directories(mem, used, inode, C, tree)
      /\ Contents(mem, inode, C, text) /\ Handles(inode, C, file)
      /\ IsDir(inode, cwd) /\ C \in [Inode -> Seq(Base)] /\ inode \in Inodes
  BY GoodIs
<1>2. i \in Inode /\ ~IsDir(inode, i)
  BY DEF IsTaken, IsDir
<1>3. file' = [file EXCEPT ![h] = [id |-> i, off |-> 0, flags |-> flags]]
  BY DEF Opened
<1>4. Handles(inode, C, file')
  BY <1>1, <1>2, <1>3, HandleOpened
<1>7. cwd \in Inode
  BY GoodIs
<1>5. CASE flags # "w"
  <2>1. inode' = inode /\ text' = text
    BY <1>5 DEF Cut
  <2> QED BY <1>1, <1>4, <2>1
<1>6. CASE flags = "w"
  <2>1. inode' = [inode EXCEPT ![i].size = 0] /\ text' = [text EXCEPT ![i] = <<>>]
    BY <1>6 DEF Cut
  <2>9. 0 \in 0 .. MaxSize
    BY Numbers
  <2>2. Resized(inode, inode') /\ inode'[i].size = 0 /\ (\A j \in Inode : j # i => inode'[j] = inode[j])
    <3>1. SetsSize(inode, i, 0, inode')
      BY <1>1, <1>2, <2>1, <2>9 DEF SetsSize
    <3> QED BY <3>1, SizeSet
  <2>3. /\ Layout(mem, used, inode', C) /\ Directories(mem, used, inode', C, tree)
        /\ \A j \in Inode : (IsTaken(inode', j) <=> IsTaken(inode, j)) /\ (IsDir(inode', j) <=> IsDir(inode, j))
    BY <1>1, <2>2, SizeKeeps DEF SameKinds
  <2>4. Handles(inode', C, file')
    <3>1. \A j \in Inode : Len(C[j]) <= Len(C[j])
      BY <1>1
    <3> QED BY <1>1, <1>4, <2>3, <3>1, HandlesKept
  <2>5. text \in [Inode -> Seq(Int \cup {NULL})]
    BY <1>1 DEF Contents
  <2>6. text' \in [Inode -> Seq(Int \cup {NULL})] /\ text'[i] = <<>> /\ Len(text'[i]) = 0 /\ \A j \in Inode : j # i => text'[j] = text[j]
    BY <1>2, <2>1, <2>5
  <2>7. ASSUME NEW j \in Inode
        PROVE  /\ inode'[j].size = Len(text'[j]) /\ Len(text'[j]) <= Mem * Len(C[j])
               /\ (IsDir(inode', j) => Len(text'[j]) = 0) /\ Holds(mem, C[j], text'[j])
    <3>1. CASE j = i
      <4>1. Len(C[j]) \in Nat /\ \A k \in 1 .. Len(C[j]) : k \in Nat \ {0}
        BY <1>1
      <4>2. 0 <= Mem * Len(C[j])
        BY <4>1, Numbers
      <4>3. \A k \in 1 .. Len(C[j]), r \in 0 .. Mem - 1 : ~(Place(k, r) + 1 <= 0)
        <5>1. \A r \in 0 .. Mem - 1 : r \in 0 .. Mem
          BY Numbers
        <5>2. \A k \in 1 .. Len(C[j]), r \in 0 .. Mem - 1 : Place(k, r) \in Nat
          BY <4>1, <5>1, PlaceIs
        <5> QED BY <5>2
      <4> QED BY <2>2, <2>6, <3>1, <4>2, <4>3 DEF Holds
    <3>2. CASE j # i
      BY <1>1, <2>2, <2>3, <2>6, <3>2 DEF Contents
    <3> QED BY <3>1, <3>2
  <2>8. Contents(mem, inode', C, text')
    BY <2>6, <2>7 DEF Contents
  <2> QED BY <1>1, <1>7, <2>3, <2>4, <2>8
<1> QED BY <1>5, <1>6

LEMMA OpenKeeps ==
  ASSUME Inv, NEW h \in Handle, NEW path \in Path, NEW flags \in {"r", "w", "a"}, Open(h, path, flags)
  PROVE  Inv'
<1>1. PICK C : Good(C)
  BY DEF Inv
<1> DEFINE r == Lookup(cwd, path)
<1>2. r \in Results
  BY <1>1, ResultOf, PathIs
<1>3. cwd' = cwd
  BY DEF Open
<1>4. CASE r.is = "found" /\ ~inode[r.id].dir /\ Opened(h, r.id, flags)
           /\ inode' = (IF flags = "w" THEN [inode EXCEPT ![r.id].size = 0] ELSE inode)
           /\ text' = (IF flags = "w" THEN [text EXCEPT ![r.id] = <<>>] ELSE text)
           /\ UNCHANGED <<mem, used, tree, moved, fault>>
  <2>1. IsTaken(inode, r.id)
    BY <1>2, <1>4, FoundIs
  <2>2. /\ Layout(mem, used, inode', C) /\ Directories(mem, used, inode', C, tree)
        /\ Contents(mem, inode', C, text') /\ Handles(inode', C, file') /\ IsDir(inode', cwd)
    <3>1. Cut(r.id, flags) /\ Opened(h, r.id, flags) /\ ~inode[r.id].dir
      BY <1>4 DEF Cut
    <3> QED BY <1>1, <2>1, <3>1, OpenFound
  <2> QED BY <1>3, <1>4, <2>2 DEF Inv, Good
<1>5. CASE r.is = "absent" /\ Made(r, FALSE) /\ Opened(h, Least(NewInode), flags)
           /\ UNCHANGED <<text, moved, fault>>
  <2>1. PICK C2 : Makes(C, C2, Least(NewInode), FALSE)
    BY <1>1, <1>2, <1>5, MadeMakes
  <2> DEFINE i == Least(NewInode)
  <2> HIDE DEF i
  <2>2. /\ Layout(mem', used', inode', C2) /\ Directories(mem', used', inode', C2, tree')
        /\ Contents(mem', inode', C2, text)
        /\ i \in Inode /\ IsTaken(inode', i) /\ ~IsDir(inode', i) /\ ~IsTaken(inode, i)
        /\ \A j \in Inode : j # i => inode'[j] = inode[j] /\ C2[j] = C[j]
    BY <2>1 DEF Makes, i
  <2>3. /\ Handles(inode, C, file) /\ IsDir(inode, cwd) /\ C \in [Inode -> Seq(Base)] /\ cwd \in Inode /\ IsTaken(inode, cwd)
    BY <1>1, GoodIs
  <2>4. C2 \in [Inode -> Seq(Base)]
    BY <2>2 DEF Layout
  <2>5. \A j \in Inode : IsTaken(inode, j) => /\ IsTaken(inode', j) /\ (IsDir(inode', j) <=> IsDir(inode, j))
                                              /\ Len(C[j]) <= Len(C2[j])
    <3>1. \A j \in Inode : IsTaken(inode, j) => j # i
      BY <2>2
    <3>2. \A j \in Inode : Len(C[j]) <= Len(C[j])
      BY <2>3
    <3> QED BY <2>2, <3>1, <3>2 DEF IsTaken, IsDir
  <2>6. Handles(inode', C2, file)
    BY <2>3, <2>4, <2>5, HandlesKept
  <2>7. file' = [file EXCEPT ![h] = [id |-> i, off |-> 0, flags |-> flags]]
    BY <1>5 DEF Opened, i
  <2>8. Handles(inode', C2, file')
    BY <2>2, <2>4, <2>6, <2>7, HandleOpened
  <2>9. IsDir(inode', cwd)
    BY <2>3, <2>5
  <2> QED BY <1>3, <1>5, <2>2, <2>8, <2>9 DEF Inv, Good
<1> QED BY <1>4, <1>5 DEF Open

LEMMA MkdirKeeps ==
  ASSUME Inv, NEW path \in Path, Mkdir(path)
  PROVE  Inv'
<1>1. PICK C : Good(C)
  BY DEF Inv
<1> DEFINE r == Lookup(cwd, path)
           i == Least(NewInode)
<1>2. r \in Results
  BY <1>1, ResultOf, PathIs
<1>3. r.is = "absent" /\ Made(r, TRUE) /\ UNCHANGED <<file, cwd, text>>
  BY DEF Mkdir
<1> HIDE DEF i
<1>4. PICK C2 : Makes(C, C2, i, TRUE)
  BY <1>1, <1>2, <1>3, MadeMakes DEF i
<1>5. /\ Layout(mem', used', inode', C2) /\ Directories(mem', used', inode', C2, tree')
      /\ Contents(mem', inode', C2, text)
      /\ i \in Inode /\ ~IsTaken(inode, i)
      /\ \A j \in Inode : j # i => inode'[j] = inode[j] /\ C2[j] = C[j]
  BY <1>4 DEF Makes
<1>6. /\ Handles(inode, C, file) /\ IsDir(inode, cwd) /\ C \in [Inode -> Seq(Base)] /\ cwd \in Inode /\ IsTaken(inode, cwd)
  BY <1>1, GoodIs
<1>7. C2 \in [Inode -> Seq(Base)]
  BY <1>5 DEF Layout
<1>8. \A j \in Inode : IsTaken(inode, j) => /\ IsTaken(inode', j) /\ (IsDir(inode', j) <=> IsDir(inode, j))
                                            /\ Len(C[j]) <= Len(C2[j])
  <2>1. \A j \in Inode : IsTaken(inode, j) => j # i
    BY <1>5
  <2>2. \A j \in Inode : Len(C[j]) <= Len(C[j])
    BY <1>6
  <2> QED BY <1>5, <2>1, <2>2 DEF IsTaken, IsDir
<1>9. Handles(inode', C2, file)
  BY <1>6, <1>7, <1>8, HandlesKept
<1>10. IsDir(inode', cwd)
  BY <1>6, <1>8
<1> QED BY <1>3, <1>5, <1>9, <1>10 DEF Inv, Good

LEMMA ReadKeeps ==
  ASSUME Inv, NEW h \in Handle, NEW n \in Chunk, Read(h, n)
  PROVE  Inv'
<1>1. PICK C : Good(C)
  BY DEF Inv
<1>2. /\ Layout(mem, used, inode, C) /\ Contents(mem, inode, C, text) /\ Handles(inode, C, file)
      /\ C \in [Inode -> Seq(Base)] /\ inode \in Inodes /\ mem \in [Addr -> Int]
  BY <1>1, GoodIs
<1> DEFINE f == file[h]
           i == f.id
           size == inode[i].size
           q == Asked(f, n)
           got == Got(f, n)
<1>3. CASE q < 0
  <2>1. fault' /\ UNCHANGED <<mem, used, inode, file, cwd, text, tree>>
    BY <1>3 DEF Read, Fails, disk, promise
  <2> QED BY <1>1, <2>1 DEF Inv, Good
<1>4. CASE ~(q < 0)
  <2>1. f # NULL /\ file' = [file EXCEPT ![h].off = @ + Len(got)] /\ UNCHANGED <<mem, used, inode, cwd, text, tree>>
    BY <1>4 DEF Read, disk, promise
  <2>2. /\ i \in Inode /\ f.off \in 0 .. MaxSize /\ IsTaken(inode, i) /\ f.off <= Mem * Len(C[i])
        /\ size \in 0 .. MaxSize /\ size <= Mem * Len(C[i]) /\ n \in Nat /\ MaxSize \in Nat
    <3>1. f \in [id : Inode, off : 0 .. MaxSize, flags : {"r", "w", "a"}]
      BY <1>2, <2>1 DEF Handles
    <3>2. IsTaken(inode, i) /\ f.off <= Mem * Len(C[i])
      BY <1>2, <2>1 DEF Handles
    <3>3. size \in 0 .. MaxSize /\ size <= Mem * Len(C[i])
      BY <1>2, <3>1 DEF Inodes, Contents
    <3>4. n \in Nat /\ MaxSize \in Nat
      BY BlkfsAssumption
    <3> QED BY <3>1, <3>2, <3>3, <3>4
  <2>3. q \in Nat /\ (q = 0 \/ f.off + q <= size)
    <3>1. q = IF f.off > n THEN 0 ELSE IF n + f.off > size THEN size - f.off ELSE n
      BY DEF Asked
    <3> HIDE DEF q, size
    <3> QED BY <1>4, <2>2, <3>1
  <2>4. Chained(mem, C[i]) /\ C[i][1] = inode[i].info
    BY <1>2, <2>2 DEF Layout
  <2>5. Position(C[i], f.off, FindBlock(inode[i].info, f.off))
    BY <2>2, <2>4, FindIs, Numbers
  <2>6. FindBlock(inode[i].info, f.off) \in Int
    <3>1. PICK j \in 1 .. Len(C[i]), r \in 0 .. Mem : FindBlock(inode[i].info, f.off) = C[i][j] + r
      BY <2>5 DEF Position
    <3>2. C[i][j] \in Nat
      BY <1>2, <2>2, BaseIs
    <3> QED BY <3>1, <3>2
  <2>7. Len(got) \in 0 .. q
    <3>1. got = BlockRead(inode[i].info, f.off, q)
      BY DEF Got
    <3> HIDE DEF q, got
    <3> QED BY <1>2, <2>3, <2>6, <3>1, ReadLen
  <2> DEFINE x == f.off + Len(got)
  <2>8. x \in 0 .. MaxSize /\ x <= Mem * Len(C[i])
    <3> HIDE DEF got, q, size
    <3>1. CASE q = 0
      BY <2>2, <2>7, <3>1
    <3>2. CASE f.off + q <= size
      <4>1. x <= size /\ x \in Nat
        BY <2>2, <2>3, <2>7, <3>2
      <4>2. Mem * Len(C[i]) \in Nat
        BY <1>2, <2>2, Numbers
      <4> HIDE DEF x
      <4> QED BY <2>2, <4>1, <4>2
    <3> QED BY <2>3, <3>1, <3>2
  <2>9. file' = [file EXCEPT ![h].off = x]
    BY <2>1
  <2> HIDE DEF x
  <2>10. Handles(inode, C, file')
    <3>1. Handles(inode, C, [file EXCEPT ![h].off = x])
      BY <1>2, <2>1, <2>8, HandleMoved
    <3> QED BY <2>9, <3>1
  <2> QED BY <1>1, <2>1, <2>10 DEF Inv, Good
<1> QED BY <1>3, <1>4

TextLen(t, at, n) == IF at + n > Len(t) THEN at + n ELSE Len(t)

NewWord(j, t, at, n, data) ==
  CASE j \in at + 1 .. at + n -> data[j - at]
    [] j \in 1 .. Lesser(at, Len(t)) -> t[j]
    [] j > at + n -> t[j]
    [] OTHER -> NULL

NewText(t, at, n, data) == [j \in 1 .. TextLen(t, at, n) |-> NewWord(j, t, at, n, data)]

\* The text t with the words data behind its position at.
Overwritten(x, t, at, n, data) ==
  /\ Len(x) = TextLen(t, at, n)
  /\ \A j \in 1 .. Len(x) :
       x[j] = NewWord(j, t, at, n, data)

LEMMA OverwrittenIs ==
  ASSUME NEW t \in Seq(Int \cup {NULL}), NEW at \in Nat, NEW n \in Nat, NEW data \in Seq(Int), Len(data) = n,
         NEW x, x = NewText(t, at, n, data)
  PROVE  x \in Seq(Int \cup {NULL}) /\ Overwritten(x, t, at, n, data)
<1> DEFINE l == IF at + n > Len(t) THEN at + n ELSE Len(t)
           S == Int \cup {NULL}
           e(j) == NewWord(j, t, at, n, data)
<1>1. l \in Nat /\ Len(t) \in Nat /\ (l = at + n \/ (l = Len(t) /\ at + n <= l)) /\ l >= Len(t)
  OBVIOUS
<1>2. ASSUME NEW j \in 1 .. l PROVE e(j) \in S
  <2>1. j \in at + 1 .. at + n => data[j - at] \in S
    BY <1>1
  <2>2. j \in 1 .. Lesser(at, Len(t)) => t[j] \in S
    BY <1>1 DEF Lesser
  <2>3. j > at + n => t[j] \in S
    BY <1>1
  <2>4. NULL \in S
    OBVIOUS
  <2> HIDE DEF S
  <2> QED BY <2>1, <2>2, <2>3, <2>4 DEF NewWord
<1>3. x = [j \in 1 .. l |-> e(j)]
  BY DEF NewText, TextLen
<1> HIDE DEF l, e
<1>4. x \in [1 .. l -> S] /\ \A j \in 1 .. l : x[j] = e(j)
  BY <1>2, <1>3
<1>5. x \in Seq(S) /\ Len(x) = l
  <2>1. l \in Nat
    BY <1>1
  <2>2. x \in [1 .. l -> S]
    BY <1>4
  <2> HIDE DEF S
  <2> QED BY <2>1, <2>2
<1>6. \A j \in 1 .. Len(x) : x[j] = NewWord(j, t, at, n, data)
  BY <1>4, <1>5 DEF e
<1>7. Len(x) = TextLen(t, at, n)
  BY <1>5 DEF l, TextLen
<1> QED BY <1>5, <1>6, <1>7 DEF Overwritten

LEMMA NewWordIn ==
  ASSUME NEW t, Len(t) \in Nat, NEW at \in Nat, NEW n \in Nat, NEW data, NEW j \in at + 1 .. at + n
  PROVE  NewWord(j, t, at, n, data) = data[j - at]
<1>1. ~(j \in 1 .. Lesser(at, Len(t))) /\ ~(j > at + n)
  BY DEF Lesser
<1> QED BY <1>1 DEF NewWord

LEMMA PlaceWithin ==
  ASSUME NEW j \in Nat \ {0}, NEW l \in Nat \ {0}, NEW r \in 0 .. Mem - 1, Place(j, r) < Mem * l
  PROVE  j <= l
<1>1. 0 \in 0 .. Mem /\ r \in 0 .. Mem /\ Mem \in 0 .. Mem /\ l + 1 \in Nat \ {0} /\ Mem \in Nat
  BY Numbers
<1>2. Place(l + 1, 0) = Place(l, Mem) /\ Place(l, Mem) = Mem * l
  BY PlaceIs
<1>3. Place(j, r) = Place(j, 0) + r - 0 /\ Place(j, 0) \in Nat /\ Place(j, r) \in Nat
  BY <1>1, PlaceIs
<1>4. ASSUME j > l PROVE FALSE
  <2>1. j = l + 1 \/ l + 1 < j
    BY <1>4
  <2>2. l + 1 < j => Place(l + 1, 0) < Place(j, r)
    <3>1. 0 \in 0 .. Mem - 1
      BY Numbers
    <3> QED BY <1>1, <3>1, PlaceIs
  <2>3. Place(l + 1, 0) <= Place(j, r)
    <3>1. Place(l + 1, 0) \in Nat
      BY <1>1, PlaceIs
    <3> HIDE DEF Place
    <3> QED BY <1>1, <1>3, <2>1, <2>2, <3>1
  <2>4. Place(l + 1, 0) \in Nat
    BY <1>1, PlaceIs
  <2> QED BY <1>2, <1>3, <2>3, <2>4
<1> QED BY <1>4

\* The text that was written is in the blocks.
LEMMA TextStored ==
  ASSUME NEW C, NEW i, NEW at, NEW data, NEW m, NEW u, NEW c2, Writing(C, i, at, data, m, u, c2, Len(data)),
         NEW t \in Seq(Int \cup {NULL}), Len(t) <= Mem * Len(C[i]), Holds(mem, C[i], t), Len(C[i]) >= 1,
         NEW x, Overwritten(x, t, at, Len(data), data)
  PROVE  Holds(m, c2, x)
<1> DEFINE n == Len(data)
<1>1. /\ i \in Inode /\ Len(c2) \in Nat /\ Len(c2) >= 1 /\ Len(C[i]) \in Nat /\ Len(C[i]) <= Len(c2)
      /\ n \in Nat /\ at \in Nat
  BY WritingIs
<1>2. Grows(mem, used, inode, C, m, u, i, c2) /\ Stored(C[i], at, data, m, c2, n)
  BY DEF Writing
<1> SUFFICES ASSUME NEW j \in 1 .. Len(c2), NEW r \in 0 .. Mem - 1, Place(j, r) + 1 <= Len(x)
             PROVE  x[Place(j, r) + 1] \in {NULL, m[c2[j] + r]}
  BY DEF Holds
<1> DEFINE p == Place(j, r)
<1>3. p \in Nat /\ j \in Nat \ {0}
  <2>1. j \in Nat \ {0} /\ r \in 0 .. Mem
    BY <1>1, Numbers
  <2> QED BY <2>1, PlaceIs
<1>4. /\ at <= p /\ p < at + n => m[c2[j] + r] = data[p - at + 1]
      /\ j <= Len(C[i]) /\ (p < at \/ at + n <= p) => m[c2[j] + r] = mem[C[i][j] + r]
  BY <1>2 DEF Stored
<1>5. p < Len(t) => j <= Len(C[i]) /\ t[p + 1] \in {NULL, mem[C[i][j] + r]}
  <2> SUFFICES ASSUME p < Len(t) PROVE j <= Len(C[i]) /\ t[p + 1] \in {NULL, mem[C[i][j] + r]}
    OBVIOUS
  <2>1. p < Mem * Len(C[i])
    <3>1. Mem * Len(C[i]) \in Nat /\ Len(t) \in Nat
      BY <1>1, Numbers
    <3> HIDE DEF p
    <3> QED BY <1>3, <3>1
  <2>2. j <= Len(C[i])
    <3>1. Len(C[i]) \in Nat \ {0}
      BY <1>1
    <3> QED BY <1>3, <2>1, <3>1, PlaceWithin
  <2>3. j \in 1 .. Len(C[i]) /\ p + 1 <= Len(t)
    BY <1>1, <1>3, <2>2
  <2>4. t[p + 1] \in {NULL, mem[C[i][j] + r]}
    BY <2>3 DEF Holds
  <2> QED BY <2>2, <2>4
<1> HIDE DEF p
<1>6. Len(t) \in Nat /\ Len(x) = TextLen(t, at, n) /\ p + 1 <= Len(x) /\ p + 1 \in 1 .. Len(x)
  BY <1>1, <1>3 DEF Overwritten, TextLen, p
<1>7. x[p + 1] = NewWord(p + 1, t, at, n, data)
  BY <1>6 DEF Overwritten
<1>8. CASE p + 1 \in at + 1 .. at + n
  <2>1. x[p + 1] = data[(p + 1) - at]
    <3>1. NewWord(p + 1, t, at, n, data) = data[(p + 1) - at]
      BY <1>1, <1>6, <1>8, NewWordIn
    <3> QED BY <1>7, <3>1
  <2>2. at <= p /\ p < at + n /\ (p + 1) - at = p - at + 1
    BY <1>1, <1>3, <1>8
  <2> QED BY <1>4, <2>1, <2>2 DEF p
<1>9. CASE ~(p + 1 \in at + 1 .. at + n) /\ p + 1 \in 1 .. Lesser(at, Len(t))
  <2>1. x[p + 1] = t[p + 1]
    BY <1>7, <1>9 DEF NewWord
  <2>2. p < at /\ p < Len(t)
    BY <1>1, <1>3, <1>6, <1>9 DEF Lesser
  <2> QED BY <1>4, <1>5, <2>1, <2>2 DEF p
<1>10. CASE ~(p + 1 \in at + 1 .. at + n) /\ ~(p + 1 \in 1 .. Lesser(at, Len(t))) /\ p + 1 > at + n
  <2>1. x[p + 1] = t[p + 1]
    BY <1>7, <1>10 DEF NewWord
  <2>2. at + n <= p /\ p < Len(t)
    BY <1>1, <1>3, <1>6, <1>10 DEF TextLen
  <2> QED BY <1>4, <1>5, <2>1, <2>2 DEF p
<1>11. CASE ~(p + 1 \in at + 1 .. at + n) /\ ~(p + 1 \in 1 .. Lesser(at, Len(t))) /\ ~(p + 1 > at + n)
  <2>1. x[p + 1] = NULL
    BY <1>7, <1>11 DEF NewWord
  <2> QED BY <2>1 DEF p
<1> QED BY <1>8, <1>9, <1>10, <1>11

LEMMA WordsIs ==
  ASSUME NEW f, f.id \in Inode, NEW pos \in Nat, NEW n \in Nat
  PROVE  Words(f, pos, n) \in Seq(Int) /\ Len(Words(f, pos, n)) = n
<1> DEFINE e(i) == 1000 * (f.id + 1) + (IF f.flags = "a" THEN 500 ELSE 0) + pos + i
<1>1. f.id \in Nat
  BY Numbers
<1>2. \A i \in 1 .. n : e(i) \in Int
  BY <1>1
<1>3. Words(f, pos, n) = [i \in 1 .. n |-> e(i)]
  BY DEF Words
<1> HIDE DEF e
<1>4. Words(f, pos, n) \in [1 .. n -> Int]
  BY <1>2, <1>3
<1> QED BY <1>4

WriteFacts(C, h, n, at) ==
  LET f == file[h]
  IN  /\ f # NULL /\ IsTaken(inode, f.id) /\ ~IsDir(inode, f.id) /\ f.id \in Inode
      /\ at \in Nat /\ n \in Nat /\ at + n <= MaxSize /\ at <= Mem * Len(C[f.id])
      /\ at = (IF f.flags = "a" THEN Len(text[f.id]) ELSE f.off)
      /\ WriteAt(h, n, at)

LEMMA WriteIs ==
  ASSUME NEW C, Good(C), NEW h \in Handle, NEW n \in Chunk, Write(h, n)
  PROVE  \E at : WriteFacts(C, h, n, at)
<1> DEFINE f == file[h]
           i == f.id
           at == IF f.flags = "a" THEN inode[i].size ELSE f.off
<1>1. Contents(mem, inode, C, text) /\ Handles(inode, C, file) /\ inode \in Inodes /\ C \in [Inode -> Seq(Base)]
  BY GoodIs
<1>2. f # NULL /\ WriteAt(h, n, at)
  BY DEF Write
<1>3. f \in [id : Inode, off : 0 .. MaxSize, flags : {"r", "w", "a"}] /\ IsTaken(inode, i) /\ ~IsDir(inode, i)
      /\ f.off <= Mem * Len(C[i])
  BY <1>1, <1>2 DEF Handles
<1>4. i \in Inode /\ inode[i].size \in 0 .. MaxSize /\ inode[i].size = Len(text[i]) /\ inode[i].size <= Mem * Len(C[i])
  BY <1>1, <1>3 DEF Inodes, Contents
<1>5. n \in Nat
  BY BlkfsAssumption
<1>6. at \in Nat /\ at <= Mem * Len(C[i]) /\ at = (IF f.flags = "a" THEN Len(text[i]) ELSE f.off)
  BY <1>3, <1>4
<1>7. at + n <= MaxSize
  BY <1>2, <1>6, Zenon DEF WriteAt
<1> HIDE DEF at
<1>8. WriteFacts(C, h, n, at)
  BY <1>2, <1>3, <1>4, <1>5, <1>6, <1>7 DEF WriteFacts
<1> QED BY <1>8

LEMMA WroteIs ==
  ASSUME NEW h, NEW n, NEW at, WriteAt(h, n, at),
         at = IF file[h].flags = "a" THEN Len(text[file[h].id]) ELSE file[h].off,
         NEW w, w = BlockWrite(inode[file[h].id].info, at, Words(file[h], at, n)), ~w.full
  PROVE  LET f == file[h]
             i == f.id
         IN  /\ mem' = w.mem /\ used' = w.used
             /\ file' = [file EXCEPT ![h].off = at + n]
             /\ inode' = [inode EXCEPT ![i].size = IF at + n > inode[i].size THEN at + n ELSE inode[i].size]
             /\ text' = [text EXCEPT ![i] = NewText(text[i], at, n, Words(f, at, n))]
             /\ UNCHANGED <<cwd, tree>>
<1> DEFINE f == file[h]
           i == f.id
           at2 == IF f.flags = "a" THEN Len(text[i]) ELSE f.off
<1>1. ~BlockWrite(inode[i].info, at, Words(f, at2, n)).full
  OBVIOUS
<1>2. /\ mem' = BlockWrite(inode[i].info, at, Words(f, at2, n)).mem
      /\ used' = BlockWrite(inode[i].info, at, Words(f, at2, n)).used
      /\ file' = [file EXCEPT ![h].off = at + n]
      /\ inode' = [inode EXCEPT ![i].size = IF at + n > inode[i].size THEN at + n ELSE inode[i].size]
      /\ UNCHANGED <<cwd, tree>>
  BY <1>1 DEF WriteAt
<1>3. text' = [text EXCEPT ![i] = NewText(text[i], at2, n, Words(f, at2, n))]
  BY <1>1, Zenon DEF WriteAt, NewText, NewWord, TextLen
<1> QED BY <1>2, <1>3

SameDirs ==
  \A e \in Inode : /\ IsDir(inode', e) <=> IsDir(inode, e)
                   /\ IsDir(inode, e) => inode'[e].info = inode[e].info /\ mem'[inode[e].info] = mem[inode[e].info]

LEMMA WriteKeeps ==
  ASSUME Inv, NEW h \in Handle, NEW n \in Chunk, Write(h, n)
  PROVE  Inv' /\ SameDirs
<1>1. PICK C : Good(C)
  BY DEF Inv
<1>2. /\ Layout(mem, used, inode, C) /\ Directories(mem, used, inode, C, tree)
      /\ Contents(mem, inode, C, text) /\ Handles(inode, C, file)
      /\ IsDir(inode, cwd) /\ cwd \in Inode /\ C \in [Inode -> Seq(Base)] /\ inode \in Inodes
  BY <1>1, GoodIs
<1>3. PICK at : WriteFacts(C, h, n, at)
  BY <1>1, WriteIs
<1> DEFINE f == file[h]
           i == f.id
           t == text[i]
           data == Words(f, at, n)
           w == BlockWrite(inode[i].info, at, data)
<1>4. /\ f # NULL /\ IsTaken(inode, i) /\ ~IsDir(inode, i) /\ i \in Inode
      /\ at \in Nat /\ n \in Nat /\ at + n <= MaxSize /\ at <= Mem * Len(C[i])
      /\ at = (IF f.flags = "a" THEN Len(text[i]) ELSE f.off) /\ WriteAt(h, n, at)
  BY <1>3, Zenon DEF WriteFacts
<1>5. data \in Seq(Int) /\ Len(data) = n
  BY <1>4, WordsIs
<1>6. CASE w.full
  <2>1. Fails
    BY <1>4, <1>6, Zenon DEF WriteAt
  <2> QED BY <1>1, <2>1 DEF Inv, Good, SameDirs, Fails, disk, promise
<1>7. CASE ~w.full
  <2>1. /\ mem' = w.mem /\ used' = w.used
        /\ file' = [file EXCEPT ![h].off = at + n]
        /\ inode' = [inode EXCEPT ![i].size = IF at + n > inode[i].size THEN at + n ELSE inode[i].size]
        /\ text' = [text EXCEPT ![i] = NewText(t, at, n, data)]
        /\ UNCHANGED <<cwd, tree>>
    BY <1>4, <1>7, WroteIs
  <2>2. PICK c2 : Writing(C, i, at, data, w.mem, w.used, c2, Len(data)) /\ at + Len(data) <= Mem * Len(c2)
    <3> HIDE DEF data
    <3> QED BY <1>2, <1>4, <1>5, <1>7, WrittenIs DEF w
  <2> DEFINE C2 == [C EXCEPT ![i] = c2]
             x == NewText(t, at, n, data)
             size == IF at + n > inode[i].size THEN at + n ELSE inode[i].size
  <2>3. Grows(mem, used, inode, C, mem', used', i, c2)
    BY <2>1, <2>2 DEF Writing
  <2>4. /\ Len(c2) \in Nat /\ Len(c2) >= 1 /\ Len(C[i]) \in Nat /\ Len(C[i]) <= Len(c2) /\ c2 \in Seq(Base)
    BY <2>2, WritingIs
  <2> HIDE DEF w, data
  <2>5. Layout(mem', used', inode, C2)
    BY <1>2, <2>3, GrownLayout
  <2>6. Keeps(mem, used, inode, C, mem', used', inode, C2)
    BY <1>2, <2>3, GrownKeeps
  <2>7. Directories(mem', used', inode, C2, tree)
    BY <1>2, <2>6, DirsKept
  <2>8. /\ C2 \in [Inode -> Seq(Base)] /\ C2[i] = c2 /\ \A j \in Inode : j # i => C2[j] = C[j]
    BY <1>2, <1>4, <2>4
  <2> HIDE DEF C2
  <2>9. /\ t \in Seq(Int \cup {NULL}) /\ Len(t) \in Nat /\ Len(t) <= Mem * Len(C[i]) /\ Holds(mem, C[i], t)
        /\ inode[i].size = Len(t) /\ inode[i].size \in 0 .. MaxSize /\ text \in [Inode -> Seq(Int \cup {NULL})]
    <3>1. /\ text \in [Inode -> Seq(Int \cup {NULL})] /\ inode[i].size = Len(t) /\ Len(t) <= Mem * Len(C[i])
          /\ Holds(mem, C[i], t)
      BY <1>2, <1>4 DEF Contents
    <3>2. t \in Seq(Int \cup {NULL}) /\ Len(t) \in Nat
      BY <1>4, <3>1
    <3>3. inode[i].size \in 0 .. MaxSize
      BY <1>2, <1>4 DEF Inodes
    <3> QED BY <3>1, <3>2, <3>3
  <2>10. x \in Seq(Int \cup {NULL}) /\ Overwritten(x, t, at, n, data)
    BY <1>4, <1>5, <2>9, OverwrittenIs
  <2>11. Len(C[i]) >= 1
    BY <1>2, <1>4 DEF Layout, Chained
  <2>12. Holds(mem', c2, x)
    <3>1. Holds(w.mem, c2, x)
      BY <1>5, <2>2, <2>9, <2>10, <2>11, TextStored
    <3> QED BY <2>1, <3>1
  <2>13. Len(x) = size /\ size \in 0 .. MaxSize
    <3>1. Len(x) = IF at + n > Len(t) THEN at + n ELSE Len(t)
      BY <2>10 DEF Overwritten, TextLen
    <3>2. at + n \in 0 .. MaxSize
      BY <1>4
    <3> HIDE DEF x, t
    <3> QED BY <2>9, <3>1, <3>2
  <2>14. Len(x) <= Mem * Len(c2) /\ at + n <= Mem * Len(c2)
    <3>1. at + n <= Mem * Len(c2)
      BY <1>5, <2>2
    <3>2. Len(t) <= Mem * Len(c2)
      BY <2>4, <2>9, Times
    <3>3. Len(x) = at + n \/ Len(x) = Len(t)
      BY <2>10 DEF Overwritten, TextLen
    <3> HIDE DEF x, t
    <3> QED BY <3>1, <3>2, <3>3
  <2> HIDE DEF x, size
  <2>15. Resized(inode, inode') /\ inode'[i].size = size /\ \A j \in Inode : j # i => inode'[j] = inode[j]
    <3>1. SetsSize(inode, i, size, inode')
      BY <1>2, <1>4, <2>1, <2>13 DEF SetsSize, size
    <3> QED BY <3>1, SizeSet
  <2>16. Layout(mem', used', inode', C2) /\ Directories(mem', used', inode', C2, tree) /\ SameKinds(inode, inode')
    BY <2>5, <2>7, <2>15, SizeKeeps
  <2>17. text' \in [Inode -> Seq(Int \cup {NULL})] /\ text'[i] = x /\ \A j \in Inode : j # i => text'[j] = text[j]
    <3>1. text' = [text EXCEPT ![i] = x]
      BY <2>1 DEF x
    <3> QED BY <1>4, <2>9, <2>10, <3>1
  <2>18. ASSUME NEW j \in Inode
         PROVE  /\ inode'[j].size = Len(text'[j]) /\ Len(text'[j]) <= Mem * Len(C2[j])
                /\ (IsDir(inode', j) => Len(text'[j]) = 0) /\ Holds(mem', C2[j], text'[j])
    <3>1. CASE j = i
      BY <1>4, <2>8, <2>12, <2>13, <2>14, <2>15, <2>16, <2>17, <3>1 DEF SameKinds
    <3>2. CASE j # i
      <4>1. inode'[j] = inode[j] /\ text'[j] = text[j] /\ C2[j] = C[j] /\ (IsDir(inode', j) <=> IsDir(inode, j))
        BY <2>8, <2>15, <2>16, <2>17, <3>2 DEF SameKinds
      <4>2. /\ inode[j].size = Len(text[j]) /\ Len(text[j]) <= Mem * Len(C[j])
            /\ (IsDir(inode, j) => Len(text[j]) = 0) /\ Holds(mem, C[j], text[j])
        BY <1>2 DEF Contents
      <4>3. \A k \in 1 .. Len(C[j]) : \A r \in 0 .. Mem - 1 : mem'[C[j][k] + r] = mem[C[j][k] + r]
        <5>1. GrownFacts(mem, used, inode, C, mem', c2, i)
          BY <1>2, <2>3, GrownIs
        <5>2. \A r \in 0 .. Mem - 1 : r \in 0 .. Mem
          BY Numbers
        <5> QED BY <3>2, <5>1, <5>2 DEF GrownFacts
      <4>4. Holds(mem', C[j], text[j])
        BY <4>2, <4>3 DEF Holds
      <4> QED BY <4>1, <4>2, <4>4
    <3> QED BY <3>1, <3>2
  <2>19. Contents(mem', inode', C2, text')
    BY <2>17, <2>18 DEF Contents
  <2>20. Handles(inode', C2, file)
    <3>1. \A j \in Inode : IsTaken(inode, j) =>
            IsTaken(inode', j) /\ (IsDir(inode', j) <=> IsDir(inode, j)) /\ Len(C[j]) <= Len(C2[j])
      <4>1. \A j \in Inode : Len(C[j]) <= Len(C[j])
        BY <1>2
      <4> QED BY <2>4, <2>8, <2>16, <4>1 DEF SameKinds
    <3> QED BY <1>2, <2>8, <3>1, HandlesKept
  <2>21. Handles(inode', C2, file')
    <3>1. at + n \in 0 .. MaxSize
      <4>1. at \in Nat /\ n \in Nat /\ at + n <= MaxSize
        BY <1>4, Zenon
      <4> QED BY <4>1, Numbers
    <3>3. at + n <= Mem * Len(C2[i])
      BY <2>8, <2>14
    <3>2. Handles(inode', C2, [file EXCEPT ![h].off = at + n])
      BY <1>4, <2>20, <3>1, <3>3, HandleMoved
    <3> QED BY <2>1, <3>2
  <2>22. IsDir(inode', cwd)
    BY <1>2, <2>16 DEF SameKinds
  <2>23. cwd' = cwd /\ tree' = tree
    BY <2>1
  <2>24. SameDirs
    <3>1. ASSUME NEW e \in Inode, IsDir(inode, e)
          PROVE  inode'[e].info = inode[e].info /\ mem'[inode[e].info] = mem[inode[e].info]
      <4>1. \A k \in 0 .. Mem - 1 : mem'[inode[e].info + k] = mem[inode[e].info + k]
        BY <2>6, <3>1 DEF Keeps
      <4>2. 0 \in 0 .. Mem - 1 /\ inode[e].info + 0 = inode[e].info
        <5>1. inode[e].info \in Base
          BY <1>2, <3>1, SlotIs
        <5>2. \A v \in Base : v + 0 = v
          BY BaseIs
        <5> QED BY <5>1, <5>2, Numbers
      <4>3. inode'[e].info = inode[e].info
        BY <2>15 DEF Resized
      <4> QED BY <4>1, <4>2, <4>3
    <3> QED BY <2>16, <3>1 DEF SameDirs, SameKinds
  <2>25. Inv'
    BY <2>16, <2>19, <2>21, <2>22, <2>23 DEF Inv, Good
  <2> QED BY <2>24, <2>25
<1> QED BY <1>6, <1>7

Linked(old, path) ==
  \/ Fails
  \/ \E d, a, b : Adds(mem, used, inode, tree, mem', used', tree', d, a, b, Lookup(cwd, old).id, Last(path))

LEMMA LinkKeeps ==
  ASSUME Inv, NEW path \in Path, NEW old \in Path, Link(old, path)
  PROVE  Inv' /\ Linked(old, path)
<1>1. PICK C : Good(C)
  BY DEF Inv
<1>2. /\ Layout(mem, used, inode, C) /\ Directories(mem, used, inode, C, tree)
      /\ Contents(mem, inode, C, text) /\ Handles(inode, C, file)
      /\ IsDir(inode, cwd) /\ IsTaken(inode, cwd) /\ cwd \in Inode
  BY <1>1, GoodIs
<1> DEFINE p == Parent(path)
           o == Lookup(cwd, old)
           b == NewBlock(used)
           n == Last(path)
           d == p.id
           free == {a \in {inode[d].info + k : k \in 1 .. Mem - 1} : mem[a] \in {0, Wipe}}
           a == Least(free)
<1>3. p \in Results /\ o \in Results
  BY <1>1, ResultOf, PathIs DEF Parent
<1>4. p.is = "found" /\ inode[d].dir /\ Lookup(d, <<n>>).is = "absent" /\ n # UP /\ o.is = "found"
  BY DEF Link
<1>5. IsDir(inode, d) /\ IsTaken(inode, d) /\ IsTaken(inode, o.id) /\ n \in Name
  BY <1>3, <1>4, FoundIs, PathIs DEF IsDir
<1>6. CASE b = 0 \/ free = {}
  <2>1. Fails
    BY <1>6 DEF Link
  <2>2. Inv'
    BY <1>1, <2>1 DEF Inv, Good, Fails, disk, promise
  <2> QED BY <2>1, <2>2 DEF Linked
<1>7. CASE ~(b = 0 \/ free = {})
  <2>1. /\ mem' = [mem EXCEPT ![a] = b, ![b] = o.id, ![b + 1] = n]
        /\ used' = Marked(used, b) /\ tree' = [tree EXCEPT ![d][n] = o.id]
        /\ UNCHANGED <<inode, file, cwd, text>>
    BY <1>7 DEF Link
  <2>2. b \in Base /\ ~Marks(used, b)
    BY <1>7, NewBlockIs
  <2>3. free = {x \in Slots(inode, d) : mem[x] \in {0, Wipe}}
    BY DEF Slots
  <2>4. free # {} /\ free \subseteq Nat
    BY <1>2, <1>5, <1>7, <2>3, SlotIs
  <2>5. a \in free /\ \A x \in free : a <= x
    <3> HIDE DEF free
    <3> QED BY <2>4, LeastIs
  <2>6. a \in Slots(inode, d) /\ ~Filled(mem, a) /\ \A x \in Slots(inode, d) : x < a => mem[x] # 0
    <3>1. \A x \in Slots(inode, d) : x \in Nat
      BY <1>2, <1>5, SlotIs
    <3> HIDE DEF a, free
    <3> QED BY <2>3, <2>4, <2>5, <3>1 DEF Filled
  <2>7. \A x \in Slots(inode, d) : Filled(mem, x) => mem[mem[x] + 1] # n
    <3>1. <<n>> \in Seq(Name \cup {UP}) /\ Len(<<n>>) = 1 /\ <<n>>[1] = n
      BY <1>5
    <3>2. PICK f : AlongIs(d, <<n>>, f) /\ Lookup(d, <<n>>) = f[Len(<<n>>)]
      <4> HIDE DEF d, n
      <4> QED BY <1>2, <1>5, <3>1, LookupAlong
    <3>3. f[1] = Onward(f[0], n, TRUE) /\ f[0] = Found(d) /\ Lookup(d, <<n>>) = f[1]
      <4> HIDE DEF d, n
      <4>1. 0 \in 0 .. Len(<<n>>) /\ 1 \in 0 .. Len(<<n>>) /\ 1 - 1 = 0 /\ 1 # 0
        BY <3>1
      <4>2. f[0] = Found(d)
        BY <3>2, <4>1 DEF AlongIs
      <4>3. f[1] = Onward(f[1 - 1], <<n>>[1], 1 = Len(<<n>>))
        BY <3>2, <4>1 DEF AlongIs
      <4>4. (1 = Len(<<n>>)) = TRUE /\ Lookup(d, <<n>>) = f[1]
        BY <3>1, <3>2
      <4> QED BY <3>1, <4>1, <4>2, <4>3, <4>4, Zenon
    <3>4. Onward(Found(d), n, TRUE).is = "absent"
      BY <1>4, <3>3
    <3> DEFINE e == Entry(d, n)
    <3>5. e # NULL /\ mem[e] = 0
      <4> HIDE DEF d, n, e
      <4> QED BY <1>4, <1>5, <3>4 DEF Onward, Found, e
    <3>6. EntryKind(d, n, e)
      <4> HIDE DEF d, n
      <4> QED BY <1>2, <1>5, EntryIs
    <3> HIDE DEF e, d, n
    <3> QED BY <3>5, <3>6 DEF EntryKind, Filled
  <2> HIDE DEF a, b, d, n, o, free
  <2>8. Adds(mem, used, inode, tree, mem', used', tree', d, a, b, o.id, n)
    BY <1>5, <2>1, <2>2, <2>6, <2>7 DEF Adds
  <2>9. Layout(mem', used', inode, C)
    BY <1>2, <2>8, AddedLayout
  <2>10. Directories(mem', used', inode, C, tree')
    BY <1>2, <2>8, AddedDirs
  <2>11. Contents(mem', inode, C, text)
    BY <1>2, <2>8, AddedContents
  <2>12. Linked(old, path)
    BY <2>8 DEF Linked, o, n
  <2> QED BY <1>2, <2>1, <2>9, <2>10, <2>11, <2>12 DEF Inv, Good
<1> QED BY <1>6, <1>7

Removed(path, isDir) ==
  \E d, a : Wipes(mem, inode, tree, mem', tree', d, a, Last(path)) /\ inode[mem[mem[a]]].dir = isDir

LEMMA RemoveKeeps ==
  ASSUME Inv, NEW path \in Path, NEW isDir, Remove(path, isDir)
  PROVE  Inv' /\ Removed(path, isDir)
<1>1. PICK C : Good(C)
  BY DEF Inv
<1>2. /\ Layout(mem, used, inode, C) /\ Directories(mem, used, inode, C, tree)
      /\ Contents(mem, inode, C, text) /\ Handles(inode, C, file)
      /\ IsDir(inode, cwd) /\ IsTaken(inode, cwd) /\ cwd \in Inode
  BY <1>1, GoodIs
<1> DEFINE p == Parent(path)
           n == Last(path)
           d == p.id
           a == Entry(d, n)
<1>3. p \in Results
  BY <1>1, ResultOf, PathIs DEF Parent
<1>4. /\ p.is = "found" /\ inode[d].dir /\ n # UP /\ a # NULL /\ mem[a] # 0
      /\ mem' = [mem EXCEPT ![a] = Wipe] /\ tree' = [tree EXCEPT ![d][n] = NULL]
      /\ inode[mem[mem[a]]].dir = isDir
      /\ UNCHANGED <<used, inode, file, cwd, text>>
  BY DEF Remove, RemoveWith
<1>5. IsDir(inode, d) /\ n \in Name
  BY <1>3, <1>4, FoundIs, PathIs DEF IsDir
<1> HIDE DEF p, n, d
<1>6. EntryKind(d, n, a)
  BY <1>2, <1>5, EntryIs
<1> HIDE DEF a
<1>7. a \in Slots(inode, d) /\ Filled(mem, a) /\ mem[mem[a] + 1] = n
  BY <1>4, <1>6 DEF EntryKind
<1>8. Wipes(mem, inode, tree, mem', tree', d, a, n)
  BY <1>4, <1>5, <1>7 DEF Wipes
<1>9. Layout(mem', used, inode, C)
  BY <1>2, <1>8, WipedLayout
<1>10. Directories(mem', used, inode, C, tree')
  BY <1>2, <1>8, WipedDirs
<1>11. Contents(mem', inode, C, text)
  BY <1>2, <1>8, WipedContents
<1>12. Removed(path, isDir)
  BY <1>4, <1>8 DEF Removed, n
<1> QED BY <1>2, <1>4, <1>9, <1>10, <1>11, <1>12 DEF Inv, Good

LEMMA OthersKeep ==
  ASSUME Inv, \/ \E h \in Handle : Close(h)
              \/ \E path \in Path : Exhaust(path) \/ Chdir(path)
  PROVE  Inv'
<1>1. PICK C : Good(C)
  BY DEF Inv
<1>2. CASE \E h \in Handle : Close(h)
  <2>1. PICK h \in Handle : file' = [file EXCEPT ![h] = NULL]
    BY <1>2 DEF Close
  <2>2. UNCHANGED <<mem, used, inode, cwd, text, tree>>
    BY <1>2 DEF Close, disk, promise
  <2>3. Handles(inode, C, file)
    BY <1>1, GoodIs
  <2>4. \A g \in Handle : file'[g] = IF g = h THEN NULL ELSE file[g]
    BY <2>1, <2>3 DEF Handles
  <2>5. file' \in [Handle -> [id : Inode, off : 0 .. MaxSize, flags : {"r", "w", "a"}] \cup {NULL}]
    BY <2>1, <2>3 DEF Handles
  <2>6. Handles(inode, C, file')
    BY <2>3, <2>4, <2>5 DEF Handles
  <2> QED BY <1>1, <2>2, <2>6 DEF Inv, Good
<1>3. CASE \E path \in Path : Exhaust(path)
  <2>1. UNCHANGED <<mem, used, inode, file, cwd, text, tree>>
    BY <1>3 DEF Exhaust, Fails, disk, promise
  <2> QED BY <1>1, <2>1 DEF Inv, Good
<1>4. CASE \E path \in Path : Chdir(path)
  <2>1. PICK path \in Path : Chdir(path)
    BY <1>4
  <2> DEFINE r == Lookup(cwd, path)
  <2>2. r \in Results
    BY <1>1, ResultOf, PathIs
  <2>3. r.is = "found" /\ inode[r.id].dir /\ cwd' = r.id /\ UNCHANGED <<mem, used, inode, file, text, tree>>
    BY <2>1 DEF Chdir, disk, promise
  <2>4. IsDir(inode, r.id)
    BY <2>2, <2>3, FoundIs DEF IsDir
  <2> QED BY <1>1, <2>3, <2>4 DEF Inv, Good
<1> QED BY <1>2, <1>3, <1>4

LEMMA InvHolds == Spec => []Inv
<1>1. Init => Inv
  BY InitGood DEF Inv
<1>2. Inv /\ [Next]_vars => Inv'
  <2> SUFFICES ASSUME Inv, [Next]_vars PROVE Inv'
    OBVIOUS
  <2>1. ASSUME NEW h \in Handle, NEW path \in Path, NEW flags \in {"r", "w", "a"}, Open(h, path, flags) PROVE Inv'
    BY <2>1, OpenKeeps
  <2>2. ASSUME NEW h \in Handle, NEW n \in Chunk, Read(h, n) PROVE Inv'
    BY <2>2, ReadKeeps
  <2>3. ASSUME NEW h \in Handle, NEW n \in Chunk, Write(h, n) PROVE Inv'
    BY <2>3, WriteKeeps
  <2>4. ASSUME NEW h \in Handle, Close(h) PROVE Inv'
    BY <2>4, OthersKeep
  <2>5. ASSUME NEW path \in Path, Mkdir(path) PROVE Inv'
    BY <2>5, MkdirKeeps
  <2>6. ASSUME NEW path \in Path, Exhaust(path) \/ Chdir(path) PROVE Inv'
    BY <2>6, OthersKeep
  <2>7. ASSUME NEW path \in Path, Unlink(path) \/ Rmdir(path) PROVE Inv'
    BY <2>7, RemoveKeeps DEF Unlink, Rmdir
  <2>8. ASSUME NEW path \in Path, NEW old \in Path, Link(old, path) PROVE Inv'
    BY <2>8, LinkKeeps
  <2>9. CASE UNCHANGED vars
    <3>1. UNCHANGED <<mem, used, inode, file, cwd, text, tree>>
      BY <2>9 DEF vars
    <3> QED BY <3>1 DEF Inv, Good
  <2> QED BY <2>1, <2>2, <2>3, <2>4, <2>5, <2>6, <2>7, <2>8, <2>9 DEF Next
<1> QED BY <1>1, <1>2, PTL DEF Spec

-----------------------------------------------------------------------------
(* What the calls promise                                                      *)

\* The table, the bitmap, the working directory and the open files are of their types,
\* after any calls of blkfs.c.
THEOREM TypeHolds == Spec => []TypeOK
<1>1. Inv => TypeOK
  <2> SUFFICES ASSUME NEW C, Good(C) PROVE TypeOK
    BY DEF Inv
  <2>1. Layout(mem, used, inode, C) /\ Handles(inode, C, file) /\ cwd \in Inode /\ mem \in [Addr -> Int] /\ inode \in Inodes
    BY GoodIs
  <2>2. ASSUME NEW h \in Handle, file[h] # NULL
        PROVE  file[h].id \in Inode /\ inode[file[h].id].refcnt = 1 /\ file[h].off \in 0 .. MaxSize
    <3>1. file[h] \in [id : Inode, off : 0 .. MaxSize, flags : {"r", "w", "a"}]
      BY <2>1, <2>2 DEF Handles
    <3> QED BY <2>1, <2>2, <3>1 DEF Handles, IsTaken
  <2> QED BY <2>1, <2>2 DEF TypeOK, Layout, Inodes
<1> QED BY <1>1, InvHolds, PTL

LEMMA FilesAre ==
  /\ \A i : i \in Taken <=> IsTaken(inode, i)
  /\ \A i : i \in Dirs <=> IsDir(inode, i)
  /\ \A i : i \in Files <=> IsTaken(inode, i) /\ ~IsDir(inode, i)
  /\ \A d : Entries(d) = {a \in Slots(inode, d) : Filled(mem, a)}
BY DEF Taken, Dirs, Files, IsTaken, IsDir, Entries, Slots, Filled

\* After any calls of blkfs.c that create, link and remove in any order, a directory
\* finds exactly the names it was given.
THEOREM NamesHold == Spec => []NamesKept
<1>1. Inv => NamesKept
  <2> SUFFICES ASSUME NEW C, Good(C), NEW d, IsDir(inode, d), NEW n \in Name
               PROVE  IF Entry(d, n) # NULL /\ mem[Entry(d, n)] # 0
                      THEN tree[d][n] = mem[mem[Entry(d, n)]] ELSE tree[d][n] = NULL
    BY FilesAre DEF Inv, NamesKept
  <2> DEFINE a == Entry(d, n)
  <2>1. Layout(mem, used, inode, C) /\ Directories(mem, used, inode, C, tree) /\ d \in Inode
    BY GoodIs DEF IsDir, IsTaken
  <2>2. EntryKind(d, n, a)
    BY <2>1, EntryIs
  <2> HIDE DEF a
  <2>3. CASE a # NULL /\ mem[a] # 0
    <3>1. a \in Slots(inode, d) /\ Filled(mem, a) /\ mem[mem[a] + 1] = n
      BY <2>2, <2>3 DEF EntryKind
    <3>2. Named(mem, used, inode, C, tree, d, a)
      BY <2>1, <3>1 DEF Directories
    <3> QED BY <2>3, <3>1, <3>2 DEF Named, a
  <2>4. CASE ~(a # NULL /\ mem[a] # 0)
    <3>1. \A b \in Slots(inode, d) : Filled(mem, b) => mem[mem[b] + 1] # n
      BY <2>2, <2>4 DEF EntryKind, Filled
    <3>2. tree[d][n] = NULL
      BY <2>1, <3>1 DEF Directories
    <3> QED BY <2>4, <3>2 DEF a
  <2> QED BY <2>3, <2>4
<1> QED BY <1>1, InvHolds, PTL

ChainSteps(off, f) ==
  f = [k \in Nat |-> IF k = 0 THEN <<off>>
                     ELSE LET c == f[k - 1]
                              n == mem[c[Len(c)] + Mem]
                          IN  IF n = 0 THEN c ELSE Append(c, n)]

\* Chain walks the chain that the calls built.
LEMMA ChainIs ==
  ASSUME NEW c, Chained(mem, c), \A k, l \in 1 .. Len(c) : c[k] = c[l] => k = l
  PROVE  Chain(c[1]) = c
<1> DEFINE L == Len(c)
           top(k) == Lesser(k + 1, L)
           part(k) == SubSeq(c, 1, top(k))
           f == [k \in Nat |-> part(k)]
           next(s) == IF mem[s[Len(s)] + Mem] = 0 THEN s ELSE Append(s, mem[s[Len(s)] + Mem])
<1>1. c \in Seq(Base) /\ L \in Nat /\ L >= 1 /\ \A k \in 1 .. L : c[k] \in Base /\ mem[c[k] + Mem] = IF k = L THEN 0 ELSE c[k + 1]
  BY DEF Chained
<1>2. ASSUME NEW k \in Nat PROVE top(k) \in 1 .. L /\ (k + 1 <= L => top(k) = k + 1) /\ (k + 1 >= L => top(k) = L)
  BY <1>1 DEF Lesser
<1> HIDE DEF L, top
<1>3. ASSUME NEW k \in Nat PROVE part(k) \in Seq(Base) /\ Len(part(k)) = top(k) /\ \A i \in 1 .. top(k) : part(k)[i] = c[i]
  <2> DEFINE z == top(k)
  <2>1. z \in 1 .. L /\ z \in Nat /\ part(k) = SubSeq(c, 1, z)
    BY <1>1, <1>2
  <2> HIDE DEF z, part
  <2>2. z <= Len(c) /\ c \in Seq(Base) /\ z >= 1
    BY <1>1, <2>1 DEF L
  <2>3. SubSeq(c, 1, z) \in Seq(Base) /\ Len(SubSeq(c, 1, z)) = z /\ \A i \in 1 .. z : SubSeq(c, 1, z)[i] = c[i]
    BY <2>1, <2>2
  <2> QED BY <2>1, <2>3 DEF z
<1>4. \A i \in 1 .. L : c[i] # 0
  BY <1>1, NotBase
<1> HIDE DEF part
<1>5. ASSUME NEW k \in Nat, k # 0 PROVE part(k) = next(part(k - 1))
  <2>1. k - 1 \in Nat /\ (k - 1) + 1 = k
    BY <1>5
  <2> DEFINE s == part(k - 1)
             l == top(k - 1)
  <2>2. s \in Seq(Base) /\ Len(s) = l /\ l \in 1 .. L /\ s[l] = c[l] /\ (\A i \in 1 .. l : s[i] = c[i])
        /\ (k <= L => l = k) /\ (k >= L => l = L)
    <3>1. l \in 1 .. L /\ (k <= L => l = k) /\ (k >= L => l = L)
      BY <1>2, <2>1
    <3>2. s \in Seq(Base) /\ Len(s) = l /\ \A i \in 1 .. l : s[i] = c[i]
      BY <1>3, <2>1
    <3> HIDE DEF s, l
    <3> QED BY <1>1, <3>1, <3>2
  <2> HIDE DEF s, l
  <2>3. CASE k >= L
    <3>1. l = L /\ mem[s[Len(s)] + Mem] = 0
      BY <1>1, <2>2, <2>3
    <3>2. top(k) = L
      BY <1>1, <1>2, <2>3
    <3>3. part(k) \in Seq(Base) /\ Len(part(k)) = L /\ \A i \in 1 .. L : part(k)[i] = c[i]
      BY <1>3, <3>2
    <3>4. part(k) = s
      BY <2>2, <3>1, <3>3
    <3> QED BY <3>1, <3>4 DEF s
  <2>4. CASE k < L
    <3>1. l = k /\ mem[s[Len(s)] + Mem] = c[k + 1] /\ k + 1 \in 1 .. L
      BY <1>1, <2>2, <2>4
    <3>2. top(k) = k + 1
      BY <1>1, <1>2, <2>4
    <3>3. part(k) \in Seq(Base) /\ Len(part(k)) = k + 1 /\ \A i \in 1 .. k + 1 : part(k)[i] = c[i]
      BY <1>3, <3>2
    <3>4. part(k) = Append(s, c[k + 1])
      BY <1>1, <2>2, <3>1, <3>3
    <3>5. mem[s[Len(s)] + Mem] # 0
      BY <1>4, <3>1
    <3> QED BY <3>1, <3>4, <3>5 DEF s
  <2> QED BY <1>1, <2>3, <2>4
<1>6. part(0) = <<c[1]>>
  <2>1. top(0) = 1
    BY <1>1, <1>2
  <2>2. part(0) \in Seq(Base) /\ Len(part(0)) = 1 /\ part(0)[1] = c[1]
    <3>1. part(0) \in Seq(Base) /\ Len(part(0)) = top(0) /\ \A i \in 1 .. top(0) : part(0)[i] = c[i]
      BY <1>3
    <3>2. 1 \in 1 .. top(0)
      BY <2>1
    <3> QED BY <2>1, <3>1, <3>2, Zenon
  <2> QED BY <2>2
<1>7. ChainSteps(c[1], f)
  <2>1. \A k \in Nat : part(k) = IF k = 0 THEN <<c[1]>> ELSE next(f[k - 1])
    <3>1. \A k \in Nat : k # 0 => f[k - 1] = part(k - 1)
      OBVIOUS
    <3> HIDE DEF f, next
    <3> QED BY <1>5, <1>6, <3>1
  <2>2. f = [k \in Nat |-> IF k = 0 THEN <<c[1]>> ELSE next(f[k - 1])]
    <3> DEFINE g == f
    <3>1. f = [k \in Nat |-> part(k)]
      OBVIOUS
    <3> HIDE DEF f, next
    <3> QED BY <2>1, <3>1
  <2> HIDE DEF f
  <2> QED BY <2>2, Zenon DEF ChainSteps
<1> DEFINE h == CHOOSE upto : ChainSteps(c[1], upto)
<1>8. ChainSteps(c[1], h)
  <2> HIDE DEF f
  <2> QED BY <1>7
<1>9. Chain(c[1]) = h[Cardinality(Block)]
  BY Zenon DEF Chain, h, ChainSteps
<1> HIDE DEF h, f
<1>10. h[0] = <<c[1]>> /\ \A k \in Nat : k # 0 => h[k] = next(h[k - 1])
  BY <1>8 DEF ChainSteps
<1> HIDE DEF next
<1> DEFINE T == {k \in Nat : h[k] = part(k)}
<1>11. 0 \in T
  BY <1>6, <1>10
<1>12. ASSUME NEW k \in Nat, k \in T PROVE k + 1 \in T
  <2>1. k + 1 \in Nat /\ k + 1 # 0 /\ (k + 1) - 1 = k
    OBVIOUS
  <2> QED BY <1>5, <1>10, <1>12, <2>1
<1> HIDE DEF T
<1>13. \A k \in Nat : k \in T
  BY <1>11, <1>12, Induction
<1>14. Cardinality(Block) \in Nat /\ L <= Cardinality(Block)
  <2> DEFINE g == [k \in 1 .. L |-> c[k] \div BlkSz]
  <2>1. \A k \in 1 .. L : g[k] \in Block
    BY <1>1, BaseIs
  <2>2. ASSUME NEW k \in 1 .. L, NEW l \in 1 .. L, g[k] = g[l] PROVE k = l
    <3>1. c[k] \div BlkSz = c[l] \div BlkSz /\ c[k] \in Base /\ c[l] \in Base
      BY <1>1, <2>2
    <3>2. c[k] = c[l]
      BY <3>1, BaseIs
    <3> QED BY <3>2 DEF L
  <2>3. g \in [1 .. L -> Block] /\ DOMAIN g = 1 .. L
    BY <2>1
  <2> HIDE DEF g
  <2>4. g \in Injection(1 .. L, Block)
    BY <2>2, <2>3 DEF Injection, IsInjective
  <2>5. Cardinality(1 .. L) <= Cardinality(Block)
    BY <2>4, FS_Injection, Numbers
  <2>6. Cardinality(1 .. L) = L
    BY <1>1, FS_Interval
  <2>7. Cardinality(Block) \in Nat
    BY FS_CardinalityType, Numbers
  <2> QED BY <2>5, <2>6, <2>7
<1>15. part(Cardinality(Block)) = c
  <2> DEFINE z == Cardinality(Block)
  <2>1. z \in Nat /\ z + 1 >= L
    BY <1>1, <1>14
  <2> HIDE DEF z
  <2>2. top(z) = L
    BY <1>2, <2>1
  <2>3. part(z) \in Seq(Base) /\ Len(part(z)) = L /\ \A i \in 1 .. L : part(z)[i] = c[i]
    BY <1>3, <2>1, <2>2
  <2>4. part(z) = c
    BY <1>1, <2>3 DEF L
  <2> QED BY <2>4 DEF z
<1> QED BY <1>9, <1>13, <1>14, <1>15 DEF T

LEMMA ChainsAre ==
  ASSUME NEW C, Good(C), NEW i, IsTaken(inode, i)
  PROVE  Chain(inode[i].info) = C[i] /\ i \in Inode /\ C[i] \in Seq(Base) /\ Chained(mem, C[i])
<1>1. Layout(mem, used, inode, C) /\ i \in Inode
  BY GoodIs DEF IsTaken
<1>2. Chained(mem, C[i]) /\ C[i][1] = inode[i].info /\ C[i] \in Seq(Base)
  BY <1>1 DEF Layout
<1>3. \A k, l \in 1 .. Len(C[i]) : C[i][k] = C[i][l] => k = l
  BY <1>1 DEF Layout
<1>4. Chain(C[i][1]) = C[i]
  BY <1>2, <1>3, ChainIs
<1> QED BY <1>1, <1>2, <1>4

\* After any calls of blkfs.c, a block holds one name or is in one file's or directory's
\* chain, once, and is marked in the bitmap, so that new_block never gives it out again.
THEOREM BlocksOwnedHolds == Spec => []BlocksOwned
<1> DEFINE names == {<<0, a, mem[a]>> : a \in UNION {Entries(d) : d \in Dirs}}
           parts == UNION {{<<1, <<i, k>>, Chain(inode[i].info)[k]>> :
                              k \in DOMAIN Chain(inode[i].info)} : i \in Taken}
           uses == names \cup parts
<1>1. ASSUME NEW C, Good(C) PROVE (\A x, y \in uses : x[3] = y[3] => x = y) /\ \A x \in uses : x[3] \div BlkSz \in used
  <2>1. Layout(mem, used, inode, C) /\ Directories(mem, used, inode, C, tree)
    BY <1>1, GoodIs
  <2>2. ASSUME NEW x \in names
        PROVE  \E d, a : /\ IsDir(inode, d) /\ a \in Slots(inode, d) /\ Filled(mem, a) /\ d \in Inode
                         /\ x = <<0, a, mem[a]>> /\ mem[a] \in Base /\ Marks(used, mem[a]) /\ ~InChain(C, mem[a])
    <3>1. PICK d, a : d \in Dirs /\ a \in Entries(d) /\ x = <<0, a, mem[a]>>
      OBVIOUS
    <3>2. IsDir(inode, d) /\ a \in Slots(inode, d) /\ Filled(mem, a)
      BY <3>1, FilesAre
    <3>3. d \in Inode
      BY <3>2 DEF IsDir, IsTaken
    <3>4. Named(mem, used, inode, C, tree, d, a)
      BY <2>1, <3>2, <3>3 DEF Directories
    <3> QED BY <3>1, <3>2, <3>3, <3>4 DEF Named
  <2>3. ASSUME NEW x \in parts
        PROVE  \E i \in Inode : \E k \in 1 .. Len(C[i]) :
                 x = <<1, <<i, k>>, C[i][k]>> /\ C[i][k] \in Base /\ InChain(C, C[i][k]) /\ Marks(used, C[i][k])
    <3>1. PICK i \in Taken : x \in {<<1, <<i, k>>, Chain(inode[i].info)[k]>> : k \in DOMAIN Chain(inode[i].info)}
      OBVIOUS
    <3>2. IsTaken(inode, i)
      BY FilesAre
    <3>3. Chain(inode[i].info) = C[i] /\ i \in Inode /\ C[i] \in Seq(Base)
      BY <1>1, <3>2, ChainsAre
    <3>4. PICK k \in 1 .. Len(C[i]) : x = <<1, <<i, k>>, C[i][k]>>
      BY <3>1, <3>3
    <3>5. C[i][k] \in Base /\ InChain(C, C[i][k])
      BY <3>3 DEF InChain
    <3> QED BY <2>1, <3>3, <3>4, <3>5 DEF Layout
  <2> HIDE DEF names, parts
  <2>4. \A x \in uses : Marks(used, x[3])
    <3>1. \A x \in names : Marks(used, x[3])
      BY <2>2
    <3>2. \A x \in parts : Marks(used, x[3])
      BY <2>3
    <3> QED BY <3>1, <3>2
  <2>5. ASSUME NEW x \in names, NEW y \in names, x[3] = y[3] PROVE x = y
    <3>1. PICK d, a : /\ IsDir(inode, d) /\ a \in Slots(inode, d) /\ Filled(mem, a) /\ d \in Inode
                      /\ x = <<0, a, mem[a]>>
      BY <2>2
    <3>2. PICK e, b : /\ IsDir(inode, e) /\ b \in Slots(inode, e) /\ e \in Inode
                      /\ y = <<0, b, mem[b]>>
      BY <2>2
    <3>3. mem[a] = mem[b]
      BY <2>5, <3>1, <3>2
    <3>4. a = b
      BY <2>1, <3>1, <3>2, <3>3 DEF Directories
    <3> QED BY <3>1, <3>2, <3>4
  <2>6. ASSUME NEW x \in parts, NEW y \in parts, x[3] = y[3] PROVE x = y
    <3>1. PICK i, k : i \in Inode /\ k \in 1 .. Len(C[i]) /\ x = <<1, <<i, k>>, C[i][k]>>
      BY <2>3
    <3>2. PICK j, l : j \in Inode /\ l \in 1 .. Len(C[j]) /\ y = <<1, <<j, l>>, C[j][l]>>
      BY <2>3
    <3>3. C[i][k] = C[j][l]
      BY <2>6, <3>1, <3>2
    <3>4. i = j /\ k = l
      BY <2>1, <3>1, <3>2, <3>3 DEF Layout
    <3> QED BY <3>1, <3>2, <3>4
  <2>7. \A x \in names, y \in parts : x[3] # y[3]
    <3>1. \A x \in names : ~InChain(C, x[3])
      BY <2>2
    <3>2. \A y \in parts : InChain(C, y[3])
      BY <2>3
    <3> QED BY <3>1, <3>2
  <2> QED BY <2>4, <2>5, <2>6, <2>7 DEF Marks
<1>2. Inv /\ TypeOK => BlocksOwned
  BY <1>1, Zenon DEF Inv, BlocksOwned
<1> QED BY <1>2, InvHolds, TypeHolds, PTL

-----------------------------------------------------------------------------
(* The content of files                                                        *)

\* Every position of a chain is a place in one of its blocks.
LEMMA PositionPlace ==
  ASSUME NEW l \in Nat, NEW p \in Nat, p < Mem * l
  PROVE  \E j \in 1 .. l, r \in 0 .. Mem - 1 : p = Place(j, r)
<1> DEFINE q == p \div Mem
           r == p % Mem
<1>1. Mem \in Nat /\ Mem >= 2
  BY Numbers
<1>2. q \in Nat /\ r \in 0 .. Mem - 1 /\ p = q * Mem + r
  BY <1>1
<1> HIDE DEF q, r
<1>3. q < l
  <2>1. q * Mem < Mem * l
    BY <1>1, <1>2
  <2> QED BY <1>1, <1>2, <2>1
<1>4. q + 1 \in 1 .. l /\ p = Place(q + 1, r)
  BY <1>2, <1>3 DEF Place
<1> QED BY <1>2, <1>4

BlockWords(a) == [j \in 1 .. Mem |-> mem[a + j - 1]]

AllWords(c, f) ==
  f = [k \in 0 .. Len(c) |-> IF k = 0 THEN <<>>
                             ELSE f[k - 1] \o BlockWords(c[k])]

\* The words of the first k blocks.
Words1(c, k) ==
  {s \in Seq(Int) : /\ Len(s) = Mem * k
                    /\ \A j \in 1 .. k, r \in 0 .. Mem - 1 : s[Place(j, r) + 1] = mem[c[j] + r]}

LEMMA ConcatIs ==
  ASSUME NEW s \in Seq(Int), NEW b \in Seq(Int), NEW i \in 1 .. Len(b)
  PROVE  (s \o b)[Len(s) + i] = b[i]
<1>1. Len(s) + i \in 1 .. Len(s \o b) /\ (Len(s) + i) - Len(s) = i /\ ~(Len(s) + i <= Len(s))
  OBVIOUS
<1> QED BY <1>1

LEMMA WordsAdd ==
  ASSUME NEW C, Good(C), NEW c, Chained(mem, c), NEW k \in 1 .. Len(c), NEW s \in Words1(c, k - 1)
  PROVE  s \o BlockWords(c[k]) \in Words1(c, k)
<1>1. mem \in [Addr -> Int] /\ Mem \in Nat /\ Mem >= 2 /\ Len(c) \in Nat /\ c[k] \in Base /\ k \in Nat \ {0}
  BY GoodIs, Numbers DEF Chained
<1>2. c[k] \in Nat
  BY <1>1, BaseIs
<1>3. ASSUME NEW j \in 1 .. Mem PROVE c[k] + j - 1 = c[k] + (j - 1) /\ mem[c[k] + j - 1] \in Int
  <2>1. j - 1 \in 0 .. Mem
    BY <1>1
  <2>2. c[k] + (j - 1) \in Addr
    BY <1>1, <2>1, BaseIs
  <2> QED BY <1>1, <1>2, <2>2
<1> DEFINE b == BlockWords(c[k])
<1>4. b \in [1 .. Mem -> Int] /\ \A r \in 0 .. Mem - 1 : b[r + 1] = mem[c[k] + r]
  <2>1. b \in [1 .. Mem -> Int] /\ \A j \in 1 .. Mem : b[j] = mem[c[k] + j - 1]
    BY <1>3 DEF BlockWords
  <2>2. \A r \in 0 .. Mem - 1 : r + 1 \in 1 .. Mem /\ c[k] + (r + 1) - 1 = c[k] + r
    BY <1>1, <1>2
  <2> HIDE DEF b
  <2>3. \A r \in 0 .. Mem - 1 : b[r + 1] = mem[c[k] + (r + 1) - 1]
    BY <2>1, <2>2
  <2> QED BY <2>1, <2>2, <2>3
<1> HIDE DEF b
<1>5. b \in Seq(Int) /\ Len(b) = Mem
  BY <1>1, <1>4
<1>6. s \in Seq(Int) /\ Len(s) = Mem * (k - 1) /\ \A j \in 1 .. k - 1, r \in 0 .. Mem - 1 : s[Place(j, r) + 1] = mem[c[j] + r]
  BY DEF Words1
<1>7. Mem * (k - 1) + Mem = Mem * k /\ Mem * (k - 1) = (k - 1) * Mem /\ Mem * (k - 1) \in Nat
  BY <1>1
<1> DEFINE z == Mem * (k - 1)
           w == s \o b
<1> HIDE DEF z
<1>8. z \in Nat /\ Len(s) = z /\ z + Mem = Mem * k /\ \A r \in 0 .. Mem - 1 : Place(k, r) = z + r
  BY <1>6, <1>7 DEF z, Place
<1>9. w \in Seq(Int) /\ Len(w) = z + Mem /\ (\A i \in 1 .. z : w[i] = s[i]) /\ \A i \in 1 .. Mem : w[z + i] = b[i]
  <2>1. s \in Seq(Int) /\ b \in Seq(Int) /\ Len(s) = z /\ Len(b) = Mem /\ z \in Nat /\ Mem \in Nat
    BY <1>1, <1>5, <1>6, <1>8
  <2>2. w \in Seq(Int) /\ Len(w) = z + Mem
    BY <2>1
  <2>3. \A i \in 1 .. z : w[i] = s[i]
    BY <2>1
  <2>4. ASSUME NEW i \in 1 .. Mem PROVE w[z + i] = b[i]
    <3>1. (s \o b)[Len(s) + i] = b[i]
      BY <2>1, ConcatIs
    <3> QED BY <2>1, <3>1 DEF w
  <2> QED BY <2>2, <2>3, <2>4
<1> HIDE DEF w
<1>10. ASSUME NEW j \in 1 .. k, NEW r \in 0 .. Mem - 1 PROVE w[Place(j, r) + 1] = mem[c[j] + r]
  <2>1. CASE j = k
    <3>1. r + 1 \in 1 .. Mem /\ Place(j, r) + 1 = z + (r + 1)
      BY <1>1, <1>8, <2>1
    <3> QED BY <1>4, <1>9, <2>1, <3>1
  <2>2. CASE j # k
    <3>1. j \in 1 .. k - 1 /\ j \in Nat \ {0} /\ j < k /\ 0 \in 0 .. Mem /\ 0 \in 0 .. Mem - 1 /\ r \in 0 .. Mem
      BY <1>1, <2>2
    <3>2. Place(j, r) < Place(k, 0) /\ Place(j, r) \in Nat
      BY <1>1, <3>1, PlaceIs
    <3>3. Place(k, 0) = z
      BY <1>8, <3>1
    <3>4. Place(j, r) + 1 \in 1 .. z
      BY <1>8, <3>2, <3>3
    <3> QED BY <1>6, <1>9, <3>1, <3>4
  <2> QED BY <2>1, <2>2
<1>11. w \in Words1(c, k)
  BY <1>8, <1>9, <1>10 DEF Words1
<1> QED BY <1>11 DEF w, b

\* What ContentKept reads behind a file's chain.
LEMMA AllWordsAre ==
  ASSUME NEW C, Good(C), NEW c, Chained(mem, c)
  PROVE  \E s \in Words1(c, Len(c)) : \A h : h = (CHOOSE f : AllWords(c, f)) => h[Len(c)] = s
<1> DEFINE n == Len(c)
           S == Seq(Int)
           D == [k \in 0 .. n |-> Words1(c, k)]
           g == [kx \in (1 .. n) \X S |-> kx[2] \o BlockWords(c[kx[1]])]
<1>1. n \in Nat
  BY DEF Chained
<1>2. \A k : Words1(c, k) \subseteq S
  BY DEF Words1
<1>3. <<>> \in Words1(c, 0)
  <2>1. Mem * 0 = 0
    BY Numbers
  <2> QED BY <2>1 DEF Words1
<1> HIDE DEF n, S
<1>4. \A k \in 1 .. n : \A s \in S : g[<<k, s>>] = s \o BlockWords(c[k])
  OBVIOUS
<1>5. \A k \in 1 .. n : \A s \in Words1(c, k - 1) : s \o BlockWords(c[k]) \in Words1(c, k)
  BY WordsAdd DEF n
<1>6. \A k \in 1 .. n : D[k - 1] = Words1(c, k - 1) /\ D[k] = Words1(c, k)
  BY <1>1
<1>7. D[0] = Words1(c, 0) /\ D[n] = Words1(c, n) /\ \A k \in 0 .. n : D[k] = Words1(c, k)
  BY <1>1
<1> HIDE DEF D, g
<1>8. ASSUME NEW k \in 1 .. n, NEW y \in D[k - 1] PROVE g[<<k, y>>] \in D[k]
  <2>1. y \in Words1(c, k - 1) /\ y \in S
    BY <1>2, <1>6, <1>8
  <2>2. g[<<k, y>>] = y \o BlockWords(c[k])
    BY <1>4, <2>1
  <2>3. y \o BlockWords(c[k]) \in Words1(c, k)
    BY <1>5, <2>1
  <2> QED BY <1>6, <2>2, <2>3
<1>9. <<>> \in D[0]
  BY <1>3, <1>7
<1>10. PICK f : Solves(n, <<>>, g, f) /\ \A k \in 0 .. n : f[k] \in D[k]
  BY <1>1, <1>8, <1>9, Recursion
<1>11. \A k \in 0 .. n : k # 0 => k \in 1 .. n /\ f[k - 1] \in S
  <2> SUFFICES ASSUME NEW k \in 0 .. n, k # 0 PROVE k \in 1 .. n /\ f[k - 1] \in S
    OBVIOUS
  <2>1. k \in 1 .. n /\ k - 1 \in 0 .. n
    BY <1>1
  <2> QED BY <1>2, <1>7, <1>10, <2>1
<1>12. [k \in 0 .. n |-> IF k = 0 THEN <<>> ELSE g[<<k, f[k - 1]>>]]
         = [k \in 0 .. n |-> IF k = 0 THEN <<>> ELSE f[k - 1] \o BlockWords(c[k])]
  BY <1>4, <1>11
<1>13. AllWords(c, f)
  BY <1>10, <1>12 DEF Solves, AllWords, n
<1> DEFINE h == CHOOSE all : AllWords(c, all)
<1>14. AllWords(c, h)
  BY <1>13
<1> HIDE DEF h
<1>15. h[0] \in D[0]
  BY <1>1, <1>9, <1>14 DEF AllWords, n
<1>16. ASSUME NEW k \in 1 .. n PROVE h[k] = h[k - 1] \o BlockWords(c[k])
  <2>1. k \in 0 .. Len(c) /\ k # 0
    BY <1>1 DEF n
  <2> QED BY <1>14, <2>1, Zenon DEF AllWords
<1>17. \A k \in 1 .. n : h[k - 1] \in D[k - 1] => h[k] \in D[k]
  BY <1>5, <1>6, <1>16
<1>18. \A k \in 0 .. n : h[k] \in D[k]
  BY <1>1, <1>15, <1>17, Runs
<1>19. h[n] \in Words1(c, n)
  BY <1>1, <1>7, <1>18
<1>20. \A e : e = (CHOOSE all : AllWords(c, all)) => e[n] = h[n]
  BY DEF h
<1> QED BY <1>19, <1>20 DEF n

\* After any writes of blkfs.c, through whichever handles and modes and with cuts in
\* between, a file's blocks hold at each position what was written there last.
THEOREM ContentKeptHolds == Spec => []ContentKept
<1>1. Inv => ContentKept
  <2> SUFFICES ASSUME NEW C, Good(C), NEW i, IsTaken(inode, i), ~IsDir(inode, i)
               PROVE  LET c == Chain(inode[i].info)
                          all[k \in 0 .. Len(c)] == IF k = 0 THEN <<>>
                                            ELSE all[k - 1] \o [j \in 1 .. Mem |-> mem[c[k] + j - 1]]
                      IN  /\ inode[i].size = Len(text[i])
                          /\ \A j \in DOMAIN text[i] : text[i][j] \in {NULL, all[Len(c)][j]}
    BY FilesAre DEF Inv, ContentKept
  <2> DEFINE c == Chain(inode[i].info)
             all == CHOOSE f : AllWords(c, f)
             t == text[i]
  <2>1. c = C[i] /\ i \in Inode /\ Chained(mem, c)
    BY ChainsAre
  <2>2. PICK s \in Words1(c, Len(c)) : all[Len(c)] = s
    <3> HIDE DEF c
    <3> QED BY <2>1, AllWordsAre
  <2>3. t \in Seq(Int \cup {NULL}) /\ inode[i].size = Len(t) /\ Len(t) <= Mem * Len(c) /\ Holds(mem, c, t)
    BY <2>1, GoodIs DEF Contents
  <2>4. ASSUME NEW j \in DOMAIN t PROVE t[j] \in {NULL, s[j]}
    <3> HIDE DEF c, t
    <3>1. Len(c) \in Nat /\ Mem \in Nat /\ j \in 1 .. Len(t) /\ Len(t) \in Nat
      BY <2>1, <2>3, Numbers DEF Chained
    <3>2. Mem * Len(c) \in Nat
      BY <3>1
    <3>3. j - 1 \in Nat /\ j - 1 < Mem * Len(c) /\ (j - 1) + 1 = j
      BY <2>3, <3>1, <3>2
    <3>4. PICK b \in 1 .. Len(c), r \in 0 .. Mem - 1 : j - 1 = Place(b, r)
      BY <3>1, <3>3, PositionPlace
    <3>5. t[Place(b, r) + 1] \in {NULL, mem[c[b] + r]}
      BY <2>3, <3>1, <3>3, <3>4 DEF Holds
    <3>6. s[Place(b, r) + 1] = mem[c[b] + r]
      BY <2>2 DEF Words1
    <3> QED BY <3>3, <3>4, <3>5, <3>6
  <2>5. inode[i].size = Len(text[i]) /\ \A j \in DOMAIN text[i] : text[i][j] \in {NULL, all[Len(c)][j]}
    BY <2>2, <2>3, <2>4
  <2> QED BY <2>5, Zenon DEF AllWords, BlockWords
<1> QED BY <1>1, InvHolds, PTL

-----------------------------------------------------------------------------
(* Reading from the beginning                                                  *)

ReadTo(c, q, k) ==
  {s \in [from : Int, got : Seq(Int)] :
     /\ Len(s.got) <= q
     /\ \A j \in 1 .. Len(c), r \in 0 .. Mem - 1 : Place(j, r) < Len(s.got) => s.got[Place(j, r) + 1] = mem[c[j] + r]
     /\ Len(s.got) = q \/ (Len(s.got) = Mem * k /\ k < Len(c) /\ s.from = c[k + 1])}

LEMMA JoinIs ==
  ASSUME NEW s \in Seq(Int), NEW b \in Seq(Int)
  PROVE  s \o b \in Seq(Int) /\ Len(s \o b) = Len(s) + Len(b) /\ \A i \in 1 .. Len(s) : (s \o b)[i] = s[i]
OBVIOUS

\* block_read from the first position of a chain that is long enough.
LEMMA ReadToStep ==
  ASSUME mem \in [Addr -> Int], NEW c, Chained(mem, c), NEW q \in Nat, q <= Mem * Len(c), NEW k \in Nat \ {0},
         NEW s \in ReadTo(c, q, k - 1)
  PROVE  ReadStep(s, q) \in ReadTo(c, q, k)
<1> DEFINE z == Len(s.got)
           rest == q - z
<1>1. /\ s.from \in Int /\ s.got \in Seq(Int) /\ z \in Nat /\ z <= q /\ rest \in Nat
      /\ \A j \in 1 .. Len(c), r \in 0 .. Mem - 1 : Place(j, r) < z => s.got[Place(j, r) + 1] = mem[c[j] + r]
      /\ z = q \/ (z = Mem * (k - 1) /\ k - 1 < Len(c) /\ s.from = c[(k - 1) + 1])
  BY DEF ReadTo
<1>2. Mem \in Nat /\ Mem >= 2 /\ Len(c) \in Nat /\ c \in Seq(Base) /\ k \in Nat /\ k >= 1 /\ BlkSz = Mem + 1
  BY Numbers DEF Chained
<1>3. CASE rest = 0
  <2>1. ReadStep(s, q) = s
    BY <1>3 DEF ReadStep
  <2>2. z = q
    <3> HIDE DEF z
    <3> QED BY <1>1, <1>3
  <2> QED BY <1>1, <2>1, <2>2 DEF ReadTo
<1>4. CASE rest # 0
  <2>1. z = Mem * (k - 1) /\ k \in 1 .. Len(c) /\ s.from = c[k]
    <3>1. z # q
      BY <1>1, <1>4
    <3>2. (k - 1) + 1 = k /\ (k - 1 < Len(c) => k \in 1 .. Len(c))
      BY <1>2
    <3> QED BY <1>1, <3>1, <3>2
  <2>2. c[k] \in Base /\ c[k] \in Nat /\ c[k] # 0 /\ c[k] % BlkSz = 0
    <3>1. c[k] \in Base
      BY <1>2, <2>1
    <3> QED BY <3>1, BaseIs, NotBase
  <2> DEFINE l == Lesser(Mem, rest)
             cp == Copied(c[k], l)
             got2 == s.got \o cp
             from2 == Word(c[k] + Mem)
  <2>3. At(s.from, rest) = l
    <3>1. Mem - (c[k] % BlkSz) = Mem
      BY <1>2, <2>2
    <3> QED BY <2>1, <3>1 DEF At
  <2>4. ReadStep(s, q) = [got |-> got2, from |-> from2]
    BY <1>4, <2>1, <2>2, <2>3 DEF ReadStep
  <2>5. l \in Nat /\ l <= Mem /\ l <= rest /\ (l = Mem \/ l = rest)
    <3>1. rest \in Nat
      BY <1>1
    <3> HIDE DEF rest
    <3> QED BY <1>2, <3>1 DEF Lesser
  <2> HIDE DEF l
  <2>6. cp \in Seq(Int) /\ Len(cp) = l /\ \A i \in 1 .. l : cp[i] = Word(c[k] + i - 1)
    BY <2>5, CopiedIs
  <2>7. \A r \in 0 .. Mem - 1 : r < l => cp[r + 1] = mem[c[k] + r]
    <3> SUFFICES ASSUME NEW r \in 0 .. Mem - 1, r < l PROVE cp[r + 1] = mem[c[k] + r]
      OBVIOUS
    <3>1. r + 1 \in 1 .. l /\ c[k] + (r + 1) - 1 = c[k] + r /\ r \in 0 .. Mem
      BY <1>2, <2>2, <2>5
    <3>2. c[k] + r \in Addr
      BY <2>2, <3>1, BaseIs
    <3>3. cp[r + 1] = Word(c[k] + (r + 1) - 1)
      BY <2>6, <3>1
    <3> QED BY <3>1, <3>2, <3>3 DEF Word
  <2> HIDE DEF cp
  <2>8. got2 \in Seq(Int) /\ Len(got2) = z + l /\ (\A i \in 1 .. z : got2[i] = s.got[i]) /\ \A i \in 1 .. l : got2[z + i] = cp[i]
    <3>1. got2 \in Seq(Int) /\ Len(got2) = z + l
      BY <1>1, <2>6, JoinIs
    <3>2. \A i \in 1 .. z : got2[i] = s.got[i]
      BY <1>1, <2>6, JoinIs
    <3>3. \A i \in 1 .. l : got2[z + i] = cp[i]
      BY <1>1, <2>6, ConcatIs
    <3> QED BY <3>1, <3>2, <3>3
  <2>9. from2 \in Int /\ (k < Len(c) => from2 = c[k + 1])
    <3>1. c[k] + Mem \in Addr
      <4>1. Mem \in 0 .. Mem
        BY <1>2
      <4> QED BY <2>2, <4>1, BaseIs
    <3>2. from2 = mem[c[k] + Mem]
      BY <3>1 DEF Word
    <3>3. k < Len(c) => mem[c[k] + Mem] = c[k + 1]
      BY <1>2, <2>1 DEF Chained
    <3> QED BY <3>1, <3>2, <3>3
  <2> HIDE DEF got2, from2, z, rest
  <2>10. Place(k, 0) = z /\ \A r \in 0 .. Mem - 1 : Place(k, r) = z + r
    <3>1. (k - 1) * Mem = Mem * (k - 1)
      BY <1>2
    <3>2. \A r \in 0 .. Mem : Place(k, r) = z + r
      BY <2>1, <3>1 DEF Place
    <3>3. 0 \in 0 .. Mem /\ (\A r \in 0 .. Mem - 1 : r \in 0 .. Mem) /\ z + 0 = z
      BY <1>1, <1>2
    <3> QED BY <3>2, <3>3
  <2>11. z + Mem = Mem * k
    BY <1>2, <2>1
  <2>12. ASSUME NEW j \in 1 .. Len(c), NEW r \in 0 .. Mem - 1, Place(j, r) < z + l
         PROVE  got2[Place(j, r) + 1] = mem[c[j] + r]
    <3>0. j \in Nat \ {0} /\ r \in 0 .. Mem /\ 0 \in 0 .. Mem /\ 0 \in 0 .. Mem - 1 /\ k \in Nat \ {0} /\ k + 1 \in Nat \ {0}
      BY <1>2
    <3>1. CASE j < k
      <4>1. Place(j, r) < Place(k, 0) /\ Place(j, r) \in Nat
        BY <3>0, <3>1, PlaceIs
      <4>2. Place(j, r) < z /\ Place(j, r) + 1 \in 1 .. z
        BY <1>1, <2>10, <4>1
      <4> QED BY <1>1, <2>8, <4>2 DEF z
    <3>2. CASE j = k
      <4>1. Place(j, r) = z + r
        BY <2>10, <3>2
      <4>2. r < l /\ r + 1 \in 1 .. l /\ Place(j, r) + 1 = z + (r + 1)
        BY <1>1, <1>2, <2>5, <2>12, <4>1
      <4> QED BY <2>7, <2>8, <3>2, <4>2
    <3>3. CASE j > k
      <4>1. Place(k + 1, 0) = Place(k, Mem) /\ Place(k, Mem) = Mem * k
        BY <3>0, PlaceIs
      <4>2. k + 1 < j => Place(k + 1, 0) < Place(j, r)
        BY <3>0, PlaceIs
      <4>3. j = k + 1 => Place(j, r) = Place(k + 1, 0) + r - 0
        BY <3>0, PlaceIs
      <4>4. Place(j, r) \in Nat /\ Place(k + 1, 0) \in Nat
        BY <3>0, PlaceIs
      <4>5. Place(k + 1, 0) <= Place(j, r)
        BY <3>0, <3>3, <4>2, <4>3, <4>4
      <4>6. Place(j, r) >= z + Mem
        BY <2>11, <4>1, <4>5
      <4> QED BY <1>1, <1>2, <2>5, <2>12, <4>4, <4>6
    <3> QED BY <3>0, <3>1, <3>2, <3>3, <1>2
  <2>13. z + l <= q /\ (z + l = q \/ (z + l = Mem * k /\ k < Len(c)))
    <3>1. z + l <= q /\ (l = rest => z + l = q)
      BY <1>1, <2>5 DEF rest
    <3>2. ASSUME l = Mem, l # rest PROVE k < Len(c)
      <4>1. Mem * k < Mem * Len(c)
        <5>1. z + l < q
          BY <1>1, <2>5, <3>2 DEF rest
        <5>2. Mem * k \in Nat /\ Mem * Len(c) \in Nat
          BY <1>2
        <5> QED BY <2>11, <3>2, <5>1, <5>2
      <4>2. ~(Len(c) <= k)
        <5>1. Mem * k \in Nat /\ Mem * Len(c) \in Nat
          BY <1>2
        <5>2. Len(c) <= k => Mem * Len(c) <= Mem * k
          <6>1. Mem * Len(c) <= Mem * Len(c)
            BY <5>1
          <6> QED BY <1>2, <5>1, <6>1, Times
        <5> QED BY <4>1, <5>1, <5>2
      <4> QED BY <1>2, <4>2
    <3> QED BY <2>5, <2>11, <3>1, <3>2
  <2> DEFINE s2 == [got |-> got2, from |-> from2]
  <2>14. s2 \in [from : Int, got : Seq(Int)] /\ s2.got = got2 /\ s2.from = from2
    BY <2>8, <2>9
  <2> HIDE DEF s2
  <2>15. s2 \in ReadTo(c, q, k)
    BY <2>8, <2>9, <2>12, <2>13, <2>14 DEF ReadTo
  <2> QED BY <2>4, <2>15 DEF s2
<1> QED BY <1>3, <1>4

LEMMA ReadToIs ==
  ASSUME mem \in [Addr -> Int], NEW c, Chained(mem, c), NEW q \in Nat, q <= Mem * Len(c)
  PROVE  LET got == BlockRead(c[1], 0, q)
         IN  /\ got \in Seq(Int) /\ Len(got) = q
             /\ \A j \in 1 .. Len(c), r \in 0 .. Mem - 1 : Place(j, r) < q => got[Place(j, r) + 1] = mem[c[j] + r]
<1> DEFINE S == [from : Int, got : Seq(Int)]
           D == [k \in 0 .. q + 2 |-> ReadTo(c, q, k)]
<1>1. Mem \in Nat /\ Mem >= 2 /\ Len(c) \in Nat /\ Len(c) >= 1 /\ c \in Seq(Base)
  BY Numbers DEF Chained
<1>2. c[1] \in Base /\ c[1] \in Int
  BY <1>1, BaseIs
<1>3. FindBlock(c[1], 0) = c[1]
  <2>1. 0 <= Mem * Len(c)
    BY <1>1
  <2>2. PICK j \in 1 .. Len(c), r \in 0 .. Mem : FindBlock(c[1], 0) = c[j] + r /\ 0 = Place(j, r)
    BY <2>1, FindIs DEF Position
  <2>3. j \in Nat \ {0} /\ 1 \in Nat \ {0} /\ 0 \in 0 .. Mem /\ 0 \in 0 .. Mem - 1 /\ r \in 0 .. Mem
    BY <1>1
  <2>4. Place(1, 0) = 0
    BY <1>1 DEF Place
  <2>5. 1 < j => Place(1, 0) < Place(j, r)
    BY <2>3, PlaceIs
  <2>6. j = 1
    BY <2>2, <2>3, <2>4, <2>5
  <2>7. r = 0
    BY <1>1, <2>2, <2>6 DEF Place
  <2> QED BY <1>2, <2>2, <2>6, <2>7
<1> DEFINE x == [from |-> FindBlock(c[1], 0), got |-> <<>>]
<1>4. x \in ReadTo(c, q, 0)
  <2>1. x.from = c[1] /\ x.got = <<>> /\ x \in S /\ Len(x.got) = 0
    BY <1>2, <1>3
  <2>2. \A j \in 1 .. Len(c), r \in 0 .. Mem - 1 : ~(Place(j, r) < 0)
    <3> SUFFICES ASSUME NEW j \in 1 .. Len(c), NEW r \in 0 .. Mem - 1 PROVE ~(Place(j, r) < 0)
      OBVIOUS
    <3>1. j \in Nat \ {0} /\ r \in 0 .. Mem
      BY <1>1
    <3>2. Place(j, r) \in Nat
      BY <3>1, PlaceIs
    <3> QED BY <3>2
  <2>3. Mem * 0 = 0 /\ 0 < Len(c) /\ 0 + 1 = 1
    BY <1>1
  <2> HIDE DEF x
  <2> QED BY <2>1, <2>2, <2>3 DEF ReadTo
<1> HIDE DEF x
<1>5. \A k \in 0 .. q + 2 : D[k] = ReadTo(c, q, k) /\ D[k] \subseteq S
  BY DEF ReadTo
<1>6. ASSUME NEW k \in 1 .. q + 2, NEW s \in D[k - 1] PROVE ReadStep(s, q) \in D[k]
  <2>1. k \in 0 .. q + 2 /\ k - 1 \in 0 .. q + 2 /\ k \in Nat \ {0}
    OBVIOUS
  <2>2. s \in ReadTo(c, q, k - 1)
    BY <1>5, <2>1
  <2>3. ReadStep(s, q) \in ReadTo(c, q, k)
    BY <2>1, <2>2, ReadToStep
  <2> QED BY <1>5, <2>1, <2>3
<1>7. 0 \in 0 .. q + 2 /\ q + 2 \in 0 .. q + 2
  OBVIOUS
<1>8. x \in D[0]
  BY <1>4, <1>5, <1>7
<1>9. \A k \in 0 .. q + 2 : D[k] \subseteq S
  BY <1>5
<1> HIDE DEF D, S
<1>10. PICK s \in D[q + 2] : BlockRead(c[1], 0, q) = s.got
  BY <1>6, <1>8, <1>9, ReadRuns DEF x
<1>11. s \in ReadTo(c, q, q + 2)
  BY <1>5, <1>7
<1>12. s.got \in Seq(Int) /\ Len(s.got) = q
  <2> DEFINE z == Len(s.got)
  <2>1. s.got \in Seq(Int) /\ z \in Nat /\ z <= q /\ (z = q \/ z = Mem * (q + 2))
    BY <1>11 DEF ReadTo
  <2> HIDE DEF z
  <2>2. Mem * (q + 2) > q
    <3>1. 2 * (q + 2) <= Mem * (q + 2)
      BY <1>1
    <3> DEFINE y == Mem * (q + 2)
    <3>2. y \in Nat
      BY <1>1
    <3> HIDE DEF y
    <3> QED BY <3>1, <3>2 DEF y
  <2> QED BY <2>1, <2>2 DEF z
<1>13. \A j \in 1 .. Len(c), r \in 0 .. Mem - 1 : Place(j, r) < q => s.got[Place(j, r) + 1] = mem[c[j] + r]
  BY <1>11, <1>12 DEF ReadTo
<1> QED BY <1>10, <1>12, <1>13

\* A read of blkfs.c from the start of a file, of any length and after any calls, returns
\* the file's words, as many as were asked for or as there are.
THEOREM ReadsRightHolds == Spec => []ReadsRight
<1>1. Inv => ReadsRight
  <2> SUFFICES ASSUME NEW C, Good(C), NEW i, IsTaken(inode, i), NEW n \in Chunk
               PROVE  LET got == Got([id |-> i, off |-> 0], n)
                      IN  /\ Len(got) = Lesser(n, Len(text[i]))
                          /\ \A j \in DOMAIN got : text[i][j] \in {NULL, got[j]}
    BY FilesAre DEF Inv, ReadsRight
  <2> DEFINE got == Got([id |-> i, off |-> 0], n)
             c == C[i]
             t == text[i]
             q == Lesser(n, Len(t))
  <2>1. i \in Inode /\ Chained(mem, c)
    BY ChainsAre
  <2>2. /\ t \in Seq(Int \cup {NULL}) /\ inode[i].size = Len(t) /\ Len(t) <= Mem * Len(c) /\ Holds(mem, c, t)
        /\ Layout(mem, used, inode, C)
    BY <2>1, GoodIs DEF Contents
  <2>3. c[1] = inode[i].info /\ mem \in [Addr -> Int]
    BY <2>1, <2>2 DEF Layout
  <2>4. n \in Nat /\ n >= 1 /\ Len(t) \in Nat /\ Mem \in Nat /\ Len(c) \in Nat
    BY <2>1, <2>2, BlkfsAssumption DEF Chained
  <2>5. q \in Nat /\ q <= Len(t) /\ q <= n
    <3> DEFINE z == Len(t)
    <3> HIDE DEF z
    <3> QED BY <2>4 DEF Lesser, z
  <2>6. Asked([id |-> i, off |-> 0], n) = q
    <3> DEFINE z == Len(t)
    <3>1. inode[i].size = z /\ z \in Nat
      BY <2>2, <2>4
    <3> HIDE DEF z, t
    <3>2. Asked([id |-> i, off |-> 0], n) = Lesser(n, z)
      BY <2>4, <3>1 DEF Asked, Lesser
    <3> QED BY <3>2 DEF z
  <2>7. got = BlockRead(c[1], 0, q)
    BY <2>3, <2>6 DEF Got
  <2> HIDE DEF got, q, c, t
  <2>8. q <= Mem * Len(c)
    <3> DEFINE y == Mem * Len(c)
               z == Len(t)
    <3>1. y \in Nat
      BY <2>4
    <3> HIDE DEF y
    <3> QED BY <2>2, <2>4, <2>5, <3>1 DEF y
  <2>9. /\ got \in Seq(Int) /\ Len(got) = q
        /\ \A j \in 1 .. Len(c), r \in 0 .. Mem - 1 : Place(j, r) < q => got[Place(j, r) + 1] = mem[c[j] + r]
    BY <2>1, <2>3, <2>5, <2>7, <2>8, ReadToIs
  <2>10. ASSUME NEW j \in DOMAIN got PROVE t[j] \in {NULL, got[j]}
    <3>1. j \in 1 .. q /\ j - 1 \in Nat /\ (j - 1) + 1 = j /\ j - 1 < q /\ j <= Len(t)
      BY <2>4, <2>5, <2>9
    <3>2. j - 1 < Mem * Len(c)
      <4> DEFINE y == Mem * Len(c)
      <4>1. y \in Nat
        BY <2>4
      <4> HIDE DEF y
      <4> QED BY <2>5, <2>8, <3>1, <4>1 DEF y
    <3>3. PICK b \in 1 .. Len(c), r \in 0 .. Mem - 1 : j - 1 = Place(b, r)
      BY <2>4, <3>1, <3>2, PositionPlace
    <3>4. t[Place(b, r) + 1] \in {NULL, mem[c[b] + r]}
      BY <2>2, <3>1, <3>3 DEF Holds
    <3>5. got[Place(b, r) + 1] = mem[c[b] + r]
      BY <2>9, <3>1, <3>3
    <3> QED BY <3>1, <3>3, <3>4, <3>5
  <2> QED BY <2>9, <2>10 DEF got, q, t
<1> QED BY <1>1, InvHolds, PTL

-----------------------------------------------------------------------------
(* The prompt                                                                  *)

\* A directory that a name leads to has that name's directory as its "..".
Parents(m, I, tr) ==
  \A d \in Inode, n \in Name :
    tr[d][n] # NULL /\ IsDir(I, tr[d][n]) => tr[d][n] # 0 /\ m[I[tr[d][n]].info] = d

\* The names p lead from the root to the directory i, through the directories g.
Leads(I, tr, p, i, g) ==
  /\ g[0] = 0 /\ g[Len(p)] = i
  /\ \A k \in 0 .. Len(p) : IsDir(I, g[k])
  /\ \A k \in 1 .. Len(p) : tr[g[k - 1]][p[k]] = g[k]

Walk(I, tr, p, i) == p \in Seq(Name) /\ \E g : Leads(I, tr, p, i, g)

AtPwd == ~moved => IsDir(inode, 0) /\ Parents(mem, inode, tree) /\ Walk(inode, tree, pwd, cwd)

LEMMA InodeIs == \A j \in Inode : j # NULL /\ j \in Nat
<1>1. Inode \subseteq Nat /\ NULL \notin Nat
  BY Numbers
<1> QED BY <1>1

\* A name leads where tree says.
LEMMA EntryOf ==
  ASSUME NEW C, Layout(mem, used, inode, C), Directories(mem, used, inode, C, tree),
         NEW d, IsDir(inode, d), NEW n \in Name
  PROVE  LET a == Entry(d, n)
         IN  IF a # NULL /\ mem[a] # 0 THEN tree[d][n] = mem[mem[a]] /\ tree[d][n] # NULL ELSE tree[d][n] = NULL
<1> DEFINE a == Entry(d, n)
<1>1. EntryKind(d, n, a) /\ d \in Inode
  BY EntryIs DEF IsDir, IsTaken
<1> HIDE DEF a
<1>2. CASE a # NULL /\ mem[a] # 0
  <2>1. a \in Slots(inode, d) /\ Filled(mem, a) /\ mem[mem[a] + 1] = n
    BY <1>1, <1>2 DEF EntryKind
  <2>2. Named(mem, used, inode, C, tree, d, a)
    BY <1>1, <2>1 DEF Directories
  <2>3. tree[d][n] = mem[mem[a]] /\ mem[mem[a]] \in Inode
    BY <2>1, <2>2 DEF Named, IsTaken
  <2>4. tree[d][n] # NULL
    BY <2>3, InodeIs
  <2> QED BY <1>2, <2>3, <2>4 DEF a
<1>3. CASE ~(a # NULL /\ mem[a] # 0)
  <2>1. \A b \in Slots(inode, d) : Filled(mem, b) => mem[mem[b] + 1] # n
    BY <1>1, <1>3 DEF EntryKind, Filled
  <2>2. tree[d][n] = NULL
    BY <1>1, <2>1 DEF Directories
  <2> QED BY <1>3, <2>2 DEF a
<1> QED BY <1>2, <1>3

LEMMA OnwardName ==
  ASSUME NEW C, Layout(mem, used, inode, C), Directories(mem, used, inode, C, tree),
         NEW d, IsDir(inode, d), NEW n \in Name, NEW last
  PROVE  IF tree[d][n] # NULL THEN Onward(Found(d), n, last) = Found(tree[d][n])
         ELSE Onward(Found(d), n, last).is # "found"
<1> DEFINE a == Entry(d, n)
<1>1. Found(d).is = "found" /\ Found(d).id = d /\ inode[d].dir /\ n # UP
  BY Numbers DEF Found, IsDir
<1>2. Onward(Found(d), n, last) = IF a = NULL THEN [is |-> "over"]
             ELSE IF mem[a] # 0 THEN Found(mem[mem[a]])
             ELSE IF last THEN [is |-> "absent", dir |-> d, slot |-> a, name |-> n]
             ELSE [is |-> "none"]
  BY <1>1 DEF Onward
<1>3. IF a # NULL /\ mem[a] # 0 THEN tree[d][n] = mem[mem[a]] /\ tree[d][n] # NULL ELSE tree[d][n] = NULL
  BY EntryOf
<1> HIDE DEF a
<1>4. CASE a # NULL /\ mem[a] # 0
  BY <1>2, <1>3, <1>4
<1>5. CASE ~(a # NULL /\ mem[a] # 0)
  <2>1. Onward(Found(d), n, last).is # "found"
    BY <1>2, <1>5
  <2> QED BY <1>3, <1>5, <2>1
<1> QED BY <1>4, <1>5

\* Where nothing was moved, the lookup of a walk's names ends where the walk does.
LEMMA WalkFound ==
  ASSUME NEW C, Good(C), NEW p, NEW i, Walk(inode, tree, p, i), IsDir(inode, 0)
  PROVE  Lookup(0, p) = Found(i)
<1>1. PICK g : Leads(inode, tree, p, i, g)
  BY DEF Walk
<1>2. p \in Seq(Name) /\ p \in Seq(Name \cup {UP}) /\ Len(p) \in Nat
  BY DEF Walk
<1>3. Layout(mem, used, inode, C) /\ Directories(mem, used, inode, C, tree) /\ IsTaken(inode, 0)
  BY GoodIs DEF IsDir
<1>4. PICK f : AlongIs(0, p, f) /\ Lookup(0, p) = f[Len(p)]
  BY <1>2, <1>3, LookupAlong
<1> DEFINE n == Len(p)
           D == [k \in 0 .. n |-> {Found(g[k])}]
<1>5. f[0] = Found(0) /\ \A k \in 1 .. n : f[k] = Onward(f[k - 1], p[k], k = n)
  <2>1. \A k \in 0 .. n : f[k] = IF k = 0 THEN Found(0) ELSE Onward(f[k - 1], p[k], k = n)
    BY <1>4 DEF AlongIs
  <2>2. 0 \in 0 .. n /\ \A k \in 1 .. n : k \in 0 .. n /\ k # 0
    BY <1>2
  <2> HIDE DEF n
  <2> QED BY <2>1, <2>2
<1>6. f[0] \in D[0]
  BY <1>1, <1>2, <1>5 DEF Leads
<1>7. ASSUME NEW k \in 1 .. n, f[k - 1] \in D[k - 1] PROVE f[k] \in D[k]
  <2>1. k \in 0 .. n /\ k - 1 \in 0 .. n /\ p[k] \in Name
    BY <1>2
  <2>2. f[k - 1] = Found(g[k - 1])
    BY <1>7, <2>1
  <2>3. IsDir(inode, g[k - 1]) /\ IsDir(inode, g[k]) /\ tree[g[k - 1]][p[k]] = g[k]
    BY <1>1, <2>1 DEF Leads
  <2>4. g[k] # NULL
    BY <2>3, InodeIs DEF IsDir, IsTaken
  <2> DEFINE last == (k = n)
  <2>5. f[k] = Onward(f[k - 1], p[k], last)
    BY <1>5
  <2> HIDE DEF last, D
  <2>6. f[k] = Found(g[k])
    BY <1>3, <2>1, <2>2, <2>3, <2>4, <2>5, OnwardName
  <2> QED BY <2>1, <2>6 DEF D
<1>8. D[n] = {Found(g[n])} /\ n \in 0 .. n
  BY <1>2
<1> HIDE DEF D
<1>9. f[n] \in D[n]
  BY <1>2, <1>6, <1>7, <1>8, Runs
<1> QED BY <1>1, <1>4, <1>8, <1>9 DEF Leads

-----------------------------------------------------------------------------
(* dir_cat                                                                     *)

CatStep(p, n) ==
  CASE n # UP -> Append(p, n)
    [] n = UP /\ p # <<>> -> SubSeq(p, 1, Len(p) - 1)
    [] OTHER -> p

CatIs(dest, path, f) ==
  f = [k \in 0 .. Len(path) |-> IF k = 0 THEN dest ELSE CatStep(f[k - 1], path[k])]

LEMMA CatStepIs ==
  ASSUME NEW p \in Seq(Name), NEW n \in Name \cup {UP}
  PROVE  /\ CatStep(p, n) \in Seq(Name)
         /\ n \in Name => CatStep(p, n) = Append(p, n)
         /\ n = UP /\ p = <<>> => CatStep(p, n) = p
         /\ n = UP /\ p # <<>> => /\ CatStep(p, n) = SubSeq(p, 1, Len(p) - 1)
                                  /\ Len(CatStep(p, n)) = Len(p) - 1
                                  /\ \A k \in 1 .. Len(p) - 1 : CatStep(p, n)[k] = p[k]
<1>1. UP \notin Name
  BY Numbers
<1>2. CASE n \in Name
  BY <1>1, <1>2 DEF CatStep
<1>3. CASE n = UP /\ p = <<>>
  <2>1. CatStep(p, n) = p
    BY <1>3 DEF CatStep
  <2> QED BY <1>1, <1>3, <2>1
<1>4. CASE n = UP /\ p # <<>>
  <2>1. CatStep(p, n) = SubSeq(p, 1, Len(p) - 1)
    BY <1>4 DEF CatStep
  <2> DEFINE z == Len(p) - 1
  <2>2. z \in Nat /\ z < Len(p) /\ z \in 0 .. Len(p)
    BY <1>4
  <2> HIDE DEF z
  <2>3. SubSeq(p, 1, z) \in Seq(Name) /\ Len(SubSeq(p, 1, z)) = z /\ \A k \in 1 .. z : SubSeq(p, 1, z)[k] = p[k]
    BY <2>2
  <2> QED BY <1>1, <1>4, <2>1, <2>3 DEF z
<1> QED BY <1>2, <1>3, <1>4

\* The steps of dir_cat.
LEMMA DirCatAlong ==
  ASSUME NEW dest \in Seq(Name), NEW path \in Seq(Name \cup {UP})
  PROVE  \E f : DirCat(dest, path) = f[Len(path)] /\ CatIs(dest, path, f)
<1> DEFINE n == Len(path)
           S == Seq(Name)
           D == [k \in 0 .. n |-> S]
           g == [kx \in (1 .. n) \X S |-> CatStep(kx[2], path[kx[1]])]
<1>1. n \in Nat /\ \A k \in 1 .. n : path[k] \in Name \cup {UP}
  OBVIOUS
<1> HIDE DEF n
<1>2. \A k \in 1 .. n : \A y \in S : g[<<k, y>>] = CatStep(y, path[k])
  OBVIOUS
<1>3. \A k \in 1 .. n : \A y \in S : CatStep(y, path[k]) \in S
  BY <1>1, CatStepIs
<1>4. \A k \in 0 .. n : D[k] = S
  OBVIOUS
<1>5. \A k \in 1 .. n : D[k] = S /\ D[k - 1] = S
  BY <1>1
<1> HIDE DEF g, D, S
<1>6. ASSUME NEW k \in 1 .. n, NEW y \in D[k - 1] PROVE g[<<k, y>>] \in D[k]
  BY <1>2, <1>3, <1>5
<1>7. dest \in D[0]
  BY <1>1, <1>4 DEF S
<1>8. PICK f : Solves(n, dest, g, f) /\ \A k \in 0 .. n : f[k] \in D[k]
  BY <1>1, <1>6, <1>7, Recursion
<1>9. \A k \in 0 .. n : k # 0 => k \in 1 .. n /\ f[k - 1] \in S
  <2> SUFFICES ASSUME NEW k \in 0 .. n, k # 0 PROVE k \in 1 .. n /\ f[k - 1] \in S
    OBVIOUS
  <2>1. k \in 1 .. n /\ k - 1 \in 0 .. n
    BY <1>1
  <2> QED BY <1>4, <1>8, <2>1
<1>10. [k \in 0 .. n |-> IF k = 0 THEN dest ELSE g[<<k, f[k - 1]>>]]
         = [k \in 0 .. n |-> IF k = 0 THEN dest ELSE CatStep(f[k - 1], path[k])]
  BY <1>2, <1>9
<1>11. CatIs(dest, path, f)
  BY <1>8, <1>10 DEF Solves, CatIs, n
<1> DEFINE h == CHOOSE cat : CatIs(dest, path, cat)
<1>12. CatIs(dest, path, h)
  BY <1>11
<1>13. DirCat(dest, path) = h[Len(path)]
  BY Zenon DEF DirCat, h, CatIs, CatStep
<1> QED BY <1>12, <1>13

\* One name of chdir's path: where the lookup is in a directory, the names lead there.
LEMMA ChdirStep ==
  ASSUME NEW C, Good(C), IsDir(inode, 0), Parents(mem, inode, tree),
         NEW d, NEW p, Walk(inode, tree, p, d), IsDir(inode, d),
         NEW n \in Name \cup {UP}, NEW last, NEW i,
         Onward(Found(d), n, last).is = "found", i = Onward(Found(d), n, last).id, IsDir(inode, i)
  PROVE  Walk(inode, tree, CatStep(p, n), i)
<1>1. PICK g : Leads(inode, tree, p, d, g)
  BY DEF Walk
<1>2. p \in Seq(Name) /\ Len(p) \in Nat
  BY DEF Walk
<1>3. Layout(mem, used, inode, C) /\ Directories(mem, used, inode, C, tree) /\ d \in Inode
  BY GoodIs DEF IsDir, IsTaken
<1>4. /\ g[0] = 0 /\ g[Len(p)] = d
      /\ \A k \in 0 .. Len(p) : IsDir(inode, g[k])
      /\ \A k \in 1 .. Len(p) : tree[g[k - 1]][p[k]] = g[k]
  BY <1>1 DEF Leads
<1> DEFINE z == Len(p)
           q == CatStep(p, n)
<1>5. p # <<>> => z - 1 \in 0 .. z /\ z \in 1 .. z /\ p[z] \in Name
  BY <1>2
<1>6. p # <<>> => d # 0 /\ mem[inode[d].info] = g[z - 1]
  <2> SUFFICES ASSUME p # <<>> PROVE d # 0 /\ mem[inode[d].info] = g[z - 1]
    OBVIOUS
  <2>1. tree[g[z - 1]][p[z]] = d /\ IsDir(inode, g[z - 1])
    BY <1>4, <1>5
  <2>2. g[z - 1] \in Inode /\ d # NULL
    BY <1>3, <2>1, InodeIs DEF IsDir, IsTaken
  <2> HIDE DEF z
  <2> QED BY <1>5, <2>1, <2>2 DEF Parents
<1>7. CASE n = UP
  <2>1. i = IF d = 0 THEN 0 ELSE mem[inode[d].info]
    <3>1. Found(d).is = "found" /\ Found(d).id = d /\ inode[d].dir
      BY DEF Found, IsDir
    <3>2. Onward(Found(d), n, last) = Found(IF d = 0 THEN 0 ELSE mem[inode[d].info])
      BY <1>7, <3>1 DEF Onward
    <3> QED BY <3>2 DEF Found
  <2>2. CASE p = <<>>
    <3>1. d = 0 /\ q = p
      BY <1>2, <1>4, <1>7, <2>2, CatStepIs
    <3> QED BY <2>1, <3>1
  <2>3. CASE p # <<>>
    <3>1. i = g[z - 1]
      BY <1>6, <2>1, <2>3
    <3>2. q \in Seq(Name) /\ Len(q) = z - 1 /\ \A k \in 1 .. z - 1 : q[k] = p[k]
      BY <1>2, <1>7, <2>3, CatStepIs
    <3>3. (\A k \in 0 .. z - 1 : k \in 0 .. z) /\ (\A k \in 1 .. z - 1 : k \in 1 .. z)
      BY <1>2
    <3> HIDE DEF z, q
    <3>4. Leads(inode, tree, q, i, g)
      BY <1>4, <3>1, <3>2, <3>3 DEF Leads, z
    <3> QED BY <3>2, <3>4 DEF Walk, q
  <2> QED BY <2>2, <2>3
<1>8. CASE n # UP
  <2>1. n \in Name
    BY <1>8
  <2>2. tree[d][n] = i
    <3>1. IF tree[d][n] # NULL THEN Onward(Found(d), n, last) = Found(tree[d][n])
          ELSE Onward(Found(d), n, last).is # "found"
      BY <1>3, <2>1, OnwardName
    <3>2. Onward(Found(d), n, last) = Found(tree[d][n])
      BY <3>1
    <3> QED BY <3>2 DEF Found
  <2>3. q = Append(p, n)
    BY <1>2, <2>1, CatStepIs
  <2>4. q \in Seq(Name) /\ Len(q) = z + 1 /\ q[z + 1] = n /\ \A k \in 1 .. z : q[k] = p[k]
    BY <1>2, <2>1, <2>3
  <2> DEFINE e == [k \in 0 .. z + 1 |-> IF k = z + 1 THEN i ELSE g[k]]
  <2>5. e[z + 1] = i /\ \A k \in 0 .. z : e[k] = g[k]
    BY <1>2
  <2> HIDE DEF e, q
  <2>6. z \in Nat /\ 0 \in 0 .. z /\ z \in 0 .. z /\ (\A k \in 0 .. z + 1 : k \in 0 .. z \/ k = z + 1)
        /\ (\A k \in 1 .. z + 1 : (k \in 1 .. z /\ k \in 0 .. z /\ k - 1 \in 0 .. z) \/ (k = z + 1 /\ k - 1 = z))
    BY <1>2
  <2> HIDE DEF z
  <2>7. e[0] = 0 /\ e[Len(q)] = i
    BY <1>4, <2>4, <2>5, <2>6
  <2>8. \A k \in 0 .. z + 1 : IsDir(inode, e[k])
    BY <1>4, <2>5, <2>6 DEF z
  <2>9. ASSUME NEW k \in 1 .. z + 1 PROVE tree[e[k - 1]][q[k]] = e[k]
    <3>1. CASE k \in 1 .. z
      <4>1. e[k] = g[k] /\ e[k - 1] = g[k - 1] /\ q[k] = p[k]
        BY <2>4, <2>5, <2>6, <3>1
      <4> QED BY <1>4, <3>1, <4>1 DEF z
    <3>2. CASE k = z + 1
      <4>1. e[k] = i /\ e[k - 1] = d /\ q[k] = n
        BY <1>4, <2>4, <2>5, <2>6, <3>2 DEF z
      <4> QED BY <2>2, <4>1
    <3> QED BY <2>6, <3>1, <3>2
  <2>10. Leads(inode, tree, q, i, e)
    BY <2>4, <2>7, <2>8, <2>9 DEF Leads
  <2> QED BY <2>4, <2>10 DEF Walk, q
<1> QED BY <1>7, <1>8

\* The lookup of a path from the working directory and dir_cat of it agree.
LEMMA ChdirWalk ==
  ASSUME NEW C, Good(C), IsDir(inode, 0), Parents(mem, inode, tree), Walk(inode, tree, pwd, cwd),
         NEW path \in Seq(Name \cup {UP}),
         Lookup(cwd, path).is = "found", IsDir(inode, Lookup(cwd, path).id)
  PROVE  Walk(inode, tree, DirCat(pwd, path), Lookup(cwd, path).id)
<1> DEFINE n == Len(path)
           T(x, p) == x \in Results /\ p \in Seq(Name) /\ (x.is = "found" /\ IsDir(inode, x.id) => Walk(inode, tree, p, x.id))
           S == {xp \in Results \X Seq(Name) : T(xp[1], xp[2])}
           D == [k \in 0 .. n |-> S]
<1>1. /\ Layout(mem, used, inode, C) /\ Directories(mem, used, inode, C, tree)
      /\ IsTaken(inode, cwd) /\ cwd \in Inode /\ n \in Nat
      /\ pwd \in Seq(Name) /\ \A k \in 1 .. n : path[k] \in Name \cup {UP}
  BY GoodIs DEF Walk
<1>2. PICK f : /\ AlongIs(cwd, path, f) /\ Lookup(cwd, path) = f[Len(path)]
               /\ \A k \in 0 .. Len(path) : f[k] \in Results
  BY <1>1, LookupAlong
<1>3. PICK c : DirCat(pwd, path) = c[Len(path)] /\ CatIs(pwd, path, c)
  BY <1>1, DirCatAlong
<1>4. 0 \in 0 .. n /\ n \in 0 .. n /\ \A k \in 1 .. n : k \in 0 .. n /\ k - 1 \in 0 .. n /\ k # 0
  BY <1>1
<1>5. f[0] = Found(cwd) /\ \A k \in 1 .. n : f[k] = Onward(f[k - 1], path[k], k = n)
  <2>1. \A k \in 0 .. n : f[k] = IF k = 0 THEN Found(cwd) ELSE Onward(f[k - 1], path[k], k = n)
    BY <1>2 DEF AlongIs
  <2> HIDE DEF n
  <2> QED BY <1>4, <2>1
<1>6. c[0] = pwd /\ \A k \in 1 .. n : c[k] = CatStep(c[k - 1], path[k])
  <2>1. \A k \in 0 .. n : c[k] = IF k = 0 THEN pwd ELSE CatStep(c[k - 1], path[k])
    BY <1>3 DEF CatIs
  <2> HIDE DEF n
  <2> QED BY <1>4, <2>1
<1> DEFINE h == [k \in 0 .. n |-> <<f[k], c[k]>>]
<1>7. \A k \in 0 .. n : h[k] = <<f[k], c[k]>> /\ D[k] = S
  OBVIOUS
<1>8. \A x, p : <<x, p>> \in S <=> T(x, p)
  OBVIOUS
<1> HIDE DEF h, D, S, n
<1>9. h[0] \in D[0]
  <2>1. f[0] \in Results /\ f[0].is = "found" /\ f[0].id = cwd
    BY <1>2, <1>4, <1>5 DEF Found, n
  <2>2. c[0] = pwd /\ Walk(inode, tree, pwd, cwd)
    BY <1>6
  <2>3. Walk(inode, tree, c[0], f[0].id)
    BY <2>1, <2>2, Zenon
  <2>4. T(f[0], c[0])
    BY <1>1, <2>1, <2>2, <2>3
  <2> HIDE DEF T
  <2>5. h[0] = <<f[0], c[0]>> /\ D[0] = S
    BY <1>4, <1>7
  <2> QED BY <1>8, <2>4, <2>5
<1>10. ASSUME NEW k \in 1 .. n, h[k - 1] \in D[k - 1] PROVE h[k] \in D[k]
  <2> DEFINE x == f[k - 1]
             p == c[k - 1]
             e == path[k]
             last == (k = n)
             y == f[k]
  <2>1. T(x, p)
    BY <1>4, <1>7, <1>8, <1>10
  <2>2. y = Onward(x, e, last) /\ c[k] = CatStep(p, e) /\ e \in Name \cup {UP} /\ y \in Results
    <3>1. y \in Results
      BY <1>2, <1>4 DEF n
    <3> QED BY <1>1, <1>5, <1>6, <3>1
  <2>3. c[k] \in Seq(Name)
    BY <2>1, <2>2, CatStepIs
  <2> HIDE DEF x, p, e, last, y
  <2>4. ASSUME y.is = "found", IsDir(inode, y.id) PROVE Walk(inode, tree, CatStep(p, e), y.id)
    <3>1. x.is = "found"
      BY <2>2, <2>4 DEF Onward
    <3>2. inode[x.id].dir
      BY <2>2, <2>4, <3>1 DEF Onward
    <3>3. x = Found(x.id) /\ IsDir(inode, x.id)
      BY <2>1, <3>1, <3>2, FoundIs DEF IsDir
    <3>4. Walk(inode, tree, p, x.id)
      BY <2>1, <3>1, <3>3
    <3>5. Onward(Found(x.id), e, last).is = "found" /\ y.id = Onward(Found(x.id), e, last).id
      BY <2>2, <2>4, <3>3
    <3> QED BY <2>2, <2>4, <3>3, <3>4, <3>5, ChdirStep
  <2>5. T(y, c[k])
    BY <2>2, <2>3, <2>4
  <2>6. T(f[k], c[k])
    BY <2>5 DEF y
  <2> HIDE DEF T
  <2>7. h[k] = <<f[k], c[k]>> /\ D[k] = S
    BY <1>4, <1>7
  <2> QED BY <1>8, <2>6, <2>7
<1>11. \A k \in 0 .. n : h[k] \in D[k]
  BY <1>1, <1>9, <1>10, Runs
<1>12. T(f[n], c[n])
  BY <1>4, <1>7, <1>8, <1>11
<1> QED BY <1>2, <1>3, <1>12 DEF n

\* What a call may do to the tree while nothing is moved: directories stay where they
\* are, and one that is new, or found by a new name, has its ".." right.
Grown(m, I, tr, m2, I2, tr2) ==
  /\ \A d \in Inode : IsDir(I, d) => IsDir(I2, d)
  /\ \A d \in Inode, n \in Name : tr[d][n] # NULL /\ IsDir(I, tr[d][n]) => tr2[d][n] = tr[d][n]
  /\ Parents(m2, I2, tr2)

LEMMA WalkGrown ==
  ASSUME NEW m, NEW I, NEW tr, NEW m2, NEW I2, NEW tr2, Grown(m, I, tr, m2, I2, tr2), NEW p, NEW i, Walk(I, tr, p, i)
  PROVE  Walk(I2, tr2, p, i)
<1>1. PICK g : Leads(I, tr, p, i, g)
  BY DEF Walk
<1>2. p \in Seq(Name) /\ Len(p) \in Nat
  BY DEF Walk
<1>3. \A k \in 0 .. Len(p) : IsDir(I, g[k]) /\ g[k] \in Inode /\ g[k] # NULL
  BY <1>1, InodeIs DEF Leads, IsDir, IsTaken
<1>4. ASSUME NEW k \in 1 .. Len(p) PROVE tr2[g[k - 1]][p[k]] = g[k]
  <2>1. k \in 0 .. Len(p) /\ k - 1 \in 0 .. Len(p) /\ p[k] \in Name
    BY <1>2
  <2>2. tr[g[k - 1]][p[k]] = g[k]
    BY <1>1 DEF Leads
  <2> QED BY <1>3, <2>1, <2>2 DEF Grown
<1>5. \A k \in 0 .. Len(p) : IsDir(I2, g[k])
  BY <1>3 DEF Grown
<1>6. Leads(I2, tr2, p, i, g)
  BY <1>1, <1>4, <1>5 DEF Leads
<1> QED BY <1>2, <1>6 DEF Walk

LEMMA AtPwdGrown ==
  ASSUME AtPwd, cwd' = cwd, pwd' = pwd, ~moved' => ~moved /\ Grown(mem, inode, tree, mem', inode', tree')
  PROVE  AtPwd'
<1> SUFFICES ASSUME ~moved' PROVE IsDir(inode', 0) /\ Parents(mem', inode', tree') /\ Walk(inode', tree', pwd', cwd')
  BY DEF AtPwd
<1>1. IsDir(inode, 0) /\ Walk(inode, tree, pwd, cwd) /\ Grown(mem, inode, tree, mem', inode', tree')
  BY DEF AtPwd
<1>2. Walk(inode', tree', pwd, cwd)
  BY <1>1, WalkGrown
<1>3. 0 \in Inode
  BY Numbers
<1> QED BY <1>1, <1>2, <1>3 DEF Grown

\* The entries that lead to directories are the old ones.
LEMMA NoNewDirs ==
  ASSUME NEW m, NEW I, NEW tr, NEW m2, NEW I2, NEW tr2, Parents(m, I, tr),
         \A e \in Inode : IsDir(I, e) => IsDir(I2, e) /\ I2[e].info = I[e].info /\ m2[I[e].info] = m[I[e].info],
         \A d \in Inode, n \in Name : tr[d][n] # NULL /\ IsDir(I, tr[d][n]) => tr2[d][n] = tr[d][n],
         \A d \in Inode, n \in Name : tr2[d][n] # NULL /\ IsDir(I2, tr2[d][n]) => tr2[d][n] = tr[d][n] /\ IsDir(I, tr[d][n])
  PROVE  Grown(m, I, tr, m2, I2, tr2)
<1>1. ASSUME NEW d \in Inode, NEW n \in Name, tr2[d][n] # NULL, IsDir(I2, tr2[d][n])
      PROVE  tr2[d][n] # 0 /\ m2[I2[tr2[d][n]].info] = d
  <2>1. tr2[d][n] = tr[d][n] /\ IsDir(I, tr[d][n]) /\ tr[d][n] # NULL /\ tr[d][n] \in Inode
    BY <1>1 DEF IsDir, IsTaken
  <2>2. tr[d][n] # 0 /\ m[I[tr[d][n]].info] = d
    BY <2>1 DEF Parents
  <2> QED BY <2>1, <2>2
<1>2. Parents(m2, I2, tr2)
  BY <1>1 DEF Parents
<1> QED BY <1>2 DEF Grown

LEMMA SameDirsGrown ==
  ASSUME SameDirs, tree' = tree, Parents(mem, inode, tree)
  PROVE  Grown(mem, inode, tree, mem', inode', tree')
<1>1. \A e \in Inode : IsDir(inode, e) =>
        IsDir(inode', e) /\ inode'[e].info = inode[e].info /\ mem'[inode[e].info] = mem[inode[e].info]
  BY DEF SameDirs
<1>2. \A e : IsDir(inode', e) => IsDir(inode, e)
  BY DEF SameDirs, IsDir, IsTaken
<1> QED BY <1>1, <1>2, NoNewDirs

\* A name leads to an inode in use.
LEMMA TreeTaken ==
  ASSUME NEW C, Directories(mem, used, inode, C, tree), NEW d \in Inode, NEW n \in Name, tree[d][n] # NULL
  PROVE  IsDir(inode, d) /\ IsTaken(inode, tree[d][n]) /\ \E a \in Slots(inode, d) : Filled(mem, a) /\ mem[mem[a] + 1] = n
<1>1. PICK a \in Slots(inode, d) : Filled(mem, a) /\ mem[mem[a] + 1] = n
  BY DEF Directories
<1>2. IsDir(inode, d)
  BY DEF Directories
<1>3. Named(mem, used, inode, C, tree, d, a)
  BY <1>1, <1>2 DEF Directories
<1> QED BY <1>1, <1>2, <1>3 DEF Named

LEMMA MadeGrown ==
  ASSUME NEW C, Good(C), NEW C2, NEW d, NEW n, NEW i, NEW isDir \in BOOLEAN,
         Makes(C, C2, i, isDir), MakesDir(d, n, i, isDir), IsDir(inode, 0), Parents(mem, inode, tree)
  PROVE  Grown(mem, inode, tree, mem', inode', tree')
<1>1. /\ i \in Inode /\ (IsDir(inode', i) <=> isDir) /\ ~IsTaken(inode, i) /\ \A j \in Inode : j # i => inode'[j] = inode[j]
  BY DEF Makes
<1>2. /\ d \in Inode /\ n \in Name /\ tree[d][n] = NULL /\ tree' = [tree EXCEPT ![d][n] = i]
      /\ \A e \in Inode : IsDir(inode, e) => inode'[e].info = inode[e].info /\ mem'[inode[e].info] = mem[inode[e].info]
  BY DEF MakesDir, IsDir, IsTaken
<1>3. Directories(mem, used, inode, C, tree) /\ tree \in [Inode -> [Name -> Inode \cup {NULL}]]
  BY GoodIs DEF Directories
<1>4. tree'[d][n] = i /\ \A e \in Inode, k \in Name : ~(e = d /\ k = n) => tree'[e][k] = tree[e][k]
  BY <1>1, <1>2, <1>3
<1>5. \A e \in Inode : IsDir(inode, e) => IsDir(inode', e)
  BY <1>1 DEF IsDir, IsTaken
<1>6. \A e \in Inode, k \in Name : tree[e][k] # NULL /\ IsDir(inode, tree[e][k]) => tree'[e][k] = tree[e][k]
  BY <1>2, <1>4
<1>7. ASSUME NEW e \in Inode, NEW k \in Name, tree'[e][k] # NULL, IsDir(inode', tree'[e][k])
      PROVE  tree'[e][k] # 0 /\ mem'[inode'[tree'[e][k]].info] = e
  <2>1. CASE e = d /\ k = n
    <3>1. tree'[e][k] = i /\ isDir
      BY <1>1, <1>4, <1>7, <2>1
    <3>2. mem'[inode'[i].info] = d
      BY <3>1 DEF MakesDir
    <3>3. i # 0
      BY <1>1 DEF IsDir
    <3> QED BY <2>1, <3>1, <3>2, <3>3
  <2>2. CASE ~(e = d /\ k = n)
    <3> DEFINE j == tree[e][k]
    <3>1. tree'[e][k] = j /\ j # NULL /\ IsTaken(inode, j) /\ j \in Inode
      BY <1>3, <1>4, <1>7, <2>2, TreeTaken DEF IsTaken
    <3>2. IsDir(inode, j)
      BY <1>1, <1>7, <3>1 DEF IsDir, IsTaken
    <3>3. j # 0 /\ mem[inode[j].info] = e
      BY <3>1, <3>2 DEF Parents
    <3>4. inode'[j].info = inode[j].info /\ mem'[inode[j].info] = mem[inode[j].info]
      BY <1>2, <3>1, <3>2
    <3> HIDE DEF j
    <3> QED BY <3>1, <3>3, <3>4
  <2> QED BY <2>1, <2>2
<1>8. Parents(mem', inode', tree')
  BY <1>7 DEF Parents
<1> QED BY <1>5, <1>6, <1>8 DEF Grown

LEMMA AddedGrown ==
  ASSUME NEW C, Good(C), NEW d, NEW a, NEW b, NEW i, NEW n,
         Adds(mem, used, inode, tree, mem', used', tree', d, a, b, i, n), ~IsDir(inode, i), inode' = inode,
         Parents(mem, inode, tree)
  PROVE  Grown(mem, inode, tree, mem', inode', tree')
<1>1. Layout(mem, used, inode, C) /\ Directories(mem, used, inode, C, tree) /\ tree \in [Inode -> [Name -> Inode \cup {NULL}]]
  BY GoodIs DEF Directories
<1>2. /\ d \in Inode /\ n \in Name /\ tree' = [tree EXCEPT ![d][n] = i]
      /\ \A x \in Slots(inode, d) : Filled(mem, x) => mem[mem[x] + 1] # n
  BY DEF Adds, IsDir, IsTaken
<1>3. tree[d][n] = NULL
  BY <1>1, <1>2 DEF Directories
<1>4. tree'[d][n] = i /\ \A e \in Inode, k \in Name : ~(e = d /\ k = n) => tree'[e][k] = tree[e][k]
  BY <1>1, <1>2
<1>5. AddedWords(mem, inode, C, used, mem', d, a, b, i, n)
  BY <1>1, AddedIs
<1>6. \A e \in Inode : IsDir(inode, e) => mem'[inode[e].info] = mem[inode[e].info]
  BY <1>5 DEF AddedWords
<1>7. \A e \in Inode, k \in Name : tree[e][k] # NULL /\ IsDir(inode, tree[e][k]) => tree'[e][k] = tree[e][k]
  BY <1>3, <1>4
<1>8. \A e \in Inode, k \in Name : tree'[e][k] # NULL /\ IsDir(inode, tree'[e][k]) => tree'[e][k] = tree[e][k] /\ IsDir(inode, tree[e][k])
  BY <1>4
<1> QED BY <1>6, <1>7, <1>8, NoNewDirs

LEMMA WipedGrown ==
  ASSUME NEW C, Good(C), NEW d, NEW a, NEW n, Wipes(mem, inode, tree, mem', tree', d, a, n),
         inode[mem[mem[a]]].dir = FALSE, inode' = inode, Parents(mem, inode, tree)
  PROVE  Grown(mem, inode, tree, mem', inode', tree')
<1>1. Layout(mem, used, inode, C) /\ Directories(mem, used, inode, C, tree) /\ tree \in [Inode -> [Name -> Inode \cup {NULL}]]
  BY GoodIs DEF Directories
<1>2. /\ d \in Inode /\ IsDir(inode, d) /\ n \in Name /\ tree' = [tree EXCEPT ![d][n] = NULL]
      /\ a \in Slots(inode, d) /\ Filled(mem, a) /\ mem[mem[a] + 1] = n
  BY DEF Wipes, IsDir, IsTaken
<1>3. tree[d][n] = mem[mem[a]] /\ ~IsDir(inode, tree[d][n])
  <2>1. Named(mem, used, inode, C, tree, d, a)
    BY <1>1, <1>2 DEF Directories
  <2>2. tree[d][n] = mem[mem[a]]
    BY <1>2, <2>1 DEF Named
  <2>3. ~IsDir(inode, mem[mem[a]])
    BY DEF IsDir
  <2> QED BY <2>2, <2>3
<1>4. tree'[d][n] = NULL /\ \A e \in Inode, k \in Name : ~(e = d /\ k = n) => tree'[e][k] = tree[e][k]
  BY <1>1, <1>2
<1>5. \A e \in Inode : IsDir(inode, e) => mem'[inode[e].info] = mem[inode[e].info]
  <2> SUFFICES ASSUME NEW e \in Inode, IsDir(inode, e) PROVE mem'[inode[e].info] = mem[inode[e].info]
    OBVIOUS
  <2>1. inode[e].info \in Base /\ InChain(C, inode[e].info)
    BY <1>1, SlotIs
  <2>2. \A w \in Base : InChain(C, w) => mem'[w] = mem[w]
    BY <1>1, WipedWords
  <2> QED BY <2>1, <2>2
<1>6. \A e \in Inode, k \in Name : tree[e][k] # NULL /\ IsDir(inode, tree[e][k]) => tree'[e][k] = tree[e][k]
  BY <1>3, <1>4
<1>7. \A e \in Inode, k \in Name : tree'[e][k] # NULL /\ IsDir(inode, tree'[e][k]) => tree'[e][k] = tree[e][k] /\ IsDir(inode, tree[e][k])
  BY <1>4
<1> QED BY <1>5, <1>6, <1>7, NoNewDirs

LEMMA FailsAtPwd == ASSUME AtPwd, Fails PROVE AtPwd'
BY DEF AtPwd, Fails, disk, promise

LEMMA OpenAtPwd ==
  ASSUME Inv, AtPwd, NEW h \in Handle, NEW path \in Path, NEW flags \in {"r", "w", "a"}, Open(h, path, flags)
  PROVE  AtPwd'
<1>1. PICK C : Good(C)
  BY DEF Inv
<1> DEFINE r == Lookup(cwd, path)
           i == r.id
<1>2. r \in Results
  BY <1>1, ResultOf, PathIs
<1>3. cwd' = cwd /\ pwd' = pwd
  BY DEF Open
<1>4. CASE r.is = "found" /\ inode' = (IF flags = "w" THEN [inode EXCEPT ![i].size = 0] ELSE inode)
           /\ UNCHANGED <<mem, used, tree, moved, fault>>
  <2>1. IsTaken(inode, i) /\ i \in Inode /\ inode \in Inodes /\ 0 \in 0 .. MaxSize
    BY <1>1, <1>2, <1>4, FoundIs, GoodIs, Numbers
  <2>2. Resized(inode, inode')
    <3>1. CASE flags = "w"
      <4>1. SetsSize(inode, i, 0, inode')
        BY <1>4, <2>1, <3>1 DEF SetsSize
      <4> QED BY <4>1, SizeSet
    <3>2. CASE flags # "w"
      BY <1>4, <2>1, <3>2 DEF Resized
    <3> QED BY <3>1, <3>2
  <2>3. SameDirs
    BY <1>4, <2>2 DEF Resized, SameDirs, IsDir, IsTaken
  <2>4. ~moved' => ~moved /\ Grown(mem, inode, tree, mem', inode', tree')
    BY <1>4, <2>3, SameDirsGrown DEF AtPwd
  <2> QED BY <1>3, <2>4, AtPwdGrown
<1>5. CASE r.is = "absent" /\ Made(r, FALSE) /\ UNCHANGED moved
  <2>1. MakesDir(r.dir, r.name, Least(NewInode), FALSE) /\ \E C2 : Makes(C, C2, Least(NewInode), FALSE)
    BY <1>1, <1>2, <1>5, MadeMakes
  <2>2. PICK C2 : Makes(C, C2, Least(NewInode), FALSE)
    BY <2>1
  <2> HIDE DEF r
  <2>3. ~moved' => ~moved /\ Grown(mem, inode, tree, mem', inode', tree')
    BY <1>1, <1>5, <2>1, <2>2, MadeGrown DEF AtPwd
  <2> QED BY <1>3, <2>3, AtPwdGrown
<1> QED BY <1>4, <1>5 DEF Open

LEMMA MkdirAtPwd ==
  ASSUME Inv, AtPwd, NEW path \in Path, Mkdir(path)
  PROVE  AtPwd'
<1>1. PICK C : Good(C)
  BY DEF Inv
<1> DEFINE r == Lookup(cwd, path)
<1>2. r \in Results
  BY <1>1, ResultOf, PathIs
<1>3. r.is = "absent" /\ Made(r, TRUE) /\ UNCHANGED <<cwd, pwd, moved>>
  BY DEF Mkdir
<1>4. MakesDir(r.dir, r.name, Least(NewInode), TRUE) /\ \E C2 : Makes(C, C2, Least(NewInode), TRUE)
  BY <1>1, <1>2, <1>3, MadeMakes
<1>5. PICK C2 : Makes(C, C2, Least(NewInode), TRUE)
  BY <1>4
<1> HIDE DEF r
<1>6. ~moved' => ~moved /\ Grown(mem, inode, tree, mem', inode', tree')
  BY <1>1, <1>3, <1>4, <1>5, MadeGrown DEF AtPwd
<1> QED BY <1>3, <1>6, AtPwdGrown

LEMMA WriteAtPwd ==
  ASSUME Inv, AtPwd, NEW h \in Handle, NEW n \in Chunk, Write(h, n)
  PROVE  AtPwd'
<1>1. SameDirs
  BY WriteKeeps
<1>2. UNCHANGED <<cwd, pwd, tree, moved>>
  BY DEF Write, WriteAt, Fails, promise
<1>3. ~moved' => ~moved /\ Grown(mem, inode, tree, mem', inode', tree')
  BY <1>1, <1>2, SameDirsGrown DEF AtPwd
<1> QED BY <1>2, <1>3, AtPwdGrown

LEMMA LinkAtPwd ==
  ASSUME Inv, AtPwd, NEW path \in Path, NEW old \in Path, Link(old, path)
  PROVE  AtPwd'
<1>1. PICK C : Good(C)
  BY DEF Inv
<1>2. CASE Fails
  BY <1>2, FailsAtPwd
<1>3. CASE ~Fails
  <2> DEFINE i == Lookup(cwd, old).id
  <2>1. \E d, a, b : Adds(mem, used, inode, tree, mem', used', tree', d, a, b, i, Last(path))
    BY <1>3, LinkKeeps DEF Linked
  <2>2. PICK d, a, b : Adds(mem, used, inode, tree, mem', used', tree', d, a, b, i, Last(path))
    BY <2>1
  <2>3. moved' = (moved \/ inode[i].dir) /\ UNCHANGED <<inode, cwd, pwd>>
    BY <1>3 DEF Link
  <2> HIDE DEF i
  <2>4. ASSUME ~moved' PROVE ~moved /\ Grown(mem, inode, tree, mem', inode', tree')
    <3>1. ~moved /\ ~IsDir(inode, i)
      BY <2>3, <2>4 DEF IsDir
    <3> QED BY <1>1, <2>2, <2>3, <3>1, AddedGrown DEF AtPwd
  <2> QED BY <2>3, <2>4, AtPwdGrown
<1> QED BY <1>2, <1>3

LEMMA RemoveAtPwd ==
  ASSUME Inv, AtPwd, NEW path \in Path, NEW isDir \in BOOLEAN, Remove(path, isDir)
  PROVE  AtPwd'
<1>1. PICK C : Good(C)
  BY DEF Inv
<1>2. Removed(path, isDir)
  BY RemoveKeeps
<1>3. PICK d, a : Wipes(mem, inode, tree, mem', tree', d, a, Last(path)) /\ inode[mem[mem[a]]].dir = isDir
  BY <1>2 DEF Removed
<1>4. moved' = (moved \/ isDir) /\ UNCHANGED <<inode, cwd, pwd>>
  BY DEF Remove, RemoveWith
<1>5. ASSUME ~moved' PROVE ~moved /\ Grown(mem, inode, tree, mem', inode', tree')
  <2>1. ~moved /\ isDir = FALSE
    BY <1>4, <1>5
  <2> QED BY <1>1, <1>3, <1>4, <2>1, WipedGrown DEF AtPwd
<1> QED BY <1>4, <1>5, AtPwdGrown

LEMMA ChdirAtPwd ==
  ASSUME Inv, AtPwd, NEW path \in Path, Chdir(path)
  PROVE  AtPwd'
<1>1. PICK C : Good(C)
  BY DEF Inv
<1> DEFINE r == Lookup(cwd, path)
<1>2. r \in Results /\ path \in Seq(Name \cup {UP})
  BY <1>1, ResultOf, PathIs
<1>3. /\ r.is = "found" /\ inode[r.id].dir /\ cwd' = r.id /\ pwd' = DirCat(pwd, path)
      /\ UNCHANGED <<mem, inode, tree, moved>>
  BY DEF Chdir, disk, promise
<1>4. IsDir(inode, r.id)
  BY <1>2, <1>3, FoundIs DEF IsDir
<1> SUFFICES ASSUME ~moved PROVE IsDir(inode, 0) /\ Parents(mem, inode, tree) /\ Walk(inode, tree, DirCat(pwd, path), r.id)
  BY <1>3 DEF AtPwd
<1>5. IsDir(inode, 0) /\ Parents(mem, inode, tree) /\ Walk(inode, tree, pwd, cwd)
  BY DEF AtPwd
<1> QED BY <1>1, <1>2, <1>3, <1>4, <1>5, ChdirWalk

LEMMA InitAtPwd == Init => AtPwd
<1> SUFFICES ASSUME Init PROVE AtPwd
  OBVIOUS
<1>1. Good(FirstChains) /\ 0 \in Inode
  BY InitGood, Numbers
<1>2. cwd = 0 /\ pwd = <<>> /\ \A d \in Inode, n \in Name : tree[d][n] = NULL
  BY DEF Init
<1>3. IsDir(inode, 0)
  BY <1>1, <1>2, GoodIs
<1>4. Parents(mem, inode, tree)
  BY <1>2 DEF Parents
<1> DEFINE g == [k \in {0} |-> 0]
<1>5. Leads(inode, tree, pwd, cwd, g)
  <2>1. Len(pwd) = 0 /\ g[0] = 0
    BY <1>2
  <2> QED BY <1>2, <1>3, <2>1 DEF Leads
<1>6. pwd \in Seq(Name)
  BY <1>2
<1> QED BY <1>3, <1>4, <1>5, <1>6 DEF AtPwd, Walk

LEMMA AtPwdHolds == Spec => []AtPwd
<1>1. Inv /\ AtPwd /\ [Next]_vars => AtPwd'
  <2> SUFFICES ASSUME Inv, AtPwd, [Next]_vars PROVE AtPwd'
    OBVIOUS
  <2>1. ASSUME NEW h \in Handle, NEW path \in Path, NEW flags \in {"r", "w", "a"}, Open(h, path, flags) PROVE AtPwd'
    BY <2>1, OpenAtPwd
  <2>2. ASSUME NEW h \in Handle, NEW n \in Chunk, Read(h, n) PROVE AtPwd'
    BY <2>2 DEF Read, Fails, AtPwd, disk, promise
  <2>3. ASSUME NEW h \in Handle, NEW n \in Chunk, Write(h, n) PROVE AtPwd'
    BY <2>3, WriteAtPwd
  <2>4. ASSUME NEW h \in Handle, Close(h) PROVE AtPwd'
    BY <2>4 DEF Close, AtPwd, disk, promise
  <2>5. ASSUME NEW path \in Path, Mkdir(path) PROVE AtPwd'
    BY <2>5, MkdirAtPwd
  <2>6. ASSUME NEW path \in Path, Exhaust(path) PROVE AtPwd'
    BY <2>6, FailsAtPwd DEF Exhaust
  <2>7. ASSUME NEW path \in Path, Unlink(path) \/ Rmdir(path) PROVE AtPwd'
    BY <2>7, RemoveAtPwd DEF Unlink, Rmdir
  <2>8. ASSUME NEW path \in Path, NEW old \in Path, Link(old, path) PROVE AtPwd'
    BY <2>8, LinkAtPwd
  <2>9. ASSUME NEW path \in Path, Chdir(path) PROVE AtPwd'
    BY <2>9, ChdirAtPwd
  <2>10. CASE UNCHANGED vars
    BY <2>10 DEF vars, AtPwd
  <2> QED BY <2>1, <2>2, <2>3, <2>4, <2>5, <2>6, <2>7, <2>8, <2>9, <2>10 DEF Next
<1> QED BY <1>1, InitAtPwd, InvHolds, PTL DEF Spec

\* While no directory is removed or gets a second name, the names of the prompt lead
\* from the root to the task's working directory: vfs_chdir's walk along the ".."
\* entries on the disk and dir_cat's cutting of the names come to the same.
THEOREM PwdIsCwdHolds == Spec => []PwdIsCwd
<1>1. Inv /\ AtPwd => PwdIsCwd
  <2> SUFFICES ASSUME Inv, AtPwd, ~moved PROVE Lookup(0, pwd) = Found(cwd)
    BY DEF PwdIsCwd
  <2>1. PICK C : Good(C)
    BY DEF Inv
  <2>2. IsDir(inode, 0) /\ Walk(inode, tree, pwd, cwd)
    BY DEF AtPwd
  <2> QED BY <2>1, <2>2, WalkFound
<1> QED BY <1>1, InvHolds, AtPwdHolds, PTL

=============================================================================
