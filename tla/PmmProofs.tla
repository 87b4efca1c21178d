------------------------------ MODULE PmmProofs ------------------------------
(***************************************************************************)
(* Theorems of Pmm, for any heap, header, page and sizes: until a ring has   *)
(* changed in the middle of a kfree to it, the blocks tile the heap, and no  *)
(* memory is given to two callers.                                           *)
(***************************************************************************)
EXTENDS Pmm, FiniteSetTheorems, FunctionTheorems, SequenceTheorems, WellFoundedInduction, TLAPS

\* Induction over the naturals, for a set rather than for an operator.
LEMMA Induction ==
  ASSUME NEW T, 0 \in T, \A n \in Nat : n \in T => n + 1 \in T
  PROVE  \A n \in Nat : n \in T
<1> DEFINE R == OpToRel(<, Nat)
           U == {n \in Nat : n \notin T}
<1>1. IsWellFoundedOn(R, Nat)
  BY NatLessThanWellFounded
<1>2. \A i, j \in Nat : i < j => <<i, j>> \in R
  BY DEF OpToRel
<1> SUFFICES ASSUME U # {} PROVE FALSE
  OBVIOUS
<1> HIDE DEF R
<1>3. U \subseteq Nat
  OBVIOUS
<1>4. PICK x \in U : \A y \in U : <<y, x>> \notin R
  <2> HIDE DEF U
  <2> QED BY <1>1, <1>3, WFMin
<1>5. x \in Nat /\ x \notin T
  OBVIOUS
<1>6. x # 0
  BY <1>5
<1>7. x - 1 \in Nat /\ x - 1 < x /\ (x - 1) + 1 = x
  BY <1>5, <1>6
<1>8. <<x - 1, x>> \in R
  BY <1>2, <1>5, <1>7
<1>9. x - 1 \notin U
  BY <1>4, <1>8
<1>10. x - 1 \in T
  BY <1>7, <1>9
<1> QED BY <1>5, <1>7, <1>10

-----------------------------------------------------------------------------
(* The ring of a CPU as a chain of pointers                                    *)

\* From c the pointers lead through s and back to c.
Chain(nx, c, s) ==
  /\ s \in Seq(Addr)
  /\ \A i, j \in 1 .. Len(s) : s[i] = s[j] => i = j
  /\ nx[c] = IF Len(s) = 0 THEN c ELSE s[1]
  /\ \A i \in 1 .. Len(s) : nx[s[i]] = IF i = Len(s) THEN c ELSE s[i + 1]

Members(s) == {s[i] : i \in 1 .. Len(s)}
Linked(nx, c, S) == \E s : Chain(nx, c, s) /\ S = Members(s)

LEMMA Numbers ==
  /\ Heap \in Nat /\ Header \in Nat /\ Page \in Nat /\ Header > 0 /\ Page > 0 /\ Heap > Header
  /\ \A n \in Size : n \in Nat /\ n > 0
  /\ \A c \in CPU : c \notin Nat /\ c \notin Addr /\ c # NULL
BY PmmAssumption DEF Addr

\* A chain has no more nodes than there are addresses.
LEMMA ChainShort == ASSUME NEW nx, NEW c, NEW s, Chain(nx, c, s) PROVE Len(s) \in Nat /\ Len(s) <= Heap
<1>1. s \in Seq(Addr) /\ Len(s) \in Nat /\ s \in [1 .. Len(s) -> Addr]
  BY LenProperties DEF Chain
<1>2. s \in Injection(1 .. Len(s), Addr)
  BY <1>1 DEF Chain, Injection, IsInjective
<1>3. IsFiniteSet(Addr) /\ Cardinality(Addr) = Heap /\ Cardinality(1 .. Len(s)) = Len(s)
  <2>1. Heap \in Nat /\ Heap > 0 /\ Heap - 1 \in Int
    BY Numbers
  <2>2. IsFiniteSet(0 .. Heap - 1) /\ Cardinality(0 .. Heap - 1) = Heap
    BY <2>1, FS_Interval
  <2>3. Cardinality(1 .. Len(s)) = Len(s)
    BY <1>1, FS_Interval
  <2> QED BY <2>2, <2>3 DEF Addr
<1>4. Cardinality(1 .. Len(s)) <= Cardinality(Addr)
  BY <1>2, <1>3, FS_Injection
<1> QED BY <1>1, <1>3, <1>4

\* How far a walk of k steps along s comes.
Came(s, k) == SubSeq(s, 1, IF k < Len(s) THEN k ELSE Len(s))

LEMMA CameOn ==
  ASSUME NEW nx, NEW c \in CPU, NEW s, Chain(nx, c, s), NEW k \in Nat
  PROVE  Longer(nx, c, Came(s, k)) = Came(s, k + 1)
<1> DEFINE n == IF k < Len(s) THEN k ELSE Len(s)
           w == SubSeq(s, 1, n)
           v == SubSeq(s, 1, n + 1)
<1>1. s \in Seq(Addr) /\ Len(s) \in Nat /\ n \in Nat /\ n <= Len(s)
  BY DEF Chain
<1>2. w \in Seq(Addr) /\ Len(w) = n /\ \A i \in 1 .. n : w[i] = s[i]
  BY <1>1
<1>3. w = <<>> <=> n = 0
  <2> HIDE DEF w, n
  <2> QED BY <1>1, <1>2
<1> DEFINE x == nx[IF w = <<>> THEN c ELSE w[Len(w)]]
<1>4. x = IF n = Len(s) THEN c ELSE s[n + 1]
  <2> HIDE DEF n, w
  <2>1. CASE n = 0
    BY <1>1, <1>2, <1>3, <2>1 DEF Chain
  <2>2. CASE n # 0
    <3>1. n \in 1 .. Len(s) /\ x = nx[s[n]]
      BY <1>1, <1>2, <1>3, <2>2
    <3> QED BY <3>1 DEF Chain
  <2> QED BY <2>1, <2>2
<1>5. Came(s, k) = w
  BY DEF Came
<1>6. CASE n = Len(s)
  <2>1. ~(k < Len(s)) /\ ~(k + 1 < Len(s))
    BY <1>1, <1>6
  <2>2. Came(s, k + 1) = w
    BY <1>6, <2>1 DEF Came
  <2>3. Longer(nx, c, w) = w
    <3>1. x = c
      BY <1>4, <1>6
    <3> QED BY <3>1 DEF Longer
  <2> QED BY <1>5, <2>2, <2>3
<1>7. CASE n # Len(s)
  <2>1. n = k /\ k < Len(s) /\ (IF k + 1 < Len(s) THEN k + 1 ELSE Len(s)) = k + 1
    BY <1>1, <1>7
  <2>2. Came(s, k + 1) = v
    BY <2>1 DEF Came
  <2>3. s[n + 1] \in Addr
    BY <1>1, <2>1
  <2>4. v = Append(w, s[n + 1])
    <3> HIDE DEF n
    <3>1. v \in Seq(Addr) /\ Len(v) = n + 1 /\ \A i \in 1 .. n + 1 : v[i] = s[i]
      BY <1>1, <1>7
    <3> DEFINE u == Append(w, s[n + 1])
    <3> HIDE DEF v, w
    <3>2. u \in Seq(Addr) /\ Len(u) = n + 1 /\ \A i \in 1 .. n + 1 : u[i] = s[i]
      BY <1>1, <1>2, <2>3
    <3> HIDE DEF u
    <3>3. v = u
      BY <3>1, <3>2, SeqEqual
    <3> QED BY <3>3 DEF u
  <2>5. Longer(nx, c, w) = Append(w, s[n + 1])
    <3>1. x = s[n + 1] /\ x # c
      BY <1>4, <1>7, <2>3, Numbers
    <3> QED BY <3>1 DEF Longer
  <2> QED BY <1>5, <2>2, <2>4, <2>5
<1> QED BY <1>6, <1>7

Walks(nx, c, f) == f = [k \in 0 .. Heap |-> IF k = 0 THEN <<>> ELSE Longer(nx, c, f[k - 1])]

\* The ring the model walks is the chain.
LEMMA RingIs ==
  ASSUME NEW nx, NEW c \in CPU, NEW s, Chain(nx, c, s)
  PROVE  RingOf(nx, c) = s
<1> DEFINE g == [k \in 0 .. Heap |-> Came(s, k)]
           h == CHOOSE f : Walks(nx, c, f)
<1>1. s \in Seq(Addr) /\ Len(s) \in Nat /\ Len(s) <= Heap /\ Heap \in Nat
  BY ChainShort, Numbers DEF Chain
<1>2. Came(s, 0) = <<>>
  BY <1>1 DEF Came
<1>3. Walks(nx, c, g)
  <2> SUFFICES ASSUME NEW k \in 0 .. Heap
               PROVE  Came(s, k) = IF k = 0 THEN <<>> ELSE Longer(nx, c, g[k - 1])
    BY DEF Walks
  <2>1. CASE k = 0
    BY <1>2, <2>1
  <2>2. CASE k # 0
    <3>1. k - 1 \in Nat /\ k - 1 \in 0 .. Heap /\ (k - 1) + 1 = k
      BY <1>1, <2>2
    <3>2. Longer(nx, c, Came(s, k - 1)) = Came(s, k)
      BY <3>1, CameOn
    <3> QED BY <2>2, <3>1, <3>2
  <2> QED BY <2>1, <2>2
<1>4. Walks(nx, c, h)
  BY <1>3
<1>5. RingOf(nx, c) = h[Heap]
  BY Zenon DEF RingOf, Walks
<1> DEFINE T == {k \in Nat : k <= Heap => h[k] = Came(s, k)}
<1> HIDE DEF h
<1>6. ASSUME NEW k \in 0 .. Heap PROVE h[k] = IF k = 0 THEN <<>> ELSE Longer(nx, c, h[k - 1])
  BY <1>4 DEF Walks
<1>7. 0 \in T
  BY <1>1, <1>2, <1>6
<1>8. ASSUME NEW k \in Nat, k \in T PROVE k + 1 \in T
  <2> SUFFICES ASSUME k + 1 <= Heap PROVE h[k + 1] = Came(s, k + 1)
    OBVIOUS
  <2>1. k + 1 \in 0 .. Heap /\ k + 1 # 0 /\ (k + 1) - 1 = k /\ k <= Heap
    BY <1>1
  <2>2. h[k] = Came(s, k)
    BY <1>8, <2>1
  <2>3. h[k + 1] = Longer(nx, c, h[k])
    BY <1>6, <2>1
  <2> QED BY <2>2, <2>3, CameOn
<1>9. \A k \in Nat : k \in T
  <2> HIDE DEF T
  <2> QED BY <1>7, <1>8, Induction
<1>10. h[Heap] = Came(s, Heap)
  BY <1>1, <1>9
<1>11. Came(s, Heap) = s
  BY <1>1 DEF Came
<1> QED BY <1>5, <1>10, <1>11

LEMMA SeqOf == ASSUME NEW S, NEW n \in Nat, NEW f \in [1 .. n -> S] PROVE f \in Seq(S) /\ Len(f) = n
OBVIOUS

LEMMA ChainSame ==
  ASSUME NEW nx, NEW nx2, NEW c, NEW S, Linked(nx, c, S), nx2[c] = nx[c], \A x \in S : nx2[x] = nx[x]
  PROVE  Linked(nx2, c, S)
<1>1. PICK s : Chain(nx, c, s) /\ S = Members(s)
  BY DEF Linked
<1>2. \A i \in 1 .. Len(s) : nx2[s[i]] = nx[s[i]]
  BY <1>1 DEF Members
<1>3. Chain(nx2, c, s)
  BY <1>1, <1>2 DEF Chain
<1> QED BY <1>1, <1>3 DEF Linked

\* Where the pointers lead.
LEMMA LinkedNext ==
  ASSUME NEW nx, NEW c \in CPU, NEW S, Linked(nx, c, S)
  PROVE  /\ S \subseteq Addr
         /\ \A x \in S \cup {c} : nx[x] \in S \cup {c}
         /\ \A x \in S : nx[x] # x
<1>1. PICK s : Chain(nx, c, s) /\ S = Members(s)
  BY DEF Linked
<1>2. s \in Seq(Addr) /\ Len(s) \in Nat /\ \A i \in 1 .. Len(s) : s[i] \in Addr /\ s[i] \in S
  BY <1>1 DEF Chain, Members
<1>3. \A x \in S : \E i \in 1 .. Len(s) : x = s[i]
  BY <1>1 DEF Members
<1>4. nx[c] \in S \cup {c}
  BY <1>1, <1>2 DEF Chain
<1>5. ASSUME NEW x \in S PROVE nx[x] \in S \cup {c} /\ nx[x] # x
  <2>1. PICK i \in 1 .. Len(s) : x = s[i]
    BY <1>3
  <2>2. nx[x] = IF i = Len(s) THEN c ELSE s[i + 1]
    BY <1>1, <2>1 DEF Chain
  <2>3. CASE i = Len(s)
    BY <1>2, <2>1, <2>2, <2>3, Numbers
  <2>4. CASE i # Len(s)
    <3>1. i + 1 \in 1 .. Len(s) /\ i + 1 # i
      BY <1>2, <2>1, <2>4
    <3>2. s[i + 1] # s[i]
      BY <1>1, <3>1 DEF Chain
    <3> QED BY <1>2, <2>1, <2>2, <2>4, <3>1, <3>2
  <2> QED BY <2>3, <2>4
<1> QED BY <1>2, <1>3, <1>4, <1>5

\* A node is linked in behind prev.
Inserts(nx, nx2, c, S, prev, b) ==
  /\ Linked(nx, c, S) /\ prev \in S \cup {c} /\ b \in Addr /\ b \notin S
  /\ nx2[prev] = b /\ nx2[b] = nx[prev] /\ \A x \in (S \cup {c}) \ {prev} : nx2[x] = nx[x]

LEMMA Insert ==
  ASSUME NEW nx, NEW nx2, NEW c \in CPU, NEW S, NEW prev, NEW b, Inserts(nx, nx2, c, S, prev, b)
  PROVE  Linked(nx2, c, S \cup {b})
<1>1. PICK s : Chain(nx, c, s) /\ S = Members(s)
  BY DEF Inserts, Linked
<1> DEFINE n == Len(s)
<1>2. s \in Seq(Addr) /\ n \in Nat /\ \A i \in 1 .. n : s[i] \in Addr /\ s[i] # b /\ s[i] # c
  BY <1>1, Numbers DEF Chain, Inserts, Members
<1>3. PICK k \in 0 .. n : IF k = 0 THEN prev = c ELSE prev = s[k]
  <2>1. CASE prev = c
    BY <1>2, <2>1
  <2>2. CASE prev # c
    <3>1. PICK i \in 1 .. n : prev = s[i]
      BY <1>1, <2>2 DEF Inserts, Members
    <3>2. i \in 0 .. n /\ i # 0
      BY <1>2, <3>1
    <3> QED BY <3>1, <3>2
  <2> QED BY <2>1, <2>2
<1> DEFINE v == [i \in 1 .. n + 1 |-> IF i <= k THEN s[i] ELSE IF i = k + 1 THEN b ELSE s[i - 1]]
<1> HIDE DEF n
<1>4. v \in [1 .. n + 1 -> Addr]
  BY <1>2, <1>3 DEF Inserts
<1>5. v \in Seq(Addr) /\ Len(v) = n + 1
  <2> DEFINE m == n + 1
  <2>1. m \in Nat /\ v \in [1 .. m -> Addr]
    BY <1>2, <1>4
  <2> HIDE DEF m, v
  <2>2. v \in Seq(Addr) /\ Len(v) = m
    BY <2>1, SeqOf
  <2> QED BY <2>2 DEF m
<1>6. /\ \A i \in 1 .. k : v[i] = s[i]
      /\ v[k + 1] = b
      /\ \A i \in k + 2 .. n + 1 : v[i] = s[i - 1]
  BY <1>2, <1>3
<1> HIDE DEF v
<1>7. \A i, j \in 1 .. n : s[i] = s[j] => i = j
  BY <1>1 DEF Chain, n
<1>8. \A i, j \in 1 .. n + 1 : v[i] = v[j] => i = j
  <2> SUFFICES ASSUME NEW i \in 1 .. n + 1, NEW j \in 1 .. n + 1, v[i] = v[j] PROVE i = j
    OBVIOUS
  <2> DEFINE at(m) == IF m <= k THEN m ELSE m - 1
  <2>1. ASSUME NEW m \in 1 .. n + 1, m # k + 1 PROVE at(m) \in 1 .. n /\ v[m] = s[at(m)]
    BY <1>2, <1>3, <1>6, <2>1
  <2>2. CASE i = k + 1 \/ j = k + 1
    BY <1>2, <1>6, <2>1, <2>2
  <2>3. CASE i # k + 1 /\ j # k + 1
    <3>1. at(i) = at(j)
      BY <1>7, <2>1, <2>3
    <3> QED BY <1>2, <1>3, <2>3, <3>1
  <2> QED BY <2>2, <2>3
<1>9. /\ nx[c] = (IF n = 0 THEN c ELSE s[1])
      /\ \A i \in 1 .. n : nx[s[i]] = IF i = n THEN c ELSE s[i + 1]
  BY <1>1 DEF Chain, n
<1>10. /\ nx2[prev] = b /\ nx2[b] = nx[prev]
       /\ k # 0 => nx2[c] = nx[c]
       /\ \A i \in 1 .. n : i # k => nx2[s[i]] = nx[s[i]]
  <2>1. k # 0 => c # prev
    BY <1>2, <1>3
  <2>2. \A i \in 1 .. n : i # k => s[i] # prev /\ s[i] \in S
    BY <1>1, <1>2, <1>3, <1>7 DEF Members, n
  <2> QED BY <2>1, <2>2 DEF Inserts
<1>11. nx2[c] = v[1]
  BY <1>2, <1>3, <1>6, <1>9, <1>10
<1>12. ASSUME NEW i \in 1 .. n + 1 PROVE nx2[v[i]] = IF i = n + 1 THEN c ELSE v[i + 1]
  <2>1. CASE i < k
    <3>1. v[i] = s[i] /\ v[i + 1] = s[i + 1] /\ i \in 1 .. n /\ i # n /\ i # k
      BY <1>2, <1>3, <1>6, <2>1
    <3> QED BY <1>2, <1>3, <1>9, <1>10, <2>1, <3>1
  <2>2. CASE i = k
    BY <1>2, <1>3, <1>6, <1>10, <2>2
  <2>3. CASE i = k + 1
    <3>1. nx2[v[i]] = nx[prev]
      BY <1>6, <1>10, <2>3
    <3>2. nx[prev] = IF k = n THEN c ELSE s[k + 1]
      BY <1>2, <1>3, <1>9
    <3>3. k # n => v[k + 2] = s[k + 1]
      BY <1>2, <1>3, <1>6
    <3> QED BY <1>2, <1>3, <2>3, <3>1, <3>2, <3>3
  <2>4. CASE i > k + 1
    <3>1. PICK j \in 1 .. n : i = j + 1
      BY <1>2, <1>3, <2>4
    <3>2. v[i] = s[j] /\ j # k /\ (j # n => v[i + 1] = s[j + 1])
      BY <1>2, <1>3, <1>6, <2>4, <3>1
    <3> QED BY <1>2, <1>9, <1>10, <3>1, <3>2
  <2> QED BY <1>2, <1>3, <2>1, <2>2, <2>3, <2>4
<1>13. Chain(nx2, c, v)
  BY <1>2, <1>5, <1>8, <1>11, <1>12 DEF Chain
<1>14. Members(v) = S \cup {b}
  <2>1. \A i \in 1 .. n + 1 : v[i] \in S \cup {b}
    BY <1>1, <1>2, <1>3, <1>6 DEF Members, n
  <2>2. \A i \in 1 .. n : \E j \in 1 .. n + 1 : v[j] = s[i]
    <3> SUFFICES ASSUME NEW i \in 1 .. n PROVE \E j \in 1 .. n + 1 : v[j] = s[i]
      OBVIOUS
    <3>1. CASE i <= k
      BY <1>2, <1>3, <1>6, <3>1
    <3>2. CASE i > k
      <4>1. i + 1 \in k + 2 .. n + 1 /\ i + 1 \in 1 .. n + 1 /\ (i + 1) - 1 = i
        BY <1>2, <1>3, <3>2
      <4>2. v[i + 1] = s[i]
        BY <1>6, <4>1
      <4> QED BY <4>1, <4>2
    <3> QED BY <1>2, <1>3, <3>1, <3>2
  <2>3. k + 1 \in 1 .. n + 1
    BY <1>2, <1>3
  <2>4. Members(v) = {v[i] : i \in 1 .. n + 1} /\ S = {s[i] : i \in 1 .. n}
    BY <1>1, <1>5 DEF Members, n
  <2>5. v[k + 1] = b
    BY <1>6
  <2> QED BY <2>1, <2>2, <2>3, <2>4, <2>5
<1> QED BY <1>13, <1>14 DEF Linked

\* The node behind prev is taken out.
Removes(nx, nx2, c, S, prev, p) ==
  /\ Linked(nx, c, S) /\ prev \in S \cup {c} /\ p \in S /\ p = nx[prev]
  /\ nx2[prev] = nx[p] /\ \A x \in (S \cup {c}) \ {prev, p} : nx2[x] = nx[x]

LEMMA Remove ==
  ASSUME NEW nx, NEW nx2, NEW c \in CPU, NEW S, NEW prev, NEW p, Removes(nx, nx2, c, S, prev, p)
  PROVE  Linked(nx2, c, S \ {p})
<1>1. PICK s : Chain(nx, c, s) /\ S = Members(s)
  BY DEF Removes, Linked
<1> DEFINE n == Len(s)
<1>2. s \in Seq(Addr) /\ n \in Nat /\ \A i \in 1 .. n : s[i] \in Addr /\ s[i] \in S /\ s[i] # c
  BY <1>1, Numbers DEF Chain, Members
<1>3. PICK k \in 0 .. n : IF k = 0 THEN prev = c ELSE prev = s[k]
  <2>1. CASE prev = c
    BY <1>2, <2>1
  <2>2. CASE prev # c
    <3>1. PICK i \in 1 .. n : prev = s[i]
      BY <1>1, <2>2 DEF Removes, Members
    <3>2. i \in 0 .. n /\ i # 0
      BY <1>2, <3>1
    <3> QED BY <3>1, <3>2
  <2> QED BY <2>1, <2>2
<1> DEFINE v == [i \in 1 .. n - 1 |-> IF i <= k THEN s[i] ELSE s[i + 1]]
<1> HIDE DEF n
<1>4. \A i, j \in 1 .. n : s[i] = s[j] => i = j
  BY <1>1 DEF Chain, n
<1>5. /\ nx[c] = (IF n = 0 THEN c ELSE s[1])
      /\ \A i \in 1 .. n : nx[s[i]] = IF i = n THEN c ELSE s[i + 1]
  BY <1>1 DEF Chain, n
<1>6. k # n /\ s[k + 1] = p
  <2>1. nx[prev] = IF k = n THEN c ELSE s[k + 1]
    BY <1>2, <1>3, <1>5
  <2>2. p # c
    BY <1>1, <1>2 DEF Removes, Members, n
  <2> QED BY <2>1, <2>2 DEF Removes
<1>7. PICK m \in Nat : n = m + 1 /\ k <= m
  BY <1>2, <1>3, <1>6
<1>8. v \in [1 .. m -> Addr]
  BY <1>2, <1>3, <1>7
<1>9. v \in Seq(Addr) /\ Len(v) = m
  <2> HIDE DEF v
  <2> QED BY <1>8, SeqOf
<1>10. /\ \A i \in 1 .. k : v[i] = s[i]
       /\ \A i \in k + 1 .. m : v[i] = s[i + 1]
  BY <1>2, <1>3, <1>7
<1> HIDE DEF v
<1>11. \A i, j \in 1 .. m : v[i] = v[j] => i = j
  <2> SUFFICES ASSUME NEW i \in 1 .. m, NEW j \in 1 .. m, v[i] = v[j] PROVE i = j
    OBVIOUS
  <2> DEFINE at(x) == IF x <= k THEN x ELSE x + 1
  <2>1. ASSUME NEW x \in 1 .. m PROVE at(x) \in 1 .. n /\ v[x] = s[at(x)]
    BY <1>2, <1>3, <1>7, <1>10, <2>1
  <2>2. at(i) = at(j)
    BY <1>4, <2>1
  <2> QED BY <1>3, <2>2
<1>12. /\ nx2[prev] = nx[p]
       /\ k # 0 => nx2[c] = nx[c]
       /\ \A i \in 1 .. n : i # k /\ i # k + 1 => nx2[s[i]] = nx[s[i]]
  <2>1. k # 0 => c # prev /\ c # p
    BY <1>2, <1>3, <1>6, <1>7
  <2>2. k + 1 \in 1 .. n
    BY <1>3, <1>7
  <2>3. \A i \in 1 .. n : i # k /\ i # k + 1 => s[i] # prev /\ s[i] # p
    BY <1>2, <1>3, <1>4, <1>6, <2>2
  <2> QED BY <1>2, <2>1, <2>3 DEF Removes
<1>13. nx[p] = IF k = m THEN c ELSE s[k + 2]
  <2>1. k + 1 \in 1 .. n
    BY <1>3, <1>7
  <2>2. nx[s[k + 1]] = IF k + 1 = n THEN c ELSE s[(k + 1) + 1]
    BY <1>5, <2>1
  <2> QED BY <1>3, <1>6, <1>7, <2>2
<1>14. nx2[c] = IF m = 0 THEN c ELSE v[1]
  <2>1. CASE k = 0
    <3>1. m # 0 => v[1] = s[2]
      BY <1>7, <1>10, <2>1
    <3> QED BY <1>3, <1>12, <1>13, <2>1, <3>1
  <2>2. CASE k # 0
    BY <1>3, <1>5, <1>7, <1>10, <1>12, <2>2
  <2> QED BY <2>1, <2>2
<1>15. ASSUME NEW i \in 1 .. m PROVE nx2[v[i]] = IF i = m THEN c ELSE v[i + 1]
  <2>1. CASE i < k
    <3>1. v[i] = s[i] /\ v[i + 1] = s[i + 1] /\ i \in 1 .. n /\ i # n /\ i # k /\ i # k + 1 /\ i # m
      BY <1>3, <1>7, <1>10, <2>1
    <3> QED BY <1>5, <1>12, <3>1
  <2>2. CASE i = k
    <3>1. v[i] = prev /\ (k # m => v[k + 1] = s[k + 2])
      BY <1>3, <1>7, <1>10, <2>2
    <3> QED BY <1>12, <1>13, <2>2, <3>1
  <2>3. CASE i > k
    <3>1. v[i] = s[i + 1] /\ i + 1 \in 1 .. n /\ i + 1 # k /\ i + 1 # k + 1 /\ (i + 1 = n <=> i = m)
      BY <1>3, <1>7, <1>10, <2>3
    <3>2. nx2[v[i]] = IF i + 1 = n THEN c ELSE s[(i + 1) + 1]
      BY <1>5, <1>12, <3>1
    <3>3. i # m => v[i + 1] = s[(i + 1) + 1]
      BY <1>3, <1>7, <1>10, <2>3
    <3> QED BY <3>1, <3>2, <3>3
  <2> QED BY <1>3, <2>1, <2>2, <2>3
<1>16. Chain(nx2, c, v)
  BY <1>9, <1>11, <1>14, <1>15 DEF Chain
<1>17. Members(v) = S \ {p}
  <2>1. Members(v) = {v[i] : i \in 1 .. m} /\ S = {s[i] : i \in 1 .. n}
    BY <1>1, <1>9 DEF Members, n
  <2>2. k + 1 \in 1 .. n
    BY <1>3, <1>7
  <2>3. ASSUME NEW i \in 1 .. m PROVE v[i] \in S \ {p}
    <3>1. CASE i <= k
      <4>1. v[i] = s[i] /\ i \in 1 .. n /\ i # k + 1
        BY <1>3, <1>7, <1>10, <3>1
      <4> QED BY <1>2, <1>4, <1>6, <2>2, <4>1
    <3>2. CASE i > k
      <4>1. v[i] = s[i + 1] /\ i + 1 \in 1 .. n /\ i + 1 # k + 1
        BY <1>3, <1>7, <1>10, <3>2
      <4> QED BY <1>2, <1>4, <1>6, <2>2, <4>1
    <3> QED BY <1>3, <3>1, <3>2
  <2>4. ASSUME NEW i \in 1 .. n, s[i] # p PROVE \E j \in 1 .. m : v[j] = s[i]
    <3>1. CASE i <= k
      <4>1. i \in 1 .. m /\ v[i] = s[i]
        BY <1>3, <1>7, <1>10, <3>1
      <4> QED BY <4>1
    <3>2. CASE i > k
      <4>1. i # k + 1
        BY <1>6, <2>4
      <4>2. PICK j \in Nat : i = j + 1
        BY <1>3, <3>2
      <4>3. j \in k + 1 .. m /\ j \in 1 .. m
        BY <1>3, <1>7, <3>2, <4>1, <4>2
      <4> QED BY <1>10, <4>2, <4>3
    <3> QED BY <1>2, <1>3, <3>1, <3>2
  <2> QED BY <2>1, <2>3, <2>4
<1> QED BY <1>16, <1>17 DEF Linked

\* The model's walk of a ring, and the pointers at each place of it.
LEMMA RingHas ==
  ASSUME NEW nx, NEW c \in CPU, NEW S, Linked(nx, c, S), NEW s, s = RingOf(nx, c)
  PROVE  /\ Chain(nx, c, s) /\ S = Members(s) /\ Len(s) \in Nat /\ DOMAIN s = 1 .. Len(s)
         /\ \A i \in 1 .. Len(s) + 1 :
              /\ Before(c, s, i) \in S \cup {c}
              /\ nx[Before(c, s, i)] = IF i \in DOMAIN s THEN s[i] ELSE c
<1>1. PICK r : Chain(nx, c, r) /\ S = Members(r)
  BY DEF Linked
<1>2. r = s
  BY <1>1, RingIs
<1>3. Chain(nx, c, s) /\ S = Members(s) /\ s \in Seq(Addr) /\ Len(s) \in Nat /\ DOMAIN s = 1 .. Len(s)
  BY <1>1, <1>2 DEF Chain
<1>4. ASSUME NEW i \in 1 .. Len(s) + 1
      PROVE  /\ Before(c, s, i) \in S \cup {c}
             /\ nx[Before(c, s, i)] = IF i \in DOMAIN s THEN s[i] ELSE c
  <2>1. CASE i = 1
    <3>1. Before(c, s, i) = c
      BY <2>1 DEF Before
    <3>2. nx[c] = IF Len(s) = 0 THEN c ELSE s[1]
      BY <1>3 DEF Chain
    <3>3. i \in DOMAIN s <=> Len(s) # 0
      BY <1>3, <2>1
    <3> QED BY <2>1, <3>1, <3>2, <3>3
  <2>2. CASE i # 1
    <3>1. PICK j \in 1 .. Len(s) : i = j + 1
      BY <1>3, <2>2
    <3>2. Before(c, s, i) = s[j] /\ s[j] \in S
      BY <1>3, <3>1 DEF Before, Members
    <3>3. nx[s[j]] = IF j = Len(s) THEN c ELSE s[j + 1]
      BY <1>3 DEF Chain
    <3>4. i \in DOMAIN s <=> j # Len(s)
      <4> DEFINE n == Len(s)
      <4>1. n \in Nat /\ j \in 1 .. n /\ DOMAIN s = 1 .. n
        BY <1>3, <3>1
      <4> HIDE DEF n
      <4>2. i \in 1 .. n <=> j # n
        BY <3>1, <4>1
      <4> QED BY <4>1, <4>2 DEF n
    <3>5. nx[s[j]] = IF i \in DOMAIN s THEN s[i] ELSE c
      BY <3>1, <3>3, <3>4
    <3> QED BY <3>2, <3>5
  <2> QED BY <2>1, <2>2
<1> QED BY <1>3, <1>4

\* The first place of a set, or the one given.
LEMMA FirstIs ==
  ASSUME NEW S, S \subseteq Nat, NEW n
  PROVE  First(S, n) \in S \/ (S = {} /\ First(S, n) = n)
<1> DEFINE P(i) == i \in S /\ \A j \in S : i <= j
           T == {n2 \in Nat : (\E k \in S : k <= n2) => \E i \in S : P(i)}
<1>1. 0 \in T
  <2>1. \A k \in S : k <= 0 => P(k)
    OBVIOUS
  <2> HIDE DEF P
  <2> QED BY <2>1
<1>2. ASSUME NEW m \in Nat, m \in T PROVE m + 1 \in T
  <2> SUFFICES ASSUME NEW k \in S, k <= m + 1 PROVE \E i \in S : P(i)
    OBVIOUS
  <2>1. CASE \E j \in S : j <= m
    <3> HIDE DEF P
    <3> QED BY <1>2, <2>1
  <2>2. CASE \A j \in S : j > m
    <3>1. P(k)
      BY <2>2
    <3> HIDE DEF P
    <3> QED BY <3>1
  <2> QED BY <2>1, <2>2
<1>3. \A m \in Nat : m \in T
  <2> HIDE DEF T
  <2> QED BY <1>1, <1>2, Induction
<1>4. S # {} => \E i \in S : P(i)
  <2> SUFFICES ASSUME NEW k \in S PROVE \E i \in S : P(i)
    OBVIOUS
  <2>1. k \in T /\ k <= k
    BY <1>3
  <2> HIDE DEF P
  <2> QED BY <2>1 DEF T
<1>5. CASE S = {}
  BY <1>5 DEF First
<1>6. CASE S # {}
  <2>1. \E i \in S : \A j \in S : i <= j
    BY <1>4, <1>6
  <2>2. First(S, n) = CHOOSE i \in S : \A j \in S : i <= j
    BY <1>6 DEF First
  <2> DEFINE Q(i) == \A j \in S : i <= j
  <2>3. \E i \in S : Q(i)
    BY <2>1
  <2> HIDE DEF Q
  <2>4. (CHOOSE i \in S : Q(i)) \in S
    BY <2>3
  <2>5. First(S, n) = CHOOSE i \in S : Q(i)
    BY <2>2 DEF Q
  <2> QED BY <2>4, <2>5
<1> QED BY <1>5, <1>6

-----------------------------------------------------------------------------
(* Blocks that tile the heap above lo                                          *)

Tiles(B, z, lo) ==
  /\ lo \in Nat /\ lo <= Heap /\ B \subseteq Addr
  /\ \A a \in B : z[a] \in Nat /\ lo <= a /\ a + Header + z[a] <= Heap
  /\ \A a, b \in B : a < b => a + Header + z[a] <= b
  /\ \A u \in lo .. Heap - 1 : \E a \in B : a <= u /\ u < a + Header + z[a]

\* A block is cut in two, with room for another header.
Splits(B, z, z2, lo, p, b, n) ==
  /\ Tiles(B, z, lo) /\ p \in B /\ n \in Nat /\ z[p] >= n + Header
  /\ b = p + z[p] - n /\ z2[b] = n /\ z2[p] = z[p] - n - Header
  /\ \A a \in B \ {p} : z2[a] = z[a]

LEMMA SplitTiles ==
  ASSUME NEW B, NEW z, NEW z2, NEW lo, NEW p, NEW b, NEW n, Splits(B, z, z2, lo, p, b, n)
  PROVE  b \notin B /\ Tiles(B \cup {b}, z2, lo)
<1>1. /\ lo \in Nat /\ p \in Nat /\ n \in Nat /\ z[p] \in Nat /\ Heap \in Nat /\ Header \in Nat /\ Header > 0
      /\ b \in Nat /\ p + Header <= b /\ b + Header + n = p + Header + z[p]
      /\ b + Header + n <= Heap /\ lo <= p /\ b \in Addr /\ p < b
  BY Numbers DEF Splits, Tiles, Addr
<1>2. \A a \in B : a \in Nat /\ z[a] \in Nat /\ lo <= a /\ a + Header + z[a] <= Heap
  BY DEF Splits, Tiles, Addr
<1>3. \A a \in B : a = p \/ a + Header + z[a] <= p \/ p + Header + z[p] <= a
  <2>1. \A a \in B : a = p \/ a < p \/ p < a
    BY <1>1, <1>2
  <2> QED BY <2>1 DEF Splits, Tiles
<1>4. /\ z2[b] = n /\ p + Header + z2[p] = b /\ z2[p] \in Nat
      /\ \A a \in B \ {p} : z2[a] = z[a]
  BY <1>1 DEF Splits
<1>5. b \notin B
  BY <1>1, <1>2, <1>3
<1>6. \A a \in B \cup {b} : z2[a] \in Nat /\ lo <= a /\ a + Header + z2[a] <= Heap
  BY <1>1, <1>2, <1>4
<1>7. ASSUME NEW x \in B \cup {b}, NEW y \in B \cup {b}, x < y PROVE x + Header + z2[x] <= y
  <2>1. CASE x \in B \ {p} /\ y \in B
    BY <1>4, <1>7, <2>1 DEF Splits, Tiles
  <2>2. CASE x = p /\ y \in B
    BY <1>1, <1>2, <1>3, <1>4, <1>7, <2>2
  <2>3. CASE x = p /\ y = b
    BY <1>1, <1>4, <2>3
  <2>4. CASE x \in B \ {p} /\ y = b
    BY <1>1, <1>2, <1>3, <1>4, <1>7, <2>4
  <2>5. CASE x = b /\ y \in B
    BY <1>1, <1>2, <1>3, <1>4, <1>7, <2>5
  <2> QED BY <1>1, <1>7, <2>1, <2>2, <2>3, <2>4, <2>5
<1>8. ASSUME NEW u \in lo .. Heap - 1 PROVE \E a \in B \cup {b} : a <= u /\ u < a + Header + z2[a]
  <2>1. PICK a \in B : a <= u /\ u < a + Header + z[a]
    BY DEF Splits, Tiles
  <2>2. CASE a # p
    BY <1>4, <2>1, <2>2
  <2>3. CASE a = p /\ u < b
    BY <1>4, <2>1, <2>3
  <2>4. CASE a = p /\ ~(u < b)
    BY <1>1, <1>4, <2>1, <2>4
  <2> QED BY <2>2, <2>3, <2>4
<1> QED BY <1>1, <1>5, <1>6, <1>7, <1>8 DEF Tiles, Splits

\* Two neighbours become one.
Joins(B, z, z2, lo, a, b) ==
  /\ Tiles(B, z, lo) /\ a \in B /\ b \in B /\ b = a + Header + z[a]
  /\ z2[a] = z[a] + Header + z[b] /\ \A x \in B \ {a} : z2[x] = z[x]

LEMMA JoinTiles ==
  ASSUME NEW B, NEW z, NEW z2, NEW lo, NEW a, NEW b, Joins(B, z, z2, lo, a, b)
  PROVE  Tiles(B \ {b}, z2, lo)
<1>1. /\ lo \in Nat /\ a \in Nat /\ b \in Nat /\ z[a] \in Nat /\ z[b] \in Nat /\ Heap \in Nat /\ Header \in Nat
      /\ Header > 0 /\ a < b /\ b + Header + z[b] <= Heap /\ lo <= a
  BY Numbers DEF Joins, Tiles, Addr
<1>2. \A x \in B : x \in Nat /\ z[x] \in Nat /\ lo <= x /\ x + Header + z[x] <= Heap
  BY DEF Joins, Tiles, Addr
<1>3. \A x, y \in B : x < y => x + Header + z[x] <= y
  BY DEF Joins, Tiles
<1>4. a + Header + z2[a] = b + Header + z[b] /\ z2[a] \in Nat /\ \A x \in B \ {a} : z2[x] = z[x]
  BY <1>1 DEF Joins
<1>5. \A x \in B \ {b} : z2[x] \in Nat /\ lo <= x /\ x + Header + z2[x] <= Heap
  BY <1>1, <1>2, <1>4
<1>6. ASSUME NEW x \in B \ {b}, NEW y \in B \ {b}, x < y PROVE x + Header + z2[x] <= y
  <2>1. CASE x # a
    BY <1>3, <1>4, <1>6, <2>1
  <2>2. CASE x = a
    <3>1. a + Header + z[a] <= y
      BY <1>3, <1>6, <2>2 DEF Joins
    <3>2. b < y
      BY <1>1, <1>2, <3>1 DEF Joins
    <3>3. b + Header + z[b] <= y
      BY <1>3, <3>2 DEF Joins
    <3> QED BY <1>4, <2>2, <3>3
  <2> QED BY <2>1, <2>2
<1>7. ASSUME NEW u \in lo .. Heap - 1 PROVE \E x \in B \ {b} : x <= u /\ u < x + Header + z2[x]
  <2>1. PICK x \in B : x <= u /\ u < x + Header + z[x]
    BY DEF Joins, Tiles
  <2>2. CASE x # a /\ x # b
    BY <1>4, <2>1, <2>2
  <2>3. CASE x = a
    <3>1. b = a + Header + z[a] /\ a \in B \ {b}
      BY <1>1 DEF Joins
    <3>2. a <= u /\ u < a + Header + z2[a]
      BY <1>1, <1>4, <2>1, <2>3, <3>1
    <3> QED BY <3>1, <3>2
  <2>4. CASE x = b
    <3>1. a \in B \ {b} /\ a <= u /\ u < a + Header + z2[a]
      BY <1>1, <1>4, <2>1, <2>4 DEF Joins
    <3> QED BY <3>1
  <2> QED BY <2>2, <2>3, <2>4
<1> QED BY <1>1, <1>5, <1>6, <1>7 DEF Tiles, Joins

\* A page of n units is cut off what is left, below the blocks.
Pages(B, z, z2, lo, page, n) ==
  /\ Tiles(B, z, lo) /\ n \in Nat /\ page \in Nat /\ page + Header + n = lo
  /\ z2[page] = n /\ \A x \in B : z2[x] = z[x]

LEMMA PageTiles ==
  ASSUME NEW B, NEW z, NEW z2, NEW lo, NEW page, NEW n, Pages(B, z, z2, lo, page, n)
  PROVE  page \in Addr /\ page \notin B /\ Tiles(B \cup {page}, z2, page)
<1>1. /\ lo \in Nat /\ page \in Nat /\ n \in Nat /\ Heap \in Nat /\ Header \in Nat /\ Header > 0
      /\ page + Header + n = lo /\ lo <= Heap /\ page < lo /\ z2[page] = n
  BY Numbers DEF Pages, Tiles
<1>2. page \in Addr
  BY <1>1 DEF Addr
<1>3. \A x \in B : x \in Nat /\ z[x] \in Nat /\ lo <= x /\ x + Header + z[x] <= Heap /\ z2[x] = z[x]
  BY DEF Pages, Tiles, Addr
<1>4. page \notin B
  BY <1>1, <1>3
<1>5. \A x \in B \cup {page} : z2[x] \in Nat /\ page <= x /\ x + Header + z2[x] <= Heap
  BY <1>1, <1>3
<1>6. ASSUME NEW x \in B \cup {page}, NEW y \in B \cup {page}, x < y PROVE x + Header + z2[x] <= y
  <2>1. CASE x \in B /\ y \in B
    BY <1>3, <1>6, <2>1 DEF Pages, Tiles
  <2>2. CASE x = page \/ y = page
    BY <1>1, <1>3, <1>6, <2>2
  <2> QED BY <2>1, <2>2
<1>7. ASSUME NEW u \in page .. Heap - 1 PROVE \E x \in B \cup {page} : x <= u /\ u < x + Header + z2[x]
  <2>1. CASE u < lo
    BY <1>1, <2>1
  <2>2. CASE ~(u < lo)
    <3>1. u \in lo .. Heap - 1
      BY <1>1, <2>2
    <3>2. PICK x \in B : x <= u /\ u < x + Header + z[x]
      BY <3>1 DEF Pages, Tiles
    <3> QED BY <1>3, <3>2
  <2> QED BY <2>1, <2>2
<1>8. page <= Heap /\ B \cup {page} \subseteq Addr
  BY <1>1, <1>2 DEF Pages, Tiles
<1> QED BY <1>1, <1>2, <1>4, <1>5, <1>6, <1>7, <1>8 DEF Tiles

-----------------------------------------------------------------------------
(* What the allocator keeps                                                    *)

Nodes(N) == {a \in Addr : \E c \in CPU : a \in N[c]}
Blocks(us, N) == {a \in Addr : us[a] # 0} \cup Nodes(N)

\* N has the nodes of each ring.
Rings(nx, N) ==
  /\ nx \in [Addr \cup CPU -> Addr \cup CPU \cup {NULL}]
  /\ N \in [CPU -> SUBSET Addr]
  /\ \A c \in CPU : Linked(nx, c, N[c])
  /\ \A c, d \in CPU : c # d => N[c] \cap N[d] = {}

Fits(sz, us, N) ==
  /\ sz \in [Addr -> 0 .. Heap] /\ us \in [Addr -> Size \cup {0}]
  /\ \A a \in Nodes(N) : us[a] = 0
  /\ \A a \in Addr : us[a] # 0 => us[a] <= sz[a]

Shape(nx, sz, lo, us, N) == Rings(nx, N) /\ Fits(sz, us, N) /\ Tiles(Blocks(us, N), sz, lo)

\* The rings of other CPUs are left alone.
Elsewhere(nx, nx2, N, c) == \A d \in CPU \ {c} : nx2[d] = nx[d] /\ \A x \in N[d] : nx2[x] = nx[x]

WithNode(N, c, b) == [d \in CPU |-> IF d = c THEN N[c] \cup {b} ELSE N[d]]
Without(N, c, p) == [d \in CPU |-> IF d = c THEN N[c] \ {p} ELSE N[d]]

GrowsRing(nx, nx2, N, c, prev, b) ==
  /\ Rings(nx, N) /\ nx2 \in [Addr \cup CPU -> Addr \cup CPU \cup {NULL}]
  /\ prev \in N[c] \cup {c} /\ b \in Addr /\ b \notin Nodes(N)
  /\ nx2[prev] = b /\ nx2[b] = nx[prev]
  /\ \A x \in (Nodes(N) \cup CPU) \ {prev} : nx2[x] = nx[x]

LEMMA GrowRing ==
  ASSUME NEW nx, NEW nx2, NEW N, NEW c \in CPU, NEW prev, NEW b, GrowsRing(nx, nx2, N, c, prev, b)
  PROVE  /\ Rings(nx2, WithNode(N, c, b)) /\ Elsewhere(nx, nx2, N, c)
         /\ Nodes(WithNode(N, c, b)) = Nodes(N) \cup {b}
<1> DEFINE M == WithNode(N, c, b)
<1>1. N \in [CPU -> SUBSET Addr] /\ b \in Addr /\ \A d \in CPU : Linked(nx, d, N[d]) /\ b \notin N[d]
  BY DEF GrowsRing, Rings, Nodes
<1>2. M \in [CPU -> SUBSET Addr] /\ M[c] = N[c] \cup {b} /\ \A d \in CPU \ {c} : M[d] = N[d]
  BY <1>1 DEF WithNode
<1>3. \A d \in CPU \ {c} : N[c] \cap N[d] = {}
  BY DEF GrowsRing, Rings
<1>4. \A d \in CPU : N[d] \subseteq Nodes(N) /\ d \notin Addr
  BY <1>1, Numbers DEF Nodes
<1>5. \A d \in CPU \ {c} : prev # d /\ prev \notin N[d]
  BY <1>1, <1>3, <1>4 DEF GrowsRing
<1>6. Elsewhere(nx, nx2, N, c)
  BY <1>4, <1>5 DEF Elsewhere, GrowsRing
<1>7. Linked(nx2, c, M[c])
  <2>1. Inserts(nx, nx2, c, N[c], prev, b)
    BY <1>1, <1>4 DEF GrowsRing, Inserts
  <2> QED BY <1>2, <2>1, Insert
<1>8. ASSUME NEW d \in CPU, d # c PROVE Linked(nx2, d, M[d])
  BY <1>1, <1>2, <1>6, <1>8, ChainSame DEF Elsewhere
<1>9. \A d, e \in CPU : d # e => M[d] \cap M[e] = {}
  <2> HIDE DEF M
  <2> QED BY <1>1, <1>2 DEF GrowsRing, Rings
<1>10. Nodes(M) = Nodes(N) \cup {b}
  <2> HIDE DEF M
  <2> QED BY <1>1, <1>2 DEF Nodes
<1> QED BY <1>2, <1>6, <1>7, <1>8, <1>9, <1>10 DEF Rings, GrowsRing

ShrinksRing(nx, nx2, N, c, prev, p) ==
  /\ Rings(nx, N) /\ nx2 \in [Addr \cup CPU -> Addr \cup CPU \cup {NULL}]
  /\ prev \in N[c] \cup {c} /\ p \in N[c] /\ p = nx[prev] /\ nx2[prev] = nx[p]
  /\ \A x \in (Nodes(N) \cup CPU) \ {prev, p} : nx2[x] = nx[x]

LEMMA ShrinkRing ==
  ASSUME NEW nx, NEW nx2, NEW N, NEW c \in CPU, NEW prev, NEW p, ShrinksRing(nx, nx2, N, c, prev, p)
  PROVE  /\ Rings(nx2, Without(N, c, p)) /\ Elsewhere(nx, nx2, N, c)
         /\ Nodes(Without(N, c, p)) = Nodes(N) \ {p}
<1> DEFINE M == Without(N, c, p)
<1>1. N \in [CPU -> SUBSET Addr] /\ p \in Addr /\ \A d \in CPU : Linked(nx, d, N[d])
  BY DEF ShrinksRing, Rings
<1>2. M \in [CPU -> SUBSET Addr] /\ M[c] = N[c] \ {p} /\ \A d \in CPU \ {c} : M[d] = N[d]
  BY <1>1 DEF Without
<1>3. \A d \in CPU \ {c} : N[c] \cap N[d] = {}
  BY DEF ShrinksRing, Rings
<1>4. \A d \in CPU : N[d] \subseteq Nodes(N) /\ d \notin Addr
  BY <1>1, Numbers DEF Nodes
<1>5. \A d \in CPU \ {c} : prev # d /\ p # d /\ prev \notin N[d] /\ p \notin N[d]
  BY <1>1, <1>3, <1>4 DEF ShrinksRing
<1>6. Elsewhere(nx, nx2, N, c)
  BY <1>4, <1>5 DEF Elsewhere, ShrinksRing
<1>7. Linked(nx2, c, M[c])
  <2>1. Removes(nx, nx2, c, N[c], prev, p)
    BY <1>1, <1>4 DEF ShrinksRing, Removes
  <2> QED BY <1>2, <2>1, Remove
<1>8. ASSUME NEW d \in CPU, d # c PROVE Linked(nx2, d, M[d])
  BY <1>1, <1>2, <1>6, <1>8, ChainSame DEF Elsewhere
<1>9. \A d, e \in CPU : d # e => M[d] \cap M[e] = {}
  <2> HIDE DEF M
  <2> QED BY <1>1, <1>2 DEF ShrinksRing, Rings
<1>10. Nodes(M) = Nodes(N) \ {p}
  <2>1. \A d \in CPU \ {c} : p \notin N[d]
    BY <1>5
  <2> HIDE DEF M
  <2> QED BY <1>1, <1>2, <2>1 DEF Nodes
<1> QED BY <1>2, <1>6, <1>7, <1>8, <1>9, <1>10 DEF Rings, ShrinksRing

LEMMA KeepRing ==
  ASSUME NEW nx, NEW nx2, NEW N, NEW c, Rings(nx, N), nx2 \in [Addr \cup CPU -> Addr \cup CPU \cup {NULL}],
         \A x \in Nodes(N) \cup CPU : nx2[x] = nx[x]
  PROVE  Rings(nx2, N) /\ Elsewhere(nx, nx2, N, c)
<1>1. N \in [CPU -> SUBSET Addr] /\ \A d \in CPU : Linked(nx, d, N[d])
  BY DEF Rings
<1>2. \A d \in CPU : N[d] \subseteq Nodes(N)
  BY <1>1 DEF Nodes
<1>3. ASSUME NEW d \in CPU PROVE Linked(nx2, d, N[d])
  BY <1>1, <1>2, ChainSame
<1> QED BY <1>2, <1>3 DEF Rings, Elsewhere

LEMMA SameTiles ==
  ASSUME NEW B, NEW z, NEW z2, NEW lo, Tiles(B, z, lo), \A a \in B : z2[a] = z[a]
  PROVE  Tiles(B, z2, lo)
BY DEF Tiles

\* Take, of one state of the headers and another.
Takes(nx, sz, us, nx2, sz2, us2, prev, p, n) ==
  LET split == sz[p] >= n + Header
      b == IF split THEN p + sz[p] - n ELSE p
      got == IF split THEN n ELSE sz[p]
      over == b + 1 .. b + Header + n - 1
  IN  /\ sz2 = [a \in Addr |-> CASE a = b -> got
                                 [] a = p /\ split -> sz[p] - n - Header
                                 [] a \in over -> 0
                                 [] OTHER -> sz[a]]
      /\ nx2 = [x \in Addr \cup CPU |->
                  IF x \in over THEN NULL
                  ELSE IF x = prev /\ ~split THEN nx[p] ELSE nx[x]]
      /\ us2 = [us EXCEPT ![b] = n]

TakesFrom(nx, sz, us, nx2, sz2, us2, lo, N, c, prev, p, n) ==
  /\ Shape(nx, sz, lo, us, N)
  /\ p \in N[c] /\ prev \in N[c] \cup {c} /\ p = nx[prev] /\ n \in Size /\ sz[p] >= n
  /\ Takes(nx, sz, us, nx2, sz2, us2, prev, p, n)

\* A step on the ring of c alone, that takes nothing from who has it.
OneRing(nx, nx2, us, us2, N, M, c) ==
  /\ Elsewhere(nx, nx2, N, c) /\ \A d \in CPU \ {c} : M[d] = N[d]
  /\ \A a \in Addr : us[a] # 0 => us2[a] # 0

LEMMA TakeStep ==
  ASSUME NEW nx, NEW sz, NEW us, NEW nx2, NEW sz2, NEW us2, NEW lo, NEW N, NEW c \in CPU, NEW prev, NEW p,
         NEW n, TakesFrom(nx, sz, us, nx2, sz2, us2, lo, N, c, prev, p, n)
  PROVE  \E M : Shape(nx2, sz2, lo, us2, M) /\ OneRing(nx, nx2, us, us2, N, M, c)
<1> DEFINE B == Blocks(us, N)
           split == sz[p] >= n + Header
           b == IF split THEN p + sz[p] - n ELSE p
           got == IF split THEN n ELSE sz[p]
           over == b + 1 .. b + Header + n - 1
           e == p + Header + sz[p]
<1>1. /\ N \in [CPU -> SUBSET Addr] /\ nx \in [Addr \cup CPU -> Addr \cup CPU \cup {NULL}]
      /\ sz \in [Addr -> 0 .. Heap] /\ us \in [Addr -> Size \cup {0}] /\ Tiles(B, sz, lo) /\ Rings(nx, N)
  BY DEF TakesFrom, Shape, Rings, Fits
<1>2. /\ p \in Addr /\ p \in Nodes(N) /\ p \in B /\ us[p] = 0 /\ prev \in Addr \cup CPU
      /\ \A d \in CPU : N[d] \subseteq Nodes(N)
  BY <1>1 DEF TakesFrom, Shape, Fits, Nodes, Blocks
<1>3. /\ p \in Nat /\ sz[p] \in Nat /\ sz[p] <= Heap /\ e <= Heap /\ lo \in Nat /\ lo <= p /\ n \in Nat /\ n > 0
      /\ Heap \in Nat /\ Header \in Nat /\ Header > 0 /\ n <= sz[p] /\ n <= Heap /\ n # 0
  <2>1. sz[p] \in 0 .. Heap /\ p \in 0 .. Heap - 1
    BY <1>1, <1>2 DEF Addr
  <2>2. n \in Nat /\ n > 0 /\ Heap \in Nat /\ Header \in Nat /\ Header > 0 /\ sz[p] >= n
    BY Numbers DEF TakesFrom
  <2>3. lo \in Nat /\ lo <= p /\ p + Header + sz[p] <= Heap
    BY <1>1, <1>2 DEF Tiles
  <2> QED BY <2>1, <2>2, <2>3
<1>4. \A a \in B : a \in Nat /\ (a = p \/ a < p \/ e <= a)
  <2>1. \A a \in B : a \in Nat
    BY <1>1 DEF Tiles, Addr
  <2> QED BY <1>1, <1>2, <1>3, <2>1 DEF Tiles
<1>5. b \in Nat /\ p <= b /\ b + Header + n <= e /\ b \in Addr /\ (split => b # p) /\ got \in 0 .. Heap /\ n <= got
  BY <1>3 DEF Addr
<1>6. \A x \in over : x \in Nat /\ p < x /\ b < x /\ x < e
  BY <1>3, <1>5
<1>7. \A x \in B \cup CPU : x \notin over
  <2> HIDE DEF over, e, B
  <2>1. \A x \in B : x \notin over
    BY <1>3, <1>4, <1>6 DEF e
  <2>2. \A x \in CPU : x \notin over
    BY <1>6, Numbers
  <2> QED BY <2>1, <2>2
<1>8. /\ sz2 = [a \in Addr |-> CASE a = b -> got
                                 [] a = p /\ split -> sz[p] - n - Header
                                 [] a \in over -> 0
                                 [] OTHER -> sz[a]]
      /\ nx2 = [x \in Addr \cup CPU |->
                  IF x \in over THEN NULL
                  ELSE IF x = prev /\ ~split THEN nx[p] ELSE nx[x]]
      /\ us2 = [us EXCEPT ![b] = n]
  BY DEF TakesFrom, Takes
<1>9. split => sz[p] - n - Header \in 0 .. Heap
  BY <1>3
<1> HIDE DEF over, split, b, got, e, B
<1>10. nx2 \in [Addr \cup CPU -> Addr \cup CPU \cup {NULL}] /\ nx[p] \in Addr \cup CPU \cup {NULL}
  BY <1>1, <1>2, <1>8
<1>11. sz2 \in [Addr -> 0 .. Heap]
  BY <1>1, <1>3, <1>5, <1>8, <1>9
<1>12. us2 \in [Addr -> Size \cup {0}] /\ us2[b] = n /\ \A a \in Addr \ {b} : us2[a] = us[a]
  BY <1>1, <1>5, <1>8 DEF TakesFrom
<1>13. sz2[b] = got /\ (split => sz2[p] = sz[p] - n - Header)
  <2>1. p \notin over /\ b \notin over
    BY <1>2, <1>5, <1>6, <1>7
  <2> QED BY <1>2, <1>5, <1>8, <2>1
<1>14. \A a \in B : a # p /\ a # b => sz2[a] = sz[a]
  <2>1. B \subseteq Addr
    BY <1>1 DEF Tiles
  <2> QED BY <1>7, <1>8, <2>1
<1>15. Nodes(N) \subseteq B /\ Nodes(N) \subseteq Addr /\ \A a \in Addr : us[a] # 0 => a \in B
  BY DEF B, Blocks, Nodes
<1>16. \A x \in Nodes(N) \cup CPU : nx2[x] = IF x = prev /\ ~split THEN nx[p] ELSE nx[x]
  BY <1>7, <1>8, <1>15
<1>17. CASE split
  <2>1. Rings(nx2, N) /\ Elsewhere(nx, nx2, N, c)
    BY <1>1, <1>10, <1>16, <1>17, KeepRing
  <2>2. b = p + sz[p] - n /\ sz[p] >= n + Header /\ sz2[b] = n
    BY <1>13, <1>17 DEF b, split, got
  <2>3. b \notin B
    BY <1>3, <1>4, <1>5, <1>17 DEF e
  <2>4. Splits(B, sz, sz2, lo, p, b, n)
    BY <1>1, <1>2, <1>3, <1>13, <1>14, <1>17, <2>2, <2>3 DEF Splits
  <2>5. Tiles(B \cup {b}, sz2, lo)
    BY <2>4, SplitTiles
  <2>6. Blocks(us2, N) = B \cup {b}
    <3>1. {a \in Addr : us2[a] # 0} = {a \in Addr : us[a] # 0} \cup {b}
      BY <1>3, <1>5, <1>12
    <3> QED BY <3>1 DEF Blocks, B
  <2>7. Fits(sz2, us2, N)
    <3>1. \A a \in Nodes(N) : us2[a] = 0
      BY <1>12, <1>15, <2>3 DEF TakesFrom, Shape, Fits
    <3>2. ASSUME NEW a \in Addr, us2[a] # 0 PROVE us2[a] <= sz2[a]
      <4>1. CASE a = b
        BY <1>3, <1>12, <2>2, <4>1
      <4>2. CASE a # b
        <5>1. us[a] # 0 /\ us2[a] = us[a] /\ a # p
          BY <1>2, <1>12, <3>2, <4>2
        <5>2. sz2[a] = sz[a]
          BY <1>14, <1>15, <4>2, <5>1
        <5> QED BY <5>1, <5>2 DEF TakesFrom, Shape, Fits
      <4> QED BY <4>1, <4>2
    <3> QED BY <1>11, <1>12, <3>1, <3>2 DEF Fits
  <2>8. Shape(nx2, sz2, lo, us2, N)
    BY <2>1, <2>5, <2>6, <2>7 DEF Shape
  <2>9. OneRing(nx, nx2, us, us2, N, N, c)
    BY <1>3, <1>12, <2>1 DEF OneRing
  <2> QED BY <2>8, <2>9
<1>18. CASE ~split
  <2> DEFINE M == Without(N, c, p)
  <2>1. b = p /\ got = sz[p]
    BY <1>18 DEF b, got
  <2>2. ShrinksRing(nx, nx2, N, c, prev, p)
    <3>1. nx2[prev] = nx[p]
      BY <1>2, <1>16, <1>18 DEF TakesFrom
    <3> QED BY <1>1, <1>10, <1>16, <3>1 DEF ShrinksRing, TakesFrom
  <2>3. Rings(nx2, M) /\ Elsewhere(nx, nx2, N, c) /\ Nodes(M) = Nodes(N) \ {p}
    BY <2>2, ShrinkRing
  <2>4. \A d \in CPU \ {c} : M[d] = N[d]
    BY DEF Without
  <2> HIDE DEF M
  <2>5. \A a \in B : sz2[a] = sz[a]
    BY <1>13, <1>14, <2>1
  <2>6. Blocks(us2, M) = B
    <3>1. {a \in Addr : us2[a] # 0} = {a \in Addr : us[a] # 0} \cup {p}
      BY <1>2, <1>3, <1>12, <2>1
    <3> QED BY <1>2, <2>3, <3>1 DEF Blocks, B
  <2>7. Tiles(B, sz2, lo)
    BY <1>1, <2>5, SameTiles
  <2>8. Fits(sz2, us2, M)
    <3>1. \A a \in Nodes(M) : us2[a] = 0
      BY <1>12, <1>15, <2>1, <2>3 DEF TakesFrom, Shape, Fits
    <3>2. ASSUME NEW a \in Addr, us2[a] # 0 PROVE us2[a] <= sz2[a]
      <4>1. CASE a = p
        BY <1>2, <1>3, <1>12, <2>1, <2>5, <4>1
      <4>2. CASE a # p
        BY <1>12, <1>15, <2>1, <2>5, <3>2, <4>2 DEF TakesFrom, Shape, Fits
      <4> QED BY <4>1, <4>2
    <3> QED BY <1>11, <1>12, <3>1, <3>2 DEF Fits
  <2>9. Shape(nx2, sz2, lo, us2, M)
    BY <2>3, <2>6, <2>7, <2>8 DEF Shape
  <2>10. OneRing(nx, nx2, us, us2, N, M, c)
    BY <1>3, <1>12, <2>3, <2>4 DEF OneRing
  <2> QED BY <2>9, <2>10
<1> QED BY <1>17, <1>18

\* A page becomes the last node of c's ring.
PagesOn(nx, sz, us, lo, N, c, last, page, n) ==
  /\ Shape(nx, sz, lo, us, N)
  /\ last \in N[c] \cup {c} /\ nx[last] = c
  /\ page \in Nat /\ n \in Nat /\ page + Header + n = lo

PagesTo(nx, sz, us, N, c, last, page, n) ==
  LET nx2 == [nx EXCEPT ![last] = page, ![page] = c]
      sz2 == [sz EXCEPT ![page] = n]
      M == WithNode(N, c, page)
  IN  /\ Shape(nx2, sz2, page, us, M) /\ Elsewhere(nx, nx2, N, c)
      /\ page \in M[c] /\ last \in M[c] \cup {c} /\ nx2[last] = page /\ sz2[page] = n

LEMMA PageStep ==
  ASSUME NEW nx, NEW sz, NEW us, NEW lo, NEW N, NEW c \in CPU, NEW last, NEW page, NEW n,
         PagesOn(nx, sz, us, lo, N, c, last, page, n)
  PROVE  PagesTo(nx, sz, us, N, c, last, page, n)
<1> DEFINE nx2 == [nx EXCEPT ![last] = page, ![page] = c]
           sz2 == [sz EXCEPT ![page] = n]
           M == WithNode(N, c, page)
           B == Blocks(us, N)
<1>1. /\ N \in [CPU -> SUBSET Addr] /\ nx \in [Addr \cup CPU -> Addr \cup CPU \cup {NULL}]
      /\ sz \in [Addr -> 0 .. Heap] /\ us \in [Addr -> Size \cup {0}] /\ Tiles(B, sz, lo) /\ Rings(nx, N)
  BY DEF PagesOn, Shape, Rings, Fits
<1>2. /\ page \in Nat /\ n \in Nat /\ lo \in Nat /\ Heap \in Nat /\ Header \in Nat /\ Header > 0
      /\ page + Header + n = lo /\ lo <= Heap /\ page < lo /\ n \in 0 .. Heap
  BY <1>1, Numbers DEF PagesOn, Tiles
<1>3. page \in Addr
  BY <1>2 DEF Addr
<1>4. \A a \in B : a # page
  BY <1>1, <1>2 DEF Tiles
<1>5. last # page /\ last \in Addr \cup CPU
  <2>1. CASE last = c
    BY <1>3, <2>1, Numbers
  <2>2. CASE last # c
    <3>1. last \in Nodes(N) /\ last \in B
      BY <1>1, <2>2 DEF PagesOn, Nodes, Blocks, B
    <3> QED BY <1>4, <3>1 DEF Nodes
  <2> QED BY <2>1, <2>2
<1>6. /\ nx2 \in [Addr \cup CPU -> Addr \cup CPU \cup {NULL}] /\ nx2[last] = page /\ nx2[page] = c
      /\ \A x \in (Addr \cup CPU) \ {last, page} : nx2[x] = nx[x]
  BY <1>1, <1>3, <1>5
<1>7. sz2 \in [Addr -> 0 .. Heap] /\ sz2[page] = n /\ \A a \in Addr \ {page} : sz2[a] = sz[a]
  BY <1>1, <1>2, <1>3
<1> HIDE DEF nx2, sz2
<1>8. page \notin Nodes(N) /\ us[page] = 0
  BY <1>3, <1>4 DEF B, Blocks
<1>9. page \notin CPU
  BY <1>3, Numbers
<1>10. GrowsRing(nx, nx2, N, c, last, page)
  <2>1. \A x \in (Nodes(N) \cup CPU) \ {last} : x \in (Addr \cup CPU) \ {last, page}
    BY <1>8, <1>9 DEF Nodes
  <2> QED BY <1>1, <1>3, <1>6, <1>8, <2>1 DEF GrowsRing, PagesOn
<1>11. Rings(nx2, M) /\ Elsewhere(nx, nx2, N, c) /\ Nodes(M) = Nodes(N) \cup {page}
  BY <1>10, GrowRing
<1>12. M[c] = N[c] \cup {page}
  BY DEF WithNode
<1> HIDE DEF M
<1>13. Pages(B, sz, sz2, lo, page, n)
  <2>1. B \subseteq Addr
    BY <1>1 DEF Tiles
  <2> QED BY <1>1, <1>2, <1>4, <1>7, <2>1 DEF Pages
<1>14. Tiles(B \cup {page}, sz2, page)
  BY <1>13, PageTiles
<1>15. Blocks(us, M) = B \cup {page}
  BY <1>11 DEF Blocks, B
<1>16. Fits(sz2, us, M)
  <2>1. \A a \in Nodes(M) : us[a] = 0
    BY <1>8, <1>11 DEF PagesOn, Shape, Fits
  <2>2. \A a \in Addr : us[a] # 0 => us[a] <= sz2[a]
    BY <1>7, <1>8 DEF PagesOn, Shape, Fits
  <2> QED BY <1>1, <1>7, <2>1, <2>2 DEF Fits
<1>17. Shape(nx2, sz2, page, us, M)
  BY <1>11, <1>14, <1>15, <1>16 DEF Shape
<1> QED BY <1>6, <1>7, <1>11, <1>12, <1>17 DEF nx2, sz2, M, PagesOn, PagesTo

\* A node takes in the next one of its ring.
JoinsOn(nx, sz, us, lo, N, c, to, p) ==
  /\ Shape(nx, sz, lo, us, N)
  /\ to \in N[c] /\ p \in N[c] /\ p = nx[to] /\ p = to + Header + sz[to]

Joined(nx, sz, us, lo, N, c, to, p) ==
  LET nx2 == [nx EXCEPT ![to] = nx[p]]
      sz2 == [sz EXCEPT ![to] = sz[to] + Header + sz[p]]
      M == Without(N, c, p)
  IN  Shape(nx2, sz2, lo, us, M) /\ Elsewhere(nx, nx2, N, c)

LEMMA JoinStep ==
  ASSUME NEW nx, NEW sz, NEW us, NEW lo, NEW N, NEW c \in CPU, NEW to, NEW p,
         JoinsOn(nx, sz, us, lo, N, c, to, p)
  PROVE  Joined(nx, sz, us, lo, N, c, to, p)
<1> DEFINE nx2 == [nx EXCEPT ![to] = nx[p]]
           sz2 == [sz EXCEPT ![to] = sz[to] + Header + sz[p]]
           M == Without(N, c, p)
           B == Blocks(us, N)
<1>1. /\ N \in [CPU -> SUBSET Addr] /\ nx \in [Addr \cup CPU -> Addr \cup CPU \cup {NULL}]
      /\ sz \in [Addr -> 0 .. Heap] /\ us \in [Addr -> Size \cup {0}] /\ Tiles(B, sz, lo) /\ Rings(nx, N)
  BY DEF JoinsOn, Shape, Rings, Fits
<1>2. /\ to \in Addr /\ p \in Addr /\ to \in Nodes(N) /\ p \in Nodes(N) /\ to \in B /\ p \in B
      /\ us[to] = 0 /\ us[p] = 0
  BY <1>1 DEF JoinsOn, Shape, Fits, Nodes, Blocks
<1>3. /\ to \in Nat /\ p \in Nat /\ sz[to] \in Nat /\ sz[p] \in Nat /\ Header \in Nat /\ Header > 0
      /\ Heap \in Nat /\ p + Header + sz[p] <= Heap /\ p = to + Header + sz[to]
  <2>1. sz[to] \in Nat /\ sz[p] \in Nat /\ p + Header + sz[p] <= Heap
    BY <1>1, <1>2 DEF Tiles
  <2> QED BY <1>2, <2>1, Numbers DEF JoinsOn, Addr
<1>4. p # to /\ sz[to] + Header + sz[p] \in 0 .. Heap
  BY <1>3
<1>5. nx[p] \in Addr \cup CPU \cup {NULL}
  BY <1>1, <1>2
<1>6. /\ nx2 \in [Addr \cup CPU -> Addr \cup CPU \cup {NULL}] /\ nx2[to] = nx[p]
      /\ \A x \in (Addr \cup CPU) \ {to} : nx2[x] = nx[x]
  BY <1>1, <1>2, <1>5
<1>7. sz2 \in [Addr -> 0 .. Heap] /\ sz2[to] = sz[to] + Header + sz[p] /\ \A a \in Addr \ {to} : sz2[a] = sz[a]
  BY <1>1, <1>2, <1>4
<1> HIDE DEF nx2, sz2
<1>8. ShrinksRing(nx, nx2, N, c, to, p)
  BY <1>1, <1>6 DEF ShrinksRing, JoinsOn, Nodes
<1>9. Rings(nx2, M) /\ Elsewhere(nx, nx2, N, c) /\ Nodes(M) = Nodes(N) \ {p}
  BY <1>8, ShrinkRing
<1> HIDE DEF M
<1>10. Joins(B, sz, sz2, lo, to, p)
  <2>1. B \subseteq Addr
    BY <1>1 DEF Tiles
  <2> QED BY <1>1, <1>2, <1>3, <1>7, <2>1 DEF Joins
<1>11. Tiles(B \ {p}, sz2, lo)
  BY <1>10, JoinTiles
<1>12. Blocks(us, M) = B \ {p}
  BY <1>2, <1>9 DEF Blocks, B
<1>13. Fits(sz2, us, M)
  BY <1>1, <1>2, <1>7, <1>9 DEF Fits, JoinsOn, Shape
<1>14. Shape(nx2, sz2, lo, us, M)
  BY <1>9, <1>11, <1>12, <1>13 DEF Shape
<1> QED BY <1>9, <1>14 DEF nx2, sz2, M, Joined

\* A block that is given back goes into the node before it.
FreesInto(nx, sz, us, lo, N, c, prev, b) ==
  /\ Shape(nx, sz, lo, us, N)
  /\ prev \in N[c] /\ b \in Addr /\ us[b] # 0 /\ b = prev + Header + sz[prev]

LEMMA FreeInto ==
  ASSUME NEW nx, NEW sz, NEW us, NEW lo, NEW N, NEW c \in CPU, NEW prev, NEW b,
         FreesInto(nx, sz, us, lo, N, c, prev, b)
  PROVE  Shape(nx, [sz EXCEPT ![prev] = sz[prev] + Header + sz[b]], lo, [us EXCEPT ![b] = 0], N)
<1> DEFINE sz2 == [sz EXCEPT ![prev] = sz[prev] + Header + sz[b]]
           us2 == [us EXCEPT ![b] = 0]
           B == Blocks(us, N)
<1>1. /\ N \in [CPU -> SUBSET Addr] /\ sz \in [Addr -> 0 .. Heap] /\ us \in [Addr -> Size \cup {0}]
      /\ Tiles(B, sz, lo) /\ Rings(nx, N)
  BY DEF FreesInto, Shape, Rings, Fits
<1>2. /\ prev \in Addr /\ b \in Addr /\ prev \in Nodes(N) /\ b \notin Nodes(N) /\ prev \in B /\ b \in B
      /\ us[prev] = 0
  BY <1>1 DEF FreesInto, Shape, Fits, Nodes, Blocks
<1>3. prev # b /\ sz[prev] + Header + sz[b] \in 0 .. Heap
  <2>1. sz[prev] \in Nat /\ sz[b] \in Nat /\ b + Header + sz[b] <= Heap
    BY <1>1, <1>2 DEF Tiles
  <2>2. prev \in Nat /\ b \in Nat
    BY <1>2 DEF Addr
  <2> QED BY <2>1, <2>2, Numbers DEF FreesInto
<1>4. /\ sz2 \in [Addr -> 0 .. Heap] /\ sz2[prev] = sz[prev] + Header + sz[b]
      /\ \A a \in Addr \ {prev} : sz2[a] = sz[a]
  BY <1>1, <1>2, <1>3
<1>5. us2 \in [Addr -> Size \cup {0}] /\ us2[b] = 0 /\ \A a \in Addr \ {b} : us2[a] = us[a]
  BY <1>1, <1>2
<1> HIDE DEF sz2, us2
<1>6. Joins(B, sz, sz2, lo, prev, b)
  <2>1. B \subseteq Addr
    BY <1>1 DEF Tiles
  <2> QED BY <1>1, <1>2, <1>4, <2>1 DEF Joins, FreesInto
<1>7. Tiles(B \ {b}, sz2, lo)
  BY <1>6, JoinTiles
<1>8. Blocks(us2, N) = B \ {b}
  <2>1. {a \in Addr : us2[a] # 0} = {a \in Addr : us[a] # 0} \ {b}
    BY <1>5
  <2> QED BY <1>2, <2>1 DEF Blocks, B
<1>9. Fits(sz2, us2, N)
  BY <1>2, <1>4, <1>5 DEF Fits, FreesInto, Shape, Nodes
<1> QED BY <1>1, <1>7, <1>8, <1>9 DEF Shape, sz2, us2

\* Or it becomes the node behind prev.
FreesBehind(nx, sz, us, lo, N, c, prev, b) ==
  /\ Shape(nx, sz, lo, us, N)
  /\ prev \in N[c] \cup {c} /\ b \in Addr /\ us[b] # 0

FreedBehind(nx, sz, us, lo, N, c, prev, b) ==
  LET nx2 == [nx EXCEPT ![b] = nx[prev], ![prev] = b]
      M == WithNode(N, c, b)
  IN  /\ Shape(nx2, sz, lo, [us EXCEPT ![b] = 0], M) /\ Elsewhere(nx, nx2, N, c)
      /\ M[c] = N[c] \cup {b} /\ nx2[b] = nx[prev]

LEMMA FreeBehind ==
  ASSUME NEW nx, NEW sz, NEW us, NEW lo, NEW N, NEW c \in CPU, NEW prev, NEW b,
         FreesBehind(nx, sz, us, lo, N, c, prev, b)
  PROVE  FreedBehind(nx, sz, us, lo, N, c, prev, b)
<1> DEFINE nx2 == [nx EXCEPT ![b] = nx[prev], ![prev] = b]
           us2 == [us EXCEPT ![b] = 0]
           M == WithNode(N, c, b)
           B == Blocks(us, N)
<1>1. /\ N \in [CPU -> SUBSET Addr] /\ nx \in [Addr \cup CPU -> Addr \cup CPU \cup {NULL}]
      /\ sz \in [Addr -> 0 .. Heap] /\ us \in [Addr -> Size \cup {0}] /\ Tiles(B, sz, lo) /\ Rings(nx, N)
  BY DEF FreesBehind, Shape, Rings, Fits
<1>2. b \in Addr /\ b \notin Nodes(N) /\ b \in B /\ b \notin CPU
  BY <1>1, Numbers DEF FreesBehind, Shape, Fits, Blocks
<1>3. prev \in Addr \cup CPU /\ prev # b /\ nx[prev] \in Addr \cup CPU \cup {NULL}
  <2>1. prev \in Nodes(N) \cup CPU
    BY <1>1 DEF FreesBehind, Nodes
  <2> QED BY <1>1, <1>2, <2>1 DEF Nodes
<1>4. /\ nx2 \in [Addr \cup CPU -> Addr \cup CPU \cup {NULL}] /\ nx2[prev] = b /\ nx2[b] = nx[prev]
      /\ \A x \in (Addr \cup CPU) \ {prev, b} : nx2[x] = nx[x]
  BY <1>1, <1>2, <1>3
<1>5. us2 \in [Addr -> Size \cup {0}] /\ us2[b] = 0 /\ \A a \in Addr \ {b} : us2[a] = us[a]
  BY <1>1, <1>2
<1> HIDE DEF nx2, us2
<1>6. GrowsRing(nx, nx2, N, c, prev, b)
  <2>1. \A x \in (Nodes(N) \cup CPU) \ {prev} : x \in (Addr \cup CPU) \ {prev, b}
    BY <1>2 DEF Nodes
  <2> QED BY <1>1, <1>2, <1>4, <2>1 DEF GrowsRing, FreesBehind
<1>7. Rings(nx2, M) /\ Elsewhere(nx, nx2, N, c) /\ Nodes(M) = Nodes(N) \cup {b}
  BY <1>6, GrowRing
<1>8. M[c] = N[c] \cup {b}
  BY DEF WithNode
<1> HIDE DEF M
<1>9. Blocks(us2, M) = B
  <2>1. {a \in Addr : us2[a] # 0} = {a \in Addr : us[a] # 0} \ {b}
    BY <1>5
  <2> QED BY <1>2, <1>7, <2>1 DEF Blocks, B
<1>10. Fits(sz, us2, M)
  BY <1>2, <1>5, <1>7 DEF Fits, FreesBehind, Shape, Nodes
<1>11. Shape(nx2, sz, lo, us2, M)
  BY <1>1, <1>7, <1>9, <1>10 DEF Shape
<1> QED BY <1>4, <1>7, <1>8, <1>11 DEF nx2, us2, M, FreedBehind

-----------------------------------------------------------------------------
(* Frees under way                                                             *)

\* A task in the middle of kfree is the only one at its block, and what it read of the
\* ring still holds.
Freeing(fr, nx, us, N) ==
  /\ fr = [t \in Task |-> fr[t]]
  /\ \A t \in Task : fr[t] # NULL =>
       /\ fr[t] \in [cpu : CPU, blk : Addr, prev : Addr \cup CPU, p : Addr \cup CPU]
       /\ us[fr[t].blk] # 0
       /\ fr[t].prev \in N[fr[t].cpu] \cup {fr[t].cpu} /\ fr[t].p = nx[fr[t].prev]
  /\ \A t, u \in Task : t # u /\ fr[t] # NULL /\ fr[u] # NULL => fr[t].blk # fr[u].blk

\* The frees that go on after a step on the ring of c are on other rings.
Continues(fr, fr2, nx, nx2, us, us2, N, M, c) ==
  /\ Freeing(fr, nx, us, N) /\ fr2 = [t \in Task |-> fr2[t]]
  /\ \A t \in Task : fr2[t] # NULL => fr2[t] = fr[t] /\ fr[t].cpu # c /\ us2[fr[t].blk] # 0
  /\ Elsewhere(nx, nx2, N, c) /\ \A d \in CPU \ {c} : M[d] = N[d]

LEMMA FreeingKept ==
  ASSUME NEW fr, NEW fr2, NEW nx, NEW nx2, NEW us, NEW us2, NEW N, NEW M, NEW c,
         Continues(fr, fr2, nx, nx2, us, us2, N, M, c)
  PROVE  Freeing(fr2, nx2, us2, M)
<1>1. ASSUME NEW t \in Task, fr2[t] # NULL
      PROVE  /\ fr2[t] \in [cpu : CPU, blk : Addr, prev : Addr \cup CPU, p : Addr \cup CPU]
             /\ us2[fr2[t].blk] # 0
             /\ fr2[t].prev \in M[fr2[t].cpu] \cup {fr2[t].cpu} /\ fr2[t].p = nx2[fr2[t].prev]
  <2> DEFINE f == fr[t]
  <2>1. fr2[t] = f /\ f # NULL /\ f.cpu # c /\ us2[f.blk] # 0
    BY <1>1 DEF Continues
  <2>2. /\ f \in [cpu : CPU, blk : Addr, prev : Addr \cup CPU, p : Addr \cup CPU]
        /\ f.prev \in N[f.cpu] \cup {f.cpu} /\ f.p = nx[f.prev]
    BY <2>1 DEF Continues, Freeing
  <2> HIDE DEF f
  <2>3. f.cpu \in CPU \ {c}
    BY <2>1, <2>2
  <2>4. M[f.cpu] = N[f.cpu] /\ nx2[f.prev] = nx[f.prev]
    BY <2>2, <2>3 DEF Continues, Elsewhere
  <2> QED BY <2>1, <2>2, <2>4
<1>2. \A t, u \in Task : t # u /\ fr2[t] # NULL /\ fr2[u] # NULL => fr2[t].blk # fr2[u].blk
  BY DEF Continues, Freeing
<1> QED BY <1>1, <1>2 DEF Freeing, Continues

-----------------------------------------------------------------------------
(* The inductive invariant                                                     *)

Good(N) ==
  /\ left \in Nat /\ panicked \in BOOLEAN
  /\ Shape(next, size, left + Header, inUse, N)
  /\ Freeing(freeing, next, inUse, N)

Inv == \E N : Good(N)

LEMMA InitGood == Init => Inv
<1> SUFFICES ASSUME Init PROVE Inv
  OBVIOUS
<1> DEFINE N == [c \in CPU |-> {}]
<1>1. left \in Nat /\ left + Header = Heap /\ Heap \in Nat /\ Heap > 0
  BY Numbers DEF Init
<1>2. next \in [Addr \cup CPU -> Addr \cup CPU \cup {NULL}] /\ \A c \in CPU : next[c] = c
  BY DEF Init
<1>3. ASSUME NEW c \in CPU PROVE Linked(next, c, N[c])
  <2>1. Chain(next, c, <<>>) /\ Members(<<>>) = {}
    BY <1>2 DEF Chain, Members
  <2> QED BY <2>1 DEF Linked
<1>4. Rings(next, N)
  BY <1>2, <1>3 DEF Rings
<1>5. Nodes(N) = {}
  BY DEF Nodes
<1>6. Blocks(inUse, N) = {}
  BY <1>5 DEF Blocks, Init
<1>7. Tiles({}, size, Heap)
  BY <1>1 DEF Tiles
<1>8. Fits(size, inUse, N)
  <2>1. 0 \in 0 .. Heap
    BY <1>1
  <2> QED BY <1>5, <2>1 DEF Fits, Init
<1>9. Shape(next, size, left + Header, inUse, N)
  BY <1>1, <1>4, <1>6, <1>7, <1>8 DEF Shape
<1>10. Freeing(freeing, next, inUse, N)
  BY DEF Freeing, Init
<1>11. panicked \in BOOLEAN
  BY DEF Init
<1> QED BY <1>1, <1>9, <1>10, <1>11 DEF Good, Inv

LEMMA KallocGood ==
  ASSUME NEW N, Good(N), NEW c \in CPU, NEW n \in Size, Kalloc(c, n), ~raced'
  PROVE  Inv'
<1> DEFINE ring == Ring(c)
           J == {j \in DOMAIN ring : size[ring[j]] >= n}
           i == First(J, 0)
           last == Before(c, ring, Len(ring) + 1)
           needed == IF n > Page THEN n ELSE Page
           page == left - needed
           lo == left + Header
<1>1. /\ left \in Nat /\ panicked \in BOOLEAN /\ Shape(next, size, lo, inUse, N)
      /\ Freeing(freeing, next, inUse, N) /\ Linked(next, c, N[c])
  BY DEF Good, Shape, Rings
<1>2. /\ ring \in Seq(Addr) /\ N[c] = Members(ring) /\ Len(ring) \in Nat /\ DOMAIN ring = 1 .. Len(ring)
      /\ \A j \in 1 .. Len(ring) + 1 :
              /\ Before(c, ring, j) \in N[c] \cup {c}
              /\ next[Before(c, ring, j)] = IF j \in DOMAIN ring THEN ring[j] ELSE c
  <2>1. ring = RingOf(next, c)
    BY DEF Ring
  <2> HIDE DEF ring
  <2> QED BY <1>1, <2>1, RingHas DEF Chain
<1>3. \A t \in Task : freeing[t] # NULL => freeing[t].cpu # c
  BY DEF Kalloc, Between
<1>4. freeing' = freeing
  BY DEF Kalloc
<1>5. ASSUME NEW M, Shape(next', size', left' + Header, inUse', M), OneRing(next, next', inUse, inUse', N, M, c),
             left' \in Nat, panicked' = panicked
      PROVE  Inv'
  <2>1. \A t \in Task : freeing[t] # NULL => inUse'[freeing[t].blk] # 0
    BY <1>1, <1>5 DEF Freeing, OneRing
  <2>2. Continues(freeing, freeing', next, next', inUse, inUse', N, M, c)
    <3>1. freeing = [t \in Task |-> freeing[t]]
      BY <1>1 DEF Freeing
    <3> QED BY <1>1, <1>3, <1>4, <1>5, <2>1, <3>1 DEF Continues, OneRing
  <2>3. Freeing(freeing', next', inUse', M)
    BY <2>2, FreeingKept
  <2>4. Good(M)'
    BY <1>1, <1>5, <2>3 DEF Good
  <2> QED BY <2>4 DEF Inv
<1>6. CASE /\ i # 0
           /\ Take(next, size, Before(c, ring, i), ring[i], n)
           /\ UNCHANGED <<left, panicked>>
  <2> DEFINE prev == Before(c, ring, i)
             p == ring[i]
  <2>1. J \subseteq Nat
    BY <1>2
  <2>2. i \in J
    <3> HIDE DEF J
    <3>1. i \in J \/ (J = {} /\ i = 0)
      BY <2>1, FirstIs
    <3> QED BY <1>6, <3>1
  <2>3. i \in DOMAIN ring /\ size[ring[i]] >= n
    <3> HIDE DEF i
    <3> QED BY <2>2
  <2> HIDE DEF i, ring
  <2>4. i \in 1 .. Len(ring) /\ i \in 1 .. Len(ring) + 1
    BY <1>2, <2>3
  <2>5. p \in N[c] /\ prev \in N[c] \cup {c} /\ p = next[prev] /\ size[p] >= n
    <3>1. p \in N[c]
      BY <1>2, <2>4 DEF Members
    <3> QED BY <1>2, <2>3, <2>4, <3>1
  <2> HIDE DEF prev, p
  <2>6. Takes(next, size, inUse, next', size', inUse', prev, p, n)
    BY <1>6 DEF Take, Takes, prev, p
  <2>7. TakesFrom(next, size, inUse, next', size', inUse', lo, N, c, prev, p, n)
    BY <1>1, <2>5, <2>6 DEF TakesFrom
  <2>8. PICK M : Shape(next', size', lo, inUse', M) /\ OneRing(next, next', inUse, inUse', N, M, c)
    BY <2>7, TakeStep
  <2>9. left' = left /\ panicked' = panicked
    BY <1>6
  <2> QED BY <1>1, <1>5, <2>8, <2>9
<1>7. CASE /\ i = 0 /\ left > needed + Header
           /\ left' = Shrunk(needed)
           /\ Take([next EXCEPT ![last] = page, ![page] = c],
                   [size EXCEPT ![page] = needed], last, page, n)
           /\ UNCHANGED panicked
  <2> DEFINE nx2 == [next EXCEPT ![last] = page, ![page] = c]
             sz2 == [size EXCEPT ![page] = needed]
             M == WithNode(N, c, page)
  <2>1. /\ n \in Nat /\ needed \in Nat /\ needed >= n /\ page \in Nat /\ page + Header + needed = lo
        /\ left' = left - (needed + Header) /\ left' + Header = page /\ left' \in Nat
    BY <1>1, <1>7, Numbers DEF Shrunk
  <2>2. last \in N[c] \cup {c} /\ next[last] = c
    <3>1. Len(ring) + 1 \in 1 .. Len(ring) + 1 /\ Len(ring) + 1 \notin DOMAIN ring
      BY <1>2
    <3> HIDE DEF ring
    <3> QED BY <1>2, <3>1
  <2> HIDE DEF needed, page, last, lo
  <2>3. PagesOn(next, size, inUse, lo, N, c, last, page, needed)
    BY <1>1, <2>1, <2>2 DEF PagesOn
  <2>4. /\ Shape(nx2, sz2, page, inUse, M) /\ Elsewhere(next, nx2, N, c)
        /\ page \in M[c] /\ last \in M[c] \cup {c} /\ nx2[last] = page /\ sz2[page] = needed
    <3>1. PagesTo(next, size, inUse, N, c, last, page, needed)
      BY <2>3, PageStep
    <3> QED BY <3>1, Zenon DEF PagesTo
  <2>5. \A d \in CPU \ {c} : M[d] = N[d]
    BY DEF WithNode
  <2>6. Take(nx2, sz2, last, page, n)
    BY <1>7
  <2> HIDE DEF nx2, sz2, M
  <2>7. Takes(nx2, sz2, inUse, next', size', inUse', last, page, n)
    BY <2>6 DEF Take, Takes
  <2>8. TakesFrom(nx2, sz2, inUse, next', size', inUse', page, M, c, last, page, n)
    BY <2>1, <2>4, <2>7 DEF TakesFrom
  <2>9. PICK L : Shape(next', size', page, inUse', L) /\ OneRing(nx2, next', inUse, inUse', M, L, c)
    BY <2>8, TakeStep
  <2>10. OneRing(next, next', inUse, inUse', N, L, c)
    BY <2>4, <2>5, <2>9 DEF OneRing, Elsewhere
  <2> QED BY <1>5, <1>7, <2>1, <2>9, <2>10
<1>8. CASE /\ i = 0 /\ left <= needed + Header
           /\ panicked' = TRUE
           /\ UNCHANGED <<next, size, left, inUse>>
  <2>1. Good(N)'
    BY <1>1, <1>4, <1>8 DEF Good
  <2> QED BY <2>1 DEF Inv
<1> QED BY <1>6, <1>7, <1>8 DEF Kalloc

LEMMA FindGood ==
  ASSUME NEW N, Good(N), NEW t \in Task, NEW c \in CPU, NEW b \in Addr, KfreeFind(t, c, b)
  PROVE  Inv'
<1> DEFINE ring == Ring(c)
           J == {j \in DOMAIN ring : b < ring[j]}
           i == First(J, Len(ring) + 1)
           f == [cpu |-> c, blk |-> b, prev |-> Before(c, ring, i),
                 p |-> IF i \in DOMAIN ring THEN ring[i] ELSE c]
<1>1. /\ left \in Nat /\ panicked \in BOOLEAN /\ Shape(next, size, left + Header, inUse, N)
      /\ Freeing(freeing, next, inUse, N) /\ Linked(next, c, N[c]) /\ N \in [CPU -> SUBSET Addr]
  BY DEF Good, Shape, Rings
<1>2. /\ ring \in Seq(Addr) /\ Len(ring) \in Nat /\ DOMAIN ring = 1 .. Len(ring)
      /\ \A j \in 1 .. Len(ring) + 1 :
              /\ Before(c, ring, j) \in N[c] \cup {c}
              /\ next[Before(c, ring, j)] = IF j \in DOMAIN ring THEN ring[j] ELSE c
  <2>1. ring = RingOf(next, c)
    BY DEF Ring
  <2> HIDE DEF ring
  <2> QED BY <1>1, <2>1, RingHas DEF Chain
<1>3. i \in 1 .. Len(ring) + 1
  <2>1. J \subseteq Nat /\ J \subseteq 1 .. Len(ring) + 1 /\ Len(ring) + 1 \in 1 .. Len(ring) + 1
    BY <1>2
  <2> HIDE DEF J, ring
  <2> QED BY <2>1, FirstIs
<1>4. freeing' = [freeing EXCEPT ![t] = f]
  BY DEF KfreeFind
<1>5. /\ inUse[b] # 0 /\ freeing[t] = NULL
      /\ \A u \in Task : freeing[u] # NULL => freeing[u].blk # b
  BY DEF KfreeFind
<1> HIDE DEF ring, i
<1>6. /\ f.cpu = c /\ f.blk = b /\ f.prev \in N[c] \cup {c} /\ f.p = next[f.prev]
      /\ f \in [cpu : CPU, blk : Addr, prev : Addr \cup CPU, p : Addr \cup CPU]
  <2>1. i \in DOMAIN ring => ring[i] \in Addr
    BY <1>2
  <2>2. Before(c, ring, i) \in Addr \cup CPU
    BY <1>1, <1>2, <1>3
  <2> QED BY <1>2, <1>3, <2>1, <2>2
<1> HIDE DEF f
<1>7. freeing = [u \in Task |-> freeing[u]]
  BY <1>1 DEF Freeing
<1>8. freeing'[t] = f /\ \A u \in Task \ {t} : freeing'[u] = freeing[u]
  BY <1>4, <1>7
<1>9. freeing' = [u \in Task |-> freeing'[u]]
  BY <1>4, <1>7
<1>10. Freeing(freeing', next, inUse, N)
  <2>1. ASSUME NEW u \in Task, freeing'[u] # NULL
        PROVE  /\ freeing'[u] \in [cpu : CPU, blk : Addr, prev : Addr \cup CPU, p : Addr \cup CPU]
               /\ inUse[freeing'[u].blk] # 0
               /\ freeing'[u].prev \in N[freeing'[u].cpu] \cup {freeing'[u].cpu}
               /\ freeing'[u].p = next[freeing'[u].prev]
    <3>1. CASE u = t
      BY <1>5, <1>6, <1>8, <3>1
    <3>2. CASE u # t
      BY <1>1, <1>8, <2>1, <3>2 DEF Freeing
    <3> QED BY <3>1, <3>2
  <2>2. ASSUME NEW u \in Task, NEW v \in Task, u # v, freeing'[u] # NULL, freeing'[v] # NULL
        PROVE  freeing'[u].blk # freeing'[v].blk
    <3>1. CASE u = t
      BY <1>5, <1>6, <1>8, <2>2, <3>1
    <3>2. CASE v = t
      BY <1>5, <1>6, <1>8, <2>2, <3>2
    <3>3. CASE u # t /\ v # t
      BY <1>1, <1>8, <2>2, <3>3 DEF Freeing
    <3> QED BY <3>1, <3>2, <3>3
  <2> QED BY <1>9, <2>1, <2>2 DEF Freeing
<1>11. UNCHANGED <<next, size, left, inUse, panicked>>
  BY DEF KfreeFind
<1>12. Good(N)'
  BY <1>1, <1>10, <1>11 DEF Good
<1> QED BY <1>12 DEF Inv

LEMMA LinkGood ==
  ASSUME NEW N, Good(N), NEW t \in Task, KfreeLink(t), ~raced'
  PROVE  Inv'
<1> DEFINE f == freeing[t]
           c == f.cpu
           b == f.blk
           p == f.p
           adjacent == Adjacent(f)
           to == IF adjacent THEN f.prev ELSE b
           grown == IF adjacent THEN JoinedSize(f) ELSE size[b]
           linked == IF adjacent THEN next ELSE [next EXCEPT ![b] = next[f.prev], ![f.prev] = b]
           joinNext == p = to + Header + grown
           us2 == [inUse EXCEPT ![b] = 0]
           sz2 == [size EXCEPT ![to] = grown]
           lo == left + Header
<1>1. /\ left \in Nat /\ panicked \in BOOLEAN /\ Shape(next, size, lo, inUse, N)
      /\ Freeing(freeing, next, inUse, N) /\ Rings(next, N) /\ Fits(size, inUse, N)
  BY DEF Good, Shape
<1>2. /\ f # NULL /\ f \in [cpu : CPU, blk : Addr, prev : Addr \cup CPU, p : Addr \cup CPU]
      /\ inUse[b] # 0 /\ f.prev \in N[c] \cup {c} /\ p = next[f.prev]
      /\ c \in CPU /\ b \in Addr
  BY <1>1 DEF Freeing, KfreeLink
<1>3. /\ next' = IF joinNext THEN [linked EXCEPT ![to] = linked[p]] ELSE linked
      /\ size' = [size EXCEPT ![to] = IF joinNext THEN grown + Header + size[p] ELSE grown]
      /\ inUse' = us2
  BY DEF KfreeLink, Link, LinkBy
<1>4. /\ freeing' = [freeing EXCEPT ![t] = NULL] /\ left' = left /\ panicked' = panicked
      /\ freeing = [u \in Task |-> freeing[u]]
  BY <1>1 DEF KfreeLink, Freeing
<1>5. p \in N[c] \cup {c}
  <2>1. Linked(next, c, N[c])
    BY <1>1, <1>2 DEF Rings
  <2> HIDE DEF c, p
  <2> QED BY <1>2, <2>1, LinkedNext
<1>6. next \in [Addr \cup CPU -> Addr \cup CPU \cup {NULL}] /\ size \in [Addr -> 0 .. Heap]
      /\ N \in [CPU -> SUBSET Addr] /\ inUse \in [Addr -> Size \cup {0}]
  BY <1>1 DEF Rings, Fits
<1> DEFINE Linking(M) == /\ Shape(linked, sz2, lo, us2, M) /\ Elsewhere(next, linked, N, c)
                         /\ \A d \in CPU \ {c} : M[d] = N[d]
                         /\ to \in M[c] /\ p \in M[c] \cup {c} /\ linked[to] = p
<1>7. \E M : Linking(M)
  <2>1. CASE adjacent
    <3>1. f.prev \in Addr /\ b = f.prev + Header + size[f.prev]
      BY <2>1 DEF Adjacent
    <3>2. f.prev \in N[c]
      BY <1>2, <3>1, Numbers
    <3>3. to = f.prev /\ grown = size[f.prev] + Header + size[b] /\ linked = next
      BY <2>1 DEF JoinedSize
    <3>4. Shape(next, [size EXCEPT ![f.prev] = size[f.prev] + Header + size[b]], lo, us2, N)
      <4> HIDE DEF c, b, lo
      <4>1. FreesInto(next, size, inUse, lo, N, c, f.prev, b)
        BY <1>1, <1>2, <3>1, <3>2 DEF FreesInto
      <4> QED BY <1>2, <4>1, FreeInto
    <3>5. Elsewhere(next, next, N, c)
      BY DEF Elsewhere
    <3> HIDE DEF to, grown, linked, c, p, b, lo, us2
    <3>6. Linking(N)
      BY <1>2, <1>5, <3>2, <3>3, <3>4, <3>5
    <3> HIDE DEF Linking
    <3> QED BY <3>6
  <2>2. CASE ~adjacent
    <3> DEFINE M == WithNode(N, c, b)
               nx2 == [next EXCEPT ![b] = next[f.prev], ![f.prev] = b]
    <3>1. to = b /\ grown = size[b] /\ linked = nx2
      BY <2>2
    <3>2. sz2 = size
      BY <1>2, <1>6, <3>1
    <3>3. FreesBehind(next, size, inUse, lo, N, c, f.prev, b)
      BY <1>1, <1>2 DEF FreesBehind
    <3>4. /\ Shape(nx2, size, lo, us2, M) /\ Elsewhere(next, nx2, N, c)
          /\ M[c] = N[c] \cup {b} /\ nx2[b] = next[f.prev]
      <4> HIDE DEF c, b, lo
      <4>1. FreedBehind(next, size, inUse, lo, N, c, f.prev, b)
        BY <1>2, <3>3, FreeBehind
      <4> QED BY <4>1, Zenon DEF FreedBehind
    <3>5. \A d \in CPU \ {c} : M[d] = N[d]
      BY DEF WithNode
    <3> HIDE DEF to, grown, linked, c, p, b, lo, us2, M, nx2, sz2
    <3>6. Linking(M)
      BY <1>2, <1>5, <3>1, <3>2, <3>4, <3>5
    <3> HIDE DEF Linking
    <3> QED BY <3>6
  <2> QED BY <2>1, <2>2
<1>8. PICK M : Linking(M)
  <2> HIDE DEF Linking
  <2> QED BY <1>7
<1>9. to \in Addr /\ grown \in 0 .. Heap
  <2>1. to \in Addr
    <3>1. M \in [CPU -> SUBSET Addr] /\ to \in M[c]
      BY <1>8 DEF Shape, Rings
    <3> HIDE DEF to, c
    <3> QED BY <1>2, <3>1
  <2>2. sz2 \in [Addr -> 0 .. Heap]
    BY <1>8 DEF Shape, Fits
  <2>3. sz2[to] = grown
    <3> HIDE DEF to, grown
    <3> QED BY <1>6, <2>1
  <2> HIDE DEF to, grown, sz2
  <2> QED BY <2>1, <2>2, <2>3
<1>10. \A u \in Task : freeing'[u] # NULL =>
         freeing'[u] = freeing[u] /\ freeing[u].cpu # c /\ us2[freeing[u].blk] # 0
  <2> SUFFICES ASSUME NEW u \in Task, freeing'[u] # NULL
               PROVE  freeing'[u] = freeing[u] /\ freeing[u].cpu # c /\ us2[freeing[u].blk] # 0
    OBVIOUS
  <2>1. u # t /\ freeing'[u] = freeing[u]
    BY <1>4
  <2>2. freeing[u].blk # b /\ freeing[u].cpu # c /\ inUse[freeing[u].blk] # 0
    <3>1. freeing[u].blk # b /\ inUse[freeing[u].blk] # 0
      BY <1>1, <1>2, <2>1 DEF Freeing
    <3>2. freeing[u].cpu # c
      BY <2>1 DEF KfreeLink, Between
    <3> QED BY <3>1, <3>2
  <2>3. freeing[u].blk \in Addr
    BY <1>1, <2>1 DEF Freeing
  <2> HIDE DEF b, c
  <2> QED BY <1>6, <2>1, <2>2, <2>3
<1>11. freeing' = [u \in Task |-> freeing'[u]]
  BY <1>4
<1>12. ASSUME NEW L, Shape(next', size', lo, us2, L), Elsewhere(linked, next', M, c),
              \A d \in CPU \ {c} : L[d] = M[d]
       PROVE  Inv'
  <2> HIDE DEF c, us2, linked, lo, f, b, p, to, grown, sz2
  <2>1. Elsewhere(next, next', N, c) /\ \A d \in CPU \ {c} : L[d] = N[d]
    BY <1>8, <1>12 DEF Elsewhere
  <2>2. Continues(freeing, freeing', next, next', inUse, us2, N, L, c)
    BY <1>1, <1>10, <1>11, <2>1 DEF Continues
  <2>3. Freeing(freeing', next', us2, L)
    BY <2>2, FreeingKept
  <2>4. Good(L)'
    BY <1>1, <1>3, <1>4, <1>12, <2>3 DEF Good, lo
  <2> QED BY <2>4 DEF Inv
<1>13. CASE ~joinNext
  <2>1. next' = linked /\ size' = sz2
    BY <1>3, <1>13
  <2>2. Elsewhere(linked, next', M, c)
    BY <2>1 DEF Elsewhere
  <2> HIDE DEF linked, sz2, us2, lo, c
  <2> QED BY <1>8, <1>12, <2>1, <2>2
<1>14. CASE joinNext
  <2> DEFINE L == Without(M, c, p)
             nx3 == [linked EXCEPT ![to] = linked[p]]
             sz3 == [sz2 EXCEPT ![to] = sz2[to] + Header + sz2[p]]
  <2>1. p \in Nat
    <3> HIDE DEF to, grown, p
    <3> QED BY <1>9, <1>14, Numbers DEF Addr
  <2>2. p \in M[c] /\ p \in Addr
    <3>1. p \in M[c]
      BY <1>2, <1>8, <2>1, Numbers
    <3>2. M \in [CPU -> SUBSET Addr]
      BY <1>8 DEF Shape, Rings
    <3> HIDE DEF p, c
    <3> QED BY <1>2, <3>1, <3>2
  <2>3. p # to /\ sz2[to] = grown /\ sz2[p] = size[p]
    <3>1. p # to
      <4> HIDE DEF to, grown, p
      <4> QED BY <1>9, <1>14, Numbers DEF Addr
    <3> HIDE DEF to, grown, p
    <3> QED BY <1>6, <1>9, <2>2, <3>1
  <2>4. next' = nx3
    BY <1>3, <1>14
  <2>5. size' = [size EXCEPT ![to] = grown + Header + size[p]]
    BY <1>3, <1>14
  <2>6. size' = sz3
    <3> HIDE DEF to, grown, p
    <3> QED BY <1>6, <2>3, <2>5
  <2>7. p = to + Header + sz2[to] /\ linked[to] = p
    BY <1>8, <1>14, <2>3
  <2> HIDE DEF linked, sz2, us2, lo, c, p, to, grown
  <2>8. JoinsOn(linked, sz2, us2, lo, M, c, to, p)
    BY <1>8, <2>2, <2>7 DEF JoinsOn
  <2>9. Joined(linked, sz2, us2, lo, M, c, to, p)
    BY <1>2, <2>8, JoinStep
  <2>10. Shape(nx3, sz3, lo, us2, L) /\ Elsewhere(linked, nx3, M, c)
    BY <2>9, Zenon DEF Joined
  <2>11. \A d \in CPU \ {c} : L[d] = M[d]
    BY DEF Without
  <2> HIDE DEF nx3, sz3, L
  <2> QED BY <1>12, <2>4, <2>6, <2>10, <2>11
<1> QED BY <1>13, <1>14

LEMMA NextGood == Inv /\ ~raced' /\ [Next]_vars => Inv'
<1> SUFFICES ASSUME Inv, ~raced', [Next]_vars PROVE Inv'
  OBVIOUS
<1>1. PICK N : Good(N)
  BY DEF Inv
<1>2. ASSUME NEW c \in CPU, NEW n \in Size, Kalloc(c, n) PROVE Inv'
  BY <1>1, <1>2, KallocGood
<1>3. ASSUME NEW t \in Task, NEW c \in CPU, NEW b \in Addr, KfreeFind(t, c, b) PROVE Inv'
  BY <1>1, <1>3, FindGood
<1>4. ASSUME NEW t \in Task, KfreeLink(t) PROVE Inv'
  BY <1>1, <1>4, LinkGood
<1>5. CASE UNCHANGED vars
  <2>1. Good(N)'
    BY <1>1, <1>5 DEF Good, vars
  <2> QED BY <2>1 DEF Inv
<1> QED BY <1>2, <1>3, <1>4, <1>5 DEF Next

-----------------------------------------------------------------------------
(* What it shows                                                               *)

LEMMA InvTypeOK == Inv /\ raced \in BOOLEAN => TypeOK
<1> SUFFICES ASSUME NEW N, Good(N), raced \in BOOLEAN PROVE TypeOK
  BY DEF Inv
<1>1. left \in 0 .. Heap
  <2>1. left \in Nat /\ left + Header <= Heap
    BY DEF Good, Shape, Tiles
  <2> QED BY <2>1, Numbers
<1> QED BY <1>1 DEF TypeOK, Good, Shape, Rings, Fits, Freeing

\* No unit is in two blocks.
LEMMA NoUnitTwice ==
  ASSUME NEW B, NEW z, NEW lo, Tiles(B, z, lo)
  PROVE  /\ \A a \in B : Span(a, z[a]) \subseteq lo .. Heap - 1
         /\ \A a, b \in B : a # b => Span(a, z[a]) \cap Span(b, z[b]) = {}
         /\ UNION {Span(a, z[a]) : a \in B} = lo .. Heap - 1
<1>1. /\ lo \in Nat /\ Heap \in Nat /\ Header \in Nat /\ Header > 0
      /\ \A a \in B : a \in Nat /\ z[a] \in Nat /\ lo <= a /\ a + Header + z[a] <= Heap
  BY Numbers DEF Tiles, Addr
<1>2. \A a, b \in B : a < b => a + Header + z[a] <= b
  BY DEF Tiles
<1>3. ASSUME NEW a \in B PROVE Span(a, z[a]) \subseteq lo .. Heap - 1
  <2> SUFFICES ASSUME NEW u \in a .. a + Header + z[a] - 1 PROVE u \in lo .. Heap - 1
    BY DEF Span
  <2> QED BY <1>1
<1>4. ASSUME NEW a \in B, NEW b \in B, a # b PROVE Span(a, z[a]) \cap Span(b, z[b]) = {}
  <2> SUFFICES ASSUME NEW u \in a .. a + Header + z[a] - 1, u \in b .. b + Header + z[b] - 1 PROVE FALSE
    BY DEF Span
  <2>1. a < b \/ b < a
    BY <1>1, <1>4
  <2>2. a + Header + z[a] <= b \/ b + Header + z[b] <= a
    BY <1>2, <2>1
  <2> QED BY <1>1, <2>2
<1>5. ASSUME NEW u \in lo .. Heap - 1 PROVE \E a \in B : u \in Span(a, z[a])
  <2>1. PICK a \in B : a <= u /\ u < a + Header + z[a]
    BY DEF Tiles
  <2>2. u \in a .. a + Header + z[a] - 1
    BY <1>1, <2>1
  <2> QED BY <2>2 DEF Span
<1> QED BY <1>3, <1>4, <1>5

LEMMA InvNoOverlap == Inv => DisjointSpans
<1> SUFFICES ASSUME NEW N, Good(N) PROVE DisjointSpans
  BY DEF Inv
<1> DEFINE B == Blocks(inUse, N)
           lo == left + Header
<1>1. Tiles(B, size, lo) /\ Fits(size, inUse, N)
  BY DEF Good, Shape
<1>2. /\ \A a \in B : Span(a, size[a]) \subseteq lo .. Heap - 1
      /\ \A a, b \in B : a # b => Span(a, size[a]) \cap Span(b, size[b]) = {}
  <2> HIDE DEF B, lo
  <2> QED BY <1>1, NoUnitTwice
<1>3. ASSUME NEW a \in Addr, inUse[a] # 0 PROVE a \in B /\ Span(a, inUse[a]) \subseteq Span(a, size[a])
  <2>1. a \in B
    BY <1>3 DEF Blocks
  <2>2. inUse[a] \in Nat /\ size[a] \in Nat /\ inUse[a] <= size[a] /\ a \in Nat
    BY <1>1, <1>3, Numbers DEF Fits, Addr
  <2>3. \A u \in a .. a + Header + inUse[a] - 1 : u \in a .. a + Header + size[a] - 1
    BY <2>2, Numbers
  <2> QED BY <2>1, <2>3 DEF Span
<1> HIDE DEF B
<1> QED BY <1>2, <1>3 DEF DisjointSpans

LEMMA InvTiled == Inv => CoveredOnce
<1> SUFFICES ASSUME NEW N, Good(N) PROVE CoveredOnce
  BY DEF Inv
<1> DEFINE B == Blocks(inUse, N)
           lo == left + Header
           at(c) == {<<c, i, Ring(c)[i]>> : i \in DOMAIN Ring(c)}
           nodes == UNION {at(c) : c \in CPU}
           used == {<<NULL, 0, a>> : a \in {b \in Addr : inUse[b] # 0}}
           blocks == nodes \cup used
           span(x) == Span(x[3], size[x[3]])
<1>1. Tiles(B, size, lo) /\ Fits(size, inUse, N) /\ Rings(next, N)
  BY DEF Good, Shape
<1>3. /\ UNION {Span(a, size[a]) : a \in B} = lo .. Heap - 1
      /\ \A a, b \in B : a # b => Span(a, size[a]) \cap Span(b, size[b]) = {}
  <2> HIDE DEF B, lo
  <2> QED BY <1>1, NoUnitTwice
<1>4. ASSUME NEW c \in CPU
      PROVE  /\ N[c] = Members(Ring(c)) /\ DOMAIN Ring(c) = 1 .. Len(Ring(c))
             /\ \A i, j \in 1 .. Len(Ring(c)) : Ring(c)[i] = Ring(c)[j] => i = j
  <2>1. Linked(next, c, N[c]) /\ Ring(c) = RingOf(next, c)
    BY <1>1 DEF Rings, Ring
  <2> QED BY <2>1, RingHas DEF Chain
<1>5. ASSUME NEW x \in nodes
      PROVE  \E c \in CPU, i \in Nat : i \in DOMAIN Ring(c) /\ x = <<c, i, Ring(c)[i]>> /\ Ring(c)[i] \in N[c]
  <2>1. PICK c \in CPU : x \in at(c)
    OBVIOUS
  <2>2. PICK i \in DOMAIN Ring(c) : x = <<c, i, Ring(c)[i]>>
    BY <2>1
  <2>3. Ring(c)[i] \in N[c]
    BY <1>4, <2>2 DEF Members
  <2>4. i \in Nat
    BY <1>4, <2>2
  <2> QED BY <2>2, <2>3, <2>4
<1>6. ASSUME NEW x \in blocks PROVE x[3] \in B
  <2>1. CASE x \in nodes
    <3>1. PICK c \in CPU, i \in Nat : i \in DOMAIN Ring(c) /\ x = <<c, i, Ring(c)[i]>> /\ Ring(c)[i] \in N[c]
      BY <1>5, <2>1
    <3> QED BY <1>1, <3>1 DEF Blocks, Nodes, Rings
  <2>2. CASE x \in used
    BY <2>2 DEF Blocks
  <2> QED BY <2>1, <2>2
<1>7. ASSUME NEW a \in B PROVE \E x \in blocks : x[3] = a
  <2>1. CASE a \in Nodes(N)
    <3>1. PICK c \in CPU : a \in N[c]
      BY <2>1 DEF Nodes
    <3>2. PICK i \in DOMAIN Ring(c) : Ring(c)[i] = a
      BY <1>4, <3>1 DEF Members
    <3>3. <<c, i, Ring(c)[i]>> \in blocks
      OBVIOUS
    <3> QED BY <3>2, <3>3
  <2>2. CASE inUse[a] # 0
    <3>1. a \in Addr /\ <<NULL, 0, a>> \in used
      BY <1>1, <2>2 DEF Tiles
    <3>2. <<NULL, 0, a>> \in blocks /\ <<NULL, 0, a>>[3] = a
      BY <3>1
    <3> QED BY <3>2
  <2> QED BY <2>1, <2>2 DEF Blocks
<1>8. ASSUME NEW x \in blocks, NEW y \in blocks, x # y PROVE x[3] # y[3]
  <2>1. CASE x \in nodes /\ y \in nodes
    <3>1. PICK c \in CPU, i \in Nat : i \in DOMAIN Ring(c) /\ x = <<c, i, Ring(c)[i]>> /\ Ring(c)[i] \in N[c]
      BY <1>5, <2>1
    <3>2. PICK d \in CPU, j \in Nat : j \in DOMAIN Ring(d) /\ y = <<d, j, Ring(d)[j]>> /\ Ring(d)[j] \in N[d]
      BY <1>5, <2>1
    <3>3. CASE c = d
      BY <1>4, <1>8, <3>1, <3>2, <3>3
    <3>4. CASE c # d
      BY <1>1, <3>1, <3>2, <3>4 DEF Rings
    <3> QED BY <3>3, <3>4
  <2>2. ASSUME NEW v \in nodes, NEW w \in used PROVE v[3] # w[3]
    <3>1. PICK c \in CPU, i \in Nat : i \in DOMAIN Ring(c) /\ v = <<c, i, Ring(c)[i]>> /\ Ring(c)[i] \in N[c]
      BY <1>5
    <3>2. inUse[v[3]] = 0 /\ inUse[w[3]] # 0
      BY <1>1, <3>1 DEF Fits, Nodes, Rings
    <3> QED BY <3>2
  <2>3. CASE x \in used /\ y \in used
    BY <1>8, <2>3
  <2> QED BY <2>1, <2>2, <2>3
<1> HIDE DEF blocks, B
<1>9. UNION {span(x) : x \in blocks} = UNION {Span(a, size[a]) : a \in B}
  BY <1>6, <1>7
<1>10. \A x, y \in blocks : x # y => span(x) \cap span(y) = {}
  BY <1>3, <1>6, <1>8
<1> QED BY <1>3, <1>9, <1>10 DEF CoveredOnce, blocks

\* A ring that has changed under a kfree stays so.
LEMMA RacedStays ==
  /\ raced \in BOOLEAN /\ [Next]_vars => raced' \in BOOLEAN
  /\ raced /\ [Next]_vars => raced'
BY DEF Next, vars, Kalloc, KfreeFind, KfreeLink

\* The inductive invariant holds until a ring changes under a kfree.
LEMMA Safe == Spec => [](raced \in BOOLEAN /\ (raced \/ Inv))
<1> DEFINE Until == raced \in BOOLEAN /\ (raced \/ Inv)
<1>1. Init => Until
  BY InitGood DEF Init
<1>2. Until /\ [Next]_vars => Until'
  BY NextGood, RacedStays
<1> QED BY <1>1, <1>2, PTL DEF Spec

\* Until a ring changes in the middle of a kfree to it (which runs with interrupts on), what
\* kalloc hands out is handed out once, and is neither free memory nor what is left of the
\* heap (kalloc, kfree_real).
THEOREM NoOverlapHolds == Spec => []NoOverlap
<1>1. raced \/ Inv => NoOverlap
  BY InvNoOverlap DEF NoOverlap
<1> QED BY <1>1, Safe, PTL

\* Until then splitting, joining and freeing to another CPU's list lose no unit and count
\* none twice.
THEOREM TiledHolds == Spec => []Tiled
<1>1. raced \in BOOLEAN /\ (raced \/ Inv) => Tiled
  BY InvTiled, InvTypeOK DEF Tiled
<1> QED BY <1>1, Safe, PTL
=============================================================================
