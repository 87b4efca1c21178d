----------------------------- MODULE ShellProofs -----------------------------
(***************************************************************************)
(* Theorems of Shell, for every line and every tree: the parts of a list run *)
(* in order, at the prompt only background commands are left, and, while     *)
(* tables have room, every command has the files its place in the line says. *)
(***************************************************************************)
EXTENDS Shell, FiniteSetTheorems, WellFoundedInduction, TLAPS

Path == Seq({1, 2})
Below(p, q) == Prefix(p, q) /\ p # q

-----------------------------------------------------------------------------
(* Paths                                                                       *)

LEMMA PrefixIs ==
  ASSUME NEW p \in Path, NEW q \in Path
  PROVE  Prefix(p, q) <=> Len(p) <= Len(q) /\ \A i \in 1 .. Len(p) : p[i] = q[i]
<1>1. ASSUME Len(p) <= Len(q) PROVE SubSeq(q, 1, Len(p)) = p <=> \A i \in 1 .. Len(p) : p[i] = q[i]
  <2> DEFINE n == Len(p)
             s == SubSeq(q, 1, n)
  <2>1. n \in Nat /\ s \in Path /\ Len(s) = n /\ \A i \in 1 .. n : s[i] = q[i]
    BY <1>1 DEF Path
  <2> HIDE DEF s
  <2>2. s = p <=> \A i \in 1 .. n : p[i] = s[i]
    BY <2>1 DEF Path
  <2> QED BY <2>1, <2>2 DEF s
<1> QED BY <1>1 DEF Prefix

LEMMA SonType == ASSUME NEW p \in Path, NEW i \in {1, 2} PROVE Append(p, i) \in Path
BY DEF Path

LEMMA PrefixOrder ==
  ASSUME NEW p \in Path, NEW q \in Path, NEW r \in Path
  PROVE  /\ Prefix(p, p)
         /\ Prefix(p, q) /\ Prefix(q, r) => Prefix(p, r)
         /\ Prefix(p, q) /\ Prefix(q, p) => p = q
         /\ Prefix(p, r) /\ Prefix(q, r) => Prefix(p, q) \/ Prefix(q, p)
         /\ Prefix(<<>>, p)
<1>0. Len(p) \in Nat /\ Len(q) \in Nat /\ Len(r) \in Nat
  BY DEF Path
<1>1. Prefix(p, p)
  BY <1>0, PrefixIs
<1>2. Prefix(p, q) /\ Prefix(q, r) => Prefix(p, r)
  BY <1>0, PrefixIs
<1>3. Prefix(p, q) /\ Prefix(q, p) => p = q
  <2> SUFFICES ASSUME Prefix(p, q), Prefix(q, p) PROVE p = q
    OBVIOUS
  <2>1. Len(p) = Len(q) /\ \A i \in 1 .. Len(p) : p[i] = q[i]
    BY <1>0, PrefixIs
  <2> QED BY <2>1 DEF Path
<1>4. Prefix(p, r) /\ Prefix(q, r) => Prefix(p, q) \/ Prefix(q, p)
  BY <1>0, PrefixIs
<1>5. Prefix(<<>>, p)
  <2>1. <<>> \in Path /\ Len(<<>>) = 0
    BY DEF Path
  <2> QED BY <1>0, <2>1, PrefixIs
<1> QED BY <1>1, <1>2, <1>3, <1>4, <1>5

LEMMA SonOrder ==
  ASSUME NEW p \in Path, NEW q \in Path, NEW i \in {1, 2}
  PROVE  /\ Prefix(p, Append(q, i)) <=> Prefix(p, q) \/ p = Append(q, i)
         /\ ~Prefix(Append(p, i), p) /\ Append(p, i) # p
         /\ Below(p, q) => \E j \in {1, 2} : Prefix(Append(p, j), q)
         /\ Prefix(Append(p, i), q) => Below(p, q)
<1> DEFINE s == Append(q, i)
           t == Append(p, i)
<1>0. /\ Len(p) \in Nat /\ Len(q) \in Nat /\ s \in Path /\ t \in Path
      /\ Len(s) = Len(q) + 1 /\ s[Len(q) + 1] = i /\ \A k \in 1 .. Len(q) : s[k] = q[k]
      /\ Len(t) = Len(p) + 1 /\ t[Len(p) + 1] = i /\ \A k \in 1 .. Len(p) : t[k] = p[k]
  BY DEF Path
<1>1. Prefix(p, s) <=> Prefix(p, q) \/ p = s
  <2>1. CASE Len(p) <= Len(q)
    <3>1. p # s
      BY <1>0, <2>1
    <3> HIDE DEF s
    <3> QED BY <1>0, <2>1, <3>1, PrefixIs
  <2>2. CASE Len(p) = Len(q) + 1
    <3> HIDE DEF s
    <3>1. p = s <=> \A k \in 1 .. Len(p) : p[k] = s[k]
      BY <1>0, <2>2 DEF Path
    <3> QED BY <1>0, <2>2, <3>1, PrefixIs
  <2>3. CASE Len(p) > Len(q) + 1
    <3>1. p # s
      BY <1>0, <2>3
    <3> HIDE DEF s
    <3> QED BY <1>0, <2>3, <3>1, PrefixIs
  <2> QED BY <1>0, <2>1, <2>2, <2>3
<1>2. ~Prefix(t, p) /\ t # p
  <2> HIDE DEF t
  <2> QED BY <1>0, PrefixIs
<1>3. ASSUME Below(p, q) PROVE \E j \in {1, 2} : Prefix(Append(p, j), q)
  <2> DEFINE n == Len(p)
             j == q[n + 1]
             u == Append(p, j)
  <2>1. n <= Len(q) /\ \A k \in 1 .. n : p[k] = q[k]
    BY <1>3, PrefixIs DEF Below
  <2>2. n # Len(q)
    BY <1>3, <2>1 DEF Below, Path
  <2>3. n + 1 \in 1 .. Len(q) /\ j \in {1, 2}
    BY <1>0, <2>1, <2>2 DEF Path
  <2> HIDE DEF j
  <2>4. u \in Path /\ Len(u) = n + 1 /\ u[n + 1] = j /\ \A k \in 1 .. n : u[k] = p[k]
    BY <1>0, <2>3 DEF Path
  <2> HIDE DEF u
  <2>5. \A k \in 1 .. n + 1 : u[k] = q[k]
    BY <1>0, <2>1, <2>4 DEF j
  <2>6. Prefix(u, q)
    BY <1>0, <2>3, <2>4, <2>5, PrefixIs
  <2> QED BY <2>3, <2>6 DEF u
<1>4. Prefix(t, q) => Below(p, q)
  <2> SUFFICES ASSUME Prefix(t, q) PROVE Below(p, q)
    OBVIOUS
  <2> HIDE DEF t
  <2>1. Len(p) + 1 <= Len(q) /\ \A k \in 1 .. Len(p) + 1 : t[k] = q[k]
    BY <1>0, PrefixIs
  <2>2. \A k \in 1 .. Len(p) : p[k] = q[k]
    BY <1>0, <2>1
  <2> QED BY <1>0, <2>1, <2>2, PrefixIs DEF Below
<1> QED BY <1>1, <1>2, <1>3, <1>4

LEMMA SonsDiffer ==
  ASSUME NEW p \in Path, NEW q \in Path, NEW i \in {1, 2}, NEW j \in {1, 2}, Append(p, i) = Append(q, j)
  PROVE  p = q /\ i = j
BY DEF Path

LEMMA Cut ==
  ASSUME NEW q \in Path, NEW n \in 0 .. Len(q) - 1
  PROVE  LET p == SubSeq(q, 1, n)
         IN  p \in Path /\ q[n + 1] \in {1, 2} /\ Len(p) = n /\ Prefix(Append(p, q[n + 1]), q)
<1> DEFINE p == SubSeq(q, 1, n)
           j == q[n + 1]
           t == Append(p, j)
<1>1. n \in Nat /\ Len(q) \in Nat /\ n + 1 <= Len(q)
  BY DEF Path
<1>2. p \in Path /\ Len(p) = n /\ j \in {1, 2} /\ \A k \in 1 .. n : p[k] = q[k]
  BY <1>1 DEF Path
<1> HIDE DEF p, j
<1>3. t \in Path /\ Len(t) = n + 1 /\ t[n + 1] = j /\ \A k \in 1 .. n : t[k] = p[k]
  BY <1>1, <1>2 DEF Path
<1> HIDE DEF t
<1>4. \A k \in 1 .. n + 1 : t[k] = q[k]
  BY <1>1, <1>2, <1>3 DEF j
<1>5. Prefix(t, q)
  BY <1>1, <1>3, <1>4, PrefixIs
<1> QED BY <1>2, <1>5 DEF p, j, t

-----------------------------------------------------------------------------
(* The tasks of a line and the nodes they are at: K has the types of the nodes,   *)
(* T what `at` and `pc` the tasks have.                                           *)

\* Behind, with the types of the nodes
Bg(K, p, q) == \E n \in Len(p) .. Len(q) - 1 : K[SubSeq(q, 1, n)] = "BACK"

Waiting == {"list", "right", "pipe"}
EndedIn(T, p) == p \in DOMAIN T /\ T[p].pc = "end"

TasksOf(T) ==
  /\ DOMAIN T \subseteq Path
  /\ \A s \in DOMAIN T : T[s].at \in Path /\ T[s].pc \in Pc

\* A task is at its node or below, and no other task stands in between.
PlaceOf(T) ==
  /\ \A s \in DOMAIN T : Prefix(s, T[s].at)
  /\ \A s, u \in DOMAIN T : ~(Below(s, u) /\ Prefix(u, T[s].at))

\* Nothing was created yet where a task has not been.
AheadOf(T) ==
  \A s, u \in DOMAIN T :
    /\ T[s].pc \in {"parse", "run"} => ~Below(T[s].at, u)
    /\ T[s].pc \in {"list", "right"} => ~Prefix(Append(T[s].at, 2), u)

KindOf(K, T) ==
  \A s \in DOMAIN T :
    /\ T[s].pc = "list" => K[T[s].at] = "LIST"
    /\ T[s].pc \in {"right", "pipe"} => K[T[s].at] = "PIPE"

\* Above a task that has not ended, up to an "&", every task waits, above it.
WaitOf(K, T) ==
  \A s, u \in DOMAIN T :
    Below(s, u) /\ ~Bg(K, s, u) /\ T[u].pc # "end" =>
      T[s].pc \in Waiting /\ Below(T[s].at, u)

\* Whoever is right of a ";" is there because the left part has ended.
LeftOf(K, T) ==
  \A s \in DOMAIN T : \A p \in Path :
    K[p] = "LIST" /\ Prefix(Append(p, 2), T[s].at) => EndedIn(T, Append(p, 1))

OrderOf(K, T) ==
  TasksOf(T) /\ PlaceOf(T) /\ AheadOf(T) /\ KindOf(K, T) /\ WaitOf(K, T) /\ LeftOf(K, T)

\* What is behind an "&" on the way down.
LEMMA BehindOrder ==
  ASSUME NEW K, NEW p \in Path, NEW q \in Path, NEW r \in Path, Prefix(p, q), Prefix(q, r)
  PROVE  /\ Bg(K, p, q) => Bg(K, p, r)
         /\ Bg(K, q, r) => Bg(K, p, r)
<1>0. Len(p) \in Nat /\ Len(q) \in Nat /\ Len(r) \in Nat
  BY DEF Path
<1>1. Len(p) <= Len(q) /\ Len(q) <= Len(r) /\ \A k \in 1 .. Len(q) : q[k] = r[k]
  BY PrefixIs
<1>2. ASSUME NEW n \in Len(p) .. Len(q) - 1 PROVE SubSeq(q, 1, n) = SubSeq(r, 1, n)
  <2> DEFINE u == SubSeq(q, 1, n)
             v == SubSeq(r, 1, n)
  <2>1. n \in Nat /\ n <= Len(q) /\ n <= Len(r)
    BY <1>0, <1>1
  <2>2. u \in Path /\ Len(u) = n /\ \A k \in 1 .. n : u[k] = q[k]
    BY <2>1 DEF Path
  <2>3. v \in Path /\ Len(v) = n /\ \A k \in 1 .. n : v[k] = r[k]
    BY <2>1 DEF Path
  <2> HIDE DEF u, v
  <2>4. \A k \in 1 .. n : u[k] = v[k]
    BY <1>0, <1>1, <2>1, <2>2, <2>3
  <2>5. u = v
    BY <2>2, <2>3, <2>4 DEF Path
  <2> QED BY <2>5 DEF u, v
<1>3. Bg(K, p, q) => Bg(K, p, r)
  <2> SUFFICES ASSUME NEW n \in Len(p) .. Len(q) - 1, K[SubSeq(q, 1, n)] = "BACK"
               PROVE  Bg(K, p, r)
    BY DEF Bg
  <2>1. n \in Len(p) .. Len(r) - 1
    BY <1>0, <1>1
  <2>2. K[SubSeq(r, 1, n)] = "BACK"
    BY <1>2
  <2> QED BY <2>1, <2>2 DEF Bg
<1>4. Bg(K, q, r) => Bg(K, p, r)
  <2>1. \A n \in Len(q) .. Len(r) - 1 : n \in Len(p) .. Len(r) - 1
    BY <1>0, <1>1
  <2> QED BY <2>1 DEF Bg
<1> QED BY <1>3, <1>4

LEMMA BehindSon ==
  ASSUME NEW K, NEW p \in Path, NEW q \in Path, NEW i \in {1, 2}, Prefix(p, q), K[q] = "BACK"
  PROVE  Bg(K, p, Append(q, i))
<1> DEFINE s == Append(q, i)
           n == Len(q)
           u == SubSeq(s, 1, n)
<1>1. n \in Nat /\ Len(p) \in Nat /\ Len(p) <= n
  BY PrefixIs DEF Path
<1>2. s \in Path /\ Len(s) = n + 1 /\ \A k \in 1 .. n : s[k] = q[k]
  BY DEF Path
<1> HIDE DEF s
<1>3. u \in Path /\ Len(u) = n /\ \A k \in 1 .. n : u[k] = s[k]
  BY <1>1, <1>2 DEF Path
<1> HIDE DEF u
<1>4. u = q
  <2>1. q \in Path /\ Len(q) = Len(u) /\ \A k \in 1 .. Len(u) : u[k] = q[k]
    BY <1>1, <1>2, <1>3
  <2> QED BY <1>3, <2>1 DEF Path
<1>5. n \in Len(p) .. Len(s) - 1
  BY <1>1, <1>2
<1> QED BY <1>4, <1>5 DEF Bg, u, s

\* A task below one that has ended has ended, or is behind an "&".
LEMMA BelowEnded ==
  ASSUME NEW K, NEW T, OrderOf(K, T), NEW s \in Path, NEW u \in DOMAIN T,
         EndedIn(T, s), Prefix(s, u), ~Bg(K, s, u)
  PROVE  T[u].pc = "end"
<1>1. CASE s = u
  BY <1>1 DEF EndedIn
<1>2. CASE s # u
  <2>1. Below(s, u) /\ s \in DOMAIN T /\ T[s].pc \notin Waiting
    BY <1>2 DEF Below, EndedIn, Waiting
  <2> QED BY <2>1 DEF OrderOf, WaitOf
<1> QED BY <1>1, <1>2

\* Two tasks that stand above one node: one is the other.
LEMMA OneAbove ==
  ASSUME NEW T, TasksOf(T), PlaceOf(T), NEW s \in DOMAIN T, NEW t \in DOMAIN T,
         Prefix(s, T[t].at), Prefix(t, T[s].at) \/ Prefix(T[t].at, T[s].at)
  PROVE  s = t
<1>1. s \in Path /\ t \in Path /\ T[s].at \in Path /\ T[t].at \in Path
  BY DEF TasksOf
<1>2. Prefix(s, T[s].at) /\ Prefix(t, T[t].at)
  BY DEF PlaceOf
<1>3. Prefix(t, T[s].at)
  BY <1>1, <1>2, PrefixOrder
<1>4. Prefix(s, t) \/ Prefix(t, s)
  BY <1>1, <1>2, PrefixOrder
<1> QED BY <1>3, <1>4 DEF PlaceOf, Below

\* A step in which one task only goes on to another pc.
LEMMA PlainStep ==
  ASSUME NEW K, NEW T, NEW U, NEW t \in DOMAIN T, OrderOf(K, T),
         DOMAIN U = DOMAIN T,
         \A s \in DOMAIN T : U[s].at = T[s].at,
         \A s \in DOMAIN T \ {t} : U[s].pc = T[s].pc,
         \/ T[t].pc = "parse" /\ U[t].pc \in {"run", "exit"}
         \/ T[t].pc \in {"run", "exec", "read", "exit"} /\ U[t].pc \in {"exec", "read", "exit", "end"}
         \/ T[t].pc = "pipe" /\ U[t].pc = "exit"
            /\ EndedIn(T, Append(T[t].at, 1)) /\ EndedIn(T, Append(T[t].at, 2))
  PROVE  OrderOf(K, U)
<1>1. TasksOf(U)
  BY DEF OrderOf, TasksOf, Pc
<1>2. PlaceOf(U)
  BY DEF OrderOf, PlaceOf
<1>3. AheadOf(U)
  <2> SUFFICES ASSUME NEW s \in DOMAIN T, NEW u \in DOMAIN T
               PROVE  /\ U[s].pc \in {"parse", "run"} => ~Below(U[s].at, u)
                      /\ U[s].pc \in {"list", "right"} => ~Prefix(Append(U[s].at, 2), u)
    BY DEF AheadOf
  <2> QED BY DEF OrderOf, AheadOf
<1>4. KindOf(K, U)
  BY DEF OrderOf, KindOf
<1>5. \A p : EndedIn(T, p) => EndedIn(U, p)
  BY DEF EndedIn
<1>6. WaitOf(K, U)
  <2> SUFFICES ASSUME NEW s \in DOMAIN T, NEW u \in DOMAIN T,
                      Below(s, u), ~Bg(K, s, u), U[u].pc # "end"
               PROVE  U[s].pc \in Waiting /\ Below(U[s].at, u)
    BY DEF WaitOf
  <2>1. T[u].pc # "end"
    BY DEF EndedIn
  <2>2. T[s].pc \in Waiting /\ Below(T[s].at, u)
    BY <2>1 DEF OrderOf, WaitOf
  <2>3. ASSUME s = t, T[t].pc = "pipe" PROVE FALSE
    <3>1. s \in Path /\ u \in Path /\ T[s].at \in Path /\ Prefix(s, T[s].at)
      BY DEF OrderOf, TasksOf, PlaceOf
    <3>2. PICK j \in {1, 2} : Prefix(Append(T[s].at, j), u)
      BY <2>2, <3>1, SonOrder
    <3> DEFINE a == Append(T[s].at, j)
    <3>3. a \in Path /\ Prefix(s, a)
      BY <3>1, SonType, SonOrder
    <3>4. ~Bg(K, a, u)
      BY <3>1, <3>2, <3>3, BehindOrder
    <3>5. EndedIn(T, a)
      BY <2>3 DEF Pc
    <3> QED BY <2>1, <3>2, <3>3, <3>4, <3>5, BelowEnded
  <2>4. s # t
    BY <2>2, <2>3 DEF Waiting
  <2> QED BY <2>2, <2>4
<1>7. LeftOf(K, U)
  BY <1>5 DEF OrderOf, LeftOf
<1> QED BY <1>1, <1>2, <1>3, <1>4, <1>6, <1>7 DEF OrderOf

\* A step in which a task goes on to a son of its node: the node of a redirection, or
\* the right part of a list whose left part has ended.
LEMMA MoveStep ==
  ASSUME NEW K, NEW T, NEW U, NEW t \in DOMAIN T, NEW i \in {1, 2}, OrderOf(K, T),
         DOMAIN U = DOMAIN T,
         \A s \in DOMAIN T \ {t} : U[s].at = T[s].at /\ U[s].pc = T[s].pc,
         U[t].at = Append(T[t].at, i), U[t].pc = "run",
         \/ T[t].pc = "run" /\ i = 1
         \/ T[t].pc = "list" /\ i = 2 /\ EndedIn(T, Append(T[t].at, 1))
  PROVE  OrderOf(K, U)
<1> DEFINE at == T[t].at
           son == Append(at, i)
<1>0. /\ \A s \in DOMAIN T : s \in Path /\ T[s].at \in Path /\ Prefix(s, T[s].at)
      /\ at \in Path /\ son \in Path /\ Prefix(at, son) /\ Prefix(t, son) /\ Prefix(son, son)
  <2>1. \A s \in DOMAIN T : s \in Path /\ T[s].at \in Path /\ Prefix(s, T[s].at)
    BY DEF OrderOf, TasksOf, PlaceOf
  <2>2. son \in Path
    BY <2>1, SonType
  <2>3. Prefix(at, at) /\ Prefix(son, son)
    BY <2>1, <2>2, PrefixOrder
  <2>4. Prefix(at, son)
    BY <2>1, <2>3, SonOrder
  <2> QED BY <2>1, <2>2, <2>3, <2>4, PrefixOrder
<1>1. TasksOf(U)
  BY <1>0 DEF OrderOf, TasksOf, Pc
<1>2. \A u \in DOMAIN T : ~Prefix(son, u)
  <2> SUFFICES ASSUME NEW u \in DOMAIN T, Prefix(son, u) PROVE FALSE
    OBVIOUS
  <2>1. Below(at, u)
    BY <1>0, SonOrder
  <2> QED BY <2>1 DEF OrderOf, AheadOf
<1>3. PlaceOf(U)
  <2> SUFFICES ASSUME NEW s \in DOMAIN T
               PROVE  /\ Prefix(s, U[s].at)
                      /\ \A u \in DOMAIN T : ~(Below(s, u) /\ Prefix(u, U[s].at))
    BY DEF PlaceOf
  <2>1. CASE s # t
    BY <1>0, <2>1 DEF OrderOf, PlaceOf
  <2>2. CASE s = t
    <3>1. Prefix(s, U[s].at)
      BY <1>0, <2>2
    <3>2. ASSUME NEW u \in DOMAIN T, Below(s, u), Prefix(u, son) PROVE FALSE
      <4>1. Prefix(u, at) \/ u = son
        BY <1>0, <3>2, SonOrder
      <4>2. u # son
        BY <1>0, <1>2
      <4> QED BY <2>2, <3>2, <4>1, <4>2 DEF OrderOf, PlaceOf
    <3> QED BY <2>2, <3>1, <3>2
  <2> QED BY <2>1, <2>2
<1>4. AheadOf(U)
  <2> SUFFICES ASSUME NEW s \in DOMAIN T, NEW u \in DOMAIN T
               PROVE  /\ U[s].pc \in {"parse", "run"} => ~Below(U[s].at, u)
                      /\ U[s].pc \in {"list", "right"} => ~Prefix(Append(U[s].at, 2), u)
    BY DEF AheadOf
  <2>1. CASE s # t
    BY <2>1 DEF OrderOf, AheadOf
  <2>2. CASE s = t
    BY <1>2, <2>2 DEF Below
  <2> QED BY <2>1, <2>2
<1>5. KindOf(K, U)
  BY DEF OrderOf, KindOf
<1>6. \A p : EndedIn(T, p) => EndedIn(U, p)
  BY DEF EndedIn
<1>7. WaitOf(K, U)
  <2> SUFFICES ASSUME NEW s \in DOMAIN T, NEW u \in DOMAIN T,
                      Below(s, u), ~Bg(K, s, u), U[u].pc # "end"
               PROVE  U[s].pc \in Waiting /\ Below(U[s].at, u)
    BY DEF WaitOf
  <2>1. T[u].pc # "end"
    BY <1>6 DEF EndedIn
  <2>2. T[s].pc \in Waiting /\ Below(T[s].at, u)
    BY <2>1 DEF OrderOf, WaitOf
  <2>3. ASSUME s = t PROVE FALSE
    <3>1. PICK j \in {1, 2} : Prefix(Append(at, j), u)
      BY <1>0, <2>2, <2>3, SonOrder
    <3> DEFINE a == Append(at, j)
    <3>2. i = 2 /\ j = 1
      BY <1>2, <2>2, <2>3, <3>1 DEF Waiting
    <3>3. a \in Path /\ Prefix(s, a)
      BY <1>0, <2>3, SonType, SonOrder
    <3>4. ~Bg(K, a, u)
      BY <1>0, <3>1, <3>3, BehindOrder
    <3>5. EndedIn(T, a)
      BY <3>2
    <3> QED BY <2>1, <3>1, <3>3, <3>4, <3>5, BelowEnded
  <2> QED BY <2>2, <2>3
<1>8. LeftOf(K, U)
  <2> SUFFICES ASSUME NEW s \in DOMAIN T, NEW p \in Path, K[p] = "LIST",
                      Prefix(Append(p, 2), U[s].at)
               PROVE  EndedIn(T, Append(p, 1))
    BY <1>6 DEF LeftOf
  <2>1. CASE s # t
    BY <2>1 DEF OrderOf, LeftOf
  <2>2. CASE s = t
    <3>1. Prefix(Append(p, 2), at) \/ Append(p, 2) = son
      <4> DEFINE r == Append(p, 2)
      <4>1. r \in Path /\ Prefix(r, son)
        BY <2>2, SonType
      <4> HIDE DEF r, at
      <4>2. Prefix(r, at) \/ r = son
        BY <1>0, <4>1, SonOrder
      <4> QED BY <4>2 DEF r, at
    <3>2. CASE Append(p, 2) = son
      <4>1. p = at /\ i = 2
        BY <1>0, <3>2, SonsDiffer
      <4> QED BY <4>1
    <3> QED BY <2>2, <3>1, <3>2 DEF OrderOf, LeftOf
  <2> QED BY <2>1, <2>2
<1> QED BY <1>1, <1>3, <1>4, <1>5, <1>7, <1>8 DEF OrderOf

\* A step in which a task creates another, for a son of its node, and waits for it or
\* not.
Creating(type, pc) ==
  \/ type = "LIST" /\ pc = "list"
  \/ type = "BACK" /\ pc = "exit"
  \/ type = "PIPE" /\ pc = "right"

Forks(K, T, U, t, i, son) ==
  /\ son = Append(T[t].at, i)
  /\ DOMAIN U = DOMAIN T \cup {son} /\ U[son].at = son /\ U[son].pc = "run"
  /\ \A s \in DOMAIN T \ {son} : U[s].at = T[s].at
  /\ \A s \in DOMAIN T \ {t, son} : U[s].pc = T[s].pc
  /\ \/ T[t].pc = "run" /\ i = 1 /\ Creating(K[T[t].at], U[t].pc)
     \/ T[t].pc = "right" /\ i = 2 /\ U[t].pc = "pipe"

LEMMA ForkStep ==
  ASSUME NEW K, NEW T, NEW U, NEW t \in DOMAIN T, NEW i \in {1, 2}, NEW son,
         OrderOf(K, T), Forks(K, T, U, t, i, son)
  PROVE  OrderOf(K, U)
<1> USE DEF Forks
<1> DEFINE at == T[t].at
<1>0. /\ \A s \in DOMAIN T : s \in Path /\ T[s].at \in Path /\ Prefix(s, T[s].at)
      /\ at \in Path /\ son \in Path /\ Prefix(at, son) /\ Prefix(t, son) /\ Below(at, son)
      /\ Prefix(son, son)
  <2>1. \A s \in DOMAIN T : s \in Path /\ T[s].at \in Path /\ Prefix(s, T[s].at)
    BY DEF OrderOf, TasksOf, PlaceOf
  <2>2. son \in Path
    BY <2>1, SonType
  <2>3. Prefix(at, at) /\ Prefix(son, son)
    BY <2>1, <2>2, PrefixOrder
  <2>4. Prefix(at, son) /\ Below(at, son)
    BY <2>1, <2>3, SonOrder DEF Below
  <2> QED BY <2>1, <2>2, <2>3, <2>4, PrefixOrder
<1>1. \A u \in DOMAIN T : ~Prefix(son, u)
  <2> SUFFICES ASSUME NEW u \in DOMAIN T, Prefix(son, u) PROVE FALSE
    OBVIOUS
  <2>1. Below(at, u)
    BY <1>0, SonOrder
  <2> QED BY <2>1 DEF OrderOf, AheadOf
<1>2. son \notin DOMAIN T /\ t # son
  BY <1>0, <1>1
<1>3. /\ DOMAIN U = DOMAIN T \cup {son} /\ U[son].at = son /\ U[son].pc = "run"
      /\ \A s \in DOMAIN T : U[s].at = T[s].at
      /\ \A s \in DOMAIN T \ {t} : U[s].pc = T[s].pc
      /\ T[t].pc \notin {"end", "pipe", "list"} /\ U[t].pc \notin {"parse", "run", "end"}
  BY <1>2 DEF Creating
<1>4. K[at] = "PIPE" \/ T[t].pc = "run"
  BY DEF OrderOf, KindOf
<1>a. son = Append(at, i)
  OBVIOUS
<1>c. U[t].pc \in {"list", "exit", "right", "pipe"}
  BY DEF Creating
<1>d. \/ T[t].pc = "run" /\ i = 1 /\ Creating(K[at], U[t].pc)
      \/ T[t].pc = "right" /\ i = 2 /\ U[t].pc = "pipe"
  OBVIOUS
<1> HIDE DEF at, Forks
\* A task above the son is the task itself, or the task is below it.
<1>5. ASSUME NEW s \in DOMAIN T, s # t, Prefix(s, son)
      PROVE  Below(s, t) /\ ~Prefix(t, T[s].at) /\ ~Prefix(at, T[s].at)
  <2>1. Prefix(s, at)
    <3>1. s \in Path /\ s # son
      BY <1>0, <1>2
    <3> QED BY <1>0, <1>5, <3>1, SonOrder, <1>a
  <2>2. ~Prefix(t, T[s].at) /\ ~Prefix(at, T[s].at)
    BY <1>5, <2>1, OneAbove DEF OrderOf, at
  <2>3. Prefix(s, t) \/ Prefix(t, s)
    BY <1>0, <1>5, PrefixOrder
  <2>4. ~Prefix(t, s)
    BY <1>0, <2>2, PrefixOrder
  <2> QED BY <1>5, <2>2, <2>3, <2>4 DEF Below
<1>6. TasksOf(U)
  <2>1. U[t].pc \in Pc
    BY <1>c DEF Pc
  <2> QED BY <1>0, <1>3, <2>1 DEF OrderOf, TasksOf, Pc
<1>7. PlaceOf(U)
  <2>1. ASSUME NEW s \in DOMAIN U PROVE Prefix(s, U[s].at)
    <3>1. CASE s = son
      BY <1>0, <1>3, <3>1
    <3>2. CASE s # son
      BY <1>0, <1>3, <3>2
    <3> QED BY <3>1, <3>2
  <2>2. ASSUME NEW s \in DOMAIN U, NEW u \in DOMAIN U, Below(s, u), Prefix(u, U[s].at) PROVE FALSE
    <3>1. CASE s = son
      <4>1. u \in Path /\ Prefix(son, u) /\ Prefix(u, son) /\ son # u
        BY <1>0, <1>3, <2>2, <3>1 DEF Below
      <4> QED BY <1>0, <4>1, PrefixOrder
    <3>2. CASE s # son /\ u # son
      BY <1>3, <2>2, <3>2 DEF OrderOf, PlaceOf
    <3>3. CASE s # son /\ u = son
      <4>1. s \in DOMAIN T /\ Prefix(s, son) /\ Prefix(son, T[s].at)
        BY <1>3, <2>2, <3>3 DEF Below
      <4>2. CASE s = t
        BY <1>0, <4>1, <4>2, SonOrder, <1>a DEF at
      <4>3. CASE s # t
        BY <1>0, <1>5, <4>1, <4>3, PrefixOrder
      <4> QED BY <4>2, <4>3
    <3> QED BY <3>1, <3>2, <3>3
  <2> QED BY <2>1, <2>2 DEF PlaceOf
<1>8. AheadOf(U)
  <2>1. ASSUME NEW s \in DOMAIN U, NEW u \in DOMAIN U, U[s].pc \in {"parse", "run"}, Below(U[s].at, u)
        PROVE  FALSE
    <3>1. CASE s = son
      BY <1>1, <1>3, <2>1, <3>1 DEF Below
    <3>2. CASE s # son /\ u # son
      BY <1>3, <2>1, <3>2 DEF OrderOf, AheadOf
    <3>3. CASE s # son /\ u = son
      <4>1. s \in DOMAIN T /\ s # t /\ T[s].pc \in {"parse", "run"} /\ Below(T[s].at, son)
        BY <1>3, <2>1, <3>3
      <4>2. Prefix(s, T[s].at) /\ Prefix(s, son)
        BY <1>0, <4>1, PrefixOrder DEF Below
      <4>3. ~Prefix(t, T[s].at)
        BY <1>5, <4>1, <4>2
      <4>4. Prefix(T[s].at, t)
        BY <1>0, <4>1, <4>3, PrefixOrder DEF Below
      <4>5. Below(T[s].at, t)
        BY <1>0, <4>3, <4>4, PrefixOrder DEF Below
      <4> QED BY <4>1, <4>5 DEF OrderOf, AheadOf
    <3> QED BY <3>1, <3>2, <3>3
  <2>2. ASSUME NEW s \in DOMAIN U, NEW u \in DOMAIN U, U[s].pc \in {"list", "right"},
               Prefix(Append(U[s].at, 2), u)
        PROVE  FALSE
    <3> DEFINE r == Append(U[s].at, 2)
    <3>0. s # son
      BY <1>3, <2>2
    <3>1. s \in DOMAIN T /\ U[s].at = T[s].at /\ T[s].at \in Path /\ r \in Path
      BY <1>0, <1>3, <3>0, SonType
    <3>2. CASE s = t
      <4>1. T[t].pc = "run" /\ i = 1
        BY <1>c, <1>d, <1>3, <2>2, <3>2 DEF Creating
      <4>2. CASE u = son
        <5>1. Prefix(r, at) \/ r = son
          <6>1. Prefix(r, son)
            BY <2>2, <4>2
          <6> HIDE DEF r
          <6> QED BY <1>0, <3>1, <6>1, SonOrder, <1>a
        <5>2. ~Prefix(r, at)
          BY <1>0, <3>1, <3>2, SonOrder DEF at
        <5>3. r # son
          BY <1>0, <3>1, <3>2, <4>1, SonsDiffer, <1>a
        <5> QED BY <5>1, <5>2, <5>3
      <4>3. CASE u # son
        <5>1. u \in DOMAIN T /\ Below(at, u)
          BY <1>0, <1>3, <2>2, <3>1, <3>2, <4>3, SonOrder DEF at
        <5> QED BY <4>1, <5>1 DEF OrderOf, AheadOf, at
      <4> QED BY <4>2, <4>3
    <3>3. CASE s # t /\ u # son
      BY <1>3, <2>2, <3>1, <3>3 DEF OrderOf, AheadOf
    <3>4. CASE s # t /\ u = son
      <4>1. T[s].pc \in {"list", "right"} /\ Prefix(T[s].at, r)
        BY <1>0, <1>3, <2>2, <3>1, <3>4, PrefixOrder, SonOrder
      <4>2. Prefix(s, son) /\ Prefix(r, son)
        BY <1>0, <2>2, <3>1, <3>4, <4>1, PrefixOrder
      <4>3. ~Prefix(t, T[s].at) /\ ~Prefix(at, T[s].at)
        BY <1>5, <3>1, <3>4, <4>2
      <4>4. Prefix(r, t) \/ Prefix(t, r)
        BY <1>0, <3>1, <4>2, PrefixOrder
      <4>5. ~Prefix(r, t)
        BY <3>1, <4>1 DEF OrderOf, AheadOf
      <4>6. t = r
        BY <1>0, <3>1, <4>3, <4>4, <4>5, SonOrder
      <4> QED BY <1>0, <3>1, <4>5, <4>6, PrefixOrder
    <3> QED BY <3>2, <3>3, <3>4
  <2> QED BY <2>1, <2>2 DEF AheadOf
<1>9. KindOf(K, U)
  <2> SUFFICES ASSUME NEW s \in DOMAIN U
               PROVE  /\ U[s].pc = "list" => K[U[s].at] = "LIST"
                      /\ U[s].pc \in {"right", "pipe"} => K[U[s].at] = "PIPE"
    BY DEF KindOf
  <2>1. CASE s = t
    BY <1>d, <1>3, <1>4, <2>1 DEF at, Creating
  <2>2. CASE s # t
    BY <1>3, <2>2 DEF OrderOf, KindOf
  <2> QED BY <2>1, <2>2
<1>10. \A p : EndedIn(T, p) => EndedIn(U, p)
  BY <1>3 DEF EndedIn
<1>11. WaitOf(K, U)
  <2> SUFFICES ASSUME NEW s \in DOMAIN U, NEW u \in DOMAIN U,
                      Below(s, u), ~Bg(K, s, u), U[u].pc # "end"
               PROVE  U[s].pc \in Waiting /\ Below(U[s].at, u)
    BY DEF WaitOf
  <2>1. CASE s = son
    BY <1>0, <1>1, <1>3, <2>1, PrefixOrder DEF Below
  <2>2. CASE s # son /\ u # son
    <3>1. s \in DOMAIN T /\ u \in DOMAIN T /\ T[u].pc # "end"
      BY <1>3, <1>10, <2>2 DEF EndedIn
    <3>2. T[s].pc \in Waiting /\ Below(T[s].at, u)
      BY <3>1 DEF OrderOf, WaitOf
    <3>3. U[s].pc \in Waiting
      BY <1>d, <1>c, <1>3, <3>1, <3>2 DEF Waiting
    <3> QED BY <1>3, <3>1, <3>2, <3>3
  <2>3. CASE s = t /\ u = son
    <3>1. U[t].pc # "exit"
      <4>1. Prefix(t, at)
        BY <1>0 DEF at
      <4> QED BY <1>d, <1>0, <1>3, <2>3, <4>1, BehindSon, <1>a DEF at, Creating
    <3>2. U[t].pc \in Waiting
      BY <3>1, <1>c DEF Waiting, Creating
    <3>3. U[s].at = at
      BY <1>3, <2>3 DEF at
    <3> QED BY <1>0, <2>3, <3>2, <3>3
  <2>4. CASE s # t /\ s # son /\ u = son
    <3>1. s \in DOMAIN T /\ Prefix(s, son)
      BY <1>3, <2>4 DEF Below
    <3>2. Below(s, t)
      BY <1>5, <2>4, <3>1
    <3>3. ~Bg(K, s, t)
      BY <1>0, <2>4, <3>1, <3>2, BehindOrder DEF Below
    <3>4. T[s].pc \in Waiting /\ Below(T[s].at, t)
      BY <1>3, <3>1, <3>2, <3>3 DEF OrderOf, WaitOf
    <3>5. Below(T[s].at, son)
      BY <1>0, <3>1, <3>4, PrefixOrder DEF Below
    <3> QED BY <1>3, <2>4, <3>1, <3>4, <3>5
  <2> QED BY <2>1, <2>2, <2>3, <2>4
<1>12. LeftOf(K, U)
  <2> SUFFICES ASSUME NEW s \in DOMAIN U, NEW p \in Path, K[p] = "LIST",
                      Prefix(Append(p, 2), U[s].at)
               PROVE  EndedIn(T, Append(p, 1))
    BY <1>10 DEF LeftOf
  <2>1. CASE s # son
    BY <1>3, <2>1 DEF OrderOf, LeftOf
  <2>2. CASE s = son
    <3>1. Prefix(Append(p, 2), at) \/ Append(p, 2) = son
      <4> DEFINE r == Append(p, 2)
      <4>1. r \in Path
        BY SonType
      <4>2. Prefix(r, son)
        BY <1>3, <2>2
      <4> HIDE DEF r
      <4>3. Prefix(r, at) \/ r = son
        BY <1>0, <4>1, <4>2, SonOrder, <1>a
      <4> QED BY <4>3 DEF r
    <3>2. Append(p, 2) # son
      <4>1. SUFFICES ASSUME Append(p, 2) = son PROVE FALSE
        OBVIOUS
      <4>2. p = at /\ i = 2
        BY <1>0, <4>1, SonsDiffer, <1>a
      <4> QED BY <1>d, <1>4, <4>2 DEF at, Creating
    <3> QED BY <3>1, <3>2 DEF OrderOf, LeftOf, at
  <2> QED BY <2>1, <2>2
<1> QED BY <1>6, <1>7, <1>8, <1>9, <1>11, <1>12 DEF OrderOf

-----------------------------------------------------------------------------
(* The steps of Shell                                                          *)

\* The types of the nodes
Kind == [p \in Path |-> NodeAt(p).type]

File == {"none", "in", "out", "err", "file", "r", "w"} \X Path
Table == [Fd -> File]
Task == [at : Path, pc : Pc, fd : Table]

TaskType ==
  /\ DOMAIN task \subseteq Path
  /\ task \in [DOMAIN task -> Task]

Root ==
  /\ shell \in {"type", "wait", "prompt", "next"}
  /\ shell = "type" => DOMAIN task = {}
  /\ shell # "type" => <<>> \in DOMAIN task
  /\ shell \in {"prompt", "next"} => EndedIn(task, <<>>)

Late == \A p \in late : p \in Path /\ Bg(Kind, <<>>, p)

Ordered == TaskType /\ Root /\ OrderOf(Kind, task) /\ Late

LEMMA Files0 == /\ \A p \in Path : {Target(p), ReadEnd(p), WriteEnd(p)} \subseteq File
                /\ {None, In, Out, Err} \subseteq File /\ ShellFd \in Table
<1>1. <<>> \in Path
  BY DEF Path
<1>2. {None, In, Out, Err} \subseteq File
  BY <1>1 DEF None, In, Out, Err, File
<1>3. \A p \in Path : {Target(p), ReadEnd(p), WriteEnd(p)} \subseteq File
  BY DEF Target, ReadEnd, WriteEnd, File
<1>4. ShellFd \in Table
  BY <1>2 DEF ShellFd, Table, Fd
<1> QED BY <1>2, <1>3, <1>4

LEMMA KindSame == ASSUME tree' = tree PROVE Kind' = Kind
BY DEF Kind, NodeAt

LEMMA BehindIs ==
  ASSUME NEW p \in Path, NEW q \in Path PROVE Behind(p, q) <=> Bg(Kind, p, q)
<1>1. \A n \in Len(p) .. Len(q) - 1 : SubSeq(q, 1, n) \in Path
  <2> SUFFICES ASSUME NEW n \in Len(p) .. Len(q) - 1 PROVE SubSeq(q, 1, n) \in Path
    OBVIOUS
  <2>1. n \in Nat /\ n <= Len(q)
    BY DEF Path
  <2> QED BY <2>1 DEF Path
<1> QED BY <1>1 DEF Behind, Bg, Kind

LEMMA Parts ==
  ASSUME TaskType, NEW t \in DOMAIN task
  PROVE  /\ t \in Path /\ task[t].at \in Path /\ task[t].pc \in Pc /\ task[t].fd \in Table
         /\ \A c : [task EXCEPT ![t].pc = c] =
                     [task EXCEPT ![t] = [at |-> task[t].at, pc |-> c, fd |-> task[t].fd]]
BY DEF TaskType, Task

\* What a step does to the tasks: t changes
Goes(t, a, c, fd) ==
  /\ TaskType' /\ DOMAIN task' = DOMAIN task
  /\ task'[t] = [at |-> a, pc |-> c, fd |-> fd]
  /\ \A s \in DOMAIN task \ {t} : task'[s] = task[s]

\* ... or changes, and creates a son.
Makes(t, son, c, fd, fd2) ==
  /\ TaskType' /\ DOMAIN task' = DOMAIN task \cup {son} /\ son \notin DOMAIN task
  /\ task'[t] = [at |-> task[t].at, pc |-> c, fd |-> fd]
  /\ task'[son] = [at |-> son, pc |-> "run", fd |-> fd2]
  /\ \A s \in DOMAIN task \ {t} : task'[s] = task[s]

LEMMA GoStep ==
  ASSUME TaskType, NEW t \in DOMAIN task, NEW a \in Path, NEW c \in Pc, NEW fd \in Table,
         task' = [task EXCEPT ![t] = [at |-> a, pc |-> c, fd |-> fd]]
  PROVE  Goes(t, a, c, fd)
BY DEF TaskType, Task, Goes

LEMMA MakeStep ==
  ASSUME Ordered, NEW t \in DOMAIN task, NEW i \in {1, 2},
         NEW c \in Pc, NEW fd \in Table, NEW fd2 \in Table,
         task' = With([task EXCEPT ![t] = [at |-> task[t].at, pc |-> c, fd |-> fd]],
                      Append(task[t].at, i), New(Append(task[t].at, i), fd2)),
         \/ task[t].pc = "run" /\ i = 1
         \/ task[t].pc = "right" /\ i = 2
  PROVE  Makes(t, Append(task[t].at, i), c, fd, fd2)
<1> DEFINE son == Append(task[t].at, i)
           v == [at |-> son, pc |-> "run", fd |-> fd2]
           o == [at |-> task[t].at, pc |-> c, fd |-> fd]
<1>1. t \in Path /\ task[t].at \in Path /\ son \in Path /\ Prefix(t, task[t].at)
  BY SonType DEF Ordered, OrderOf, TasksOf, PlaceOf
<1>2. son # t
  <2>1. ~Prefix(son, task[t].at)
    BY <1>1, SonOrder
  <2> QED BY <1>1, <2>1
<1>3. son \notin DOMAIN task
  <2>1. Below(task[t].at, son) /\ Prefix(son, son)
    BY <1>1, SonOrder, PrefixOrder DEF Below
  <2> QED BY <2>1 DEF Ordered, OrderOf, AheadOf
<1>4. task' = [s \in DOMAIN task \cup {son} |-> IF s = son THEN v ELSE IF s = t THEN o ELSE task[s]]
  BY DEF With, New, State, Ordered, TaskType
<1> HIDE DEF son
<1>5. v \in Task /\ o \in Task
  BY <1>1 DEF Task, Pc
<1> HIDE DEF v, o
<1>6. /\ DOMAIN task' = DOMAIN task \cup {son} /\ task'[t] = o /\ task'[son] = v
      /\ \A s \in DOMAIN task \ {t} : task'[s] = task[s]
      /\ task' \in [DOMAIN task' -> Task]
  BY <1>2, <1>3, <1>4, <1>5 DEF Ordered, TaskType
<1> QED BY <1>1, <1>3, <1>6 DEF TaskType, Ordered, Makes, son, v, o

LEMMA TablesType ==
  ASSUME NEW fd \in Table, NEW p \in Path
  PROVE  /\ \A x : \A f \in {None, Target(p), ReadEnd(p), WriteEnd(p)} : [fd EXCEPT ![x] = f] \in Table
         /\ LeftTable(fd, p) \in Table /\ RightTable(fd, p) \in Table
         /\ \A f \in File : Restored(fd, f) \in Table
<1>1. \A x : \A f \in File : [fd EXCEPT ![x] = f] \in Table
  BY DEF Table
<1>2. None \in File /\ Target(p) \in File /\ ReadEnd(p) \in File /\ WriteEnd(p) \in File
  BY Files0
<1>3. LeftTable(fd, p) \in Table
  <2> DEFINE r == PipeFds(fd)[1]
             a == [fd EXCEPT ![r] = ReadEnd(p)]
  <2>1. a \in Table
    BY <1>1, <1>2
  <2>2. LeftTable(fd, p) = [a EXCEPT ![1] = WriteEnd(p)]
    BY DEF LeftTable
  <2> HIDE DEF a
  <2>3. [a EXCEPT ![1] = WriteEnd(p)] \in Table
    BY <1>2, <2>1 DEF Table
  <2> QED BY <2>2, <2>3
<1>4. RightTable(fd, p) \in Table
  BY <1>2 DEF RightTable, Table
<1>5. \A f \in File : Restored(fd, f) \in Table
  BY <1>1 DEF Restored
<1> QED BY <1>1, <1>2, <1>3, <1>4, <1>5

\* Root and Late go along with the tasks.
LEMMA Along ==
  ASSUME Root, Late, UNCHANGED <<tree, shell, late>>, DOMAIN task \subseteq DOMAIN task',
         \A p \in DOMAIN task : task[p].pc = "end" => task'[p].pc = "end",
         shell # "type" \/ DOMAIN task' = DOMAIN task
  PROVE  Root' /\ Late'
<1>1. Root'
  BY DEF Root, EndedIn
<1>2. Late'
  BY KindSame DEF Late
<1> QED BY <1>1, <1>2


LEMMA PlainSteps ==
  ASSUME Ordered, NEW t \in DOMAIN task, UNCHANGED <<tree, shell>>, NEW c, NEW fd,
         Goes(t, task[t].at, c, fd),
         \/ task[t].pc = "parse" /\ c \in {"run", "exit"}
         \/ task[t].pc \in {"run", "exec", "read", "exit"} /\ c \in {"exec", "read", "exit", "end"}
         \/ task[t].pc = "pipe" /\ c = "exit"
            /\ EndedIn(task, Append(task[t].at, 1)) /\ EndedIn(task, Append(task[t].at, 2))
  PROVE  TaskType' /\ OrderOf(Kind, task)' /\ (late' = late => Ordered') /\ Root'
<1> USE DEF Ordered
<1>2. /\ TaskType' /\ DOMAIN task' = DOMAIN task
      /\ task'[t].at = task[t].at /\ task'[t].pc = c
      /\ \A s \in DOMAIN task \ {t} : task'[s] = task[s]
  BY DEF Goes
<1>3. OrderOf(Kind, task')
  BY <1>2, PlainStep
<1>4. OrderOf(Kind, task)'
  BY <1>3, KindSame
<1>5. Root'
  BY <1>2 DEF Root, EndedIn
<1>6. ASSUME late' = late PROVE Late'
  BY <1>6, KindSame DEF Late
<1> QED BY <1>2, <1>4, <1>5, <1>6

LEMMA MoveSteps ==
  ASSUME Ordered, NEW t \in DOMAIN task, UNCHANGED <<tree, shell, late>>, NEW i \in {1, 2}, NEW fd,
         Goes(t, Append(task[t].at, i), "run", fd),
         \/ task[t].pc = "run" /\ i = 1
         \/ task[t].pc = "list" /\ i = 2 /\ EndedIn(task, Append(task[t].at, 1))
  PROVE  Ordered'
<1> USE DEF Ordered
<1>2. /\ TaskType' /\ DOMAIN task' = DOMAIN task
      /\ task'[t].at = Append(task[t].at, i) /\ task'[t].pc = "run"
      /\ \A s \in DOMAIN task \ {t} : task'[s] = task[s]
  BY DEF Goes
<1>3. OrderOf(Kind, task')
  BY <1>2, MoveStep
<1>4. OrderOf(Kind, task)'
  BY <1>3, KindSame
<1>5. Root' /\ Late'
  BY <1>2, Along
<1> QED BY <1>2, <1>4, <1>5

LEMMA ForkSteps ==
  ASSUME Ordered, NEW t \in DOMAIN task, UNCHANGED <<tree, shell, late>>, NEW i \in {1, 2},
         NEW c, NEW fd, NEW fd2, Makes(t, Append(task[t].at, i), c, fd, fd2),
         \/ task[t].pc = "run" /\ i = 1 /\ Creating(At(t).type, c)
         \/ task[t].pc = "right" /\ i = 2 /\ c = "pipe"
  PROVE  Ordered'
<1> USE DEF Ordered
<1> DEFINE son == Append(task[t].at, i)
<1>1. Kind[task[t].at] = At(t).type
  BY Parts DEF Kind, At
<1>2. /\ TaskType' /\ DOMAIN task' = DOMAIN task \cup {son} /\ son \notin DOMAIN task
      /\ task'[t] = [at |-> task[t].at, pc |-> c, fd |-> fd]
      /\ task'[son] = [at |-> son, pc |-> "run", fd |-> fd2]
      /\ \A s \in DOMAIN task \ {t} : task'[s] = task[s]
  BY DEF Makes
<1>3. son = Append(task[t].at, i)
  OBVIOUS
<1> HIDE DEF son
<1>4. /\ task'[t].at = task[t].at /\ task'[t].pc = c
      /\ task'[son].at = son /\ task'[son].pc = "run"
      /\ \A s \in DOMAIN task \ {son} : task'[s].at = task[s].at
      /\ \A s \in DOMAIN task \ {t, son} : task'[s].pc = task[s].pc
  <2>1. \A s \in DOMAIN task \ {son} : task'[s].at = task[s].at
    <3> SUFFICES ASSUME NEW s \in DOMAIN task \ {son} PROVE task'[s].at = task[s].at
      OBVIOUS
    <3>1. CASE s = t
      BY <1>2, <3>1
    <3>2. CASE s # t
      BY <1>2, <3>2
    <3> QED BY <3>1, <3>2
  <2> QED BY <1>2, <2>1
<1>5. OrderOf(Kind, task')
  <2>1. OrderOf(Kind, task)
    OBVIOUS
  <2>2. \/ task[t].pc = "run" /\ i = 1 /\ Creating(Kind[task[t].at], task'[t].pc)
        \/ task[t].pc = "right" /\ i = 2 /\ task'[t].pc = "pipe"
    BY <1>1, <1>4 DEF Creating
  <2>3. Forks(Kind, task, task', t, i, son)
    BY <1>2, <1>3, <1>4, <2>2 DEF Forks
  <2> QED BY <2>1, <2>3, ForkStep
<1>6. OrderOf(Kind, task)'
  BY <1>5, KindSame
<1>8. Root' /\ Late'
  <2>1. \A p \in DOMAIN task : task[p].pc = "end" => task'[p].pc = "end"
    BY <1>2
  <2>2. shell # "type"
    BY DEF Root
  <2> QED BY <1>2, <2>1, <2>2, Along
<1> QED BY <1>2, <1>6, <1>8

LEMMA Start == Init => Ordered
<1> SUFFICES ASSUME Init PROVE Ordered
  OBVIOUS
<1>1. DOMAIN task = {} /\ task \in [DOMAIN task -> Task]
  BY DEF Init
<1>2. TaskType /\ Root
  BY <1>1 DEF Init, TaskType, Root
<1>3. OrderOf(Kind, task)
  BY <1>1 DEF OrderOf, TasksOf, PlaceOf, AheadOf, KindOf, WaitOf, LeftOf
<1>4. Late
  BY DEF Init, Late
<1> QED BY <1>2, <1>3, <1>4 DEF Ordered


LEMMA EndedIs == \A p : Ended(p) <=> EndedIn(task, p)
BY DEF Ended, EndedIn

\* What each action does to the tasks
LEMMA GotoGoes ==
  ASSUME Ordered, NEW t \in DOMAIN task, NEW c \in Pc, Goto(t, c)
  PROVE  Goes(t, task[t].at, c, task[t].fd)
<1>1. /\ task[t].at \in Path /\ task[t].fd \in Table /\ TaskType
      /\ task' = [task EXCEPT ![t] = [at |-> task[t].at, pc |-> c, fd |-> task[t].fd]]
  BY Parts DEF Ordered, Goto
<1> QED BY <1>1, GoStep

Emptied == [i \in Fd |-> None]

LEMMA ExitGoes ==
  ASSUME Ordered, NEW t \in DOMAIN task, Exit(t)
  PROVE  Goes(t, task[t].at, "end", Emptied)
<1>1. Emptied \in Table /\ "end" \in Pc
  BY Files0 DEF Emptied, Table, Pc
<1>2. task' = [task EXCEPT ![t] = [at |-> task[t].at, pc |-> "end", fd |-> Emptied]]
  BY DEF Exit, State, Emptied
<1>3. TaskType /\ task[t].at \in Path
  BY Parts DEF Ordered
<1> QED BY <1>1, <1>2, <1>3, GoStep

LEMMA ListRightGoes ==
  ASSUME Ordered, NEW t \in DOMAIN task, ListRight(t)
  PROVE  Goes(t, Append(task[t].at, 2), "run", task[t].fd)
<1>1. "run" \in Pc /\ TaskType /\ task[t].fd \in Table /\ Append(task[t].at, 2) \in Path
  BY Parts, SonType DEF Ordered, Pc
<1>2. task' = [task EXCEPT ![t] = [at |-> Append(task[t].at, 2), pc |-> "run", fd |-> task[t].fd]]
  BY DEF ListRight, State
<1> QED BY <1>1, <1>2, GoStep

Cleared(t) == [task[t].fd EXCEPT ![At(t).fd] = None]
Redirected(t) == [Cleared(t) EXCEPT ![NewFd(Cleared(t))] = Target(task[t].at)]

LEMMA RedirGoes ==
  ASSUME Ordered, NEW t \in DOMAIN task, RunRedir(t)
  PROVE  \/ /\ Goes(t, task[t].at, "exit", Cleared(t))
            /\ Closes({task[t].fd[At(t).fd]})
         \/ /\ Goes(t, Append(task[t].at, 1), "run", Redirected(t))
            /\ NewFd(Cleared(t)) = At(t).fd
            /\ LET g == task[t].fd[At(t).fd]
                   f == Target(task[t].at)
               IN  /\ refcnt' = With([h \in DOMAIN refcnt |->
                                        IF h = g THEN refcnt[h] - 1 ELSE refcnt[h]], f, 1)
                   /\ DOMAIN open' = DOMAIN open
<1>1. task[t].at \in Path /\ task[t].fd \in Table /\ TaskType /\ {"exit", "run"} \subseteq Pc
  BY Parts DEF Ordered, Pc
<1>2. Cleared(t) \in Table
  BY <1>1, TablesType DEF Cleared
<1> DEFINE fd == Cleared(t)
           fd2 == [fd EXCEPT ![NewFd(fd)] = Target(task[t].at)]
<1>3. fd2 \in Table
  <2> HIDE DEF fd
  <2> QED BY <1>1, <1>2, TablesType DEF fd
<1>4. \/ /\ task' = [task EXCEPT ![t] = [at |-> task[t].at, pc |-> "exit", fd |-> fd]]
         /\ Closes({task[t].fd[At(t).fd]})
      \/ /\ task' = [task EXCEPT ![t] = [at |-> Append(task[t].at, 1), pc |-> "run", fd |-> fd2]]
         /\ NewFd(fd) = At(t).fd
         /\ LET g == task[t].fd[At(t).fd]
                f == Target(task[t].at)
            IN  /\ refcnt' = With([h \in DOMAIN refcnt |->
                                     IF h = g THEN refcnt[h] - 1 ELSE refcnt[h]], f, 1)
                /\ DOMAIN open' = DOMAIN open
  BY DEF RunRedir, State, Cleared
<1>5. Append(task[t].at, 1) \in Path
  BY <1>1, SonType
<1> HIDE DEF fd, fd2
<1>6. task' = [task EXCEPT ![t] = [at |-> task[t].at, pc |-> "exit", fd |-> fd]] =>
        Goes(t, task[t].at, "exit", fd)
  BY <1>1, <1>2, GoStep DEF fd
<1>7. task' = [task EXCEPT ![t] = [at |-> Append(task[t].at, 1), pc |-> "run", fd |-> fd2]] =>
        Goes(t, Append(task[t].at, 1), "run", fd2)
  BY <1>1, <1>3, <1>5, GoStep
<1> QED BY <1>4, <1>6, <1>7 DEF fd, fd2, Redirected

LEMMA CreatesMakes ==
  ASSUME Ordered, NEW t \in DOMAIN task, NEW c \in Pc, task[t].pc = "run", Creates(t, c)
  PROVE  Makes(t, Append(task[t].at, 1), c, task[t].fd, task[t].fd)
<1>1. task[t].fd \in Table
  BY Parts DEF Ordered
<1>2. task' = With([task EXCEPT ![t].pc = c], Append(task[t].at, 1),
                   New(Append(task[t].at, 1), task[t].fd))
  BY DEF Creates
<1>3. [task EXCEPT ![t].pc = c] = [task EXCEPT ![t] = [at |-> task[t].at, pc |-> c, fd |-> task[t].fd]]
  BY Parts DEF Ordered
<1> QED BY <1>1, <1>2, <1>3, MakeStep

LEMMA PipeMakes ==
  ASSUME Ordered, NEW t \in DOMAIN task, RunPipe(t)
  PROVE  LET fd == LeftTable(task[t].fd, task[t].at)
         IN  Makes(t, Append(task[t].at, 1), "right", Restored(fd, task[t].fd[1]), fd)
<1> DEFINE fd == LeftTable(task[t].fd, task[t].at)
           fd1 == Restored(fd, task[t].fd[1])
<1>1. fd \in Table /\ task[t].fd[1] \in File
  BY Parts, TablesType, ShellAssumption DEF Ordered, Table, Fd
<1>2. fd1 \in Table
  <2> HIDE DEF fd
  <2>1. <<>> \in Path
    BY DEF Path
  <2> QED BY <1>1, <2>1, TablesType
<1>3. /\ task[t].pc = "run" /\ "right" \in Pc
      /\ task' = With([task EXCEPT ![t] = [at |-> task[t].at, pc |-> "right", fd |-> fd1]],
                      Append(task[t].at, 1), New(Append(task[t].at, 1), fd))
  BY DEF RunPipe, Runs, State, Pc
<1> HIDE DEF fd, fd1
<1>4. Makes(t, Append(task[t].at, 1), "right", fd1, fd)
  BY <1>1, <1>2, <1>3, MakeStep
<1> QED BY <1>4 DEF fd, fd1

LEMMA RightMakes ==
  ASSUME Ordered, NEW t \in DOMAIN task, PipeRight(t)
  PROVE  LET fd == RightTable(task[t].fd, task[t].at)
         IN  Makes(t, Append(task[t].at, 2), "pipe", fd, fd)
<1> DEFINE fd == RightTable(task[t].fd, task[t].at)
<1>1. fd \in Table
  BY Parts, TablesType DEF Ordered
<1>2. /\ task[t].pc = "right" /\ "pipe" \in Pc
      /\ task' = With([task EXCEPT ![t] = [at |-> task[t].at, pc |-> "pipe", fd |-> fd]],
                      Append(task[t].at, 2), New(Append(task[t].at, 2), fd))
  BY DEF PipeRight, State, Pc
<1> HIDE DEF fd
<1>3. Makes(t, Append(task[t].at, 2), "pipe", fd, fd)
  BY <1>1, <1>2, MakeStep
<1> QED BY <1>3 DEF fd

Rooted == [at |-> <<>>, pc |-> "parse", fd |-> ShellFd]

LEMMA EnterMakes ==
  ASSUME Ordered, Enter
  PROVE  DOMAIN task = {} /\ TaskType' /\ DOMAIN task' = {<<>>} /\ task'[<<>>] = Rooted
<1>1. DOMAIN task = {} /\ <<>> \in Path /\ Rooted \in Task
  BY Files0 DEF Enter, Ordered, Root, Path, Task, Pc, Rooted
<1>2. task' = [y \in {<<>>} |-> Rooted]
  BY <1>1 DEF Enter, With, State, Rooted
<1> QED BY <1>1, <1>2 DEF TaskType

LEMMA Step == Ordered /\ [Next]_vars => Ordered'
<1> SUFFICES ASSUME Ordered, [Next]_vars PROVE Ordered'
  OBVIOUS
<1>0. TaskType /\ Root /\ OrderOf(Kind, task) /\ Late
  BY DEF Ordered
<1>1. CASE Enter
  <2>1. <<>> \in Path
    BY DEF Path
  <2>3. DOMAIN task' = {<<>>} /\ task'[<<>>] = Rooted /\ TaskType'
    BY <1>1, EnterMakes
  <2>5. Root'
    BY <1>1, <2>3 DEF Enter, Root
  <2>6. OrderOf(Kind, task')
    <3>1. Prefix(<<>>, <<>>) /\ \A i \in {1, 2} : ~Prefix(Append(<<>>, i), <<>>)
      BY <2>1, PrefixOrder, SonOrder
    <3>2. \A s \in DOMAIN task' : s = <<>> /\ task'[s].at = <<>> /\ task'[s].pc = "parse"
      BY <2>3 DEF Rooted
    <3>3. TasksOf(task') /\ PlaceOf(task') /\ AheadOf(task') /\ KindOf(Kind, task')
      BY <2>1, <2>3, <3>1, <3>2 DEF TasksOf, PlaceOf, AheadOf, KindOf, Below, Pc
    <3>4. WaitOf(Kind, task')
      BY <3>2 DEF WaitOf, Below
    <3>5. LeftOf(Kind, task')
      <4>1. \A p \in Path : ~Prefix(Append(p, 2), <<>>)
        <5> SUFFICES ASSUME NEW p \in Path, Prefix(Append(p, 2), <<>>) PROVE FALSE
          OBVIOUS
        <5>1. Below(p, <<>>) /\ Prefix(<<>>, p)
          BY <2>1, SonOrder, PrefixOrder
        <5> QED BY <2>1, <5>1, PrefixOrder DEF Below
      <4> QED BY <3>2, <4>1 DEF LeftOf
    <3> QED BY <3>3, <3>4, <3>5 DEF OrderOf
  <2>7. Late' /\ OrderOf(Kind, task)'
    BY <1>0, <1>1, <2>6, KindSame DEF Enter, Late
  <2> QED BY <2>3, <2>5, <2>7 DEF Ordered
<1>2. CASE Prompt \/ NextLine
  <2>1. UNCHANGED <<tree, task, late>>
    BY <1>2 DEF Prompt, NextLine
  <2>2. Kind' = Kind
    BY <2>1, KindSame
  <2>3. Root'
    BY <1>0, <1>2, <2>1, EndedIs DEF Prompt, NextLine, Root, EndedIn
  <2> QED BY <1>0, <2>1, <2>2, <2>3 DEF Ordered, TaskType, Late
<1>3. ASSUME NEW t \in DOMAIN task,
             Parse(t) \/ RunNothing(t) \/ ExecEnd(t) \/ ExecRead(t) \/ PipeEnd(t) \/ Exit(t)
      PROVE  Ordered'
  <2>2. UNCHANGED <<tree, shell, late>>
    BY <1>3 DEF Parse, RunNothing, ExecEnd, ExecRead, PipeEnd, Exit
  <2>3. CASE Parse(t)
    <3>1. PICK c \in {"run", "exit"} : Goto(t, c) /\ task[t].pc = "parse"
      BY <2>3 DEF Parse
    <3> QED BY <2>2, <3>1, GotoGoes, PlainSteps DEF Pc
  <2>4. CASE RunNothing(t) \/ ExecEnd(t)
    <3>1. Goto(t, "exit") /\ task[t].pc \in {"run", "exec"}
      BY <2>4 DEF RunNothing, ExecEnd, Runs
    <3> QED BY <2>2, <3>1, GotoGoes, PlainSteps DEF Pc
  <2>5. CASE ExecRead(t)
    <3>1. Goto(t, "exec") /\ task[t].pc = "read"
      BY <2>5 DEF ExecRead
    <3> QED BY <2>2, <3>1, GotoGoes, PlainSteps DEF Pc
  <2>6. CASE PipeEnd(t)
    <3>1. Goto(t, "exit") /\ task[t].pc = "pipe"
      BY <2>6 DEF PipeEnd
    <3>2. EndedIn(task, Append(task[t].at, 1)) /\ EndedIn(task, Append(task[t].at, 2))
      BY <2>6, EndedIs DEF PipeEnd
    <3> QED BY <2>2, <3>1, <3>2, GotoGoes, PlainSteps DEF Pc
  <2>7. CASE Exit(t)
    <3>1. task[t].pc = "exit"
      BY <2>7 DEF Exit
    <3> QED BY <2>2, <2>7, <3>1, ExitGoes, PlainSteps
  <2> QED BY <1>3, <2>3, <2>4, <2>5, <2>6, <2>7
<1>4. ASSUME NEW t \in DOMAIN task, RunExec(t) PROVE Ordered'
  <2>1. task[t].at \in Path
    BY <1>0, Parts
  <2>2. PICK c \in {"exec", "read"} : Goto(t, c)
    BY <1>4 DEF RunExec
  <2>3. UNCHANGED <<tree, shell>> /\ task[t].pc = "run" /\ c \in Pc
    BY <1>4 DEF RunExec, Runs, Pc
  <2>4. TaskType' /\ OrderOf(Kind, task)' /\ Root'
    BY <2>2, <2>3, GotoGoes, PlainSteps
  <2>5. ASSUME shell = "next" PROVE Bg(Kind, <<>>, task[t].at)
    <3>1. EndedIn(task, <<>>) /\ <<>> \in Path /\ t \in Path /\ Prefix(t, task[t].at) /\ Prefix(<<>>, t)
      BY <1>0, <2>5, PrefixOrder DEF Root, OrderOf, PlaceOf, TasksOf, Path
    <3>2. Bg(Kind, <<>>, t)
      BY <1>0, <2>3, <3>1, BelowEnded
    <3> QED BY <2>1, <3>1, <3>2, BehindOrder
  <2>6. Late'
    BY <1>0, <1>4, <2>1, <2>3, <2>5, KindSame DEF RunExec, Late
  <2> QED BY <2>4, <2>6 DEF Ordered
<1>5. ASSUME NEW t \in DOMAIN task, RunRedir(t) PROVE Ordered'
  <2>1. UNCHANGED <<tree, shell, late>> /\ task[t].pc = "run"
    BY <1>5 DEF RunRedir, Runs
  <2>2. PICK fd : \/ Goes(t, task[t].at, "exit", fd)
                  \/ Goes(t, Append(task[t].at, 1), "run", fd)
    BY <1>5, RedirGoes
  <2> QED BY <2>1, <2>2, PlainSteps, MoveSteps
<1>6. ASSUME NEW t \in DOMAIN task, ListRight(t) PROVE Ordered'
  <2>1. /\ UNCHANGED <<tree, shell, late>> /\ task[t].pc = "list"
        /\ EndedIn(task, Append(task[t].at, 1))
    BY <1>6, EndedIs DEF ListRight
  <2> QED BY <1>6, <2>1, ListRightGoes, MoveSteps
<1>8. ASSUME NEW t \in DOMAIN task, RunList(t) \/ RunBack(t) PROVE Ordered'
  <2>1. PICK c \in {"list", "exit"} :
          Creates(t, c) /\ task[t].pc = "run" /\ Creating(At(t).type, c)
    BY <1>8 DEF RunList, RunBack, Runs, Creating
  <2>2. UNCHANGED <<tree, shell, late>> /\ c \in Pc
    BY <2>1 DEF Creates, Pc
  <2> QED BY <2>1, <2>2, CreatesMakes, ForkSteps
<1>9. ASSUME NEW t \in DOMAIN task, RunPipe(t) PROVE Ordered'
  <2>1. /\ UNCHANGED <<tree, shell, late>> /\ task[t].pc = "run"
        /\ Creating(At(t).type, "right")
    BY <1>9 DEF RunPipe, Runs, Creating
  <2>2. PICK fd, fd2 : Makes(t, Append(task[t].at, 1), "right", fd, fd2)
    BY <1>9, PipeMakes
  <2> QED BY <2>1, <2>2, ForkSteps
<1>10. ASSUME NEW t \in DOMAIN task, PipeRight(t) PROVE Ordered'
  <2>1. UNCHANGED <<tree, shell, late>> /\ task[t].pc = "right"
    BY <1>10 DEF PipeRight
  <2>2. PICK fd : Makes(t, Append(task[t].at, 2), "pipe", fd, fd)
    BY <1>10, RightMakes
  <2> QED BY <2>1, <2>2, ForkSteps
<1>11. CASE UNCHANGED vars
  <2>1. UNCHANGED <<tree, task, shell, late>>
    BY <1>11 DEF vars
  <2>2. Kind' = Kind
    BY <2>1, KindSame
  <2> QED BY <1>0, <2>1, <2>2 DEF Ordered, TaskType, Root, Late
<1> QED BY <1>1, <1>2, <1>3, <1>4, <1>5, <1>6, <1>8, <1>9, <1>10, <1>11 DEF Next

\* The tasks of a line stand to each other as the line says.
THEOREM AlwaysOrdered == Spec => []Ordered
BY Start, Step, PTL DEF Spec

\* The part behind a ";" starts when the part before it has run, whatever it created.
THEOREM InOrderHolds == Spec => []InOrder
<1>1. Ordered => InOrder
  <2> SUFFICES ASSUME Ordered, NEW t \in DOMAIN task, NEW u \in DOMAIN task,
                      NEW n \in 0 .. Len(task[t].at) - 1,
                      NodeAt(SubSeq(task[t].at, 1, n)).type = "LIST", task[t].at[n + 1] = 2,
                      Prefix(Append(SubSeq(task[t].at, 1, n), 1), u),
                      ~Behind(SubSeq(task[t].at, 1, n), u)
               PROVE  task[u].pc = "end"
    BY DEF InOrder
  <2> DEFINE p == SubSeq(task[t].at, 1, n)
             a == Append(p, 1)
  <2>1. task[t].at \in Path /\ u \in Path
    BY DEF Ordered, OrderOf, TasksOf
  <2>2. p \in Path /\ Prefix(Append(p, 2), task[t].at)
    BY <2>1, Cut
  <2>3. Kind[p] = "LIST" /\ ~Bg(Kind, p, u) /\ Prefix(a, u)
    BY <2>1, <2>2, BehindIs DEF Kind
  <2> HIDE DEF p
  <2>4. EndedIn(task, a)
    BY <2>2, <2>3 DEF Ordered, OrderOf, LeftOf
  <2>5. a \in Path /\ Prefix(p, a)
    BY <2>2, SonType, SonOrder, PrefixOrder
  <2>6. ~Bg(Kind, a, u)
    BY <2>1, <2>2, <2>3, <2>5, BehindOrder
  <2> QED BY <2>3, <2>4, <2>5, <2>6, BelowEnded DEF Ordered
<1> QED BY <1>1, AlwaysOrdered, PTL

\* At the prompt only background commands run, and they alone can meet the next line.
THEOREM OnlyBackgroundLateHolds == Spec => []OnlyBackgroundLate
<1>1. Ordered => OnlyBackgroundLate
  <2> SUFFICES ASSUME Ordered PROVE OnlyBackgroundLate
    OBVIOUS
  <2>1. ASSUME shell \in {"prompt", "next"}, NEW t \in DOMAIN task, ~Behind(<<>>, t)
        PROVE  task[t].pc = "end"
    <3>1. EndedIn(task, <<>>) /\ t \in Path /\ <<>> \in Path
      BY <2>1 DEF Ordered, Root, OrderOf, TasksOf, Path
    <3>2. Prefix(<<>>, t) /\ ~Bg(Kind, <<>>, t)
      BY <2>1, <3>1, PrefixOrder, BehindIs
    <3> QED BY <3>1, <3>2, BelowEnded DEF Ordered
  <2>2. \A p \in late : Behind(<<>>, p)
    <3>1. <<>> \in Path
      BY DEF Path
    <3> QED BY <3>1, BehindIs DEF Ordered, Late
  <2> QED BY <2>1, <2>2 DEF OnlyBackgroundLate
<1> QED BY <1>1, AlwaysOrdered, PTL

-----------------------------------------------------------------------------
(* What flows down the tree                                                    *)

\* Induction over the naturals, for a set rather than for an operator.
LEMMA Induction ==
  ASSUME NEW T, 0 \in T, \A n \in Nat : n \in T => n + 1 \in T
  PROVE  \A n \in Nat : n \in T
<1> DEFINE R == OpToRel(<, Nat)
           U == {n \in Nat : n \notin T}
<1>1. IsWellFoundedOn(R, Nat)
  BY NatLessThanWellFounded
<1>2. \A i, j \in Nat : i < j => <<i, j>> \in R
  BY DEF OpToRel
<1> SUFFICES ASSUME U # {} PROVE FALSE
  OBVIOUS
<1> HIDE DEF R
<1>3. U \subseteq Nat
  OBVIOUS
<1>4. PICK x \in U : \A y \in U : <<y, x>> \notin R
  <2> HIDE DEF U
  <2> QED BY <1>1, <1>3, WFMin
<1>5. x \in Nat /\ x \notin T
  OBVIOUS
<1>6. x # 0
  BY <1>5
<1>7. x - 1 \in Nat /\ x - 1 < x /\ (x - 1) + 1 = x
  BY <1>5, <1>6
<1>8. <<x - 1, x>> \in R
  BY <1>2, <1>5, <1>7
<1>9. x - 1 \notin U
  BY <1>4, <1>8
<1>10. x - 1 \in T
  BY <1>7, <1>9
<1> QED BY <1>5, <1>7, <1>10

Flows(p, n, f) ==
  f = [k \in 0 .. n |-> IF k = 0 THEN <<In, Out>> ELSE Onward(SubSeq(p, 1, k - 1), p[k], f[k - 1])]

LEMMA FlowsExist == ASSUME NEW p, NEW n \in Nat PROVE \E f : Flows(p, n, f)
<1> DEFINE T == {k \in Nat : \E f : Flows(p, k, f)}
<1>1. 0 \in T
  <2>1. Flows(p, 0, [i \in 0 .. 0 |-> <<In, Out>>])
    BY DEF Flows
  <2> QED BY <2>1
<1>2. ASSUME NEW k \in Nat, k \in T PROVE k + 1 \in T
  <2>1. PICK f : Flows(p, k, f)
    BY <1>2
  <2> DEFINE e == Onward(SubSeq(p, 1, k), p[k + 1], f[k])
             g == [i \in 0 .. k + 1 |-> IF i = k + 1 THEN e ELSE f[i]]
  <2> HIDE DEF e
  <2>2. ASSUME NEW i \in 0 .. k + 1
        PROVE  g[i] = IF i = 0 THEN <<In, Out>> ELSE Onward(SubSeq(p, 1, i - 1), p[i], g[i - 1])
    <3>1. CASE i = k + 1
      <4>1. i - 1 = k /\ i # 0 /\ g[i] = e /\ g[k] = f[k]
        BY <3>1
      <4> HIDE DEF g
      <4> QED BY <3>1, <4>1 DEF e
    <3>2. CASE i # k + 1
      <4>1. i \in 0 .. k /\ g[i] = f[i] /\ (i # 0 => i - 1 \in 0 .. k /\ g[i - 1] = f[i - 1])
        BY <3>2
      <4> HIDE DEF g
      <4>2. f[i] = IF i = 0 THEN <<In, Out>> ELSE Onward(SubSeq(p, 1, i - 1), p[i], f[i - 1])
        BY <2>1, <4>1 DEF Flows
      <4> QED BY <4>1, <4>2
    <3> QED BY <3>1, <3>2
  <2>3. g = [i \in 0 .. k + 1 |-> g[i]]
    OBVIOUS
  <2> HIDE DEF g
  <2>4. Flows(p, k + 1, g)
    BY <2>2, <2>3 DEF Flows
  <2> QED BY <2>4
<1> HIDE DEF T
<1>3. \A k \in Nat : k \in T
  BY <1>1, <1>2, Induction
<1> QED BY <1>3 DEF T

LEMMA StreamsIs == ASSUME NEW p \in Path PROVE \E f : Flows(p, Len(p), f) /\ Streams(p) = f[Len(p)]
<1> DEFINE n == Len(p)
           h == CHOOSE f : Flows(p, n, f)
<1>1. n \in Nat
  BY DEF Path
<1> HIDE DEF n
<1>2. Flows(p, n, h)
  BY <1>1, FlowsExist
<1>3. Streams(p) = h[n]
  BY Zenon DEF Streams, h, Flows, n
<1> QED BY <1>2, <1>3 DEF n

LEMMA StreamsRoot == Streams(<<>>) = <<In, Out>>
<1>1. <<>> \in Path /\ Len(<<>>) = 0
  BY DEF Path
<1>2. PICK f : Flows(<<>>, 0, f) /\ Streams(<<>>) = f[0]
  BY <1>1, StreamsIs
<1> QED BY <1>2 DEF Flows

\* What a son reads and writes, from what its father does
LEMMA StreamsSon ==
  ASSUME NEW p \in Path, NEW i \in {1, 2}
  PROVE  Streams(Append(p, i)) = Onward(p, i, Streams(p))
<1> DEFINE q == Append(p, i)
           n == Len(p)
<1>1. q \in Path /\ n \in Nat /\ Len(q) = n + 1 /\ q[n + 1] = i /\ \A k \in 1 .. n : p[k] = q[k]
  BY DEF Path
<1> HIDE DEF q
<1>2. ASSUME NEW k \in 0 .. n PROVE SubSeq(q, 1, k) = SubSeq(p, 1, k)
  <2> DEFINE u == SubSeq(p, 1, k)
             v == SubSeq(q, 1, k)
  <2>1. k \in Nat /\ k <= n
    BY <1>1
  <2>2. u \in Path /\ Len(u) = k /\ \A j \in 1 .. k : u[j] = p[j]
    BY <2>1 DEF Path
  <2>3. v \in Path /\ Len(v) = k /\ \A j \in 1 .. k : v[j] = q[j]
    BY <1>1, <2>1 DEF Path
  <2> HIDE DEF u, v
  <2>4. \A j \in 1 .. k : u[j] = v[j]
    BY <1>1, <2>1, <2>2, <2>3
  <2>5. u = v
    BY <2>2, <2>3, <2>4 DEF Path
  <2> QED BY <2>5 DEF u, v
<1>3. SubSeq(p, 1, n) = p
  <2> DEFINE u == SubSeq(p, 1, n)
  <2>1. u \in Path /\ Len(u) = n /\ \A j \in 1 .. n : u[j] = p[j]
    BY <1>1 DEF Path
  <2> HIDE DEF u
  <2>2. u = p
    BY <2>1 DEF Path
  <2> QED BY <2>2 DEF u
<1>4. PICK f : Flows(p, n, f) /\ Streams(p) = f[n]
  BY StreamsIs
<1>5. PICK g : Flows(q, n + 1, g) /\ Streams(q) = g[n + 1]
  BY <1>1, StreamsIs
<1> HIDE DEF n
<1> DEFINE T == {k \in Nat : k <= n => f[k] = g[k]}
<1>6. \A k \in 0 .. n : f[k] = IF k = 0 THEN <<In, Out>> ELSE Onward(SubSeq(p, 1, k - 1), p[k], f[k - 1])
  BY <1>4 DEF Flows
<1>7. \A k \in 0 .. n + 1 : g[k] = IF k = 0 THEN <<In, Out>> ELSE Onward(SubSeq(q, 1, k - 1), q[k], g[k - 1])
  BY <1>5 DEF Flows
<1>8. 0 \in T
  BY <1>1, <1>6, <1>7
<1>9. ASSUME NEW k \in Nat, k \in T PROVE k + 1 \in T
  <2> SUFFICES ASSUME k + 1 <= n PROVE f[k + 1] = g[k + 1]
    OBVIOUS
  <2>1. /\ f[k] = g[k] /\ p[k + 1] = q[k + 1] /\ SubSeq(q, 1, k) = SubSeq(p, 1, k)
        /\ k + 1 \in 0 .. n /\ k + 1 \in 0 .. n + 1 /\ k + 1 # 0 /\ (k + 1) - 1 = k
    BY <1>1, <1>2, <1>9
  <2>2. /\ f[k + 1] = Onward(SubSeq(p, 1, k), p[k + 1], f[k])
        /\ g[k + 1] = Onward(SubSeq(q, 1, k), q[k + 1], g[k])
    BY <1>6, <1>7, <2>1
  <2> QED BY <2>1, <2>2
<1> HIDE DEF T
<1>10. \A k \in Nat : k \in T
  BY <1>8, <1>9, Induction
<1>11. f[n] = g[n]
  BY <1>1, <1>10 DEF T
<1>12. g[n + 1] = Onward(SubSeq(q, 1, n), q[n + 1], g[n])
  <2>1. n + 1 \in 0 .. n + 1 /\ n + 1 # 0 /\ (n + 1) - 1 = n
    BY <1>1
  <2> QED BY <1>7, <2>1
<1>13. n \in 0 .. n
  BY <1>1
<1>14. Streams(q) = Onward(p, i, Streams(p))
  BY <1>1, <1>2, <1>3, <1>4, <1>5, <1>11, <1>12, <1>13
<1> QED BY <1>14 DEF q

-----------------------------------------------------------------------------
(* Tables of open files                                                        *)

Std == {In, Out, Err}

LEMMA FileKinds ==
  /\ None[1] = "none" /\ In[1] = "in" /\ Out[1] = "out" /\ Err[1] = "err"
  /\ \A p : Target(p)[1] = "file" /\ ReadEnd(p)[1] = "r" /\ WriteEnd(p)[1] = "w"
  /\ \A p : Target(p)[2] = p /\ ReadEnd(p)[2] = p /\ WriteEnd(p)[2] = p
  /\ None \notin Std /\ ~IsPipe(None)
  /\ \A f \in Std : ~IsPipe(f)
  /\ \A p : ~IsPipe(Target(p)) /\ IsPipe(ReadEnd(p)) /\ IsPipe(WriteEnd(p))
BY DEF None, In, Out, Err, Target, ReadEnd, WriteEnd, Std, IsPipe

LEMMA Numbers == Fd \subseteq Nat /\ 0 \in Fd /\ 1 \in Fd /\ 2 \in Fd /\ IsFiniteSet(Fd)
<1>1. FdNum \in Nat /\ FdNum > 4
  BY ShellAssumption
<1>2. IsFiniteSet(0 .. FdNum - 1)
  BY <1>1, FS_Interval
<1> QED BY <1>1, <1>2 DEF Fd

\* No file is in a table twice.
Distinct(fd) == \A i, j \in Fd : fd[i] = fd[j] /\ fd[i] # None => i = j

\* The files of a table are counted, or are ends of pipes there are.
KnownIn(fd, O, R) ==
  \A i \in Fd : fd[i] # None => IF IsPipe(fd[i]) THEN fd[i][2] \in O ELSE fd[i] \in R

\* There is an input to read, an output to write, and the error output.
Standard(fd) ==
  /\ fd[0][1] \in {"in", "file", "r"}
  /\ fd[1][1] \in {"out", "file", "w"}
  /\ fd[2] = Err

\* f1 and f2 are a table after the close and after the open of run_redir_cmd.
Replaces(fd, O, R, x, p, f1, f2) ==
  /\ fd \in Table /\ x \in {0, 1} /\ p \in Path
  /\ Distinct(fd) /\ KnownIn(fd, O, R) /\ Standard(fd) /\ \A i \in Fd : fd[i] # Target(p)
  /\ f1 = [fd EXCEPT ![x] = None] /\ f2 = [f1 EXCEPT ![x] = Target(p)]

LEMMA RedirTable ==
  ASSUME NEW fd, NEW O, NEW R, NEW x, NEW p, NEW f1, NEW f2, Replaces(fd, O, R, x, p, f1, f2)
  PROVE  /\ Distinct(f1) /\ KnownIn(f1, O, R)
         /\ Distinct(f2) /\ KnownIn(f2, O, R \cup {Target(p)}) /\ Standard(f2)
         /\ f2[0] = IF x = 0 THEN Target(p) ELSE fd[0]
         /\ f2[1] = IF x = 1 THEN Target(p) ELSE fd[1]
<1> USE DEF Replaces
<1>1. /\ f1[x] = None /\ \A i \in Fd \ {x} : f1[i] = fd[i]
      /\ f2[x] = Target(p) /\ \A i \in Fd \ {x} : f2[i] = fd[i]
  BY Numbers DEF Table
<1>2. Distinct(f1) /\ KnownIn(f1, O, R)
  BY <1>1 DEF Distinct, KnownIn
<1>3. Distinct(f2)
  BY <1>1 DEF Distinct
<1>4. KnownIn(f2, O, R \cup {Target(p)})
  <2> SUFFICES ASSUME NEW i \in Fd, f2[i] # None
               PROVE  IF IsPipe(f2[i]) THEN f2[i][2] \in O ELSE f2[i] \in R \cup {Target(p)}
    BY DEF KnownIn
  <2>1. f2[i] = Target(p) \/ f2[i] = fd[i]
    BY <1>1
  <2>2. ~IsPipe(Target(p))
    BY FileKinds
  <2> QED BY <2>1, <2>2 DEF KnownIn
<1>5. /\ f2[0] = IF x = 0 THEN Target(p) ELSE fd[0]
      /\ f2[1] = IF x = 1 THEN Target(p) ELSE fd[1]
      /\ f2[2] = fd[2]
  <2>1. 0 \in Fd /\ 1 \in Fd /\ 2 \in Fd
    BY Numbers
  <2>2. 2 \in Fd \ {x} /\ (x # 0 => 0 \in Fd \ {x}) /\ (x # 1 => 1 \in Fd \ {x})
    BY <2>1
  <2> QED BY <1>1, <2>2
<1>6. Standard(f2)
  BY <1>5, FileKinds DEF Standard
<1> QED BY <1>2, <1>3, <1>4, <1>5, <1>6

\* f1 and f2 are what run_pipe_cmd makes of a table, r the first free place in it.
Splits(fd, O, R, p, r, f1, f2) ==
  /\ fd \in Table /\ p \in Path /\ r \in Fd /\ r = PipeFds(fd)[1] /\ fd[r] = None
  /\ Distinct(fd) /\ KnownIn(fd, O, R) /\ Standard(fd) /\ p \notin O
  /\ f1 = LeftTable(fd, p) /\ f2 = Restored(f1, fd[1])

LEMMA LeftTables ==
  ASSUME NEW fd, NEW O, NEW R, NEW p, NEW r, NEW f1, NEW f2, Splits(fd, O, R, p, r, f1, f2)
  PROVE  /\ Distinct(f1) /\ KnownIn(f1, O \cup {p}, R) /\ Standard(f1)
         /\ Distinct(f2) /\ KnownIn(f2, O \cup {p}, R) /\ Standard(f2)
         /\ f1[0] = fd[0] /\ f1[1] = WriteEnd(p) /\ f2[0] = fd[0] /\ f2[1] = fd[1]
         /\ f1[r] = ReadEnd(p) /\ \A i \in Fd \ {1, r} : f1[i] = fd[i]
         /\ f2[r] = ReadEnd(p) /\ \A i \in Fd \ {r} : f2[i] = fd[i]
<1> USE DEF Splits
<1>1. r # 0 /\ r # 1 /\ r # 2
  BY FileKinds DEF Standard, Err, None
<1>0. f1 = [fd EXCEPT ![r] = ReadEnd(p), ![1] = WriteEnd(p)] /\ f2 = [f1 EXCEPT ![1] = fd[1]]
  BY DEF LeftTable, Restored
<1>2. f1[1] = WriteEnd(p) /\ f1[r] = ReadEnd(p) /\ \A i \in Fd \ {1, r} : f1[i] = fd[i]
  BY <1>0, <1>1, Numbers DEF Table
<1>3. f2[1] = fd[1] /\ f2[r] = ReadEnd(p) /\ \A i \in Fd \ {1, r} : f2[i] = fd[i]
  BY <1>0, <1>1, Numbers DEF Table
<1>4. \A i \in Fd : fd[i] # ReadEnd(p) /\ fd[i] # WriteEnd(p)
  BY FileKinds DEF KnownIn
<1>5. ReadEnd(p) # WriteEnd(p)
  BY FileKinds
<1>6. Distinct(f1)
  BY <1>1, <1>2, <1>4, <1>5 DEF Distinct
<1>7. Distinct(f2)
  BY <1>1, <1>3, <1>4, Numbers DEF Distinct
<1>8. KnownIn(f1, O \cup {p}, R)
  <2> SUFFICES ASSUME NEW i \in Fd, f1[i] # None
               PROVE  IF IsPipe(f1[i]) THEN f1[i][2] \in O \cup {p} ELSE f1[i] \in R
    BY DEF KnownIn
  <2>1. f1[i] = WriteEnd(p) \/ f1[i] = ReadEnd(p) \/ f1[i] = fd[i]
    BY <1>2
  <2> QED BY <2>1, FileKinds DEF KnownIn
<1>9. KnownIn(f2, O \cup {p}, R)
  <2> SUFFICES ASSUME NEW i \in Fd, f2[i] # None
               PROVE  IF IsPipe(f2[i]) THEN f2[i][2] \in O \cup {p} ELSE f2[i] \in R
    BY DEF KnownIn
  <2>1. f2[i] = ReadEnd(p) \/ f2[i] = fd[i]
    BY <1>3
  <2> QED BY <2>1, FileKinds DEF KnownIn
<1>10. f1[0] = fd[0] /\ f1[2] = fd[2] /\ f2[0] = fd[0] /\ f2[2] = fd[2]
  <2>1. 0 \in Fd \ {1, r} /\ 2 \in Fd \ {1, r}
    BY <1>1, Numbers
  <2> QED BY <1>2, <1>3, <2>1
<1>11. Standard(f1) /\ Standard(f2)
  BY <1>2, <1>3, <1>10, FileKinds DEF Standard
<1>12. \A i \in Fd \ {r} : f2[i] = fd[i]
  BY <1>3
<1> QED BY <1>2, <1>3, <1>6, <1>7, <1>8, <1>9, <1>10, <1>11, <1>12

LEMMA RightTables ==
  ASSUME NEW fd \in Table, NEW O, NEW R, NEW p \in Path, p \in O,
         Distinct(fd), KnownIn(fd, O, R), Standard(fd), NEW f1, f1 = RightTable(fd, p)
  PROVE  /\ Distinct(f1) /\ KnownIn(f1, O, R) /\ Standard(f1)
         /\ f1[0] = ReadEnd(p) /\ f1[1] = fd[1]
         /\ \A i \in Fd : f1[i] \in {None, ReadEnd(p), fd[i]}
<1>1. /\ f1[0] = ReadEnd(p)
      /\ \A i \in Fd \ {0} : f1[i] = IF fd[i] = ReadEnd(p) THEN None ELSE fd[i]
  BY Numbers DEF RightTable
<1>2. f1[1] = fd[1] /\ f1[2] = fd[2]
  <2>1. 1 \in Fd \ {0} /\ 2 \in Fd \ {0}
    BY Numbers
  <2>2. fd[1] # ReadEnd(p) /\ fd[2] # ReadEnd(p)
    BY FileKinds DEF Standard
  <2> QED BY <1>1, <2>1, <2>2
<1>3. \A i \in Fd : f1[i] \in {None, ReadEnd(p), fd[i]}
  BY <1>1
<1>4. Distinct(f1)
  <2> SUFFICES ASSUME NEW i \in Fd, NEW j \in Fd, f1[i] = f1[j], f1[i] # None PROVE i = j
    BY DEF Distinct
  <2>1. CASE i = 0
    BY <1>1, <2>1
  <2>2. CASE j = 0
    BY <1>1, <2>2
  <2>3. CASE i # 0 /\ j # 0
    BY <1>1, <2>3 DEF Distinct
  <2> QED BY <2>1, <2>2, <2>3
<1>5. KnownIn(f1, O, R)
  <2> SUFFICES ASSUME NEW i \in Fd, f1[i] # None
               PROVE  IF IsPipe(f1[i]) THEN f1[i][2] \in O ELSE f1[i] \in R
    BY DEF KnownIn
  <2> QED BY <1>3, FileKinds DEF KnownIn
<1>6. Standard(f1)
  BY <1>1, <1>2, FileKinds DEF Standard
<1> QED BY <1>1, <1>2, <1>3, <1>4, <1>5, <1>6

\* new_fd_num finds a free place if there is one.
LEMMA NewPlace ==
  ASSUME NEW fd, NEW i \in Fd, fd[i] = None
  PROVE  NewFd(fd) \in Fd /\ fd[NewFd(fd)] = None
<1> DEFINE P(k) == k \in Fd /\ fd[k] = None /\ \A j \in 0 .. k - 1 : fd[j] # None
           T == {n \in Nat : n \in Fd /\ (\E k \in 0 .. n : fd[k] = None) => \E k \in Fd : P(k)}
<1>1. 0 \in T
  <2>1. fd[0] = None => P(0)
    BY Numbers
  <2> HIDE DEF P
  <2> QED BY <2>1, Numbers
<1>2. ASSUME NEW n \in Nat, n \in T PROVE n + 1 \in T
  <2> SUFFICES ASSUME n + 1 \in Fd, NEW k \in 0 .. n + 1, fd[k] = None PROVE \E m \in Fd : P(m)
    OBVIOUS
  <2>1. n \in Fd
    BY ShellAssumption DEF Fd
  <2>2. CASE \E m \in 0 .. n : fd[m] = None
    <3> HIDE DEF P
    <3> QED BY <1>2, <2>1, <2>2
  <2>3. CASE \A m \in 0 .. n : fd[m] # None
    <3>1. k = n + 1 /\ 0 .. k - 1 = 0 .. n
      BY <2>3
    <3>2. P(k)
      BY <2>3, <3>1
    <3> HIDE DEF P
    <3> QED BY <3>1, <3>2
  <2> QED BY <2>2, <2>3
<1> HIDE DEF T
<1>3. \A n \in Nat : n \in T
  BY <1>1, <1>2, Induction
<1>4. \E k \in Fd : P(k)
  <2>1. i \in Nat /\ i \in 0 .. i
    BY Numbers
  <2>2. i \in T
    BY <1>3, <2>1
  <2> HIDE DEF P
  <2> QED BY <2>1, <2>2 DEF T
<1>5. P(NewFd(fd))
  BY <1>4, Zenon DEF NewFd
<1> QED BY <1>5

-----------------------------------------------------------------------------
(* The holders of a file: T the tasks, R and O the files that are counted and  *)
(* the pipes, S what flows to a node.                                          *)

HeldIn(T, f) == {h \in (DOMAIN T) \X Fd : T[h[1]].fd[h[2]] = f}

LEMMA HeldFinite ==
  ASSUME NEW T, NEW f, IsFiniteSet(DOMAIN T)
  PROVE  IsFiniteSet(HeldIn(T, f)) /\ Cardinality(HeldIn(T, f)) \in Nat
<1>1. IsFiniteSet((DOMAIN T) \X Fd)
  BY Numbers, FS_Product
<1>2. HeldIn(T, f) \subseteq (DOMAIN T) \X Fd
  BY DEF HeldIn
<1> QED BY <1>1, <1>2, FS_Subset, FS_CardinalityType

LEMMA HeldSame ==
  ASSUME NEW T, NEW U, NEW f, DOMAIN U = DOMAIN T,
         \A s \in DOMAIN T, i \in Fd : U[s].fd[i] = f <=> T[s].fd[i] = f
  PROVE  HeldIn(U, f) = HeldIn(T, f)
BY DEF HeldIn

\* A new task holds a file of its table once.
LEMMA HeldNew ==
  ASSUME NEW T, NEW U, NEW f, f # None, IsFiniteSet(DOMAIN T),
         NEW son, son \notin DOMAIN T, DOMAIN U = DOMAIN T \cup {son}, NEW fd, U[son].fd = fd,
         Distinct(fd), \A s \in DOMAIN T, i \in Fd : U[s].fd[i] = f => T[s].fd[i] = f
  PROVE  LET new == IF f \in Files(fd) THEN 1 ELSE 0
         IN  /\ Cardinality(HeldIn(U, f)) <= Cardinality(HeldIn(T, f)) + new
             /\ (\A s \in DOMAIN T, i \in Fd : U[s].fd[i] = f <=> T[s].fd[i] = f) =>
                  Cardinality(HeldIn(U, f)) = Cardinality(HeldIn(T, f)) + new
<1> DEFINE H == HeldIn(T, f)
           own == {h \in {son} \X Fd : fd[h[2]] = f}
           G == H \cup own
           same == \A s \in DOMAIN T, i \in Fd : U[s].fd[i] = f <=> T[s].fd[i] = f
<1>1. IsFiniteSet(H) /\ Cardinality(H) \in Nat
  BY HeldFinite
<1>2. HeldIn(U, f) \subseteq G
  BY DEF HeldIn
<1>3. same => HeldIn(U, f) = G
  BY DEF HeldIn
<1>4. IsFiniteSet(G) /\ Cardinality(G) = Cardinality(H) + (IF f \in Files(fd) THEN 1 ELSE 0)
  <2>1. CASE f \in Files(fd)
    <3>1. PICK i \in Fd : fd[i] = f
      BY <2>1 DEF Files
    <3>2. own = {<<son, i>>}
      BY <3>1 DEF Distinct
    <3>3. <<son, i>> \notin H
      BY DEF HeldIn
    <3> HIDE DEF H, own
    <3>4. Cardinality(G) = Cardinality(H) + 1 /\ IsFiniteSet(G)
      BY <1>1, <3>2, <3>3, FS_AddElement
    <3> QED BY <2>1, <3>4
  <2>2. CASE f \notin Files(fd)
    <3>1. own = {}
      BY <2>2 DEF Files
    <3> HIDE DEF H, own
    <3> QED BY <1>1, <2>2, <3>1
  <2> QED BY <2>1, <2>2
<1> HIDE DEF H, G, same
<1>5. Cardinality(HeldIn(U, f)) <= Cardinality(G)
  BY <1>2, <1>4, FS_Subset
<1>6. Cardinality(HeldIn(U, f)) \in Nat
  BY <1>2, <1>4, FS_Subset, FS_CardinalityType
<1> QED BY <1>1, <1>3, <1>4, <1>5, <1>6 DEF H, same

\* A task gives up a file.
LEMMA HeldGone ==
  ASSUME NEW T, NEW U, NEW f, IsFiniteSet(DOMAIN T), NEW t \in DOMAIN T, NEW x \in Fd,
         DOMAIN U = DOMAIN T, T[t].fd[x] = f, f # None, Distinct(T[t].fd),
         \A i \in Fd : U[t].fd[i] # f, \A s \in DOMAIN T \ {t} : U[s] = T[s]
  PROVE  Cardinality(HeldIn(U, f)) = Cardinality(HeldIn(T, f)) - 1
<1> DEFINE H == HeldIn(T, f)
           h == <<t, x>>
<1>1. IsFiniteSet(H)
  BY HeldFinite
<1>2. h \in H
  BY DEF HeldIn
<1>3. HeldIn(U, f) = H \ {h}
  BY DEF HeldIn, Distinct
<1> HIDE DEF H, h
<1> QED BY <1>1, <1>2, <1>3, FS_RemoveElement DEF H

Count(T, f) == (IF f \in Std THEN 1 ELSE 0) + Cardinality(HeldIn(T, f))

CountFor(T, R, O) ==
  \A f \in DOMAIN R : IF O = {} THEN R[f] = Count(T, f) ELSE R[f] >= Count(T, f)

CreatedIn(T, p) == \E s \in DOMAIN T : Prefix(Append(p, 1), T[s].at)

FilesIn(T, R, O) ==
  /\ IsFiniteSet(DOMAIN T)
  /\ R \in [DOMAIN R -> Int] /\ Std \subseteq DOMAIN R
  /\ \A f \in DOMAIN R : f \in Std \/ \E p \in Path : f = Target(p) /\ CreatedIn(T, p)
  /\ O \subseteq Path /\ \A p \in O : CreatedIn(T, p)

\* A task's table at its node
TableOf(r, O, R, S) ==
  /\ Distinct(r.fd) /\ KnownIn(r.fd, O, R)
  /\ r.pc \notin {"exit", "end"} => Standard(r.fd)
  /\ r.pc = "read" => IsPipe(r.fd[0])
  /\ r.pc = "right" => r.at \in O
  /\ r.pc \in {"parse", "run", "list", "right"} => S[r.at] = <<r.fd[0], r.fd[1]>>

TablesIn(T, R, O, S) == \A s \in DOMAIN T : TableOf(T[s], O, DOMAIN R, S)

Flow == [p \in Path |-> Streams(p)]

Rest ==
  /\ line \in Line
  /\ \A p \in DOMAIN place : p \in Path /\ Kind[p] = "EXEC" /\ place[p] = Flow[p]
  /\ late \subseteq DOMAIN place /\ early \subseteq DOMAIN open

Tabled ==
  /\ FilesIn(task, refcnt, DOMAIN open)
  /\ TablesIn(task, refcnt, DOMAIN open, Flow)
  /\ CountFor(task, refcnt, DOMAIN open)
  /\ Rest

LEMMA FlowSame == ASSUME tree' = tree PROVE Flow' = Flow
BY DEF Flow, Streams, Onward, NodeAt

LEMMA TableStays ==
  ASSUME NEW r, NEW O, NEW R, NEW S, NEW O2, NEW R2, TableOf(r, O, R, S),
         O \subseteq O2, R \subseteq R2
  PROVE  TableOf(r, O2, R2, S)
<1>1. KnownIn(r.fd, O2, R2)
  BY DEF TableOf, KnownIn
<1> QED BY <1>1 DEF TableOf

\* The node a task is at has not been left before.
LEMMA Untouched ==
  ASSUME Ordered, NEW t \in DOMAIN task, task[t].pc = "run"
  PROVE  ~CreatedIn(task, task[t].at)
<1> SUFFICES ASSUME NEW s \in DOMAIN task, Prefix(Append(task[t].at, 1), task[s].at) PROVE FALSE
  BY DEF CreatedIn
<1> DEFINE p == task[t].at
           q == task[s].at
<1>1. /\ s \in Path /\ t \in Path /\ p \in Path /\ q \in Path /\ Prefix(s, q) /\ Prefix(t, p)
      /\ TasksOf(task) /\ PlaceOf(task)
  BY DEF Ordered, OrderOf, TasksOf, PlaceOf
<1>2. Below(p, q)
  BY <1>1, SonOrder
<1> HIDE DEF p, q
<1>3. s # t
  BY <1>1, <1>2 DEF Below, p, q
<1>4. Prefix(s, p) \/ Prefix(p, s)
  BY <1>1, <1>2, PrefixOrder DEF Below
<1>5. ~Prefix(s, p)
  BY <1>1, <1>2, <1>3, OneAbove DEF Below, p, q
<1>6. Below(p, s)
  BY <1>1, <1>4, <1>5, PrefixOrder DEF Below
<1> QED BY <1>6 DEF Ordered, OrderOf, AheadOf, p

LEMMA CreatedGoes ==
  ASSUME Ordered, NEW t \in DOMAIN task, NEW a \in Path, NEW c, NEW fd, Goes(t, a, c, fd),
         Prefix(task[t].at, a), NEW p \in Path, CreatedIn(task, p)
  PROVE  CreatedIn(task', p)
<1>1. PICK s \in DOMAIN task : Prefix(Append(p, 1), task[s].at)
  BY DEF CreatedIn
<1>2. s \in DOMAIN task' /\ (s # t => task'[s].at = task[s].at) /\ task'[t].at = a
  BY DEF Goes
<1>3. task[t].at \in Path /\ Append(p, 1) \in Path
  BY Parts, SonType DEF Ordered
<1>4. Prefix(Append(p, 1), task'[s].at)
  BY <1>1, <1>2, <1>3, PrefixOrder
<1> QED BY <1>2, <1>4 DEF CreatedIn

LEMMA CreatedMakes ==
  ASSUME NEW t \in DOMAIN task, NEW son, NEW c, NEW fd, NEW fd2, Makes(t, son, c, fd, fd2),
         NEW p, CreatedIn(task, p)
  PROVE  CreatedIn(task', p)
<1>1. PICK s \in DOMAIN task : Prefix(Append(p, 1), task[s].at)
  BY DEF CreatedIn
<1>2. s \in DOMAIN task' /\ task'[s].at = task[s].at
  BY DEF Makes
<1> QED BY <1>1, <1>2 DEF CreatedIn

LEMMA CountMore ==
  ASSUME NEW T, NEW U, NEW R, NEW O, NEW O2, IsFiniteSet(DOMAIN T), R \in [DOMAIN R -> Int],
         None \notin DOMAIN R, CountFor(T, R, O),
         NEW son, son \notin DOMAIN T, DOMAIN U = DOMAIN T \cup {son}, NEW fd, U[son].fd = fd,
         Distinct(fd),
         \A f \in DOMAIN R, s \in DOMAIN T, i \in Fd : U[s].fd[i] = f => T[s].fd[i] = f,
         \/ O2 # {}
         \/ O2 = O /\ \A f \in DOMAIN R, s \in DOMAIN T, i \in Fd : U[s].fd[i] = f <=> T[s].fd[i] = f,
         NEW R2, R2 = [f \in DOMAIN R |-> IF f \in Files(fd) THEN R[f] + 1 ELSE R[f]]
  PROVE  CountFor(U, R2, O2)
<1> SUFFICES ASSUME NEW f \in DOMAIN R
             PROVE  IF O2 = {} THEN R2[f] = Count(U, f) ELSE R2[f] >= Count(U, f)
  BY DEF CountFor
<1> DEFINE new == IF f \in Files(fd) THEN 1 ELSE 0
           a == Cardinality(HeldIn(T, f))
           b == Cardinality(HeldIn(U, f))
           std == IF f \in Std THEN 1 ELSE 0
           same == \A s \in DOMAIN T, i \in Fd : U[s].fd[i] = f <=> T[s].fd[i] = f
<1>1. b <= a + new /\ (same => b = a + new)
  BY HeldNew
<1>2. IsFiniteSet(DOMAIN U)
  BY FS_AddElement
<1>3. a \in Nat /\ b \in Nat /\ std \in Nat /\ R[f] \in Int
  BY <1>2, HeldFinite
<1>4. IF O = {} THEN R[f] = std + a ELSE R[f] >= std + a
  BY DEF CountFor, Count
<1>5. R2[f] = R[f] + new
  <2>1. R2[f] = IF f \in Files(fd) THEN R[f] + 1 ELSE R[f]
    OBVIOUS
  <2> QED BY <1>3, <2>1
<1>6. \/ O2 # {}
      \/ O2 = O /\ same
  OBVIOUS
<1>7. new \in Nat /\ Count(U, f) = std + b
  BY DEF Count
<1> HIDE DEF new, a, b, std, same
<1> QED BY <1>1, <1>3, <1>4, <1>5, <1>6, <1>7

\* A task t has given up the files of G, as far as they are counted.
Loses(T, U, R, O, t, G) ==
  /\ IsFiniteSet(DOMAIN T) /\ R \in [DOMAIN R -> Int] /\ None \notin DOMAIN R /\ CountFor(T, R, O)
  /\ t \in DOMAIN T /\ Distinct(T[t].fd) /\ DOMAIN U = DOMAIN T
  /\ \A s \in DOMAIN T \ {t} : U[s] = T[s]
  /\ \A f \in DOMAIN R \cap G : (\E x \in Fd : T[t].fd[x] = f) /\ \A i \in Fd : U[t].fd[i] # f
  /\ \A f \in DOMAIN R \ G, i \in Fd : U[t].fd[i] = f <=> T[t].fd[i] = f

LEMMA CountLess ==
  ASSUME NEW T, NEW U, NEW R, NEW O, NEW t, NEW G, Loses(T, U, R, O, t, G), NEW f \in DOMAIN R
  PROVE  LET r == IF f \in G THEN R[f] - 1 ELSE R[f]
         IN  IF O = {} THEN r = Count(U, f) ELSE r >= Count(U, f)
<1> USE DEF Loses
<1> DEFINE r == IF f \in G THEN R[f] - 1 ELSE R[f]
<1> SUFFICES IF O = {} THEN r = Count(U, f) ELSE r >= Count(U, f)
  OBVIOUS
<1> DEFINE a == Cardinality(HeldIn(T, f))
           b == Cardinality(HeldIn(U, f))
           std == IF f \in Std THEN 1 ELSE 0
<1>1. a \in Nat /\ b \in Nat /\ std \in Nat /\ R[f] \in Int
  BY HeldFinite
<1>2. IF O = {} THEN R[f] = std + a ELSE R[f] >= std + a
  BY DEF CountFor, Count
<1>3. CASE f \in G
  <2>1. PICK x \in Fd : T[t].fd[x] = f
    BY <1>3
  <2>2. b = a - 1
    BY <1>3, <2>1, HeldGone
  <2>3. Count(U, f) = std + b /\ r = R[f] - 1
    BY <1>3 DEF Count
  <2> HIDE DEF a, b, std, r
  <2> QED BY <1>1, <1>2, <2>2, <2>3
<1>4. CASE f \notin G
  <2>1. \A s \in DOMAIN T, i \in Fd : U[s].fd[i] = f <=> T[s].fd[i] = f
    BY <1>4
  <2>2. HeldIn(U, f) = HeldIn(T, f)
    BY <2>1, HeldSame
  <2> QED BY <1>2, <1>4, <2>2 DEF Count
<1> QED BY <1>3, <1>4

LEMMA NoneUncounted ==
  ASSUME NEW T, NEW R, NEW O, FilesIn(T, R, O) PROVE \A f \in DOMAIN R : f # None /\ ~IsPipe(f)
BY FileKinds DEF FilesIn

\* A task goes on with the table it has.
LEMMA StayTabled ==
  ASSUME Ordered, Tabled, NEW t \in DOMAIN task, NEW a \in Path, NEW c, Prefix(task[t].at, a),
         Goes(t, a, c, task[t].fd), UNCHANGED <<tree, refcnt, open>>,
         task[t].pc \notin {"exit", "end"}, c \in {"run", "exec", "read", "exit"},
         c = "read" => IsPipe(task[t].fd[0]),
         c = "run" => Flow[a] = <<task[t].fd[0], task[t].fd[1]>>, Rest'
  PROVE  Tabled'
<1>1. /\ DOMAIN task' = DOMAIN task /\ task'[t] = [at |-> a, pc |-> c, fd |-> task[t].fd]
      /\ \A s \in DOMAIN task \ {t} : task'[s] = task[s]
  BY DEF Goes
<1>2. FilesIn(task', refcnt, DOMAIN open)
  <2>1. \A p \in Path : CreatedIn(task, p) => CreatedIn(task', p)
    BY CreatedGoes
  <2> QED BY <1>1, <2>1 DEF Tabled, FilesIn
<1>3. TablesIn(task', refcnt, DOMAIN open, Flow)
  <2> SUFFICES ASSUME NEW s \in DOMAIN task
               PROVE  TableOf(task'[s], DOMAIN open, DOMAIN refcnt, Flow)
    BY <1>1 DEF TablesIn
  <2>1. TableOf(task[s], DOMAIN open, DOMAIN refcnt, Flow)
    BY DEF Tabled, TablesIn
  <2>2. CASE s # t
    BY <1>1, <2>1, <2>2
  <2>3. CASE s = t
    <3> DEFINE r == task'[t]
    <3>1. r.at = a /\ r.pc = c /\ r.fd = task[t].fd
      BY <1>1
    <3> HIDE DEF r
    <3>2. TableOf(r, DOMAIN open, DOMAIN refcnt, Flow)
      BY <2>1, <2>3, <3>1 DEF TableOf
    <3> QED BY <2>3, <3>2 DEF r
  <2> QED BY <2>2, <2>3
<1>4. CountFor(task', refcnt, DOMAIN open)
  <2>1. \A s \in DOMAIN task, i \in Fd : task'[s].fd[i] = task[s].fd[i]
    <3> SUFFICES ASSUME NEW s \in DOMAIN task, NEW i \in Fd PROVE task'[s].fd[i] = task[s].fd[i]
      OBVIOUS
    <3>1. CASE s = t
      BY <1>1, <3>1
    <3>2. CASE s # t
      BY <1>1, <3>2
    <3> QED BY <3>1, <3>2
  <2>2. \A f : HeldIn(task', f) = HeldIn(task, f)
    BY <1>1, <2>1, HeldSame
  <2> QED BY <2>2 DEF Tabled, CountFor, Count
<1> QED BY <1>2, <1>3, <1>4, FlowSame DEF Tabled

\* A task creates a son.
LEMMA MakeTabled ==
  ASSUME Ordered, Tabled, NEW t \in DOMAIN task, NEW son, NEW c, NEW fd, NEW fd2,
         Makes(t, son, c, fd, fd2), tree' = tree, Rest', refcnt' = CountedFor(fd2),
         DOMAIN open \subseteq DOMAIN open', DOMAIN open' \subseteq Path,
         \A p \in DOMAIN open' \ DOMAIN open : CreatedIn(task', p),
         TableOf([at |-> task[t].at, pc |-> c, fd |-> fd], DOMAIN open', DOMAIN refcnt, Flow),
         TableOf([at |-> son, pc |-> "run", fd |-> fd2], DOMAIN open', DOMAIN refcnt, Flow),
         \A f \in DOMAIN refcnt, i \in Fd : fd[i] = f => task[t].fd[i] = f,
         \/ DOMAIN open' # {}
         \/ DOMAIN open' = DOMAIN open /\ fd = task[t].fd
  PROVE  Tabled'
<1>1. /\ DOMAIN task' = DOMAIN task \cup {son} /\ son \notin DOMAIN task
      /\ task'[t] = [at |-> task[t].at, pc |-> c, fd |-> fd]
      /\ task'[son] = [at |-> son, pc |-> "run", fd |-> fd2]
      /\ \A s \in DOMAIN task \ {t} : task'[s] = task[s]
  BY DEF Makes
<1>2. DOMAIN refcnt' = DOMAIN refcnt /\ refcnt' \in [DOMAIN refcnt' -> Int]
  BY DEF CountedFor, Tabled, FilesIn
<1>3. FilesIn(task', refcnt', DOMAIN open')
  <2>1. \A p : CreatedIn(task, p) => CreatedIn(task', p)
    BY CreatedMakes
  <2>2. IsFiniteSet(DOMAIN task')
    BY <1>1, FS_AddElement DEF Tabled, FilesIn
  <2> QED BY <1>2, <2>1, <2>2 DEF Tabled, FilesIn
<1>4. TablesIn(task', refcnt', DOMAIN open', Flow)
  <2> SUFFICES ASSUME NEW s \in DOMAIN task'
               PROVE  TableOf(task'[s], DOMAIN open', DOMAIN refcnt, Flow)
    BY <1>2 DEF TablesIn
  <2>1. CASE s \in {t, son}
    BY <1>1, <2>1
  <2>2. CASE s \notin {t, son}
    <3>1. s \in DOMAIN task /\ task'[s] = task[s]
      BY <1>1, <2>2
    <3>2. TableOf(task[s], DOMAIN open, DOMAIN refcnt, Flow)
      BY <3>1 DEF Tabled, TablesIn
    <3>3. TableOf(task[s], DOMAIN open', DOMAIN refcnt, Flow)
      BY <3>2, TableStays
    <3> QED BY <3>1, <3>3
  <2> QED BY <2>1, <2>2
<1>5. CountFor(task', refcnt', DOMAIN open')
  <2>1. Distinct(fd2)
    <3> DEFINE r == [at |-> son, pc |-> "run", fd |-> fd2]
    <3>1. r.fd = fd2 /\ Distinct(r.fd)
      BY DEF TableOf
    <3> QED BY <3>1
  <2>2. ASSUME NEW f \in DOMAIN refcnt, NEW s \in DOMAIN task, NEW i \in Fd
        PROVE  /\ task'[s].fd[i] = f => task[s].fd[i] = f
               /\ fd = task[t].fd => (task'[s].fd[i] = f <=> task[s].fd[i] = f)
    <3>1. CASE s = t
      <4>1. task'[s].fd = fd
        BY <1>1, <3>1
      <4> QED BY <3>1, <4>1
    <3>2. CASE s # t
      BY <1>1, <3>2
    <3> QED BY <3>1, <3>2
  <2>3. refcnt' = [f \in DOMAIN refcnt |-> IF f \in Files(fd2) THEN refcnt[f] + 1 ELSE refcnt[f]]
    BY DEF CountedFor
  <2>4. /\ IsFiniteSet(DOMAIN task) /\ refcnt \in [DOMAIN refcnt -> Int] /\ None \notin DOMAIN refcnt
        /\ CountFor(task, refcnt, DOMAIN open)
    BY NoneUncounted DEF Tabled, FilesIn
  <2>5. task'[son].fd = fd2
    BY <1>1
  <2>6. \A f \in DOMAIN refcnt, s \in DOMAIN task, i \in Fd : task'[s].fd[i] = f => task[s].fd[i] = f
    BY <2>2
  <2>7. \/ DOMAIN open' # {}
        \/ /\ DOMAIN open' = DOMAIN open
           /\ \A f \in DOMAIN refcnt, s \in DOMAIN task, i \in Fd :
                task'[s].fd[i] = f <=> task[s].fd[i] = f
    BY <2>2
  <2> QED BY <1>1, <2>1, <2>3, <2>4, <2>5, <2>6, <2>7, CountMore
<1> QED BY <1>3, <1>4, <1>5, FlowSame DEF Tabled

LEMMA RestSame ==
  ASSUME Rest, UNCHANGED <<line, tree, place, late, early>>, DOMAIN open \subseteq DOMAIN open'
  PROVE  Rest'
BY FlowSame, KindSame DEF Rest

\* Steps that leave the table as it is.
LEMMA StaySteps ==
  ASSUME Ordered, Tabled, NEW t \in DOMAIN task,
         \/ Parse(t) \/ RunNothing(t) \/ RunExec(t) \/ ExecEnd(t) \/ ExecRead(t) \/ ListRight(t)
         \/ PipeEnd(t)
  PROVE  Tabled'
<1>0. /\ TaskType /\ task[t].at \in Path /\ Prefix(task[t].at, task[t].at) /\ Rest
      /\ TableOf(task[t], DOMAIN open, DOMAIN refcnt, Flow)
  BY Parts, PrefixOrder DEF Ordered, Tabled, TablesIn
<1>1. CASE Parse(t)
  <2>1. PICK c \in {"run", "exit"} : Goto(t, c) /\ task[t].pc = "parse"
    BY <1>1 DEF Parse
  <2>2. UNCHANGED <<tree, refcnt, open>> /\ Rest'
    BY <1>0, <1>1, RestSame DEF Parse
  <2>3. Goes(t, task[t].at, c, task[t].fd)
    BY <2>1, GotoGoes DEF Pc
  <2>4. Flow[task[t].at] = <<task[t].fd[0], task[t].fd[1]>>
    BY <1>0, <2>1 DEF TableOf
  <2> QED BY <1>0, <2>1, <2>2, <2>3, <2>4, StayTabled
<1>2. CASE RunNothing(t) \/ ExecEnd(t) \/ PipeEnd(t)
  <2>1. Goto(t, "exit") /\ task[t].pc \in {"run", "exec", "pipe"}
    BY <1>2 DEF RunNothing, ExecEnd, PipeEnd, Runs
  <2>2. UNCHANGED <<tree, refcnt, open>> /\ Rest'
    BY <1>0, <1>2, RestSame DEF RunNothing, ExecEnd, PipeEnd
  <2>3. Goes(t, task[t].at, "exit", task[t].fd)
    BY <2>1, GotoGoes DEF Pc
  <2> QED BY <1>0, <2>1, <2>2, <2>3, StayTabled
<1>3. CASE RunExec(t)
  <2>1. PICK c \in {"exec", "read"} : Goto(t, c) /\ (c = "read" => IsPipe(task[t].fd[0]))
    BY <1>3 DEF RunExec
  <2>2. UNCHANGED <<line, tree, refcnt, open, early>> /\ task[t].pc = "run"
    BY <1>3 DEF RunExec, Runs
  <2>3. Goes(t, task[t].at, c, task[t].fd)
    BY <2>1, GotoGoes DEF Pc
  <2>4. Flow[task[t].at] = <<task[t].fd[0], task[t].fd[1]>> /\ Kind[task[t].at] = "EXEC"
    BY <1>0, <1>3, <2>2 DEF TableOf, RunExec, Runs, At, Kind
  <2>5. Rest'
    <3> DEFINE a == task[t].at
               v == <<task[t].fd[0], task[t].fd[1]>>
    <3>1. /\ DOMAIN place' = DOMAIN place \cup {a} /\ place'[a] = v
          /\ \A p \in DOMAIN place \ {a} : place'[p] = place[p]
      <4>1. place' = With(place, a, v)
        BY <1>3 DEF RunExec
      <4> QED BY <4>1 DEF With
    <3>2. late' \subseteq late \cup {a}
      BY <1>3 DEF RunExec
    <3>3. Kind' = Kind /\ Flow' = Flow
      BY <2>2, KindSame, FlowSame
    <3> HIDE DEF v
    <3>4. Flow[a] = v /\ Kind[a] = "EXEC" /\ a \in Path
      BY <1>0, <2>4 DEF v
    <3> HIDE DEF a
    <3>5. \A p \in DOMAIN place' : p \in Path /\ Kind[p] = "EXEC" /\ place'[p] = Flow[p]
      BY <1>0, <3>1, <3>4 DEF Rest
    <3> QED BY <1>0, <2>2, <3>1, <3>2, <3>3, <3>5 DEF Rest
  <2> QED BY <1>0, <2>1, <2>2, <2>3, <2>5, StayTabled
<1>4. CASE ExecRead(t)
  <2>1. /\ Goto(t, "exec") /\ task[t].pc = "read" /\ UNCHANGED <<line, tree, place, late, refcnt, open>>
        /\ early' \subseteq early \cup {task[t].fd[0][2]}
    BY <1>4 DEF ExecRead
  <2>2. task[t].fd[0][2] \in DOMAIN open
    BY <1>0, <2>1, Numbers, FileKinds DEF TableOf, KnownIn
  <2>3. Rest'
    BY <1>0, <2>1, <2>2, FlowSame, KindSame DEF Rest
  <2>4. Goes(t, task[t].at, "exec", task[t].fd)
    BY <2>1, GotoGoes DEF Pc
  <2> QED BY <1>0, <2>1, <2>3, <2>4, StayTabled
<1>5. CASE ListRight(t)
  <2> DEFINE a == Append(task[t].at, 2)
  <2>1. UNCHANGED <<tree, refcnt, open>> /\ Rest' /\ task[t].pc = "list"
    BY <1>0, <1>5, RestSame DEF ListRight
  <2>2. Goes(t, a, "run", task[t].fd)
    BY <1>5, ListRightGoes
  <2>3. a \in Path /\ Prefix(task[t].at, a)
    BY <1>0, SonType, SonOrder
  <2>4. Flow[a] = Flow[task[t].at]
    <3>1. NodeAt(task[t].at).type = "LIST"
      BY <1>0, <2>1 DEF Ordered, OrderOf, KindOf, Kind
    <3>2. Streams(a) = Onward(task[t].at, 2, Streams(task[t].at))
      BY <1>0, StreamsSon
    <3>3. Streams(a) = Streams(task[t].at)
      BY <3>1, <3>2 DEF Onward
    <3> QED BY <1>0, <2>3, <3>3 DEF Flow
  <2>5. Flow[task[t].at] = <<task[t].fd[0], task[t].fd[1]>>
    BY <1>0, <2>1 DEF TableOf
  <2> HIDE DEF a
  <2> QED BY <2>1, <2>2, <2>3, <2>4, <2>5, StayTabled
<1> QED BY <1>1, <1>2, <1>3, <1>4, <1>5

LEMMA SonFlow ==
  ASSUME NEW p \in Path, NEW i \in {1, 2}
  PROVE  Append(p, i) \in Path /\ Flow[Append(p, i)] = Onward(p, i, Flow[p])
BY SonType, StreamsSon DEF Flow

\* A table that a creator keeps, or passes on.
LEMMA TableIs ==
  ASSUME NEW a, NEW c, NEW fd, NEW O, NEW R, NEW S, Distinct(fd), KnownIn(fd, O, R), Standard(fd),
         c # "read", c = "right" => a \in O,
         c \in {"run", "list", "right"} => S[a] = <<fd[0], fd[1]>>, c # "parse"
  PROVE  TableOf([at |-> a, pc |-> c, fd |-> fd], O, R, S)
<1> DEFINE r == [at |-> a, pc |-> c, fd |-> fd]
<1>1. r.at = a /\ r.pc = c /\ r.fd = fd
  OBVIOUS
<1> HIDE DEF r
<1>2. TableOf(r, O, R, S)
  BY <1>1 DEF TableOf
<1> QED BY <1>2 DEF r

\* A list or a "&" creates a son with the same table.
LEMMA CreateSteps ==
  ASSUME Ordered, Tabled, NEW t \in DOMAIN task, RunList(t) \/ RunBack(t)
  PROVE  Tabled'
<1> DEFINE at == task[t].at
           fd == task[t].fd
           son == Append(at, 1)
<1>1. PICK c \in {"list", "exit"} : Creates(t, c) /\ task[t].pc = "run"
  BY DEF RunList, RunBack, Runs
<1>2. At(t).type \in {"LIST", "BACK"}
  BY DEF RunList, RunBack, Runs
<1>3. /\ at \in Path /\ Rest /\ TableOf(task[t], DOMAIN open, DOMAIN refcnt, Flow)
      /\ DOMAIN open \subseteq Path
  BY Parts DEF Ordered, Tabled, TablesIn, FilesIn
<1>4. Makes(t, son, c, fd, fd)
  BY <1>1, CreatesMakes DEF Pc
<1>5. UNCHANGED <<tree, open>> /\ Rest' /\ refcnt' = CountedFor(fd)
  BY <1>1, <1>3, RestSame DEF Creates
<1>6. Flow[at] = <<fd[0], fd[1]>> /\ Distinct(fd) /\ KnownIn(fd, DOMAIN open, DOMAIN refcnt) /\ Standard(fd)
  BY <1>1, <1>3 DEF TableOf
<1>7. Flow[son] = Flow[at]
  <2>1. Flow[son] = Onward(at, 1, Flow[at])
    BY <1>3, SonFlow
  <2>2. NodeAt(at).type \in {"LIST", "BACK"}
    BY <1>2 DEF At
  <2> QED BY <2>1, <2>2 DEF Onward
<1> HIDE DEF at, fd, son
<1>8. TableOf([at |-> at, pc |-> c, fd |-> fd], DOMAIN open, DOMAIN refcnt, Flow)
  BY <1>6, TableIs
<1>9. TableOf([at |-> son, pc |-> "run", fd |-> fd], DOMAIN open, DOMAIN refcnt, Flow)
  BY <1>6, <1>7, TableIs
<1> QED BY <1>3, <1>4, <1>5, <1>8, <1>9, MakeTabled DEF at, fd

\* A pipe: the left son has the end to write to, and the creator keeps the other.
LEMMA PipeSteps ==
  ASSUME Ordered, Tabled, Roomy, NEW t \in DOMAIN task, RunPipe(t)
  PROVE  Tabled'
<1> DEFINE p == task[t].at
           fd == task[t].fd
           r == PipeFds(fd)[1]
           f1 == LeftTable(fd, p)
           f2 == Restored(f1, fd[1])
           son == Append(p, 1)
           O == DOMAIN open
           O2 == O \cup {p}
           R == DOMAIN refcnt
<1>1. task[t].pc = "run" /\ NodeAt(p).type = "PIPE"
  BY DEF RunPipe, Runs, At
<1>2. /\ p \in Path /\ fd \in Table /\ Rest /\ TableOf(task[t], O, R, Flow)
      /\ O \subseteq Path /\ FilesIn(task, refcnt, O)
  BY Parts DEF Ordered, Tabled, TablesIn, FilesIn
<1>3. Makes(t, son, "right", f2, f1)
  BY PipeMakes
<1>4. tree' = tree /\ refcnt' = CountedFor(f1) /\ DOMAIN open' = O2
  <2>1. open' = With(open, p, TRUE)
    BY DEF RunPipe
  <2>2. DOMAIN open' = O2
    BY <2>1 DEF With
  <2> QED BY <2>2 DEF RunPipe
<1>5. Rest'
  BY <1>2, <1>4, RestSame DEF RunPipe
<1>6. r \in Fd /\ fd[r] = None
  <2>1. \E i \in Fd : fd[i] = None
    BY <1>1 DEF Roomy, Runs, At
  <2>2. NewFd(fd) \in Fd /\ fd[NewFd(fd)] = None
    BY <2>1, NewPlace
  <2> QED BY <2>2 DEF PipeFds
<1>7. /\ Flow[p] = <<fd[0], fd[1]>> /\ Distinct(fd) /\ KnownIn(fd, O, R) /\ Standard(fd)
  BY <1>1, <1>2 DEF TableOf
<1>8. ~CreatedIn(task, p) /\ p \notin O
  BY <1>1, <1>2, Untouched DEF FilesIn
<1>9. /\ Distinct(f1) /\ KnownIn(f1, O2, R) /\ Standard(f1)
      /\ Distinct(f2) /\ KnownIn(f2, O2, R) /\ Standard(f2)
      /\ f1[0] = fd[0] /\ f1[1] = WriteEnd(p) /\ f2[0] = fd[0] /\ f2[1] = fd[1]
      /\ f2[r] = ReadEnd(p) /\ \A i \in Fd \ {r} : f2[i] = fd[i]
  <2>1. /\ fd \in Table /\ p \in Path /\ r \in Fd /\ fd[r] = None /\ p \notin O
        /\ Distinct(fd) /\ KnownIn(fd, O, R) /\ Standard(fd)
    BY <1>2, <1>6, <1>7, <1>8
  <2>2. r = PipeFds(fd)[1] /\ f1 = LeftTable(fd, p) /\ f2 = Restored(f1, fd[1])
    OBVIOUS
  <2> HIDE DEF r, fd, p, O, R, f1, f2
  <2>3. Splits(fd, O, R, p, r, f1, f2)
    BY <2>1, <2>2 DEF Splits
  <2> QED BY <2>3, LeftTables, SMTT(30)
<1>10. son \in Path /\ Flow[son] = <<f1[0], f1[1]>>
  <2>1. son \in Path /\ Flow[son] = Onward(p, 1, Flow[p])
    BY <1>2, SonFlow
  <2> QED BY <1>1, <1>7, <1>9, <2>1 DEF Onward
<1>11. O2 \subseteq Path /\ O \subseteq O2 /\ p \in O2 /\ \A q \in O2 \ O : q = p
  BY <1>2
<1>12. CreatedIn(task', p)
  <2>1. son \in DOMAIN task' /\ task'[son].at = son
    BY <1>3 DEF Makes
  <2>2. Prefix(son, son)
    BY <1>10, PrefixOrder
  <2> QED BY <2>1, <2>2 DEF CreatedIn
<1>13. \A f \in R, i \in Fd : f2[i] = f => fd[i] = f
  BY <1>2, <1>9, NoneUncounted, FileKinds
<1> HIDE DEF p, fd, r, f1, f2, son, O2
<1>14. TableOf([at |-> p, pc |-> "right", fd |-> f2], O2, R, Flow)
  BY <1>7, <1>9, <1>11, TableIs
<1>15. TableOf([at |-> son, pc |-> "run", fd |-> f1], O2, R, Flow)
  BY <1>9, <1>10, TableIs
<1>16. /\ O \subseteq DOMAIN open' /\ DOMAIN open' \subseteq Path /\ DOMAIN open' # {}
       /\ \A q \in DOMAIN open' \ O : CreatedIn(task', q)
  BY <1>4, <1>11, <1>12
<1>17. TableOf([at |-> task[t].at, pc |-> "right", fd |-> f2], DOMAIN open', R, Flow)
  BY <1>4, <1>14 DEF p
<1>18. TableOf([at |-> son, pc |-> "run", fd |-> f1], DOMAIN open', R, Flow)
  BY <1>4, <1>15
<1>19. \A f \in R, i \in Fd : f2[i] = f => task[t].fd[i] = f
  BY <1>13 DEF fd
<1> QED BY <1>3, <1>4, <1>5, <1>16, <1>17, <1>18, <1>19, MakeTabled

\* The right son reads from the pipe.
LEMMA RightSteps ==
  ASSUME Ordered, Tabled, NEW t \in DOMAIN task, PipeRight(t)
  PROVE  Tabled'
<1> DEFINE p == task[t].at
           fd == task[t].fd
           f1 == RightTable(fd, p)
           son == Append(p, 2)
           O == DOMAIN open
           R == DOMAIN refcnt
<1>1. task[t].pc = "right"
  BY DEF PipeRight
<1>2. /\ p \in Path /\ fd \in Table /\ Rest /\ TableOf(task[t], O, R, Flow)
      /\ O \subseteq Path /\ FilesIn(task, refcnt, O) /\ NodeAt(p).type = "PIPE"
  BY <1>1, Parts DEF Ordered, Tabled, TablesIn, FilesIn, OrderOf, KindOf, Kind
<1>3. Makes(t, son, "pipe", f1, f1)
  BY RightMakes
<1>4. UNCHANGED <<tree, open>> /\ refcnt' = CountedFor(f1) /\ Rest'
  BY <1>2, RestSame DEF PipeRight
<1>5. /\ Flow[p] = <<fd[0], fd[1]>> /\ Distinct(fd) /\ KnownIn(fd, O, R) /\ Standard(fd) /\ p \in O
  BY <1>1, <1>2 DEF TableOf
<1>6. /\ Distinct(f1) /\ KnownIn(f1, O, R) /\ Standard(f1)
      /\ f1[0] = ReadEnd(p) /\ f1[1] = fd[1]
      /\ \A i \in Fd : f1[i] \in {None, ReadEnd(p), fd[i]}
  <2>1. fd \in Table /\ p \in Path /\ p \in O /\ Distinct(fd) /\ KnownIn(fd, O, R) /\ Standard(fd)
    BY <1>2, <1>5
  <2> HIDE DEF p, fd, O, R
  <2> QED BY <2>1, RightTables
<1>7. Flow[son] = <<f1[0], f1[1]>>
  <2>1. Flow[son] = Onward(p, 2, Flow[p])
    BY <1>2, SonFlow
  <2> QED BY <1>2, <1>5, <1>6, <2>1 DEF Onward
<1>8. \A f \in R, i \in Fd : f1[i] = f => task[t].fd[i] = f
  BY <1>2, <1>6, NoneUncounted, FileKinds
<1> HIDE DEF p, fd, f1, son
<1>9. TableOf([at |-> p, pc |-> "pipe", fd |-> f1], O, R, Flow)
  BY <1>6, TableIs
<1>10. TableOf([at |-> son, pc |-> "run", fd |-> f1], O, R, Flow)
  BY <1>6, <1>7, TableIs
<1> QED BY <1>2, <1>3, <1>4, <1>5, <1>8, <1>9, <1>10, MakeTabled DEF p

\* A task goes on with a table that has lost the files of G, and may have a new one.
LEMMA LoseTabled ==
  ASSUME Ordered, Tabled, NEW t \in DOMAIN task, NEW a \in Path, NEW c, NEW fd, NEW G,
         Goes(t, a, c, fd), Prefix(task[t].at, a), tree' = tree, DOMAIN open' = DOMAIN open, Rest',
         DOMAIN refcnt \subseteq DOMAIN refcnt', refcnt' \in [DOMAIN refcnt' -> Int],
         TableOf([at |-> a, pc |-> c, fd |-> fd], DOMAIN open, DOMAIN refcnt', Flow),
         \A f \in DOMAIN refcnt : refcnt'[f] = IF f \in G THEN refcnt[f] - 1 ELSE refcnt[f],
         \A f \in DOMAIN refcnt \cap G : (\E x \in Fd : task[t].fd[x] = f) /\ \A i \in Fd : fd[i] # f,
         \A f \in DOMAIN refcnt \ G, i \in Fd : fd[i] = f <=> task[t].fd[i] = f,
         \A f \in DOMAIN refcnt' \ DOMAIN refcnt :
           /\ \E p \in Path : f = Target(p) /\ CreatedIn(task', p)
           /\ refcnt'[f] = Count(task', f)
  PROVE  Tabled'
<1>1. /\ DOMAIN task' = DOMAIN task /\ task'[t] = [at |-> a, pc |-> c, fd |-> fd]
      /\ \A s \in DOMAIN task \ {t} : task'[s] = task[s]
  BY DEF Goes
<1>2. FilesIn(task', refcnt', DOMAIN open)
  <2>1. \A p \in Path : CreatedIn(task, p) => CreatedIn(task', p)
    BY CreatedGoes
  <2>2. /\ IsFiniteSet(DOMAIN task) /\ Std \subseteq DOMAIN refcnt /\ DOMAIN open \subseteq Path
        /\ \A f \in DOMAIN refcnt : f \in Std \/ \E p \in Path : f = Target(p) /\ CreatedIn(task, p)
        /\ \A p \in DOMAIN open : CreatedIn(task, p)
    BY DEF Tabled, FilesIn
  <2>3. \A f \in DOMAIN refcnt' : f \in Std \/ \E p \in Path : f = Target(p) /\ CreatedIn(task', p)
    <3> SUFFICES ASSUME NEW f \in DOMAIN refcnt', f \notin Std
                 PROVE  \E p \in Path : f = Target(p) /\ CreatedIn(task', p)
      OBVIOUS
    <3>1. CASE f \in DOMAIN refcnt
      <4>1. PICK p \in Path : f = Target(p) /\ CreatedIn(task, p)
        BY <2>2, <3>1
      <4> QED BY <2>1, <4>1
    <3>2. CASE f \notin DOMAIN refcnt
      BY <3>2
    <3> QED BY <3>1, <3>2
  <2>4. Std \subseteq DOMAIN refcnt' /\ \A p \in DOMAIN open : CreatedIn(task', p)
    BY <2>1, <2>2
  <2> QED BY <1>1, <2>2, <2>3, <2>4 DEF FilesIn
<1>3. TablesIn(task', refcnt', DOMAIN open, Flow)
  <2> SUFFICES ASSUME NEW s \in DOMAIN task
               PROVE  TableOf(task'[s], DOMAIN open, DOMAIN refcnt', Flow)
    BY <1>1 DEF TablesIn
  <2>1. CASE s = t
    BY <1>1, <2>1
  <2>2. CASE s # t
    <3>1. TableOf(task[s], DOMAIN open, DOMAIN refcnt, Flow)
      BY DEF Tabled, TablesIn
    <3>2. TableOf(task[s], DOMAIN open, DOMAIN refcnt', Flow)
      BY <3>1, TableStays
    <3> QED BY <1>1, <2>2, <3>2
  <2> QED BY <2>1, <2>2
<1>4. CountFor(task', refcnt', DOMAIN open)
  <2>1. /\ IsFiniteSet(DOMAIN task) /\ refcnt \in [DOMAIN refcnt -> Int] /\ None \notin DOMAIN refcnt
        /\ CountFor(task, refcnt, DOMAIN open) /\ Distinct(task[t].fd)
    BY NoneUncounted DEF Tabled, FilesIn, TablesIn, TableOf
  <2>2. task'[t].fd = fd
    BY <1>1
  <2>3. /\ \A f \in DOMAIN refcnt \cap G :
             (\E x \in Fd : task[t].fd[x] = f) /\ \A i \in Fd : task'[t].fd[i] # f
        /\ \A f \in DOMAIN refcnt \ G, i \in Fd : task'[t].fd[i] = f <=> task[t].fd[i] = f
    BY <2>2
  <2> SUFFICES ASSUME NEW f \in DOMAIN refcnt'
               PROVE  IF DOMAIN open = {} THEN refcnt'[f] = Count(task', f)
                      ELSE refcnt'[f] >= Count(task', f)
    BY DEF CountFor
  <2>4. CASE f \in DOMAIN refcnt
    <3>1. refcnt'[f] = IF f \in G THEN refcnt[f] - 1 ELSE refcnt[f]
      BY <2>4
    <3>2. Loses(task, task', refcnt, DOMAIN open, t, G)
      BY <1>1, <2>1, <2>3 DEF Loses
    <3> QED BY <2>4, <3>1, <3>2, CountLess
  <2>5. CASE f \notin DOMAIN refcnt
    <3>1. refcnt'[f] = Count(task', f) /\ refcnt'[f] \in Int
      BY <2>5
    <3> QED BY <3>1
  <2> QED BY <2>4, <2>5
<1> QED BY <1>2, <1>3, <1>4, FlowSame DEF Tabled

LEMMA ClosesIs ==
  ASSUME Tabled, NEW G, Closes(G)
  PROVE  /\ DOMAIN refcnt' = DOMAIN refcnt /\ DOMAIN open' = DOMAIN open
         /\ refcnt' \in [DOMAIN refcnt' -> Int]
         /\ \A f \in DOMAIN refcnt : refcnt'[f] = IF f \in G THEN refcnt[f] - 1 ELSE refcnt[f]
<1>1. refcnt \in [DOMAIN refcnt -> Int]
  BY DEF Tabled, FilesIn
<1>2. /\ refcnt' = [f \in DOMAIN refcnt |-> IF f \in G THEN refcnt[f] - 1 ELSE refcnt[f]]
      /\ open' = [p \in DOMAIN open |-> open[p] /\ G \cap {ReadEnd(p), WriteEnd(p)} = {}]
  BY DEF Closes, ClosesWith
<1>3. DOMAIN open' = DOMAIN open
  BY <1>2
<1> QED BY <1>1, <1>2, <1>3

\* exit closes what the table has.
LEMMA ExitSteps ==
  ASSUME Ordered, Tabled, NEW t \in DOMAIN task, Exit(t)
  PROVE  Tabled'
<1> DEFINE at == task[t].at
           G == Files(task[t].fd)
<1>1. Goes(t, at, "end", Emptied) /\ Closes(G) /\ tree' = tree
  BY ExitGoes DEF Exit
<1>2. at \in Path /\ Prefix(at, at) /\ Rest
  BY Parts, PrefixOrder DEF Ordered, Tabled
<1>3. /\ DOMAIN refcnt' = DOMAIN refcnt /\ DOMAIN open' = DOMAIN open
      /\ refcnt' \in [DOMAIN refcnt' -> Int]
      /\ \A f \in DOMAIN refcnt : refcnt'[f] = IF f \in G THEN refcnt[f] - 1 ELSE refcnt[f]
  BY <1>1, ClosesIs
<1>4. Rest'
  BY <1>2, <1>3, RestSame DEF Exit
<1>5. \A f \in DOMAIN refcnt : f # None
  BY NoneUncounted DEF Tabled
<1>6. /\ \A f \in DOMAIN refcnt \cap G : (\E x \in Fd : task[t].fd[x] = f) /\ \A i \in Fd : Emptied[i] # f
      /\ \A f \in DOMAIN refcnt \ G, i \in Fd : Emptied[i] = f <=> task[t].fd[i] = f
  BY <1>5 DEF Files, Emptied
<1>7. TableOf([at |-> at, pc |-> "end", fd |-> Emptied], DOMAIN open, DOMAIN refcnt, Flow)
  <2> DEFINE r == [at |-> at, pc |-> "end", fd |-> Emptied]
  <2>1. Distinct(Emptied) /\ KnownIn(Emptied, DOMAIN open, DOMAIN refcnt)
    BY DEF Distinct, KnownIn, Emptied
  <2>2. r.pc = "end" /\ r.fd = Emptied
    OBVIOUS
  <2> HIDE DEF r
  <2>3. TableOf(r, DOMAIN open, DOMAIN refcnt, Flow)
    BY <2>1, <2>2 DEF TableOf
  <2> QED BY <2>3 DEF r
<1> HIDE DEF G
<1> QED BY <1>1, <1>2, <1>3, <1>4, <1>6, <1>7, LoseTabled, SMTT(30)

\* A redirection: the old file is closed, and the place it had is the new one's.
LEMMA RedirSteps ==
  ASSUME Ordered, Tabled, Roomy, NEW t \in DOMAIN task, RunRedir(t)
  PROVE  Tabled'
<1> DEFINE p == task[t].at
           fd == task[t].fd
           x == At(t).fd
           g == fd[x]
           new == Target(p)
           son == Append(p, 1)
           f1 == Cleared(t)
           f2 == [f1 EXCEPT ![x] = new]
           O == DOMAIN open
           R == DOMAIN refcnt
<1>1. task[t].pc = "run" /\ NodeAt(p).type = "REDIR" /\ x \in {0, 1} /\ NodeAt(p).fd = x
  BY DEF RunRedir, Runs, At, Roomy
<1>2. /\ p \in Path /\ fd \in Table /\ Rest /\ TableOf(task[t], O, R, Flow) /\ x \in Fd
      /\ FilesIn(task, refcnt, O) /\ Prefix(p, p) /\ son \in Path /\ Prefix(p, son)
      /\ Flow[son] = Onward(p, 1, Flow[p])
  <2>1. /\ p \in Path /\ fd \in Table /\ Rest /\ TableOf(task[t], O, R, Flow) /\ x \in Fd
        /\ FilesIn(task, refcnt, O)
    BY <1>1, Parts, Numbers DEF Ordered, Tabled, TablesIn
  <2> HIDE DEF p
  <2>2. Prefix(p, p) /\ son \in Path /\ Flow[son] = Onward(p, 1, Flow[p])
    BY <2>1, PrefixOrder, SonFlow
  <2>3. Prefix(p, son)
    BY <2>1, <2>2, SonOrder
  <2> QED BY <2>1, <2>2, <2>3
<1>3. Flow[p] = <<fd[0], fd[1]>> /\ Distinct(fd) /\ KnownIn(fd, O, R) /\ Standard(fd)
  BY <1>1, <1>2 DEF TableOf
<1>4. new \notin R
  <2> SUFFICES ASSUME new \in R PROVE FALSE
    OBVIOUS
  <2>1. new \notin Std
    BY FileKinds DEF Std
  <2>2. PICK q \in Path : new = Target(q) /\ CreatedIn(task, q)
    BY <1>2, <2>1 DEF FilesIn
  <2>3. q = p
    BY <2>2, FileKinds
  <2> QED BY <1>1, <2>2, <2>3, Untouched
<1>5. \A s \in DOMAIN task, i \in Fd : task[s].fd[i] # new
  <2> SUFFICES ASSUME NEW s \in DOMAIN task, NEW i \in Fd, task[s].fd[i] = new PROVE FALSE
    OBVIOUS
  <2>1. KnownIn(task[s].fd, O, R)
    BY DEF Tabled, TablesIn, TableOf
  <2>2. new # None /\ ~IsPipe(new)
    BY FileKinds
  <2> QED BY <1>4, <2>1, <2>2 DEF KnownIn
<1>6. f1 = [fd EXCEPT ![x] = None]
  BY DEF Cleared
<1> HIDE DEF f1
<1>7. /\ Distinct(f1) /\ KnownIn(f1, O, R)
      /\ Distinct(f2) /\ KnownIn(f2, O, R \cup {new}) /\ Standard(f2)
      /\ f2[0] = (IF x = 0 THEN new ELSE fd[0]) /\ f2[1] = (IF x = 1 THEN new ELSE fd[1])
  <2>1. \A i \in Fd : fd[i] # new
    BY <1>5
  <2>2. f2 = [f1 EXCEPT ![x] = new]
    OBVIOUS
  <2> HIDE DEF p, fd, x, O, R, f2
  <2>3. Replaces(fd, O, R, x, p, f1, f2)
    BY <1>1, <1>2, <1>3, <1>6, <2>1, <2>2 DEF Replaces
  <2> QED BY <2>3, RedirTable
<1>8. /\ f1[x] = None /\ \A i \in Fd \ {x} : f1[i] = fd[i]
      /\ f2[x] = new /\ \A i \in Fd \ {x} : f2[i] = fd[i]
  BY <1>2, <1>6 DEF Table
<1>9. \A f \in R : f # None
  BY <1>2, NoneUncounted
<1>10. /\ \A f \in R \cap {g} : (\E i \in Fd : fd[i] = f) /\ \A i \in Fd : f1[i] # f /\ f2[i] # f
       /\ \A f \in R \ {g}, i \in Fd : (f1[i] = f <=> fd[i] = f) /\ (f2[i] = f <=> fd[i] = f)
  <2>1. ASSUME g \in R PROVE \A i \in Fd \ {x} : fd[i] # g
    BY <1>2, <1>3, <1>9, <2>1 DEF Distinct
  <2>2. \A f \in R : new # f
    BY <1>4
  <2> HIDE DEF f2, new, R
  <2> QED BY <1>2, <1>8, <1>9, <2>1, <2>2
<1>11. ASSUME Goes(t, p, "exit", f1), Closes({g}) PROVE Tabled'
  <2>1. /\ DOMAIN refcnt' = R /\ DOMAIN open' = O /\ refcnt' \in [DOMAIN refcnt' -> Int]
        /\ \A f \in R : refcnt'[f] = IF f \in {g} THEN refcnt[f] - 1 ELSE refcnt[f]
    BY <1>11, ClosesIs
  <2>2. tree' = tree /\ Rest'
    BY <1>2, <2>1, RestSame DEF RunRedir
  <2>3. TableOf([at |-> p, pc |-> "exit", fd |-> f1], O, R, Flow)
    <3> DEFINE r == [at |-> p, pc |-> "exit", fd |-> f1]
    <3>1. r.pc = "exit" /\ r.fd = f1
      OBVIOUS
    <3> HIDE DEF r
    <3>2. TableOf(r, O, R, Flow)
      BY <1>7, <3>1 DEF TableOf
    <3> QED BY <3>2 DEF r
  <2> DEFINE G == {g}
  <2>4. \A f \in R \cap G : (\E i \in Fd : task[t].fd[i] = f) /\ \A i \in Fd : f1[i] # f
    BY <1>10
  <2>5. \A f \in R \ G, i \in Fd : f1[i] = f <=> task[t].fd[i] = f
    BY <1>10
  <2>6. \A f \in R : refcnt'[f] = IF f \in G THEN refcnt[f] - 1 ELSE refcnt[f]
    BY <2>1
  <2> HIDE DEF G
  <2> QED BY <1>2, <1>11, <2>1, <2>2, <2>3, <2>4, <2>5, <2>6, LoseTabled, SMTT(30)
<1>12. ASSUME Goes(t, son, "run", f2), DOMAIN open' = O,
              refcnt' = With([h \in R |-> IF h = g THEN refcnt[h] - 1 ELSE refcnt[h]], new, 1)
       PROVE  Tabled'
  <2>1. /\ DOMAIN refcnt' = R \cup {new} /\ refcnt'[new] = 1
        /\ \A f \in R : refcnt'[f] = IF f \in {g} THEN refcnt[f] - 1 ELSE refcnt[f]
        /\ refcnt' \in [DOMAIN refcnt' -> Int]
    <3>1. refcnt \in [R -> Int]
      BY <1>2 DEF FilesIn
    <3> HIDE DEF g, new, R
    <3> QED BY <1>4, <1>12, <3>1 DEF With
  <2>2. tree' = tree /\ Rest'
    BY <1>2, <1>12, RestSame DEF RunRedir
  <2>3. Flow[son] = <<f2[0], f2[1]>>
    BY <1>1, <1>2, <1>3, <1>7 DEF Onward
  <2>4. TableOf([at |-> son, pc |-> "run", fd |-> f2], O, R \cup {new}, Flow)
    <3> HIDE DEF son, f2, O, R, new
    <3> QED BY <1>7, <2>3, TableIs
  <2>5. CreatedIn(task', p)
    <3>1. t \in DOMAIN task' /\ task'[t].at = son /\ Prefix(son, son)
      BY <1>2, <1>12, PrefixOrder DEF Goes
    <3> QED BY <3>1 DEF CreatedIn
  <2>6. Count(task', new) = 1
    <3>1. DOMAIN task' = DOMAIN task /\ task'[t].fd = f2 /\ \A s \in DOMAIN task \ {t} : task'[s] = task[s]
      BY <1>12 DEF Goes
    <3>2. \A i \in Fd : f2[i] = new <=> i = x
      BY <1>5, <1>8
    <3>3. HeldIn(task', new) = {<<t, x>>}
      <4> HIDE DEF new, x, f2
      <4> QED BY <1>2, <1>5, <3>1, <3>2 DEF HeldIn
    <3>4. new \notin Std
      BY FileKinds DEF Std
    <3>5. Cardinality({<<t, x>>}) = 1
      BY FS_Singleton
    <3> QED BY <3>3, <3>4, <3>5 DEF Count
  <2> DEFINE G == {g}
  <2>7. \A f \in R \cap G : (\E i \in Fd : task[t].fd[i] = f) /\ \A i \in Fd : f2[i] # f
    BY <1>10
  <2>8. \A f \in R \ G, i \in Fd : f2[i] = f <=> task[t].fd[i] = f
    BY <1>10
  <2>9. \A f \in R : refcnt'[f] = IF f \in G THEN refcnt[f] - 1 ELSE refcnt[f]
    BY <2>1
  <2>10. /\ R \subseteq DOMAIN refcnt'
         /\ \A f \in DOMAIN refcnt' \ R :
              (\E q \in Path : f = Target(q) /\ CreatedIn(task', q)) /\ refcnt'[f] = Count(task', f)
    BY <1>2, <2>1, <2>5, <2>6
  <2>11. TableOf([at |-> son, pc |-> "run", fd |-> f2], O, DOMAIN refcnt', Flow)
    BY <2>1, <2>4
  <2> HIDE DEF G, f2, son
  <2> QED BY <1>2, <1>12, <2>1, <2>2, <2>7, <2>8, <2>9, <2>10, <2>11, LoseTabled, SMTT(30)
<1>13. \/ Goes(t, p, "exit", f1) /\ Closes({g})
       \/ /\ Goes(t, son, "run", f2) /\ DOMAIN open' = O
          /\ refcnt' = With([h \in R |-> IF h = g THEN refcnt[h] - 1 ELSE refcnt[h]], new, 1)
  <2>1. \/ Goes(t, p, "exit", f1) /\ Closes({g})
        \/ /\ Goes(t, son, "run", Redirected(t)) /\ NewFd(f1) = x /\ DOMAIN open' = O
           /\ refcnt' = With([h \in R |-> IF h = g THEN refcnt[h] - 1 ELSE refcnt[h]], new, 1)
    BY RedirGoes DEF f1
  <2>2. NewFd(f1) = x => Redirected(t) = f2
    BY DEF Redirected, f1
  <2> QED BY <2>1, <2>2
<1> QED BY <1>11, <1>12, <1>13

LEMMA ShellTable ==
  ASSUME NEW O, NEW S, S[<<>>] = <<In, Out>>
  PROVE  TableOf(Rooted, O, Std, S) /\ Distinct(ShellFd)
<1>1. /\ ShellFd[0] = In /\ ShellFd[1] = Out /\ ShellFd[2] = Err
      /\ \A i \in Fd \ {0, 1, 2} : ShellFd[i] = None
  BY Numbers DEF ShellFd
<1>2. In # Out /\ In # Err /\ Out # Err
  BY FileKinds
<1>3. Distinct(ShellFd)
  BY <1>1, <1>2 DEF Distinct
<1>4. KnownIn(ShellFd, O, Std)
  BY <1>1, FileKinds DEF KnownIn, Std
<1>5. Standard(ShellFd)
  BY <1>1, FileKinds DEF Standard
<1>6. Rooted.at = <<>> /\ Rooted.pc = "parse" /\ Rooted.fd = ShellFd
  BY DEF Rooted
<1> QED BY <1>1, <1>3, <1>4, <1>5, <1>6 DEF TableOf

LEMMA EnterSteps == ASSUME Ordered, Tabled, Enter PROVE Tabled'
<1>1. DOMAIN task = {} /\ DOMAIN task' = {<<>>} /\ task'[<<>>] = Rooted
  BY EnterMakes
<1>2. FilesIn(task, refcnt, DOMAIN open) /\ CountFor(task, refcnt, DOMAIN open) /\ Rest
  BY DEF Tabled
<1>3. DOMAIN refcnt = Std /\ DOMAIN open = {}
  BY <1>1, <1>2 DEF FilesIn, CreatedIn
<1>4. UNCHANGED <<tree, open>> /\ refcnt' = CountedFor(ShellFd) /\ Rest'
  BY <1>2, RestSame DEF Enter
<1>5. DOMAIN refcnt' = Std /\ refcnt' \in [Std -> Int]
  BY <1>2, <1>3, <1>4 DEF CountedFor, FilesIn
<1>6. FilesIn(task', refcnt', {})
  <2>1. IsFiniteSet(DOMAIN task')
    BY <1>1, FS_Singleton
  <2> QED BY <1>5, <2>1 DEF FilesIn
<1>7. Flow[<<>>] = <<In, Out>>
  <2>1. <<>> \in Path
    BY DEF Path
  <2> QED BY <2>1, StreamsRoot DEF Flow
<1>8. TablesIn(task', refcnt', {}, Flow)
  BY <1>1, <1>5, <1>7, ShellTable DEF TablesIn
<1>9. CountFor(task', refcnt', {})
  <2>1. IsFiniteSet(DOMAIN task) /\ refcnt \in [DOMAIN refcnt -> Int] /\ None \notin DOMAIN refcnt
    BY <1>2, NoneUncounted DEF FilesIn
  <2>2. refcnt' = [f \in DOMAIN refcnt |-> IF f \in Files(ShellFd) THEN refcnt[f] + 1 ELSE refcnt[f]]
    BY <1>4 DEF CountedFor
  <2>3. task'[<<>>].fd = ShellFd /\ Distinct(ShellFd)
    BY <1>1, <1>7, ShellTable DEF Rooted
  <2>4. <<>> \notin DOMAIN task /\ DOMAIN task' = DOMAIN task \cup {<<>>}
    BY <1>1
  <2>5. \A f \in DOMAIN refcnt, s \in DOMAIN task, i \in Fd : task'[s].fd[i] = f => task[s].fd[i] = f
    BY <1>1
  <2>6. \/ DOMAIN open # {}
        \/ /\ DOMAIN open = DOMAIN open
           /\ \A f \in DOMAIN refcnt, s \in DOMAIN task, i \in Fd :
                task'[s].fd[i] = f <=> task[s].fd[i] = f
    BY <1>1
  <2>7. CountFor(task', refcnt', DOMAIN open)
    BY <1>2, <2>1, <2>2, <2>3, <2>4, <2>5, <2>6, CountMore
  <2> QED BY <1>3, <2>7
<1> QED BY <1>3, <1>4, <1>6, <1>8, <1>9, FlowSame DEF Tabled

LEMMA TabledStart == Init => Tabled
<1> SUFFICES ASSUME Init PROVE Tabled
  OBVIOUS
<1>1. DOMAIN task = {} /\ DOMAIN open = {} /\ DOMAIN place = {} /\ late = {} /\ early = {}
  BY DEF Init
<1>2. refcnt = [f \in Std |-> 1] /\ line \in Line
  BY DEF Init, Std
<1>3. FilesIn(task, refcnt, DOMAIN open)
  <2>1. IsFiniteSet(DOMAIN task)
    BY <1>1, FS_EmptySet
  <2> QED BY <1>1, <1>2, <2>1 DEF FilesIn
<1>4. TablesIn(task, refcnt, DOMAIN open, Flow)
  BY <1>1 DEF TablesIn
<1>5. CountFor(task, refcnt, DOMAIN open)
  <2>1. \A f : HeldIn(task, f) = {}
    BY <1>1 DEF HeldIn
  <2>2. Cardinality({}) = 0
    BY FS_EmptySet
  <2> QED BY <1>2, <2>1, <2>2 DEF CountFor, Count
<1> QED BY <1>1, <1>2, <1>3, <1>4, <1>5 DEF Tabled, Rest

LEMMA TabledStep == Ordered /\ Tabled /\ Roomy /\ [Next]_vars => Tabled'
<1> SUFFICES ASSUME Ordered, Tabled, Roomy, [Next]_vars PROVE Tabled'
  OBVIOUS
<1>1. CASE Enter
  BY <1>1, EnterSteps
<1>2. CASE Prompt \/ NextLine \/ UNCHANGED vars
  <2>1. UNCHANGED <<line, tree, task, refcnt, open, place, late, early>>
    BY <1>2 DEF Prompt, NextLine, vars
  <2>2. Flow' = Flow /\ Kind' = Kind
    BY <2>1, FlowSame, KindSame
  <2> QED BY <2>1, <2>2 DEF Tabled, Rest
<1>3. ASSUME NEW t \in DOMAIN task,
             \/ Parse(t) \/ RunNothing(t) \/ RunExec(t) \/ ExecEnd(t) \/ ExecRead(t) \/ ListRight(t)
             \/ PipeEnd(t)
      PROVE  Tabled'
  BY <1>3, StaySteps
<1>4. ASSUME NEW t \in DOMAIN task, RunRedir(t) PROVE Tabled'
  BY <1>4, RedirSteps
<1>5. ASSUME NEW t \in DOMAIN task, RunList(t) \/ RunBack(t) PROVE Tabled'
  BY <1>5, CreateSteps
<1>6. ASSUME NEW t \in DOMAIN task, RunPipe(t) PROVE Tabled'
  BY <1>6, PipeSteps
<1>7. ASSUME NEW t \in DOMAIN task, PipeRight(t) PROVE Tabled'
  BY <1>7, RightSteps
<1>8. ASSUME NEW t \in DOMAIN task, Exit(t) PROVE Tabled'
  BY <1>8, ExitSteps
<1> QED BY <1>1, <1>2, <1>3, <1>4, <1>5, <1>6, <1>7, <1>8 DEF Next

LEMMA TabledRight == Ordered /\ Tabled => TablesRight
<1> SUFFICES ASSUME Ordered, Tabled PROVE TablesRight
  OBVIOUS
<1>1. Rest /\ FilesIn(task, refcnt, DOMAIN open) /\ CountFor(task, refcnt, DOMAIN open)
  BY DEF Tabled
<1>2. \A f : Holders(f) = Count(task, f) /\ Count(task, f) \in Nat
  <2> TAKE f
  <2>1. Cardinality(HeldIn(task, f)) \in Nat
    BY <1>1, HeldFinite DEF FilesIn
  <2>2. Held(f) = HeldIn(task, f)
    BY DEF Held, HeldIn
  <2> QED BY <2>1, <2>2 DEF Holders, Count, Std
<1>3. CountsCover
  BY <1>1, <1>2 DEF CountsCover, CountFor
<1>4. \A f \in DOMAIN refcnt : refcnt[f] >= 0
  <2> SUFFICES ASSUME NEW f \in DOMAIN refcnt PROVE refcnt[f] >= 0
    OBVIOUS
  <2>1. Count(task, f) \in Nat /\ refcnt[f] \in Int
    BY <1>1, <1>2 DEF FilesIn
  <2>2. refcnt[f] = Count(task, f) \/ refcnt[f] >= Count(task, f)
    BY <1>1 DEF CountFor
  <2> QED BY <2>1, <2>2
<1>5. Placed
  BY <1>1 DEF Placed, Rest, Kind, Flow
<1>6. ASSUME NEW t \in DOMAIN task
      PROVE  /\ task[t].pc \in Pc
             /\ task[t].pc \notin {"exit", "end"} => \A i \in {0, 1, 2} : task[t].fd[i] # None
             /\ \A i \in Fd : IsPipe(task[t].fd[i]) => task[t].fd[i][2] \in DOMAIN open
  <2>1. task[t].pc \in Pc /\ TableOf(task[t], DOMAIN open, DOMAIN refcnt, Flow)
    BY Parts DEF Ordered, Tabled, TablesIn
  <2>2. Standard(task[t].fd) => \A i \in {0, 1, 2} : task[t].fd[i] # None
    BY FileKinds DEF Standard
  <2>3. \A i \in Fd : IsPipe(task[t].fd[i]) => task[t].fd[i][2] \in DOMAIN open
    BY <2>1, FileKinds DEF TableOf, KnownIn
  <2> QED BY <2>1, <2>2, <2>3 DEF TableOf
<1>7. TypeOK
  BY <1>1, <1>4, <1>6 DEF TypeOK, Rest, Ordered, Root
<1> QED BY <1>3, <1>5, <1>7 DEF TablesRight

\* As long as the tables have room for the ends of the pipes, every command of every
\* line reads and writes what its place in the tree says, no waiting or running task
\* is without one of its three files, and no file is counted below its holders.
THEOREM TablesRightHolds == Spec /\ []Roomy => []TablesRight
<1>1. Spec => []Ordered
  BY AlwaysOrdered
<1>2. Spec /\ []Roomy => []Tabled
  BY <1>1, TabledStart, TabledStep, PTL DEF Spec
<1> QED BY <1>1, <1>2, TabledRight, PTL
=============================================================================
