---------------------------- MODULE VfileProofs ----------------------------
(***************************************************************************)
(* Theorems about Vfile, for any number of tasks and files: the reference   *)
(* counts are exact, and the memory of an open file goes back once, until   *)
(* two tasks close a file last at once; and these were not both waited for. *)
(***************************************************************************)
EXTENDS Vfile, FiniteSetTheorems, TLAPS

\* A task that has died has no files; one that opens or closes a file has it.
ArgInv ==
    /\ \A t \in Task : pc[t] = "absent" => fd[t] = {}
    /\ \A t \in Task : pc[t] \in {"close", "exitclose"} => arg[t] \in fd[t]
    /\ \A t \in Task : pc[t] = "open" => arg[t] \in File

\* A task that is being created gets files its creator has, each once, and the
\* creator does nothing else meanwhile.
NewInv ==
    /\ \A k \in Task : pc[k] = "new" =>
         /\ parent[k] \in Task /\ pc[parent[k]] = "fork"
         /\ todo[k] \subseteq fd[parent[k]] /\ todo[k] \cap fd[k] = {}
    /\ \A k, l \in Task : pc[k] = "new" /\ pc[l] = "new" /\ parent[k] = parent[l] => k = l

\* Only a task that runs or creates has sons that live and that it waits for.
SonsInv == \A t, k \in Task : parent[k] = t /\ pc[k] # "absent" => pc[t] \in {"run", "fork"}

\* This holds at all times.
Shape == TypeOK /\ ArgInv /\ NewInv /\ SonsInv

\* A file in any table is memory in use, and the one that is being opened is in no
\* other table.
LiveInv ==
    /\ \A t \in Task : \A f \in fd[t] : fence[f]
    /\ \A t \in Task : pc[t] = "open" => arg[t] \in fd[t] /\ dropped[arg[t]] = 0
    /\ \A t, u \in Task : pc[t] = "open" /\ t # u => arg[t] \notin fd[u]

\* Of a file whose count has come down to 0, one task at most is about to test it.
LastInv == \A f \in File : fence[f] /\ refcnt[f] = 0 =>
               \A t, u \in Leaving(f) : t = u

\* Files spread from creators to sons alone: of two that have a file one was given
\* it by its creator, who still has it, unless it was forgotten.
SpreadInv ==
    \A t, u \in Task : \A f \in fd[t] \cap fd[u] :
        \/ t = u
        \/ dropped[f] > 0
        \/ parent[t] \in Task /\ f \in fd[parent[t]]
        \/ parent[u] \in Task /\ f \in fd[parent[u]]

CountInv ==
    /\ \A f \in File : fence[f] => refcnt[f] = Cardinality(Holding(f)) + dropped[f]
    /\ \A f \in File : fence[f] => dropped[f] > 0 \/ \E t \in Task : f \in fd[t]

\* This holds until two tasks close a file last at once.
Orderly == LiveInv /\ LastInv /\ CountInv /\ ~alert /\ (backed \/ SpreadInv)

IInv == Shape /\ (raced => backed) /\ (raced \/ Orderly)

-----------------------------------------------------------------------------
LEMMA HoldingFinite ==
    \A f \in File : IsFiniteSet(Holding(f)) /\ Cardinality(Holding(f)) \in Nat
<1> SUFFICES ASSUME NEW f \in File
             PROVE  IsFiniteSet(Holding(f)) /\ Cardinality(Holding(f)) \in Nat
  OBVIOUS
<1>1. Holding(f) \in SUBSET Task
  BY DEF Holding
<1> QED BY <1>1, FS_Subset, FS_CardinalityType, VfileAssumption

\* The count of a file in use, and who is there when it is small.
LEMMA Counted ==
    ASSUME Shape, Orderly, NEW f \in File, fence[f]
    PROVE  /\ refcnt[f] = Cardinality(Holding(f)) + dropped[f]
           /\ dropped[f] \in Nat /\ Cardinality(Holding(f)) \in Nat /\ refcnt[f] \in Nat
           /\ refcnt[f] = 0 => dropped[f] = 0 /\ Holding(f) = {}
           /\ \A t \in Holding(f) : refcnt[f] = 1 => dropped[f] = 0 /\ Holding(f) = {t}
<1>1. refcnt[f] = Cardinality(Holding(f)) + dropped[f] /\ dropped[f] \in Nat
  BY VfileAssumption DEF Orderly, CountInv, Shape, TypeOK
<1>2. IsFiniteSet(Holding(f)) /\ Cardinality(Holding(f)) \in Nat
  BY HoldingFinite
<1>3. Cardinality(Holding(f)) = 0 => Holding(f) = {}
  BY <1>2, FS_EmptySet
<1>4. ASSUME NEW t \in Holding(f) PROVE refcnt[f] = 1 => dropped[f] = 0 /\ Holding(f) = {t}
  <2>1. /\ IsFiniteSet(Holding(f) \ {t})
        /\ Cardinality(Holding(f) \ {t}) = Cardinality(Holding(f)) - 1
    BY <1>2, <1>4, FS_RemoveElement
  <2>2. Cardinality(Holding(f) \ {t}) \in Nat
    BY <2>1, FS_CardinalityType
  <2>3. refcnt[f] = 1 => dropped[f] = 0 /\ Cardinality(Holding(f) \ {t}) = 0
    BY <1>1, <1>2, <2>1, <2>2
  <2>4. Cardinality(Holding(f) \ {t}) = 0 => Holding(f) \ {t} = {}
    BY <2>1, FS_EmptySet
  <2> QED BY <1>4, <2>3, <2>4
<1> QED BY <1>1, <1>2, <1>3, <1>4

LEMMA CountAdded ==
    ASSUME Shape, Orderly, NEW f \in File, NEW t \in Task, fence[f], t \notin Holding(f)
    PROVE  Cardinality(Holding(f) \cup {t}) + dropped[f] = refcnt[f] + 1
<1> DEFINE n == Cardinality(Holding(f))
           m == Cardinality(Holding(f) \cup {t})
<1>1. refcnt[f] = n + dropped[f] /\ dropped[f] \in Nat /\ n \in Nat
  BY Counted
<1>2. m = n + 1
  BY HoldingFinite, FS_AddElement
<1> HIDE DEF n, m
<1>3. m + dropped[f] = refcnt[f] + 1
  BY <1>1, <1>2
<1> QED BY <1>3 DEF m

LEMMA CountRemoved ==
    ASSUME Shape, Orderly, NEW f \in File, NEW t \in Task, fence[f], t \in Holding(f)
    PROVE  Cardinality(Holding(f) \ {t}) + dropped[f] = refcnt[f] - 1
<1> DEFINE n == Cardinality(Holding(f))
           m == Cardinality(Holding(f) \ {t})
<1>1. refcnt[f] = n + dropped[f] /\ dropped[f] \in Nat /\ n \in Nat
  BY Counted
<1>2. m = n - 1
  BY HoldingFinite, FS_RemoveElement
<1> HIDE DEF n, m
<1>3. m + dropped[f] = refcnt[f] - 1
  BY <1>1, <1>2
<1> QED BY <1>3 DEF m

\* Who is about to test a count of 0 is the last one who has the file.
LEMMA LastUser ==
    ASSUME Shape, Orderly, NEW t \in Task, pc[t] \in {"close", "exitclose"},
           refcnt[arg[t]] = 0
    PROVE  dropped[arg[t]] = 0 /\ \A u \in Task \ {t} : arg[t] \notin fd[u]
<1> DEFINE f == arg[t]
<1> USE DEF Shape, Orderly
<1>1. f \in fd[t] /\ f \in File /\ fence[f] /\ t \in Leaving(f)
  BY DEF ArgInv, TypeOK, LiveInv, Leaving
<1>2. dropped[f] = 0 /\ Holding(f) = {}
  BY <1>1, Counted
<1>3. ASSUME NEW u \in Task, u # t, f \in fd[u] PROVE FALSE
  <2>1. ~(pc[u] = "open" /\ arg[u] = f)
    BY <1>1, <1>3 DEF LiveInv
  <2>2. u \in Leaving(f)
    BY <1>2, <1>3, <2>1 DEF Holding, Opening
  <2> QED BY <1>1, <1>3, <2>2 DEF LastInv
<1> QED BY <1>2, <1>3

\* Where two close last at once, one of them was not waited for.
LEMMA RaceBacked ==
    ASSUME Shape, Orderly, NEW t \in Task, NEW f \in File, Close(t, f),
           refcnt[f] = 1, Leaving(f) # {}
    PROVE  backed
<1> USE DEF Shape, Orderly
<1>1. f \in fd[t] /\ fence[f] /\ pc[t] \in {"run", "exit"} /\ Sons(t) = {}
  BY DEF Close, Free, LiveInv, SonsInv, Sons
<1>2. t \in Holding(f)
  BY <1>1 DEF Holding, Opening, Leaving
<1>3. dropped[f] = 0 /\ Holding(f) = {t}
  BY <1>1, <1>2, Counted
<1>4. PICK u \in Task : pc[u] \in {"close", "exitclose"} /\ arg[u] = f
  BY DEF Leaving
<1>5. u # t /\ f \in fd[u]
  BY <1>1, <1>4 DEF ArgInv
<1>6. ASSUME NEW v \in {t, u}, parent[v] \in Task, f \in fd[parent[v]] PROVE FALSE
  <2>1. pc[v] # "absent"
    BY <1>1, <1>4, <1>6
  <2>2. pc[parent[v]] \in {"run", "fork"}
    BY <1>6, <2>1 DEF SonsInv
  <2>3. parent[v] \in Holding(f)
    BY <1>6, <2>2 DEF Holding, Opening, Leaving
  <2> QED BY <1>1, <1>3, <1>6, <2>1, <2>3 DEF Sons
<1> QED BY <1>1, <1>3, <1>5, <1>6 DEF SpreadInv

-----------------------------------------------------------------------------
LEMMA InitIInv == Init => IInv
<1> SUFFICES ASSUME Init PROVE IInv
  OBVIOUS
<1>1. Shape
  <2>1. 0 \in 0 .. MaxDropped
    BY VfileAssumption
  <2>2. TypeOK
    <3>1. /\ pc \in [Task -> Pc] /\ parent \in [Task -> Task \cup {NULL}]
          /\ fd \in [Task -> SUBSET File] /\ todo \in [Task -> SUBSET File]
          /\ arg \in [Task -> File \cup {NULL}]
      BY DEF Init, Pc
    <3>2. /\ refcnt \in [File -> Int] /\ fence \in [File -> BOOLEAN] /\ alert \in BOOLEAN
          /\ dropped \in [File -> 0 .. MaxDropped]
          /\ backed \in BOOLEAN /\ raced \in BOOLEAN
      <4>1. refcnt \in [File -> Int]
        BY DEF Init
      <4>2. fence \in [File -> BOOLEAN] /\ alert \in BOOLEAN
        BY Zenon DEF Init
      <4>3. dropped \in [File -> 0 .. MaxDropped]
        BY <2>1 DEF Init
      <4>4. backed \in BOOLEAN /\ raced \in BOOLEAN
        BY DEF Init
      <4> QED BY <4>1, <4>2, <4>3, <4>4
    <3> QED BY <3>1, <3>2 DEF TypeOK
  <2>3. ArgInv /\ NewInv
    BY DEF Init, ArgInv, NewInv
  <2>4. SonsInv
    BY VfileAssumption DEF Init, SonsInv
  <2> QED BY <2>2, <2>3, <2>4 DEF Shape
<1>2. Orderly
  <2>1. LiveInv /\ SpreadInv
    BY DEF Init, LiveInv, SpreadInv
  <2>2. LastInv /\ CountInv
    BY DEF Init, LastInv, CountInv
  <2> QED BY <2>1, <2>2 DEF Init, Orderly
<1> QED BY <1>1, <1>2 DEF Init, IInv

-----------------------------------------------------------------------------
(* The shape of tables, creators and sons.                                   *)

Forks(t, k) ==
    Fork(t, k) \/ \E f \in File : PipeLeft(t, k, f) \/ PipeRight(t, k, f)

\* What all three ways of creation do.
LEMMA Forked ==
    ASSUME Shape, NEW t \in Task, NEW k \in Task, Forks(t, k)
    PROVE  /\ pc[t] = "run" /\ pc[k] = "absent" /\ t # k /\ fd[k] = {} /\ fd'[k] = {}
           /\ parent' = [parent EXCEPT ![k] = t]
           /\ pc' = [pc EXCEPT ![t] = "fork", ![k] = "new"]
           /\ todo' = [todo EXCEPT ![k] = todo'[k]]
           /\ todo'[k] \subseteq fd'[t] /\ fd'[t] \subseteq fd[t]
           /\ fd' \in [Task -> SUBSET File]
           /\ \A u \in Task \ {t} : fd'[u] = fd[u]
           /\ dropped' \in [File -> 0 .. MaxDropped]
           /\ UNCHANGED <<arg, fileVars, backed, raced>>
<1> USE DEF Shape
<1>1. PICK files \in SUBSET File : ForkWith(t, k, files) /\ files \subseteq fd[t]
                                   /\ files \subseteq fd'[t]
  <2>1. CASE Fork(t, k)
    <3>1. ForkWith(t, k, fd[t]) /\ t # k /\ fd'[t] = fd[t]
      BY <2>1 DEF Fork, ForkWith, TypeOK
    <3> QED BY <3>1 DEF TypeOK
  <2>2. ASSUME NEW f \in File, PipeLeft(t, k, f) \/ PipeRight(t, k, f)
        PROVE  \E files \in SUBSET File : ForkWith(t, k, files) /\ files \subseteq fd[t]
                                          /\ files \subseteq fd'[t]
    <3>1. ForkWith(t, k, fd[t] \ {f}) /\ t # k /\ fd[t] \ {f} \subseteq fd'[t]
      BY <2>2 DEF PipeLeft, PipeRight, ForkWith, TypeOK
    <3>2. fd[t] \ {f} \in SUBSET File
      BY DEF TypeOK
    <3> QED BY <3>1, <3>2
  <2> QED BY <2>1, <2>2 DEF Forks
<1>2. /\ pc[t] = "run" /\ pc[k] = "absent" /\ t # k
      /\ parent' = [parent EXCEPT ![k] = t]
      /\ pc' = [pc EXCEPT ![t] = "fork", ![k] = "new"]
      /\ todo' = [todo EXCEPT ![k] = files]
      /\ UNCHANGED <<arg, fileVars, backed, raced>>
  BY <1>1 DEF ForkWith
<1>3. fd[k] = {}
  BY <1>2 DEF ArgInv
<1>4. /\ fd'[k] = {} /\ fd' \in [Task -> SUBSET File] /\ fd'[t] \subseteq fd[t]
      /\ \A u \in Task \ {t} : fd'[u] = fd[u]
      /\ dropped' \in [File -> 0 .. MaxDropped]
  <2>1. CASE Fork(t, k)
    BY <1>2, <1>3, <2>1 DEF Fork, TypeOK
  <2>2. CASE \E f \in File : PipeLeft(t, k, f)
    BY <1>2, <1>3, <2>2 DEF PipeLeft, TypeOK
  <2>3. ASSUME NEW f \in File, PipeRight(t, k, f)
        PROVE  /\ fd'[k] = {} /\ fd' \in [Task -> SUBSET File] /\ fd'[t] \subseteq fd[t]
               /\ \A u \in Task \ {t} : fd'[u] = fd[u]
               /\ dropped' \in [File -> 0 .. MaxDropped]
    <3>1. dropped[f] + 1 \in 0 .. MaxDropped
      BY <2>3, VfileAssumption DEF PipeRight, TypeOK
    <3>2. dropped' \in [File -> 0 .. MaxDropped]
      BY <2>3, <3>1 DEF PipeRight, TypeOK
    <3>3. fd' = [fd EXCEPT ![t] = @ \ {f}, ![k] = {}]
      BY <2>3 DEF PipeRight
    <3> QED BY <1>2, <1>3, <3>2, <3>3 DEF TypeOK
  <2> QED BY <2>1, <2>2, <2>3 DEF Forks
<1>5. todo'[k] = files
  BY <1>2 DEF TypeOK
<1> QED BY <1>1, <1>2, <1>3, <1>4, <1>5

LEMMA ShapeForks ==
    ASSUME Shape, NEW t \in Task, NEW k \in Task, Forks(t, k)
    PROVE  Shape'
<1> USE DEF Shape
<1> DEFINE files == todo'[k]
<1>1. /\ pc[t] = "run" /\ pc[k] = "absent" /\ t # k /\ fd[k] = {} /\ fd'[k] = {}
      /\ parent' = [parent EXCEPT ![k] = t]
      /\ pc' = [pc EXCEPT ![t] = "fork", ![k] = "new"]
      /\ todo' = [todo EXCEPT ![k] = files]
      /\ files \subseteq fd'[t] /\ fd'[t] \subseteq fd[t]
      /\ fd' \in [Task -> SUBSET File]
      /\ \A u \in Task \ {t} : fd'[u] = fd[u]
      /\ dropped' \in [File -> 0 .. MaxDropped]
      /\ UNCHANGED <<arg, refcnt, fence, alert, backed, raced>>
  BY Forked DEF fileVars
<1> HIDE DEF files
<1>2. TypeOK'
  BY <1>1 DEF TypeOK, Pc
<1>3. ArgInv'
  BY <1>1 DEF ArgInv, TypeOK
<1>4. NewInv'
  <2>1. ASSUME NEW l \in Task, pc'[l] = "new"
        PROVE  /\ parent'[l] \in Task /\ pc'[parent'[l]] = "fork"
               /\ todo'[l] \subseteq fd'[parent'[l]] /\ todo'[l] \cap fd'[l] = {}
    <3>1. CASE l = k
      BY <1>1, <3>1 DEF TypeOK
    <3>2. CASE l # k
      <4>1. pc[l] = "new" /\ parent'[l] = parent[l] /\ todo'[l] = todo[l] /\ l # t
        BY <1>1, <2>1, <3>2 DEF TypeOK
      <4>2. parent[l] \in Task /\ pc[parent[l]] = "fork" /\ parent[l] # t /\ parent[l] # k
        BY <1>1, <4>1 DEF NewInv
      <4> QED BY <1>1, <4>1, <4>2 DEF NewInv, TypeOK
    <3> QED BY <3>1, <3>2
  <2>2. ASSUME NEW l \in Task, NEW m \in Task, pc'[l] = "new", pc'[m] = "new",
               parent'[l] = parent'[m]
        PROVE  l = m
    BY <1>1, <2>2 DEF NewInv, TypeOK
  <2> QED BY <2>1, <2>2 DEF NewInv
<1>5. SonsInv'
  BY <1>1 DEF SonsInv, TypeOK
<1> QED BY <1>2, <1>3, <1>4, <1>5

LEMMA ShapeFiles ==
    ASSUME Shape, NEW t \in Task,
           \/ \E f \in File : OpenAlloc(t, f) \/ Close(t, f)
           \/ OpenInit(t) \/ CloseCheck(t)
    PROVE  Shape'
<1> USE DEF Shape
<1>1. ASSUME NEW f \in File, OpenAlloc(t, f) PROVE Shape'
  <2>1. pc[t] = "run" /\ Sons(t) = {}
    BY <1>1 DEF OpenAlloc, Free
  <2>2. TypeOK'
    BY <1>1, VfileAssumption DEF OpenAlloc, TypeOK, Goto, Pc
  <2>3. ArgInv'
    BY <1>1, <2>1 DEF OpenAlloc, ArgInv, TypeOK, Goto
  <2>4. NewInv'
    BY <1>1, <2>1 DEF OpenAlloc, NewInv, TypeOK, Goto
  <2>5. SonsInv'
    BY <1>1, <2>1 DEF OpenAlloc, SonsInv, Sons, TypeOK, Goto
  <2> QED BY <2>2, <2>3, <2>4, <2>5
<1>2. CASE OpenInit(t)
  <2>1. pc[t] = "open" /\ arg[t] \in File
    BY <1>2 DEF OpenInit, ArgInv
  <2>2. TypeOK'
    BY <1>2, <2>1 DEF OpenInit, TypeOK, Goto, Pc, history
  <2>3. ArgInv'
    BY <1>2 DEF OpenInit, ArgInv, TypeOK, Goto
  <2>4. NewInv' /\ SonsInv'
    BY <1>2, <2>1 DEF OpenInit, NewInv, SonsInv, TypeOK, Goto
  <2> QED BY <2>2, <2>3, <2>4
<1>3. ASSUME NEW f \in File, Close(t, f) PROVE Shape'
  <2>1. /\ f \in fd[t] /\ pc[t] \in {"run", "exit"} /\ Sons(t) = {}
        /\ pc' = [pc EXCEPT ![t] = IF pc[t] = "run" THEN "close" ELSE "exitclose"]
        /\ arg' = [arg EXCEPT ![t] = f]
        /\ UNCHANGED <<parent, fd, todo>>
    BY <1>3 DEF Close, Free, Goto, SonsInv, Sons
  <2>2. TypeOK'
    <3>1. refcnt' \in [File -> Int] /\ raced' \in BOOLEAN
      BY <1>3 DEF Close, TypeOK
    <3> QED BY <1>3, <2>1, <3>1 DEF Close, TypeOK, Pc
  <2>3. ArgInv'
    BY <2>1 DEF ArgInv, TypeOK
  <2>4. NewInv' /\ SonsInv'
    BY <2>1 DEF NewInv, SonsInv, Sons, TypeOK
  <2> QED BY <2>2, <2>3, <2>4
<1>4. CASE CloseCheck(t)
  <2>1. /\ pc[t] \in {"close", "exitclose"} /\ arg[t] \in fd[t] /\ arg[t] \in File
        /\ fence' \in [File -> BOOLEAN] /\ alert' \in BOOLEAN
        /\ fd' = [fd EXCEPT ![t] = @ \ {arg[t]}]
        /\ arg' = [arg EXCEPT ![t] = NULL]
        /\ pc' = [pc EXCEPT ![t] = IF pc[t] = "close" THEN "run" ELSE "exit"]
        /\ UNCHANGED <<parent, todo, refcnt, dropped, backed, raced>>
    BY <1>4 DEF CloseCheck, CloseIf, ArgInv, TypeOK, Goto, history
  <2>2. Sons(t) = {}
    BY <2>1 DEF SonsInv, Sons
  <2>3. TypeOK'
    BY <2>1 DEF TypeOK, Pc
  <2>4. ArgInv'
    BY <2>1 DEF ArgInv, TypeOK
  <2>5. NewInv' /\ SonsInv'
    BY <2>1, <2>2 DEF NewInv, SonsInv, Sons, TypeOK
  <2> QED BY <2>3, <2>4, <2>5
<1> QED BY <1>1, <1>2, <1>3, <1>4

LEMMA ShapeTasks ==
    ASSUME Shape, NEW t \in Task, NEW k \in Task,
           \/ \E f \in File : ForkFile(t, k, f)
           \/ ForkEnd(t, k) \/ ForkBack(t, k) \/ Exit(t) \/ ExitEnd(t)
    PROVE  Shape'
<1> USE DEF Shape
<1>1. ASSUME NEW f \in File, ForkFile(t, k, f) PROVE Shape'
  <2>1. /\ pc[t] = "fork" /\ pc[k] = "new" /\ parent[k] = t /\ f \in todo[k]
        /\ fd' = [fd EXCEPT ![k] = @ \cup {f}]
        /\ refcnt' = [refcnt EXCEPT ![f] = @ + 1]
        /\ todo' = [todo EXCEPT ![k] = @ \ {f}]
        /\ UNCHANGED <<pc, parent, arg, fence, alert, dropped, backed, raced>>
    BY <1>1 DEF ForkFile, ForkFileBy, Creating, history
  <2>2. TypeOK'
    BY <2>1 DEF TypeOK
  <2>3. ArgInv' /\ SonsInv'
    BY <2>1 DEF ArgInv, SonsInv, TypeOK
  <2>4. NewInv'
    BY <2>1 DEF NewInv, TypeOK
  <2> QED BY <2>2, <2>3, <2>4
<1>2. CASE ForkEnd(t, k) \/ ForkBack(t, k)
  <2>1. /\ pc[t] = "fork" /\ pc[k] = "new" /\ parent[k] = t
        /\ pc' = [pc EXCEPT ![t] = "run", ![k] = "run"]
        /\ parent' = parent \/ parent' = [parent EXCEPT ![k] = NULL]
        /\ UNCHANGED <<fd, todo, arg, refcnt, fence, alert, dropped, raced>>
        /\ backed' \in BOOLEAN
    BY <1>2 DEF ForkEnd, ForkBack, Creating, fileVars, history, TypeOK
  <2>2. TypeOK'
    BY <2>1 DEF TypeOK, Pc
  <2>3. ArgInv'
    BY <2>1 DEF ArgInv, TypeOK
  <2>4. NewInv'
    <3>1. ASSUME NEW l \in Task, pc'[l] = "new"
          PROVE  pc[l] = "new" /\ l # k /\ parent'[l] = parent[l] /\ parent[l] # t
                 /\ parent[l] # k
      <4>1. pc[l] = "new" /\ l # k
        BY <2>1, <3>1 DEF TypeOK
      <4>2. parent[l] # t /\ pc[parent[l]] = "fork"
        BY <2>1, <4>1 DEF NewInv
      <4> QED BY <2>1, <4>1, <4>2 DEF TypeOK
    <3> QED BY <2>1, <3>1 DEF NewInv, TypeOK
  <2>5. SonsInv'
    <3>1. t # k
      BY <2>1
    <3>2. ASSUME NEW u \in Task, NEW l \in Task, parent'[l] = u, pc'[l] # "absent"
          PROVE  pc'[u] \in {"run", "fork"}
      <4>1. parent[l] = u /\ pc[l] # "absent"
        BY <2>1, <3>2, VfileAssumption DEF TypeOK
      <4>2. pc[u] \in {"run", "fork"}
        BY <4>1 DEF SonsInv
      <4> QED BY <2>1, <4>2 DEF TypeOK
    <3> QED BY <3>2 DEF SonsInv
  <2> QED BY <2>2, <2>3, <2>4, <2>5
<1>3. CASE Exit(t) \/ ExitEnd(t)
  <2>1. UNCHANGED <<parent, fd, todo, arg, refcnt, fence, alert, dropped, backed, raced>>
    BY <1>3 DEF Exit, ExitEnd, fileVars, history
  <2>2. TypeOK'
    BY <1>3, <2>1 DEF Exit, ExitEnd, TypeOK, Pc, Goto
  <2>3. ArgInv'
    BY <1>3, <2>1 DEF Exit, ExitEnd, ArgInv, TypeOK, Goto
  <2>4. NewInv' /\ SonsInv'
    <3>1. CASE Exit(t)
      BY <2>1, <3>1 DEF NewInv, SonsInv, TypeOK, Exit, Free, Sons, Goto
    <3>2. CASE ExitEnd(t)
      BY <2>1, <3>2 DEF NewInv, SonsInv, TypeOK, ExitEnd, Goto
    <3> QED BY <1>3, <3>1, <3>2
  <2> QED BY <2>2, <2>3, <2>4
<1> QED BY <1>1, <1>2, <1>3

-----------------------------------------------------------------------------
(* Counts and memory, until two close a file last at once.                   *)

\* Where nobody's hold on a file in use changes.
LEMMA Undisturbed ==
    ASSUME Orderly, UNCHANGED <<refcnt, dropped>>,
           NEW g \in File, fence[g], Holding(g)' = Holding(g)
    PROVE  refcnt'[g] = Cardinality(Holding(g)') + dropped'[g]
<1> QED BY DEF Orderly, CountInv

LEMMA OrderlyOpenAlloc ==
    ASSUME Shape, Orderly, NEW t \in Task, NEW f \in File, OpenAlloc(t, f)
    PROVE  Orderly'
<1> USE DEF Shape, Orderly
<1>1. /\ pc[t] = "run" /\ ~fence[f] /\ \A u \in Task : f \notin fd[u]
      /\ fence' = [fence EXCEPT ![f] = TRUE]
      /\ refcnt' = [refcnt EXCEPT ![f] = 0]
      /\ dropped' = [dropped EXCEPT ![f] = 0]
      /\ fd' = [fd EXCEPT ![t] = @ \cup {f}]
      /\ arg' = [arg EXCEPT ![t] = f]
      /\ pc' = [pc EXCEPT ![t] = "open"]
      /\ UNCHANGED <<parent, todo, alert, backed, raced>>
  BY DEF OpenAlloc, Free, LiveInv, Goto
<1>2. LiveInv'
  BY <1>1 DEF LiveInv, TypeOK
<1>3. /\ Leaving(f)' = {} /\ Holding(f)' = {}
      /\ \A g \in File \ {f} : Holding(g)' = Holding(g) /\ Leaving(g)' = Leaving(g)
  BY <1>1 DEF Leaving, Holding, Opening, ArgInv, TypeOK
<1>4. LastInv'
  BY <1>1, <1>3 DEF LastInv, TypeOK
<1>5. ASSUME NEW g \in File, fence'[g]
      PROVE  refcnt'[g] = Cardinality(Holding(g)') + dropped'[g]
  <2>1. CASE g = f
    <3>1. refcnt'[f] = 0 /\ dropped'[f] = 0
      BY <1>1 DEF TypeOK
    <3>2. Cardinality(Holding(f)') = 0
      BY <1>3, FS_EmptySet
    <3> QED BY <2>1, <3>1, <3>2
  <2>2. CASE g # f
    BY <1>1, <1>3, <1>5, <2>2 DEF CountInv, TypeOK
  <2> QED BY <2>1, <2>2
<1>6. CountInv'
  <2>1. ASSUME NEW g \in File, fence'[g] PROVE dropped'[g] > 0 \/ \E u \in Task : g \in fd'[u]
    BY <1>1, <2>1 DEF CountInv, TypeOK
  <2> QED BY <1>5, <2>1 DEF CountInv
<1>7. backed \/ SpreadInv'
  BY <1>1 DEF SpreadInv, TypeOK
<1> QED BY <1>1, <1>2, <1>4, <1>6, <1>7

LEMMA OrderlyOpenInit ==
    ASSUME Shape, Orderly, NEW t \in Task, OpenInit(t)
    PROVE  Orderly'
<1> USE DEF Shape, Orderly
<1>0. PICK f \in File : f = arg[t]
  BY DEF OpenInit, ArgInv
<1>1. /\ pc[t] = "open" /\ f \in File /\ f \in fd[t] /\ fence[f]
      /\ \A u \in Task \ {t} : f \notin fd[u]
      /\ refcnt' = [refcnt EXCEPT ![f] = 1]
      /\ arg' = [arg EXCEPT ![t] = NULL]
      /\ pc' = [pc EXCEPT ![t] = "run"]
      /\ UNCHANGED <<parent, fd, todo, fence, alert, dropped, backed, raced>>
  BY <1>0 DEF OpenInit, ArgInv, LiveInv, Goto, history
<1>2. LiveInv'
  BY <1>1 DEF LiveInv, TypeOK
<1>3. /\ Holding(f)' = {t}
      /\ \A g \in File \ {f} : Holding(g)' = Holding(g) /\ Leaving(g)' = Leaving(g)
  <2>1. Holding(f)' = {t}
    BY <1>0, <1>1, VfileAssumption DEF Leaving, Holding, Opening, TypeOK
  <2>2. ASSUME NEW g \in File \ {f} PROVE Leaving(g)' = Leaving(g)
    BY <1>0, <1>1, VfileAssumption DEF Leaving, TypeOK
  <2>3. ASSUME NEW g \in File \ {f} PROVE Opening(g)' = Opening(g)
    BY <1>0, <1>1, VfileAssumption DEF Opening, TypeOK
  <2>4. fd' = fd
    BY <1>1
  <2> QED BY <2>1, <2>2, <2>3, <2>4 DEF Holding
<1>4. LastInv'
  BY <1>1, <1>3 DEF LastInv, TypeOK
<1>9. dropped[f] = 0
  BY <1>0, <1>1 DEF LiveInv
<1>5. ASSUME NEW g \in File, fence'[g]
      PROVE  refcnt'[g] = Cardinality(Holding(g)') + dropped'[g]
  <2>1. CASE g = f
    <3>1. refcnt'[f] = 1 /\ dropped'[f] = 0
      BY <1>1, <1>9 DEF TypeOK
    <3>2. Cardinality(Holding(f)') = 1
      BY <1>3, FS_Singleton
    <3> QED BY <2>1, <3>1, <3>2
  <2>2. CASE g # f
    BY <1>1, <1>3, <1>5, <2>2 DEF CountInv, TypeOK
  <2> QED BY <2>1, <2>2
<1>6. CountInv'
  BY <1>1, <1>5 DEF CountInv
<1>7. backed \/ SpreadInv'
  BY <1>1 DEF SpreadInv
<1> QED BY <1>1, <1>2, <1>4, <1>6, <1>7

LEMMA OrderlyForks ==
    ASSUME Shape, Orderly, NEW t \in Task, NEW k \in Task, Forks(t, k)
    PROVE  Orderly'
<1> USE DEF Shape, Orderly
<1>1. /\ pc[t] = "run" /\ pc[k] = "absent" /\ t # k /\ fd[k] = {} /\ fd'[k] = {}
      /\ parent' = [parent EXCEPT ![k] = t]
      /\ pc' = [pc EXCEPT ![t] = "fork", ![k] = "new"]
      /\ fd'[t] \subseteq fd[t] /\ fd' \in [Task -> SUBSET File]
      /\ \A u \in Task \ {t} : fd'[u] = fd[u]
      /\ UNCHANGED <<arg, refcnt, fence, alert, backed, raced>>
  BY Forked DEF fileVars
<1>2. \A g \in File : Leaving(g)' = Leaving(g)
  BY <1>1 DEF Leaving, TypeOK
<1>3. LastInv'
  BY <1>1, <1>2 DEF LastInv
<1>4. CASE UNCHANGED <<fd, dropped>>
  <2>1. LiveInv'
    BY <1>1, <1>4 DEF LiveInv, TypeOK
  <2>2. \A g \in File : Holding(g)' = Holding(g)
    BY <1>1, <1>4 DEF Holding, Opening, Leaving, TypeOK
  <2>3. CountInv'
    BY <1>1, <1>4, <2>2 DEF CountInv
  <2>4. backed \/ SpreadInv'
    BY <1>1, <1>4 DEF SpreadInv, TypeOK
  <2> QED BY <1>1, <1>3, <2>1, <2>3, <2>4
<1>5. ASSUME NEW f \in File, PipeRight(t, k, f) PROVE Orderly'
  <2>1. /\ f \in fd[t] /\ fence[f] /\ fd'[t] = fd[t] \ {f}
        /\ dropped' = [dropped EXCEPT ![f] = @ + 1]
    BY <1>1, <1>5 DEF PipeRight, LiveInv, TypeOK
  <2>2. t \in Holding(f)
    BY <1>1, <2>1 DEF Holding, Opening, Leaving
  <2>3. \A g \in File : Holding(g)' = IF g = f THEN Holding(f) \ {t} ELSE Holding(g)
    BY <1>1, <2>1 DEF Holding, Opening, Leaving, TypeOK
  <2>4. /\ Cardinality(Holding(f) \ {t}) + dropped[f] = refcnt[f] - 1
        /\ dropped[f] \in Nat /\ refcnt[f] \in Nat
    BY <2>1, <2>2, CountRemoved, Counted
  <2>5. dropped'[f] = dropped[f] + 1 /\ \A g \in File \ {f} : dropped'[g] = dropped[g]
    BY <2>1 DEF TypeOK
  <2>6. refcnt[f] = Cardinality(Holding(f) \ {t}) + (dropped[f] + 1)
    <3> DEFINE m == Cardinality(Holding(f) \ {t})
    <3>1. m \in Nat
      BY HoldingFinite, FS_RemoveElement, FS_CardinalityType, <2>2
    <3> HIDE DEF m
    <3>2. m + dropped[f] = refcnt[f] - 1
      BY <2>4 DEF m
    <3>3. refcnt[f] = m + (dropped[f] + 1)
      BY <2>4, <3>1, <3>2
    <3> QED BY <3>3 DEF m
  <2>7. CountInv'
    <3>1. ASSUME NEW g \in File, fence'[g]
          PROVE  /\ refcnt'[g] = Cardinality(Holding(g)') + dropped'[g]
                 /\ dropped'[g] > 0 \/ \E u \in Task : g \in fd'[u]
      <4>1. CASE g = f
        <5>1. Holding(f)' = Holding(f) \ {t}
          BY <2>3
        <5>2. refcnt'[f] = Cardinality(Holding(f)') + dropped'[f]
          BY <1>1, <2>5, <2>6, <5>1
        <5>3. dropped'[f] > 0
          BY <2>4, <2>5
        <5> QED BY <4>1, <5>2, <5>3
      <4>2. CASE g # f
        <5>1. refcnt'[g] = Cardinality(Holding(g)') + dropped'[g]
          BY <1>1, <2>3, <2>5, <3>1, <4>2 DEF CountInv
        <5>2. dropped'[g] > 0 \/ \E u \in Task : g \in fd'[u]
          <6>1. dropped[g] > 0 \/ \E u \in Task : g \in fd[u]
            BY <1>1, <3>1 DEF CountInv
          <6>2. ASSUME NEW u \in Task, g \in fd[u] PROVE g \in fd'[u]
            BY <1>1, <2>1, <4>2, <6>2
          <6> QED BY <2>5, <4>2, <6>1, <6>2
        <5> QED BY <5>1, <5>2
      <4> QED BY <4>1, <4>2
    <3> QED BY <3>1 DEF CountInv
  <2>8. LiveInv'
    <3>1. \A u \in Task : fd'[u] \subseteq fd[u]
      BY <1>1
    <3>2. ASSUME NEW u \in Task, pc'[u] = "open"
          PROVE  /\ pc[u] = "open" /\ u # t /\ arg[u] # f
                 /\ arg'[u] \in fd'[u] /\ dropped'[arg'[u]] = 0
      <4>1. pc[u] = "open" /\ u # t
        BY <1>1, <3>2 DEF TypeOK
      <4>2. arg[u] \in fd[u] /\ dropped[arg[u]] = 0 /\ arg[u] \in File /\ arg[u] \notin fd[t]
        BY <1>1, <4>1 DEF LiveInv, ArgInv
      <4> QED BY <1>1, <2>1, <2>5, <4>1, <4>2
    <3>3. \A u \in Task : \A g \in fd'[u] : fence'[g]
      BY <1>1, <3>1 DEF LiveInv
    <3>4. \A u, v \in Task : pc'[u] = "open" /\ u # v => arg'[u] \notin fd'[v]
      BY <1>1, <3>1, <3>2 DEF LiveInv
    <3> QED BY <3>2, <3>3, <3>4 DEF LiveInv
  <2>9. backed \/ SpreadInv'
    <3> SUFFICES ASSUME ~backed, NEW u \in Task, NEW v \in Task, NEW g \in fd'[u] \cap fd'[v],
                        u # v, ~(dropped'[g] > 0)
                 PROVE  \/ parent'[u] \in Task /\ g \in fd'[parent'[u]]
                        \/ parent'[v] \in Task /\ g \in fd'[parent'[v]]
      BY DEF SpreadInv
    <3>1. g \in fd[u] /\ g \in fd[v] /\ g \in File
      BY <1>1 DEF TypeOK
    <3>2. g # f /\ dropped'[g] = dropped[g]
      BY <2>4, <2>5, <3>1
    <3>3. u # k /\ v # k
      BY <1>1
    <3>4. parent'[u] = parent[u] /\ parent'[v] = parent[v]
      BY <1>1, <3>3 DEF TypeOK
    <3>5. \/ parent[u] \in Task /\ g \in fd[parent[u]]
          \/ parent[v] \in Task /\ g \in fd[parent[v]]
      BY <3>1, <3>2 DEF SpreadInv
    <3> QED BY <1>1, <2>1, <3>2, <3>4, <3>5
  <2> QED BY <1>1, <1>3, <2>7, <2>8, <2>9
<1>6. (fd' = fd /\ dropped' = dropped) \/ \E f \in File : PipeRight(t, k, f)
  BY <1>1 DEF Forks, Fork, PipeLeft, TypeOK
<1> QED BY <1>4, <1>5, <1>6

LEMMA OrderlyForkFile ==
    ASSUME Shape, Orderly, NEW t \in Task, NEW k \in Task, NEW f \in File, ForkFile(t, k, f)
    PROVE  Orderly'
<1> USE DEF Shape, Orderly
<1>1. /\ pc[t] = "fork" /\ pc[k] = "new" /\ parent[k] = t
      /\ f \in todo[k] /\ f \in fd[t] /\ f \notin fd[k] /\ fence[f]
      /\ fd' = [fd EXCEPT ![k] = @ \cup {f}]
      /\ refcnt' = [refcnt EXCEPT ![f] = @ + 1]
      /\ UNCHANGED <<pc, parent, arg, fence, alert, dropped, backed, raced>>
  BY DEF ForkFile, ForkFileBy, Creating, NewInv, LiveInv, history
<1>2. /\ Holding(f)' = Holding(f) \cup {k} /\ k \notin Holding(f)
      /\ \A g \in File \ {f} : Holding(g)' = Holding(g)
      /\ \A g \in File : Leaving(g)' = Leaving(g)
  BY <1>1 DEF Holding, Opening, Leaving, TypeOK
<1>3. refcnt'[f] = refcnt[f] + 1 /\ refcnt[f] \in Nat
  BY <1>1, Counted DEF TypeOK
<1>4. ASSUME NEW g \in File, fence'[g]
      PROVE  refcnt'[g] = Cardinality(Holding(g)') + dropped'[g]
  <2>1. CASE g = f
    BY <1>1, <1>2, <1>3, <2>1, CountAdded
  <2>2. CASE g # f
    BY <1>1, <1>2, <1>4, <2>2 DEF CountInv, TypeOK
  <2> QED BY <2>1, <2>2
<1>5. CountInv'
  <2>1. ASSUME NEW g \in File, fence'[g] PROVE dropped'[g] > 0 \/ \E u \in Task : g \in fd'[u]
    BY <1>1, <2>1 DEF CountInv, TypeOK
  <2> QED BY <1>4, <2>1 DEF CountInv
<1>6. LiveInv'
  BY <1>1 DEF LiveInv, TypeOK
<1>7. LastInv'
  <2>1. \A g \in File : refcnt'[g] = 0 => g # f /\ refcnt[g] = 0
    BY <1>1, <1>3 DEF TypeOK
  <2> QED BY <1>1, <1>2, <2>1 DEF LastInv
<1>8. backed \/ SpreadInv'
  BY <1>1 DEF SpreadInv, TypeOK
<1> QED BY <1>1, <1>5, <1>6, <1>7, <1>8

LEMMA OrderlyClose ==
    ASSUME Shape, Orderly, NEW t \in Task, NEW f \in File, Close(t, f), ~raced'
    PROVE  Orderly'
<1> USE DEF Shape, Orderly
<1>1. /\ f \in fd[t] /\ fence[f] /\ pc[t] \in {"run", "exit"}
      /\ pc' = [pc EXCEPT ![t] = IF pc[t] = "run" THEN "close" ELSE "exitclose"]
      /\ refcnt' = [refcnt EXCEPT ![f] = @ - 1]
      /\ arg' = [arg EXCEPT ![t] = f]
      /\ refcnt[f] = 1 => Leaving(f) = {}
      /\ UNCHANGED <<parent, fd, todo, fence, alert, dropped, backed>>
  BY DEF Close, Free, Goto, LiveInv
<1>2. /\ Holding(f)' = Holding(f) \ {t} /\ t \in Holding(f)
      /\ Leaving(f)' = Leaving(f) \cup {t}
      /\ \A g \in File \ {f} : Holding(g)' = Holding(g) /\ Leaving(g)' = Leaving(g)
  BY <1>1 DEF Holding, Opening, Leaving, TypeOK
<1>3. refcnt'[f] = refcnt[f] - 1 /\ refcnt[f] \in Nat
  BY <1>1, Counted DEF TypeOK
<1>4. ASSUME NEW g \in File, fence'[g]
      PROVE  refcnt'[g] = Cardinality(Holding(g)') + dropped'[g]
  <2>1. CASE g = f
    BY <1>1, <1>2, <1>3, <2>1, CountRemoved
  <2>2. CASE g # f
    BY <1>1, <1>2, <1>4, <2>2 DEF CountInv, TypeOK
  <2> QED BY <2>1, <2>2
<1>5. CountInv'
  BY <1>1, <1>4 DEF CountInv
<1>6. LiveInv'
  BY <1>1 DEF LiveInv, TypeOK
<1>7. LastInv'
  <2>1. ASSUME NEW g \in File, fence'[g], refcnt'[g] = 0
        PROVE  \A u, v \in Leaving(g)' : u = v
    <3>1. CASE g = f
      <4>1. Leaving(f)' = {t}
        BY <1>1, <1>2, <1>3, <2>1, <3>1
      <4> QED BY <3>1, <4>1
    <3>2. CASE g # f
      BY <1>1, <1>2, <2>1, <3>2 DEF LastInv, TypeOK
    <3> QED BY <3>1, <3>2
  <2> QED BY <2>1 DEF LastInv
<1>8. backed \/ SpreadInv'
  BY <1>1 DEF SpreadInv
<1> QED BY <1>1, <1>5, <1>6, <1>7, <1>8

LEMMA OrderlyCloseCheck ==
    ASSUME Shape, Orderly, NEW t \in Task, CloseCheck(t)
    PROVE  Orderly'
<1> USE DEF Shape, Orderly
<1> DEFINE f == arg[t]
<1>1. /\ pc[t] \in {"close", "exitclose"} /\ f \in fd[t] /\ f \in File /\ fence[f]
  BY DEF CloseCheck, CloseIf, ArgInv, LiveInv, TypeOK
<1>2. /\ fence' = IF refcnt[f] = 0 THEN [fence EXCEPT ![f] = FALSE] ELSE fence
      /\ alert' = alert
      /\ fd' = [fd EXCEPT ![t] = @ \ {f}]
      /\ arg' = [arg EXCEPT ![t] = NULL]
      /\ pc' = [pc EXCEPT ![t] = IF pc[t] = "close" THEN "run" ELSE "exit"]
      /\ UNCHANGED <<parent, todo, refcnt, dropped, backed, raced>>
  BY <1>1 DEF CloseCheck, CloseIf, Goto, TypeOK, history
<1>3. Sons(t) = {}
  BY <1>1 DEF SonsInv, Sons
<1>4. refcnt[f] = 0 => dropped[f] = 0 /\ \A u \in Task \ {t} : f \notin fd[u]
  BY <1>1, LastUser
<1>5. refcnt[f] # 0 => dropped[f] > 0 \/ \E u \in Task \ {t} : f \in fd[u]
  <2> HAVE refcnt[f] # 0
  <2>1. Holding(f) # {} \/ dropped[f] > 0
    <3>1. ASSUME Holding(f) = {} PROVE dropped[f] > 0
      <4>1. Cardinality(Holding(f)) = 0
        BY <3>1, FS_EmptySet
      <4>2. refcnt[f] = 0 + dropped[f] /\ dropped[f] \in Nat
        BY <1>1, <4>1, Counted
      <4> QED BY <4>2
    <3> QED BY <3>1
  <2>2. t \notin Holding(f)
    BY <1>1 DEF Holding, Leaving
  <2> QED BY <2>1, <2>2 DEF Holding
<1>6. LiveInv'
  BY <1>1, <1>2, <1>4 DEF LiveInv, TypeOK
<1>7. \A g \in File : Holding(g)' = Holding(g) /\ Leaving(g)' \subseteq Leaving(g)
  BY <1>1, <1>2, VfileAssumption DEF Holding, Opening, Leaving, TypeOK
<1>8. LastInv'
  BY <1>1, <1>2, <1>7 DEF LastInv, TypeOK
<1>9. CountInv'
  <2>1. ASSUME NEW g \in File, fence'[g]
        PROVE  refcnt'[g] = Cardinality(Holding(g)') + dropped'[g]
    <3>1. fence[g]
      BY <1>2, <2>1 DEF TypeOK
    <3> QED BY <1>2, <1>7, <3>1 DEF CountInv
  <2>2. ASSUME NEW g \in File, fence'[g]
        PROVE  dropped'[g] > 0 \/ \E u \in Task : g \in fd'[u]
    <3>1. CASE g = f
      <4>1. refcnt[f] # 0
        BY <1>1, <1>2, <2>2, <3>1 DEF TypeOK
      <4> QED BY <1>2, <1>5, <3>1, <4>1 DEF TypeOK
    <3>2. CASE g # f
      <4>1. fence[g]
        BY <1>2, <2>2, <3>2 DEF TypeOK
      <4> QED BY <1>2, <3>2, <4>1 DEF CountInv, TypeOK
    <3> QED BY <3>1, <3>2
  <2> QED BY <2>1, <2>2 DEF CountInv
<1>10. backed \/ SpreadInv'
  <2> SUFFICES ASSUME ~backed, NEW u \in Task, NEW v \in Task, NEW g \in fd'[u] \cap fd'[v],
                      u # v, ~(dropped'[g] > 0)
               PROVE  \/ parent[u] \in Task /\ g \in fd'[parent[u]]
                      \/ parent[v] \in Task /\ g \in fd'[parent[v]]
    BY <1>2 DEF SpreadInv
  <2>1. g \in fd[u] /\ g \in fd[v]
    BY <1>2 DEF TypeOK
  <2>2. parent[u] # t /\ parent[v] # t
    BY <1>3, <2>1 DEF Sons, ArgInv
  <2> QED BY <1>2, <2>1, <2>2 DEF SpreadInv, TypeOK
<1> QED BY <1>2, <1>6, <1>8, <1>9, <1>10

LEMMA OrderlyTasks ==
    ASSUME Shape, Orderly, NEW t \in Task, NEW k \in Task,
           ForkEnd(t, k) \/ ForkBack(t, k) \/ Exit(t) \/ ExitEnd(t)
    PROVE  Orderly'
<1> USE DEF Shape, Orderly
<1>1. /\ UNCHANGED <<fd, todo, arg, refcnt, fence, alert, dropped>>
      /\ UNCHANGED <<parent, backed>> \/ backed'
  BY DEF ForkEnd, ForkBack, Exit, ExitEnd, fileVars, history
<1>2. \A g \in File : Holding(g)' = Holding(g) /\ Leaving(g)' = Leaving(g)
  BY <1>1 DEF Holding, Opening, Leaving, TypeOK, ForkEnd, ForkBack, Creating, Exit, ExitEnd,
     Free, Goto
<1>3. LiveInv'
  BY <1>1 DEF LiveInv, TypeOK, ForkEnd, ForkBack, Creating, Exit, ExitEnd, Goto
<1>4. LastInv' /\ CountInv'
  BY <1>1, <1>2 DEF LastInv, CountInv
<1>5. backed' \/ SpreadInv'
  BY <1>1 DEF SpreadInv
<1> QED BY <1>1, <1>3, <1>4, <1>5

-----------------------------------------------------------------------------
LEMMA StepIInv == ASSUME IInv, [Next]_vars PROVE IInv'
<1>1. CASE UNCHANGED vars
  BY <1>1 DEF vars, IInv, Shape, Orderly, TypeOK, ArgInv, NewInv, SonsInv, LiveInv, LastInv,
              CountInv, SpreadInv, Holding, Opening, Leaving
<1>2. ASSUME NEW t \in Task, NEW k \in Task,
             \/ \E f \in File : OpenAlloc(t, f) \/ ForkFile(t, k, f)
             \/ OpenInit(t) \/ Forks(t, k) \/ ForkEnd(t, k) \/ ForkBack(t, k)
             \/ CloseCheck(t) \/ Exit(t) \/ ExitEnd(t)
      PROVE  IInv'
  <2>1. Shape'
    BY <1>2, ShapeFiles, ShapeForks, ShapeTasks DEF IInv
  <2>2. raced' = raced /\ (backed => backed')
    <3>1. ASSUME Forks(t, k) PROVE raced' = raced /\ backed' = backed
      BY <3>1, Forked DEF IInv
    <3> QED BY <1>2, <3>1 DEF OpenAlloc, OpenInit, ForkFile, ForkFileBy, ForkEnd, ForkBack,
               CloseCheck, CloseIf, Exit, ExitEnd, history
  <2>3. Orderly => Orderly'
    BY <1>2, OrderlyOpenAlloc, OrderlyOpenInit, OrderlyForks, OrderlyForkFile, OrderlyCloseCheck,
       OrderlyTasks DEF IInv
  <2> QED BY <2>1, <2>2, <2>3 DEF IInv
<1>3. ASSUME NEW t \in Task, NEW f \in File, Close(t, f) PROVE IInv'
  <2>1. Shape'
    BY <1>3, ShapeFiles DEF IInv
  <2>2. raced' = (raced \/ (refcnt[f] = 1 /\ Leaving(f) # {})) /\ backed' = backed
    BY <1>3 DEF Close
  <2>3. raced' => backed'
    BY <1>3, <2>2, RaceBacked DEF IInv
  <2>4. raced' \/ Orderly'
    BY <1>3, <2>2, OrderlyClose DEF IInv
  <2> QED BY <2>1, <2>3, <2>4 DEF IInv
<1>4. CASE Next
  <2>1. PICK t \in Task :
          \/ \E f \in File : OpenAlloc(t, f) \/ Close(t, f)
          \/ \E k \in Task :
              \/ \E f \in File :
                  \/ PipeLeft(t, k, f) \/ PipeRight(t, k, f) \/ ForkFile(t, k, f)
              \/ Fork(t, k) \/ ForkEnd(t, k) \/ ForkBack(t, k)
          \/ OpenInit(t) \/ CloseCheck(t) \/ Exit(t) \/ ExitEnd(t)
    BY <1>4 DEF Next
  <2> QED BY <1>2, <1>3, <2>1 DEF Forks
<1> QED BY <1>1, <1>4

LEMMA IInvariant == Spec => []IInv
<1>1. Init => IInv
  BY InitIInv
<1>2. IInv /\ [Next]_vars => IInv'
  BY StepIInv
<1> QED BY <1>1, <1>2, PTL DEF Spec

\* refcnt is exact, but for the entries that were overwritten, and the memory of an
\* open file in use, however creation, opening, closing and exit of any number of
\* tasks interleave, until two tasks close a file last at once.
THEOREM CountsExact == Spec => []RefcntExact
<1>1. IInv => RefcntExact
  <2> SUFFICES ASSUME IInv PROVE RefcntExact
    OBVIOUS
  <2>1. ASSUME Orderly, NEW f \in File, Holding(f) # {} PROVE fence[f]
    BY <2>1 DEF Orderly, LiveInv, Holding
  <2> QED BY <2>1 DEF IInv, Shape, Orderly, CountInv, RefcntExact
<1> QED BY <1>1, IInvariant, PTL

\* kfree is called twice for a file only after two tasks closed it last at once, and
\* before there was an "&" they never do, although vfs_close tests the count without
\* the lock: the creator, who waits, still has the file, or an overwritten entry
\* counts it.
THEOREM NeverFreedTwice == Spec => []FreedOnce
<1>1. IInv => FreedOnce
  BY DEF IInv, Orderly, FreedOnce
<1> QED BY <1>1, IInvariant, PTL
=============================================================================
