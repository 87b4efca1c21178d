----------------------------- MODULE TtyProofs -----------------------------
(***************************************************************************)
(* Theorems about Tty: the semaphores between the keyboard and tty_task and *)
(* between tty_task and the readers agree with the queues they speak of,    *)
(* and the queues implement the line discipline, for any terminals,         *)
(* readers, keys and sizes.                                                 *)
(***************************************************************************)
EXTENDS Tty, FiniteSetTheorems, FunctionTheorems, WellFoundedInduction, TLAPS

\* The types of what the two semaphores and queues are made of.
KeyType ==
  /\ keys \in Seq(Code) /\ kbdirq \in Nat
  /\ input \in [pc : {"read", "signal", "wait"}, held : SUBSET (CtrlKey \cup AltKey)]
EventType ==
  /\ events \in Seq(Event) /\ event_sem \in Nat
  /\ task \in [pc : {"pop", "take", "cook", "echo"}, ev : Event, tty : Tty]
QueueType == KeyType /\ EventType

LEMMA EventOfType == ASSUME KeyType, NEW key \in Data PROVE EventOf(key) \in Event
BY DEF KeyType, EventOf, Event, Holding

LEMMA CurrentType == ASSUME EventType, NEW ev \in Event PROVE Current(ev) \in Tty
<1>1. CASE \E y \in Tty : ev.alt /\ ev.data = TtyKey[y]
  BY <1>1 DEF Current
<1>2. CASE ~ \E y \in Tty : ev.alt /\ ev.data = TtyKey[y]
  BY <1>2 DEF Current, EventType
<1> QED BY <1>1, <1>2

LEMMA IdleType ==
  ASSUME NEW y \in Tty
  PROVE  Idle(y) \in [pc : {"pop", "take", "cook", "echo"}, ev : Event, tty : Tty]
BY DEF Idle, NoEvent, Event, Data

\* What a key code that is none of the held keys stands for is data.
LEMMA CodeType ==
  ASSUME KeyType, keys # <<>>
  PROVE  /\ Tail(keys) \in Seq(Code)
         /\ Head(keys).key \in CtrlKey \cup AltKey \/ Head(keys).key \in Data
<1>1. Head(keys) \in Code /\ Tail(keys) \in Seq(Code)
  BY DEF KeyType
<1>2. \A code \in Code : code.key \in CtrlKey \cup AltKey \/ code.key \in Data
  BY DEF Code
<1> QED BY <1>1, <1>2

LEMMA QueueTypeInit == Init => QueueType
<1> SUFFICES ASSUME Init PROVE QueueType
  OBVIOUS
<1>1. KeyType
  BY DEF Init, KeyType
<1>2. NoEvent \in Event
  BY DEF NoEvent, Event, Data
<1>3. EventType
  BY <1>2, TtyAssumption DEF Init, EventType
<1> QED BY <1>1, <1>3 DEF QueueType

LEMMA QueueTypeStep == ASSUME QueueType, [Next]_vars PROVE QueueType'
<1> USE DEF QueueType
<1>1. ASSUME NEW code \in Typed, Key(code) PROVE QueueType'
  BY <1>1, TtyAssumption DEF Key, KeyType, EventType, eventVars
<1>2. CASE Irq
  BY <1>2 DEF Irq, KeyType, EventType, eventVars
<1>3. CASE ReadKey
  <2>1. Tail(keys) \in Seq(Code) /\ keys' = Tail(keys)
    BY <1>3, CodeType DEF ReadKey, ReadKeyThen
  <2>2. CASE Head(keys).key \in CtrlKey \cup AltKey
    <3>1. input' \in [pc : {"read", "signal", "wait"}, held : SUBSET (CtrlKey \cup AltKey)]
      BY <1>3, <2>2 DEF ReadKey, ReadKeyThen, KeyType
    <3> QED BY <1>3, <2>1, <2>2, <3>1 DEF ReadKey, ReadKeyThen, KeyType, EventType
  <2>3. CASE Head(keys).key \notin CtrlKey \cup AltKey
    <3>1. EventOf(Head(keys).key) \in Event
      BY <1>3, <2>3, CodeType, EventOfType DEF ReadKey, ReadKeyThen
    <3>2. events' = Append(events, EventOf(Head(keys).key)) /\ input' = [input EXCEPT !.pc = "signal"]
      BY <1>3, <2>3 DEF ReadKey, ReadKeyThen
    <3>3. events' \in Seq(Event)
      BY <3>1, <3>2 DEF EventType
    <3> QED BY <1>3, <2>1, <3>2, <3>3 DEF ReadKey, ReadKeyThen, KeyType, EventType
  <2> QED BY <2>2, <2>3
<1>4. CASE PushSignal \/ NoKey \/ WaitKey
  BY <1>4 DEF PushSignal, PushThen, NoKey, WaitKey, KeyType, EventType, kbdVars, eventVars
<1>5. CASE PopWait
  BY <1>5 DEF PopWait, KeyType, EventType, kbdVars
<1>6. CASE Take
  <2>1. CASE events = <<>>
    BY <1>6, <2>1 DEF Take, KeyType, EventType, kbdVars
  <2>2. CASE events # <<>>
    <3>1. Head(events) \in Event /\ Tail(events) \in Seq(Event)
      BY <2>2 DEF EventType
    <3>2. events' = Tail(events)
      BY <1>6, <2>2 DEF Take
    <3>3. task' \in [pc : {"pop", "take", "cook", "echo"}, ev : Event, tty : Tty]
      BY <1>6, <2>2, <3>1, CurrentType, IdleType DEF Take
    <3> QED BY <1>6, <3>1, <3>2, <3>3 DEF Take, KeyType, EventType, kbdVars
  <2> QED BY <2>1, <2>2
<1>7. ASSUME NEW y \in Tty, CookChar(y) \/ CookBack(y) \/ CookEnd(y) PROVE QueueType'
  <2>1. task' \in [pc : {"pop", "take", "cook", "echo"}, ev : Event, tty : Tty]
    BY <1>7, IdleType DEF CookChar, CookBack, CookEnd, CookEndIf, EventType
  <2> QED BY <1>7, <2>1
          DEF CookChar, CookBack, CookEnd, CookEndIf, KeyType, EventType, kbdVars, eventVars
<1>8. CASE Echo
  <2>1. task' = Idle(task.tty) /\ task.tty \in Tty
    BY <1>8 DEF Echo, EventType
  <2> QED BY <1>8, <2>1, IdleType DEF Echo, KeyType, EventType, kbdVars, eventVars
<1>9. ASSUME NEW r \in Reader, Read(r) PROVE QueueType'
  BY <1>9 DEF Read, ReadWait, ReadLock, ReadChar, ReadUnlock, KeyType, EventType,
              kbdVars, eventVars
<1>10. CASE UNCHANGED vars
  BY <1>10 DEF vars, KeyType, EventType, kbdVars, eventVars
<1> QED BY <1>1, <1>2, <1>3, <1>4, <1>5, <1>6, <1>7, <1>8, <1>9, <1>10
        DEF Next, InputTask, TtyTask, Cook

-----------------------------------------------------------------------------
(* A panic ends the behaviours; up to there and in its state the count is right. *)
Agree ==
  Len(events) =
    event_sem + (IF input.pc = "signal" THEN 1 ELSE 0) + (IF task.pc = "take" THEN 1 ELSE 0)

LEMMA AgreeStep == ASSUME QueueType, Agree, [Next]_vars PROVE Agree'
<1> USE DEF QueueType, KeyType, EventType, Agree
<1>1. CASE ReadKey
  <2>1. CASE Head(keys).key \in CtrlKey \cup AltKey
    BY <1>1, <2>1 DEF ReadKey, ReadKeyThen
  <2>2. CASE Head(keys).key \notin CtrlKey \cup AltKey
    <3>1. EventOf(Head(keys).key) \in Event
      BY <1>1, <2>2, CodeType, EventOfType DEF ReadKey, ReadKeyThen
    <3>2. Len(events') = Len(events) + 1
      BY <1>1, <2>2, <3>1 DEF ReadKey, ReadKeyThen
    <3>3. /\ input.pc = "read" /\ input'.pc = "signal"
          /\ UNCHANGED <<event_sem, task>>
      BY <1>1, <2>2 DEF ReadKey, ReadKeyThen
    <3> QED BY <3>2, <3>3
  <2> QED BY <2>1, <2>2
<1>2. CASE PushSignal
  BY <1>2 DEF PushSignal, PushThen
<1>3. CASE PopWait
  BY <1>3 DEF PopWait
<1>4. CASE Take
  <2>1. events # <<>>
    BY <1>4 DEF Take
  <2>2. events' = Tail(events) /\ Len(Tail(events)) = Len(events) - 1
    BY <1>4, <2>1 DEF Take
  <2>3. task.pc = "take" /\ task'.pc # "take"
    BY <1>4, <2>1 DEF Take, Idle
  <2>4. UNCHANGED <<input, event_sem>>
    BY <1>4 DEF Take
  <2> QED BY <2>2, <2>3, <2>4
<1>5. ASSUME UNCHANGED <<events, event_sem>>,
             input'.pc = "signal" <=> input.pc = "signal",
             task'.pc = "take" <=> task.pc = "take"
      PROVE  Agree'
  BY <1>5
<1>6. ASSUME NEW y \in Tty, CookChar(y) \/ CookBack(y) \/ CookEnd(y) PROVE Agree'
  BY <1>5, <1>6 DEF CookChar, CookBack, CookEnd, CookEndIf, Cooking, Idle, eventVars
<1>7. CASE Echo
  BY <1>5, <1>7 DEF Echo, Idle, eventVars
<1>8. ASSUME NEW code \in Typed, Key(code) PROVE Agree'
  BY <1>5, <1>8 DEF Key, eventVars
<1>9. CASE Irq \/ NoKey \/ WaitKey
  BY <1>5, <1>9 DEF Irq, NoKey, WaitKey, eventVars
<1>10. ASSUME NEW r \in Reader, Read(r) PROVE Agree'
  BY <1>5, <1>10 DEF Read, ReadWait, ReadLock, ReadChar, ReadUnlock, eventVars
<1>11. CASE UNCHANGED vars
  BY <1>5, <1>11 DEF vars, eventVars
<1> QED BY <1>1, <1>2, <1>3, <1>4, <1>6, <1>7, <1>8, <1>9, <1>10, <1>11
        DEF Next, InputTask, TtyTask, Cook

\* The ring of events and event_sem agree but for the two that are on their way, so
\* pop_event never finds the ring empty (input.c:26), in whatever order interrupts,
\* input_task, tty_task and readers run.
THEOREM EventsAgree == Spec => []EventsCounted
<1>1. Init => QueueType /\ Agree
  BY QueueTypeInit DEF Init, Agree
<1>2. QueueType /\ Agree /\ [Next]_vars => (QueueType /\ Agree)'
  BY QueueTypeStep, AgreeStep
<1>3. Agree => EventsCounted
  BY DEF Agree, EventsCounted
<1> QED BY <1>1, <1>2, <1>3, PTL DEF Spec

-----------------------------------------------------------------------------
LEMMA KeysAnnouncedStep == ASSUME QueueType, KeysAnnounced, [Next]_vars PROVE KeysAnnounced'
<1>1. ASSUME input'.pc # "wait" \/ keys' = <<>> PROVE KeysAnnounced'
  BY <1>1, Zenon DEF KeysAnnounced
<1>2. ASSUME kbdirq' > 0 PROVE KeysAnnounced'
  BY <1>2, Zenon DEF KeysAnnounced
<1>3. ASSUME UNCHANGED <<keys, irq, kbdirq>>, input'.pc = input.pc PROVE KeysAnnounced'
  BY <1>3, Zenon DEF KeysAnnounced
<1>4. ASSUME NEW code \in Typed, Key(code) PROVE KeysAnnounced'
  BY <1>4, Zenon DEF Key, KeysAnnounced
<1>5. CASE Irq
  BY <1>2, <1>5 DEF Irq, QueueType, KeyType
<1>6. CASE ReadKey
  BY <1>1, <1>6 DEF ReadKey, ReadKeyThen, QueueType, KeyType
<1>7. CASE PushSignal \/ NoKey \/ WaitKey
  BY <1>1, <1>7 DEF PushSignal, PushThen, NoKey, WaitKey, kbdVars, QueueType, KeyType
<1>8. CASE PopWait \/ Take \/ Echo
  BY <1>3, <1>8, Zenon DEF PopWait, Take, Echo, kbdVars
<1>9. ASSUME NEW y \in Tty, CookChar(y) \/ CookBack(y) \/ CookEnd(y) PROVE KeysAnnounced'
  <2>1. UNCHANGED <<kbdVars, input>>
    BY <1>9, Zenon DEF CookChar, CookBack, CookEnd, CookEndIf
  <2> QED BY <1>3, <2>1, Zenon DEF kbdVars
<1>10. ASSUME NEW r \in Reader, Read(r) PROVE KeysAnnounced'
  <2>1. UNCHANGED <<kbdVars, input>>
    BY <1>10, Zenon DEF Read, ReadWait, ReadLock, ReadChar, ReadUnlock
  <2> QED BY <1>3, <2>1, Zenon DEF kbdVars
<1>11. CASE UNCHANGED vars
  BY <1>3, <1>11, Zenon DEF vars, kbdVars
<1> QED BY <1>4, <1>5, <1>6, <1>7, <1>8, <1>9, <1>10, <1>11
        DEF Next, InputTask, TtyTask, Cook

\* input_task does not sleep on keys: an interrupt is still to come or was counted,
\* although several keys share one and keys come between its last look and sem_wait.
THEOREM KeysAwait == Spec => []KeysAnnounced
<1>1. Init => QueueType /\ KeysAnnounced
  BY QueueTypeInit DEF Init, KeysAnnounced
<1>2. QueueType /\ KeysAnnounced /\ [Next]_vars => (QueueType /\ KeysAnnounced)'
  BY QueueTypeStep, KeysAnnouncedStep
<1> QED BY <1>1, <1>2, PTL DEF Spec

-----------------------------------------------------------------------------
(* The lines.  A queue is counted by its places: those from front to rear, and *)
(* among them those with the end of a line.                                    *)

QueueOf == [buf : [0 .. BufSize - 1 -> Data \cup {Nul}],
            front : 0 .. BufSize - 1, rear : 0 .. BufSize - 1]

\* How far place i is behind place f, and the place before i.
Behind(i, f) == IF i >= f THEN i - f ELSE i - f + BufSize
Prev(i) == IF i = 0 THEN BufSize - 1 ELSE i - 1

Held(q) == {i \in 0 .. BufSize - 1 : Behind(i, q.front) < Behind(q.rear, q.front)}
Ends(q) == {i \in Held(q) : q.buf[i] = Nul}

\* Erasing stops at the front: the place before it has the end of a line.
Stops(q) == q.buf[Prev(q.front)] = Nul

LEMMA Size == BufSize \in Nat /\ BufSize > 1
BY TtyAssumption

LEMMA PutQueue ==
  ASSUME NEW q \in QueueOf, NEW c \in Data \cup {Nul}
  PROVE  LET p == Put(q, c)
         IN  /\ p \in QueueOf
             /\ ~Full(p) => /\ Ends(p) = IF c = Nul THEN Ends(q) \cup {q.rear} ELSE Ends(q)
                            /\ q.rear \notin Ends(q)
                            /\ Stops(q) => Stops(p)
<1> USE Size
<1> DEFINE f == q.front
           e == q.rear
           r == Wrapped(q.rear + 1)
           p == Put(q, c)
           b == q.buf
           B == [b EXCEPT ![e] = c, ![r] = Nul]
<1>1. /\ f \in 0 .. BufSize - 1 /\ e \in 0 .. BufSize - 1
      /\ b \in [0 .. BufSize - 1 -> Data \cup {Nul}]
  BY DEF QueueOf
<1>2. r \in 0 .. BufSize - 1 /\ r # e /\ r = IF e + 1 = BufSize THEN 0 ELSE e + 1
  BY <1>1 DEF Wrapped
<1>3. p = [buf |-> B, front |-> f, rear |-> r]
  <2>1. q = [buf |-> b, front |-> f, rear |-> e]
    BY DEF QueueOf
  <2>2. p = [q EXCEPT !.buf = B, !.rear = r]
    BY DEF Put
  <2> HIDE DEF b, f, e, B, r, p
  <2> QED BY <2>1, <2>2
<1>4. p.buf = B /\ p.front = f /\ p.rear = r
  BY <1>3
<1>5. B \in [0 .. BufSize - 1 -> Data \cup {Nul}]
  BY <1>1, <1>2
<1>6. p \in QueueOf
  <2> HIDE DEF b, f, e, B, r, p
  <2> QED BY <1>1, <1>2, <1>3, <1>5 DEF QueueOf
<1>7. /\ \A i \in 0 .. BufSize - 1 : i # e /\ i # r => B[i] = b[i]
      /\ B[e] = c /\ B[r] = Nul
  BY <1>1, <1>2
<1> HIDE DEF f, e, r, p, b, B
<1>8. ASSUME r # f
      PROVE  /\ \A i \in 0 .. BufSize - 1 :
                  Behind(i, f) < Behind(r, f) <=> Behind(i, f) < Behind(e, f) \/ i = e
             /\ ~(Behind(r, f) < Behind(r, f)) /\ ~(Behind(e, f) < Behind(e, f))
             /\ Prev(f) \in 0 .. BufSize - 1 /\ Prev(f) # e
  BY <1>1, <1>2, <1>8 DEF Behind, Prev
<1>9. ASSUME r # f
      PROVE  /\ Ends(p) = IF c = Nul THEN Ends(q) \cup {e} ELSE Ends(q)
             /\ e \notin Ends(q)
  <2>1. /\ Held(q) = {i \in 0 .. BufSize - 1 : Behind(i, f) < Behind(e, f)}
        /\ Held(p) = {i \in 0 .. BufSize - 1 : Behind(i, f) < Behind(r, f)}
    BY <1>4 DEF Held, f, e
  <2>2. /\ Held(p) = Held(q) \cup {e} /\ e \notin Held(q) /\ r \notin Held(p)
        /\ Held(q) \subseteq 0 .. BufSize - 1
    BY <1>1, <1>8, <1>9, <2>1
  <2>3. \A i \in Held(q) : B[i] = b[i]
    BY <1>7, <2>2
  <2>4. /\ Ends(p) = {i \in Held(p) : B[i] = Nul}
        /\ Ends(q) = {i \in Held(q) : b[i] = Nul}
    BY <1>4 DEF Ends, b
  <2> QED BY <1>7, <2>2, <2>3, <2>4
<1>10. ASSUME r # f, Stops(q) PROVE Stops(p)
  <2>1. Prev(f) \in 0 .. BufSize - 1 /\ Prev(f) # e
    BY <1>8, <1>10
  <2>2. b[Prev(f)] = Nul
    BY <1>10 DEF Stops, b, f
  <2>3. B[Prev(f)] = Nul
    BY <1>7, <2>1, <2>2
  <2> QED BY <1>4, <2>3 DEF Stops
<1>11. ~Full(p) => r # f
  BY <1>4 DEF Full
<1> QED BY <1>6, <1>9, <1>10, <1>11 DEF p, e

LEMMA PopBackQueue ==
  ASSUME NEW q \in QueueOf, CanErase(q)
  PROVE  LET p == tty_pop_back(q)
         IN  /\ p \in QueueOf
             /\ Stops(q) => Ends(p) = Ends(q) /\ Stops(p)
<1> USE Size
<1> DEFINE f == q.front
           e == q.rear
           r == Before(q)
           p == tty_pop_back(q)
           b == q.buf
           B == [b EXCEPT ![r] = Nul]
<1>1. /\ f \in 0 .. BufSize - 1 /\ e \in 0 .. BufSize - 1
      /\ b \in [0 .. BufSize - 1 -> Data \cup {Nul}]
  BY DEF QueueOf
<1>2. r \in 0 .. BufSize - 1 /\ r = IF e = 0 THEN BufSize - 1 ELSE e - 1
  BY <1>1 DEF Before
<1>3. p = [buf |-> B, front |-> f, rear |-> r]
  <2>1. q = [buf |-> b, front |-> f, rear |-> e]
    BY DEF QueueOf
  <2>2. p = [q EXCEPT !.rear = r, !.buf = B]
    BY DEF tty_pop_back
  <2> HIDE DEF b, f, e, B, r, p
  <2> QED BY <2>1, <2>2
<1>4. p.buf = B /\ p.front = f /\ p.rear = r
  BY <1>3
<1>5. B \in [0 .. BufSize - 1 -> Data \cup {Nul}]
  BY <1>1, <1>2
<1>6. p \in QueueOf
  <2> HIDE DEF b, f, e, B, r, p
  <2> QED BY <1>1, <1>2, <1>3, <1>5 DEF QueueOf
<1>7. /\ \A i \in 0 .. BufSize - 1 : i # r => B[i] = b[i]
      /\ B[r] = Nul /\ b[r] # Nul
  BY <1>1, <1>2 DEF CanErase
<1> HIDE DEF f, e, r, p, b, B
<1>8. ASSUME Stops(q) PROVE Ends(p) = Ends(q) /\ Stops(p)
  <2>1. b[Prev(f)] = Nul /\ Prev(f) # r
    BY <1>7, <1>8 DEF Stops, b, f
  <2>2. e # f
    BY <1>1, <1>2, <2>1 DEF Prev
  <2>3. /\ \A i \in 0 .. BufSize - 1 :
             Behind(i, f) < Behind(e, f) <=> Behind(i, f) < Behind(r, f) \/ i = r
        /\ ~(Behind(r, f) < Behind(r, f))
        /\ Prev(f) \in 0 .. BufSize - 1
    BY <1>1, <1>2, <2>2 DEF Behind, Prev
  <2>4. /\ Held(q) = {i \in 0 .. BufSize - 1 : Behind(i, f) < Behind(e, f)}
        /\ Held(p) = {i \in 0 .. BufSize - 1 : Behind(i, f) < Behind(r, f)}
    BY <1>4 DEF Held, f, e
  <2>5. Held(q) = Held(p) \cup {r} /\ r \notin Held(p) /\ Held(p) \subseteq 0 .. BufSize - 1
    BY <1>2, <2>3, <2>4
  <2>6. /\ Ends(p) = {i \in Held(p) : B[i] = Nul}
        /\ Ends(q) = {i \in Held(q) : b[i] = Nul}
    BY <1>4 DEF Ends, b
  <2>7. Ends(p) = Ends(q)
    BY <1>7, <2>5, <2>6
  <2>8. B[Prev(f)] = Nul
    BY <1>7, <2>1, <2>3
  <2> QED BY <1>4, <2>7, <2>8 DEF Stops
<1> QED BY <1>6, <1>8 DEF p

LEMMA ReadQueue ==
  ASSUME NEW q \in QueueOf
  PROVE  LET p == [q EXCEPT !.front = Wrapped(@ + 1)]
         IN  /\ p \in QueueOf
             /\ q.buf[q.front] \in Data \cup {Nul}
             /\ Ends(q) # {} => /\ Ends(p) = Ends(q) \ {q.front}
                                /\ q.front \in Ends(q) <=> q.buf[q.front] = Nul
             /\ q.buf[q.front] = Nul => Stops(p)
<1> USE Size
<1> DEFINE f == q.front
           e == q.rear
           g == Wrapped(q.front + 1)
           p == [q EXCEPT !.front = Wrapped(@ + 1)]
           b == q.buf
<1>1. /\ f \in 0 .. BufSize - 1 /\ e \in 0 .. BufSize - 1
      /\ b \in [0 .. BufSize - 1 -> Data \cup {Nul}]
  BY DEF QueueOf
<1>2. g \in 0 .. BufSize - 1 /\ g = IF f + 1 = BufSize THEN 0 ELSE f + 1
  BY <1>1 DEF Wrapped
<1>3. p = [buf |-> b, front |-> g, rear |-> e]
  BY DEF QueueOf
<1>4. p.buf = b /\ p.front = g /\ p.rear = e
  BY <1>3
<1>5. p \in QueueOf
  BY <1>1, <1>2, <1>3 DEF QueueOf
<1> HIDE DEF f, e, g, p, b
<1>6. Prev(g) = f
  BY <1>1, <1>2 DEF Prev
<1>7. /\ Held(q) = {i \in 0 .. BufSize - 1 : Behind(i, f) < Behind(e, f)}
      /\ Held(p) = {i \in 0 .. BufSize - 1 : Behind(i, g) < Behind(e, g)}
      /\ Ends(p) = {i \in Held(p) : b[i] = Nul}
      /\ Ends(q) = {i \in Held(q) : b[i] = Nul}
  BY <1>4 DEF Held, Ends, f, e, b
<1>8. ASSUME Ends(q) # {}
      PROVE  Ends(p) = Ends(q) \ {f} /\ (f \in Ends(q) <=> b[f] = Nul)
  <2>1. PICK k \in 0 .. BufSize - 1 : Behind(k, f) < Behind(e, f)
    BY <1>7, <1>8
  <2>2. e # f
    BY <1>1, <2>1 DEF Behind
  <2>3. \A i \in 0 .. BufSize - 1 :
          Behind(i, g) < Behind(e, g) <=> Behind(i, f) < Behind(e, f) /\ i # f
    BY <1>1, <1>2, <2>2 DEF Behind
  <2>4. Behind(f, f) < Behind(e, f)
    BY <1>1, <2>2 DEF Behind
  <2> QED BY <1>1, <1>7, <2>3, <2>4
<1>9. b[f] = Nul => Stops(p)
  BY <1>4, <1>6 DEF Stops
<1>10. b[f] \in Data \cup {Nul}
  BY <1>1
<1> QED BY <1>5, <1>8, <1>9, <1>10 DEF p, f, b

LEMMA EndsFinite ==
  ASSUME NEW q
  PROVE  IsFiniteSet(Ends(q)) /\ Cardinality(Ends(q)) \in Nat
<1>1. 0 \in Int /\ BufSize - 1 \in Int
  BY Size
<1>2. IsFiniteSet(0 .. BufSize - 1)
  BY <1>1, FS_Interval
<1>3. Ends(q) \in SUBSET (0 .. BufSize - 1)
  BY DEF Ends, Held
<1>4. IsFiniteSet(Ends(q))
  BY <1>2, <1>3, FS_Subset
<1> QED BY <1>4, FS_CardinalityType
-----------------------------------------------------------------------------
(* The steps.                                                                  *)

LineType ==
  /\ queue \in [Tty -> QueueOf]
  /\ lock \in [Tty -> {0, 1}] /\ cooked \in [Tty -> Nat]
  /\ reader \in [Reader -> [pc : {"idle", "lock", "loop", "unlock"}, line : Seq(Data)]]

\* A terminal's lock keeps the others out while a reader is inside.
Inside(r) == reader[r].pc \in {"loop", "unlock"}
LockInv ==
  /\ \A r, s \in Reader : ttyOf[r] = ttyOf[s] /\ Inside(r) /\ Inside(s) => r = s
  /\ \A r \in Reader : Inside(r) => lock[ttyOf[r]] = 0

\* The ends of lines are those cooked counts and those that readers were promised.
\* When no reader is inside, what was read last is the end of a line.
Promised(y) == {r \in Reader : ttyOf[r] = y /\ reader[r].pc \in {"lock", "loop"}}
Balanced(y) == Cardinality(Ends(queue[y])) = cooked[y] + Cardinality(Promised(y))
Stopped(y) == (\A r \in Reader : ttyOf[r] = y => reader[r].pc # "loop") => Stops(queue[y])

LinesInv ==
  /\ LineType /\ LockInv
  /\ ~panicked => \A y \in Tty : Balanced(y) /\ Stopped(y)

LEMMA PromisedFinite ==
  ASSUME NEW y
  PROVE  IsFiniteSet(Promised(y)) /\ Cardinality(Promised(y)) \in Nat
<1>1. Promised(y) \in SUBSET Reader
  BY DEF Promised
<1>2. IsFiniteSet(Promised(y))
  BY <1>1, TtyAssumption, FS_Subset
<1> QED BY <1>2, FS_CardinalityType

LEMMA OtherTty ==
  ASSUME NEW y \in Tty, queue'[y] = queue[y], cooked'[y] = cooked[y],
         \A r \in Reader : ttyOf[r] = y => reader'[r].pc = reader[r].pc,
         Balanced(y), Stopped(y)
  PROVE  Balanced(y)' /\ Stopped(y)'
<1>1. Promised(y)' = Promised(y)
  BY DEF Promised
<1>2. Balanced(y)'
  BY <1>1 DEF Balanced
<1>3. Stopped(y)'
  BY DEF Stopped
<1> QED BY <1>2, <1>3

LEMMA Unmoved ==
  ASSUME LinesInv, ~panicked, UNCHANGED <<queue, lock, cooked, reader>>
  PROVE  LinesInv'
<1>1. LineType' /\ LockInv'
  BY DEF LinesInv, LineType, LockInv, Inside
<1>2. \A y \in Tty : Balanced(y)' /\ Stopped(y)'
  BY OtherTty DEF LinesInv
<1> QED BY <1>1, <1>2 DEF LinesInv

\* What tty_task does to a queue while no reader is inside.
LEMMA Cooks ==
  ASSUME LinesInv, ~panicked, NEW y \in Tty, lock[y] = 1, UNCHANGED <<lock, reader>>,
         NEW q \in QueueOf, queue' = [queue EXCEPT ![y] = q],
         NEW n \in {0, 1}, cooked' = [cooked EXCEPT ![y] = @ + n],
         Stops(queue[y]) /\ ~panicked' =>
           Stops(q) /\ Cardinality(Ends(q)) = Cardinality(Ends(queue[y])) + n
  PROVE  LinesInv'
<1>1. /\ queue[y] \in QueueOf /\ cooked[y] \in Nat /\ cooked'[y] = cooked[y] + n
      /\ queue'[y] = q /\ queue' \in [Tty -> QueueOf] /\ cooked' \in [Tty -> Nat]
      /\ \A z \in Tty : z # y => queue'[z] = queue[z] /\ cooked'[z] = cooked[z]
  BY DEF LinesInv, LineType
<1>2. LineType' /\ LockInv'
  BY <1>1 DEF LinesInv, LineType, LockInv, Inside
<1>3. Balanced(y) /\ Stopped(y)
  BY DEF LinesInv
<1>4. Stops(queue[y])
  <2>1. \A r \in Reader : ttyOf[r] = y => reader[r].pc # "loop"
    BY DEF LinesInv, LockInv, Inside
  <2> QED BY <1>3, <2>1 DEF Stopped
<1>5. ASSUME ~panicked' PROVE Balanced(y)' /\ Stopped(y)'
  <2>1. Promised(y)' = Promised(y)
    BY DEF Promised
  <2>2. Stops(q) /\ Cardinality(Ends(q)) = Cardinality(Ends(queue[y])) + n
    BY <1>4, <1>5
  <2> DEFINE k == Cardinality(Ends(queue[y]))
             p == Cardinality(Promised(y))
             w == cooked[y]
  <2>3. k = w + p /\ k \in Nat /\ w \in Nat /\ p \in Nat
    BY <1>1, <1>3, EndsFinite, PromisedFinite DEF Balanced
  <2>4. Balanced(y)' <=> Cardinality(Ends(q)) = (w + n) + p
    BY <1>1, <2>1 DEF Balanced
  <2>5. Cardinality(Ends(q)) = k + n
    BY <2>2
  <2> HIDE DEF k, p, w
  <2>6. k + n = (w + n) + p
    BY <2>3
  <2> QED BY <1>1, <2>2, <2>3, <2>4, <2>5, <2>6 DEF Stopped
<1>6. \A z \in Tty : z # y => Balanced(z)' /\ Stopped(z)'
  BY <1>1, OtherTty DEF LinesInv
<1> QED BY <1>2, <1>5, <1>6 DEF LinesInv
LEMMA CookInv ==
  ASSUME EventType, LinesInv, ~panicked,
         NEW y \in Tty, CookChar(y) \/ CookBack(y) \/ CookEnd(y)
  PROVE  LinesInv'
<1> DEFINE q0 == queue[y]
<1>1. /\ q0 \in QueueOf /\ cooked \in [Tty -> Nat] /\ lock[y] = 1
      /\ UNCHANGED <<lock, reader>>
  BY DEF LinesInv, LineType, CookChar, CookBack, CookEnd, CookEndIf, Cooking
<1>2. cooked = [cooked EXCEPT ![y] = @ + 0]
  BY <1>1
<1>3. CASE CookChar(y)
  <2> DEFINE c == task.ev.data
             q == Put(q0, c)
  <2>1. /\ c \in Data \cup {Nul} /\ c # Nul /\ queue' = [queue EXCEPT ![y] = q]
        /\ cooked' = cooked /\ (~panicked' => ~Full(q))
    BY <1>3, TtyAssumption DEF CookChar, EventType, Event
  <2> HIDE DEF c
  <2>2. /\ q \in QueueOf
        /\ ~Full(q) => Ends(q) = Ends(q0) /\ (Stops(q0) => Stops(q))
    BY <1>1, <2>1, PutQueue
  <2> HIDE DEF q
  <2>3. Cardinality(Ends(q0)) = Cardinality(Ends(q0)) + 0
    BY EndsFinite
  <2> QED BY <1>1, <1>2, <2>1, <2>2, <2>3, Cooks
<1>4. CASE CookBack(y)
  <2>1. cooked' = cooked /\ panicked' = panicked
    BY <1>4 DEF CookBack
  <2>2. CASE CanErase(q0)
    <3> DEFINE q == tty_pop_back(q0)
    <3>1. queue' = [queue EXCEPT ![y] = q]
      BY <1>4, <2>2 DEF CookBack
    <3>2. q \in QueueOf /\ (Stops(q0) => Ends(q) = Ends(q0) /\ Stops(q))
      BY <1>1, <2>2, PopBackQueue
    <3> HIDE DEF q
    <3>3. Cardinality(Ends(q0)) = Cardinality(Ends(q0)) + 0
      BY EndsFinite
    <3> QED BY <1>1, <1>2, <2>1, <3>1, <3>2, <3>3, Cooks
  <2>3. CASE ~CanErase(q0)
    <3>1. queue' = queue
      BY <1>4, <2>3 DEF CookBack
    <3> QED BY <1>1, <2>1, <3>1, Unmoved
  <2> QED BY <2>2, <2>3
<1>5. CASE CookEnd(y)
  <2> DEFINE q1 == IF task.ev.ctrl THEN q0 ELSE Put(q0, Newline)
             full == ~task.ev.ctrl /\ Full(q1)
             q2 == Put(q1, Nul)
             q == IF full THEN q1 ELSE q2
             n == IF panicked' THEN 0 ELSE 1
  <2>1. /\ queue' = [queue EXCEPT ![y] = q]
        /\ ~panicked' => ~full /\ ~Full(q2)
        /\ cooked' = IF panicked' THEN cooked ELSE [cooked EXCEPT ![y] = @ + 1]
    BY <1>5 DEF CookEnd, CookEndIf
  <2>2. q1 \in QueueOf /\ (~full => Ends(q1) = Ends(q0) /\ (Stops(q0) => Stops(q1)))
    <3>1. Newline \in Data \cup {Nul} /\ Newline # Nul
      BY TtyAssumption DEF Data
    <3>2. CASE task.ev.ctrl
      BY <1>1, <3>2
    <3>3. CASE ~task.ev.ctrl
      BY <1>1, <3>1, <3>3, PutQueue
    <3> QED BY <3>2, <3>3
  <2> HIDE DEF q1, full
  <2>3. /\ q2 \in QueueOf
        /\ ~Full(q2) => /\ Ends(q2) = Ends(q1) \cup {q1.rear} /\ q1.rear \notin Ends(q1)
                        /\ Stops(q1) => Stops(q2)
    BY <2>2, PutQueue
  <2> HIDE DEF q2
  <2>4. n \in {0, 1} /\ cooked' = [cooked EXCEPT ![y] = @ + n]
    BY <1>2, <2>1
  <2>5. q \in QueueOf
    BY <2>2, <2>3
  <2>6. ASSUME Stops(q0), ~panicked'
        PROVE  Stops(q) /\ Cardinality(Ends(q)) = Cardinality(Ends(q0)) + n
    <3>1. q = q2 /\ n = 1 /\ Stops(q2)
      BY <2>1, <2>2, <2>3, <2>6
    <3>2. Ends(q2) = Ends(q0) \cup {q1.rear} /\ q1.rear \notin Ends(q0)
      BY <2>1, <2>2, <2>3, <2>6
    <3>3. Cardinality(Ends(q2)) = Cardinality(Ends(q0)) + 1
      BY <3>2, EndsFinite, FS_AddElement
    <3> QED BY <3>1, <3>3
  <2> HIDE DEF q, n
  <2> QED BY <1>1, <2>1, <2>4, <2>5, <2>6, Cooks
<1> QED BY <1>3, <1>4, <1>5

\* A reader's step: of its terminal the two counts have to agree again.
LEMMA Reads ==
  ASSUME LinesInv, ~panicked, panicked' = panicked, NEW r \in Reader,
         LineType', LockInv',
         \A z \in Tty : z # ttyOf[r] => queue'[z] = queue[z] /\ cooked'[z] = cooked[z],
         \A s \in Reader : s # r => reader'[s] = reader[s],
         Balanced(ttyOf[r])', Stopped(ttyOf[r])'
  PROVE  LinesInv'
<1>1. \A z \in Tty : z # ttyOf[r] => Balanced(z)' /\ Stopped(z)'
  <2> SUFFICES ASSUME NEW z \in Tty, z # ttyOf[r] PROVE Balanced(z)' /\ Stopped(z)'
    OBVIOUS
  <2>1. \A s \in Reader : ttyOf[s] = z => reader'[s].pc = reader[s].pc
    OBVIOUS
  <2>2. Balanced(z) /\ Stopped(z)
    BY DEF LinesInv
  <2> QED BY <2>1, <2>2, OtherTty
<1> QED BY <1>1 DEF LinesInv

LEMMA ReadInv ==
  ASSUME LinesInv, ~panicked, NEW r \in Reader, Read(r)
  PROVE  LinesInv'
<1> DEFINE y == ttyOf[r]
           p == Cardinality(Promised(y))
           k == Cardinality(Ends(queue[y]))
           w == cooked[y]
<1>1. /\ y \in Tty /\ queue \in [Tty -> QueueOf] /\ lock \in [Tty -> {0, 1}]
      /\ cooked \in [Tty -> Nat] /\ queue[y] \in QueueOf
      /\ reader \in [Reader -> [pc : {"idle", "lock", "loop", "unlock"}, line : Seq(Data)]]
      /\ p \in Nat /\ k \in Nat /\ w \in Nat
  BY TtyAssumption, PromisedFinite, EndsFinite DEF LinesInv, LineType
<1>2. Balanced(y) /\ Stopped(y) /\ k = w + p
  BY <1>1 DEF LinesInv, Balanced
<1>3. IsFiniteSet(Promised(y)) /\ IsFiniteSet(Ends(queue[y]))
  BY PromisedFinite, EndsFinite
<1>4. LockInv
  BY DEF LinesInv
<1> HIDE DEF y
<1>5. CASE ReadWait(r)
  <2>1. /\ reader[r].pc = "idle" /\ w > 0
        /\ cooked' = [cooked EXCEPT ![y] = @ - 1] /\ reader' = [reader EXCEPT ![r].pc = "lock"]
        /\ UNCHANGED <<queue, lock, panicked>>
    BY <1>5 DEF ReadWait, y
  <2>2. /\ reader'[r].pc = "lock" /\ \A s \in Reader : s # r => reader'[s] = reader[s]
        /\ reader' \in [Reader -> [pc : {"idle", "lock", "loop", "unlock"}, line : Seq(Data)]]
    BY <1>1, <2>1
  <2>3. cooked' \in [Tty -> Nat] /\ cooked'[y] = w - 1 /\ \A z \in Tty : z # y => cooked'[z] = cooked[z]
    BY <1>1, <2>1
  <2>4. LineType'
    BY <1>1, <2>1, <2>2, <2>3 DEF LineType
  <2>5. LockInv'
    <3>1. \A s \in Reader : Inside(s)' <=> Inside(s)
      BY <2>1, <2>2 DEF Inside
    <3> QED BY <1>4, <2>1, <3>1 DEF LockInv
  <2>6. Promised(y)' = Promised(y) \cup {r} /\ r \notin Promised(y)
    BY <2>1, <2>2 DEF Promised, y
  <2>7. Cardinality(Promised(y) \cup {r}) = p + 1
    BY <1>3, <2>6, FS_AddElement
  <2>8. Balanced(y)'
    <3>1. k = (w - 1) + (p + 1)
      <4> HIDE DEF k, w, p
      <4> QED BY <1>1, <1>2
    <3> QED BY <2>1, <2>3, <2>6, <2>7, <3>1 DEF Balanced
  <2>9. Stopped(y)'
    BY <1>2, <2>1, <2>2 DEF Stopped
  <2> QED BY <2>1, <2>2, <2>3, <2>4, <2>5, <2>8, <2>9, Reads DEF y
<1>6. CASE ReadLock(r)
  <2>1. /\ reader[r].pc = "lock" /\ lock[y] = 1 /\ lock' = [lock EXCEPT ![y] = 0]
        /\ reader' = [reader EXCEPT ![r] = [pc |-> "loop", line |-> <<>>]]
        /\ UNCHANGED <<queue, cooked, panicked>>
    BY <1>6 DEF ReadLock, y
  <2>2. /\ reader'[r].pc = "loop" /\ \A s \in Reader : s # r => reader'[s] = reader[s]
        /\ reader' \in [Reader -> [pc : {"idle", "lock", "loop", "unlock"}, line : Seq(Data)]]
    BY <1>1, <2>1
  <2>3. /\ lock' \in [Tty -> {0, 1}] /\ lock'[y] = 0
        /\ \A z \in Tty : z # y => lock'[z] = lock[z]
    BY <1>1, <2>1
  <2>4. LineType'
    BY <1>1, <2>1, <2>2, <2>3 DEF LineType
  <2>5. LockInv'
    <3>1. \A s \in Reader : s # r => (Inside(s)' <=> Inside(s))
      BY <2>2 DEF Inside
    <3>2. \A s \in Reader : ttyOf[s] = y => ~Inside(s)
      BY <1>4, <2>1 DEF LockInv
    <3>3. ASSUME NEW s \in Reader, Inside(s)' PROVE lock'[ttyOf[s]] = 0
      <4>1. CASE ttyOf[s] = y
        BY <2>3, <4>1
      <4>2. CASE ttyOf[s] # y
        <5>1. Inside(s) /\ ttyOf[s] \in Tty
          BY <3>1, <3>3, <4>2, TtyAssumption DEF y
        <5> QED BY <1>4, <2>3, <4>2, <5>1 DEF LockInv
      <4> QED BY <4>1, <4>2
    <3>4. ASSUME NEW s \in Reader, NEW u \in Reader, ttyOf[s] = ttyOf[u], Inside(s)', Inside(u)'
          PROVE  s = u
      <4>1. CASE s # r /\ u # r
        BY <1>4, <3>1, <3>4, <4>1 DEF LockInv
      <4>2. CASE s = r \/ u = r
        BY <3>1, <3>2, <3>4, <4>2 DEF y
      <4> QED BY <4>1, <4>2
    <3> QED BY <3>3, <3>4 DEF LockInv
  <2>6. Promised(y)' = Promised(y)
    BY <2>1, <2>2 DEF Promised
  <2>7. Balanced(y)'
    BY <1>2, <2>1, <2>6 DEF Balanced
  <2>8. Stopped(y)'
    BY <2>2 DEF Stopped, y
  <2> QED BY <2>1, <2>2, <2>4, <2>5, <2>7, <2>8, Reads DEF y
<1>7. CASE ReadChar(r)
  <2> DEFINE q == queue[y]
             f == q.front
             c == q.buf[f]
             q2 == [q EXCEPT !.front = Wrapped(@ + 1)]
  <2>1. /\ reader[r].pc = "loop" /\ queue' = [queue EXCEPT ![y].front = Wrapped(@ + 1)]
        /\ UNCHANGED <<lock, cooked, panicked>>
        /\ c = Nul => reader' = [reader EXCEPT ![r] = [pc |-> "unlock", line |-> <<>>]]
        /\ c # Nul => reader' = [reader EXCEPT ![r].line = Append(@, c)]
    BY <1>7 DEF ReadChar, y
  <2>2. r \in Promised(y)
    BY <2>1 DEF Promised, y
  <2>3. Ends(q) # {}
    <3>1. p # 0
      BY <1>3, <2>2, FS_EmptySet
    <3>2. k # 0
      <4> HIDE DEF k, w, p
      <4> QED BY <1>1, <1>2, <3>1
    <3> QED BY <3>2, FS_EmptySet
  <2>4. /\ q2 \in QueueOf /\ c \in Data \cup {Nul}
        /\ Ends(q2) = Ends(q) \ {f} /\ (f \in Ends(q) <=> c = Nul)
        /\ c = Nul => Stops(q2)
    BY <1>1, <2>3, ReadQueue
  <2>5. /\ queue' \in [Tty -> QueueOf] /\ queue'[y] = q2
        /\ \A z \in Tty : z # y => queue'[z] = queue[z]
    <3>1. queue' = [queue EXCEPT ![y] = q2]
      BY <2>1
    <3> HIDE DEF q2
    <3> QED BY <1>1, <2>4, <3>1
  <2> HIDE DEF q2, c
  <2>6. /\ reader' \in [Reader -> [pc : {"idle", "lock", "loop", "unlock"}, line : Seq(Data)]]
        /\ \A s \in Reader : s # r => reader'[s] = reader[s]
        /\ reader'[r].pc = IF c = Nul THEN "unlock" ELSE "loop"
    <3>1. CASE c = Nul
      <4> DEFINE done == [pc |-> "unlock", line |-> <<>>]
      <4>1. done \in [pc : {"idle", "lock", "loop", "unlock"}, line : Seq(Data)]
        OBVIOUS
      <4>2. done.pc = "unlock" /\ reader' = [reader EXCEPT ![r] = done]
        BY <2>1, <3>1
      <4> HIDE DEF done
      <4> QED BY <1>1, <3>1, <4>1, <4>2
    <3>2. CASE c # Nul
      <4>1. Append(reader[r].line, c) \in Seq(Data)
        BY <1>1, <2>4, <3>2
      <4>2. reader' = [reader EXCEPT ![r] = [reader[r] EXCEPT !.line = Append(reader[r].line, c)]]
        BY <2>1, <3>2
      <4> QED BY <1>1, <2>1, <3>2, <4>1, <4>2
    <3> QED BY <3>1, <3>2
  <2>7. LineType'
    BY <1>1, <2>1, <2>5, <2>6 DEF LineType
  <2>8. LockInv'
    <3>1. \A s \in Reader : Inside(s)' <=> Inside(s)
      BY <2>1, <2>6 DEF Inside
    <3> QED BY <1>4, <2>1, <3>1 DEF LockInv
  <2>9. Balanced(y)' /\ Stopped(y)'
    <3>1. CASE c = Nul
      <4>1. Promised(y)' = Promised(y) \ {r}
        BY <2>6, <3>1 DEF Promised
      <4>2. Cardinality(Promised(y) \ {r}) = p - 1
        BY <1>3, <2>2, FS_RemoveElement
      <4>3. Cardinality(Ends(q) \ {f}) = k - 1
        BY <1>3, <2>4, <3>1, FS_RemoveElement
      <4>4. k - 1 = w + (p - 1)
        <5> HIDE DEF k, w, p
        <5> QED BY <1>1, <1>2
      <4>5. Balanced(y)'
        BY <2>1, <2>4, <2>5, <4>1, <4>2, <4>3, <4>4 DEF Balanced
      <4> QED BY <2>4, <2>5, <3>1, <4>5 DEF Stopped
    <3>2. CASE c # Nul
      <4>1. Promised(y)' = Promised(y)
        BY <2>1, <2>6, <3>2 DEF Promised
      <4>2. Ends(q2) = Ends(q)
        BY <2>4, <3>2
      <4>3. Balanced(y)'
        BY <1>2, <2>1, <2>5, <4>1, <4>2 DEF Balanced
      <4> QED BY <2>6, <3>2, <4>3 DEF Stopped, y
    <3> QED BY <3>1, <3>2
  <2> QED BY <2>1, <2>5, <2>6, <2>7, <2>8, <2>9, Reads DEF y
<1>8. CASE ReadUnlock(r)
  <2>1. /\ reader[r].pc = "unlock" /\ lock' = [lock EXCEPT ![y] = 1]
        /\ reader' = [reader EXCEPT ![r].pc = "idle"]
        /\ UNCHANGED <<queue, cooked, panicked>>
    BY <1>8 DEF ReadUnlock, y
  <2>2. /\ reader'[r].pc = "idle" /\ \A s \in Reader : s # r => reader'[s] = reader[s]
        /\ reader' \in [Reader -> [pc : {"idle", "lock", "loop", "unlock"}, line : Seq(Data)]]
    BY <1>1, <2>1
  <2>3. /\ lock' \in [Tty -> {0, 1}]
        /\ \A z \in Tty : z # y => lock'[z] = lock[z]
    BY <1>1, <2>1
  <2>4. LineType'
    BY <1>1, <2>1, <2>2, <2>3 DEF LineType
  <2>5. LockInv'
    <3>1. \A s \in Reader : Inside(s)' <=> Inside(s) /\ s # r
      BY <2>1, <2>2 DEF Inside
    <3>2. \A s \in Reader : ttyOf[s] = y /\ Inside(s) => s = r
      BY <1>4, <2>1 DEF LockInv, Inside, y
    <3>3. ASSUME NEW s \in Reader, Inside(s)' PROVE lock'[ttyOf[s]] = 0
      <4>1. Inside(s) /\ ttyOf[s] # y /\ ttyOf[s] \in Tty
        BY <3>1, <3>2, <3>3, TtyAssumption
      <4> QED BY <1>4, <2>3, <4>1 DEF LockInv
    <3> QED BY <1>4, <3>1, <3>3 DEF LockInv
  <2>6. Promised(y)' = Promised(y)
    BY <2>1, <2>2 DEF Promised
  <2>7. Balanced(y)'
    BY <1>2, <2>1, <2>6 DEF Balanced
  <2>8. Stopped(y)'
    BY <1>2, <2>1, <2>2 DEF Stopped
  <2> QED BY <2>1, <2>2, <2>4, <2>5, <2>7, <2>8, Reads DEF y
<1> QED BY <1>5, <1>6, <1>7, <1>8 DEF Read
-----------------------------------------------------------------------------
(* The rest of the types.  A full ring of events panics, so it is not full     *)
(* before; scrolling keeps the cursor on the screen.                           *)

RestType ==
  /\ irq \in BOOLEAN /\ panicked \in BOOLEAN
  /\ sent \in 0 .. MaxKeys
  /\ Len(events) <= NEVENTS /\ (~panicked => Len(events) < NEVENTS)
  /\ cursor \in [Tty -> 0 .. Lines * Columns - 1]

LEMMA Screen == Lines \in Nat /\ Columns \in Nat /\ Lines > 0 /\ Columns > 0 /\ Lines * Columns \in Nat \ {0}
BY TtyAssumption

LEMMA NextLine ==
  ASSUME NEW l \in Nat, NEW c \in Nat \ {0}, NEW at \in 0 .. l * c - 1
  PROVE  (at - (at % c)) + c \in c .. l * c
<1>1. l * c \in Nat /\ at % c \in Nat /\ at % c <= at
  OBVIOUS
<1>2. PICK k \in Nat : at = c * k + (at % c) /\ at % c \in 0 .. c - 1
  <2>1. at = c * (at \div c) + (at % c) /\ at % c \in 0 .. c - 1 /\ at \div c \in Nat
    OBVIOUS
  <2> QED BY <2>1
<1>3. ASSUME NEW m \in Nat, NEW n \in Nat, m <= n PROVE c * m <= c * n
  BY <1>3
<1>4. k < l
  <2> SUFFICES ASSUME l <= k PROVE FALSE
    OBVIOUS
  <2>1. c * l <= c * k /\ c * l = l * c /\ c * k \in Nat
    BY <1>3
  <2> QED BY <1>1, <1>2, <2>1
<1>5. c * (k + 1) <= c * l /\ c * (k + 1) = c * k + c /\ c * l = l * c /\ c * k \in Nat
  BY <1>3, <1>4
<1>6. (at - (at % c)) + c <= l * c /\ at - (at % c) >= 0
  BY <1>1, <1>2, <1>5
<1> QED BY <1>1, <1>6

LEMMA CursorStays ==
  ASSUME NEW at \in 0 .. Lines * Columns - 1, NEW c
  PROVE  tty_putc(at, c) \in 0 .. Lines * Columns - 1
<1> DEFINE places == Lines * Columns
           next == (at - (at % Columns)) + Columns
<1>1. places \in Nat \ {0} /\ Columns \in Nat \ {0} /\ Columns <= places
  BY Screen
<1>2. next \in Columns .. places
  BY <1>1, Screen, NextLine
<1>3. at + 1 \in 1 .. places
  BY <1>1
<1> HIDE DEF places, next
<1>4. ASSUME NEW x \in 1 .. places PROVE (IF x = places THEN x - Columns ELSE x) \in 0 .. places - 1
  BY <1>1
<1>5. next \in 1 .. places
  BY <1>1, <1>2
<1>6. Scrolled(at + 1) \in 0 .. places - 1 /\ Scrolled(next) \in 0 .. places - 1
  BY <1>3, <1>4, <1>5 DEF Scrolled, places
<1>7. at > 0 => at - 1 \in 0 .. places - 1
  BY <1>1 DEF places
<1> QED BY <1>6, <1>7 DEF tty_putc, places, next

LEMMA RestTypeInit == Init => RestType
<1> SUFFICES ASSUME Init PROVE RestType
  OBVIOUS
<1>1. sent \in 0 .. MaxKeys /\ Len(events) < NEVENTS /\ Len(events) <= NEVENTS
  BY TtyAssumption DEF Init
<1>2. cursor \in [Tty -> 0 .. Lines * Columns - 1]
  BY Screen DEF Init
<1>3. irq \in BOOLEAN /\ panicked \in BOOLEAN
  BY DEF Init
<1> QED BY <1>1, <1>2, <1>3 DEF RestType

LEMMA RestTypeStep ==
  ASSUME QueueType, RestType, ~panicked, Next
  PROVE  RestType'
<1>1. ASSUME NEW code \in Typed, Key(code) PROVE RestType'
  <2>1. sent' \in 0 .. MaxKeys
    BY <1>1, TtyAssumption DEF Key, RestType
  <2> QED BY <1>1, <2>1, Zenon DEF Key, RestType, eventVars, ttyVars
<1>2. CASE Irq
  BY <1>2, Zenon DEF Irq, RestType, eventVars, ttyVars
<1>3. CASE ReadKey
  <2>1. UNCHANGED <<irq, sent, cursor>>
    BY <1>3, Zenon DEF ReadKey, ReadKeyThen, ttyVars
  <2>2. CASE Head(keys).key \in CtrlKey \cup AltKey
    <3>1. UNCHANGED <<events, panicked>>
      BY <1>3, <2>2, Zenon DEF ReadKey, ReadKeyThen
    <3> QED BY <2>1, <3>1, Zenon DEF RestType
  <2>3. CASE Head(keys).key \notin CtrlKey \cup AltKey
    <3>1. EventOf(Head(keys).key) \in Event
      BY <1>3, <2>3, CodeType, EventOfType DEF ReadKey, ReadKeyThen, QueueType
    <3>2. events' = Append(events, EventOf(Head(keys).key))
      BY <1>3, <2>3, Zenon DEF ReadKey, ReadKeyThen
    <3>3. panicked' = (Len(events') = NEVENTS)
      BY <1>3, <2>3, Zenon DEF ReadKey, ReadKeyThen
    <3>4. Len(events') = Len(events) + 1
      BY <3>1, <3>2 DEF QueueType, EventType
    <3>5. Len(events) \in Nat /\ Len(events) < NEVENTS
      BY DEF QueueType, EventType, RestType
    <3>6. Len(events') <= NEVENTS /\ (Len(events') # NEVENTS => Len(events') < NEVENTS)
      BY <3>4, <3>5, TtyAssumption
    <3>7. panicked' \in BOOLEAN /\ (~panicked' => Len(events') # NEVENTS)
      BY <3>3, Zenon
    <3> QED BY <2>1, <3>6, <3>7, Zenon DEF RestType
  <2> QED BY <2>2, <2>3
<1>4. CASE PushSignal \/ NoKey \/ WaitKey
  BY <1>4, Zenon DEF PushSignal, PushThen, NoKey, WaitKey, RestType, kbdVars, eventVars, ttyVars
<1>5. CASE PopWait
  BY <1>5, Zenon DEF PopWait, RestType, kbdVars, ttyVars
<1>6. CASE Take
  <2>1. UNCHANGED <<irq, sent, cursor>>
    BY <1>6, Zenon DEF Take, kbdVars, ttyVars
  <2>2. CASE events = <<>>
    BY <1>6, <2>1, <2>2, Zenon DEF Take, RestType
  <2>3. CASE events # <<>>
    <3>1. events' = Tail(events) /\ UNCHANGED panicked
      BY <1>6, <2>3, Zenon DEF Take
    <3>2. Len(events') = Len(events) - 1
      BY <2>3, <3>1 DEF QueueType, EventType
    <3>3. Len(events) \in Nat /\ Len(events) < NEVENTS
      BY DEF QueueType, EventType, RestType
    <3>4. Len(events') < NEVENTS /\ Len(events') <= NEVENTS
      BY <3>2, <3>3, TtyAssumption
    <3> QED BY <2>1, <3>1, <3>4, Zenon DEF RestType
  <2> QED BY <2>2, <2>3
<1>7. ASSUME NEW y \in Tty, CookChar(y) \/ CookBack(y) \/ CookEnd(y) PROVE RestType'
  <2>1. UNCHANGED <<irq, sent, events, cursor>>
    BY <1>7, Zenon DEF CookChar, CookBack, CookEnd, CookEndIf, kbdVars, eventVars
  <2>2. panicked' \in BOOLEAN
    <3>1. CASE CookChar(y)
      <4>1. panicked' = Full(Put(queue[y], task.ev.data))
        BY <3>1, Zenon DEF CookChar
      <4> QED BY <4>1, Zenon DEF Full
    <3>2. CASE CookBack(y)
      BY <3>2, Zenon DEF CookBack, RestType
    <3>3. CASE CookEnd(y)
      BY <3>3, Zenon DEF CookEnd, CookEndIf
    <3> QED BY <1>7, <3>1, <3>2, <3>3
  <2> QED BY <2>1, <2>2, Zenon DEF RestType
<1>8. CASE Echo
  <2>1. UNCHANGED <<irq, sent, events, panicked>>
    BY <1>8, Zenon DEF Echo, kbdVars, eventVars
  <2> DEFINE y == task.tty
             at == tty_putc(cursor[y], task.ev.data)
  <2>2. y \in Tty /\ cursor' = [cursor EXCEPT ![y] = at]
    BY <1>8 DEF Echo, QueueType, EventType
  <2>3. cursor[y] \in 0 .. Lines * Columns - 1
    BY <2>2 DEF RestType
  <2>4. at \in 0 .. Lines * Columns - 1
    BY <2>3, CursorStays
  <2> HIDE DEF y, at
  <2>5. cursor' \in [Tty -> 0 .. Lines * Columns - 1]
    BY <2>2, <2>4 DEF RestType
  <2> QED BY <2>1, <2>5, Zenon DEF RestType
<1>9. ASSUME NEW r \in Reader, Read(r) PROVE RestType'
  <2>1. UNCHANGED <<irq, sent, events, cursor, panicked>>
    BY <1>9, Zenon DEF Read, ReadWait, ReadLock, ReadChar, ReadUnlock, kbdVars, eventVars
  <2> QED BY <2>1, Zenon DEF RestType
<1> QED BY <1>1, <1>2, <1>3, <1>4, <1>5, <1>6, <1>7, <1>8, <1>9, Zenon
        DEF Next, InputTask, TtyTask, Cook

-----------------------------------------------------------------------------
(* The ends of lines among the places of the queue are those in the text.      *)

LEMMA Modulo ==
  ASSUME NEW d \in 0 .. BufSize - 1, NEW k \in {d - BufSize, d, d + BufSize}
  PROVE  k % BufSize = d
<1> USE Size
<1>1. CASE k = d - BufSize
  BY <1>1
<1>2. CASE k = d
  BY <1>2
<1>3. CASE k = d + BufSize
  BY <1>3
<1> QED BY <1>1, <1>2, <1>3

\* The place d behind the front, and how far it is behind.
Place(f, d) == IF f + d < BufSize THEN f + d ELSE f + d - BufSize

LEMMA Places ==
  ASSUME NEW f \in 0 .. BufSize - 1
  PROVE  /\ \A d \in 0 .. BufSize - 1 : Place(f, d) \in 0 .. BufSize - 1 /\ Behind(Place(f, d), f) = d
         /\ \A i \in 0 .. BufSize - 1 : Behind(i, f) \in 0 .. BufSize - 1 /\ Place(f, Behind(i, f)) = i
BY Size DEF Place, Behind

LEMMA ContentIs ==
  ASSUME NEW q \in QueueOf
  PROVE  LET n == Behind(q.rear, q.front)
         IN  /\ n \in 0 .. BufSize - 1
             /\ Content(q) = [i \in 1 .. n |-> q.buf[Place(q.front, i - 1)]]
<1> DEFINE f == q.front
           e == q.rear
           n == Behind(e, f)
<1>1. f \in 0 .. BufSize - 1 /\ e \in 0 .. BufSize - 1
  BY DEF QueueOf
<1> HIDE DEF f, e
<1>2. n \in 0 .. BufSize - 1 /\ (e - f = n \/ e - f = n - BufSize)
  BY <1>1, Size DEF Behind
<1> HIDE DEF n
<1>3. (e - f) % BufSize = n
  BY <1>2, Modulo
<1>4. ASSUME NEW i \in 1 .. n PROVE (f + i - 1) % BufSize = Place(f, i - 1)
  <2>1. i - 1 \in 0 .. BufSize - 1 /\ f + i - 1 = f + (i - 1)
    BY <1>1, <1>2, <1>4, Size
  <2>2. Place(f, i - 1) \in 0 .. BufSize - 1
    BY <1>1, <2>1, Places
  <2>3. f + i - 1 = Place(f, i - 1) \/ f + i - 1 = Place(f, i - 1) + BufSize
    BY <1>1, <2>1, Size DEF Place
  <2> QED BY <2>2, <2>3, Modulo
<1>5. Content(q) = [i \in 1 .. n |-> q.buf[Place(f, i - 1)]]
  BY <1>3, <1>4 DEF Content, f, e
<1> QED BY <1>2, <1>5 DEF n, f, e

LEMMA EndsOfText ==
  ASSUME NEW q \in QueueOf, NEW h \in Seq(Data)
  PROVE  LET s == h \o Content(q)
         IN  Cardinality({i \in DOMAIN s : s[i] = Nul}) = Cardinality(Ends(q))
<1> DEFINE f == q.front
           n == Behind(q.rear, q.front)
           b == q.buf
           m == Len(h)
           C == Content(q)
           s == h \o C
           S == {i \in DOMAIN s : s[i] = Nul}
           At(e) == m + Behind(e, f) + 1
           g == [e \in Ends(q) |-> At(e)]
<1>1. /\ f \in 0 .. BufSize - 1 /\ n \in 0 .. BufSize - 1 /\ m \in Nat
      /\ b \in [0 .. BufSize - 1 -> Data \cup {Nul}]
      /\ C = [i \in 1 .. n |-> b[Place(f, i - 1)]]
  BY ContentIs DEF QueueOf
<1>2. Ends(q) = {i \in 0 .. BufSize - 1 : Behind(i, f) < n /\ b[i] = Nul}
  BY DEF Ends, Held
<1> HIDE DEF f, n, b, C, m
<1>3. C \in Seq(Data \cup {Nul}) /\ Len(C) = n
  <2>1. \A i \in 1 .. n : Place(f, i - 1) \in 0 .. BufSize - 1
    <3>1. \A i \in 1 .. n : i - 1 \in 0 .. BufSize - 1
      BY <1>1, Size
    <3> QED BY <1>1, <3>1, Places
  <2>2. \A i \in 1 .. n : C[i] \in Data \cup {Nul}
    BY <1>1, <2>1
  <2> QED BY <1>1, <2>2
<1>4. /\ DOMAIN s = 1 .. m + n
      /\ \A i \in 1 .. m : s[i] \in Data
      /\ \A i \in 1 .. n : s[m + i] = C[i]
  BY <1>1, <1>3 DEF m
<1>5. S = {i \in m + 1 .. m + n : C[i - m] = Nul}
  <2>1. \A i \in 1 .. m : s[i] # Nul
    BY <1>4, TtyAssumption
  <2>2. \A i \in m + 1 .. m + n : s[i] = C[i - m]
    <3> SUFFICES ASSUME NEW i \in m + 1 .. m + n PROVE s[i] = C[i - m]
      OBVIOUS
    <3>1. i - m \in 1 .. n /\ i = m + (i - m)
      BY <1>1
    <3> QED BY <1>4, <3>1
  <2> HIDE DEF s
  <2>3. DOMAIN s = (1 .. m) \cup (m + 1 .. m + n)
    BY <1>1, <1>4, Size
  <2> QED BY <2>1, <2>2, <2>3
<1>6. S = {i \in m + 1 .. m + n : b[Place(f, i - m - 1)] = Nul}
  <2>1. \A i \in m + 1 .. m + n : C[i - m] = b[Place(f, i - m - 1)]
    BY <1>1
  <2> QED BY <1>5, <2>1
<1> HIDE DEF S, s
<1>7. ASSUME NEW e \in Ends(q) PROVE At(e) \in S
  <2>1. /\ Behind(e, f) \in 0 .. n - 1 /\ Place(f, Behind(e, f)) = e /\ b[e] = Nul
    BY <1>1, <1>2, Places
  <2>2. At(e) \in m + 1 .. m + n /\ At(e) - m - 1 = Behind(e, f)
    BY <1>1, <2>1
  <2> QED BY <1>6, <2>1, <2>2
<1>8. ASSUME NEW d \in Ends(q), NEW e \in Ends(q), At(d) = At(e) PROVE d = e
  <2>1. /\ Behind(d, f) \in Nat /\ Place(f, Behind(d, f)) = d
        /\ Behind(e, f) \in Nat /\ Place(f, Behind(e, f)) = e
    BY <1>1, <1>2, Places
  <2>2. Behind(d, f) = Behind(e, f)
    BY <1>1, <1>8, <2>1
  <2> QED BY <2>1, <2>2
<1>9. ASSUME NEW i \in S PROVE \E e \in Ends(q) : At(e) = i
  <2> DEFINE d == i - m - 1
             e == Place(f, d)
  <2>1. i \in m + 1 .. m + n /\ d \in 0 .. n - 1 /\ b[e] = Nul /\ i = m + d + 1
    BY <1>1, <1>6
  <2>2. d \in 0 .. BufSize - 1
    BY <1>1, <2>1, Size
  <2> HIDE DEF d
  <2>3. e \in 0 .. BufSize - 1 /\ Behind(e, f) = d
    BY <1>1, <2>2, Places
  <2> HIDE DEF e
  <2>4. d < n /\ At(e) = i
    BY <1>1, <2>1, <2>2, <2>3, Size
  <2>5. e \in Ends(q)
    BY <1>2, <2>1, <2>3, <2>4
  <2> QED BY <2>4, <2>5
<1>10. g \in Bijection(Ends(q), S)
  <2> HIDE DEF At
  <2>1. g \in [Ends(q) -> S]
    BY <1>7
  <2>2. \A d, e \in Ends(q) : g[d] = g[e] => d = e
    BY <1>8
  <2>3. \A i \in S : \E e \in Ends(q) : g[e] = i
    BY <1>9
  <2> HIDE DEF g
  <2> QED BY <2>1, <2>2, <2>3, Fun_IsBij
<1>11. ExistsBijection(Ends(q), S)
  BY <1>10 DEF ExistsBijection
<1> QED BY <1>11, EndsFinite, FS_Bijection DEF S, s, C

-----------------------------------------------------------------------------
CountInv == QueueType /\ RestType /\ LinesInv

LEMMA LinesInvInit == Init => LinesInv
<1> SUFFICES ASSUME Init PROVE LinesInv
  OBVIOUS
<1>1. LineType
  <2>1. [buf |-> [i \in 0 .. BufSize - 1 |-> Nul], front |-> 0, rear |-> 0] \in QueueOf
    BY Size DEF QueueOf
  <2> QED BY <2>1 DEF Init, LineType
<1>2. LockInv
  BY DEF Init, LockInv, Inside
<1>3. ASSUME NEW y \in Tty PROVE Balanced(y) /\ Stopped(y)
  <2>1. /\ queue[y] = [buf |-> [i \in 0 .. BufSize - 1 |-> Nul], front |-> 0, rear |-> 0]
        /\ cooked[y] = 0
    BY DEF Init
  <2>2. Ends(queue[y]) = {}
    BY <2>1, Size DEF Ends, Held, Behind
  <2>3. Promised(y) = {}
    BY DEF Init, Promised
  <2>4. Balanced(y)
    <3>1. Cardinality(Ends(queue[y])) = 0 /\ Cardinality(Promised(y)) = 0
      BY <2>2, <2>3, FS_EmptySet, Zenon
    <3>2. cooked[y] + Cardinality(Promised(y)) = 0
      BY <2>1, <3>1
    <3> QED BY <3>1, <3>2, Zenon DEF Balanced
  <2>5. Stops(queue[y])
    BY <2>1, Size DEF Stops, Prev
  <2> QED BY <2>4, <2>5 DEF Stopped
<1> QED BY <1>1, <1>2, <1>3 DEF LinesInv

LEMMA LinesInvStep == ASSUME CountInv, ~panicked, Next PROVE LinesInv'
<1>1. LinesInv /\ EventType
  BY DEF CountInv, QueueType
<1>2. ASSUME NEW code \in Typed, Key(code) PROVE LinesInv'
  BY <1>1, <1>2, Unmoved DEF Key, ttyVars
<1>3. CASE Irq \/ InputTask
  BY <1>1, <1>3, Unmoved
     DEF Irq, InputTask, ReadKey, ReadKeyThen, PushSignal, PushThen, NoKey, WaitKey, ttyVars
<1>4. CASE PopWait \/ Take \/ Echo
  BY <1>1, <1>4, Unmoved DEF PopWait, Take, Echo, ttyVars
<1>5. CASE Cook
  BY <1>1, <1>5, CookInv DEF Cook
<1>6. ASSUME NEW r \in Reader, Read(r) PROVE LinesInv'
  BY <1>1, <1>6, ReadInv
<1> QED BY <1>2, <1>3, <1>4, <1>5, <1>6 DEF Next, TtyTask

LEMMA CountInvStep == CountInv /\ [Next]_vars => CountInv'
<1> SUFFICES ASSUME CountInv, [Next]_vars PROVE CountInv'
  OBVIOUS
<1>1. QueueType'
  BY QueueTypeStep DEF CountInv
<1>2. CASE Next
  <2>1. ~panicked
    BY <1>2, Zenon DEF Next
  <2>2. RestType'
    BY <1>2, <2>1, RestTypeStep DEF CountInv
  <2> QED BY <1>1, <1>2, <2>1, <2>2, LinesInvStep DEF CountInv
<1>3. CASE UNCHANGED vars
  <2>1. RestType'
    BY <1>3, Zenon DEF CountInv, RestType, vars, kbdVars, eventVars, ttyVars
  <2>2. UNCHANGED <<queue, lock, cooked, reader, panicked>>
    BY <1>3, Zenon DEF vars, ttyVars
  <2>3. LinesInv'
    <3>1. CASE ~panicked
      BY <2>2, <3>1, Unmoved DEF CountInv
    <3>2. CASE panicked
      <4>1. LineType /\ LockInv /\ panicked'
        BY <2>2, <3>2, Zenon DEF CountInv, LinesInv
      <4>2. LineType' /\ LockInv'
        BY <2>2, <4>1 DEF LineType, LockInv, Inside
      <4> QED BY <4>1, <4>2, Zenon DEF LinesInv
    <3> QED BY <3>1, <3>2
  <2> QED BY <1>1, <2>1, <2>3 DEF CountInv
<1> QED BY <1>2, <1>3

LEMMA CountTypeOK == CountInv => TypeOK
<1> SUFFICES ASSUME CountInv PROVE TypeOK
  OBVIOUS
<1>1. /\ keys \in Seq(Code) /\ kbdirq \in Nat /\ event_sem \in Nat
      /\ input \in [pc : {"read", "signal", "wait"}, held : SUBSET (CtrlKey \cup AltKey)]
      /\ events \in Seq(Event)
      /\ task \in [pc : {"pop", "take", "cook", "echo"}, ev : Event, tty : Tty]
  BY DEF CountInv, QueueType, KeyType, EventType
<1>2. /\ irq \in BOOLEAN /\ panicked \in BOOLEAN /\ sent \in 0 .. MaxKeys
      /\ Len(events) <= NEVENTS /\ cursor \in [Tty -> 0 .. Lines * Columns - 1]
  BY Zenon DEF CountInv, RestType
<1>3. /\ queue \in [Tty -> QueueOf]
      /\ lock \in [Tty -> {0, 1}] /\ cooked \in [Tty -> Nat]
      /\ \A r \in Reader : reader[r].pc \in {"idle", "lock", "loop", "unlock"}
  BY DEF CountInv, LinesInv, LineType
<1> QED BY <1>1, <1>2, <1>3, Zenon DEF TypeOK, QueueOf

LEMMA InHandType == ASSUME LineType, NEW y PROVE InHand(y) \in Seq(Data)
<1> DEFINE busy == {r \in Reader : ttyOf[r] = y /\ reader[r].pc = "loop"}
<1>1. CASE busy = {}
  BY <1>1 DEF InHand
<1>2. CASE busy # {}
  <2>1. (CHOOSE r \in busy : TRUE) \in Reader
    BY <1>2
  <2>2. \A r \in Reader : reader[r].line \in Seq(Data)
    BY DEF LineType
  <2> QED BY <1>2, <2>1, <2>2 DEF InHand
<1> QED BY <1>1, <1>2

LEMMA CountIsExact == CountInv => LinesCounted
<1> SUFFICES ASSUME CountInv PROVE LinesCounted
  OBVIOUS
<1>1. TypeOK
  BY CountTypeOK
<1>2. ASSUME ~panicked, NEW y \in Tty
      PROVE  Cardinality({i \in DOMAIN Text(y) : Text(y)[i] = Nul}) = cooked[y] + Cardinality(Promised(y))
  <2>1. LineType /\ Balanced(y)
    BY <1>2 DEF CountInv, LinesInv
  <2>2. InHand(y) \in Seq(Data) /\ queue[y] \in QueueOf
    BY <2>1, InHandType DEF LineType
  <2>3. Cardinality({i \in DOMAIN Text(y) : Text(y)[i] = Nul}) = Cardinality(Ends(queue[y]))
    BY <2>2, EndsOfText DEF Text
  <2> QED BY <2>1, <2>3 DEF Balanced
<1> QED BY <1>1, <1>2, Zenon DEF LinesCounted, Promised

\* cooked never promises a line that is not there: it counts the ends of lines that no
\* reader was promised (tty_cook, tty.c:72, and tty_read, tty.c:199), whatever is typed and erased,
\* however many tasks read and however small the buffer is.
THEOREM LinesAreCounted == Spec => []LinesCounted
<1>1. Init => CountInv
  BY QueueTypeInit, RestTypeInit, LinesInvInit DEF CountInv
<1> QED BY <1>1, CountInvStep, CountIsExact, PTL DEF Spec

-----------------------------------------------------------------------------
(* The lines of a text.                                                        *)

\* Induction over the naturals, for a set rather than for an operator.
LEMMA Induction ==
  ASSUME NEW T, 0 \in T, \A n \in Nat : n \in T => n + 1 \in T
  PROVE  \A n \in Nat : n \in T
<1> DEFINE R == OpToRel(<, Nat)
           U == {n \in Nat : n \notin T}
<1>1. IsWellFoundedOn(R, Nat)
  BY NatLessThanWellFounded
<1>2. \A i, j \in Nat : i < j => <<i, j>> \in R
  BY DEF OpToRel
<1> SUFFICES ASSUME U # {} PROVE FALSE
  OBVIOUS
<1> HIDE DEF R
<1>3. U \subseteq Nat
  OBVIOUS
<1>4. PICK x \in U : \A y \in U : <<y, x>> \notin R
  <2> HIDE DEF U
  <2> QED BY <1>1, <1>3, WFMin
<1>5. x \in Nat /\ x \notin T
  OBVIOUS
<1>6. x # 0
  BY <1>5
<1>7. x - 1 \in Nat /\ x - 1 < x /\ (x - 1) + 1 = x
  BY <1>5, <1>6
<1>8. <<x - 1, x>> \in R
  BY <1>2, <1>5, <1>7
<1>9. x - 1 \notin U
  BY <1>4, <1>8
<1>10. x - 1 \in T
  BY <1>7, <1>9
<1> QED BY <1>5, <1>7, <1>10

\* One more character of the text: its effect on the lines.
Piece(before, c) ==
  IF c = Nul THEN Append(before, <<>>) ELSE [before EXCEPT ![Len(before)] = Append(@, c)]
Splits(s, n, p) == p = [i \in 0 .. n |-> IF i = 0 THEN <<<<>>>> ELSE Piece(p[i - 1], s[i])]

LEMMA SplitsExist == ASSUME NEW s, NEW n \in Nat PROVE \E p : Splits(s, n, p)
<1> DEFINE T == {k \in Nat : \E p : Splits(s, k, p)}
<1>1. 0 \in T
  <2>1. Splits(s, 0, [i \in 0 .. 0 |-> <<<<>>>>])
    BY DEF Splits
  <2> QED BY <2>1
<1>2. ASSUME NEW k \in Nat, k \in T PROVE k + 1 \in T
  <2>1. PICK p : Splits(s, k, p)
    BY <1>2
  <2> DEFINE e == Piece(p[k], s[k + 1])
             g == [i \in 0 .. k + 1 |-> IF i = k + 1 THEN e ELSE p[i]]
  <2> HIDE DEF e
  <2>2. ASSUME NEW i \in 0 .. k + 1
        PROVE  g[i] = IF i = 0 THEN <<<<>>>> ELSE Piece(g[i - 1], s[i])
    <3>1. CASE i = k + 1
      BY <3>1 DEF e
    <3>2. CASE i # k + 1
      <4>1. i \in 0 .. k /\ g[i] = p[i] /\ (i # 0 => i - 1 \in 0 .. k /\ g[i - 1] = p[i - 1])
        BY <3>2
      <4> HIDE DEF g
      <4>2. p[i] = IF i = 0 THEN <<<<>>>> ELSE Piece(p[i - 1], s[i])
        BY <2>1, <4>1 DEF Splits
      <4> QED BY <4>1, <4>2
    <3> QED BY <3>1, <3>2
  <2>3. g = [i \in 0 .. k + 1 |-> g[i]]
    OBVIOUS
  <2> HIDE DEF g
  <2>4. Splits(s, k + 1, g)
    BY <2>2, <2>3 DEF Splits
  <2> QED BY <2>4
<1> HIDE DEF T
<1>3. \A k \in Nat : k \in T
  BY <1>1, <1>2, Induction
<1> QED BY <1>3 DEF T

LEMMA SplitIs == ASSUME NEW s \in Seq(Data \cup {Nul}) PROVE \E p : Splits(s, Len(s), p) /\ Split(s) = p[Len(s)]
<1> DEFINE n == Len(s)
   h == CHOOSE p : Splits(s, n, p)
<1>1. n \in Nat
  OBVIOUS
<1> HIDE DEF n
<1>2. Splits(s, n, h)
  BY <1>1, SplitsExist
<1>3. Split(s) = h[n]
  BY Zenon DEF Split, h, Splits, n, Piece
<1> QED BY <1>2, <1>3 DEF n

LEMMA SplitsAgree ==
  ASSUME NEW s, NEW t, NEW m \in Nat, NEW n \in Nat, m <= n, NEW p, NEW g,
         Splits(s, m, p), Splits(t, n, g), \A i \in 1 .. m : s[i] = t[i]
  PROVE  p[m] = g[m]
<1> DEFINE T == {k \in Nat : k <= m => p[k] = g[k]}
<1>1. /\ \A i \in 0 .. m : p[i] = IF i = 0 THEN <<<<>>>> ELSE Piece(p[i - 1], s[i])
      /\ \A i \in 0 .. m : g[i] = IF i = 0 THEN <<<<>>>> ELSE Piece(g[i - 1], t[i])
  BY DEF Splits
<1>2. 0 \in T
  BY <1>1
<1>3. ASSUME NEW k \in Nat, k \in T PROVE k + 1 \in T
  <2> SUFFICES ASSUME k + 1 <= m PROVE p[k + 1] = g[k + 1]
    OBVIOUS
  <2>1. p[k] = g[k] /\ s[k + 1] = t[k + 1] /\ k + 1 \in 0 .. m /\ k + 1 # 0 /\ (k + 1) - 1 = k
    BY <1>3
  <2>2. p[k + 1] = Piece(p[k], s[k + 1]) /\ g[k + 1] = Piece(g[k], t[k + 1])
    BY <1>1, <2>1
  <2> QED BY <2>1, <2>2
<1> HIDE DEF T
<1>4. \A k \in Nat : k \in T
  BY <1>2, <1>3, Induction
<1> QED BY <1>4 DEF T

Chars == Data \cup {Nul}

LEMMA SplitEmpty == Split(<<>>) = <<<<>>>>
<1>1. <<>> \in Seq(Chars) /\ Len(<<>>) = 0
  OBVIOUS
<1>2. PICK p : Splits(<<>>, 0, p) /\ Split(<<>>) = p[0]
  BY <1>1, SplitIs DEF Chars
<1> QED BY <1>2 DEF Splits

LEMMA SplitAppend ==
  ASSUME NEW s \in Seq(Chars), NEW c \in Chars
  PROVE  Split(Append(s, c)) = Piece(Split(s), c)
<1> DEFINE t == Append(s, c)
           n == Len(s)
<1>1. t \in Seq(Chars) /\ n \in Nat /\ Len(t) = n + 1 /\ t[n + 1] = c /\ \A i \in 1 .. n : s[i] = t[i]
  OBVIOUS
<1>2. PICK p : Splits(s, n, p) /\ Split(s) = p[n]
  BY SplitIs DEF Chars
<1>3. PICK g : Splits(t, n + 1, g) /\ Split(t) = g[n + 1]
  BY <1>1, SplitIs DEF Chars
<1> HIDE DEF t, n
<1>4. p[n] = g[n]
  BY <1>1, <1>2, <1>3, SplitsAgree
<1>5. g[n + 1] = Piece(g[n], t[n + 1])
  <2>1. n + 1 \in 0 .. n + 1 /\ n + 1 # 0 /\ (n + 1) - 1 = n
    BY <1>1
  <2> QED BY <1>3, <2>1 DEF Splits
<1>6. Split(t) = Piece(Split(s), c)
  BY <1>1, <1>2, <1>3, <1>4, <1>5
<1> QED BY <1>6 DEF t

\* Induction over a text, a character at a time.
LEMMA TextInduction ==
  ASSUME NEW S, NEW T, <<>> \in T, \A s \in Seq(S) : \A c \in S : s \in T => Append(s, c) \in T
  PROVE  \A s \in Seq(S) : s \in T
<1> DEFINE N == {n \in Nat : \A s \in Seq(S) : Len(s) = n => s \in T}
<1>1. 0 \in N
  OBVIOUS
<1>2. ASSUME NEW n \in Nat, n \in N PROVE n + 1 \in N
  <2> SUFFICES ASSUME NEW s \in Seq(S), Len(s) = n + 1 PROVE s \in T
    OBVIOUS
  <2> DEFINE h == SubSeq(s, 1, n)
             c == s[n + 1]
  <2>1. h \in Seq(S) /\ Len(h) = n /\ c \in S /\ s = Append(h, c)
    OBVIOUS
  <2>2. h \in T
    BY <1>2, <2>1
  <2> HIDE DEF h, c
  <2> QED BY <2>1, <2>2
<1> HIDE DEF N
<1>3. \A n \in Nat : n \in N
  BY <1>1, <1>2, Induction
<1> QED BY <1>3 DEF N

Lists == {l \in Seq(Seq(Data)) : l # <<>>}

LEMMA PieceType == ASSUME NEW l \in Lists, NEW c \in Chars PROVE Piece(l, c) \in Lists
<1> DEFINE n == Len(l)
<1>1. n \in Nat \ {0} /\ l[n] \in Seq(Data) /\ l \in Seq(Seq(Data))
  BY DEF Lists
<1>2. CASE c = Nul
  BY <1>1, <1>2 DEF Piece, Lists
<1>3. CASE c # Nul
  <2> DEFINE x == Append(l[n], c)
             k == [l EXCEPT ![n] = x]
  <2>1. x \in Seq(Data)
    BY <1>1, <1>3 DEF Chars
  <2> HIDE DEF x
  <2>2. k \in Seq(Seq(Data)) /\ Len(k) = n
    BY <1>1, <2>1
  <2>3. Piece(l, c) = k
    BY <1>3 DEF Piece, x
  <2> QED BY <1>1, <2>2, <2>3 DEF Lists
<1> QED BY <1>2, <1>3

LEMMA SplitType == ASSUME NEW s \in Seq(Chars) PROVE Split(s) \in Lists
<1> DEFINE T == {t \in Seq(Chars) : Split(t) \in Lists}
<1>1. <<>> \in T
  <2>1. <<>> \in Seq(Data) /\ <<>> \in Seq(Chars)
    OBVIOUS
  <2>2. <<<<>>>> \in Lists
    BY <2>1 DEF Lists
  <2> QED BY <2>1, <2>2, SplitEmpty
<1>2. ASSUME NEW t \in Seq(Chars), NEW c \in Chars, t \in T PROVE Append(t, c) \in T
  BY <1>2, SplitAppend, PieceType
<1> HIDE DEF T
<1>3. s \in T
  BY <1>1, <1>2, TextInduction
<1> QED BY <1>3 DEF T

\* A text without an end of line is one line.
LEMMA SplitLine == ASSUME NEW s \in Seq(Data) PROVE Split(s) = <<s>>
<1> DEFINE T == {t \in Seq(Data) : Split(t) = <<t>>}
<1>1. <<>> \in T
  BY SplitEmpty
<1>2. ASSUME NEW t \in Seq(Data), NEW c \in Data, t \in T PROVE Append(t, c) \in T
  <2>1. t \in Seq(Chars) /\ c \in Chars /\ c # Nul
    BY TtyAssumption DEF Chars
  <2>2. Split(Append(t, c)) = Piece(<<t>>, c)
    BY <1>2, <2>1, SplitAppend
  <2>3. Piece(<<t>>, c) = <<Append(t, c)>>
    BY <2>1 DEF Piece
  <2> QED BY <2>2, <2>3
<1> HIDE DEF T
<1>3. s \in T
  BY <1>1, <1>2, TextInduction
<1> QED BY <1>3 DEF T

LEMMA ConsExcept ==
  ASSUME NEW S, NEW l \in Seq(S), NEW h \in S, NEW x \in S, NEW n \in Nat \ {0}, n = Len(l)
  PROVE  [<<h>> \o l EXCEPT ![n + 1] = x] = <<h>> \o [l EXCEPT ![n] = x]
<1> DEFINE g == <<h>> \o l
           u == [g EXCEPT ![n + 1] = x]
           m == [l EXCEPT ![n] = x]
           v == <<h>> \o m
<1>1. g \in Seq(S) /\ Len(g) = n + 1 /\ g[1] = h /\ \A i \in 1 .. n : g[i + 1] = l[i]
  OBVIOUS
<1> HIDE DEF g
<1>2. u \in Seq(S) /\ Len(u) = n + 1 /\ u[n + 1] = x /\ \A i \in 1 .. n : u[i] = g[i]
  BY <1>1
<1>3. m \in Seq(S) /\ Len(m) = n /\ m[n] = x /\ \A i \in 1 .. n - 1 : m[i] = l[i]
  OBVIOUS
<1> HIDE DEF m
<1>4. v \in Seq(S) /\ Len(v) = n + 1 /\ v[1] = h /\ \A i \in 1 .. n : v[i + 1] = m[i]
  BY <1>3
<1> HIDE DEF u, v
<1>5. ASSUME NEW i \in 1 .. n + 1 PROVE u[i] = v[i]
  <2>1. CASE i = 1
    BY <1>1, <1>2, <1>4, <2>1
  <2>2. CASE i # 1 /\ i # n + 1
    <3>1. PICK j \in 1 .. n - 1 : i = j + 1
      BY <2>2
    <3>2. j \in 1 .. n /\ j + 1 \in 1 .. n
      OBVIOUS
    <3>3. u[j + 1] = g[j + 1] /\ g[j + 1] = l[j] /\ v[j + 1] = m[j] /\ m[j] = l[j]
      BY <1>1, <1>2, <1>3, <1>4, <3>2
    <3> QED BY <3>1, <3>3
  <2>3. CASE i = n + 1
    <3>1. n \in 1 .. n
      OBVIOUS
    <3> QED BY <1>2, <1>3, <1>4, <2>3, <3>1
  <2> QED BY <2>1, <2>2, <2>3
<1>6. u = v
  BY <1>2, <1>4, <1>5
<1> QED BY <1>6 DEF u, v, m, g

\* The first line of a text is what comes before the first Nul.
LEMMA SplitHead ==
  ASSUME NEW h \in Seq(Data), NEW s \in Seq(Chars)
  PROVE  Split((h \o <<Nul>>) \o s) = <<h>> \o Split(s)
<1> DEFINE k == h \o <<Nul>>
           T == {t \in Seq(Chars) : Split(k \o t) = <<h>> \o Split(t)}
<1>1. k \in Seq(Chars) /\ k = Append(h, Nul) /\ h \in Seq(Chars) /\ Nul \in Chars
  BY DEF Chars
<1>2. <<>> \in T
  <2>1. Split(k) = Piece(<<h>>, Nul)
    BY <1>1, SplitAppend, SplitLine
  <2>2. Piece(<<h>>, Nul) = <<h>> \o <<<<>>>>
    BY DEF Piece
  <2>3. k \o <<>> = k /\ <<>> \in Seq(Chars)
    BY <1>1
  <2>4. Split(k \o <<>>) = <<h>> \o Split(<<>>)
    <3> HIDE DEF k
    <3> QED BY <2>1, <2>2, <2>3, SplitEmpty
  <2> QED BY <2>3, <2>4
<1> HIDE DEF k
<1>3. ASSUME NEW t \in Seq(Chars), NEW c \in Chars, t \in T PROVE Append(t, c) \in T
  <2>1. k \o Append(t, c) = Append(k \o t, c) /\ k \o t \in Seq(Chars)
    BY <1>1
  <2> DEFINE l == Split(t)
             n == Len(l)
  <2>2. Split(k \o Append(t, c)) = Piece(<<h>> \o l, c)
    BY <1>3, <2>1, SplitAppend
  <2>3. l \in Seq(Seq(Data)) /\ n \in Nat \ {0}
    BY SplitType DEF Lists
  <2>4. Split(Append(t, c)) = Piece(l, c)
    BY SplitAppend
  <2> HIDE DEF l, n
  <2>5. Piece(<<h>> \o l, c) = <<h>> \o Piece(l, c)
    <3>1. CASE c = Nul
      BY <2>3, <3>1 DEF Piece
    <3>2. CASE c # Nul
      <4> DEFINE g == <<h>> \o l
                 x == Append(l[n], c)
      <4>1. Len(g) = n + 1 /\ g[n + 1] = l[n] /\ g \in Seq(Seq(Data))
        BY <2>3 DEF n
      <4>2. Piece(g, c) = [g EXCEPT ![n + 1] = x] /\ Piece(l, c) = [l EXCEPT ![n] = x]
        BY <3>2, <4>1 DEF Piece, n
      <4>3. x \in Seq(Data)
        BY <2>3, <3>2 DEF Chars, n
      <4> HIDE DEF x
      <4>4. [g EXCEPT ![n + 1] = x] = <<h>> \o [l EXCEPT ![n] = x]
        <5> DEFINE S == Seq(Data)
        <5>1. l \in Seq(S) /\ h \in S /\ x \in S /\ n \in Nat \ {0} /\ n = Len(l)
          BY <2>3, <4>3 DEF n
        <5> HIDE DEF S
        <5> QED BY <5>1, ConsExcept
      <4> QED BY <4>2, <4>4
    <3> QED BY <3>1, <3>2
  <2>6. Append(t, c) \in Seq(Chars)
    OBVIOUS
  <2> QED BY <2>2, <2>4, <2>5, <2>6 DEF l
<1> HIDE DEF T
<1>4. s \in T
  BY <1>2, <1>3, TextInduction
<1> QED BY <1>4 DEF T, k

LEMMA ContentAt ==
  ASSUME NEW q \in QueueOf
  PROVE  LET n == Behind(q.rear, q.front)
         IN  /\ n \in 0 .. BufSize - 1 /\ n \in Nat
             /\ Content(q) \in Seq(Chars) /\ Len(Content(q)) = n
             /\ \A i \in 0 .. n - 1 : Place(q.front, i) \in 0 .. BufSize - 1
             /\ \A i \in 0 .. n - 1 : Content(q)[i + 1] = q.buf[Place(q.front, i)]
<1> DEFINE n == Behind(q.rear, q.front)
           f == q.front
<1>1. f \in 0 .. BufSize - 1 /\ q.buf \in [0 .. BufSize - 1 -> Chars]
  BY DEF QueueOf, Chars
<1>2. n \in 0 .. BufSize - 1 /\ Content(q) = [i \in 1 .. n |-> q.buf[Place(f, i - 1)]]
  BY ContentIs
<1> HIDE DEF n, f
<1>3. n \in Nat /\ \A i \in 0 .. n - 1 : i \in 0 .. BufSize - 1
  BY <1>2, Size
<1>4. \A i \in 0 .. n - 1 : Place(f, i) \in 0 .. BufSize - 1
  BY <1>1, <1>3, Places
<1>5. \A i \in 1 .. n : i - 1 \in 0 .. n - 1
  BY <1>3
<1>6. \A i \in 1 .. n : q.buf[Place(f, i - 1)] \in Chars
  BY <1>1, <1>4, <1>5
<1>7. Content(q) \in Seq(Chars) /\ Len(Content(q)) = n
  BY <1>2, <1>3, <1>6
<1>8. \A i \in 0 .. n - 1 : Content(q)[i + 1] = q.buf[Place(f, i)]
  <2> SUFFICES ASSUME NEW i \in 0 .. n - 1 PROVE Content(q)[i + 1] = q.buf[Place(f, i)]
    OBVIOUS
  <2>1. i + 1 \in 1 .. n /\ (i + 1) - 1 = i
    BY <1>3
  <2> QED BY <1>2, <2>1
<1> QED BY <1>2, <1>3, <1>4, <1>7, <1>8 DEF n, f

\* Two sequences given by their elements from 0 on.
LEMMA SameText ==
  ASSUME NEW S, NEW n \in Nat, NEW s \in Seq(S), NEW t \in Seq(S), Len(s) = n, Len(t) = n,
         \A i \in 0 .. n - 1 : s[i + 1] = t[i + 1]
  PROVE  s = t
<1>1. ASSUME NEW j \in 1 .. n PROVE s[j] = t[j]
  <2>1. PICK i \in 0 .. n - 1 : j = i + 1
    <3>1. j - 1 \in 0 .. n - 1 /\ j = (j - 1) + 1
      OBVIOUS
    <3> QED BY <3>1
  <2> QED BY <2>1
<1> QED BY <1>1

LEMMA PutText ==
  ASSUME NEW q \in QueueOf, NEW c \in Chars, ~Full(Put(q, c))
  PROVE  Content(Put(q, c)) = Append(Content(q), c)
<1> USE Size
<1> DEFINE f == q.front
           e == q.rear
           r == Wrapped(q.rear + 1)
           p == Put(q, c)
           b == q.buf
           B == [b EXCEPT ![e] = c, ![r] = Nul]
           n == Behind(e, f)
           C == Content(q)
           D == Content(p)
<1>1. /\ f \in 0 .. BufSize - 1 /\ e \in 0 .. BufSize - 1
      /\ b \in [0 .. BufSize - 1 -> Chars]
  BY DEF QueueOf, Chars
<1>2. r \in 0 .. BufSize - 1 /\ r # e /\ r = IF e + 1 = BufSize THEN 0 ELSE e + 1
  BY <1>1 DEF Wrapped
<1>3. p \in QueueOf
  BY PutQueue DEF Chars
<1>4. p.buf = B /\ p.front = f /\ p.rear = r
  <2>1. q = [buf |-> b, front |-> f, rear |-> e]
    BY DEF QueueOf
  <2>2. p = [q EXCEPT !.buf = B, !.rear = r]
    BY DEF Put
  <2> HIDE DEF b, f, e, B, r, p
  <2> QED BY <2>1, <2>2
<1>5. /\ \A i \in 0 .. BufSize - 1 : i # e /\ i # r => B[i] = b[i]
      /\ B[e] = c
  BY <1>1, <1>2
<1>6. r # f
  BY <1>4 DEF Full
<1>7. /\ n \in Nat /\ C \in Seq(Chars) /\ Len(C) = n
      /\ \A i \in 0 .. n - 1 : Place(f, i) \in 0 .. BufSize - 1 /\ C[i + 1] = b[Place(f, i)]
  BY ContentAt
<1>8. LET m == Behind(r, f)
      IN  /\ D \in Seq(Chars) /\ Len(D) = m
          /\ \A i \in 0 .. m - 1 : Place(f, i) \in 0 .. BufSize - 1 /\ D[i + 1] = B[Place(f, i)]
  <2> HIDE DEF p, B, r
  <2> QED BY <1>3, <1>4, ContentAt
<1> HIDE DEF f, e, r, p, b, B, C, D
<1>9. n \in 0 .. BufSize - 1 /\ Behind(r, f) = n + 1 /\ Place(f, n) = e
  BY <1>1, <1>2, <1>6 DEF Behind, Place
<1>10. ASSUME NEW i \in 0 .. n - 1 PROVE Place(f, i) # e /\ Place(f, i) # r
  BY <1>1, <1>2, <1>6, <1>9, <1>10 DEF Behind, Place
<1> HIDE DEF n
<1> DEFINE A == Append(C, c)
<1>11. /\ A \in Seq(Chars) /\ Len(A) = n + 1 /\ A[n + 1] = c
       /\ \A i \in 0 .. n - 1 : A[i + 1] = C[i + 1]
  BY <1>7
<1>12. D \in Seq(Chars) /\ Len(D) = n + 1 /\ \A i \in 0 .. n : D[i + 1] = B[Place(f, i)]
  <2>1. (n + 1) - 1 = n
    BY <1>7
  <2> QED BY <1>8, <1>9, <2>1
<1> HIDE DEF A
<1>13. ASSUME NEW i \in 0 .. (n + 1) - 1 PROVE D[i + 1] = A[i + 1]
  <2>1. i \in 0 .. n
    BY <1>7
  <2>2. D[i + 1] = B[Place(f, i)]
    BY <1>12, <2>1
  <2>3. CASE i = n
    BY <1>5, <1>9, <1>11, <2>2, <2>3
  <2>4. CASE i # n
    <3>1. i \in 0 .. n - 1
      BY <1>7, <2>1, <2>4
    <3> QED BY <1>5, <1>7, <1>10, <1>11, <2>2, <3>1
  <2> QED BY <2>3, <2>4
<1>14. D = A
  <2>1. n + 1 \in Nat
    BY <1>7
  <2> QED BY <1>11, <1>12, <1>13, <2>1, SameText
<1> QED BY <1>14 DEF D, A, p, C

LEMMA PopText ==
  ASSUME NEW q \in QueueOf, CanErase(q), Stops(q)
  PROVE  LET p == tty_pop_back(q)
         IN  /\ Content(p) \in Seq(Chars) /\ q.buf[Before(q)] \in Data
             /\ Content(q) = Append(Content(p), q.buf[Before(q)])
<1> USE Size
<1> DEFINE f == q.front
           e == q.rear
           r == Before(q)
           p == tty_pop_back(q)
           b == q.buf
           B == [b EXCEPT ![r] = Nul]
           n == Behind(r, f)
           C == Content(q)
           D == Content(p)
<1>1. /\ f \in 0 .. BufSize - 1 /\ e \in 0 .. BufSize - 1
      /\ b \in [0 .. BufSize - 1 -> Chars]
  BY DEF QueueOf, Chars
<1>2. r \in 0 .. BufSize - 1 /\ r = IF e = 0 THEN BufSize - 1 ELSE e - 1
  BY <1>1 DEF Before
<1>3. p \in QueueOf
  BY PopBackQueue
<1>4. p.buf = B /\ p.front = f /\ p.rear = r
  <2>1. q = [buf |-> b, front |-> f, rear |-> e]
    BY DEF QueueOf
  <2>2. p = [q EXCEPT !.rear = r, !.buf = B]
    BY DEF tty_pop_back
  <2> HIDE DEF b, f, e, B, r, p
  <2> QED BY <2>1, <2>2
<1>5. (\A i \in 0 .. BufSize - 1 : i # r => B[i] = b[i]) /\ b[r] \in Data
  BY <1>1, <1>2 DEF CanErase, Chars
<1>6. Prev(f) # r
  BY <1>5, TtyAssumption DEF Stops, CanErase
<1>7. e # f
  BY <1>1, <1>2, <1>6 DEF Prev
<1>8. LET m == Behind(e, f)
      IN  /\ C \in Seq(Chars) /\ Len(C) = m
          /\ \A i \in 0 .. m - 1 : Place(f, i) \in 0 .. BufSize - 1 /\ C[i + 1] = b[Place(f, i)]
  BY ContentAt
<1>9. /\ n \in Nat /\ D \in Seq(Chars) /\ Len(D) = n
      /\ \A i \in 0 .. n - 1 : Place(f, i) \in 0 .. BufSize - 1 /\ D[i + 1] = B[Place(f, i)]
  <2> HIDE DEF p, B, r
  <2> QED BY <1>3, <1>4, ContentAt
<1> HIDE DEF f, e, r, p, b, B, C, D
<1>10. n \in 0 .. BufSize - 1 /\ Behind(e, f) = n + 1 /\ Place(f, n) = r
  BY <1>1, <1>2, <1>7 DEF Behind, Place
<1>11. ASSUME NEW i \in 0 .. n - 1 PROVE Place(f, i) # r
  BY <1>1, <1>2, <1>7, <1>10, <1>11 DEF Behind, Place
<1> HIDE DEF n
<1> DEFINE A == Append(D, b[r])
<1>12. /\ A \in Seq(Chars) /\ Len(A) = n + 1 /\ A[n + 1] = b[r]
       /\ \A i \in 0 .. n - 1 : A[i + 1] = D[i + 1]
  BY <1>5, <1>9 DEF Chars
<1>13. C \in Seq(Chars) /\ Len(C) = n + 1 /\ \A i \in 0 .. n : C[i + 1] = b[Place(f, i)]
  <2>1. (n + 1) - 1 = n
    BY <1>9
  <2> QED BY <1>8, <1>10, <2>1
<1> HIDE DEF A
<1>14. ASSUME NEW i \in 0 .. (n + 1) - 1 PROVE C[i + 1] = A[i + 1]
  <2>1. i \in 0 .. n
    BY <1>9
  <2>2. C[i + 1] = b[Place(f, i)]
    BY <1>13, <2>1
  <2>3. CASE i = n
    BY <1>10, <1>12, <2>2, <2>3
  <2>4. CASE i # n
    <3>1. i \in 0 .. n - 1
      BY <1>9, <2>1, <2>4
    <3> QED BY <1>5, <1>9, <1>11, <1>12, <2>2, <3>1
  <2> QED BY <2>3, <2>4
<1>15. C = A
  <2>1. n + 1 \in Nat
    BY <1>9
  <2> QED BY <1>12, <1>13, <1>14, <2>1, SameText
<1> QED BY <1>5, <1>9, <1>15 DEF D, A, p, C, b, r

LEMMA ReadText ==
  ASSUME NEW q \in QueueOf, Ends(q) # {}
  PROVE  LET p == [q EXCEPT !.front = Wrapped(@ + 1)]
         IN  /\ Content(p) \in Seq(Chars) /\ q.buf[q.front] \in Chars
             /\ Content(q) = <<q.buf[q.front]>> \o Content(p)
<1> USE Size
<1> DEFINE f == q.front
           e == q.rear
           g == Wrapped(q.front + 1)
           p == [q EXCEPT !.front = Wrapped(@ + 1)]
           b == q.buf
           n == Behind(e, g)
           C == Content(q)
           D == Content(p)
<1>1. /\ f \in 0 .. BufSize - 1 /\ e \in 0 .. BufSize - 1
      /\ b \in [0 .. BufSize - 1 -> Chars]
  BY DEF QueueOf, Chars
<1>2. g \in 0 .. BufSize - 1 /\ g = IF f + 1 = BufSize THEN 0 ELSE f + 1
  BY <1>1 DEF Wrapped
<1>3. p \in QueueOf
  BY ReadQueue
<1>4. p.buf = b /\ p.front = g /\ p.rear = e
  BY DEF QueueOf
<1>5. e # f
  <2>1. PICK k \in 0 .. BufSize - 1 : Behind(k, f) < Behind(e, f)
    BY DEF Ends, Held
  <2> QED BY <1>1, <2>1 DEF Behind
<1>6. LET m == Behind(e, f)
      IN  /\ C \in Seq(Chars) /\ Len(C) = m
          /\ \A i \in 0 .. m - 1 : Place(f, i) \in 0 .. BufSize - 1 /\ C[i + 1] = b[Place(f, i)]
  BY ContentAt
<1>7. /\ n \in Nat /\ D \in Seq(Chars) /\ Len(D) = n
      /\ \A i \in 0 .. n - 1 : D[i + 1] = b[Place(g, i)]
  <2> HIDE DEF p, b, g
  <2> QED BY <1>3, <1>4, ContentAt
<1> HIDE DEF f, e, g, p, b, C, D
<1>8. n \in 0 .. BufSize - 1 /\ Behind(e, f) = n + 1 /\ Place(f, 0) = f
  BY <1>1, <1>2, <1>5 DEF Behind, Place
<1>9. ASSUME NEW i \in 0 .. n - 1 PROVE Place(f, i + 1) = Place(g, i)
  BY <1>1, <1>2, <1>8, <1>9 DEF Place
<1> HIDE DEF n
<1> DEFINE A == <<b[f]>> \o D
<1>10. b[f] \in Chars
  BY <1>1
<1>11. A \in Seq(Chars) /\ Len(A) = n + 1 /\ A[1] = b[f] /\ \A j \in 1 .. n : A[j + 1] = D[j]
  BY <1>7, <1>10
<1>12. C \in Seq(Chars) /\ Len(C) = n + 1 /\ \A i \in 0 .. n : C[i + 1] = b[Place(f, i)]
  <2>1. (n + 1) - 1 = n
    BY <1>7
  <2> QED BY <1>6, <1>8, <2>1
<1> HIDE DEF A
<1>13. ASSUME NEW i \in 0 .. (n + 1) - 1 PROVE C[i + 1] = A[i + 1]
  <2>1. i \in 0 .. n
    BY <1>7
  <2>2. C[i + 1] = b[Place(f, i)]
    BY <1>12, <2>1
  <2>3. CASE i = 0
    <3>1. 0 + 1 = 1
      OBVIOUS
    <3> QED BY <1>8, <1>11, <2>2, <2>3, <3>1
  <2>4. CASE i # 0
    <3>1. PICK k \in 0 .. n - 1 : i = k + 1
      <4>1. i - 1 \in 0 .. n - 1 /\ i = (i - 1) + 1
        BY <1>7, <2>1, <2>4
      <4> QED BY <4>1
    <3>2. k + 1 \in 1 .. n
      BY <1>7
    <3>3. A[(k + 1) + 1] = D[k + 1]
      BY <1>11, <3>2
    <3> QED BY <1>7, <1>9, <2>2, <3>1, <3>3
  <2> QED BY <2>3, <2>4
<1>14. C = A
  <2>1. n + 1 \in Nat
    BY <1>7
  <2> QED BY <1>11, <1>12, <1>13, <2>1, SameText
<1> QED BY <1>7, <1>10, <1>14 DEF D, A, p, C, b, f

-----------------------------------------------------------------------------
(* What a terminal's text is before and after a step, and so its lines.        *)

Looping(y) == {r \in Reader : ttyOf[r] = y /\ reader[r].pc = "loop"}

LEMMA HandEmpty == ASSUME NEW y, Looping(y) = {} PROVE InHand(y) = <<>>
BY DEF InHand, Looping

LEMMA HandOf ==
  ASSUME LockInv, NEW r \in Reader, reader[r].pc = "loop"
  PROVE  Looping(ttyOf[r]) = {r} /\ InHand(ttyOf[r]) = reader[r].line
<1>1. Looping(ttyOf[r]) = {r}
  BY DEF LockInv, Inside, Looping
<1>2. (CHOOSE s \in {r} : TRUE) = r
  OBVIOUS
<1> QED BY <1>1, <1>2 DEF InHand, Looping

LEMMA HandStays ==
  ASSUME NEW y, \A r \in Reader : ttyOf[r] = y =>
                   \/ reader'[r] = reader[r]
                   \/ reader[r].pc # "loop" /\ reader'[r].pc # "loop"
  PROVE  InHand(y)' = InHand(y)
<1>1. Looping(y)' = Looping(y) /\ \A r \in Looping(y) : reader'[r] = reader[r]
  BY DEF Looping
<1>2. CASE Looping(y) = {}
  BY <1>1, <1>2, HandEmpty DEF InHand, Looping
<1>3. CASE Looping(y) # {}
  <2> DEFINE r == CHOOSE r \in Looping(y) : TRUE
  <2>1. r \in Looping(y)
    BY <1>3
  <2>2. InHand(y) = reader[r].line /\ InHand(y)' = reader'[r].line
    BY <1>1, <1>3, Zenon DEF InHand, Looping
  <2> QED BY <1>1, <2>1, <2>2
<1> QED BY <1>2, <1>3

LEMMA TextType == ASSUME LineType, NEW y \in Tty PROVE Text(y) \in Seq(Chars)
<1>1. InHand(y) \in Seq(Chars)
  <2>1. InHand(y) \in Seq(Data) /\ Data \subseteq Chars
    BY InHandType DEF Chars
  <2> QED BY <2>1
<1>2. Content(queue[y]) \in Seq(Chars)
  <2>1. queue[y] \in QueueOf
    BY DEF LineType
  <2> QED BY <2>1, ContentAt
<1> QED BY <1>1, <1>2 DEF Text

LEMMA Stays ==
  ASSUME NEW y \in Tty, Text(y)' = Text(y), got'[y] = got[y]
  PROVE  LineStep(y)
<1>1. Split(Text(y))' = Split(Text(y))
  BY DEF Split
<1>2. UNCHANGED LD(y)!ldVars
  BY <1>1 DEF LD!ldVars
<1> QED BY <1>2 DEF LineStep

LEMMA TypesChar ==
  ASSUME NEW y \in Tty, NEW c \in Data \ {Newline, Backspace}, Text(y) \in Seq(Chars),
         Text(y)' = Append(Text(y), c), got'[y] = got[y]
  PROVE  LineStep(y)
<1>1. c \in Chars /\ c # Nul
  BY TtyAssumption DEF Chars
<1>2. Split(Text(y))' = Piece(Split(Text(y)), c)
  <2>1. Split(Text(y))' = Split(Append(Text(y), c))
    BY DEF Split
  <2> QED BY <1>1, <2>1, SplitAppend
<1>3. LD(y)!Type(c)
  BY <1>1, <1>2 DEF LD!Type, LD!Typing, Piece
<1>4. LD(y)!Next
  BY <1>3 DEF LD!Next
<1> QED BY <1>4 DEF LineStep

LEMMA AppendBack ==
  ASSUME NEW S, NEW s \in Seq(S), NEW c \in S
  PROVE  LET x == Append(s, c) IN x # <<>> /\ SubSeq(x, 1, Len(x) - 1) = s
<1> DEFINE x == Append(s, c)
           z == SubSeq(x, 1, Len(x) - 1)
           n == Len(s)
<1>1. n \in Nat /\ x \in Seq(S) /\ Len(x) = n + 1 /\ \A i \in 1 .. n : x[i] = s[i]
  OBVIOUS
<1> HIDE DEF x
<1>2. Len(x) - 1 = n /\ x # <<>>
  BY <1>1
<1>3. z \in Seq(S) /\ Len(z) = n /\ \A i \in 1 .. n : z[i] = x[i]
  BY <1>1, <1>2
<1> HIDE DEF z
<1>4. z = s
  BY <1>1, <1>3
<1> QED BY <1>2, <1>4 DEF x, z

LEMMA ExceptBack ==
  ASSUME NEW S, NEW l \in Seq(S), NEW n \in 1 .. Len(l), NEW x \in S
  PROVE  LET k == [l EXCEPT ![n] = x] IN Len(k) = Len(l) /\ k[n] = x /\ [k EXCEPT ![n] = l[n]] = l
<1> DEFINE k == [l EXCEPT ![n] = x]
           m == [k EXCEPT ![n] = l[n]]
<1>1. k \in Seq(S) /\ Len(k) = Len(l) /\ k[n] = x /\ \A i \in 1 .. Len(l) : i # n => k[i] = l[i]
  OBVIOUS
<1> HIDE DEF k
<1>2. m \in Seq(S) /\ Len(m) = Len(l) /\ \A i \in 1 .. Len(l) : m[i] = l[i]
  BY <1>1
<1> HIDE DEF m
<1>3. m = l
  BY <1>2
<1> QED BY <1>1, <1>3 DEF k, m

LEMMA ErasesChar ==
  ASSUME NEW y \in Tty, NEW c \in Data, Text(y)' \in Seq(Chars),
         Text(y) = Append(Text(y)', c), got'[y] = got[y]
  PROVE  LineStep(y)
<1> DEFINE l == Split(Text(y)')
           n == Len(l)
           x == Append(l[n], c)
<1>1. c \in Chars /\ c # Nul
  BY TtyAssumption DEF Chars
<1>2. Split(Text(y)) = Piece(l, c) /\ Split(Text(y))' = l
  <2>1. Split(Text(y))' = l
    BY DEF Split
  <2>2. Split(Text(y)) = Split(Append(Text(y)', c))
    BY DEF Split
  <2>3. Split(Append(Text(y)', c)) = Piece(l, c)
    BY <1>1, SplitAppend
  <2> QED BY <2>1, <2>2, <2>3
<1>3. l \in Seq(Seq(Data)) /\ n \in Nat \ {0} /\ l[n] \in Seq(Data)
  <2>1. l \in Lists
    BY SplitType
  <2> HIDE DEF l
  <2> QED BY <2>1 DEF Lists
<1> HIDE DEF l
<1>4. Piece(l, c) = [l EXCEPT ![n] = x] /\ x # <<>> /\ SubSeq(x, 1, Len(x) - 1) = l[n]
  <2>1. Piece(l, c) = [l EXCEPT ![n] = x]
    BY <1>1 DEF Piece
  <2>2. x # <<>> /\ SubSeq(x, 1, Len(x) - 1) = l[n]
    BY <1>3, AppendBack
  <2> QED BY <2>1, <2>2
<1> HIDE DEF x
<1> DEFINE k == [l EXCEPT ![n] = x]
<1>5. Len(k) = n /\ k[n] = x /\ [k EXCEPT ![n] = l[n]] = l
  <2>1. x \in Seq(Data) /\ n \in 1 .. Len(l)
    BY <1>3 DEF x
  <2> HIDE DEF n
  <2>2. Len(k) = Len(l)
    BY <1>3, <2>1, ExceptBack
  <2>3. k[n] = x /\ [k EXCEPT ![n] = l[n]] = l
    BY <1>3, <2>1, ExceptBack
  <2> QED BY <2>2, <2>3 DEF n
<1> HIDE DEF k
<1>6. Split(Text(y)) = k /\ Split(Text(y))' = l
  BY <1>2, <1>4 DEF k
<1>7. LD(y)!Erase
  BY <1>4, <1>5, <1>6, Zenon DEF LD!Erase, LD!Typing
<1>8. LD(y)!Next
  BY <1>7 DEF LD!Next
<1> QED BY <1>8 DEF LineStep

LEMMA FinishesPlain ==
  ASSUME NEW y \in Tty, Text(y) \in Seq(Chars), Text(y)' = Append(Text(y), Nul), got'[y] = got[y]
  PROVE  LineStep(y)
<1> DEFINE l == Split(Text(y))
           n == Len(l)
<1>1. Split(Text(y))' = Append(l, <<>>)
  <2>1. Split(Text(y))' = Split(Append(Text(y), Nul))
    BY DEF Split
  <2> QED BY <2>1, SplitAppend DEF Chars, Piece
<1>2. l \in Seq(Seq(Data)) /\ n \in Nat \ {0} /\ l[n] \in Seq(Data)
  <2>1. l \in Lists
    BY SplitType
  <2> HIDE DEF l
  <2> QED BY <2>1 DEF Lists
<1>3. [l EXCEPT ![n] = @ \o <<>>] = l
  <2>1. l[n] \o <<>> = l[n]
    BY <1>2
  <2> HIDE DEF l, n
  <2> QED BY <1>2, <2>1
<1>4. LD(y)!Finish(<<>>)
  BY <1>1, <1>3 DEF LD!Finish, LD!Typing
<1>5. LD(y)!Next
  BY <1>4 DEF LD!Next
<1> QED BY <1>5 DEF LineStep

LEMMA FinishesLine ==
  ASSUME NEW y \in Tty, Text(y) \in Seq(Chars),
         Text(y)' = Append(Append(Text(y), Newline), Nul), got'[y] = got[y]
  PROVE  LineStep(y)
<1> DEFINE l == Split(Text(y))
           n == Len(l)
<1>1. Newline \in Chars /\ Newline # Nul /\ Nul \in Chars
  BY TtyAssumption DEF Chars, Data
<1>2. Split(Text(y))' = Append(Piece(l, Newline), <<>>)
  <2>1. Split(Text(y))' = Split(Append(Append(Text(y), Newline), Nul))
    BY DEF Split
  <2>2. Append(Text(y), Newline) \in Seq(Chars)
    BY <1>1
  <2> QED BY <1>1, <2>1, <2>2, SplitAppend DEF Piece
<1>3. l \in Seq(Seq(Data)) /\ n \in Nat \ {0} /\ l[n] \in Seq(Data)
  <2>1. l \in Lists
    BY SplitType
  <2> HIDE DEF l
  <2> QED BY <2>1 DEF Lists
<1>4. Piece(l, Newline) = [l EXCEPT ![n] = @ \o <<Newline>>]
  <2>1. Append(l[n], Newline) = l[n] \o <<Newline>>
    BY <1>3 DEF Data
  <2> HIDE DEF l
  <2> QED BY <1>1, <2>1 DEF Piece
<1>5. LD(y)!Finish(<<Newline>>)
  BY <1>2, <1>4 DEF LD!Finish, LD!Typing
<1>6. LD(y)!Next
  BY <1>5 DEF LD!Next
<1> QED BY <1>6 DEF LineStep

LEMMA ReadsLine ==
  ASSUME NEW y \in Tty, NEW h \in Seq(Data), NEW s \in Seq(Chars),
         Text(y) = (h \o <<Nul>>) \o s, Text(y)' = s,
         got'[y] = SubSeq(h, 1, IF Len(h) < Count THEN Len(h) ELSE Count)
  PROVE  LineStep(y)
<1> DEFINE l == Split(s)
<1>1. Split(Text(y)) = <<h>> \o l /\ Split(Text(y))' = l
  <2>1. Split(Text(y))' = l
    BY DEF Split
  <2>2. Split(Text(y)) = Split((h \o <<Nul>>) \o s)
    BY DEF Split
  <2> QED BY <2>1, <2>2, SplitHead
<1>2. l \in Seq(Seq(Data)) /\ Len(l) # 0
  <2>1. l \in Lists
    BY SplitType
  <2> HIDE DEF l
  <2> QED BY <2>1 DEF Lists
<1> HIDE DEF l
<1>3. Len(<<h>> \o l) > 1 /\ Tail(<<h>> \o l) = l /\ Head(<<h>> \o l) = h
  BY <1>2
<1>4. LD(y)!Read
  BY <1>1, <1>3 DEF LD!Read, LD!Typing
<1>5. LD(y)!Next
  BY <1>4 DEF LD!Next
<1> QED BY <1>5 DEF LineStep

LEMMA LineOfCook ==
  ASSUME EventType, LinesInv, ~panicked,
         NEW y \in Tty, CookChar(y) \/ CookBack(y) \/ CookEnd(y), NEW z \in Tty
  PROVE  LineStep(z)
<1> DEFINE q == queue[y]
           c == task.ev.data
<1>1. /\ queue \in [Tty -> QueueOf] /\ q \in QueueOf /\ lock[y] = 1
      /\ UNCHANGED <<reader, got>> /\ LineType /\ c \in Data
      /\ \A p : queue' = [queue EXCEPT ![y] = p] => queue'[y] = p
  BY DEF LinesInv, LineType, CookChar, CookBack, CookEnd, CookEndIf, Cooking, EventType, Event
<1>2. CASE z # y
  <2>1. queue'[z] = queue[z]
    BY <1>1, <1>2 DEF CookChar, CookBack, CookEnd, CookEndIf
  <2> QED BY <1>1, <2>1 DEF LineStep
<1>3. CASE z = y
  <2>1. Looping(y) = {}
    BY <1>1 DEF LinesInv, LockInv, Inside, Looping
  <2>2. Looping(y)' = {}
    BY <1>1, <2>1 DEF Looping
  <2>3. Content(q) \in Seq(Chars) /\ \A p \in QueueOf : Content(p) \in Seq(Chars)
    BY <1>1, ContentAt
  <2>4. Text(y) = Content(q)
    <3>1. InHand(y) = <<>>
      BY <2>1, HandEmpty
    <3>2. <<>> \o Content(q) = Content(q)
      BY <2>3
    <3> QED BY <3>1, <3>2 DEF Text
  <2>5. ASSUME NEW p, Content(p) \in Seq(Chars), queue'[y] = p PROVE Text(y)' = Content(p)
    <3>1. InHand(y)' = <<>>
      BY <2>2, HandEmpty DEF InHand, Looping
    <3>2. <<>> \o Content(p) = Content(p)
      BY <2>5
    <3>3. Content(queue[y])' = Content(p)
      BY <2>5 DEF Content
    <3> QED BY <3>1, <3>2, <3>3 DEF Text
  <2>6. Stops(q)
    BY <2>1 DEF LinesInv, Stopped, Looping
  <2>7. got'[y] = got[y]
    BY <1>1
  <2> HIDE DEF q
  <2>8. CASE CookChar(y)
    <3> DEFINE p == Put(q, c)
    <3>1. c \notin {Newline, Backspace} /\ queue'[y] = p /\ (panicked' <=> Full(p))
      BY <1>1, <2>8 DEF CookChar, q
    <3>2. c \in Chars /\ p \in QueueOf
      BY <1>1, PutQueue DEF Chars
    <3>3. CASE ~Full(p)
      <4>1. Content(p) = Append(Content(q), c)
        BY <1>1, <3>2, <3>3, PutText
      <4>2. Text(y)' = Append(Text(y), c)
        BY <2>3, <2>4, <2>5, <3>1, <3>2, <4>1
      <4> HIDE DEF c
      <4> QED BY <1>1, <1>3, <2>3, <2>4, <2>7, <3>1, <4>2, TypesChar
    <3>4. CASE Full(p)
      BY <3>1, <3>4 DEF LineStep
    <3> QED BY <3>3, <3>4
  <2>9. CASE CookBack(y)
    <3>1. CASE CanErase(q)
      <4> DEFINE p == tty_pop_back(q)
                 b == q.buf[Before(q)]
      <4>1. queue'[y] = p
        BY <1>1, <2>9, <3>1 DEF CookBack, q
      <4>2. Content(p) \in Seq(Chars) /\ b \in Data /\ Content(q) = Append(Content(p), b)
        BY <1>1, <2>6, <3>1, PopText
      <4> HIDE DEF p, b
      <4>3. Text(y)' = Content(p)
        BY <2>5, <4>1, <4>2
      <4> QED BY <1>3, <2>4, <2>7, <4>2, <4>3, ErasesChar
    <3>2. CASE ~CanErase(q)
      <4>1. queue' = queue
        BY <2>9, <3>2 DEF CookBack, q
      <4> QED BY <1>1, <4>1 DEF LineStep
    <3> QED BY <3>1, <3>2
  <2>10. CASE CookEnd(y)
    <3> DEFINE q1 == IF task.ev.ctrl THEN q ELSE Put(q, Newline)
               full == ~task.ev.ctrl /\ Full(q1)
               q2 == Put(q1, Nul)
    <3>1. /\ queue'[y] = IF full THEN q1 ELSE q2
          /\ ~panicked' => ~full /\ ~Full(q2)
      BY <1>1, <2>10 DEF CookEnd, CookEndIf, q
    <3> SUFFICES ASSUME ~panicked' PROVE LineStep(z)
      BY DEF LineStep
    <3>2. Newline \in Chars /\ Nul \in Chars
      BY DEF Chars, Data
    <3>3. /\ q1 \in QueueOf
          /\ Content(q1) = IF task.ev.ctrl THEN Content(q) ELSE Append(Content(q), Newline)
      <4>1. CASE task.ev.ctrl
        BY <1>1, <4>1
      <4>2. CASE ~task.ev.ctrl
        <5>1. Put(q, Newline) \in QueueOf /\ ~Full(Put(q, Newline))
          BY <1>1, <3>1, <3>2, <4>2, PutQueue DEF Chars
        <5>2. Content(Put(q, Newline)) = Append(Content(q), Newline)
          BY <1>1, <3>2, <5>1, PutText
        <5> QED BY <4>2, <5>1, <5>2
      <4> QED BY <4>1, <4>2
    <3> HIDE DEF q1, full
    <3>4. q2 \in QueueOf /\ Content(q2) = Append(Content(q1), Nul)
      BY <3>1, <3>2, <3>3, PutText, PutQueue DEF Chars
    <3> HIDE DEF q2
    <3>5. Text(y)' = Content(q2)
      BY <2>3, <2>5, <3>1, <3>4
    <3>6. CASE task.ev.ctrl
      BY <1>3, <2>3, <2>4, <2>7, <3>3, <3>4, <3>5, <3>6, FinishesPlain
    <3>7. CASE ~task.ev.ctrl
      BY <1>3, <2>3, <2>4, <2>7, <3>3, <3>4, <3>5, <3>7, FinishesLine
    <3> QED BY <3>6, <3>7
  <2> QED BY <2>8, <2>9, <2>10
<1> QED BY <1>2, <1>3

LEMMA LineOfRead ==
  ASSUME LinesInv, ~panicked, NEW r \in Reader, Read(r), NEW z \in Tty,
         got \in [Tty -> Seq(Data)]
  PROVE  LineStep(z)
<1> DEFINE y == ttyOf[r]
           q == queue[y]
           c == q.buf[q.front]
           p == [q EXCEPT !.front = Wrapped(@ + 1)]
<1>1. /\ y \in Tty /\ queue \in [Tty -> QueueOf] /\ q \in QueueOf /\ LockInv
      /\ reader \in [Reader -> [pc : {"idle", "lock", "loop", "unlock"}, line : Seq(Data)]]
  BY TtyAssumption DEF LinesInv, LineType
<1>2. ASSUME ~ReadChar(r) \/ z # y PROVE LineStep(z)
  <2>1. /\ queue'[z] = queue[z] /\ got'[z] = got[z]
        /\ \A s \in Reader : s # r => reader'[s] = reader[s]
    BY <1>1, <1>2 DEF Read, ReadWait, ReadLock, ReadChar, ReadUnlock
  <2>2. InHand(z)' = InHand(z)
    <3>1. CASE z # y
      BY <2>1, <3>1, HandStays
    <3>2. CASE z = y /\ ReadWait(r)
      <4>1. reader[r].pc # "loop" /\ reader'[r].pc # "loop"
        BY <1>1, <3>2 DEF ReadWait
      <4> QED BY <2>1, <4>1, HandStays
    <3>3. CASE z = y /\ ReadUnlock(r)
      <4>1. reader[r].pc # "loop" /\ reader'[r].pc # "loop"
        BY <1>1, <3>3 DEF ReadUnlock
      <4> QED BY <2>1, <4>1, HandStays
    <3>4. CASE z = y /\ ReadLock(r)
      <4>1. /\ lock[y] = 1 /\ reader'[r] = [pc |-> "loop", line |-> <<>>]
        BY <1>1, <3>4 DEF ReadLock
      <4>2. \A s \in Reader : ttyOf[s] = y => reader[s].pc # "loop"
        BY <1>1, <4>1 DEF LockInv, Inside
      <4>3. Looping(y) = {}
        BY <4>2 DEF Looping
      <4>4. Looping(y)' = {r}
        BY <2>1, <4>1, <4>2 DEF Looping
      <4>5. InHand(y) = <<>>
        BY <4>3, HandEmpty
      <4>6. (CHOOSE s \in {r} : TRUE) = r
        OBVIOUS
      <4>7. InHand(y)' = reader'[r].line
        BY <4>4, <4>6 DEF InHand, Looping
      <4> QED BY <3>4, <4>1, <4>5, <4>7
    <3> QED BY <1>2, <3>1, <3>2, <3>3, <3>4 DEF Read
  <2>3. Text(z)' = Text(z)
    <3>1. Content(queue[z])' = Content(queue[z])
      BY <2>1 DEF Content
    <3> QED BY <2>2, <3>1 DEF Text
  <2> QED BY <2>1, <2>3, Stays
<1>3. CASE ReadChar(r) /\ z = y
  <2> DEFINE h == reader[r].line
             s == Content(p)
  <2>1. /\ reader[r].pc = "loop" /\ queue' = [queue EXCEPT ![y].front = Wrapped(@ + 1)]
        /\ c = Nul => /\ got' = [got EXCEPT ![y] = SubSeq(h, 1, IF Len(h) < Count THEN Len(h) ELSE Count)]
                      /\ reader' = [reader EXCEPT ![r] = [pc |-> "unlock", line |-> <<>>]]
        /\ c # Nul => reader' = [reader EXCEPT ![r].line = Append(@, c)] /\ got' = got
    BY <1>3 DEF ReadChar
  <2>2. Ends(q) # {}
    <3>1. r \in Promised(y)
      BY <2>1 DEF Promised
    <3>2. Cardinality(Promised(y)) # 0
      BY <3>1, PromisedFinite, FS_EmptySet
    <3>3. cooked[y] \in Nat /\ Balanced(y)
      BY <1>1 DEF LinesInv, LineType
    <3>4. Cardinality(Ends(q)) # 0
      <4> DEFINE w == cooked[y]
                 m == Cardinality(Promised(y))
                 k == Cardinality(Ends(q))
      <4>1. w \in Nat /\ m \in Nat /\ m # 0 /\ k = w + m
        BY <3>2, <3>3, PromisedFinite DEF Balanced
      <4> HIDE DEF w, m, k
      <4>2. k # 0
        BY <4>1
      <4> QED BY <4>2 DEF k
    <3> QED BY <3>4, FS_EmptySet
  <2>3. /\ s \in Seq(Chars) /\ c \in Chars /\ Content(q) = <<c>> \o s
    BY <1>1, <2>2, ReadText
  <2>4. queue'[y] = p
    BY <1>1, <2>1
  <2>5. /\ h \in Seq(Data) /\ InHand(y) = h /\ Looping(y) = {r}
    BY <1>1, <2>1, HandOf
  <2>6. Text(y) = h \o (<<c>> \o s)
    BY <2>3, <2>5 DEF Text
  <2>7. Content(queue[y])' = s
    BY <2>4 DEF Content
  <2> HIDE DEF h, s, c, p
  <2>8. CASE c = Nul
    <3>1. reader'[r].pc = "unlock" /\ \A u \in Reader : u # r => reader'[u] = reader[u]
      BY <1>1, <2>1, <2>8
    <3>2. Looping(y)' = {}
      BY <2>5, <3>1 DEF Looping
    <3>3. InHand(y)' = <<>>
      BY <3>2, HandEmpty DEF InHand, Looping
    <3>4. Text(y)' = s
      <4>1. <<>> \o s = s
        BY <2>3
      <4> QED BY <2>7, <3>3, <4>1 DEF Text
    <3>5. Text(y) = (h \o <<Nul>>) \o s
      <4>1. h \in Seq(Chars) /\ <<Nul>> \in Seq(Chars)
        BY <2>5 DEF Chars
      <4>2. h \o (<<Nul>> \o s) = (h \o <<Nul>>) \o s
        BY <2>3, <4>1
      <4> QED BY <2>6, <2>8, <4>2
    <3>6. got'[y] = SubSeq(h, 1, IF Len(h) < Count THEN Len(h) ELSE Count)
      BY <1>1, <2>1, <2>8
    <3> QED BY <1>1, <1>3, <2>3, <2>5, <3>4, <3>5, <3>6, ReadsLine
  <2>9. CASE c # Nul
    <3>1. reader'[r] = [reader[r] EXCEPT !.line = Append(h, c)]
      BY <1>1, <2>1, <2>9 DEF h
    <3>2. reader'[r].pc = "loop" /\ reader'[r].line = Append(h, c)
      BY <1>1, <2>1, <3>1
    <3>3. \A u \in Reader : u # r => reader'[u] = reader[u]
      BY <1>1, <2>1, <2>9
    <3>4. Looping(y)' = {r}
      <4>1. \A u \in Reader : ttyOf[u] = y /\ reader[u].pc = "loop" <=> u = r
        BY <2>5 DEF Looping
      <4>2. \A u \in Reader : ttyOf[u] = y /\ reader'[u].pc = "loop" <=> u = r
        BY <3>2, <3>3, <4>1
      <4> QED BY <4>2 DEF Looping
    <3>5. InHand(y)' = Append(h, c)
      <4>1. (CHOOSE u \in {r} : TRUE) = r
        OBVIOUS
      <4> QED BY <3>2, <3>4, <4>1 DEF InHand, Looping
    <3>6. Text(y)' = Text(y)
      <4>1. h \in Seq(Chars)
        BY <2>5 DEF Chars
      <4>2. Append(h, c) \o s = h \o (<<c>> \o s)
        BY <2>3, <4>1
      <4> QED BY <2>6, <2>7, <3>5, <4>2 DEF Text
    <3> QED BY <1>1, <1>3, <2>1, <2>9, <3>6, Stays
  <2> QED BY <2>8, <2>9
<1> QED BY <1>2, <1>3

GotType == got \in [Tty -> Seq(Data)]
LineInv == CountInv /\ GotType

LEMMA GotTypeStep == ASSUME LineType, GotType, [Next]_vars PROVE GotType'
<1>1. ASSUME NEW r \in Reader, ReadChar(r) PROVE GotType'
  <2> DEFINE h == reader[r].line
             n == IF Len(h) < Count THEN Len(h) ELSE Count
  <2>1. h \in Seq(Data) /\ Count \in Nat
    BY TtyAssumption DEF LineType
  <2>2. SubSeq(h, 1, n) \in Seq(Data)
    <3>1. n \in 0 .. Len(h)
      BY <2>1
    <3> HIDE DEF n, h
    <3>2. \A i \in 1 .. n : i \in 1 .. Len(h)
      BY <2>1, <3>1
    <3> QED BY <2>1, <3>1, <3>2
  <2>3. got' = got \/ got' = [got EXCEPT ![ttyOf[r]] = SubSeq(h, 1, n)]
    BY <1>1 DEF ReadChar
  <2> QED BY <2>2, <2>3 DEF GotType
<1>2. CASE UNCHANGED got
  BY <1>2 DEF GotType
<1>3. CASE Next /\ \A r \in Reader : ~ReadChar(r)
  BY <1>2, <1>3
     DEF Next, Key, Irq, InputTask, ReadKey, ReadKeyThen, PushSignal, PushThen, NoKey, WaitKey,
         TtyTask, PopWait, Take, Cook, CookChar, CookBack, CookEnd, CookEndIf, Echo,
         Read, ReadWait, ReadLock, ReadUnlock
<1>4. CASE UNCHANGED vars
  BY <1>2, <1>4 DEF vars
<1> QED BY <1>1, <1>3, <1>4

LEMMA LineStepOk == LineInv /\ [Next]_vars => [\A y \in Tty : LineStep(y)]_vars
<1> SUFFICES ASSUME LineInv, Next, NEW z \in Tty PROVE LineStep(z)
  BY Zenon
<1>1. LinesInv /\ EventType /\ LineType /\ got \in [Tty -> Seq(Data)]
  BY DEF LineInv, CountInv, QueueType, LinesInv, GotType
<1>2. ~panicked
  BY Zenon DEF Next
<1>3. CASE Cook
  BY <1>1, <1>2, <1>3, LineOfCook DEF Cook
<1>4. ASSUME NEW r \in Reader, Read(r) PROVE LineStep(z)
  BY <1>1, <1>2, <1>4, LineOfRead
<1>5. ASSUME UNCHANGED <<queue, reader, got>> PROVE LineStep(z)
  BY <1>5 DEF LineStep
<1>6. ASSUME NEW code \in Typed, Key(code) PROVE LineStep(z)
  BY <1>5, <1>6 DEF Key, ttyVars
<1>7. CASE Irq \/ InputTask
  BY <1>5, <1>7
     DEF Irq, InputTask, ReadKey, ReadKeyThen, PushSignal, PushThen, NoKey, WaitKey, ttyVars
<1>8. CASE PopWait \/ Take \/ Echo
  BY <1>5, <1>8 DEF PopWait, Take, Echo, ttyVars
<1> QED BY <1>3, <1>4, <1>6, <1>7, <1>8 DEF Next, TtyTask

LEMMA LinesStart == Init => \A y \in Tty : LD(y)!Init
<1> SUFFICES ASSUME Init, NEW y \in Tty PROVE LD(y)!Init
  OBVIOUS
<1>1. Looping(y) = {} /\ got[y] = <<>>
  BY DEF Init, Looping
<1>2. queue[y] = [buf |-> [i \in 0 .. BufSize - 1 |-> Nul], front |-> 0, rear |-> 0]
  BY DEF Init
<1>3. Content(queue[y]) = <<>>
  <2>1. queue[y] \in QueueOf /\ Behind(queue[y].rear, queue[y].front) = 0
    BY <1>2, Size DEF QueueOf, Behind
  <2> QED BY <2>1, ContentAt
<1>4. Text(y) = <<>>
  BY <1>1, <1>3, HandEmpty DEF Text
<1> QED BY <1>1, <1>4, SplitEmpty DEF LD!Init

\* Each terminal's queue, with its two indices in a ring and a Nul at each end of line
\* (tty_enqueue and tty_pop_back, tty.c:17-39, tty_cook and tty_read), is the list of lines
\* that were typed: keys change the last line only, Backspace never reaches the line before, and
\* a reader takes the first line, whole, for any terminals, tasks that read, keys and sizes.
THEOREM LinesAreRead == Spec => LineSpec
<1>1. Init => LineInv
  <2>1. Init => GotType
    BY DEF Init, GotType
  <2> QED BY <2>1, QueueTypeInit, RestTypeInit, LinesInvInit DEF LineInv, CountInv
<1>2. LineInv /\ [Next]_vars => LineInv'
  <2> SUFFICES ASSUME LineInv, [Next]_vars PROVE LineInv'
    OBVIOUS
  <2>1. CountInv' /\ GotType'
    BY CountInvStep, GotTypeStep DEF LineInv, CountInv, LinesInv
  <2> QED BY <2>1 DEF LineInv
<1> QED BY <1>1, <1>2, LineStepOk, LinesStart, PTL DEF Spec, LineSpec
=============================================================================
