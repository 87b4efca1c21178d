-------------------------------- MODULE Tty --------------------------------
(***************************************************************************)
(* From the keyboard to tty_read: devices/input/input.c and                *)
(* devices/tty/tty.c.  The interrupt handler wakes input_task, which reads *)
(* key codes and puts events into a ring; tty_task takes them, edits the   *)
(* line of its current terminal (tty_cook) and echoes; tasks read lines.   *)
(* Semaphores are counters (Kmt shows what sem_wait and                    *)
(* sem_signal promise), the spin lock of the ring makes its two sections   *)
(* atomic.  A section under a terminal's lock is one step, except that of  *)
(* tty_read, which takes a step for each character.                        *)
(*                                                                         *)
(* Not modelled: shift and capslock (they choose the character), colours,  *)
(* what is drawn and the marks of what to draw, and so the sections that   *)
(* only draw (tty_render, tty_write of no character); what tasks write,    *)
(* which moves the cursor as an echo does.                                 *)
(***************************************************************************)
EXTENDS Integers, Sequences, FiniteSets, SequencesExt

CONSTANTS
  Char,               \* characters with nothing special about them
  CtrlKey, AltKey,    \* the keys held down for Ctrl and for Alt, left and right
  Newline, Backspace, Nul, EofKey,   \* '\n', '\b', '\0' and the d of Ctrl-D
  Tty, FirstTty,      \* the terminals, and tty1
  TtyKey,             \* the digit that switches to each of them
  Reader, ttyOf,      \* tasks that read, and the terminal each has open
  Count,              \* what they pass as count
  NEVENTS,            \* places in the ring of events, one of which stays free
  BufSize,            \* TTY_COOK_BUF_SZ
  Lines, Columns,     \* of the screen
  Typed,              \* the key codes the keyboard sends
  MaxKeys, KbdRoom    \* bounds: how many of them in all, and not yet read

Data == Char \cup {Newline, Backspace, EofKey} \cup {TtyKey[y] : y \in Tty}
Event == [ctrl : BOOLEAN, alt : BOOLEAN, data : Data]
Code == [key : Data, down : {TRUE}] \cup [key : CtrlKey \cup AltKey, down : BOOLEAN]

ASSUME TtyAssumption ==
  /\ FirstTty \in Tty /\ ttyOf \in [Reader -> Tty] /\ IsFiniteSet(Reader)
  /\ Typed \subseteq Code
  /\ {Count, Lines, Columns} \subseteq Nat \ {0}
  /\ {NEVENTS, BufSize} \subseteq Nat \ {0, 1} /\ {MaxKeys, KbdRoom} \subseteq Nat
  /\ Newline \notin Char /\ Nul \notin Data

VARIABLES
  keys, irq, sent,              \* the keyboard: codes to be read, interrupt, their number
  kbdirq, event_sem,            \* semaphores
  input,                        \* input_task: where it is, and the keys held down
  events,                       \* what is between front and rear of the ring
  task,                         \* tty_task: where it is, its event and its terminal
  queue, lock, cooked, cursor,  \* tty_t: queue, its semaphores, and the cursor
  reader, got,                  \* tty_read: local state, and the last line returned
  panicked                      \* a panic stops the system
kbdVars == <<keys, irq, sent, kbdirq>>
eventVars == <<event_sem, events>>
ttyVars == <<queue, lock, cooked, cursor>>
vars == <<kbdVars, eventVars, input, task, ttyVars, reader, got, panicked>>

NoEvent == [ctrl |-> FALSE, alt |-> FALSE, data |-> Backspace]
Init ==
  /\ keys = <<>> /\ irq = FALSE /\ sent = 0
  /\ kbdirq = 0 /\ event_sem = 0
  /\ input = [pc |-> "read", held |-> {}]
  /\ events = <<>>
  /\ task = [pc |-> "pop", ev |-> NoEvent, tty |-> FirstTty]
  /\ queue = [y \in Tty |-> [buf |-> [i \in 0 .. BufSize - 1 |-> Nul], front |-> 0, rear |-> 0]]
  /\ lock = [y \in Tty |-> 1] /\ cooked = [y \in Tty |-> 0]
  /\ cursor = [y \in Tty |-> 0]
  /\ reader = [r \in Reader |-> [pc |-> "idle", line |-> <<>>]]
  /\ got = [y \in Tty |-> <<>>]
  /\ panicked = FALSE

-----------------------------------------------------------------------------
\* The keyboard sends a code; an interrupt that has not been taken yet stands
\* for it too.
Key(code) ==
  /\ sent < MaxKeys /\ Len(keys) < KbdRoom
  /\ keys' = Append(keys, code) /\ irq' = TRUE /\ sent' = sent + 1
  /\ UNCHANGED <<kbdirq, eventVars, input, task, ttyVars, reader, got, panicked>>

\* input_notify
Irq ==
  /\ irq
  /\ irq' = FALSE /\ kbdirq' = kbdirq + 1
  /\ UNCHANGED <<keys, sent, eventVars, input, task, ttyVars, reader, got, panicked>>

\* input_task: a key code; input_keydown and the locked part of push_event
Holding(mods) == input.held \cap mods # {}
EventOf(key) == [ctrl |-> Holding(CtrlKey), alt |-> Holding(AltKey), data |-> key]
ReadKeyThen(mod) ==   \* mod: where a key held for Ctrl or Alt leads
  /\ input.pc = "read" /\ keys # <<>>
  /\ keys' = Tail(keys)
  /\ LET code == Head(keys)
     IN  IF code.key \in CtrlKey \cup AltKey
           THEN /\ input' = [pc |-> mod, held |-> IF code.down THEN input.held \cup {code.key}
                                                  ELSE input.held \ {code.key}]
                /\ UNCHANGED <<events, panicked>>
           ELSE /\ events' = Append(events, EventOf(code.key))
                /\ panicked' = (Len(events') = NEVENTS)
                /\ input' = [input EXCEPT !.pc = "signal"]
  /\ UNCHANGED <<irq, sent, kbdirq, event_sem, task, ttyVars, reader, got>>

\* slip: an event is signalled for every key.
ReadKeySignals == ReadKeyThen("signal")

ReadKey == ReadKeyThen("read")

PushThen(next) ==
  /\ input.pc = "signal"
  /\ event_sem' = event_sem + 1
  /\ input' = [input EXCEPT !.pc = next]
  /\ UNCHANGED <<kbdVars, events, task, ttyVars, reader, got, panicked>>

\* slip: one key is read for each time kbdirq is passed.
PushThenWait == PushThen("wait")

PushSignal == PushThen("read")

NoKey ==
  /\ input.pc = "read" /\ keys = <<>>
  /\ input' = [input EXCEPT !.pc = "wait"]
  /\ UNCHANGED <<kbdVars, eventVars, task, ttyVars, reader, got, panicked>>
WaitKey ==
  /\ input.pc = "wait" /\ kbdirq > 0
  /\ kbdirq' = kbdirq - 1
  /\ input' = [input EXCEPT !.pc = "read"]
  /\ UNCHANGED <<keys, irq, sent, eventVars, task, ttyVars, reader, got, panicked>>

-----------------------------------------------------------------------------
\* tty_task: pop_event waits, then takes an event out of the ring.
PopWait ==
  /\ task.pc = "pop" /\ event_sem > 0
  /\ event_sem' = event_sem - 1
  /\ task' = [task EXCEPT !.pc = "take"]
  /\ UNCHANGED <<kbdVars, input, events, ttyVars, reader, got, panicked>>

\* where the event leads: Alt and a digit to another terminal, Ctrl-D to an end
\* of line, what has neither into the line
Cooked(ev) == IF ev.ctrl THEN ev.data = EofKey ELSE ~ev.alt
Current(ev) ==
  IF \E y \in Tty : ev.alt /\ ev.data = TtyKey[y]
    THEN CHOOSE y \in Tty : ev.data = TtyKey[y]
    ELSE task.tty
Idle(y) == [pc |-> "pop", ev |-> NoEvent, tty |-> y]
Take ==
  /\ task.pc = "take"
  /\ IF events = <<>>
       THEN panicked' = TRUE /\ UNCHANGED <<events, task>>
       ELSE LET ev == Head(events)
            IN  /\ events' = Tail(events)
                /\ task' = IF Cooked(ev) THEN [pc |-> "cook", ev |-> ev, tty |-> Current(ev)]
                           ELSE Idle(Current(ev))
                /\ UNCHANGED panicked
  /\ UNCHANGED <<kbdVars, input, event_sem, ttyVars, reader, got>>

\* tty_enqueue
Wrapped(i) == IF i = BufSize THEN 0 ELSE i
Put(q, c) ==
  LET r == Wrapped(q.rear + 1)
  IN  [q EXCEPT !.buf = [@ EXCEPT ![q.rear] = c, ![r] = Nul], !.rear = r]
Full(q) == q.rear = q.front

\* The place before the rear is the last one if the rear is at the start.
Before(q) == IF q.rear = 0 THEN BufSize - 1 ELSE q.rear - 1
\* slip: whatever is before the rear is erased, as long as the queue has something.
CanEraseMore(q) == q.rear # q.front

\* tty_pop_back: the Nul of the line before stops it.
CanErase(q) == q.buf[Before(q)] # Nul
tty_pop_back(q) == [q EXCEPT !.rear = Before(q), !.buf = [@ EXCEPT ![Before(q)] = Nul]]

\* tty_cook and the decision to echo
Cooking(y) == task.pc = "cook" /\ task.tty = y /\ lock[y] = 1
CookChar(y) ==
  LET c == task.ev.data
      q == Put(queue[y], c)
  IN  /\ Cooking(y) /\ ~task.ev.ctrl /\ c \notin {Newline, Backspace}
      /\ queue' = [queue EXCEPT ![y] = q]
      /\ panicked' = Full(q)
      /\ task' = [task EXCEPT !.pc = "echo"]
      /\ UNCHANGED <<kbdVars, eventVars, input, lock, cooked, cursor, reader, got>>
CookBack(y) ==
  /\ Cooking(y) /\ ~task.ev.ctrl /\ task.ev.data = Backspace
  /\ IF CanErase(queue[y])
       THEN /\ queue' = [queue EXCEPT ![y] = tty_pop_back(@)]
            /\ task' = [task EXCEPT !.pc = "echo"]
       ELSE task' = Idle(y) /\ UNCHANGED queue
  /\ UNCHANGED <<kbdVars, eventVars, input, lock, cooked, cursor, reader, got, panicked>>
CookEndIf(y, signals) ==
  LET q1 == IF task.ev.ctrl THEN queue[y] ELSE Put(queue[y], Newline)
      full == ~task.ev.ctrl /\ Full(q1)
      q == Put(q1, Nul)
  IN  /\ Cooking(y) /\ (task.ev.ctrl \/ task.ev.data = Newline)
      /\ queue' = [queue EXCEPT ![y] = IF full THEN q1 ELSE q]
      /\ panicked' = (full \/ Full(q))
      /\ cooked' = IF panicked' \/ ~signals THEN cooked ELSE [cooked EXCEPT ![y] = @ + 1]
      /\ task' = IF task.ev.ctrl THEN Idle(y) ELSE [task EXCEPT !.pc = "echo"]
      /\ UNCHANGED <<kbdVars, eventVars, input, lock, cursor, reader, got>>

\* slip: Ctrl-D ends the line and does not count it.
CookEndNewline(y) == CookEndIf(y, ~task.ev.ctrl)

CookEnd(y) == CookEndIf(y, TRUE)

-----------------------------------------------------------------------------
\* tty_putc on the cursor: scrolling keeps it on the screen.
Scrolled(at) == IF at = Lines * Columns THEN at - Columns ELSE at
tty_putc(at, c) ==
  CASE c = Backspace -> IF at > 0 THEN at - 1 ELSE at
    [] c = Newline   -> Scrolled((at - (at % Columns)) + Columns)
    [] OTHER         -> Scrolled(at + 1)

\* tty_write of one character, as the echo
Echo ==
  /\ task.pc = "echo" /\ lock[task.tty] = 1
  /\ cursor' = [cursor EXCEPT ![task.tty] = tty_putc(@, task.ev.data)]
  /\ task' = Idle(task.tty)
  /\ UNCHANGED <<kbdVars, eventVars, input, queue, lock, cooked, reader, got, panicked>>

-----------------------------------------------------------------------------
\* tty_read waits for a line and for the lock, and reads up to the Nul.
ReadWait(r) ==
  /\ reader[r].pc = "idle" /\ cooked[ttyOf[r]] > 0
  /\ cooked' = [cooked EXCEPT ![ttyOf[r]] = @ - 1]
  /\ reader' = [reader EXCEPT ![r].pc = "lock"]
  /\ UNCHANGED <<kbdVars, eventVars, input, task, queue, lock, cursor, got, panicked>>
ReadLock(r) ==
  /\ reader[r].pc = "lock" /\ lock[ttyOf[r]] = 1
  /\ lock' = [lock EXCEPT ![ttyOf[r]] = 0]
  /\ reader' = [reader EXCEPT ![r] = [pc |-> "loop", line |-> <<>>]]
  /\ UNCHANGED <<kbdVars, eventVars, input, task, queue, cooked, cursor, got, panicked>>
ReadChar(r) ==
  LET y == ttyOf[r]
      c == queue[y].buf[queue[y].front]
      text == reader[r].line
  IN  /\ reader[r].pc = "loop"
      /\ queue' = [queue EXCEPT ![y].front = Wrapped(@ + 1)]
      /\ IF c = Nul
           THEN /\ got' = [got EXCEPT ![y] =
                     SubSeq(text, 1, IF Len(text) < Count THEN Len(text) ELSE Count)]
                /\ reader' = [reader EXCEPT ![r] = [pc |-> "unlock", line |-> <<>>]]
           ELSE /\ reader' = [reader EXCEPT ![r].line = Append(@, c)]
                /\ UNCHANGED got
      /\ UNCHANGED <<kbdVars, eventVars, input, task, lock, cooked, cursor, panicked>>
ReadUnlock(r) ==
  /\ reader[r].pc = "unlock"
  /\ lock' = [lock EXCEPT ![ttyOf[r]] = 1]
  /\ reader' = [reader EXCEPT ![r].pc = "idle"]
  /\ UNCHANGED <<kbdVars, eventVars, input, task, queue, cooked, cursor, got, panicked>>

-----------------------------------------------------------------------------
InputTask == ReadKey \/ PushSignal \/ NoKey \/ WaitKey
Cook == \E y \in Tty : CookChar(y) \/ CookBack(y) \/ CookEnd(y)
TtyTask == PopWait \/ Take \/ Cook \/ Echo
Read(r) == ReadWait(r) \/ ReadLock(r) \/ ReadChar(r) \/ ReadUnlock(r)
Next ==
  /\ ~panicked
  /\ \/ \E code \in Typed : Key(code)
     \/ Irq \/ InputTask \/ TtyTask
     \/ \E r \in Reader : Read(r)
Spec == Init /\ [][Next]_vars

-----------------------------------------------------------------------------
TypeOK ==
  /\ keys \in Seq(Code) /\ irq \in BOOLEAN /\ sent \in 0 .. MaxKeys
  /\ kbdirq \in Nat /\ event_sem \in Nat
  /\ input \in [pc : {"read", "signal", "wait"}, held : SUBSET (CtrlKey \cup AltKey)]
  /\ events \in Seq(Event) /\ Len(events) <= NEVENTS
  /\ task \in [pc : {"pop", "take", "cook", "echo"}, ev : Event, tty : Tty]
  /\ queue \in [Tty -> [buf : [0 .. BufSize - 1 -> Data \cup {Nul}],
                        front : 0 .. BufSize - 1, rear : 0 .. BufSize - 1]]
  /\ lock \in [Tty -> {0, 1}] /\ cooked \in [Tty -> Nat]
  /\ cursor \in [Tty -> 0 .. Lines * Columns - 1]
  /\ \A r \in Reader : reader[r].pc \in {"idle", "lock", "loop", "unlock"}
  /\ panicked \in BOOLEAN

\* The ring of events has as many as event_sem counts, but for one that was
\* stored and is not counted yet and one that was counted and is about to be
\* taken: pop_event never finds the ring empty (input.c:26).
EventsCounted ==
  ~panicked =>
    Len(events) =
      event_sem + (IF input.pc = "signal" THEN 1 ELSE 0) + (IF task.pc = "take" THEN 1 ELSE 0)

\* What a terminal's queue holds, with the part a reader has in its hands.
Content(q) == [i \in 1 .. (q.rear - q.front) % BufSize |-> q.buf[(q.front + i - 1) % BufSize]]
InHand(y) ==
  LET busy == {r \in Reader : ttyOf[r] = y /\ reader[r].pc = "loop"}
  IN  IF busy = {} THEN <<>> ELSE reader[CHOOSE r \in busy : TRUE].line
Split(s) ==   \* at the Nuls; the last piece is the line being typed
  LET pieces[i \in 0 .. Len(s)] ==
        IF i = 0 THEN <<<<>>>>
        ELSE LET before == pieces[i - 1]
             IN  IF s[i] = Nul THEN Append(before, <<>>)
                 ELSE [before EXCEPT ![Len(before)] = Append(@, s[i])]
  IN  pieces[Len(s)]
Text(y) == InHand(y) \o Content(queue[y])

\* cooked counts the lines that no reader has been promised, so a reader that
\* got past it finds a line's end in the queue and does not run over the rear.
LinesCounted ==
  /\ TypeOK
  /\ ~panicked =>
       \A y \in Tty :
         LET promised == {r \in Reader : ttyOf[r] = y /\ reader[r].pc \in {"lock", "loop"}}
         IN  Cardinality({i \in DOMAIN Text(y) : Text(y)[i] = Nul}) = cooked[y] + Cardinality(promised)

\* The queue implements a line discipline: lines are read in the order they
\* were typed, each by one reader, and Backspace stops at the line's start.
LD(y) == INSTANCE LineDiscipline WITH
           Char <- Data \ {Newline, Backspace},
           lines <- Split(Text(y)),
           got <- got[y]
LineStep(y) ==
  UNCHANGED <<queue[y], reader, got[y]>> \/ [LD(y)!Next]_(LD(y)!ldVars) \/ panicked'
LineSpec == (\A y \in Tty : LD(y)!Init) /\ [][\A y \in Tty : LineStep(y)]_vars

\* An interrupt that comes while input_task is between finding no key and
\* waiting is not lost: whoever waits with keys to read will be woken.
KeysAnnounced ==
  input.pc = "wait" /\ keys # <<>> => irq \/ kbdirq > 0
=============================================================================
