--------------------------- MODULE LineDiscipline ---------------------------
(***************************************************************************)
(* What a terminal promises to those who read it (tty.c): keys edit the    *)
(* line that is being typed; Enter and Ctrl-D make it available, and each  *)
(* read takes the oldest available line, cut to the length asked for.      *)
(***************************************************************************)
EXTENDS Sequences, Integers

CONSTANTS Char, Newline, Count

VARIABLES
  lines,  \* the lines nobody has read yet, oldest first; the last is being typed
  got     \* the line that was read last
ldVars == <<lines, got>>

Init == lines = << <<>> >> /\ got = <<>>

Typing == Len(lines)
Type(c) ==
  /\ lines' = [lines EXCEPT ![Typing] = Append(@, c)]
  /\ UNCHANGED got
Erase ==
  /\ lines[Typing] # <<>>
  /\ lines' = [lines EXCEPT ![Typing] = SubSeq(@, 1, Len(@) - 1)]
  /\ UNCHANGED got
Finish(end) ==
  /\ lines' = Append([lines EXCEPT ![Typing] = @ \o end], <<>>)
  /\ UNCHANGED got
Read ==
  /\ Typing > 1
  /\ lines' = Tail(lines)
  /\ got' = SubSeq(Head(lines), 1, IF Len(Head(lines)) < Count THEN Len(Head(lines)) ELSE Count)

Next == (\E c \in Char : Type(c)) \/ Erase \/ Finish(<<>>) \/ Finish(<<Newline>>) \/ Read
Spec == Init /\ [][Next]_ldVars
=============================================================================
