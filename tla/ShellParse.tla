----------------------------- MODULE ShellParse -----------------------------
(***************************************************************************)
(* The shell's parser, kernel/src/shell/parse.c: recursive descent over the  *)
(* tokens of a line.  A line is a sequence of tokens: "w" a word, "q" a      *)
(* quoted one, or a symbol.  A word is known by its place in the line, as    *)
(* argv and file point into it.  Where the code panics, the result is Panic. *)
(***************************************************************************)
EXTENDS Integers, Sequences

CONSTANTS MaxArgs   \* MAXARGS

ASSUME ShellParseAssumption == MaxArgs \in Nat \ {0}

Token == {"w", "q", "|", "&", ";", "(", ")", "<", ">", ">>"}

\* The constructors.
execcmd(argv) == [type |-> "EXEC", argv |-> argv]
redircmd(cmd, file, mode) ==
    [type |-> "REDIR", cmd |-> cmd, file |-> file, mode |-> mode,
     fd |-> IF mode = "<" THEN 0 ELSE 1]
pipecmd(left, right) == [type |-> "PIPE", left |-> left, right |-> right]
listcmd(left, right) == [type |-> "LIST", left |-> left, right |-> right]
backcmd(cmd) == [type |-> "BACK", cmd |-> cmd]

Panic == [panic |-> TRUE]
Parsed(cmd, next) == [panic |-> FALSE, cmd |-> cmd, next |-> next]

\* peek, from the place i of the line s
peek(s, i, toks) == i <= Len(s) /\ s[i] \in toks

\* parseredirs: the files and modes from i on, in order, and the place behind them.
RECURSIVE Redirs(_, _, _)
Redirs(s, i, done) ==
    IF ~peek(s, i, {"<", ">", ">>"}) THEN [panic |-> FALSE, redirs |-> done, next |-> i]
    ELSE IF ~peek(s, i + 1, {"w"}) THEN Panic
    ELSE Redirs(s, i + 2, Append(done, [file |-> i + 1, mode |-> s[i]]))

\* Each redirection becomes a node around what there is so far.
RECURSIVE Around(_, _)
Around(cmd, redirs) ==
    IF redirs = <<>> THEN cmd
    ELSE Around(redircmd(cmd, Head(redirs).file, Head(redirs).mode), Tail(redirs))

\* The loop of parseexec, behind the argv and the redirections found so far.
RECURSIVE Args(_, _, _)
Args(s, argv, r) ==
    IF r.panic THEN Panic
    ELSE IF r.next > Len(s) \/ peek(s, r.next, {"|", ")", "&", ";"})
    THEN Parsed(Around(execcmd(argv), r.redirs), r.next)
    ELSE IF ~peek(s, r.next, {"w", "q"}) \/ Len(argv) + 1 >= MaxArgs THEN Panic
    ELSE Args(s, Append(argv, r.next), Redirs(s, r.next + 1, r.redirs))

RECURSIVE parseline(_, _)
RECURSIVE parsepipe(_, _)

parseblock(s, i) ==
    LET r == parseline(s, i + 1)
        q == Redirs(s, r.next + 1, <<>>)
    IN  IF r.panic THEN Panic
        ELSE IF ~peek(s, r.next, {")"}) \/ q.panic THEN Panic
        ELSE Parsed(Around(r.cmd, q.redirs), q.next)

parseexec(s, i) ==
    IF peek(s, i, {"("}) THEN parseblock(s, i) ELSE Args(s, <<>>, Redirs(s, i, <<>>))

\* slip: pipelines lean to the left.
RECURSIVE PipeOn(_, _)
PipeOn(s, l) ==
    LET r == parseexec(s, l.next + 1)
    IN  IF l.panic \/ ~peek(s, l.next, {"|"}) THEN l
        ELSE IF r.panic THEN Panic
        ELSE PipeOn(s, Parsed(pipecmd(l.cmd, r.cmd), r.next))
PipeLeft(s, i) == PipeOn(s, parseexec(s, i))

parsepipe(s, i) ==
    LET l == parseexec(s, i)
        r == parsepipe(s, l.next + 1)
    IN  IF l.panic \/ ~peek(s, l.next, {"|"}) THEN l
        ELSE IF r.panic THEN Panic
        ELSE Parsed(pipecmd(l.cmd, r.cmd), r.next)

\* The "&" behind a pipeline.
RECURSIVE Backs(_, _)
Backs(s, l) ==
    IF l.panic \/ ~peek(s, l.next, {"&"}) THEN l ELSE Backs(s, Parsed(backcmd(l.cmd), l.next + 1))

parseline(s, i) ==
    LET l == Backs(s, parsepipe(s, i))
        r == parseline(s, l.next + 1)
    IN  IF l.panic \/ ~peek(s, l.next, {";"}) THEN l
        ELSE IF r.panic THEN Panic
        ELSE Parsed(listcmd(l.cmd, r.cmd), r.next)

parsecmd(s) ==
    LET r == parseline(s, 1)
    IN  IF r.panic THEN Panic
        ELSE IF r.next <= Len(s) THEN Panic ELSE r

-----------------------------------------------------------------------------
(* The language, without a direction or a state: the trees that the tokens   *)
(* from i to j - 1 of a line can stand for.                                  *)
(*      line ::= back | back ; line         back ::= pipe | back &            *)
(*      pipe ::= item | item '|' pipe                                         *)
(*      item ::= word or redirection, any number | ( line ) redirections      *)

\* The redirections in a stretch of words and redirections, by their places.
Arrows(s, i, j) == {k \in i .. j - 1 : s[k] \in {"<", ">", ">>"}}

Targets(s, i, j) == {k + 1 : k \in Arrows(s, i, j)}

\* Nothing but words and redirections of a word each.
Plain(s, i, j) ==
    /\ \A k \in i .. j - 1 : s[k] \in {"w", "q", "<", ">", ">>"}
    /\ \A k \in Targets(s, i, j) : k < j /\ s[k] = "w"

RECURSIVE Ascending(_)
Ascending(S) ==
    IF S = {} THEN <<>>
    ELSE LET m == CHOOSE x \in S : \A y \in S : x <= y IN <<m>> \o Ascending(S \ {m})

Wrapped(cmd, s, i, j) ==
    LET a == Ascending(Arrows(s, i, j))
    IN  Around(cmd, [n \in DOMAIN a |-> [file |-> a[n] + 1, mode |-> s[a[n]]]])

RECURSIVE LineTrees(_, _, _)

ItemTrees(s, i, j) ==
    LET words == (i .. j - 1) \ (Arrows(s, i, j) \cup Targets(s, i, j))
        ends == {k \in i .. j - 1 : /\ s[i] = "(" /\ s[k] = ")" /\ Plain(s, k + 1, j)
                                    /\ k + 1 .. j - 1 = Arrows(s, k + 1, j) \cup Targets(s, k + 1, j)}
    IN  (IF Plain(s, i, j) /\ Len(Ascending(words)) < MaxArgs
         THEN {Wrapped(execcmd(Ascending(words)), s, i, j)} ELSE {})
        \cup UNION {{Wrapped(cmd, s, k + 1, j) : cmd \in LineTrees(s, i + 1, k)} : k \in ends}

RECURSIVE PipeTrees(_, _, _)
PipeTrees(s, i, j) ==
    ItemTrees(s, i, j) \cup
    UNION {{pipecmd(l, r) : l \in ItemTrees(s, i, k), r \in PipeTrees(s, k + 1, j)} :
             k \in {k \in i .. j - 1 : s[k] = "|"}}

RECURSIVE BackTrees(_, _, _)
BackTrees(s, i, j) ==
    PipeTrees(s, i, j) \cup
    {backcmd(cmd) : cmd \in IF j > i /\ s[j - 1] = "&" THEN BackTrees(s, i, j - 1) ELSE {}}

LineTrees(s, i, j) ==
    BackTrees(s, i, j) \cup
    UNION {{listcmd(l, r) : l \in BackTrees(s, i, k), r \in LineTrees(s, k + 1, j)} :
             k \in {k \in i .. j - 1 : s[k] = ";"}}
=============================================================================
