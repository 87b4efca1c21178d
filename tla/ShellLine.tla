------------------------------ MODULE ShellLine ------------------------------
(***************************************************************************)
(* A line of text in the shell: Shell with the tree that the parser makes,   *)
(* and what depends on the form of a whole tree.  TreeOf is parsecmd.        *)
(***************************************************************************)
EXTENDS Shell, ShellParse

ASSUME ShellLineAssumption ==
    \A s \in Line : (\A i \in DOMAIN s : s[i] \in Token) /\ TreeOf(s) = parsecmd(s)

\* The descent with one token of lookahead makes of a line the one tree the grammar
\* has for it, and panics at the lines the grammar does not have.  Such a tree asks
\* for no more than runcmd has.
ParseRight ==
    /\ shell = "type" =>
         LineTrees(line, 1, Len(line) + 1) =
             IF tree.panic THEN {} ELSE {tree.cmd}
    /\ Roomy

RECURSIVE Single(_)
Single(cmd) == cmd.type = "EXEC" \/ (cmd.type = "REDIR" /\ Single(cmd.cmd))
RECURSIVE Stages(_)
Stages(cmd) == Single(cmd) \/ (cmd.type = "PIPE" /\ Single(cmd.left) /\ Stages(cmd.right))

\* In a pipeline of single commands no reader sees the end before its writer has
\* ended, although any close of either end of a pipe by any task is its end.  With a
\* group in a pipeline it may.
EndsSeen == \A p \in early : ~Stages(NodeAt(p))
=============================================================================
