------------------------------ MODULE MCShell ------------------------------
(* Shell with every short line, and longer ones that combine the forms.      *)
EXTENDS ShellLine

Symbol == Token \ {"q", ">>"}

MCLine ==
    UNION {[1 .. n -> Symbol] : n \in 0 .. 4} \cup
    [1 .. 5 -> Symbol \ {"<", ">"}] \cup
    { <<"w", "|", "w", "|", "w">>,
      <<"(", "w", ";", "w", ")", "|", "w">>,
      <<"(", "w", "|", "w", ")", "|", "w">>,
      <<"(", "w", "&", ")", "|", "w">>,
      <<"w", "|", "(", "w", ";", "w", ")">>,
      <<"w", "|", "w", ";", "w", "&">>,
      <<"w", "|", "w", "&", ";", "w">>,
      <<"(", "w", ">", "w", ";", "w", ")", ">>", "w">>,
      <<"w", "q", "<", "w", ">", "w", "|", "w", ">", "w">>,
      <<"w", ">", "w", ">", "w", "|", "w">>,
      <<"(", "w", ";", "w", ")", "|", "(", "w", ";", "w", ")">>,
      <<"(", "w", "|", "w", ";", "w", ")", "|", "w", "|", "w">>,
      <<"w", "&", ";", "w", "&", ";", "w", "|", "w">>,
      <<"w", "|", "w", "|", "w", "&", ";", "w", "|", "w">>,
      <<"w", "w", "w", "w">>, <<"w", ">", "q">> }
=============================================================================
