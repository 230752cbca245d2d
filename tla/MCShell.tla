------------------------------ MODULE MCShell ------------------------------
(* An instance of Shell for TLC: every shape of line that the shell treats  *)
(* differently, once.                                                       *)
EXTENDS Shell

a == Word("a")
Amp(w) == [word |-> w, amp |-> TRUE]

MCCommand ==
  LET f == Word("f") g == Word("g") lt == Word("<") gt == Word(">") IN
  { <<>>, <<Word("pwd")>>, <<Word("mkdir")>>, <<Word("exit")>>,
    <<Word("cp"), f, g>>,
    <<a>>, <<Amp("a")>>, <<a, f, Amp("")>>,
    <<a, Word("|"), a>>,
    <<Word("x"), gt, f>>, <<a, lt, f>>, <<a, f, gt, g>>,
    <<a, lt, f, gt, g>>, <<a, gt, g, lt, f>> }
=============================================================================
