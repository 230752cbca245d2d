-------------------------- MODULE MCMultilevelQueue --------------------------
(* Instances of MultilevelQueue for TLC.  The pages other than the initial  *)
(* thread's and the idle thread's are interchangeable.                      *)
EXTENDS MultilevelQueue, TLC

CONSTANTS main, idle, a, b, c, null

MCPages == {main, idle, a, b}
MCPagesMore == {main, idle, a, b, c}

MCSymmetry == Permutations(MCPagesMore \ {main, idle})

(* Filter is SelectSeq, on every list of up to four pages.                  *)
ASSUME FilterIsSelectSeq ==
  \A kept \in SUBSET {a, b} :
    \A n \in 0..4 : \A list \in [1..n -> {a, b, c}] :
      Filter(list, kept) = SelectSeq(list, LAMBDA t : t \in kept)
=============================================================================
