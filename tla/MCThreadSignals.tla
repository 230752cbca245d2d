-------------------------- MODULE MCThreadSignals --------------------------
(* Instances of ThreadSignals for TLC.  The pages other than the initial    *)
(* thread's and the idle thread's are interchangeable.                      *)
EXTENDS ThreadSignals, SignalSets, TLC

CONSTANTS main, idle, a, b, c, null

MCPages == {main, idle, a, b}
MCPagesMore == {main, idle, a, b, c}
MCPagesFew == {main, idle, a}

MCSymmetry == Permutations(MCPagesMore \ {main, idle})

(* For every int8_t the bits behave as the set of their positions: the sign *)
(* bit, which no type uses but ~0 sets, is carried along, and arguments     *)
(* that are no bit change nothing.                                          *)
ASSUME BitsAreSets ==
  \A n \in Int8, k \in -1..8 :
    /\ setBit(n, k) \in Int8 /\ unsetBit(n, k) \in Int8
    /\ Members(setBit(n, k)) = Members(n) \cup ({k} \cap 0..7)
    /\ Members(unsetBit(n, k)) = Members(n) \ {k}
    /\ checkBit(n, k) <=> k \in Members(n)

(* enum sig_type is 0..4.                                                   *)
ASSUME SetFunctions ==
  /\ Members(sigemptyset) = {}
  /\ 0..4 \subseteq Members(sigfillset)
  /\ \A n \in Int8, s \in 0..4 :
       /\ Members(sigaddset(n, s).set) = Members(n) \cup {s}
       /\ Members(sigdelset(n, s).set) = Members(n) \ {s}
  /\ \A n \in Int8, s \in {-1, 5} :
       /\ sigaddset(n, s) = [code |-> -1, set |-> n]
       /\ sigdelset(n, s) = [code |-> -1, set |-> n]
=============================================================================
