----------------------------- MODULE SignalSets -----------------------------
(* sigset_t of Pintos/Added_Signals/signal.c: an int8_t with one bit for    *)
(* each signal type.  ThreadSignals keeps these sets as TLA+ sets; the      *)
(* checks of MCThreadSignals say that the bits stand for them.              *)
EXTENDS Integers

Int8 == -128..127

Wrapped(x) == ((x + 128) % 256) - 128

(* Bit k of the two's complement representation of n.                       *)
Bit(n, k) == ((n % 256) \div 2^k) % 2

Members(n) == {k \in 0..7 : Bit(n, k) = 1}

setBit(n, bit) ==
  IF bit \in 0..7 /\ Bit(n, bit) = 0 THEN Wrapped(n + 2^bit) ELSE n

unsetBit(n, bit) ==
  IF bit \in 0..7 /\ Bit(n, bit) = 1 THEN Wrapped(n - 2^bit) ELSE n

checkBit(n, bit) == bit \in 0..7 /\ Bit(n, bit) = 1

sigemptyset == 0

(* ~0                                                                       *)
sigfillset == -1

(* The result code and the new set; a type outside enum sig_type changes    *)
(* nothing.                                                                 *)
sigaddset(n, s) ==
  IF s \in 0..4 THEN [code |-> 0, set |-> setBit(n, s)]
  ELSE [code |-> -1, set |-> n]

sigdelset(n, s) ==
  IF s \in 0..4 THEN [code |-> 0, set |-> unsetBit(n, s)]
  ELSE [code |-> -1, set |-> n]
=============================================================================
