------------------------------- MODULE Lists --------------------------------
(* The kernel's struct list as a sequence: what list_begin/list_next walk,  *)
(* and what a loop that removes elements on its way leaves.                 *)
EXTENDS Integers, Sequences

Elements(list) == {list[i] : i \in 1..Len(list)}

(* SelectSeq with a set for its test: written as a recursive function over  *)
(* the prefixes of list, which can be reasoned about by induction.          *)
Filter(list, kept) ==
  LET f[n \in 0..Len(list)] ==
        IF n = 0 THEN <<>>
        ELSE IF list[n] \in kept THEN Append(f[n - 1], list[n]) ELSE f[n - 1]
  IN  f[Len(list)]

NoDuplicates(list) ==
  \A i, j \in 1..Len(list) : list[i] = list[j] => i = j
=============================================================================
