--------------------------- MODULE BoundedChannel ---------------------------
(* What the shared queue of Multithread_server_client promises: a channel  *)
(* of bounded capacity between one producer and one consumer, which hands  *)
(* over every request once, unchanged, in the order they were made.        *)
EXTENDS Naturals, Sequences

CONSTANTS Capacity, Value

VARIABLES
  chan,      (* the requests made and not yet taken                        *)
  taken      (* the last request taken                                     *)

Init == chan = <<>> /\ taken \in Value

Send(x) ==
  /\ Len(chan) < Capacity
  /\ chan' = Append(chan, x)
  /\ UNCHANGED taken

Receive ==
  /\ chan # <<>>
  /\ taken' = Head(chan)
  /\ chan' = Tail(chan)

Next == Receive \/ \E x \in Value : Send(x)

Spec == Init /\ [][Next]_<<chan, taken>>
=============================================================================
