----------------------------- MODULE Dispatcher -----------------------------
(***************************************************************************)
(* What the scheduler of thread.c promises its threads, whatever its       *)
(* queues: the CPU is never given away while a runnable thread is passed   *)
(* over for the idle one, a runnable thread is never lost or run twice,    *)
(* and every runnable thread gets the CPU in the end.                      *)
(***************************************************************************)

CONSTANTS
  Thread,          (* everything that can run                               *)
  Main,            (* the thread that runs first                            *)
  Idle             (* the thread to run when no other is runnable           *)

VARIABLES
  running,         (* the thread that has the CPU                           *)
  ready            (* the threads that only wait for it                     *)

vars == <<running, ready>>

Init ==
  /\ running = Main
  /\ ready = {}

(* A sleeping or new thread becomes runnable; the running one keeps running. *)
Wake(t) ==
  /\ t \in Thread \ (ready \cup {running})
  /\ ready' = ready \cup {t}
  /\ UNCHANGED running

(* The CPU passes to one of candidates, the threads runnable at that point. *)
Switch(candidates) ==
  \/ \E t \in candidates :
       /\ running' = t
       /\ ready' = candidates \ {t}
  \/ /\ candidates = {}
     /\ running' = Idle
     /\ ready' = {}

(* The running thread gives up the CPU but stays runnable.                  *)
GiveWay == Switch(ready \cup {running})

(* The running thread sleeps, ends, or is the idle one.                     *)
Leave == Switch(ready)

Next ==
  \/ \E t \in Thread : Wake(t)
  \/ GiveWay
  \/ Leave

Spec == Init /\ [][Next]_vars

(* No thread waits for the CPU for ever.                                    *)
NoStarvation == \A t \in Thread : (t \in ready) ~> (running = t)
=============================================================================
