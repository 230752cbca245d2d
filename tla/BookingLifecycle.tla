-------------------------- MODULE BookingLifecycle --------------------------
(***************************************************************************)
(* How the two programs of Multithread_server_client start and stop: the   *)
(* server creates the shared objects one by one (B.c), the client looks    *)
(* them up one by one (A.c), the server's SIGINT handler removes them, and *)
(* either may do so while the other is anywhere in its code.               *)
(*                                                                         *)
(* The server is started up to MaxServers times, each time after the last  *)
(* one has ended; the objects it creates carry its number, and 0 stands    *)
(* for none (an id of -1).  The service itself is BookingServer: here a    *)
(* request is only counted.  The client is started once.                   *)
(***************************************************************************)
EXTENDS Integers

CONSTANTS
  QUEUE,        (* slots of the queue: 10                                   *)
  MaxServers,   (* bound of the model: starts of the server                 *)
  Fault         (* how a server is stopped: "INT" is SIGINT, "KILL" any     *)
                (* signal that it does not handle                           *)

ASSUME LifecycleAssumption ==
  /\ QUEUE \in Nat \ {0} /\ MaxServers \in Nat \ {0}
  /\ Fault \subseteq {"INT", "KILL"}

Server == 1..MaxServers
Id == 0..MaxServers

VARIABLES
  key,      (* the objects to be found under the three keys                 *)
  sem,      (* the values of the semaphores found under their keys          *)
  pid,      (* slot 10 of every segment: its server's pid, 0 if not stored  *)
  unread,   (* requests written to a segment less those read from it        *)
  server,   (* the number of the last server started                        *)
  pcB, own, (* where it stands, and the ids it got from semget              *)
  pcA, got, (* the client, and the ids it got                               *)
  stop      (* history: how the last server that ran has ended              *)

vars == <<key, sem, pid, unread, server, pcB, own, pcA, got, stop>>

client == <<pcA, got>>

Init ==
  /\ key = [shm |-> 0, PS |-> 0, CS |-> 0]
  /\ sem = [PS |-> 0, CS |-> 0]
  /\ pid = [g \in Server |-> 0]
  /\ unread = [g \in Server |-> 0]
  /\ server = 0
  /\ pcB = "off" /\ own = [PS |-> 0, CS |-> 0]
  /\ pcA = "off" /\ got = [shm |-> 0, PS |-> 0, CS |-> 0]
  /\ stop = "none"

(* Counters stop one past either end of the queue.                          *)
Bounded(n) == IF n > QUEUE + 1 THEN QUEUE + 1 ELSE IF n < -1 THEN -1 ELSE n

----------------------------------------------------------------------------
(* The semaphores.  semop on an id of -1, or of a semaphore that is or gets *)
(* removed, fails at once, and neither program looks at its result.         *)

Valid(s, id) == id # 0 /\ key[s] = id

P(s, id) ==
  \/ ~Valid(s, id) /\ UNCHANGED sem
  \/ Valid(s, id) /\ sem[s] > 0 /\ sem' = [sem EXCEPT ![s] = @ - 1]

V(s, id) ==
  sem' = IF Valid(s, id) THEN [sem EXCEPT ![s] = Bounded(@ + 1)] ELSE sem

----------------------------------------------------------------------------
(* The server, B.c.  The definitions named Wrong... are mistakes that the   *)
(* runs must notice: PROJECT.json puts each in the place of the definition  *)
(* that follows it.                                                         *)

(* The values set in the other order.                                       *)
WrongAfter ==
  [new_PS |-> "new_CS", new_CS |-> "set_PS", set_PS |-> "set_CS",
   set_CS |-> "attach", attach |-> "register", register |-> "P",
   P |-> "read", read |-> "V", V |-> "P",
   rm_shm |-> "rm_PS", rm_PS |-> "rm_CS", rm_CS |-> "exit"]

(* The order of main's and of my_handler's statements.                      *)
After ==
  [new_PS |-> "new_CS", new_CS |-> "set_CS", set_CS |-> "set_PS",
   set_PS |-> "attach", attach |-> "register", register |-> "P",
   P |-> "read", read |-> "V", V |-> "P",
   rm_shm |-> "rm_PS", rm_PS |-> "rm_CS", rm_CS |-> "exit"]

Booting == {"new_PS", "new_CS", "set_CS", "set_PS", "attach", "register"}
Serving == {"P", "read", "V"}
Handling == {"rm_shm", "rm_PS", "rm_CS", "exit"}

At(here) == pcB = here /\ pcB' = After[here]

(* The exclusive shmget: with a segment left over, the server exits.        *)
Start ==
  /\ pcB = "off" /\ server < MaxServers
  /\ server' = server + 1
  /\ own' = [PS |-> 0, CS |-> 0]
  /\ \/ key.shm # 0 /\ UNCHANGED <<key, pcB>>
     \/ key.shm = 0 /\ key' = [key EXCEPT !.shm = server'] /\ pcB' = "new_PS"
  /\ UNCHANGED <<sem, pid, unread, client, stop>>

(* The exclusive semget fails if a semaphore is left over: an id of -1.     *)
Create(s, here) ==
  /\ At(here)
  /\ IF key[s] = 0
     THEN /\ key' = [key EXCEPT ![s] = server]
          /\ sem' = [sem EXCEPT ![s] = 0]
          /\ own' = [own EXCEPT ![s] = server]
     ELSE UNCHANGED <<key, sem, own>>
  /\ UNCHANGED <<pid, unread, server, client, stop>>

SetValue(s, here, value) ==
  /\ At(here)
  /\ sem' = IF Valid(s, own[s]) THEN [sem EXCEPT ![s] = value] ELSE sem
  /\ UNCHANGED <<key, pid, unread, server, own, client, stop>>

(* shmat and the store of the pid.                                          *)
Attach ==
  /\ At("attach")
  /\ pid' = [pid EXCEPT ![server] = server]
  /\ UNCHANGED <<key, sem, unread, server, own, client, stop>>

Register ==
  /\ At("register")
  /\ UNCHANGED <<key, sem, pid, unread, server, own, client, stop>>

ServerP ==
  /\ At("P")
  /\ P("CS", own.CS)
  /\ UNCHANGED <<key, pid, unread, server, own, client, stop>>

ServerRead ==
  /\ At("read")
  /\ unread' = [unread EXCEPT ![server] = Bounded(@ - 1)]
  /\ UNCHANGED <<key, sem, pid, server, own, client, stop>>

ServerV ==
  /\ At("V")
  /\ V("PS", own.PS)
  /\ UNCHANGED <<key, pid, unread, server, own, client, stop>>

(* my_handler, and exit(-1) at its end.                                     *)
RemoveSegment ==
  /\ At("rm_shm")
  /\ key' = [key EXCEPT !.shm = 0]
  /\ UNCHANGED <<sem, pid, unread, server, own, client, stop>>

(* my_handler without the removal of one semaphore.                         *)
WrongRemove(s, here) ==
  /\ At(here)
  /\ key' = IF Valid(s, own[s]) /\ s = "CS" THEN [key EXCEPT ![s] = 0] ELSE key
  /\ UNCHANGED <<sem, pid, unread, server, own, client, stop>>

Remove(s, here) ==
  /\ At(here)
  /\ key' = IF Valid(s, own[s]) THEN [key EXCEPT ![s] = 0] ELSE key
  /\ UNCHANGED <<sem, pid, unread, server, own, client, stop>>

HandlerExit ==
  /\ pcB = "exit"
  /\ pcB' = "off"
  /\ stop' = "handled"
  /\ UNCHANGED <<key, sem, pid, unread, server, own, client>>

(* SIGINT in the main loop: the handler takes over.                         *)
Interrupt ==
  /\ "INT" \in Fault
  /\ pcB \in Serving
  /\ pcB' = "rm_shm"
  /\ UNCHANGED <<key, sem, pid, unread, server, own, client, stop>>

(* Any other end: SIGINT before signal() has run, or another signal.        *)
Die ==
  /\ \/ "INT" \in Fault /\ pcB \in Booting
     \/ "KILL" \in Fault /\ pcB # "off"
  /\ pcB' = "off"
  /\ stop' = "died"
  /\ UNCHANGED <<key, sem, pid, unread, server, own, client>>

----------------------------------------------------------------------------
(* The client, A.c.                                                         *)

ClientAt(here, there) == pcA = here /\ pcA' = there

(* shmget: without a segment the client exits.                              *)
LookUpSegment ==
  /\ ClientAt("off", IF key.shm = 0 THEN "exited" ELSE "get_PS")
  /\ got' = [got EXCEPT !.shm = key.shm]
  /\ UNCHANGED <<key, sem, pid, unread, server, pcB, own, stop>>

(* semget, whose result is not checked.                                     *)
LookUp(s, here, there) ==
  /\ ClientAt(here, there)
  /\ got' = [got EXCEPT ![s] = key[s]]
  /\ UNCHANGED <<key, sem, pid, unread, server, pcB, own, stop>>

Running(g) == server = g /\ pcB # "off"

(* A removed segment exists as long as the server is attached to it.        *)
Attachable(g) ==
  key.shm = g \/ (Running(g) /\ pid[g] # 0)

(* shmat; the pointer it returns on failure is dereferenced at once.        *)
ClientAttach ==
  /\ ClientAt("attach", IF Attachable(got.shm) THEN "check" ELSE "exited")
  /\ UNCHANGED <<key, sem, pid, unread, server, pcB, own, got, stop>>

(* kill(Aqueue[10], 0), which tests the client's own group if that is 0.    *)
Check ==
  /\ ClientAt("check", IF pid[got.shm] = 0 \/ Running(pid[got.shm])
                       THEN "P" ELSE "exited")
  /\ UNCHANGED <<key, sem, pid, unread, server, pcB, own, got, stop>>

ClientP ==
  /\ ClientAt("P", "write")
  /\ P("PS", got.PS)
  /\ UNCHANGED <<key, pid, unread, server, pcB, own, got, stop>>

ClientWrite ==
  /\ ClientAt("write", "V")
  /\ unread' = [unread EXCEPT ![got.shm] = Bounded(@ + 1)]
  /\ UNCHANGED <<key, sem, pid, server, pcB, own, got, stop>>

(* The test before the loop, not in it.                                     *)
WrongClientV ==
  /\ ClientAt("V", "P")
  /\ V("CS", got.CS)
  /\ UNCHANGED <<key, pid, unread, server, pcB, own, got, stop>>

ClientV ==
  /\ ClientAt("V", "check")
  /\ V("CS", got.CS)
  /\ UNCHANGED <<key, pid, unread, server, pcB, own, got, stop>>

----------------------------------------------------------------------------
ServerStep ==
  \/ Create("PS", "new_PS") \/ Create("CS", "new_CS")
  \/ SetValue("CS", "set_CS", 0) \/ SetValue("PS", "set_PS", QUEUE)
  \/ Attach \/ Register
  \/ ServerP \/ ServerRead \/ ServerV
  \/ RemoveSegment \/ Remove("PS", "rm_PS") \/ Remove("CS", "rm_CS")
  \/ HandlerExit

ClientStep ==
  \/ LookUp("PS", "get_PS", "get_CS") \/ LookUp("CS", "get_CS", "attach")
  \/ ClientAttach \/ Check \/ ClientP \/ ClientWrite \/ ClientV

Next ==
  \/ Start \/ ServerStep \/ Interrupt \/ Die
  \/ LookUpSegment \/ ClientStep

(* A program that has been started executes its statements; nobody need     *)
(* start or interrupt one.                                                  *)
Fairness == WF_vars(ServerStep) /\ WF_vars(ClientStep)

Spec == Init /\ [][Next]_vars /\ Fairness

----------------------------------------------------------------------------
TypeOK ==
  /\ key \in [shm : Id, PS : Id, CS : Id]
  /\ sem \in [PS : 0..(QUEUE + 1), CS : 0..(QUEUE + 1)]
  /\ pid \in [Server -> Id]
  /\ unread \in [Server -> -1..(QUEUE + 1)]
  /\ server \in Id
  /\ pcB \in {"off"} \cup Booting \cup Serving \cup Handling
  /\ own \in [PS : Id, CS : Id]
  /\ pcA \in {"off", "get_PS", "get_CS", "attach", "check", "P", "write", "V",
              "exited"}
  /\ got \in [shm : Id, PS : Id, CS : Id]
  /\ stop \in {"none", "handled", "died"}

(* The client found all of the running server's objects, and the server     *)
(* got all of its own.                                                      *)
Paired ==
  /\ pcB # "off"
  /\ \A id \in {got.shm, got.PS, got.CS, own.PS, own.CS} : id = server

(* Once a client has found the three objects, at whatever point of the      *)
(* server's start, no request is lost by the initialisation of the          *)
(* semaphores, none is read that was not made and none is overwritten,      *)
(* until the server stops.                                                  *)
RequestsAccounted ==
  (Paired /\ pcB \in Booting \cup Serving) =>
    /\ unread[server] = sem.CS + (IF pcB = "read" THEN 1 ELSE 0)
                               + (IF pcA = "V" THEN 1 ELSE 0)
    /\ unread[server] \in 0..QUEUE

(* readme, on SIGINT: a server that ends in its handler leaves no shared    *)
(* object it has created behind, so that the next one finds none but those  *)
(* of a server that was killed; the segment is gone in any case.            *)
HandlerCleansUp ==
  (pcB = "off" /\ stop = "handled") =>
    key.shm = 0 /\ \A object \in {"PS", "CS"} : key[object] # server

(* readme: if B is killed somehow, A detects that and terminates.  It does, *)
(* wherever it stands in its own start or loop, after a server stopped with *)
(* ^C.  After one that could not clean up it does, or it sleeps in P(PS) for *)
(* ever, its server's semaphore left behind with the value 0.  Only for a   *)
(* server that died before it stored its pid does the client look for ever. *)
ClientFollows ==
  \A g \in Server :
    (/\ server = g /\ got.shm = g /\ pid[g] # 0
     /\ pcB \in Handling \cup {"off"}) ~>
      \/ pcA = "exited"
      \/ [](pcA = "P" /\ Valid("PS", got.PS) /\ sem.PS = 0)
=============================================================================
