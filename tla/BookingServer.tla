--------------------------- MODULE BookingServer ---------------------------
(***************************************************************************)
(* The service of Multithread_server_client: the client's loop in A.c, the *)
(* main loop of the server and its request threads in B.c.                 *)
(*                                                                         *)
(* The specification starts where both loops do, with the objects as B     *)
(* made them; how the two processes start and stop is BookingLifecycle's   *)
(* matter, and the client's test that the server is alive, which succeeds  *)
(* here, changes nothing.  A section under cnt_mutex2 is one action, since *)
(* nobody sleeps in it; the threads do sleep while they hold cnt_mutex.    *)
(***************************************************************************)
EXTENDS Integers, Sequences, FiniteSets

CONSTANTS
  QUEUE,         (* slots of the shared queue: 10                          *)
  HIGH,          (* request threads at which the main thread waits: 10     *)
  LOW,           (* and at which it goes on: 5                             *)
  TICKETS,       (* tickets for sale, and the most there can be: 100       *)
  Request,       (* what the client may ask for: -5..5                     *)
  Thread,        (* the threads that pthread_create can make at once       *)
  NoThread,      (* the holder of a free mutex                             *)
  MaxFailures    (* bound of the model: pthread_create fails up to so often *)

ASSUME QueueAssumption == QUEUE \in Nat \ {0}

ASSUME RequestAssumption == Request \subseteq Int

(* The segment starts zeroed: what a slot holds.                            *)
Content == Request \cup {0}

ASSUME TicketAssumption == TICKETS \in Nat

(* There are threads enough for HIGH requests and failed attempts.          *)
ASSUME ThreadAssumption ==
  /\ HIGH \in Nat \ {0} /\ LOW \in Nat /\ LOW < HIGH
  /\ MaxFailures \in Nat
  /\ IsFiniteSet(Thread) /\ Cardinality(Thread) >= HIGH
  /\ NoThread \notin Thread

VARIABLES
  Aqueue, in, PS, CS,        (* the shared slots and semaphores; A's in     *)
  pcA,
  out, stuff, global_count,  (* B's main thread: stuff is its stuff->in     *)
  pcB,
  item, pc,                  (* the request and the place of every thread   *)
  ticket, cnt_mutex,
  failed                     (* calls of pthread_create that have failed    *)

client == <<in, pcA>>
server == <<out, stuff, pcB>>
vars == <<Aqueue, PS, CS, client, server, global_count, item, pc, ticket,
          cnt_mutex, failed>>

Slot == 0..(QUEUE - 1)

Init ==
  /\ Aqueue = [i \in Slot |-> 0]
  /\ in = 0 /\ out = 0
  /\ PS = QUEUE /\ CS = 0
  /\ pcA = "P" /\ pcB = "P"
  /\ stuff = 0
  /\ global_count = 0
  /\ item = [t \in Thread |-> 0]
  /\ pc = [t \in Thread |-> "none"]
  /\ ticket = TICKETS
  /\ cnt_mutex = NoThread
  /\ failed = 0

----------------------------------------------------------------------------
(* The client, A.c.  The definitions named Wrong... are mistakes that the   *)
(* runs must notice: PROJECT.json puts each in the place of the definition  *)
(* that follows it.                                                         *)

ClientP ==
  /\ pcA = "P"
  /\ PS > 0
  /\ PS' = PS - 1
  /\ pcA' = "write"
  /\ UNCHANGED <<Aqueue, CS, in, server, global_count, item, pc, ticket,
                 cnt_mutex, failed>>

(* The wrong modulus.                                                       *)
WrongClientWrite(x) ==
  /\ pcA = "write"
  /\ Aqueue' = [Aqueue EXCEPT ![in] = x]
  /\ in' = IF in + 2 = QUEUE THEN 0 ELSE in + 1
  /\ pcA' = "V"
  /\ UNCHANGED <<PS, CS, server, global_count, item, pc, ticket, cnt_mutex,
                 failed>>

ClientWrite(x) ==
  /\ pcA = "write"
  /\ Aqueue' = [Aqueue EXCEPT ![in] = x]
  /\ in' = (in + 1) % QUEUE
  /\ pcA' = "V"
  /\ UNCHANGED <<PS, CS, server, global_count, item, pc, ticket, cnt_mutex,
                 failed>>

ClientV ==
  /\ pcA = "V"
  /\ CS' = CS + 1
  /\ pcA' = "P"
  /\ UNCHANGED <<Aqueue, PS, in, server, global_count, item, pc, ticket,
                 cnt_mutex, failed>>

----------------------------------------------------------------------------
(* The server's main thread, B.c.                                           *)

ServerP ==
  /\ pcB = "P"
  /\ CS > 0
  /\ CS' = CS - 1
  /\ pcB' = "count"
  /\ UNCHANGED <<Aqueue, PS, client, out, stuff, global_count, item, pc,
                 ticket, cnt_mutex, failed>>

(* if (global_count > 10).                                                  *)
WrongThrottled ==
  \/ pcB = "count" /\ global_count > HIGH /\ global_count > LOW
  \/ pcB = "woken" /\ global_count > LOW

(* The section under cnt_mutex2: "count" enters it, "woken" comes back from *)
(* pthread_cond_wait, "asleep" is in there and has released the mutex.      *)
Throttled ==
  \/ pcB = "count" /\ global_count >= HIGH /\ global_count > LOW
  \/ pcB = "woken" /\ global_count > LOW

Wait ==
  /\ Throttled
  /\ pcB' = "asleep"
  /\ UNCHANGED <<Aqueue, PS, CS, client, out, stuff, global_count, item, pc,
                 ticket, cnt_mutex, failed>>

Admit ==
  /\ pcB \in {"count", "woken"} /\ ~Throttled
  /\ global_count' = global_count + 1
  /\ pcB' = "read"
  /\ UNCHANGED <<Aqueue, PS, CS, client, out, stuff, item, pc, ticket,
                 cnt_mutex, failed>>

(* pthread_cond_wait may return without a signal.                           *)
WakeSpuriously ==
  /\ pcB = "asleep"
  /\ pcB' = "woken"
  /\ UNCHANGED <<Aqueue, PS, CS, client, out, stuff, global_count, item, pc,
                 ticket, cnt_mutex, failed>>

(* No thread, no step to the next slot.                                     *)
WrongServe ==
  /\ pcB = "read"
  /\ stuff' = Aqueue[out]
  /\ \/ /\ failed < MaxFailures
        /\ failed' = failed + 1
        /\ UNCHANGED <<item, pc, out>>
     \/ \E t \in Thread :
          /\ pc[t] = "none"
          /\ item' = [item EXCEPT ![t] = Aqueue[out]]
          /\ pc' = [pc EXCEPT ![t] = "lock"]
          /\ out' = (out + 1) % QUEUE
          /\ UNCHANGED failed
  /\ pcB' = "V"
  /\ UNCHANGED <<Aqueue, PS, CS, client, global_count, ticket, cnt_mutex>>

(* Reading the slot and creating its thread; the result of pthread_create   *)
(* is ignored.                                                              *)
Serve ==
  /\ pcB = "read"
  /\ stuff' = Aqueue[out]
  /\ \/ /\ failed < MaxFailures
        /\ failed' = failed + 1
        /\ UNCHANGED <<item, pc>>
     \/ \E t \in Thread :
          /\ pc[t] = "none"
          /\ item' = [item EXCEPT ![t] = Aqueue[out]]
          /\ pc' = [pc EXCEPT ![t] = "lock"]
          /\ UNCHANGED failed
  /\ out' = (out + 1) % QUEUE
  /\ pcB' = "V"
  /\ UNCHANGED <<Aqueue, PS, CS, client, global_count, ticket, cnt_mutex>>

ServerV ==
  /\ pcB = "V"
  /\ PS' = PS + 1
  /\ pcB' = "P"
  /\ UNCHANGED <<Aqueue, CS, client, out, stuff, global_count, item, pc,
                 ticket, cnt_mutex, failed>>

----------------------------------------------------------------------------
(* book_ticket() of request thread t.                                       *)

MIN(x, y) == IF x < y THEN x ELSE y

Go(t, from, to) == pc[t] = from /\ pc' = [pc EXCEPT ![t] = to]

(* book_ticket without cnt_mutex.                                           *)
WrongLock(t) ==
  /\ Go(t, "lock", "test")
  /\ cnt_mutex' = t
  /\ UNCHANGED <<Aqueue, PS, CS, client, server, global_count, item, ticket,
                 failed>>

Lock(t) ==
  /\ Go(t, "lock", "test")
  /\ cnt_mutex = NoThread
  /\ cnt_mutex' = t
  /\ UNCHANGED <<Aqueue, PS, CS, client, server, global_count, item, ticket,
                 failed>>

Test(t) ==
  /\ Go(t, "test", IF ticket - item[t] >= 0 THEN "book" ELSE "unlock")
  /\ UNCHANGED <<Aqueue, PS, CS, client, server, global_count, item, ticket,
                 cnt_mutex, failed>>

Book(t) ==
  /\ Go(t, "book", "unlock")
  /\ ticket' = MIN(ticket - item[t], TICKETS)
  /\ UNCHANGED <<Aqueue, PS, CS, client, server, global_count, item,
                 cnt_mutex, failed>>

(* After a sleep and a printf.                                              *)
Unlock(t) ==
  /\ Go(t, "unlock", "finish")
  /\ cnt_mutex' = NoThread
  /\ UNCHANGED <<Aqueue, PS, CS, client, server, global_count, item, ticket,
                 failed>>

(* if (global_count < 5).                                                   *)
WrongFinish(t) ==
  /\ Go(t, "finish", "none")
  /\ item' = [item EXCEPT ![t] = 0]
  /\ global_count' = global_count - 1
  /\ pcB' = IF pcB = "asleep" /\ global_count' < LOW THEN "woken" ELSE pcB
  /\ UNCHANGED <<Aqueue, PS, CS, client, out, stuff, ticket, cnt_mutex, failed>>

(* The section under cnt_mutex2, with its pthread_cond_signal.              *)
Finish(t) ==
  /\ Go(t, "finish", "none")
  /\ item' = [item EXCEPT ![t] = 0]
  /\ global_count' = global_count - 1
  /\ pcB' = IF pcB = "asleep" /\ global_count' <= LOW THEN "woken" ELSE pcB
  /\ UNCHANGED <<Aqueue, PS, CS, client, out, stuff, ticket, cnt_mutex, failed>>

----------------------------------------------------------------------------
ServerStep == ServerP \/ Wait \/ Admit \/ Serve \/ ServerV

ThreadStep(t) == Lock(t) \/ Test(t) \/ Book(t) \/ Unlock(t) \/ Finish(t)

Next ==
  \/ ClientP \/ ClientV \/ \E x \in Request : ClientWrite(x)
  \/ ServerStep \/ WakeSpuriously
  \/ \E t \in Thread : ThreadStep(t)

Spec == Init /\ [][Next]_vars

(* Each process and each thread advances when it can.  A mutex need not be  *)
(* fair: one thread may wait for cnt_mutex while others pass it.            *)
Fairness ==
  /\ WF_vars(ClientP) /\ WF_vars(ClientV)
  /\ WF_vars(ServerStep)
  /\ \A t \in Thread : WF_vars(ThreadStep(t))

FairSpec == Spec /\ Fairness

----------------------------------------------------------------------------
TypeOK ==
  /\ Aqueue \in [Slot -> Content]
  /\ in \in Slot /\ out \in Slot
  /\ PS \in 0..QUEUE /\ CS \in 0..QUEUE
  /\ pcA \in {"P", "write", "V"}
  /\ pcB \in {"P", "count", "asleep", "woken", "read", "V"}
  /\ stuff \in Content
  /\ global_count \in Nat
  /\ item \in [Thread -> Content]
  /\ pc \in [Thread -> {"none", "lock", "test", "book", "unlock", "finish"}]
  /\ ticket \in Int
  /\ cnt_mutex \in Thread \cup {NoThread}
  /\ failed \in 0..MaxFailures

One(condition) == IF condition THEN 1 ELSE 0

(* Slots with a request that the server has not taken out.                  *)
Unread == CS + One(pcB \in {"count", "asleep", "woken", "read"}) + One(pcA = "V")

(* The two semaphores and the two indices, which nothing in the code ties   *)
(* together, always agree on which slots are in use, wherever the client    *)
(* and the server stand in their loops.                                     *)
SlotsBalance ==
  /\ PS + One(pcA = "write") + Unread + One(pcB = "V") = QUEUE
  /\ in = (out + Unread) % QUEUE

(* The threads that have not left book_ticket.                              *)
Busy == {t \in Thread : pc[t] # "none"}

(* global_count is the number of requests being serviced, the one the main  *)
(* thread is about to create and the failed ones included, and there are    *)
(* never more than HIGH of them.                                            *)
CountsRequests ==
  /\ global_count = Cardinality(Busy) + failed + One(pcB = "read")
  /\ global_count <= HIGH

(* No wake-up is lost: while the main thread sleeps, the request that will  *)
(* bring global_count down to LOW is still to finish, or never started.     *)
NoLostWakeUp == pcB = "asleep" => global_count > LOW

(* However the request threads interleave, none finds the tickets changed   *)
(* between its test and its booking: they are never oversold, and returned  *)
(* tickets never add up to more than there were.                            *)
NeverOversold ==
  /\ ticket \in 0..TICKETS
  /\ \A t \in Thread : pc[t] = "book" => ticket - item[t] >= 0

(* The queue is a FIFO channel: the server takes each request once, as the  *)
(* client made it, in order, although slots are reused without a lock.      *)
Channel == INSTANCE BoundedChannel
  WITH Capacity <- QUEUE, Value <- Content,
       chan <- [k \in 1..Unread |-> Aqueue[(out + k - 1) % QUEUE]],
       taken <- stuff

DeliversInOrder == Channel!Spec

(* The main thread comes back for the next request whatever the request     *)
(* threads do, as long as no more than LOW calls of pthread_create fail,    *)
(* and so the client always finds room for its next request in the end.     *)
ServerGoesOn ==
  /\ pcB # "P" ~> pcB = "P"
  /\ CS > 0 ~> CS = 0 \/ pcB = "count"
  /\ pcA = "P" ~> pcA = "write"
=============================================================================
