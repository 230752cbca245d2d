------------------------ MODULE BookingServerProofs -------------------------
(* Proofs about the booking service for every size of the queue, every pair *)
(* of throttle limits and any number of request threads.                    *)
EXTENDS BookingServer, FiniteSetTheorems, TLAPS

Locked == {"test", "book", "unlock"}

(* cnt_mutex is held by the thread between its lock and its unlock, and by  *)
(* no other: what NeverOversold rests on.                                   *)
MutexHeld == \A t \in Thread : pc[t] \in Locked <=> cnt_mutex = t

IInv ==
  /\ TypeOK
  /\ SlotsBalance
  /\ CountsRequests
  /\ NoLostWakeUp
  /\ NeverOversold
  /\ MutexHeld

----------------------------------------------------------------------------
(* Arithmetic around the ring: no number that occurs passes it twice.       *)
LEMMA ModAdd ==
  ASSUME NEW N \in Nat \ {0}, NEW a \in 0..(N - 1), NEW b \in 0..N
  PROVE  (a + b) % N = IF a + b < N THEN a + b ELSE a + b - N
<1>1. CASE a + b < N
  BY <1>1
<1>2. CASE a + b >= N
  <2>1. a + b - N \in 0..(N - 1)
    BY <1>2
  <2>2. /\ (a + b) = N * ((a + b) \div N) + ((a + b) % N)
        /\ (a + b) % N \in 0..(N - 1)
    OBVIOUS
  <2> QED BY <1>2, <2>1, <2>2
<1> QED BY <1>1, <1>2

LEMMA RingAdd ==
  ASSUME NEW a \in Slot, NEW b \in 0..QUEUE
  PROVE  /\ (a + b) % QUEUE = IF a + b < QUEUE THEN a + b ELSE a + b - QUEUE
         /\ (a + b) % QUEUE \in Slot
<1>1. a \in 0..(QUEUE - 1)
  BY DEF Slot
<1>2. (a + b) % QUEUE = IF a + b < QUEUE THEN a + b ELSE a + b - QUEUE
  BY <1>1, ModAdd, QueueAssumption
<1> QED BY <1>1, <1>2, QueueAssumption DEF Slot

(* One more step of the slot that is b after a, and of a itself.            *)
LEMMA RingStep ==
  ASSUME NEW a \in Slot, NEW b \in 0..(QUEUE - 1)
  PROVE  /\ (a + 1) % QUEUE \in Slot
         /\ (((a + b) % QUEUE) + 1) % QUEUE = (a + (b + 1)) % QUEUE
         /\ (((a + 1) % QUEUE) + b) % QUEUE = (a + (b + 1)) % QUEUE
<1>1. 1 \in 0..QUEUE /\ b \in 0..QUEUE /\ b + 1 \in 0..QUEUE
  BY QueueAssumption
<1> DEFINE next == (a + 1) % QUEUE
           after == (a + b) % QUEUE
<1>2. /\ next = IF a + 1 < QUEUE THEN a + 1 ELSE a + 1 - QUEUE
      /\ next \in Slot
  BY <1>1, RingAdd
<1>3. /\ after = IF a + b < QUEUE THEN a + b ELSE a + b - QUEUE
      /\ after \in Slot
  BY <1>1, RingAdd
<1>4. (a + (b + 1)) % QUEUE =
        IF a + (b + 1) < QUEUE THEN a + (b + 1) ELSE a + (b + 1) - QUEUE
  BY <1>1, RingAdd
<1> HIDE DEF next, after
<1>5. (after + 1) % QUEUE = IF after + 1 < QUEUE THEN after + 1 ELSE after + 1 - QUEUE
  BY <1>1, <1>3, RingAdd
<1>6. (next + b) % QUEUE = IF next + b < QUEUE THEN next + b ELSE next + b - QUEUE
  BY <1>1, <1>2, RingAdd
<1>7. (after + 1) % QUEUE = (a + (b + 1)) % QUEUE
  BY <1>3, <1>4, <1>5, QueueAssumption DEF Slot
<1>8. (next + b) % QUEUE = (a + (b + 1)) % QUEUE
  BY <1>2, <1>4, <1>6, QueueAssumption DEF Slot
<1> QED BY <1>2, <1>7, <1>8 DEF next, after

(* Two slots less than QUEUE apart are different slots.                     *)
LEMMA RingDistinct ==
  ASSUME NEW a \in Slot, NEW b \in 0..(QUEUE - 1), NEW c \in 0..(QUEUE - 1),
         b # c
  PROVE  (a + b) % QUEUE # (a + c) % QUEUE
<1>1. b \in 0..QUEUE /\ c \in 0..QUEUE
  BY QueueAssumption
<1>2. (a + b) % QUEUE = IF a + b < QUEUE THEN a + b ELSE a + b - QUEUE
  BY <1>1, RingAdd
<1>3. (a + c) % QUEUE = IF a + c < QUEUE THEN a + c ELSE a + c - QUEUE
  BY <1>1, RingAdd
<1> QED BY <1>2, <1>3, QueueAssumption DEF Slot

LEMMA OneFacts ==
  ASSUME NEW b \in BOOLEAN
  PROVE  One(b) \in 0..1
BY DEF One

(* Among a finite set of threads the busy ones can be counted.              *)
LEMMA BusyCounts == IsFiniteSet(Busy) /\ Cardinality(Busy) \in Nat
<1>1. Busy \in SUBSET Thread
  BY DEF Busy
<1> QED BY <1>1, FS_Subset, FS_CardinalityType, ThreadAssumption

----------------------------------------------------------------------------
(* The invariant.                                                           *)

LEMMA InitIInv == Init => IInv
<1> SUFFICES ASSUME Init PROVE IInv
  OBVIOUS
<1>1. TypeOK
  BY QueueAssumption, RequestAssumption, TicketAssumption, ThreadAssumption
     DEF Init, TypeOK, Slot, Content
<1>2. SlotsBalance
  BY QueueAssumption DEF Init, SlotsBalance, Unread, One
<1>3. CountsRequests
  <2>1. Busy = {}
    BY DEF Init, Busy
  <2> QED BY <2>1, FS_EmptySet, ThreadAssumption DEF Init, CountsRequests, One
<1>4. NoLostWakeUp /\ NeverOversold /\ MutexHeld
  BY TicketAssumption, ThreadAssumption
     DEF Init, NoLostWakeUp, NeverOversold, MutexHeld, Locked
<1> QED BY <1>1, <1>2, <1>3, <1>4 DEF IInv

(* The actions of the client and the main thread, which leave the request   *)
(* threads and their tickets alone.                                         *)
LEMMA ClientKeepsIInv ==
  ASSUME IInv, ClientP \/ ClientV \/ \E x \in Request : ClientWrite(x)
  PROVE  IInv'
<1> USE DEF IInv
<1>1. UNCHANGED <<global_count, item, pc, ticket, cnt_mutex, failed, pcB, out, stuff>>
  BY DEF ClientP, ClientV, ClientWrite, server
<1>2. CountsRequests' /\ NoLostWakeUp' /\ NeverOversold' /\ MutexHeld'
  BY <1>1 DEF CountsRequests, Busy, NoLostWakeUp, NeverOversold, MutexHeld
<1>3. CASE ClientP
  <2>1. SlotsBalance'
    BY <1>1, <1>3 DEF ClientP, SlotsBalance, Unread, One, TypeOK, client
  <2>2. PS' \in 0..QUEUE
    BY <1>3, QueueAssumption DEF ClientP, TypeOK
  <2>3. TypeOK'
    BY <1>1, <1>3, <2>2 DEF ClientP, TypeOK
  <2> QED BY <1>2, <2>1, <2>3
<1>4. ASSUME NEW x \in Request, ClientWrite(x) PROVE IInv'
  <2>1. SlotsBalance'
    <3>1. Unread \in 0..(QUEUE - 1) /\ Unread' = Unread + 1
      BY <1>1, <1>4 DEF ClientWrite, SlotsBalance, Unread, One, TypeOK
    <3>2. in' = (out + (Unread + 1)) % QUEUE
      BY <1>4, <3>1, RingStep DEF ClientWrite, SlotsBalance, TypeOK
    <3>3. PS' + One(pcA' = "write") + Unread' + One(pcB' = "V") = QUEUE
      BY <1>1, <1>4, <3>1 DEF ClientWrite, SlotsBalance, One, TypeOK
    <3> QED BY <1>1, <3>1, <3>2, <3>3 DEF SlotsBalance
  <2>2. in' \in Slot
    BY <1>4, RingStep, QueueAssumption DEF ClientWrite, TypeOK
  <2>3. Aqueue' \in [Slot -> Content]
    BY <1>4 DEF ClientWrite, TypeOK, Content
  <2>4. TypeOK'
    BY <1>1, <1>4, <2>2, <2>3 DEF ClientWrite, TypeOK
  <2> QED BY <1>2, <2>1, <2>4
<1>5. CASE ClientV
  <2>1. SlotsBalance'
    BY <1>1, <1>5 DEF ClientV, SlotsBalance, Unread, One, TypeOK
  <2>2. CS' \in 0..QUEUE
    BY <1>5 DEF ClientV, SlotsBalance, Unread, One, TypeOK
  <2>3. TypeOK'
    BY <1>1, <1>5, <2>2 DEF ClientV, TypeOK
  <2> QED BY <1>2, <2>1, <2>3
<1> QED BY <1>3, <1>4, <1>5

LEMMA ServerKeepsIInv ==
  ASSUME IInv, ServerP \/ Wait \/ Admit \/ ServerV \/ WakeSpuriously
  PROVE  IInv'
<1> USE DEF IInv
<1>1. UNCHANGED <<Aqueue, in, pcA, out, stuff, item, pc, ticket, cnt_mutex, failed>>
  BY DEF ServerP, Wait, Admit, ServerV, WakeSpuriously, client
<1>2. NeverOversold' /\ MutexHeld' /\ Busy' = Busy
  BY <1>1 DEF NeverOversold, MutexHeld, Busy
<1>3. CASE ServerP
  <2>1. SlotsBalance'
    BY <1>1, <1>3 DEF ServerP, SlotsBalance, Unread, One, TypeOK
  <2>2. CountsRequests' /\ NoLostWakeUp'
    BY <1>1, <1>2, <1>3 DEF ServerP, CountsRequests, NoLostWakeUp, One
  <2>3. CS' \in 0..QUEUE
    BY <1>3, QueueAssumption DEF ServerP, TypeOK
  <2>4. TypeOK'
    BY <1>1, <1>3, <2>3 DEF ServerP, TypeOK
  <2> QED BY <1>2, <2>1, <2>2, <2>4
<1>4. CASE Wait
  <2>1. pcB \in {"count", "woken"} /\ pcB' = "asleep" /\ global_count > LOW
    BY <1>4 DEF Wait, Throttled
  <2>2. UNCHANGED <<PS, CS, global_count>>
    BY <1>4 DEF Wait
  <2>3. SlotsBalance'
    BY <1>1, <2>1, <2>2 DEF SlotsBalance, Unread, One
  <2>4. CountsRequests' /\ NoLostWakeUp'
    BY <1>1, <1>2, <2>1, <2>2 DEF CountsRequests, NoLostWakeUp, One
  <2>5. TypeOK'
    BY <1>1, <2>1, <2>2 DEF TypeOK
  <2> QED BY <1>2, <2>3, <2>4, <2>5
<1>5. CASE Admit
  <2>1. pcB \in {"count", "woken"} /\ pcB' = "read" /\ UNCHANGED <<PS, CS>>
    BY <1>5 DEF Admit
  <2>2. global_count \in Nat /\ global_count' = global_count + 1
    BY <1>5 DEF Admit, TypeOK
  <2>3. global_count < HIGH
    BY <1>5, <2>2, ThreadAssumption DEF Admit, Throttled
  <2>4. SlotsBalance'
    BY <1>1, <2>1 DEF SlotsBalance, Unread, One
  <2>5. CountsRequests'
    <3>1. global_count = Cardinality(Busy) + failed
      BY <2>1, BusyCounts, ThreadAssumption DEF CountsRequests, One, TypeOK
    <3>2. global_count' = Cardinality(Busy') + failed' + One(pcB' = "read")
      BY <1>1, <1>2, <2>1, <2>2, <3>1, BusyCounts, ThreadAssumption DEF One, TypeOK
    <3> QED BY <2>2, <2>3, <3>2, ThreadAssumption DEF CountsRequests
  <2>6. NoLostWakeUp' /\ TypeOK'
    BY <1>1, <2>1, <2>2 DEF NoLostWakeUp, TypeOK
  <2> QED BY <1>2, <2>4, <2>5, <2>6
<1>6. CASE ServerV
  <2>1. SlotsBalance'
    BY <1>1, <1>6 DEF ServerV, SlotsBalance, Unread, One, TypeOK
  <2>2. CountsRequests' /\ NoLostWakeUp'
    BY <1>1, <1>2, <1>6 DEF ServerV, CountsRequests, NoLostWakeUp, One
  <2>3. PS' \in 0..QUEUE
    BY <1>6 DEF ServerV, SlotsBalance, Unread, One, TypeOK
  <2>4. TypeOK'
    BY <1>1, <1>6, <2>3 DEF ServerV, TypeOK
  <2> QED BY <1>2, <2>1, <2>2, <2>4
<1>7. CASE WakeSpuriously
  <2>1. SlotsBalance'
    BY <1>1, <1>7 DEF WakeSpuriously, SlotsBalance, Unread, One
  <2>2. CountsRequests' /\ NoLostWakeUp'
    BY <1>1, <1>2, <1>7 DEF WakeSpuriously, CountsRequests, NoLostWakeUp, One
  <2>3. TypeOK'
    BY <1>1, <1>7 DEF WakeSpuriously, TypeOK
  <2> QED BY <1>2, <2>1, <2>2, <2>3
<1> QED BY <1>3, <1>4, <1>5, <1>6, <1>7

(* Taking a request out of its slot, with or without a thread for it.       *)
LEMMA ServeKeepsIInv ==
  ASSUME IInv, Serve
  PROVE  IInv'
<1> USE DEF IInv
<1>1. /\ pcB = "read" /\ pcB' = "V"
      /\ out' = (out + 1) % QUEUE /\ stuff' = Aqueue[out]
      /\ UNCHANGED <<Aqueue, PS, CS, in, pcA, global_count, ticket, cnt_mutex>>
  BY DEF Serve, client
<1>2. out' \in Slot /\ stuff' \in Content
  BY <1>1, RingStep, QueueAssumption DEF TypeOK
<1>3. SlotsBalance'
  <2>1. Unread \in 1..QUEUE /\ Unread' = Unread - 1
    BY <1>1 DEF SlotsBalance, Unread, One, TypeOK
  <2>2. (((out + 1) % QUEUE) + (Unread - 1)) % QUEUE = (out + Unread) % QUEUE
    <3> DEFINE b == Unread - 1
    <3>1. b \in 0..(QUEUE - 1) /\ b + 1 = Unread
      BY <2>1, QueueAssumption
    <3> HIDE DEF b
    <3>2. (((out + 1) % QUEUE) + b) % QUEUE = (out + (b + 1)) % QUEUE
      BY <3>1, RingStep DEF TypeOK
    <3> QED BY <3>1, <3>2 DEF b
  <2>3. PS' + One(pcA' = "write") + Unread' + One(pcB' = "V") = QUEUE
    BY <1>1, <2>1, QueueAssumption DEF SlotsBalance, One, TypeOK
  <2> QED BY <1>1, <2>1, <2>2, <2>3 DEF SlotsBalance
<1>4. NoLostWakeUp'
  BY <1>1 DEF NoLostWakeUp
<1>5. CASE failed < MaxFailures /\ failed' = failed + 1 /\ UNCHANGED <<item, pc>>
  <2>1. NeverOversold' /\ MutexHeld' /\ Busy' = Busy
    BY <1>1, <1>5 DEF NeverOversold, MutexHeld, Busy
  <2>2. failed' \in 0..MaxFailures
    BY <1>5, ThreadAssumption DEF TypeOK
  <2>3. CountsRequests'
    BY <1>1, <1>5, <2>1, BusyCounts, ThreadAssumption DEF CountsRequests, One, TypeOK
  <2>4. TypeOK'
    BY <1>1, <1>2, <1>5, <2>2 DEF TypeOK
  <2> QED BY <1>3, <1>4, <2>1, <2>3, <2>4
<1>6. ASSUME NEW t \in Thread, pc[t] = "none",
             item' = [item EXCEPT ![t] = Aqueue[out]],
             pc' = [pc EXCEPT ![t] = "lock"], UNCHANGED failed
      PROVE  IInv'
  <2>1. Aqueue[out] \in Content
    BY DEF TypeOK
  <2>2. item' \in [Thread -> Content]
    BY <1>6, <2>1 DEF TypeOK
  <2>3. pc' \in [Thread -> {"none", "lock", "test", "book", "unlock", "finish"}]
    BY <1>6 DEF TypeOK
  <2>4. TypeOK'
    BY <1>1, <1>2, <1>6, <2>2, <2>3 DEF TypeOK
  <2>5. pc'[t] = "lock" /\ \A u \in Thread \ {t} : pc'[u] = pc[u] /\ item'[u] = item[u]
    BY <1>6 DEF TypeOK
  <2>6. Busy' = Busy \cup {t} /\ t \notin Busy
    BY <1>6, <2>5 DEF Busy
  <2>7. Cardinality(Busy') = Cardinality(Busy) + 1
    BY <2>6, BusyCounts, FS_AddElement
  <2>8. CountsRequests'
    BY <1>1, <1>6, <2>7, BusyCounts, ThreadAssumption DEF CountsRequests, One, TypeOK
  <2>9. NeverOversold'
    BY <1>1, <2>5 DEF NeverOversold
  <2>10. MutexHeld'
    BY <1>1, <1>6, <2>5 DEF MutexHeld, Locked
  <2> QED BY <1>3, <1>4, <2>4, <2>8, <2>9, <2>10
<1> QED BY <1>5, <1>6 DEF Serve

(* What the steps of a request thread have in common.                       *)
LEMMA ThreadMoves ==
  ASSUME TypeOK, NEW t \in Thread, NEW from, NEW to,
         Go(t, from, to),
         to \in {"none", "lock", "test", "book", "unlock", "finish"}
  PROVE  /\ pc[t] = from /\ pc'[t] = to
         /\ pc' \in [Thread -> {"none", "lock", "test", "book", "unlock", "finish"}]
         /\ \A u \in Thread \ {t} : pc'[u] = pc[u]
BY DEF Go, TypeOK

LEMMA ThreadKeepsIInv ==
  ASSUME IInv, NEW t \in Thread, Lock(t) \/ Test(t) \/ Book(t) \/ Unlock(t)
  PROVE  IInv'
<1> USE DEF IInv
<1>1. UNCHANGED <<Aqueue, in, PS, CS, pcA, out, stuff, global_count, pcB, item, failed>>
  BY DEF Lock, Test, Book, Unlock, client, server
<1>2. SlotsBalance' /\ NoLostWakeUp'
  BY <1>1 DEF SlotsBalance, Unread, NoLostWakeUp
<1>3. ASSUME NEW from, NEW to, Go(t, from, to), from # "none",
             to \in {"lock", "test", "book", "unlock", "finish"}
      PROVE  CountsRequests'
  <2>1. Busy' = Busy
    BY <1>3, ThreadMoves DEF Busy
  <2> QED BY <1>1, <2>1 DEF CountsRequests
<1>4. item[t] \in Int /\ ticket \in Int
  <2>1. \A x \in Content : x \in Int
    BY RequestAssumption DEF Content
  <2> QED BY <2>1 DEF TypeOK
<1>5. CASE Lock(t)
  <2>1. Go(t, "lock", "test") /\ cnt_mutex = NoThread /\ cnt_mutex' = t /\ ticket' = ticket
    BY <1>5 DEF Lock
  <2>2. /\ pc'[t] = "test" /\ \A u \in Thread \ {t} : pc'[u] = pc[u]
        /\ pc' \in [Thread -> {"none", "lock", "test", "book", "unlock", "finish"}]
    BY <2>1, ThreadMoves
  <2>3. TypeOK'
    BY <1>1, <2>1, <2>2 DEF TypeOK
  <2>4. MutexHeld'
    BY <2>1, <2>2, ThreadAssumption DEF MutexHeld, Locked
  <2>5. NeverOversold'
    BY <1>1, <2>1, <2>2 DEF NeverOversold
  <2>6. CountsRequests'
    BY <1>3, <2>1
  <2> QED BY <1>2, <2>3, <2>4, <2>5, <2>6
<1>6. CASE Test(t)
  <2> DEFINE to == IF ticket - item[t] >= 0 THEN "book" ELSE "unlock"
  <2>1. Go(t, "test", to) /\ UNCHANGED <<ticket, cnt_mutex>> /\ to \in {"book", "unlock"}
    BY <1>6 DEF Test
  <2>2. /\ pc[t] = "test" /\ pc'[t] = to /\ \A u \in Thread \ {t} : pc'[u] = pc[u]
        /\ pc' \in [Thread -> {"none", "lock", "test", "book", "unlock", "finish"}]
    BY <2>1, ThreadMoves
  <2>3. pc'[t] = "book" => ticket - item[t] >= 0
    BY <2>2
  <2>4. CountsRequests'
    BY <1>3, <2>1
  <2> HIDE DEF to
  <2>5. TypeOK'
    BY <1>1, <2>1, <2>2 DEF TypeOK
  <2>6. MutexHeld'
    BY <2>1, <2>2 DEF MutexHeld, Locked
  <2>7. NeverOversold'
    BY <1>1, <2>1, <2>2, <2>3 DEF NeverOversold
  <2> QED BY <1>2, <2>4, <2>5, <2>6, <2>7
<1>7. CASE Book(t)
  <2>1. Go(t, "book", "unlock") /\ UNCHANGED cnt_mutex /\ ticket' = MIN(ticket - item[t], TICKETS)
    BY <1>7 DEF Book
  <2>2. /\ pc[t] = "book" /\ pc'[t] = "unlock" /\ \A u \in Thread \ {t} : pc'[u] = pc[u]
        /\ pc' \in [Thread -> {"none", "lock", "test", "book", "unlock", "finish"}]
    BY <2>1, ThreadMoves
  <2>3. ticket' \in 0..TICKETS
    <3>1. ticket - item[t] \in Int /\ ticket - item[t] >= 0
      BY <1>4, <2>2 DEF NeverOversold
    <3> QED BY <2>1, <3>1, TicketAssumption DEF MIN
  <2>4. TypeOK'
    BY <1>1, <2>1, <2>2, <2>3 DEF TypeOK
  <2>5. MutexHeld'
    BY <2>1, <2>2 DEF MutexHeld, Locked
  <2>6. \A u \in Thread : pc'[u] # "book"
    BY <2>2 DEF MutexHeld, Locked
  <2>7. CountsRequests'
    BY <1>3, <2>1
  <2> QED BY <1>2, <2>3, <2>4, <2>5, <2>6, <2>7 DEF NeverOversold
<1>8. CASE Unlock(t)
  <2>1. Go(t, "unlock", "finish") /\ cnt_mutex' = NoThread /\ ticket' = ticket
    BY <1>8 DEF Unlock
  <2>2. /\ pc[t] = "unlock" /\ pc'[t] = "finish" /\ \A u \in Thread \ {t} : pc'[u] = pc[u]
        /\ pc' \in [Thread -> {"none", "lock", "test", "book", "unlock", "finish"}]
    BY <2>1, ThreadMoves
  <2>3. TypeOK'
    BY <1>1, <2>1, <2>2 DEF TypeOK
  <2>4. MutexHeld'
    BY <2>1, <2>2, ThreadAssumption DEF MutexHeld, Locked
  <2>5. NeverOversold'
    BY <1>1, <2>1, <2>2 DEF NeverOversold
  <2>6. CountsRequests'
    BY <1>3, <2>1
  <2> QED BY <1>2, <2>3, <2>4, <2>5, <2>6
<1> QED BY <1>5, <1>6, <1>7, <1>8

LEMMA FinishKeepsIInv ==
  ASSUME IInv, NEW t \in Thread, Finish(t)
  PROVE  IInv'
<1> USE DEF IInv
<1>1. /\ Go(t, "finish", "none") /\ item' = [item EXCEPT ![t] = 0]
      /\ global_count' = global_count - 1
      /\ pcB' = IF pcB = "asleep" /\ global_count' <= LOW THEN "woken" ELSE pcB
      /\ UNCHANGED <<Aqueue, PS, CS, in, pcA, out, stuff, ticket, cnt_mutex, failed>>
  BY DEF Finish, client
<1>2. /\ pc[t] = "finish" /\ pc'[t] = "none" /\ \A u \in Thread \ {t} : pc'[u] = pc[u]
      /\ pc' \in [Thread -> {"none", "lock", "test", "book", "unlock", "finish"}]
  BY <1>1, ThreadMoves
<1>3. /\ item' \in [Thread -> Content]
      /\ \A u \in Thread \ {t} : item'[u] = item[u]
  BY <1>1 DEF TypeOK, Content
<1>4. Busy' = Busy \ {t} /\ t \in Busy
  BY <1>2 DEF Busy
<1>5. Cardinality(Busy') = Cardinality(Busy) - 1 /\ Cardinality(Busy') \in Nat
  BY <1>4, BusyCounts, FS_RemoveElement, FS_CardinalityType
<1>6. pcB' = "read" <=> pcB = "read"
  BY <1>1
<1>7. global_count' \in Nat /\ CountsRequests'
  BY <1>1, <1>5, <1>6, BusyCounts, ThreadAssumption DEF CountsRequests, One, TypeOK
<1>8. TypeOK'
  BY <1>1, <1>2, <1>3, <1>7 DEF TypeOK
<1>9. SlotsBalance'
  BY <1>1 DEF SlotsBalance, Unread, One
<1>10. NoLostWakeUp'
  BY <1>1, <1>7, ThreadAssumption DEF NoLostWakeUp
<1>11. NeverOversold'
  BY <1>1, <1>2, <1>3 DEF NeverOversold
<1>12. MutexHeld'
  BY <1>1, <1>2 DEF MutexHeld, Locked
<1> QED BY <1>7, <1>8, <1>9, <1>10, <1>11, <1>12

LEMMA StepKeepsIInv == IInv /\ [Next]_vars => IInv'
<1> SUFFICES ASSUME IInv, [Next]_vars PROVE IInv'
  OBVIOUS
<1>1. CASE ClientP \/ ClientV \/ \E x \in Request : ClientWrite(x)
  BY <1>1, ClientKeepsIInv
<1>2. CASE ServerP \/ Wait \/ Admit \/ ServerV \/ WakeSpuriously
  BY <1>2, ServerKeepsIInv
<1>3. CASE Serve
  BY <1>3, ServeKeepsIInv
<1>4. CASE \E t \in Thread : ThreadStep(t)
  BY <1>4, ThreadKeepsIInv, FinishKeepsIInv DEF ThreadStep
<1>5. CASE UNCHANGED vars
  BY <1>5 DEF vars, client, server, IInv, TypeOK, SlotsBalance, Unread, CountsRequests,
              Busy, NoLostWakeUp, NeverOversold, MutexHeld
<1> QED BY <1>1, <1>2, <1>3, <1>4, <1>5 DEF Next, ServerStep

LEMMA Invariance == Spec => []IInv
BY InitIInv, StepKeepsIInv, PTL DEF Spec

(* The two semaphores and the two indices agree on the slots in use.        *)
THEOREM SlotsAlwaysBalance == Spec => []SlotsBalance
<1>1. IInv => SlotsBalance
  BY DEF IInv
<1> QED BY <1>1, Invariance, PTL

(* global_count counts the requests being serviced, and never passes HIGH.  *)
THEOREM ThrottleCounts == Spec => []CountsRequests
<1>1. IInv => CountsRequests
  BY DEF IInv
<1> QED BY <1>1, Invariance, PTL

(* The main thread never sleeps when nothing is left to wake it.            *)
THEOREM WakeUpsKept == Spec => []NoLostWakeUp
<1>1. IInv => NoLostWakeUp
  BY DEF IInv
<1> QED BY <1>1, Invariance, PTL

(* Tickets are never oversold and never exceed TICKETS.                     *)
THEOREM TicketsSafe == Spec => []NeverOversold
<1>1. IInv => NeverOversold
  BY DEF IInv
<1> QED BY <1>1, Invariance, PTL

----------------------------------------------------------------------------
(* The ring implements the bounded channel.                                 *)

Contents(queue, o, n) == [k \in 1..n |-> queue[(o + k - 1) % QUEUE]]

Chan == Contents(Aqueue, out, Unread)

ChannelStep == Channel!Next \/ UNCHANGED <<Chan, stuff>>

(* The k-th request in the channel stands k - 1 slots after out.            *)
LEMMA ContentsFacts ==
  ASSUME NEW queue \in [Slot -> Content], NEW o \in Slot, NEW n \in 0..QUEUE
  PROVE  /\ Contents(queue, o, n) \in Seq(Content)
         /\ Len(Contents(queue, o, n)) = n
         /\ \A k \in 1..n :
              Contents(queue, o, n)[k] = queue[(o + (k - 1)) % QUEUE]
<1> DEFINE c == Contents(queue, o, n)
<1>1. \A k \in 1..n : k - 1 \in 0..QUEUE /\ o + k - 1 = o + (k - 1)
  BY QueueAssumption DEF Slot
<1>2. \A k \in 1..n : (o + (k - 1)) % QUEUE \in Slot
  BY <1>1, RingAdd
<1>3. \A k \in 1..n : c[k] = queue[(o + (k - 1)) % QUEUE]
  BY <1>1 DEF Contents
<1>4. c \in [1..n -> Content]
  <2>1. \A k \in 1..n : c[k] \in Content
    BY <1>2, <1>3
  <2> QED BY <2>1 DEF Contents
<1> HIDE DEF c
<1>5. n \in Nat
  BY QueueAssumption
<1>6. c \in Seq(Content) /\ Len(c) = n
  BY <1>4, <1>5
<1> QED BY <1>3, <1>6 DEF c

LEMMA UnreadRange ==
  ASSUME IInv
  PROVE  /\ Unread \in 0..QUEUE
         /\ pcA = "write" => Unread \in 0..(QUEUE - 1)
         /\ pcB = "read" => Unread \in 1..QUEUE
BY QueueAssumption DEF IInv, TypeOK, SlotsBalance, Unread, One

(* Writing the slot that follows the unread ones appends to the channel.    *)
LEMMA AppendContents ==
  ASSUME NEW queue \in [Slot -> Content], NEW o \in Slot,
         NEW n \in 0..(QUEUE - 1), NEW x \in Content,
         NEW queue2, queue2 = [queue EXCEPT ![(o + n) % QUEUE] = x]
  PROVE  Contents(queue2, o, n + 1) = Append(Contents(queue, o, n), x)
<1> DEFINE c == Contents(queue, o, n)
           d == Contents(queue2, o, n + 1)
<1>1. n \in 0..QUEUE /\ n + 1 \in 0..QUEUE
  BY QueueAssumption
<1>2. (o + n) % QUEUE \in Slot
  BY <1>1, RingAdd
<1>3. queue2 \in [Slot -> Content]
  OBVIOUS
<1>4. /\ c \in Seq(Content) /\ Len(c) = n
      /\ \A k \in 1..n : c[k] = queue[(o + (k - 1)) % QUEUE]
  BY <1>1, ContentsFacts
<1>5. /\ d \in Seq(Content) /\ Len(d) = n + 1
      /\ \A k \in 1..(n + 1) : d[k] = queue2[(o + (k - 1)) % QUEUE]
  BY <1>1, <1>3, ContentsFacts
<1> HIDE DEF c, d
<1>6. \A k \in 1..n : /\ (o + (k - 1)) % QUEUE # (o + n) % QUEUE
                     /\ (o + (k - 1)) % QUEUE \in Slot
  <2>1. \A k \in 1..n : k - 1 \in 0..(QUEUE - 1) /\ k - 1 \in 0..QUEUE /\ k - 1 # n
    BY QueueAssumption
  <2> QED BY <2>1, RingAdd, RingDistinct
<1>7. \A k \in 1..n : d[k] = c[k]
  <2> SUFFICES ASSUME NEW k \in 1..n PROVE d[k] = c[k]
    OBVIOUS
  <2>1. k \in 1..(n + 1)
    OBVIOUS
  <2>2. d[k] = queue2[(o + (k - 1)) % QUEUE]
    BY <1>5, <2>1
  <2>3. queue2[(o + (k - 1)) % QUEUE] = queue[(o + (k - 1)) % QUEUE]
    BY <1>2, <1>6
  <2> QED BY <1>4, <2>2, <2>3
<1>8. d[n + 1] = x
  <2>1. n + 1 \in 1..(n + 1) /\ (n + 1) - 1 = n
    OBVIOUS
  <2>2. d[n + 1] = queue2[(o + n) % QUEUE]
    BY <1>5, <2>1
  <2> QED BY <1>2, <2>2
<1>9. d = Append(c, x)
  BY <1>4, <1>5, <1>7, <1>8
<1> QED BY <1>9 DEF c, d

(* Taking out the slot at out takes the head off the channel.               *)
LEMMA TailContents ==
  ASSUME NEW queue \in [Slot -> Content], NEW o \in Slot, NEW n \in 1..QUEUE
  PROVE  /\ Contents(queue, o, n) # <<>>
         /\ Head(Contents(queue, o, n)) = queue[o]
         /\ Contents(queue, (o + 1) % QUEUE, n - 1) = Tail(Contents(queue, o, n))
<1> DEFINE c == Contents(queue, o, n)
           o2 == (o + 1) % QUEUE
           d == Contents(queue, o2, n - 1)
<1>1. n \in 0..QUEUE /\ n - 1 \in 0..QUEUE /\ 1 \in 1..n
  BY QueueAssumption
<1>2. o2 \in Slot
  BY RingStep, QueueAssumption
<1>3. /\ c \in Seq(Content) /\ Len(c) = n
      /\ \A k \in 1..n : c[k] = queue[(o + (k - 1)) % QUEUE]
  BY <1>1, ContentsFacts
<1> HIDE DEF o2
<1>4. /\ d \in Seq(Content) /\ Len(d) = n - 1
      /\ \A k \in 1..(n - 1) : d[k] = queue[(o2 + (k - 1)) % QUEUE]
  BY <1>1, <1>2, ContentsFacts
<1> HIDE DEF c, d
<1>5. c[1] = queue[o]
  <2>1. 0 \in 0..QUEUE /\ 1 - 1 = 0 /\ o + 0 = o /\ o < QUEUE
    BY QueueAssumption DEF Slot
  <2>2. (o + 0) % QUEUE = IF o + 0 < QUEUE THEN o + 0 ELSE o + 0 - QUEUE
    BY <2>1, RingAdd
  <2>3. c[1] = queue[(o + 0) % QUEUE]
    BY <1>1, <1>3, <2>1
  <2> QED BY <2>1, <2>2, <2>3
<1>6. \A k \in 1..(n - 1) : d[k] = c[k + 1]
  <2> SUFFICES ASSUME NEW k \in 1..(n - 1) PROVE d[k] = c[k + 1]
    OBVIOUS
  <2> DEFINE b == k - 1
  <2>1. b \in 0..(QUEUE - 1) /\ b + 1 = (k + 1) - 1 /\ k + 1 \in 1..n
    BY QueueAssumption
  <2>2. d[k] = queue[(o2 + b) % QUEUE]
    BY <1>4
  <2>3. c[k + 1] = queue[(o + (b + 1)) % QUEUE]
    BY <1>3, <2>1
  <2> HIDE DEF b
  <2>4. (((o + 1) % QUEUE) + b) % QUEUE = (o + (b + 1)) % QUEUE
    BY <2>1, RingStep
  <2> QED BY <2>2, <2>3, <2>4 DEF o2
<1>7. c # <<>> /\ Head(c) = queue[o]
  BY <1>1, <1>3, <1>5
<1>8. d = Tail(c)
  BY <1>1, <1>3, <1>4, <1>6
<1> QED BY <1>7, <1>8 DEF c, d, o2

(* ClientWrite is a Send, Serve a Receive, and every other step a stutter.  *)
LEMMA NextMapsToChannel ==
  ASSUME IInv, [Next]_vars
  PROVE  ChannelStep
<1>1. /\ Aqueue \in [Slot -> Content] /\ out \in Slot
      /\ Chan = Contents(Aqueue, out, Unread)
      /\ Chan' = Contents(Aqueue', out', Unread')
  BY DEF IInv, TypeOK, Chan
<1>2. ASSUME NEW x \in Request, ClientWrite(x) PROVE ChannelStep
  <2>1. Unread \in 0..(QUEUE - 1) /\ Unread' = Unread + 1
    BY <1>2, UnreadRange DEF ClientWrite, server, IInv, TypeOK, Unread, One
  <2>2. /\ UNCHANGED <<out, stuff>>
        /\ Aqueue' = [Aqueue EXCEPT ![(out + Unread) % QUEUE] = x]
    BY <1>2 DEF ClientWrite, server, IInv, SlotsBalance
  <2>3. x \in Content
    BY DEF Content
  <2>4. Contents(Aqueue', out, Unread + 1) = Append(Contents(Aqueue, out, Unread), x)
    BY <1>1, <2>1, <2>2, <2>3, AppendContents
  <2>5. Chan' = Append(Chan, x)
    BY <1>1, <2>1, <2>2, <2>4
  <2>6. Len(Chan) < QUEUE
    <3>1. Unread \in 0..QUEUE /\ Unread < QUEUE
      BY <2>1, QueueAssumption
    <3>2. Len(Contents(Aqueue, out, Unread)) = Unread
      BY <1>1, <3>1, ContentsFacts
    <3> QED BY <1>1, <3>1, <3>2
  <2> QED BY <2>2, <2>3, <2>5, <2>6
          DEF ChannelStep, Channel!Next, Channel!Send, Chan, Contents
<1>3. CASE Serve
  <2>1. Unread \in 1..QUEUE /\ Unread' = Unread - 1
    BY <1>3, UnreadRange DEF Serve, client, IInv, TypeOK, Unread, One
  <2>2. out' = (out + 1) % QUEUE /\ stuff' = Aqueue[out] /\ Aqueue' = Aqueue
    BY <1>3 DEF Serve
  <2>3. /\ Contents(Aqueue, out, Unread) # <<>>
        /\ Head(Contents(Aqueue, out, Unread)) = Aqueue[out]
        /\ Contents(Aqueue, (out + 1) % QUEUE, Unread - 1) =
             Tail(Contents(Aqueue, out, Unread))
    BY <1>1, <2>1, TailContents
  <2>4. Chan # <<>> /\ stuff' = Head(Chan) /\ Chan' = Tail(Chan)
    BY <1>1, <2>1, <2>2, <2>3
  <2> QED BY <2>4 DEF ChannelStep, Channel!Next, Channel!Receive, Chan, Contents
<1>4. ASSUME UNCHANGED <<Aqueue, out, stuff>>, Unread' = Unread
      PROVE  ChannelStep
  BY <1>1, <1>4 DEF ChannelStep
<1>5. CASE ClientP \/ ClientV \/ Wait \/ Admit \/ ServerP \/ ServerV \/ WakeSpuriously
  <2>1. UNCHANGED <<Aqueue, out, stuff>>
    BY <1>5 DEF ClientP, ClientV, Wait, Admit, ServerP, ServerV, WakeSpuriously, server
  <2>2. Unread' = Unread
    BY <1>5 DEF ClientP, ClientV, Wait, Throttled, Admit, ServerP, ServerV,
                WakeSpuriously, client, server, Unread, One, IInv, TypeOK
  <2> QED BY <1>4, <2>1, <2>2
<1>6. ASSUME NEW t \in Thread, ThreadStep(t) PROVE ChannelStep
  <2>1. UNCHANGED <<Aqueue, out, stuff, CS, pcA>>
    BY <1>6 DEF ThreadStep, Lock, Test, Book, Unlock, Finish, client, server
  <2>2. pcB' = pcB \/ (pcB = "asleep" /\ pcB' = "woken")
    BY <1>6 DEF ThreadStep, Lock, Test, Book, Unlock, Finish, server
  <2>3. Unread' = Unread
    BY <2>1, <2>2 DEF Unread, One
  <2> QED BY <1>4, <2>1, <2>3
<1>7. CASE UNCHANGED vars
  BY <1>4, <1>7 DEF vars, client, server, Unread
<1> QED BY <1>2, <1>3, <1>5, <1>6, <1>7 DEF Next, ServerStep

(* The shared queue hands over every request once, unchanged and in order,  *)
(* whatever its size (safety part; the channel has no fairness).            *)
THEOREM ImplementsChannel == Spec => DeliversInOrder
<1>1. Init => Channel!Init
  <2> SUFFICES ASSUME Init PROVE Channel!Init
    OBVIOUS
  <2>1. Unread = 0 /\ stuff \in Content
    BY DEF Init, Unread, One, Content
  <2>2. [k \in 1..Unread |-> Aqueue[(out + k - 1) % QUEUE]] = <<>>
    BY <2>1
  <2> QED BY <2>1, <2>2 DEF Channel!Init
<1>2. IInv /\ [Next]_vars =>
        [Channel!Next]_<<[k \in 1..Unread |-> Aqueue[(out + k - 1) % QUEUE]], stuff>>
  BY NextMapsToChannel DEF ChannelStep, Chan, Contents
<1> QED BY <1>1, <1>2, Invariance, PTL DEF Spec, DeliversInOrder, Channel!Spec
=============================================================================
