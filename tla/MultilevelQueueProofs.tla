----------------------- MODULE MultilevelQueueProofs ------------------------
(* Proofs about the scheduler for every number of threads and every length  *)
(* of the slices and of the wait.                                           *)
EXTENDS MultilevelQueue, ListsProofs

IInv ==
  /\ TypeOK
  /\ RunQueues
  /\ CurrentRunning
  /\ Sleepers
  /\ StartUp

----------------------------------------------------------------------------
(* What schedule() finds: no thread runs, the lists hold the ready threads, *)
(* and there is a thread to return.                                         *)
Schedulable(high, low, st, cnt) ==
  /\ high \in Seq(Thread) /\ NoDuplicates(high)
  /\ low \in Seq(Thread) /\ NoDuplicates(low)
  /\ st \in [Thread -> Status]
  /\ cnt \in [Thread -> -WAITING_TIME..1]
  /\ \A t \in Thread : st[t] # "RUNNING"
  /\ Elements(high) \cup Elements(low) =
       {t \in Thread : st[t] = "READY" /\ t # idle_thread}
  /\ \A t \in Elements(high) : cnt[t] >= 0
  /\ \A t \in Elements(low) : cnt[t] < 0
  /\ idle_thread = NoThread => high # <<>> \/ low # <<>>
  /\ idle_thread \in {Idle, NoThread}

(* next_thread_to_run takes one ready thread off its list, or is left with  *)
(* the idle thread when there is none.                                      *)
LEMMA NextThreadFacts ==
  ASSUME NEW high, NEW low, NEW st, NEW cnt, Schedulable(high, low, st, cnt),
         NEW picked, picked = NextThreadToRun(high, low)
  PROVE  /\ picked.next \in Thread
         /\ picked.high \in Seq(Thread) /\ NoDuplicates(picked.high)
         /\ picked.low \in Seq(Thread) /\ NoDuplicates(picked.low)
         /\ Elements(picked.high) \subseteq Elements(high)
         /\ Elements(picked.low) \subseteq Elements(low)
         /\ Elements(picked.high) \cup Elements(picked.low) =
              (Elements(high) \cup Elements(low)) \ {picked.next}
         /\ \/ picked.next \in Elements(high)
            \/ picked.next \in Elements(low) /\ high = <<>> /\ picked.high = <<>>
            \/ picked.next = idle_thread /\ high = <<>> /\ low = <<>>
<1>1. CASE high # <<>>
  <2>1. picked.next = Head(high) /\ picked.high = Tail(high) /\ picked.low = low
    BY <1>1 DEF NextThreadToRun
  <2>2. /\ Head(high) \in Thread /\ Tail(high) \in Seq(Thread)
        /\ Elements(high) = Elements(Tail(high)) \cup {Head(high)}
        /\ NoDuplicates(Tail(high)) /\ Head(high) \notin Elements(Tail(high))
    BY <1>1, PopFront DEF Schedulable
  <2>3. Head(high) \notin Elements(low)
    <3>1. \A x \in Elements(high) \cup Elements(low) : cnt[x] \in Int
      BY SliceAssumption DEF Schedulable
    <3> QED BY <2>2, <3>1 DEF Schedulable
  <2>4. high \in Seq(Thread) /\ low \in Seq(Thread) /\ NoDuplicates(low)
    BY DEF Schedulable
  <2> QED BY <2>1, <2>2, <2>3, <2>4
<1>2. CASE high = <<>> /\ low # <<>>
  <2>1. picked.next = Head(low) /\ picked.high = high /\ picked.low = Tail(low)
    BY <1>2 DEF NextThreadToRun
  <2>2. /\ Head(low) \in Thread /\ Tail(low) \in Seq(Thread)
        /\ Elements(low) = Elements(Tail(low)) \cup {Head(low)}
        /\ NoDuplicates(Tail(low)) /\ Head(low) \notin Elements(Tail(low))
    BY <1>2, PopFront DEF Schedulable
  <2>3. Elements(high) = {}
    BY <1>2, ElementsAt DEF Schedulable
  <2>4. high \in Seq(Thread) /\ NoDuplicates(high)
    BY DEF Schedulable
  <2> QED BY <1>2, <2>1, <2>2, <2>3, <2>4
<1>3. CASE high = <<>> /\ low = <<>>
  <2>1. picked.next = idle_thread /\ picked.high = high /\ picked.low = low
    BY <1>3 DEF NextThreadToRun
  <2>2. Elements(high) = {} /\ Elements(low) = {}
    BY <1>3, ElementsAt DEF Schedulable
  <2>3. idle_thread = Idle
    BY <1>3 DEF Schedulable
  <2> QED BY <1>3, <2>1, <2>2, <2>3, ThreadAssumption DEF Schedulable
<1> QED BY <1>1, <1>2, <1>3

(* What schedule() and thread_schedule_tail leave.                          *)
LEMMA ScheduleFacts ==
  ASSUME NEW high, NEW low, NEW st, NEW cnt, Schedulable(high, low, st, cnt),
         Schedule(high, low, st, cnt), UNCHANGED idle_thread,
         current \in Thread
  PROVE  /\ current' \in Thread
         /\ ready_list' \in Seq(Thread)
         /\ ready_list_low' \in Seq(Thread)
         /\ status' \in [Thread -> Status]
         /\ count' \in [Thread -> -WAITING_TIME..1]
         /\ thread_ticks' = 0
         /\ RunQueues'
         /\ CurrentRunning'
         /\ current' = idle_thread \/ st[current'] = "READY"
         /\ \A t \in Thread \ {current'} :
              \/ status'[t] = st[t]
              \/ t = current /\ t # Main /\ st[t] = "DYING" /\ status'[t] = "FREE"
<1> DEFINE picked == NextThreadToRun(high, low)
<1>1. /\ current' = picked.next
      /\ ready_list' = picked.high
      /\ ready_list_low' = picked.low
      /\ count' = Chosen(picked.next, cnt)
      /\ status' = [Reaped(current, st) EXCEPT ![picked.next] = "RUNNING"]
      /\ thread_ticks' = 0
  BY DEF Schedule
<1>2. /\ picked.next \in Thread
      /\ picked.high \in Seq(Thread) /\ NoDuplicates(picked.high)
      /\ picked.low \in Seq(Thread) /\ NoDuplicates(picked.low)
      /\ Elements(picked.high) \subseteq Elements(high)
      /\ Elements(picked.low) \subseteq Elements(low)
      /\ Elements(picked.high) \cup Elements(picked.low) =
           (Elements(high) \cup Elements(low)) \ {picked.next}
      /\ \/ picked.next \in Elements(high)
         \/ picked.next \in Elements(low)
         \/ picked.next = idle_thread
  BY NextThreadFacts
<1> HIDE DEF picked
<1>3. Reaped(current, st) \in [Thread -> Status]
  BY DEF Reaped, Schedulable, Status
<1>4. status' \in [Thread -> Status]
  BY <1>1, <1>2, <1>3 DEF Status
<1>5. status'[current'] = "RUNNING"
  BY <1>1, <1>2, <1>3
<1>6. \A t \in Thread \ {current'} :
        \/ status'[t] = st[t]
        \/ t = current /\ t # Main /\ st[t] = "DYING" /\ status'[t] = "FREE"
  BY <1>1, <1>2, <1>3 DEF Reaped, Schedulable
<1>7. CurrentRunning'
  BY <1>1, <1>2, <1>5, <1>6 DEF CurrentRunning, Schedulable
<1>8. count' \in [Thread -> -WAITING_TIME..1]
  BY <1>1, SliceAssumption DEF Chosen, Schedulable
<1>9. \A t \in Thread : /\ cnt[t] >= 0 => count'[t] >= 0
                        /\ cnt[t] < 0 => count'[t] < 0
  BY <1>1, SliceAssumption DEF Chosen, Schedulable
<1>10. current' = idle_thread \/ st[current'] = "READY"
  BY <1>1, <1>2 DEF Schedulable
<1>11. RunQueues'
  <2>1. Queued' = {t \in Thread : status'[t] = "READY" /\ t # idle_thread}
    <3>1. Queued' = {t \in Thread : st[t] = "READY" /\ t # idle_thread} \ {current'}
      BY <1>1, <1>2 DEF Queued, Schedulable
    <3>2. \A t \in Thread \ {current'} : status'[t] = "READY" <=> st[t] = "READY"
      BY <1>6
    <3> QED BY <1>5, <3>1, <3>2
  <2>2. \A t \in Elements(ready_list') : count'[t] >= 0
    BY <1>1, <1>2, <1>9, ElementsAt DEF Schedulable
  <2>3. \A t \in Elements(ready_list_low') : count'[t] < 0
    BY <1>1, <1>2, <1>9, ElementsAt DEF Schedulable
  <2> QED BY <1>1, <1>2, <2>1, <2>2, <2>3 DEF RunQueues
<1> QED BY <1>1, <1>2, <1>4, <1>6, <1>7, <1>8, <1>10, <1>11

(* Any call of schedule() keeps the invariant: new is the state the caller  *)
(* gave the current thread, and a sleeping one is in some semaphore's list, *)
(* unless it is the idle thread.                                            *)
LEMMA ScheduleKeepsInvariant ==
  ASSUME IInv, NEW high, NEW low, NEW st, NEW cnt, NEW new,
         Schedulable(high, low, st, cnt), Schedule(high, low, st, cnt),
         st[current] = new, \A t \in Thread \ {current} : st[t] = status[t],
         new \in {"READY", "BLOCKED", "DYING"},
         waiters' = IF new = "BLOCKED" /\ current # idle_thread
                      THEN waiters \cup {current} ELSE waiters,
         new = "DYING" => pc[current] = "run",
         new = "BLOCKED" => pc[current] # "idle_enter",
         pc[current] # "start",
         UNCHANGED <<idle_thread, idle_started, pc, child>>
  PROVE  IInv'
<1>1. TypeOK /\ RunQueues /\ CurrentRunning /\ Sleepers /\ StartUp
  BY DEF IInv
<1>2. current \in Thread /\ status[current] = "RUNNING"
  BY <1>1 DEF CurrentRunning
<1>3. /\ current' \in Thread
      /\ ready_list' \in Seq(Thread)
      /\ ready_list_low' \in Seq(Thread)
      /\ status' \in [Thread -> Status]
      /\ count' \in [Thread -> -WAITING_TIME..1]
      /\ thread_ticks' = 0
      /\ RunQueues'
      /\ CurrentRunning'
      /\ current' = idle_thread \/ st[current'] = "READY"
      /\ \A t \in Thread \ {current'} :
           \/ status'[t] = st[t]
           \/ t = current /\ t # Main /\ st[t] = "DYING" /\ status'[t] = "FREE"
  <2>1. UNCHANGED idle_thread
    OBVIOUS
  <2> QED BY <1>2, <2>1, ScheduleFacts
<1>4. status'[current'] = "RUNNING"
  BY <1>3 DEF CurrentRunning
<1>5. \A t \in Thread \ {current, current'} : status'[t] = status[t]
  BY <1>1, <1>3 DEF TypeOK
<1>6. current # current' =>
        \/ status'[current] = new
        \/ current # Main /\ new = "DYING" /\ status'[current] = "FREE"
  BY <1>1, <1>2, <1>3 DEF TypeOK
<1>7. current' # current => current' = idle_thread \/ status[current'] = "READY"
  BY <1>1, <1>3 DEF TypeOK
<1>8. TypeOK'
  BY <1>1, <1>2, <1>3 DEF TypeOK
<1>9. current' = current => current = idle_thread \/ new = "READY"
  BY <1>1, <1>2, <1>3 DEF TypeOK
<1>10. Sleepers'
  <2>1. \A t \in waiters' : status'[t] = "BLOCKED" /\ t # idle_thread'
    <3> SUFFICES ASSUME NEW t \in waiters'
                 PROVE  status'[t] = "BLOCKED" /\ t # idle_thread
      OBVIOUS
    <3>1. CASE t \in waiters
      <4>1. status[t] = "BLOCKED" /\ t # idle_thread /\ t \in Thread
        BY <1>1, <3>1 DEF Sleepers, TypeOK
      <4> QED BY <1>2, <1>5, <1>7, <4>1
    <3>2. CASE t \notin waiters
      <4>1. t = current /\ new = "BLOCKED" /\ current # idle_thread
        BY <3>2
      <4> QED BY <1>6, <1>9, <4>1
    <3> QED BY <3>1, <3>2
  <2>2. \A t \in Thread : pc'[t] = "create" =>
          /\ child'[t] \in Thread \ (waiters' \cup {idle_thread', Main})
          /\ status'[child'[t]] = "BLOCKED"
    <3> SUFFICES ASSUME NEW t \in Thread, pc[t] = "create"
                 PROVE  /\ child[t] \in Thread \ (waiters' \cup {idle_thread, Main})
                        /\ status'[child[t]] = "BLOCKED"
      OBVIOUS
    <3>1. /\ child[t] \in Thread \ (waiters \cup {idle_thread, Main})
          /\ status[child[t]] = "BLOCKED"
      BY <1>1 DEF Sleepers
    <3> QED BY <1>2, <1>5, <1>7, <3>1
  <2>3. \A t \in Thread :
          (status'[t] = "BLOCKED" /\ t \notin waiters' /\ t # idle_thread') =>
            \E p \in Thread : pc'[p] = "create" /\ child'[p] = t
    <3> SUFFICES ASSUME NEW t \in Thread, status'[t] = "BLOCKED",
                        t \notin waiters', t # idle_thread
                 PROVE  \E p \in Thread : pc[p] = "create" /\ child[p] = t
      OBVIOUS
    <3>1. t # current'
      BY <1>4
    <3>2. t # current
      BY <1>6, <3>1
    <3>3. status[t] = "BLOCKED" /\ t \notin waiters
      BY <1>5, <3>1, <3>2
    <3> QED BY <1>1, <3>3 DEF Sleepers
  <2>4. \A p, q \in Thread :
          (pc'[p] = "create" /\ pc'[q] = "create" /\ child'[p] = child'[q]) => p = q
    BY <1>1 DEF Sleepers
  <2> QED BY <2>1, <2>2, <2>3, <2>4 DEF Sleepers
<1>11. StartUp'
  <2>1. pc[Main] # "start"
    BY <1>1 DEF StartUp
  <2>2. current = Idle => pc[Idle] # "run"
    BY <1>1, <1>2 DEF StartUp
  <2>3. status'[Main] # "FREE"
    BY <1>1, <1>3, <1>4, <1>5, <1>6, ThreadAssumption DEF StartUp
  <2>4. pc[Idle] \in IdleCode => status'[Idle] \notin {"FREE", "DYING"}
    BY <1>1, <1>4, <1>5, <1>6, <2>2, ThreadAssumption DEF StartUp
  <2>5. pc[Idle] = "idle_enter" => status'[Idle] # "BLOCKED"
    BY <1>1, <1>4, <1>5, <1>6, ThreadAssumption DEF StartUp
  <2>6. \A t \in Thread \ {Main, Idle} :
          pc[Main] \in {"start", "start_wait"} => status'[t] = "FREE"
    <3> SUFFICES ASSUME NEW t \in Thread \ {Main, Idle},
                        pc[Main] \in {"start", "start_wait"}
                 PROVE  status'[t] = "FREE"
      OBVIOUS
    <3>1. status[t] = "FREE" /\ t # idle_thread
      BY <1>1, ThreadAssumption DEF StartUp
    <3> QED BY <1>2, <1>5, <1>7, <3>1
  <2>7. idle_thread' = IF pc'[Idle] \in {"idle_up", "idle_loop"} THEN Idle ELSE NoThread
    BY <1>1 DEF StartUp
  <2> HIDE DEF IInv
  <2> QED BY <1>1, <2>1, <2>3, <2>4, <2>5, <2>6, <2>7 DEF StartUp
<1> QED BY <1>3, <1>8, <1>10, <1>11 DEF IInv

----------------------------------------------------------------------------
(* Lists and counts that hold the ready threads of the present statuses.    *)
Settled(high, low, cnt) ==
  /\ high \in Seq(Thread) /\ NoDuplicates(high)
  /\ low \in Seq(Thread) /\ NoDuplicates(low)
  /\ cnt \in [Thread -> -WAITING_TIME..1]
  /\ Elements(high) \cup Elements(low) =
       {t \in Thread : status[t] = "READY" /\ t # idle_thread}
  /\ \A t \in Elements(high) : cnt[t] >= 0
  /\ \A t \in Elements(low) : cnt[t] < 0

(* The running thread is in neither list.                                   *)
LEMMA CurrentNotQueued ==
  ASSUME IInv
  PROVE  /\ current \in Thread
         /\ status[current] = "RUNNING"
         /\ \A t \in Thread \ {current} : status[t] # "RUNNING"
         /\ Settled(ready_list, ready_list_low, count)
         /\ current \notin Elements(ready_list) \cup Elements(ready_list_low)
<1>1. TypeOK /\ RunQueues /\ CurrentRunning
  BY DEF IInv
<1>2. Settled(ready_list, ready_list_low, count)
  BY <1>1 DEF TypeOK, RunQueues, Settled, Queued
<1>3. /\ current \in Thread /\ status[current] = "RUNNING"
      /\ \A t \in Thread \ {current} : status[t] # "RUNNING"
  BY <1>1 DEF CurrentRunning
<1> QED BY <1>2, <1>3 DEF Settled

(* When the running thread leaves the CPU without being queued, schedule()  *)
(* finds what it needs.                                                     *)
LEMMA LeaveSchedulable ==
  ASSUME IInv, pc[current] \notin {"start", "idle_enter"},
         NEW new \in {"BLOCKED", "DYING"}
  PROVE  Schedulable(ready_list, ready_list_low, [status EXCEPT ![current] = new], count)
<1>1. TypeOK /\ RunQueues /\ CurrentRunning /\ StartUp
  BY DEF IInv
<1>2. /\ current \in Thread
      /\ status[current] = "RUNNING"
      /\ \A t \in Thread \ {current} : status[t] # "RUNNING"
      /\ Settled(ready_list, ready_list_low, count)
  BY CurrentNotQueued
<1> DEFINE st == [status EXCEPT ![current] = new]
<1>3. /\ st \in [Thread -> Status]
      /\ \A t \in Thread : st[t] # "RUNNING"
      /\ \A t \in Thread : st[t] = "READY" <=> status[t] = "READY"
  BY <1>1, <1>2 DEF TypeOK, Status
<1>4. idle_thread = NoThread => ready_list # <<>> \/ ready_list_low # <<>>
  <2> SUFFICES ASSUME idle_thread = NoThread
               PROVE  Queued # {}
    BY <1>1, ElementsAt DEF Queued, TypeOK
  <2>1. pc[Idle] \in {"run", "idle_enter"}
    BY <1>1, ThreadAssumption DEF StartUp, IdleCode, TypeOK, Location
  <2>2. pc[Idle] # "run"
    BY <1>1, <1>2 DEF StartUp
  <2>3. status[Idle] = "READY"
    BY <1>1, <1>2, <2>1, <2>2, ThreadAssumption DEF StartUp, TypeOK, Status, IdleCode
  <2> QED BY <1>1, <2>3, ThreadAssumption DEF RunQueues
<1> HIDE DEF st
<1>5. Schedulable(ready_list, ready_list_low, st, count)
  BY <1>1, <1>2, <1>3, <1>4 DEF Settled, Schedulable, TypeOK
<1> QED BY <1>5 DEF st

(* thread_yield queues the running thread where its count says.             *)
LEMMA YieldSchedulable ==
  ASSUME IInv, NEW high, NEW low, NEW cnt, Settled(high, low, cnt)
  PROVE  LET listed == current # idle_thread
         IN  Schedulable(IF listed THEN PushHigh(current, cnt, high) ELSE high,
                         IF listed THEN PushLow(current, cnt, low) ELSE low,
                         [status EXCEPT ![current] = "READY"], cnt)
<1>1. TypeOK /\ RunQueues /\ CurrentRunning /\ StartUp
  BY DEF IInv
<1>2. /\ current \in Thread
      /\ status[current] = "RUNNING"
      /\ \A t \in Thread \ {current} : status[t] # "RUNNING"
  BY CurrentNotQueued
<1> DEFINE st == [status EXCEPT ![current] = "READY"]
<1>3. /\ st \in [Thread -> Status]
      /\ \A t \in Thread : st[t] # "RUNNING"
      /\ \A t \in Thread : st[t] = "READY" <=> status[t] = "READY" \/ t = current
  BY <1>1, <1>2 DEF TypeOK, Status
<1>4. current \notin Elements(high) \cup Elements(low)
  BY <1>2 DEF Settled
<1>5. cnt[current] \in Int
  BY <1>2, SliceAssumption DEF Settled
<1> HIDE DEF st
<1>6. CASE current = idle_thread
  <2>1. Schedulable(high, low, st, cnt)
    BY <1>1, <1>2, <1>3, <1>6, ThreadAssumption DEF Settled, Schedulable, TypeOK
  <2> QED BY <1>6, <2>1 DEF st
<1>7. CASE current # idle_thread /\ cnt[current] < 0
  <2> DEFINE out == Append(low, current)
  <2>1. /\ out \in Seq(Thread) /\ NoDuplicates(out)
        /\ Elements(out) = Elements(low) \cup {current}
    BY <1>2, <1>4, PushBack DEF Settled
  <2>2. out # <<>>
    BY <1>2 DEF Settled
  <2> HIDE DEF out
  <2>3. Schedulable(high, out, st, cnt)
    BY <1>1, <1>2, <1>3, <1>7, <2>1, <2>2 DEF Settled, Schedulable, TypeOK
  <2> QED BY <1>7, <2>3 DEF st, out, PushHigh, PushLow
<1>8. CASE current # idle_thread /\ ~ (cnt[current] < 0)
  <2> DEFINE out == Append(high, current)
  <2>1. /\ out \in Seq(Thread) /\ NoDuplicates(out)
        /\ Elements(out) = Elements(high) \cup {current}
    BY <1>2, <1>4, PushBack DEF Settled
  <2>2. out # <<>>
    BY <1>2 DEF Settled
  <2> HIDE DEF out
  <2>3. Schedulable(out, low, st, cnt)
    BY <1>1, <1>2, <1>3, <1>5, <1>8, <2>1, <2>2 DEF Settled, Schedulable, TypeOK
  <2> QED BY <1>8, <2>3 DEF st, out, PushHigh, PushLow
<1> QED BY <1>6, <1>7, <1>8

(* A thread that yields, with settled lists, keeps the invariant.           *)
LEMMA YieldKeepsInvariant ==
  ASSUME IInv, NEW high, NEW low, NEW cnt, Settled(high, low, cnt),
         YieldFrom(high, low, cnt), pc[current] # "start",
         UNCHANGED <<idle_thread, waiters, idle_started, pc, child>>
  PROVE  IInv'
<1> DEFINE listed == current # idle_thread
           h == IF listed THEN PushHigh(current, cnt, high) ELSE high
           l == IF listed THEN PushLow(current, cnt, low) ELSE low
           st == [status EXCEPT ![current] = "READY"]
<1>1. Schedulable(h, l, st, cnt)
  BY YieldSchedulable
<1>2. Schedule(h, l, st, cnt)
  BY DEF YieldFrom
<1>3. st[current] = "READY" /\ \A t \in Thread \ {current} : st[t] = status[t]
  BY CurrentNotQueued DEF IInv, TypeOK
<1> HIDE DEF h, l, st
<1> QED BY <1>1, <1>2, <1>3, ScheduleKeepsInvariant

----------------------------------------------------------------------------
(* Aging moves threads from one list to the other and loses none.           *)
LEMMA AgingSettled ==
  ASSUME IInv
  PROVE  Settled(AgedHigh, AgedLow, AgedCount)
<1> DEFINE high == ready_list
           low == ready_list_low
<1>1. TypeOK /\ RunQueues
  BY DEF IInv
<1>2. /\ high \in Seq(Thread) /\ NoDuplicates(high)
      /\ low \in Seq(Thread) /\ NoDuplicates(low)
      /\ Elements(high) \subseteq Thread /\ Elements(low) \subseteq Thread
  BY <1>1, ElementsAt DEF TypeOK, RunQueues
<1>3. \A t \in Thread : count[t] \in Int /\ count[t] >= -WAITING_TIME /\ count[t] <= 1
  BY <1>1, SliceAssumption DEF TypeOK
<1>4. PromotedSet \subseteq Elements(low)
  BY DEF PromotedSet
<1>5. Elements(high) \cap Elements(low) = {}
  BY <1>1, <1>2, <1>3 DEF RunQueues
<1>6. /\ Filter(low, PromotedSet) \in Seq(Thread)
      /\ Elements(Filter(low, PromotedSet)) = PromotedSet
      /\ NoDuplicates(Filter(low, PromotedSet))
  <2>1. /\ Filter(low, PromotedSet) \in Seq(Thread)
        /\ Elements(Filter(low, PromotedSet)) = Elements(low) \cap PromotedSet
        /\ NoDuplicates(Filter(low, PromotedSet))
    BY <1>2, FilterKeeps
  <2> QED BY <1>4, <2>1
<1>7. /\ AgedHigh \in Seq(Thread) /\ NoDuplicates(AgedHigh)
      /\ Elements(AgedHigh) = Elements(high) \cup PromotedSet
  <2>1. Elements(high) \cap PromotedSet = {}
    BY <1>4, <1>5
  <2> QED BY <1>2, <1>6, <2>1, Concat DEF AgedHigh
<1>8. /\ AgedLow \in Seq(Thread) /\ NoDuplicates(AgedLow)
      /\ Elements(AgedLow) = Elements(low) \ PromotedSet
  <2>1. /\ AgedLow \in Seq(Thread) /\ NoDuplicates(AgedLow)
        /\ Elements(AgedLow) = Elements(low) \cap (Thread \ PromotedSet)
    BY <1>2, FilterKeeps DEF AgedLow
  <2> QED BY <1>2, <2>1
<1>9. AgedCount \in [Thread -> -WAITING_TIME..1]
  <2> SUFFICES ASSUME NEW t \in Thread
               PROVE  AgedCount[t] \in -WAITING_TIME..1
    BY DEF AgedCount
  <2>1. CASE t \in PromotedSet
    BY <2>1, SliceAssumption DEF AgedCount
  <2>2. CASE t \notin PromotedSet /\ Aging /\ t \in Elements(low)
    <3>1. AgedCount[t] = count[t] - 1
      BY <2>2 DEF AgedCount
    <3>2. ~ (count[t] - 1 < -WAITING_TIME)
      BY <2>2 DEF PromotedSet
    <3> QED BY <1>3, <3>1, <3>2, SliceAssumption
  <2>3. CASE t \notin PromotedSet /\ ~ (Aging /\ t \in Elements(low))
    <3>1. AgedCount[t] = count[t]
      BY <2>3 DEF AgedCount
    <3> QED BY <1>1, <3>1 DEF TypeOK
  <2> QED BY <2>1, <2>2, <2>3
<1>10. \A t \in Elements(AgedHigh) : AgedCount[t] >= 0
  <2> SUFFICES ASSUME NEW t \in Elements(high) \cup PromotedSet
               PROVE  AgedCount[t] >= 0
    BY <1>7
  <2>1. CASE t \in PromotedSet
    BY <1>2, <1>4, <2>1 DEF AgedCount
  <2>2. CASE t \in Elements(high)
    <3>1. AgedCount[t] = count[t]
      BY <1>2, <1>4, <1>5, <2>2 DEF AgedCount
    <3> QED BY <1>1, <2>2, <3>1 DEF RunQueues
  <2> QED BY <2>1, <2>2
<1>11. \A t \in Elements(AgedLow) : AgedCount[t] < 0
  <2> SUFFICES ASSUME NEW t \in Elements(low) \ PromotedSet
               PROVE  AgedCount[t] < 0
    BY <1>8
  <2>1. count[t] < 0 /\ count[t] \in Int /\ t \in Thread
    BY <1>1, <1>2, <1>3 DEF RunQueues
  <2>2. AgedCount[t] = count[t] \/ AgedCount[t] = count[t] - 1
    BY <2>1 DEF AgedCount
  <2> QED BY <2>1, <2>2
<1>12. Elements(AgedHigh) \cup Elements(AgedLow) = Queued
  BY <1>4, <1>7, <1>8 DEF Queued
<1> QED BY <1>1, <1>7, <1>8, <1>9, <1>10, <1>11, <1>12 DEF Settled, RunQueues

LEMMA TickStep == ASSUME IInv, Tick PROVE IInv'
<1>1. Settled(AgedHigh, AgedLow, AgedCount)
  BY AgingSettled
<1>2. /\ current \in Thread /\ status[current] = "RUNNING"
      /\ pc[current] # "start"
      /\ UNCHANGED <<idle_thread, waiters, idle_started, pc, child>>
  BY CurrentNotQueued DEF Tick, InterruptsOn
<1>3. CASE SliceOver
  <2> DEFINE cnt == [AgedCount EXCEPT ![current] = NextLevel(@)]
  <2>1. YieldFrom(AgedHigh, AgedLow, cnt)
    BY <1>3 DEF Tick
  <2>2. /\ cnt \in [Thread -> -WAITING_TIME..1]
        /\ \A t \in Thread \ {current} : cnt[t] = AgedCount[t]
    <3>1. AgedCount[current] \in -WAITING_TIME..1
      BY <1>1, <1>2 DEF Settled
    <3>2. NextLevel(AgedCount[current]) \in -WAITING_TIME..1
      BY <3>1, SliceAssumption DEF NextLevel
    <3> QED BY <1>1, <1>2, <3>2 DEF Settled
  <2>3. current \notin Elements(AgedHigh) \cup Elements(AgedLow)
    BY <1>1, <1>2 DEF Settled
  <2> HIDE DEF cnt
  <2>4. Settled(AgedHigh, AgedLow, cnt)
    <3>1. Elements(AgedHigh) \cup Elements(AgedLow) \subseteq Thread \ {current}
      BY <1>1, <2>3 DEF Settled
    <3> QED BY <1>1, <2>2, <3>1 DEF Settled
  <2> QED BY <1>2, <2>1, <2>4, YieldKeepsInvariant
<1>4. CASE ~SliceOver
  <2>1. /\ thread_ticks' = thread_ticks + 1
        /\ ready_list' = AgedHigh
        /\ ready_list_low' = AgedLow
        /\ count' = AgedCount
        /\ UNCHANGED <<status, current>>
    BY <1>4 DEF Tick
  <2>2. TypeOK'
    BY <1>1, <1>2, <2>1 DEF IInv, TypeOK, Settled
  <2>3. RunQueues'
    BY <1>1, <1>2, <2>1 DEF RunQueues, Queued, Settled
  <2>4. CurrentRunning'
    BY <2>1 DEF IInv, CurrentRunning
  <2>5. Sleepers'
    BY <1>2, <2>1 DEF IInv, Sleepers
  <2>6. StartUp'
    BY <1>2, <2>1 DEF IInv, StartUp
  <2> QED BY <2>2, <2>3, <2>4, <2>5, <2>6 DEF IInv
<1> QED BY <1>3, <1>4

(* MakeReady(t) of a thread that sleeps keeps the lists in step with the    *)
(* statuses.                                                                *)
LEMMA MakeReadyFacts ==
  ASSUME IInv, NEW t \in Thread, status[t] = "BLOCKED", t # idle_thread,
         MakeReady(t), UNCHANGED <<count, current, idle_thread>>
  PROVE  /\ RunQueues'
         /\ CurrentRunning'
         /\ ready_list' \in Seq(Thread)
         /\ ready_list_low' \in Seq(Thread)
         /\ status' \in [Thread -> Status]
         /\ status'[t] = "READY"
         /\ \A u \in Thread \ {t} : status'[u] = status[u]
<1>1. TypeOK /\ RunQueues /\ CurrentRunning
  BY DEF IInv
<1>2. /\ status' \in [Thread -> Status]
      /\ status'[t] = "READY"
      /\ \A u \in Thread \ {t} : status'[u] = status[u]
  BY <1>1 DEF MakeReady, TypeOK, Status
<1>3. CurrentRunning'
  BY <1>1, <1>2 DEF CurrentRunning
<1>4. count[t] \in Int
  BY <1>1, SliceAssumption DEF TypeOK
<1>5. t \notin Elements(ready_list) \cup Elements(ready_list_low)
  BY <1>1 DEF RunQueues, Queued
<1>6. CASE count[t] < 0
  <2>1. ready_list_low' = Append(ready_list_low, t) /\ ready_list' = ready_list
    BY <1>6 DEF MakeReady, PushHigh, PushLow
  <2>2. /\ ready_list_low' \in Seq(Thread) /\ NoDuplicates(ready_list_low')
        /\ Elements(ready_list_low') = Elements(ready_list_low) \cup {t}
    BY <1>1, <1>5, <2>1, PushBack DEF TypeOK, RunQueues
  <2>3. Queued' = Queued \cup {t}
    BY <2>1, <2>2 DEF Queued
  <2>4. RunQueues'
    BY <1>1, <1>2, <1>6, <2>1, <2>2, <2>3 DEF RunQueues
  <2> QED BY <1>1, <1>2, <1>3, <2>1, <2>2, <2>4 DEF TypeOK
<1>7. CASE ~ (count[t] < 0)
  <2>1. ready_list' = Append(ready_list, t) /\ ready_list_low' = ready_list_low
    BY <1>7 DEF MakeReady, PushHigh, PushLow
  <2>2. /\ ready_list' \in Seq(Thread) /\ NoDuplicates(ready_list')
        /\ Elements(ready_list') = Elements(ready_list) \cup {t}
    BY <1>1, <1>5, <2>1, PushBack DEF TypeOK, RunQueues
  <2>3. Queued' = Queued \cup {t}
    BY <2>1, <2>2 DEF Queued
  <2>4. RunQueues'
    BY <1>1, <1>2, <1>4, <1>7, <2>1, <2>2, <2>3 DEF RunQueues
  <2> QED BY <1>1, <1>2, <1>3, <2>1, <2>2, <2>4 DEF TypeOK
<1> QED BY <1>6, <1>7

(* thread_block() by any thread but one that has still to set idle_thread.  *)
LEMMA BlockCurrentStep ==
  ASSUME IInv, BlockCurrent, pc[current] \notin {"start", "idle_enter"},
         waiters' = IF current # idle_thread THEN waiters \cup {current} ELSE waiters,
         UNCHANGED <<idle_thread, idle_started, pc, child>>
  PROVE  IInv'
<1> DEFINE st == [status EXCEPT ![current] = "BLOCKED"]
<1>1. Schedulable(ready_list, ready_list_low, st, count)
  BY LeaveSchedulable
<1>2. Schedule(ready_list, ready_list_low, st, count)
  BY DEF BlockCurrent
<1>3. st[current] = "BLOCKED" /\ \A t \in Thread \ {current} : st[t] = status[t]
  BY CurrentNotQueued DEF IInv, TypeOK
<1> HIDE DEF st
<1> QED BY <1>1, <1>2, <1>3, ScheduleKeepsInvariant

(* Which thread stands where in thread_start and idle.                      *)
LEMMA BootThreads ==
  ASSUME IInv
  PROVE  /\ pc[current] \in {"start", "start_wait"} => current = Main
         /\ pc[current] \in IdleCode => current = Idle
         /\ pc[current] \in {"run", "create", "report"} =>
              current # Idle /\ current # idle_thread /\ pc[Main] # "start"
         /\ Main # idle_thread
<1>1. TypeOK /\ StartUp
  BY DEF IInv
<1>2. current \in Thread /\ status[current] = "RUNNING"
  BY CurrentNotQueued
<1>3. current = Idle => pc[current] \in IdleCode
  BY <1>1, <1>2 DEF StartUp
<1>4. pc[Main] = "start" => current = Main
  BY <1>1 DEF StartUp
<1>5. idle_thread \in {Idle, NoThread}
  BY <1>1 DEF TypeOK
<1>6. pc[current] \in {"start", "start_wait"} => current = Main
  BY <1>1, <1>2 DEF StartUp
<1>7. pc[current] \in IdleCode => current = Idle
  BY <1>1, <1>2 DEF StartUp
<1> QED BY <1>2, <1>3, <1>4, <1>5, <1>6, <1>7, ThreadAssumption DEF IdleCode

(* A step that neither starts nor ends a creation, and keeps the new        *)
(* threads asleep and out of the semaphores.                                *)
LEMMA SleepersKept ==
  ASSUME Sleepers, UNCHANGED child,
         \A p \in Thread : pc'[p] = "create" <=> pc[p] = "create",
         \A t \in waiters' : status'[t] = "BLOCKED" /\ t # idle_thread',
         \A t \in Thread :
           (status'[t] = "BLOCKED" /\ t \notin waiters' /\ t # idle_thread') =>
             (status[t] = "BLOCKED" /\ t \notin waiters /\ t # idle_thread),
         \A t \in Thread \ {Main} :
           (status[t] = "BLOCKED" /\ t \notin waiters /\ t # idle_thread) =>
             (status'[t] = "BLOCKED" /\ t \notin waiters' /\ t # idle_thread')
  PROVE  Sleepers'
<1>1. \A t \in Thread : pc'[t] = "create" =>
        /\ child'[t] \in Thread \ (waiters' \cup {idle_thread', Main})
        /\ status'[child'[t]] = "BLOCKED"
  <2> SUFFICES ASSUME NEW t \in Thread, pc[t] = "create"
               PROVE  /\ child[t] \in Thread \ (waiters' \cup {idle_thread', Main})
                      /\ status'[child[t]] = "BLOCKED"
    OBVIOUS
  <2>1. /\ child[t] \in Thread \ (waiters \cup {idle_thread, Main})
        /\ status[child[t]] = "BLOCKED"
    BY DEF Sleepers
  <2> QED BY <2>1
<1>2. \A t \in Thread :
        (status'[t] = "BLOCKED" /\ t \notin waiters' /\ t # idle_thread') =>
          \E p \in Thread : pc'[p] = "create" /\ child'[p] = t
  BY DEF Sleepers
<1>3. \A p, q \in Thread :
        (pc'[p] = "create" /\ pc'[q] = "create" /\ child'[p] = child'[q]) => p = q
  BY DEF Sleepers
<1> QED BY <1>1, <1>2, <1>3 DEF Sleepers

----------------------------------------------------------------------------
(* One lemma per action.                                                    *)
LEMMA StartIdleStep == ASSUME IInv, StartIdle PROVE IInv'
<1>1. TypeOK /\ RunQueues /\ CurrentRunning /\ Sleepers /\ StartUp
  BY DEF IInv
<1>2. /\ current = Main /\ pc[Main] = "start" /\ status[Main] = "RUNNING"
      /\ status[Idle] = "FREE" /\ idle_thread = NoThread
  BY <1>1, BootThreads, CurrentNotQueued, ThreadAssumption DEF StartIdle, StartUp
<1>3. Idle \notin Elements(ready_list) \cup Elements(ready_list_low)
  BY <1>1, <1>2 DEF RunQueues, Queued
<1>4. /\ ready_list' = Append(ready_list, Idle)
      /\ status' = [status EXCEPT ![Idle] = "READY"]
      /\ count' = [count EXCEPT ![Idle] = 0]
      /\ pc' = [pc EXCEPT ![Main] = "start_wait", ![Idle] = "idle_enter"]
      /\ UNCHANGED <<ready_list_low, current, idle_thread, thread_ticks, waiters,
                     idle_started, child>>
  BY <1>2 DEF StartIdle
<1>5. /\ ready_list' \in Seq(Thread) /\ NoDuplicates(ready_list')
      /\ Elements(ready_list') = Elements(ready_list) \cup {Idle}
  BY <1>1, <1>3, <1>4, PushBack, ThreadAssumption DEF TypeOK, RunQueues
<1>6. TypeOK'
  <2>1. pc' \in [Thread -> Location]
    BY <1>1, <1>4 DEF TypeOK, Location
  <2>2. status' \in [Thread -> Status]
    BY <1>1, <1>4 DEF TypeOK, Status
  <2>3. 0 \in -WAITING_TIME..1
    BY SliceAssumption
  <2>4. count' \in [Thread -> -WAITING_TIME..1]
    BY <1>1, <1>4, <2>3 DEF TypeOK
  <2> QED BY <1>1, <1>4, <1>5, <2>1, <2>2, <2>4 DEF TypeOK
<1>7. /\ status'[Idle] = "READY"
      /\ \A t \in Thread \ {Idle} : status'[t] = status[t] /\ count'[t] = count[t]
      /\ count'[Idle] = 0
      /\ pc'[Main] = "start_wait" /\ pc'[Idle] = "idle_enter"
      /\ \A t \in Thread \ {Main, Idle} : pc'[t] = pc[t]
  BY <1>1, <1>4, ThreadAssumption DEF TypeOK
<1>8. RunQueues'
  <2>1. Queued' = Queued \cup {Idle}
    BY <1>4, <1>5 DEF Queued
  <2>2. Queued' = {t \in Thread : status'[t] = "READY" /\ t # idle_thread'}
    BY <1>1, <1>2, <1>4, <1>7, <2>1, ThreadAssumption DEF RunQueues
  <2>3. Elements(ready_list) \cup Elements(ready_list_low) \subseteq Thread \ {Idle}
    BY <1>1, <1>3, ElementsAt DEF TypeOK
  <2> QED BY <1>1, <1>4, <1>5, <1>7, <2>2, <2>3 DEF RunQueues
<1>9. CurrentRunning'
  BY <1>1, <1>2, <1>4, <1>7 DEF CurrentRunning
<1>10. Sleepers'
  <2>1. \A p \in Thread : pc'[p] = "create" <=> pc[p] = "create"
    BY <1>1, <1>2, <1>7 DEF StartUp
  <2>2. Idle \notin waiters /\ \A t \in waiters : t \in Thread /\ status[t] = "BLOCKED"
    BY <1>1, <1>2 DEF Sleepers, TypeOK
  <2>3. \A t \in waiters' : status'[t] = "BLOCKED" /\ t # idle_thread'
    BY <1>1, <1>4, <1>7, <2>2 DEF Sleepers
  <2>4. \A t \in Thread :
          (status'[t] = "BLOCKED" /\ t \notin waiters' /\ t # idle_thread') <=>
            (status[t] = "BLOCKED" /\ t \notin waiters /\ t # idle_thread)
    BY <1>2, <1>4, <1>7
  <2>5. child' = child
    BY <1>4
  <2> QED BY <1>1, <2>1, <2>3, <2>4, <2>5, SleepersKept
<1>11. StartUp'
  BY <1>1, <1>2, <1>4, <1>7, ThreadAssumption DEF StartUp, IdleCode
<1> QED BY <1>6, <1>8, <1>9, <1>10, <1>11 DEF IInv

LEMMA StartWaitStep == ASSUME IInv, StartWait PROVE IInv'
<1>1. TypeOK /\ RunQueues /\ CurrentRunning /\ Sleepers /\ StartUp
  BY DEF IInv
<1>2. pc[current] = "start_wait" /\ current = Main /\ Main # idle_thread
  BY BootThreads DEF StartWait, Moves
<1>3. CASE idle_started > 0
  <2>1. /\ pc' = [pc EXCEPT ![Main] = "run"]
        /\ idle_started' = idle_started - 1
        /\ UNCHANGED <<status, count, ready_list, ready_list_low, current,
                       idle_thread, thread_ticks, waiters, child>>
    BY <1>1, <1>2, <1>3 DEF StartWait, Moves, TypeOK
  <2>2. pc'[Main] = "run" /\ \A t \in Thread \ {Main} : pc'[t] = pc[t]
    BY <1>1, <2>1, ThreadAssumption DEF TypeOK
  <2>3. TypeOK'
    <3>1. pc' \in [Thread -> Location]
      BY <1>1, <2>1 DEF TypeOK, Location
    <3>2. idle_started' \in 0..1
      BY <1>1, <1>3, <2>1 DEF TypeOK
    <3> QED BY <1>1, <2>1, <3>1, <3>2 DEF TypeOK
  <2>4. RunQueues' /\ CurrentRunning'
    BY <1>1, <2>1 DEF RunQueues, Queued, CurrentRunning
  <2>5. Sleepers'
    BY <1>1, <1>2, <2>1, <2>2 DEF Sleepers
  <2>6. StartUp'
    BY <1>1, <1>2, <1>3, <2>1, <2>2, ThreadAssumption DEF StartUp, IdleCode, TypeOK
  <2> QED BY <2>3, <2>4, <2>5, <2>6 DEF IInv
<1>4. CASE ~ (idle_started > 0)
  <2>1. /\ BlockCurrent /\ waiters' = waiters \cup {current}
        /\ UNCHANGED <<idle_thread, idle_started, pc, child>>
    BY <1>4 DEF StartWait
  <2> QED BY <1>2, <2>1, BlockCurrentStep
<1> QED BY <1>3, <1>4

LEMMA IdleEnterStep == ASSUME IInv, IdleEnter PROVE IInv'
<1>1. TypeOK /\ RunQueues /\ CurrentRunning /\ Sleepers /\ StartUp
  BY DEF IInv
<1>2. /\ pc[current] = "idle_enter" /\ current = Idle /\ status[Idle] = "RUNNING"
      /\ idle_thread = NoThread
  BY <1>1, BootThreads, CurrentNotQueued DEF IdleEnter, Moves, IdleCode, StartUp
<1>3. /\ pc' = [pc EXCEPT ![Idle] = "idle_up"] /\ idle_thread' = Idle
      /\ UNCHANGED <<status, count, ready_list, ready_list_low, current,
                     thread_ticks, waiters, idle_started, child>>
  BY <1>2 DEF IdleEnter, Moves
<1>4. pc'[Idle] = "idle_up" /\ \A t \in Thread \ {Idle} : pc'[t] = pc[t]
  BY <1>1, <1>3, ThreadAssumption DEF TypeOK
<1>5. TypeOK'
  <2>1. pc' \in [Thread -> Location]
    BY <1>1, <1>3 DEF TypeOK, Location
  <2> QED BY <1>1, <1>3, <2>1 DEF TypeOK
<1>6. RunQueues' /\ CurrentRunning'
  BY <1>1, <1>2, <1>3, ThreadAssumption DEF RunQueues, Queued, CurrentRunning
<1>7. Sleepers'
  <2>1. \A p \in Thread : pc'[p] = "create" <=> pc[p] = "create"
    BY <1>2, <1>4
  <2>2. \A t \in waiters : t \in Thread /\ status[t] = "BLOCKED" /\ t # idle_thread'
    BY <1>1, <1>2, <1>3 DEF Sleepers, TypeOK
  <2> QED BY <1>1, <1>2, <1>3, <2>1, <2>2, ThreadAssumption, SleepersKept
<1>8. StartUp'
  BY <1>1, <1>2, <1>3, <1>4, ThreadAssumption DEF StartUp, IdleCode
<1> QED BY <1>5, <1>6, <1>7, <1>8 DEF IInv

LEMMA IdleUpStep == ASSUME IInv, IdleUp PROVE IInv'
<1>1. TypeOK /\ RunQueues /\ CurrentRunning /\ Sleepers /\ StartUp
  BY DEF IInv
<1>2. /\ pc[current] = "idle_up" /\ current = Idle
      /\ idle_thread = Idle /\ idle_started = 0
  BY <1>1, BootThreads DEF IdleUp, Moves, IdleCode, StartUp, TypeOK
<1>3. /\ pc' = [pc EXCEPT ![Idle] = "idle_loop"]
      /\ idle_started' = 1
      /\ waiters' = waiters \ {Main}
      /\ UNCHANGED <<count, current, idle_thread, thread_ticks, child>>
  BY <1>2 DEF IdleUp, Moves
<1>4. pc'[Idle] = "idle_loop" /\ \A t \in Thread \ {Idle} : pc'[t] = pc[t]
  BY <1>1, <1>3, ThreadAssumption DEF TypeOK
<1>5. /\ RunQueues' /\ CurrentRunning'
      /\ ready_list' \in Seq(Thread)
      /\ ready_list_low' \in Seq(Thread)
      /\ status' \in [Thread -> Status]
      /\ Main \in waiters => status'[Main] = "READY"
      /\ Main \notin waiters => status'[Main] = status[Main]
      /\ \A u \in Thread \ {Main} : status'[u] = status[u]
  <2>1. CASE Main \in waiters
    <3>1. status[Main] = "BLOCKED" /\ Main # idle_thread /\ MakeReady(Main)
      BY <1>1, <2>1 DEF Sleepers, IdleUp
    <3> QED BY <1>3, <2>1, <3>1, MakeReadyFacts, ThreadAssumption
  <2>2. CASE Main \notin waiters
    BY <1>1, <1>3, <2>2 DEF IdleUp, RunQueues, Queued, CurrentRunning, TypeOK
  <2> QED BY <2>1, <2>2
<1>6. TypeOK'
  <2>1. pc' \in [Thread -> Location]
    BY <1>1, <1>3 DEF TypeOK, Location
  <2> QED BY <1>1, <1>3, <1>5, <2>1 DEF TypeOK
<1>7. Sleepers'
  BY <1>1, <1>2, <1>3, <1>4, <1>5, ThreadAssumption DEF Sleepers, TypeOK
<1>8. StartUp'
  BY <1>1, <1>2, <1>3, <1>4, <1>5, ThreadAssumption DEF StartUp, IdleCode
<1> QED BY <1>5, <1>6, <1>7, <1>8 DEF IInv

LEMMA IdleBlockStep == ASSUME IInv, IdleBlock PROVE IInv'
<1>1. pc[current] = "idle_loop" /\ current = Idle
  BY BootThreads DEF IdleBlock, IdleCode
<1>2. current = idle_thread
  BY <1>1 DEF IInv, StartUp
<1> QED BY <1>1, <1>2, BlockCurrentStep DEF IdleBlock

LEMMA CreateStep == ASSUME IInv, NEW t \in Thread, Create(t) PROVE IInv'
<1>1. TypeOK /\ RunQueues /\ CurrentRunning /\ Sleepers /\ StartUp
  BY DEF IInv
<1>2. /\ current \in Thread /\ status[current] = "RUNNING" /\ current # Idle
      /\ pc[current] = "run" /\ pc[Main] # "start"
      /\ t # Idle /\ status[t] = "FREE" /\ t # Main /\ t # current
  BY <1>1, BootThreads, CurrentNotQueued DEF Create, Moves, StartUp
<1>3. /\ pc' = [pc EXCEPT ![current] = "create"]
      /\ status' = [status EXCEPT ![t] = "BLOCKED"]
      /\ count' = [count EXCEPT ![t] = 0]
      /\ child' = [child EXCEPT ![current] = t]
      /\ UNCHANGED <<ready_list, ready_list_low, current, idle_thread,
                     thread_ticks, waiters, idle_started>>
  BY DEF Create, Moves
<1>4. /\ pc'[current] = "create" /\ \A u \in Thread \ {current} : pc'[u] = pc[u]
      /\ status'[t] = "BLOCKED" /\ \A u \in Thread \ {t} : status'[u] = status[u]
      /\ \A u \in Thread \ {t} : count'[u] = count[u]
      /\ child'[current] = t /\ \A u \in Thread \ {current} : child'[u] = child[u]
  BY <1>1, <1>2, <1>3 DEF TypeOK
<1>5. TypeOK'
  <2>1. pc' \in [Thread -> Location] /\ status' \in [Thread -> Status]
    BY <1>1, <1>3 DEF TypeOK, Location, Status
  <2>2. 0 \in -WAITING_TIME..1
    BY SliceAssumption
  <2>3. count' \in [Thread -> -WAITING_TIME..1]
    BY <1>1, <1>3, <2>2 DEF TypeOK
  <2>4. child' \in [Thread -> Thread \cup {NoThread}]
    BY <1>1, <1>3 DEF TypeOK
  <2> QED BY <1>1, <1>3, <2>1, <2>3, <2>4 DEF TypeOK
<1>6. RunQueues'
  <2>1. Queued' = {u \in Thread : status'[u] = "READY" /\ u # idle_thread'}
    BY <1>1, <1>2, <1>3, <1>4 DEF RunQueues, Queued
  <2>2. Elements(ready_list) \cup Elements(ready_list_low) \subseteq Thread \ {t}
    BY <1>1, <1>2 DEF RunQueues, Queued
  <2> QED BY <1>1, <1>3, <1>4, <2>1, <2>2 DEF RunQueues
<1>7. CurrentRunning'
  BY <1>1, <1>2, <1>3, <1>4 DEF CurrentRunning
<1>8. Sleepers'
  <2>1. \A u \in waiters : u \in Thread /\ u # t /\ status[u] = "BLOCKED" /\ u # idle_thread
    BY <1>1, <1>2 DEF Sleepers, TypeOK
  <2>2. \A u \in Thread : pc[u] = "create" =>
          /\ u # current
          /\ child[u] \in Thread \ (waiters \cup {idle_thread, Main, t})
          /\ status[child[u]] = "BLOCKED"
    BY <1>1, <1>2 DEF Sleepers
  <2>3. idle_thread # t
    BY <1>1, <1>2, ThreadAssumption DEF TypeOK
  <2>4. \A u \in waiters' : status'[u] = "BLOCKED" /\ u # idle_thread'
    BY <1>3, <1>4, <2>1
  <2>5. \A u \in Thread : pc'[u] = "create" =>
          /\ child'[u] \in Thread \ (waiters' \cup {idle_thread', Main})
          /\ status'[child'[u]] = "BLOCKED"
    <3> SUFFICES ASSUME NEW u \in Thread, pc'[u] = "create"
                 PROVE  /\ child'[u] \in Thread \ (waiters \cup {idle_thread, Main})
                        /\ status'[child'[u]] = "BLOCKED"
      BY <1>3
    <3>1. CASE u = current
      BY <1>2, <1>4, <2>1, <2>3, <3>1
    <3>2. CASE u # current
      BY <1>4, <2>2, <3>2
    <3> QED BY <3>1, <3>2
  <2>6. \A u \in Thread :
          (status'[u] = "BLOCKED" /\ u \notin waiters' /\ u # idle_thread') =>
            \E p \in Thread : pc'[p] = "create" /\ child'[p] = u
    <3> SUFFICES ASSUME NEW u \in Thread, status'[u] = "BLOCKED",
                        u \notin waiters, u # idle_thread
                 PROVE  \E p \in Thread : pc'[p] = "create" /\ child'[p] = u
      BY <1>3
    <3>1. CASE u = t
      BY <1>2, <1>4, <3>1
    <3>2. CASE u # t
      <4>1. PICK p \in Thread : pc[p] = "create" /\ child[p] = u
        BY <1>1, <1>4, <3>2 DEF Sleepers
      <4> QED BY <1>4, <2>2, <4>1
    <3> QED BY <3>1, <3>2
  <2>7. \A p, q \in Thread :
          (pc'[p] = "create" /\ pc'[q] = "create" /\ child'[p] = child'[q]) => p = q
    <3> SUFFICES ASSUME NEW p \in Thread, NEW q \in Thread, p # q,
                        pc'[p] = "create", pc'[q] = "create"
                 PROVE  child'[p] # child'[q]
      OBVIOUS
    <3>1. CASE p # current /\ q # current
      BY <1>1, <1>4, <3>1 DEF Sleepers
    <3>2. CASE p = current /\ q # current
      BY <1>4, <2>2, <3>2
    <3>3. CASE p # current /\ q = current
      BY <1>4, <2>2, <3>3
    <3> QED BY <3>1, <3>2, <3>3
  <2> QED BY <2>4, <2>5, <2>6, <2>7 DEF Sleepers
<1>9. StartUp'
  <2>1. pc[Main] # "start_wait"
    BY <1>1, <1>2 DEF StartUp
  <2> QED BY <1>1, <1>2, <1>3, <1>4, <2>1, ThreadAssumption DEF StartUp, IdleCode
<1> QED BY <1>5, <1>6, <1>7, <1>8, <1>9 DEF IInv

LEMMA EndCreateStep == ASSUME IInv, EndCreate PROVE IInv'
<1> DEFINE t == child[current]
<1>1. TypeOK /\ RunQueues /\ CurrentRunning /\ Sleepers /\ StartUp
  BY DEF IInv
<1>2. /\ current \in Thread /\ status[current] = "RUNNING" /\ current # Idle
      /\ pc[current] = "create" /\ pc[Main] # "start"
  BY BootThreads, CurrentNotQueued DEF EndCreate, Moves
<1>3. /\ t \in Thread \ (waiters \cup {idle_thread, Main}) /\ status[t] = "BLOCKED"
  BY <1>1, <1>2 DEF Sleepers
<1>4. /\ pc' = [pc EXCEPT ![current] = "report"]
      /\ MakeReady(t)
      /\ UNCHANGED <<count, current, idle_thread, thread_ticks, waiters,
                     idle_started, child>>
  BY DEF EndCreate, Moves
<1>5. pc'[current] = "report" /\ \A u \in Thread \ {current} : pc'[u] = pc[u]
  BY <1>1, <1>2, <1>4 DEF TypeOK
<1> HIDE DEF t
<1>6. /\ RunQueues' /\ CurrentRunning'
      /\ ready_list' \in Seq(Thread)
      /\ ready_list_low' \in Seq(Thread)
      /\ status' \in [Thread -> Status]
      /\ status'[t] = "READY"
      /\ \A u \in Thread \ {t} : status'[u] = status[u]
  BY <1>3, <1>4, MakeReadyFacts
<1>7. TypeOK'
  <2>1. pc' \in [Thread -> Location]
    BY <1>1, <1>4 DEF TypeOK, Location
  <2> QED BY <1>1, <1>4, <1>6, <2>1 DEF TypeOK
<1>8. Sleepers'
  <2>1. \A p \in Thread : pc'[p] = "create" => pc[p] = "create" /\ p # current
    BY <1>5
  <2>2. \A p \in Thread : pc'[p] = "create" => child[p] # t
    BY <1>1, <1>2, <2>1 DEF Sleepers, t
  <2>3. \A u \in waiters' : status'[u] = "BLOCKED" /\ u # idle_thread'
    BY <1>1, <1>3, <1>4, <1>6 DEF Sleepers, TypeOK
  <2>4. \A u \in Thread : pc'[u] = "create" =>
          /\ child'[u] \in Thread \ (waiters' \cup {idle_thread', Main})
          /\ status'[child'[u]] = "BLOCKED"
    BY <1>1, <1>4, <1>6, <2>1, <2>2 DEF Sleepers
  <2>5. \A u \in Thread :
          (status'[u] = "BLOCKED" /\ u \notin waiters' /\ u # idle_thread') =>
            \E p \in Thread : pc'[p] = "create" /\ child'[p] = u
    <3> SUFFICES ASSUME NEW u \in Thread, status'[u] = "BLOCKED",
                        u \notin waiters, u # idle_thread
                 PROVE  \E p \in Thread : pc'[p] = "create" /\ child[p] = u
      BY <1>4
    <3>1. u # t
      BY <1>6
    <3>2. PICK p \in Thread : pc[p] = "create" /\ child[p] = u
      BY <1>1, <1>6, <3>1 DEF Sleepers
    <3> QED BY <1>5, <3>1, <3>2 DEF t
  <2>6. \A p, q \in Thread :
          (pc'[p] = "create" /\ pc'[q] = "create" /\ child'[p] = child'[q]) => p = q
    BY <1>1, <1>4, <2>1 DEF Sleepers
  <2> QED BY <2>3, <2>4, <2>5, <2>6 DEF Sleepers
<1>9. StartUp'
  BY <1>1, <1>2, <1>3, <1>4, <1>5, <1>6, ThreadAssumption DEF StartUp, IdleCode
<1> QED BY <1>6, <1>7, <1>8, <1>9 DEF IInv

LEMMA ReportStep == ASSUME IInv, Report PROVE IInv'
<1>1. TypeOK /\ RunQueues /\ CurrentRunning /\ Sleepers /\ StartUp
  BY DEF IInv
<1>2. current \in Thread /\ pc[current] = "report" /\ current # Idle
  BY BootThreads, CurrentNotQueued DEF Report, Moves
<1>3. /\ pc' = [pc EXCEPT ![current] = "run"]
      /\ child' = [child EXCEPT ![current] = NoThread]
      /\ UNCHANGED <<status, count, ready_list, ready_list_low, current,
                     idle_thread, thread_ticks, waiters, idle_started>>
  BY DEF Report, Moves
<1>4. /\ pc'[current] = "run" /\ \A u \in Thread \ {current} : pc'[u] = pc[u]
      /\ \A u \in Thread \ {current} : child'[u] = child[u]
  BY <1>1, <1>2, <1>3 DEF TypeOK
<1>5. TypeOK'
  <2>1. pc' \in [Thread -> Location] /\ child' \in [Thread -> Thread \cup {NoThread}]
    BY <1>1, <1>3 DEF TypeOK, Location
  <2> QED BY <1>1, <1>3, <2>1 DEF TypeOK
<1>6. RunQueues' /\ CurrentRunning'
  BY <1>1, <1>3 DEF RunQueues, Queued, CurrentRunning
<1>7. Sleepers'
  <2>1. \A u \in Thread : pc'[u] = "create" <=> pc[u] = "create"
    BY <1>2, <1>4
  <2>2. \A u \in Thread : pc[u] = "create" => child'[u] = child[u]
    BY <1>2, <1>4
  <2> QED BY <1>1, <1>3, <2>1, <2>2 DEF Sleepers
<1>8. StartUp'
  BY <1>1, <1>2, <1>3, <1>4, ThreadAssumption DEF StartUp, IdleCode
<1> QED BY <1>5, <1>6, <1>7, <1>8 DEF IInv

LEMMA UnblockStep == ASSUME IInv, NEW t \in Thread, Unblock(t) PROVE IInv'
<1>1. TypeOK /\ RunQueues /\ CurrentRunning /\ Sleepers /\ StartUp
  BY DEF IInv
<1>2. /\ t \in waiters /\ pc[t] = "run" /\ status[t] = "BLOCKED" /\ t # idle_thread
      /\ MakeReady(t) /\ waiters' = waiters \ {t}
      /\ UNCHANGED <<count, current, idle_thread, thread_ticks, idle_started, pc, child>>
  BY <1>1 DEF Unblock, Sleepers
<1>3. /\ RunQueues' /\ CurrentRunning'
      /\ ready_list' \in Seq(Thread)
      /\ ready_list_low' \in Seq(Thread)
      /\ status' \in [Thread -> Status]
      /\ status'[t] = "READY"
      /\ \A u \in Thread \ {t} : status'[u] = status[u]
  BY <1>2, MakeReadyFacts
<1>4. TypeOK'
  BY <1>1, <1>2, <1>3 DEF TypeOK
<1>5. Sleepers'
  <2>1. \A u \in waiters' : status'[u] = "BLOCKED" /\ u # idle_thread'
    BY <1>1, <1>2, <1>3 DEF Sleepers, TypeOK
  <2>2. \A u \in Thread :
          (status'[u] = "BLOCKED" /\ u \notin waiters' /\ u # idle_thread') <=>
            (status[u] = "BLOCKED" /\ u \notin waiters /\ u # idle_thread)
    BY <1>2, <1>3
  <2>3. child' = child /\ pc' = pc
    BY <1>2
  <2> QED BY <1>1, <2>1, <2>2, <2>3, SleepersKept
<1>6. StartUp'
  BY <1>1, <1>2, <1>3, ThreadAssumption DEF StartUp, IdleCode
<1> QED BY <1>3, <1>4, <1>5, <1>6 DEF IInv

LEMMA BlockStep == ASSUME IInv, Block PROVE IInv'
<1>1. pc[current] = "run" /\ current # idle_thread
  BY BootThreads DEF Block
<1> QED BY <1>1, BlockCurrentStep DEF Block

LEMMA YieldStep == ASSUME IInv, Yield PROVE IInv'
<1>1. Settled(ready_list, ready_list_low, count)
  BY CurrentNotQueued
<1>2. /\ YieldFrom(ready_list, ready_list_low, count) /\ pc[current] # "start"
      /\ UNCHANGED <<idle_thread, waiters, idle_started, pc, child>>
  BY DEF Yield
<1> QED BY <1>1, <1>2, YieldKeepsInvariant

LEMMA ExitStep == ASSUME IInv, Exit PROVE IInv'
<1> DEFINE st == [status EXCEPT ![current] = "DYING"]
<1>1. /\ pc[current] = "run"
      /\ Schedule(ready_list, ready_list_low, st, count)
      /\ UNCHANGED <<idle_thread, waiters, idle_started, pc, child>>
  BY DEF Exit
<1>2. Schedulable(ready_list, ready_list_low, st, count)
  BY <1>1, LeaveSchedulable
<1>3. st[current] = "DYING" /\ \A t \in Thread \ {current} : st[t] = status[t]
  BY CurrentNotQueued DEF IInv, TypeOK
<1> HIDE DEF st
<1> QED BY <1>1, <1>2, <1>3, ScheduleKeepsInvariant

----------------------------------------------------------------------------
LEMMA InitInvariant == Init => IInv
<1> SUFFICES ASSUME Init PROVE IInv
  OBVIOUS
<1>1. status[Main] = "RUNNING" /\ \A t \in Thread \ {Main} : status[t] = "FREE"
  BY ThreadAssumption DEF Init
<1>2. pc[Main] = "start" /\ \A t \in Thread \ {Main} : pc[t] = "run"
  BY ThreadAssumption DEF Init
<1>3. Elements(ready_list) = {} /\ Elements(ready_list_low) = {}
      /\ ready_list \in Seq(Thread) /\ ready_list_low \in Seq(Thread)
  BY DEF Init, Elements
<1>4. TypeOK
  <2>1. pc \in [Thread -> Location] /\ status \in [Thread -> Status]
    BY DEF Init, Location, Status
  <2>2. count \in [Thread -> -WAITING_TIME..1]
    BY SliceAssumption DEF Init
  <2> QED BY <1>3, <2>1, <2>2, ThreadAssumption DEF Init, TypeOK
<1>5. RunQueues
  <2>1. NoDuplicates(ready_list) /\ NoDuplicates(ready_list_low)
    BY DEF Init, NoDuplicates
  <2> QED BY <1>1, <1>3, <2>1 DEF RunQueues, Queued
<1>6. CurrentRunning
  BY <1>1, ThreadAssumption DEF CurrentRunning, Init
<1>7. Sleepers
  BY <1>1, <1>2 DEF Sleepers, Init
<1>8. StartUp
  BY <1>1, <1>2, ThreadAssumption DEF StartUp, Init, IdleCode
<1> QED BY <1>4, <1>5, <1>6, <1>7, <1>8 DEF IInv

LEMMA NextInvariant == ASSUME IInv, [Next]_vars PROVE IInv'
<1>1. CASE Next
  BY <1>1, TickStep, StartIdleStep, StartWaitStep, IdleEnterStep, IdleUpStep,
     IdleBlockStep, CreateStep, EndCreateStep, ReportStep, BlockStep,
     UnblockStep, YieldStep, ExitStep DEF Next
<1>2. CASE UNCHANGED vars
  <2>1. TypeOK' /\ RunQueues' /\ CurrentRunning'
    BY <1>2 DEF vars, IInv, TypeOK, RunQueues, Queued, CurrentRunning
  <2>2. Sleepers' /\ StartUp'
    BY <1>2 DEF vars, IInv, Sleepers, StartUp
  <2> QED BY <2>1, <2>2 DEF IInv
<1> QED BY <1>1, <1>2

LEMMA Invariance == Spec => []IInv
<1>1. Init => IInv
  BY InitInvariant
<1>2. IInv /\ [Next]_vars => IInv'
  BY NextInvariant
<1> QED BY <1>1, <1>2, PTL DEF Spec

(* The scheduler's variables keep their types; count stays within an int8_t. *)
THEOREM TypeCorrect == Spec => []TypeOK
<1>1. IInv => TypeOK
  BY DEF IInv
<1> QED BY <1>1, Invariance, PTL

(* No runnable thread is ever lost, queued twice or queued at the wrong level. *)
THEOREM RunQueuesCorrect == Spec => []RunQueues
<1>1. IInv => RunQueues
  BY DEF IInv
<1> QED BY <1>1, Invariance, PTL

(* The assertions of thread_current and schedule never fail.                *)
THEOREM CurrentAlwaysRuns == Spec => []CurrentRunning
<1>1. IInv => CurrentRunning
  BY DEF IInv
<1> QED BY <1>1, Invariance, PTL

(* The assertion of thread_unblock never fails, and no sleeping thread is   *)
(* out of reach of its waker.                                               *)
THEOREM SleepersKnown == Spec => []Sleepers
<1>1. IInv => Sleepers
  BY DEF IInv
<1> QED BY <1>1, Invariance, PTL

(* No thread but the first two exists before idle_thread is set.            *)
THEOREM StartUpOrder == Spec => []StartUp
<1>1. IInv => StartUp
  BY DEF IInv
<1> QED BY <1>1, Invariance, PTL

----------------------------------------------------------------------------
(* The order of ready_list_low and the length of the slices.                *)

Ordered(low, cnt) ==
  \A i, j \in 1..Len(low) : i <= j => cnt[low[i]] <= cnt[low[j]]

(* Only the threads of ready_list_low have an age: the others are at -1 or  *)
(* above.                                                                   *)
Fresh(low, cnt) == \A t \in Thread \ Elements(low) : cnt[t] >= -1

AgeInv ==
  /\ Ordered(ready_list_low, count)
  /\ Fresh(ready_list_low, count)
  /\ SliceBound

LEMMA ScheduleKeepsAges ==
  ASSUME NEW high, NEW low, NEW st, NEW cnt, Schedulable(high, low, st, cnt),
         Schedule(high, low, st, cnt), Ordered(low, cnt), Fresh(low, cnt)
  PROVE  AgeInv'
<1>1. /\ count' = Chosen(current', cnt) /\ thread_ticks' = 0
      /\ \/ ready_list_low' = low /\ current' \notin Elements(low)
         \/ low # <<>> /\ ready_list_low' = Tail(low) /\ current' = Head(low)
  <2> DEFINE picked == NextThreadToRun(high, low)
  <2>1. /\ current' = picked.next /\ ready_list_low' = picked.low
        /\ count' = Chosen(picked.next, cnt) /\ thread_ticks' = 0
    BY DEF Schedule
  <2>2. CASE high # <<>>
    <3>1. picked.next = Head(high) /\ picked.low = low
      BY <2>2 DEF NextThreadToRun
    <3>2. Head(high) \in Elements(high)
      BY <2>2, PopFront DEF Schedulable
    <3>3. Head(high) \notin Elements(low)
      <4>1. \A x \in Elements(high) \cup Elements(low) : cnt[x] \in Int
        BY SliceAssumption DEF Schedulable
      <4> QED BY <3>2, <4>1 DEF Schedulable
    <3> QED BY <2>1, <3>1, <3>3
  <2>3. CASE high = <<>> /\ low # <<>>
    BY <2>1, <2>3 DEF NextThreadToRun
  <2>4. CASE high = <<>> /\ low = <<>>
    <3>1. Elements(low) = {} /\ picked.low = low
      BY <2>4, ElementsAt DEF NextThreadToRun, Schedulable
    <3> QED BY <2>1, <3>1
  <2> QED BY <2>2, <2>3, <2>4
<1>2. SliceBound'
  BY <1>1, SliceAssumption DEF SliceBound
<1>3. /\ low \in Seq(Thread) /\ NoDuplicates(low) /\ Elements(low) \subseteq Thread
      /\ \A t \in Thread : cnt[t] \in Int
      /\ \A t \in Elements(low) : cnt[t] < 0
  BY SliceAssumption, ElementsAt DEF Schedulable
<1>4. \A t \in Thread : t # current' => count'[t] = cnt[t]
  BY <1>1 DEF Chosen
<1>5. \A t \in Thread : t = current' => count'[t] >= -1
  BY <1>1, <1>3 DEF Chosen
<1>6. CASE ready_list_low' = low /\ current' \notin Elements(low)
  <2>1. \A i \in 1..Len(low) : low[i] \in Thread /\ low[i] # current'
    BY <1>3, <1>6, ElementsAt
  <2>2. Ordered(ready_list_low', count')
    BY <1>4, <1>6, <2>1 DEF Ordered
  <2>3. Fresh(ready_list_low', count')
    BY <1>4, <1>5, <1>6 DEF Fresh
  <2> QED BY <1>2, <2>2, <2>3 DEF AgeInv, Ordered, Fresh
<1>7. CASE low # <<>> /\ ready_list_low' = Tail(low) /\ current' = Head(low)
  <2> DEFINE rest == Tail(low)
  <2>1. /\ rest \in Seq(Thread) /\ current' \notin Elements(rest)
        /\ Elements(low) = Elements(rest) \cup {current'}
    BY <1>3, <1>7, PopFront
  <2>2. \A i \in 1..Len(rest) : rest[i] = low[i + 1] /\ i + 1 \in 1..Len(low)
    BY <1>3, <1>7
  <2> HIDE DEF rest
  <2>3. \A i \in 1..Len(rest) : rest[i] \in Thread /\ rest[i] # current'
    BY <2>1, ElementsAt
  <2>4. Ordered(rest, count')
    <3> SUFFICES ASSUME NEW i \in 1..Len(rest), NEW j \in 1..Len(rest), i <= j
                 PROVE  count'[rest[i]] <= count'[rest[j]]
      BY DEF Ordered
    <3>1. cnt[low[i + 1]] <= cnt[low[j + 1]]
      BY <2>2 DEF Ordered
    <3> QED BY <1>4, <2>2, <2>3, <3>1
  <2>5. Fresh(rest, count')
    BY <1>4, <1>5, <2>1 DEF Fresh
  <2> QED BY <1>2, <1>7, <2>4, <2>5 DEF AgeInv, Ordered, Fresh, rest
<1> QED BY <1>1, <1>6, <1>7

LEMMA PushKeepsAges ==
  ASSUME NEW low \in Seq(Thread), NEW cnt \in [Thread -> -WAITING_TIME..1],
         NEW t \in Thread \ Elements(low), \A u \in Elements(low) : cnt[u] < 0,
         Ordered(low, cnt), Fresh(low, cnt)
  PROVE  Ordered(PushLow(t, cnt, low), cnt) /\ Fresh(PushLow(t, cnt, low), cnt)
<1>1. CASE cnt[t] < 0
  <2> DEFINE out == Append(low, t)
  <2>1. /\ Len(out) = Len(low) + 1 /\ out[Len(low) + 1] = t
        /\ \A i \in 1..Len(low) : out[i] = low[i] /\ low[i] \in Elements(low)
        /\ Elements(out) = Elements(low) \cup {t}
    BY PushBack, ElementsAt
  <2>2. \A u \in Thread : cnt[u] \in Int
    <3>1. -WAITING_TIME..1 \subseteq Int
      BY SliceAssumption
    <3> QED BY <3>1
  <2>3. Len(low) \in Nat /\ Elements(low) \subseteq Thread
    BY ElementsAt
  <2> HIDE DEF out
  <2>4. \A u \in Elements(low) : cnt[u] <= cnt[t]
    <3> SUFFICES ASSUME NEW u \in Elements(low) PROVE cnt[u] <= cnt[t]
      OBVIOUS
    <3>1. cnt[u] < 0 /\ cnt[u] \in Int /\ cnt[t] \in Int
      BY <2>2, <2>3
    <3>2. cnt[t] >= -1
      BY DEF Fresh
    <3> QED BY <3>1, <3>2
  <2>5. Ordered(out, cnt)
    <3> SUFFICES ASSUME NEW i \in 1..Len(out), NEW j \in 1..Len(out), i <= j
                 PROVE  cnt[out[i]] <= cnt[out[j]]
      BY DEF Ordered
    <3>1. CASE j \in 1..Len(low)
      BY <2>1, <2>3, <3>1 DEF Ordered
    <3>2. CASE i \in 1..Len(low) /\ j = Len(low) + 1
      BY <2>1, <2>4, <3>2
    <3>3. CASE i = Len(low) + 1 /\ j = Len(low) + 1
      BY <2>1, <2>2, <3>3
    <3> QED BY <2>1, <2>3, <3>1, <3>2, <3>3
  <2>6. Fresh(out, cnt)
    BY <2>1 DEF Fresh
  <2> QED BY <1>1, <2>5, <2>6 DEF PushLow, out
<1>2. CASE ~ (cnt[t] < 0)
  BY <1>2 DEF PushLow
<1> QED BY <1>1, <1>2

(* Aging keeps the order: all threads of ready_list_low that stay there age *)
(* together.                                                                *)
LEMMA AgingKeepsAges ==
  ASSUME IInv, AgeInv
  PROVE  Ordered(AgedLow, AgedCount) /\ Fresh(AgedLow, AgedCount)
<1> DEFINE low == ready_list_low
<1>1. TypeOK /\ low \in Seq(Thread) /\ Elements(low) \subseteq Thread
  BY ElementsAt DEF IInv, TypeOK
<1>2. \A t \in Thread : count[t] \in Int
  BY <1>1, SliceAssumption DEF TypeOK
<1>3. /\ AgedLow \in Seq(Thread)
      /\ FilteredPrefix(AgedLow, low, Thread \ PromotedSet, Len(low))
      /\ Elements(AgedLow) = Elements(low) \cap (Thread \ PromotedSet)
  BY <1>1, FilterFacts, FilterKeeps DEF AgedLow
<1>4. PromotedSet \subseteq Elements(low)
  BY DEF PromotedSet
<1>5. \A t \in Elements(low) \ PromotedSet :
        AgedCount[t] = IF Aging THEN count[t] - 1 ELSE count[t]
  BY <1>1 DEF AgedCount
<1>6. Ordered(AgedLow, AgedCount)
  <2> SUFFICES ASSUME NEW i \in 1..Len(AgedLow), NEW j \in 1..Len(AgedLow), i < j
               PROVE  AgedCount[AgedLow[i]] <= AgedCount[AgedLow[j]]
    <3>1. \A k \in 1..Len(AgedLow) : AgedCount[AgedLow[k]] \in Int
      BY <1>2, <1>3, <1>5, ElementsAt
    <3>2. \A k, l \in 1..Len(AgedLow) : k <= l => k < l \/ k = l
      BY <1>3
    <3> QED BY <3>1, <3>2 DEF Ordered
  <2>1. PICK p, q \in 1..Len(low) : p < q /\ AgedLow[i] = low[p] /\ AgedLow[j] = low[q]
    BY <1>3 DEF FilteredPrefix
  <2>2. count[low[p]] <= count[low[q]]
    BY <1>1, <2>1 DEF AgeInv, Ordered
  <2>3. AgedLow[i] \in Elements(low) \ PromotedSet /\ AgedLow[j] \in Elements(low) \ PromotedSet
    BY <1>3, ElementsAt
  <2> QED BY <1>1, <1>2, <1>5, <2>1, <2>2, <2>3
<1>7. Fresh(AgedLow, AgedCount)
  <2> SUFFICES ASSUME NEW t \in Thread \ Elements(AgedLow)
               PROVE  AgedCount[t] >= -1
    BY DEF Fresh
  <2>1. CASE t \in PromotedSet
    BY <2>1 DEF AgedCount
  <2>2. CASE t \notin PromotedSet
    <3>1. t \notin Elements(low)
      BY <1>3, <2>2
    <3>2. AgedCount[t] = count[t]
      BY <2>2, <3>1 DEF AgedCount
    <3> QED BY <3>1, <3>2 DEF AgeInv, Fresh
  <2> QED BY <2>1, <2>2
<1> QED BY <1>6, <1>7

LEMMA YieldKeepsAges ==
  ASSUME IInv, NEW high, NEW low, NEW cnt, Settled(high, low, cnt),
         YieldFrom(high, low, cnt), Ordered(low, cnt), Fresh(low, cnt)
  PROVE  AgeInv'
<1> DEFINE listed == current # idle_thread
           h == IF listed THEN PushHigh(current, cnt, high) ELSE high
           l == IF listed THEN PushLow(current, cnt, low) ELSE low
           st == [status EXCEPT ![current] = "READY"]
<1>1. Schedulable(h, l, st, cnt)
  BY YieldSchedulable
<1>2. Schedule(h, l, st, cnt)
  BY DEF YieldFrom
<1>3. current \in Thread \ Elements(low)
  BY CurrentNotQueued DEF Settled
<1>4. Ordered(l, cnt) /\ Fresh(l, cnt)
  BY <1>3, PushKeepsAges DEF Settled
<1> HIDE DEF h, l, st
<1> QED BY <1>1, <1>2, <1>4, ScheduleKeepsAges

LEMMA MakeReadyKeepsAges ==
  ASSUME IInv, AgeInv, NEW t \in Thread, status[t] = "BLOCKED", MakeReady(t),
         UNCHANGED <<count, current, thread_ticks>>
  PROVE  AgeInv'
<1>1. TypeOK /\ RunQueues
  BY DEF IInv
<1>2. t \in Thread \ Elements(ready_list_low)
  BY <1>1 DEF RunQueues, Queued
<1>3. ready_list_low \in Seq(Thread) /\ count \in [Thread -> -WAITING_TIME..1]
      /\ \A u \in Elements(ready_list_low) : count[u] < 0
  BY <1>1 DEF TypeOK, RunQueues
<1>4. Ordered(ready_list_low', count) /\ Fresh(ready_list_low', count)
  BY <1>2, <1>3, PushKeepsAges DEF MakeReady, AgeInv
<1>5. Ordered(ready_list_low', count') /\ Fresh(ready_list_low', count')
  BY <1>4 DEF Ordered, Fresh
<1> QED BY <1>5 DEF AgeInv, SliceBound, Ordered, Fresh

(* No step makes a younger thread overtake an older one in ready_list_low,  *)
(* or overruns a slice.                                                     *)
LEMMA NextKeepsAges == ASSUME IInv, AgeInv, [Next]_vars PROVE AgeInv'
<1>1. TypeOK /\ RunQueues /\ Sleepers /\ StartUp
  BY DEF IInv
<1>2. /\ current \in Thread /\ Settled(ready_list, ready_list_low, count)
      /\ current \notin Elements(ready_list_low)
  BY CurrentNotQueued
<1>3. CASE Tick
  <2>1. Ordered(AgedLow, AgedCount) /\ Fresh(AgedLow, AgedCount)
    BY AgingKeepsAges
  <2>2. Settled(AgedHigh, AgedLow, AgedCount)
    BY AgingSettled
  <2>3. CASE SliceOver
    <3> DEFINE cnt == [AgedCount EXCEPT ![current] = NextLevel(@)]
    <3>1. YieldFrom(AgedHigh, AgedLow, cnt)
      BY <1>3, <2>3 DEF Tick
    <3>2. current \notin Elements(AgedHigh) \cup Elements(AgedLow)
      BY <2>2, CurrentNotQueued DEF Settled
    <3>3. AgedLow \in Seq(Thread) /\ Elements(AgedLow) \subseteq Thread
      BY <2>2, ElementsAt DEF Settled
    <3>4. AgedCount[current] >= -1 /\ AgedCount[current] \in -WAITING_TIME..1
      BY <1>2, <2>1, <2>2, <3>2 DEF Fresh, Settled
    <3>5. NextLevel(AgedCount[current]) \in -1..1
      BY <3>4, SliceAssumption DEF NextLevel
    <3>6. /\ cnt \in [Thread -> -WAITING_TIME..1]
          /\ cnt[current] \in -1..1
          /\ \A t \in Thread \ {current} : cnt[t] = AgedCount[t]
      <4>1. -1..1 \subseteq -WAITING_TIME..1
        BY SliceAssumption
      <4> QED BY <1>2, <2>2, <3>5, <4>1 DEF Settled
    <3> HIDE DEF cnt
    <3>7. Settled(AgedHigh, AgedLow, cnt)
      <4>1. Elements(AgedHigh) \cup Elements(AgedLow) \subseteq Thread \ {current}
        BY <2>2, <3>2 DEF Settled
      <4> QED BY <2>2, <3>6, <4>1 DEF Settled
    <3>8. Ordered(AgedLow, cnt)
      <4>1. \A i \in 1..Len(AgedLow) : AgedLow[i] \in Thread \ {current}
        BY <3>2, <3>3, ElementsAt
      <4> QED BY <2>1, <3>6, <4>1 DEF Ordered
    <3>9. Fresh(AgedLow, cnt)
      BY <2>1, <3>6 DEF Fresh
    <3> QED BY <3>1, <3>7, <3>8, <3>9, YieldKeepsAges
  <2>4. CASE ~SliceOver
    <3>1. /\ thread_ticks' = thread_ticks + 1 /\ current' = current
          /\ ready_list_low' = AgedLow /\ count' = AgedCount
      BY <1>3, <2>4 DEF Tick
    <3>2. count'[current] = count[current]
      BY <1>2, <3>1 DEF AgedCount, PromotedSet
    <3>3. SliceBound'
      BY <1>1, <2>4, <3>1, <3>2, SliceAssumption DEF SliceBound, SliceOver, TypeOK
    <3> QED BY <2>1, <3>1, <3>3 DEF AgeInv, Ordered, Fresh
  <2> QED BY <2>3, <2>4
<1>4. ASSUME NEW new \in {"BLOCKED", "DYING"}, pc[current] \notin {"start", "idle_enter"},
             Schedule(ready_list, ready_list_low, [status EXCEPT ![current] = new], count)
      PROVE  AgeInv'
  BY <1>4, LeaveSchedulable, ScheduleKeepsAges DEF AgeInv
<1>5. CASE StartIdle
  <2>1. /\ current = Main /\ count' = [count EXCEPT ![Idle] = 0]
        /\ UNCHANGED <<ready_list_low, current, thread_ticks>>
    BY <1>5, BootThreads DEF StartIdle
  <2>2. status[Idle] = "FREE"
    BY <1>1, <1>5, <2>1 DEF StartIdle, StartUp
  <2>3. Idle \notin Elements(ready_list_low)
    BY <1>1, <2>2 DEF RunQueues, Queued
  <2>4. count'[Idle] = 0 /\ \A t \in Thread \ {Idle} : count'[t] = count[t]
    BY <1>1, <2>1, ThreadAssumption DEF TypeOK
  <2>5. \A i \in 1..Len(ready_list_low) : ready_list_low[i] \in Thread \ {Idle}
    BY <1>1, <2>3, ElementsAt DEF TypeOK
  <2>6. Ordered(ready_list_low', count')
    BY <2>1, <2>4, <2>5 DEF Ordered, AgeInv
  <2>7. Fresh(ready_list_low', count')
    BY <2>1, <2>4 DEF Fresh, AgeInv
  <2>8. SliceBound'
    BY <2>1, <2>4, ThreadAssumption DEF SliceBound, AgeInv
  <2> QED BY <2>6, <2>7, <2>8 DEF AgeInv, Ordered, Fresh
<1>6. ASSUME NEW t \in Thread, Create(t) PROVE AgeInv'
  <2>1. /\ status[t] = "FREE" /\ count' = [count EXCEPT ![t] = 0]
        /\ UNCHANGED <<ready_list_low, current, thread_ticks>>
    BY <1>6 DEF Create
  <2>2. t \notin Elements(ready_list_low) /\ t # current
    BY <1>1, <2>1, CurrentNotQueued DEF RunQueues, Queued
  <2>3. count'[t] = 0 /\ \A u \in Thread \ {t} : count'[u] = count[u]
    BY <1>1, <2>1 DEF TypeOK
  <2>4. \A i \in 1..Len(ready_list_low) : ready_list_low[i] \in Thread \ {t}
    BY <1>1, <2>2, ElementsAt DEF TypeOK
  <2>5. Ordered(ready_list_low', count')
    BY <2>1, <2>3, <2>4 DEF Ordered, AgeInv
  <2>6. Fresh(ready_list_low', count')
    BY <2>1, <2>3 DEF Fresh, AgeInv
  <2>7. SliceBound'
    BY <1>2, <2>1, <2>2, <2>3 DEF SliceBound, AgeInv
  <2> QED BY <2>5, <2>6, <2>7 DEF AgeInv, Ordered, Fresh
<1>7. ASSUME NEW t \in Thread, Unblock(t) PROVE AgeInv'
  BY <1>1, <1>7, MakeReadyKeepsAges DEF Unblock, Sleepers
<1>8. CASE EndCreate
  <2>1. child[current] \in Thread /\ status[child[current]] = "BLOCKED"
    BY <1>1, <1>2, <1>8 DEF EndCreate, Moves, Sleepers
  <2> QED BY <1>8, <2>1, MakeReadyKeepsAges DEF EndCreate
<1>9. CASE IdleUp
  <2>1. CASE Main \in waiters
    BY <1>1, <1>9, <2>1, MakeReadyKeepsAges, ThreadAssumption DEF IdleUp, Sleepers
  <2>2. CASE Main \notin waiters
    BY <1>9, <2>2 DEF IdleUp, AgeInv, SliceBound, Ordered, Fresh
  <2> QED BY <2>1, <2>2
<1>10. CASE StartWait
  <2>1. CASE idle_started > 0 /\ UNCHANGED <<count, ready_list_low, current, thread_ticks>>
    BY <2>1 DEF AgeInv, SliceBound, Ordered, Fresh
  <2>2. CASE pc[current] = "start_wait" /\ BlockCurrent
    BY <1>4, <2>2 DEF BlockCurrent
  <2> QED BY <1>10, <2>1, <2>2 DEF StartWait
<1>11. CASE IdleBlock \/ Block
  BY <1>4, <1>11 DEF IdleBlock, Block, BlockCurrent
<1>12. CASE Exit
  BY <1>4, <1>12 DEF Exit
<1>13. CASE Yield
  BY <1>2, <1>13, YieldKeepsAges DEF Yield, AgeInv
<1>14. CASE IdleEnter \/ Report \/ UNCHANGED vars
  BY <1>14 DEF IdleEnter, Report, vars, AgeInv, SliceBound, Ordered, Fresh
<1> QED BY <1>3, <1>5, <1>6, <1>7, <1>8, <1>9, <1>10, <1>11, <1>12, <1>13,
           <1>14 DEF Next

LEMMA AgeInvariance == Spec => []AgeInv
<1>1. Init => AgeInv
  <2> SUFFICES ASSUME Init PROVE AgeInv
    OBVIOUS
  <2>1. Len(ready_list_low) = 0 /\ 1..0 = {}
    BY DEF Init
  <2>2. \A t \in Thread : count[t] = 0
    BY DEF Init
  <2>3. SliceBound
    BY <2>2, ThreadAssumption, SliceAssumption DEF Init, SliceBound
  <2> QED BY <2>1, <2>2, <2>3 DEF AgeInv, Ordered, Fresh
<1>2. IInv /\ AgeInv /\ [Next]_vars => AgeInv'
  BY NextKeepsAges
<1> QED BY <1>1, <1>2, Invariance, PTL DEF Spec

(* The head of ready_list_low is always the thread that has waited longest. *)
THEOREM OldestAlwaysFirst == Spec => []OldestFirst
<1>1. AgeInv => OldestFirst
  BY DEF AgeInv, Ordered, OldestFirst
<1> QED BY <1>1, AgeInvariance, PTL

(* No thread runs longer than the slice of its level without schedule().    *)
THEOREM SlicesBounded == Spec => []SliceBound
<1>1. AgeInv => SliceBound
  BY DEF AgeInv
<1> QED BY <1>1, AgeInvariance, PTL

----------------------------------------------------------------------------
(* What single steps do: the priority of ready_list, and the refinement of  *)
(* the dispatcher.                                                          *)

HighFirst ==
  (current' # current /\ current' # idle_thread /\ count'[current'] < 0)
     => ready_list' = <<>>

StepOK ==
  /\ D!Next \/ UNCHANGED D!vars
  /\ HighFirst

(* schedule() is a switch of the dispatcher among the queued threads.       *)
LEMMA ScheduleSwitches ==
  ASSUME NEW high, NEW low, NEW st, NEW cnt, Schedulable(high, low, st, cnt),
         Schedule(high, low, st, cnt)
  PROVE  /\ D!Switch(Elements(high) \cup Elements(low))
         /\ HighFirst
<1> DEFINE picked == NextThreadToRun(high, low)
           cand == Elements(high) \cup Elements(low)
<1>1. /\ current' = picked.next /\ ready_list' = picked.high
      /\ ready_list_low' = picked.low
      /\ count' = Chosen(picked.next, cnt) /\ thread_ticks' = 0
  BY DEF Schedule
<1>2. /\ picked.next \in Thread
      /\ Elements(picked.high) \cup Elements(picked.low) = cand \ {picked.next}
      /\ \/ picked.next \in Elements(high)
         \/ picked.next \in Elements(low) /\ high = <<>> /\ picked.high = <<>>
         \/ picked.next = idle_thread /\ high = <<>> /\ low = <<>>
  BY NextThreadFacts
<1> HIDE DEF picked
<1>3. Queued' = cand \ {current'}
  BY <1>1, <1>2 DEF Queued
<1>4. \/ current' \in cand
      \/ cand = {} /\ current' = Idle
  <2>1. high = <<>> /\ low = <<>> => cand = {}
    BY ElementsAt DEF Schedulable
  <2> QED BY <1>1, <1>2, <2>1 DEF Schedulable
<1>5. D!Switch(cand)
  <2> HIDE DEF cand
  <2> QED BY <1>3, <1>4 DEF D!Switch
<1>6. HighFirst
  <2>1. current' \in Elements(high) => count'[current'] >= 0
    BY <1>1, <1>2, SliceAssumption DEF Schedulable, Chosen
  <2>2. count'[current'] \in Int
    BY <1>1, <1>2, SliceAssumption DEF Schedulable, Chosen
  <2> QED BY <1>1, <1>2, <2>1, <2>2 DEF HighFirst
<1> QED BY <1>5, <1>6

LEMMA YieldSwitches ==
  ASSUME IInv, NEW high, NEW low, NEW cnt, Settled(high, low, cnt),
         YieldFrom(high, low, cnt)
  PROVE  StepOK
<1> DEFINE listed == current # idle_thread
           h == IF listed THEN PushHigh(current, cnt, high) ELSE high
           l == IF listed THEN PushLow(current, cnt, low) ELSE low
           st == [status EXCEPT ![current] = "READY"]
<1>1. Schedulable(h, l, st, cnt)
  BY YieldSchedulable
<1>2. Schedule(h, l, st, cnt)
  BY DEF YieldFrom
<1>3. st \in [Thread -> Status] /\ current \in Thread
      /\ \A t \in Thread : st[t] = "READY" <=> status[t] = "READY" \/ t = current
  BY CurrentNotQueued DEF IInv, TypeOK, Status
<1>4. Queued = {t \in Thread : status[t] = "READY" /\ t # idle_thread}
  BY DEF IInv, TypeOK, RunQueues
<1> HIDE DEF h, l, st
<1>5. Elements(h) \cup Elements(l) = IF listed THEN Queued \cup {current} ELSE Queued
  <2>1. Elements(h) \cup Elements(l) = {t \in Thread : st[t] = "READY" /\ t # idle_thread}
    BY <1>1 DEF Schedulable
  <2>2. \A t \in Thread :
          (st[t] = "READY" /\ t # idle_thread) <=>
            (t \in Queued \/ (listed /\ t = current))
    BY <1>3, <1>4
  <2>3. Queued \subseteq Thread
    BY <1>4
  <2> QED BY <1>3, <2>1, <2>2, <2>3
<1>6. D!Switch(Elements(h) \cup Elements(l)) /\ HighFirst
  BY <1>1, <1>2, ScheduleSwitches
<1>7. D!Next
  BY <1>5, <1>6 DEF D!Next, D!GiveWay, D!Leave
<1> QED BY <1>6, <1>7 DEF StepOK

LEMMA WakeIsWake ==
  ASSUME IInv, NEW t \in Thread, status[t] = "BLOCKED", t # idle_thread,
         MakeReady(t), UNCHANGED <<count, current, idle_thread, thread_ticks>>
  PROVE  StepOK
<1>1. TypeOK /\ RunQueues
  BY DEF IInv
<1>2. t \in Thread \ (Queued \cup {current})
  BY <1>1, CurrentNotQueued DEF RunQueues
<1>3. RunQueues' /\ status'[t] = "READY"
      /\ \A u \in Thread \ {t} : status'[u] = status[u]
  BY MakeReadyFacts
<1>4. Queued' = Queued \cup {t}
  BY <1>1, <1>3 DEF RunQueues
<1>5. D!Wake(t)
  BY <1>2, <1>4 DEF D!Wake
<1>6. D!Next
  BY <1>5 DEF D!Next
<1>7. HighFirst
  BY <1>1 DEF HighFirst, TypeOK
<1> QED BY <1>6, <1>7 DEF StepOK

LEMMA QuietStep ==
  ASSUME IInv, UNCHANGED <<current, ready_list, ready_list_low>>
  PROVE  StepOK
<1>1. HighFirst
  BY DEF HighFirst
<1>2. UNCHANGED D!vars
  BY DEF D!vars, Queued
<1> QED BY <1>1, <1>2 DEF StepOK

LEMMA NextStepsOK == ASSUME IInv, [Next]_vars PROVE StepOK
<1>1. TypeOK /\ RunQueues /\ Sleepers /\ StartUp
  BY DEF IInv
<1>2. /\ current \in Thread /\ Settled(ready_list, ready_list_low, count)
      /\ current \notin Elements(ready_list_low)
  BY CurrentNotQueued
<1>3. CASE Tick
  <2>1. Settled(AgedHigh, AgedLow, AgedCount)
    BY AgingSettled
  <2>2. CASE SliceOver
    <3> DEFINE cnt == [AgedCount EXCEPT ![current] = NextLevel(@)]
    <3>1. YieldFrom(AgedHigh, AgedLow, cnt)
      BY <1>3, <2>2 DEF Tick
    <3>2. Elements(AgedHigh) \cup Elements(AgedLow) \subseteq Thread \ {current}
      BY <2>1, CurrentNotQueued DEF Settled
    <3>3. AgedCount[current] \in -WAITING_TIME..1
      BY <1>2, <2>1 DEF Settled
    <3>4. NextLevel(AgedCount[current]) \in -WAITING_TIME..1
      BY <3>3, SliceAssumption DEF NextLevel
    <3>5. /\ cnt \in [Thread -> -WAITING_TIME..1]
          /\ \A t \in Thread \ {current} : cnt[t] = AgedCount[t]
      BY <1>2, <2>1, <3>4 DEF Settled
    <3> HIDE DEF cnt
    <3>6. Settled(AgedHigh, AgedLow, cnt)
      BY <2>1, <3>2, <3>5 DEF Settled
    <3> QED BY <3>1, <3>6, YieldSwitches
  <2>3. CASE ~SliceOver
    <3>1. /\ thread_ticks' = thread_ticks + 1 /\ current' = current
          /\ ready_list' = AgedHigh /\ ready_list_low' = AgedLow
      BY <1>3, <2>3 DEF Tick
    <3>2. Queued' = Queued
      BY <1>1, <2>1, <3>1 DEF Settled, RunQueues, Queued
    <3>3. HighFirst
      BY <3>1 DEF HighFirst
    <3>4. UNCHANGED D!vars
      BY <3>1, <3>2 DEF D!vars
    <3> QED BY <3>3, <3>4 DEF StepOK
  <2> QED BY <2>2, <2>3
<1>4. ASSUME NEW new \in {"BLOCKED", "DYING"}, pc[current] \notin {"start", "idle_enter"},
             Schedule(ready_list, ready_list_low, [status EXCEPT ![current] = new], count)
      PROVE  StepOK
  <2>1. /\ D!Switch(Elements(ready_list) \cup Elements(ready_list_low))
        /\ HighFirst
    BY <1>4, LeaveSchedulable, ScheduleSwitches
  <2>2. D!Next
    BY <2>1 DEF D!Next, D!Leave, Queued
  <2> QED BY <2>1, <2>2 DEF StepOK
<1>5. CASE StartIdle
  <2>1. /\ current = Main /\ ready_list' = Append(ready_list, Idle)
        /\ UNCHANGED <<ready_list_low, current, thread_ticks>>
    BY <1>5, BootThreads DEF StartIdle
  <2>2. status[Idle] = "FREE"
    BY <1>1, <1>5, <2>1 DEF StartIdle, StartUp
  <2>3. Idle \in Thread \ (Queued \cup {current})
    BY <1>1, <2>1, <2>2, ThreadAssumption DEF RunQueues
  <2>4. Queued' = Queued \cup {Idle}
    BY <1>1, <2>1, PushBack, ThreadAssumption DEF Queued, TypeOK
  <2>5. D!Next
    BY <2>1, <2>3, <2>4 DEF D!Wake, D!Next
  <2>6. HighFirst
    BY <1>1, <2>1 DEF HighFirst, TypeOK
  <2> QED BY <2>5, <2>6 DEF StepOK
<1>6. ASSUME NEW t \in Thread, Unblock(t) PROVE StepOK
  BY <1>1, <1>6, WakeIsWake DEF Unblock, Sleepers
<1>7. CASE EndCreate
  <2>1. child[current] \in Thread \ {idle_thread} /\ status[child[current]] = "BLOCKED"
    BY <1>1, <1>2, <1>7 DEF EndCreate, Moves, Sleepers
  <2> QED BY <1>7, <2>1, WakeIsWake DEF EndCreate
<1>8. CASE IdleUp
  <2>1. CASE Main \in waiters
    BY <1>1, <1>8, <2>1, WakeIsWake, ThreadAssumption, BootThreads DEF IdleUp, Sleepers
  <2>2. CASE Main \notin waiters
    BY <1>8, <2>2, QuietStep DEF IdleUp
  <2> QED BY <2>1, <2>2
<1>9. CASE StartWait
  <2>1. CASE UNCHANGED <<current, thread_ticks, ready_list, ready_list_low>>
    BY <2>1, QuietStep
  <2>2. CASE pc[current] = "start_wait" /\ BlockCurrent
    BY <1>4, <2>2 DEF BlockCurrent
  <2> QED BY <1>9, <2>1, <2>2 DEF StartWait
<1>10. CASE IdleBlock \/ Block
  BY <1>4, <1>10 DEF IdleBlock, Block, BlockCurrent
<1>11. CASE Exit
  BY <1>4, <1>11 DEF Exit
<1>12. CASE Yield
  BY <1>2, <1>12, YieldSwitches DEF Yield
<1>13. ASSUME NEW t \in Thread, Create(t) PROVE StepOK
  BY <1>13, QuietStep DEF Create
<1>14. CASE IdleEnter \/ Report \/ UNCHANGED vars
  BY <1>14, QuietStep DEF IdleEnter, Report, vars
<1> QED BY <1>3, <1>5, <1>6, <1>7, <1>8, <1>9, <1>10, <1>11, <1>12, <1>13,
           <1>14 DEF Next

(* A thread of ready_list_low is dispatched only when ready_list is empty.  *)
THEOREM HighLevelAlwaysFirst == Spec => HighLevelFirst
<1>1. IInv /\ [Next]_vars => [HighFirst]_vars
  BY NextStepsOK DEF StepOK
<1>2. Spec => [][HighFirst]_vars
  BY <1>1, Invariance, PTL DEF Spec
<1> QED BY <1>2 DEF HighLevelFirst, HighFirst

(* The two queues, the levels and the aging implement the dispatcher.       *)
THEOREM ImplementsDispatcher == Spec => Dispatches
<1>1. Init => D!Init
  BY DEF Init, D!Init, Queued, Elements
<1>2. IInv /\ [Next]_vars => [D!Next]_D!vars
  BY NextStepsOK DEF StepOK
<1> QED BY <1>1, <1>2, Invariance, PTL DEF Spec, Dispatches, D!Spec

----------------------------------------------------------------------------
(* The order within the lists.                                              *)

(* What list2 holds behind one another, the second of them from list, stands *)
(* in that order in list.                                                   *)
Grows(list, list2) ==
  \A i2, j2 \in 1..Len(list2) :
    i2 < j2 /\ list2[j2] \in Elements(list) =>
      \E i, j \in 1..Len(list) : i < j /\ list[i] = list2[i2] /\ list[j] = list2[j2]

LEMMA GrowsKeepsOrder ==
  ASSUME NEW list \in Seq(Thread), NoDuplicates(list), NEW list2, Grows(list, list2)
  PROVE  KeepsOrder(list, list2)
<1> SUFFICES ASSUME NEW i2 \in 1..Len(list2), NEW j2 \in 1..Len(list2), i2 < j2,
                    NEW j \in 1..Len(list), list[j] = list2[j2]
             PROVE  \E i \in 1..(j - 1) : list[i] = list2[i2]
  BY DEF KeepsOrder
<1>1. list2[j2] \in Elements(list)
  BY DEF Elements
<1>2. PICK i, k \in 1..Len(list) : i < k /\ list[i] = list2[i2] /\ list[k] = list2[j2]
  BY <1>1 DEF Grows
<1>3. k = j
  BY <1>2 DEF NoDuplicates
<1> QED BY <1>2, <1>3

LEMMA GrowsItself == \A list \in Seq(Thread) : Grows(list, list)
BY DEF Grows

(* list_pop_front.                                                          *)
LEMMA GrowsByPop ==
  ASSUME NEW list, NEW list2 \in Seq(Thread), list2 # <<>>, Grows(list, list2)
  PROVE  Grows(list, Tail(list2))
<1> DEFINE rest == Tail(list2)
<1>1. /\ Len(list2) \in Nat /\ Len(rest) = Len(list2) - 1
      /\ \A i \in 1..Len(rest) : rest[i] = list2[i + 1]
  OBVIOUS
<1> HIDE DEF rest
<1>2. ASSUME NEW i2 \in 1..Len(rest), NEW j2 \in 1..Len(rest), i2 < j2,
             rest[j2] \in Elements(list)
      PROVE  \E i, j \in 1..Len(list) : i < j /\ list[i] = rest[i2] /\ list[j] = rest[j2]
  <2>1. /\ i2 + 1 \in 1..Len(list2) /\ j2 + 1 \in 1..Len(list2) /\ i2 + 1 < j2 + 1
        /\ rest[i2] = list2[i2 + 1] /\ rest[j2] = list2[j2 + 1]
    BY <1>1, <1>2
  <2> QED BY <1>2, <2>1 DEF Grows
<1> QED BY <1>2 DEF Grows, rest

(* list_push_back of what list does not hold.                               *)
LEMMA GrowsByPush ==
  ASSUME NEW list, NEW list2 \in Seq(Thread), Grows(list, list2),
         NEW t \in Thread, t \notin Elements(list)
  PROVE  Grows(list, Append(list2, t))
<1> DEFINE more == Append(list2, t)
<1>1. /\ Len(list2) \in Nat /\ Len(more) = Len(list2) + 1
      /\ \A i \in 1..Len(list2) : more[i] = list2[i]
      /\ more[Len(list2) + 1] = t
  OBVIOUS
<1> HIDE DEF more
<1>2. ASSUME NEW i2 \in 1..Len(more), NEW j2 \in 1..Len(more), i2 < j2,
             more[j2] \in Elements(list)
      PROVE  \E i, j \in 1..Len(list) : i < j /\ list[i] = more[i2] /\ list[j] = more[j2]
  <2>1. j2 # Len(list2) + 1
    BY <1>1, <1>2
  <2>2. i2 \in 1..Len(list2) /\ j2 \in 1..Len(list2)
    BY <1>1, <1>2, <2>1
  <2> QED BY <1>1, <1>2, <2>2 DEF Grows
<1> QED BY <1>2 DEF Grows, more

(* The threads that a loop leaves in the list it walks.                     *)
LEMMA GrowsByFilter ==
  ASSUME NEW list \in Seq(Thread), NEW kept
  PROVE  Grows(list, Filter(list, kept))
<1> DEFINE out == Filter(list, kept)
<1>1. FilteredPrefix(out, list, kept, Len(list))
  BY FilterFacts
<1> HIDE DEF out
<1>2. ASSUME NEW i2 \in 1..Len(out), NEW j2 \in 1..Len(out), i2 < j2
      PROVE  \E i, j \in 1..Len(list) : i < j /\ list[i] = out[i2] /\ list[j] = out[j2]
  <2>1. PICK p, q \in 1..Len(list) : p < q /\ out[i2] = list[p] /\ out[j2] = list[q]
    BY <1>1, <1>2 DEF FilteredPrefix
  <2> QED BY <2>1
<1>3. Grows(list, out)
  BY <1>2 DEF Grows
<1> QED BY <1>3 DEF out

(* What it pushes back on another list, which held none of them.            *)
LEMMA GrowsByConcat ==
  ASSUME NEW list \in Seq(Thread), NEW more \in Seq(Thread),
         Elements(list) \cap Elements(more) = {}
  PROVE  Grows(list, list \o more)
<1> DEFINE out == list \o more
<1>1. /\ Len(list) \in Nat /\ Len(out) = Len(list) + Len(more)
      /\ \A i \in 1..Len(list) : out[i] = list[i]
      /\ \A i \in 1..Len(more) : out[i + Len(list)] = more[i]
  OBVIOUS
<1> HIDE DEF out
<1>2. ASSUME NEW i2 \in 1..Len(out), NEW j2 \in 1..Len(out), i2 < j2,
             out[j2] \in Elements(list)
      PROVE  \E i, j \in 1..Len(list) : i < j /\ list[i] = out[i2] /\ list[j] = out[j2]
  <2>1. j2 \in 1..Len(list)
    <3> SUFFICES ASSUME j2 \notin 1..Len(list) PROVE FALSE
      OBVIOUS
    <3>1. j2 - Len(list) \in 1..Len(more) /\ (j2 - Len(list)) + Len(list) = j2
      BY <1>1
    <3>2. out[j2] = more[j2 - Len(list)]
      BY <1>1, <3>1
    <3> QED BY <1>2, <3>1, <3>2 DEF Elements
  <2>2. i2 \in 1..Len(list)
    BY <1>1, <1>2, <2>1
  <2> QED BY <1>1, <1>2, <2>1, <2>2
<1> QED BY <1>2 DEF Grows, out

Serves ==
  /\ Grows(ready_list, ready_list')
  /\ Grows(ready_list_low, ready_list_low')

(* next_thread_to_run.                                                      *)
LEMMA ScheduleServes ==
  ASSUME NEW high \in Seq(Thread), NEW low \in Seq(Thread), NEW st, NEW cnt,
         Grows(ready_list, high), Grows(ready_list_low, low),
         Schedule(high, low, st, cnt)
  PROVE  Serves
<1>1. /\ ready_list' = IF high = <<>> THEN high ELSE Tail(high)
      /\ ready_list_low' = IF high = <<>> /\ low # <<>> THEN Tail(low) ELSE low
  <2>1. CASE high # <<>>
    BY <2>1 DEF Schedule, NextThreadToRun
  <2>2. CASE high = <<>> /\ low # <<>>
    BY <2>2 DEF Schedule, NextThreadToRun
  <2>3. CASE high = <<>> /\ low = <<>>
    BY <2>3 DEF Schedule, NextThreadToRun
  <2> QED BY <2>1, <2>2, <2>3
<1>2. Grows(ready_list, ready_list')
  BY <1>1, GrowsByPop
<1>3. Grows(ready_list_low, ready_list_low')
  BY <1>1, GrowsByPop
<1> QED BY <1>2, <1>3 DEF Serves

(* A thread that was in neither list is pushed back on the one its count    *)
(* selects.                                                                 *)
LEMMA PushServes ==
  ASSUME NEW t \in Thread, t \notin Elements(ready_list), t \notin Elements(ready_list_low),
         NEW high \in Seq(Thread), NEW low \in Seq(Thread), NEW cnt,
         Grows(ready_list, high), Grows(ready_list_low, low)
  PROVE  /\ PushHigh(t, cnt, high) \in Seq(Thread) /\ PushLow(t, cnt, low) \in Seq(Thread)
         /\ Grows(ready_list, PushHigh(t, cnt, high))
         /\ Grows(ready_list_low, PushLow(t, cnt, low))
<1>1. CASE cnt[t] < 0
  <2>1. PushHigh(t, cnt, high) = high /\ PushLow(t, cnt, low) = Append(low, t)
    BY <1>1 DEF PushHigh, PushLow
  <2> QED BY <2>1, GrowsByPush
<1>2. CASE ~(cnt[t] < 0)
  <2>1. PushHigh(t, cnt, high) = Append(high, t) /\ PushLow(t, cnt, low) = low
    BY <1>2 DEF PushHigh, PushLow
  <2> QED BY <2>1, GrowsByPush
<1> QED BY <1>1, <1>2

LEMMA YieldServes ==
  ASSUME IInv, NEW high \in Seq(Thread), NEW low \in Seq(Thread), NEW cnt,
         Grows(ready_list, high), Grows(ready_list_low, low),
         YieldFrom(high, low, cnt)
  PROVE  Serves
<1> DEFINE listed == current # idle_thread
           h == IF listed THEN PushHigh(current, cnt, high) ELSE high
           l == IF listed THEN PushLow(current, cnt, low) ELSE low
           st == [status EXCEPT ![current] = "READY"]
<1>1. /\ current \in Thread /\ current \notin Elements(ready_list)
      /\ current \notin Elements(ready_list_low)
  BY CurrentNotQueued
<1>2. /\ h \in Seq(Thread) /\ l \in Seq(Thread)
      /\ Grows(ready_list, h) /\ Grows(ready_list_low, l)
  BY <1>1, PushServes
<1>3. Schedule(h, l, st, cnt)
  BY DEF YieldFrom
<1> HIDE DEF h, l, st
<1> QED BY <1>2, <1>3, ScheduleServes

LEMMA WakeServes ==
  ASSUME IInv, NEW t \in Thread, status[t] = "BLOCKED", MakeReady(t)
  PROVE  Serves
<1>1. /\ ready_list \in Seq(Thread) /\ ready_list_low \in Seq(Thread)
      /\ t \notin Queued
  BY DEF IInv, TypeOK, RunQueues
<1>2. t \notin Elements(ready_list) /\ t \notin Elements(ready_list_low)
  BY <1>1 DEF Queued
<1>3. Grows(ready_list, ready_list) /\ Grows(ready_list_low, ready_list_low)
  BY <1>1, GrowsItself
<1> QED BY <1>1, <1>2, <1>3, PushServes DEF MakeReady, Serves

LEMMA AgingServes ==
  ASSUME IInv
  PROVE  /\ AgedHigh \in Seq(Thread) /\ Grows(ready_list, AgedHigh)
         /\ AgedLow \in Seq(Thread) /\ Grows(ready_list_low, AgedLow)
<1>1. ready_list \in Seq(Thread) /\ ready_list_low \in Seq(Thread)
  BY DEF IInv, TypeOK
<1>2. /\ Filter(ready_list_low, PromotedSet) \in Seq(Thread)
      /\ Elements(Filter(ready_list_low, PromotedSet)) \subseteq Elements(ready_list_low)
  BY <1>1, FilterKeeps
<1>3. Elements(ready_list) \cap Elements(ready_list_low) = {}
  <2>1. \A t \in Thread : count[t] \in Int
    BY SliceAssumption DEF IInv, TypeOK
  <2>2. Elements(ready_list) \subseteq Thread
    BY <1>1, ElementsAt
  <2> QED BY <2>1, <2>2 DEF IInv, RunQueues
<1>4. Grows(ready_list, AgedHigh)
  <2>1. Elements(ready_list) \cap Elements(Filter(ready_list_low, PromotedSet)) = {}
    BY <1>2, <1>3
  <2> QED BY <1>1, <1>2, <2>1, GrowsByConcat DEF AgedHigh
<1> QED BY <1>1, <1>4, AgingSettled, GrowsByFilter DEF AgedLow, Settled

LEMMA NextServes == ASSUME IInv, [Next]_vars PROVE Serves
<1>1. /\ TypeOK /\ RunQueues /\ Sleepers /\ StartUp
      /\ ready_list \in Seq(Thread) /\ ready_list_low \in Seq(Thread)
      /\ Grows(ready_list, ready_list) /\ Grows(ready_list_low, ready_list_low)
  BY GrowsItself DEF IInv, TypeOK
<1>2. CASE UNCHANGED <<ready_list, ready_list_low>>
  BY <1>1, <1>2 DEF Serves
<1>3. CASE Tick
  <2>1. CASE SliceOver
    <3>1. YieldFrom(AgedHigh, AgedLow, [AgedCount EXCEPT ![current] = NextLevel(@)])
      BY <1>3, <2>1 DEF Tick
    <3> QED BY <3>1, AgingServes, YieldServes
  <2>2. CASE ~SliceOver
    BY <1>3, <2>2, AgingServes DEF Tick, Serves
  <2> QED BY <2>1, <2>2
<1>4. ASSUME NEW st, Schedule(ready_list, ready_list_low, st, count) PROVE Serves
  BY <1>1, <1>4, ScheduleServes
<1>5. CASE StartIdle
  <2>1. current = Main /\ ready_list' = Append(ready_list, Idle) /\ UNCHANGED ready_list_low
    BY <1>5, BootThreads DEF StartIdle
  <2>2. status[Idle] = "FREE"
    BY <1>1, <1>5, <2>1 DEF StartIdle, StartUp
  <2>3. Idle \in Thread /\ Idle \notin Elements(ready_list)
    BY <1>1, <2>2, ThreadAssumption DEF RunQueues, Queued
  <2> QED BY <1>1, <2>1, <2>3, GrowsByPush DEF Serves
<1>6. ASSUME NEW t \in Thread, Unblock(t) PROVE Serves
  BY <1>1, <1>6, WakeServes DEF Unblock, Sleepers
<1>7. CASE EndCreate
  <2>1. child[current] \in Thread /\ status[child[current]] = "BLOCKED"
    BY <1>1, <1>7, CurrentNotQueued DEF EndCreate, Moves, Sleepers
  <2> QED BY <1>7, <2>1, WakeServes DEF EndCreate
<1>8. CASE IdleUp /\ Main \in waiters
  BY <1>1, <1>8, WakeServes, ThreadAssumption DEF IdleUp, Sleepers
<1>9. CASE Yield
  BY <1>1, <1>9, YieldServes DEF Yield
<1> QED BY <1>2, <1>3, <1>4, <1>5, <1>6, <1>7, <1>8, <1>9
        DEF Next, vars, StartWait, IdleEnter, IdleUp, IdleBlock, Block, Exit, BlockCurrent,
            Report, Create

(* Both lists are first come, first served: a thread that is promoted,      *)
(* demoted, woken or preempted goes behind every thread already waiting.    *)
THEOREM ServedInOrder == Spec => FirstComeFirstServed
<1>1. IInv /\ [Next]_vars => [/\ KeepsOrder(ready_list, ready_list')
                              /\ KeepsOrder(ready_list_low, ready_list_low')]_vars
  <2> SUFFICES ASSUME IInv, [Next]_vars
               PROVE  /\ KeepsOrder(ready_list, ready_list')
                      /\ KeepsOrder(ready_list_low, ready_list_low')
    OBVIOUS
  <2> QED BY NextServes, GrowsKeepsOrder DEF Serves, IInv, TypeOK, RunQueues
<1> QED BY <1>1, Invariance, PTL DEF Spec, FirstComeFirstServed

=============================================================================
