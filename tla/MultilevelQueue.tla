-------------------------- MODULE MultilevelQueue --------------------------
(***************************************************************************)
(* The two-level feedback scheduler of Pintos/Scheduler_changes/thread.c.  *)
(*                                                                         *)
(* One CPU.  A thread is named by the page that holds its struct thread,   *)
(* as in the code, so a page freed by palloc_free_page names a new thread  *)
(* once palloc_get_page hands it out again.  The sections of thread.c that *)
(* run with interrupts off, and the timer interrupt handler together with  *)
(* the thread_yield it requests through intr_yield_on_return, are single   *)
(* actions; wherever interrupts are on, Tick may fall between two actions  *)
(* of the running thread.                                                  *)
(***************************************************************************)
EXTENDS Integers, Sequences, Lists

CONSTANTS
  Thread,          (* pages that can hold a struct thread                   *)
  Main,            (* initial_thread, the thread that runs init.c:main()    *)
  Idle,            (* the page thread_start obtains for the idle thread     *)
  NoThread,        (* the NULL pointer                                      *)
  TIME_SLICE,      (* ticks a thread of ready_list runs before it yields    *)
  TIME_SLICE_LOW,  (* ticks a thread of ready_list_low runs                 *)
  WAITING_TIME     (* ticks in ready_list_low before a thread is promoted   *)

ASSUME ThreadAssumption ==
  /\ Main \in Thread
  /\ Idle \in Thread
  /\ Main # Idle
  /\ NoThread \notin Thread

(* count is an int8_t and reaches -WAITING_TIME - 1 before it is reset.     *)
ASSUME SliceAssumption ==
  /\ TIME_SLICE \in Nat \ {0}
  /\ TIME_SLICE_LOW \in Nat \ {0}
  /\ WAITING_TIME \in 1..127

VARIABLES
  status,          (* enum thread_status; "FREE" is a page palloc may hand out *)
  count,           (* struct thread's count: the level, the slices, the age *)
  ready_list,
  ready_list_low,
  current,         (* what running_thread() computes from the stack pointer *)
  idle_thread,
  thread_ticks,
  waiters,         (* threads asleep in some semaphore's list of waiters    *)
  idle_started,    (* value of the semaphore thread_start waits on          *)
  pc,              (* where a thread stands in its own code                 *)
  child            (* thread_create's local t                               *)

vars == <<status, count, ready_list, ready_list_low, current, idle_thread,
          thread_ticks, waiters, idle_started, pc, child>>

Status == {"FREE", "BLOCKED", "READY", "RUNNING", "DYING"}

(* "start", "start_wait": thread_start, before and at its sema_down.        *)
(* "run": between two calls into thread.c.                                  *)
(* "create", "report": thread_create, before and after its thread_unblock.  *)
(* "idle_enter", "idle_up", "idle_loop": the statements of idle().          *)
Location == {"start", "start_wait", "run", "create", "report",
             "idle_enter", "idle_up", "idle_loop"}

Queued == Elements(ready_list) \cup Elements(ready_list_low)

----------------------------------------------------------------------------
(* thread_init, and the program state at main()'s call of thread_start.     *)
Init ==
  /\ status = [t \in Thread |-> IF t = Main THEN "RUNNING" ELSE "FREE"]
  /\ count = [t \in Thread |-> 0]
  /\ ready_list = <<>>
  /\ ready_list_low = <<>>
  /\ current = Main
  /\ idle_thread = NoThread
  /\ thread_ticks = 0
  /\ waiters = {}
  /\ idle_started = 0
  /\ pc = [t \in Thread |-> IF t = Main THEN "start" ELSE "run"]
  /\ child = [t \in Thread |-> NoThread]

----------------------------------------------------------------------------
(* The definitions named Wrong... are mistakes that the runs must notice:    *)
(* PROJECT.json puts each in the place of the definition that follows it.   *)

(* Unblocking and yielding as before the second list: always to ready_list. *)
WrongPushHigh(t, cnt, high) == Append(high, t)

(* The lists after t is pushed back on the one its count selects.           *)
PushHigh(t, cnt, high) == IF cnt[t] < 0 THEN high ELSE Append(high, t)
PushLow(t, cnt, low) == IF cnt[t] < 0 THEN Append(low, t) ELSE low

(* The idle thread whenever ready_list is empty.                            *)
WrongNextThreadHighOnly(high, low) ==
  IF high # <<>>
  THEN [next |-> Head(high), high |-> Tail(high), low |-> low]
  ELSE [next |-> idle_thread, high |-> high, low |-> low]

(* The thread next_thread_to_run returns, and the lists it leaves.          *)
NextThreadToRun(high, low) ==
  CASE high # <<>> ->
         [next |-> Head(high), high |-> Tail(high), low |-> low]
    [] high = <<>> /\ low # <<>> ->
         [next |-> Head(low), high |-> high, low |-> Tail(low)]
    [] high = <<>> /\ low = <<>> ->
         [next |-> idle_thread, high |-> high, low |-> low]

(* thread_schedule_tail frees the page of a thread that died, except the    *)
(* initial thread's, which palloc did not provide.                          *)
Reaped(prev, st) ==
  IF st[prev] = "DYING" /\ prev # Main THEN [st EXCEPT ![prev] = "FREE"] ELSE st

(* schedule() without its reset of count.                                   *)
WrongChosen(next, cnt) == cnt

(* The age a thread gathered in ready_list_low ends when it is chosen.      *)
Chosen(next, cnt) ==
  [t \in Thread |-> IF t = next /\ cnt[t] < 0 THEN -1 ELSE cnt[t]]

(* schedule() with its switch_threads and thread_schedule_tail, entered     *)
(* with the lists, statuses and counts its caller has left.                 *)
Schedule(high, low, st, cnt) ==
  LET picked == NextThreadToRun(high, low)
  IN  /\ current' = picked.next
      /\ ready_list' = picked.high
      /\ ready_list_low' = picked.low
      /\ count' = Chosen(picked.next, cnt)
      /\ status' = [Reaped(current, st) EXCEPT ![picked.next] = "RUNNING"]
      /\ thread_ticks' = 0

(* thread_yield(): the idle thread is never put on a list.                  *)
YieldFrom(high, low, cnt) ==
  LET listed == current # idle_thread
  IN  Schedule(IF listed THEN PushHigh(current, cnt, high) ELSE high,
               IF listed THEN PushLow(current, cnt, low) ELSE low,
               [status EXCEPT ![current] = "READY"],
               cnt)

(* The effect of thread_unblock(t) on the lists and statuses.               *)
MakeReady(t) ==
  /\ ready_list' = PushHigh(t, count, ready_list)
  /\ ready_list_low' = PushLow(t, count, ready_list_low)
  /\ status' = [status EXCEPT ![t] = "READY"]

InterruptsOn == pc[current] # "start"

(* The running thread moves from one location of its code to another.       *)
Moves(from, to) ==
  /\ pc[current] = from
  /\ pc' = [pc EXCEPT ![current] = to]

----------------------------------------------------------------------------
(* thread_tick: age ready_list_low, then enforce preemption.                *)

(* thread_tick without its loop over ready_list_low.                        *)
WrongAging == FALSE

(* Threads of ready_list_low grow older only while the running thread       *)
(* belongs to ready_list.                                                   *)
Aging == count[current] >= 0

(* Promotion one tick late.                                                 *)
WrongPromotedSet ==
  {t \in Elements(ready_list_low) : Aging /\ count[t] < -WAITING_TIME}

PromotedSet ==
  {t \in Elements(ready_list_low) : Aging /\ count[t] - 1 < -WAITING_TIME}

(* Promoted threads pushed to the front.                                    *)
WrongAgedHigh == Filter(ready_list_low, PromotedSet) \o ready_list

AgedHigh == ready_list \o Filter(ready_list_low, PromotedSet)

AgedLow == Filter(ready_list_low, Thread \ PromotedSet)

AgedCount ==
  [t \in Thread |->
    IF t \in PromotedSet THEN 0
    ELSE IF Aging /\ t \in Elements(ready_list_low) THEN count[t] - 1
    ELSE count[t]]

(* The level and slice count of the running thread once its slice is over.  *)
NextLevel(c) ==
  CASE c < 0 -> c
    [] c = 0 -> 1
    [] c >= 1 -> -1

(* > for >=.                                                                *)
WrongSliceOverLate ==
  IF count[current] < 0
  THEN AgedHigh # <<>> \/ thread_ticks + 1 > TIME_SLICE_LOW
  ELSE thread_ticks + 1 > TIME_SLICE

SliceOver ==
  IF count[current] < 0
  THEN AgedHigh # <<>> \/ thread_ticks + 1 >= TIME_SLICE_LOW
  ELSE thread_ticks + 1 >= TIME_SLICE

Tick ==
  /\ InterruptsOn
  /\ \/ /\ SliceOver
        /\ YieldFrom(AgedHigh, AgedLow,
                     [AgedCount EXCEPT ![current] = NextLevel(@)])
     \/ /\ ~SliceOver
        /\ thread_ticks' = thread_ticks + 1
        /\ ready_list' = AgedHigh
        /\ ready_list_low' = AgedLow
        /\ count' = AgedCount
        /\ UNCHANGED <<status, current>>
  /\ UNCHANGED <<idle_thread, waiters, idle_started, pc, child>>

----------------------------------------------------------------------------
(* thread_start and idle: the start of preemptive scheduling.               *)

(* thread_create("idle") runs with interrupts off; then intr_enable().      *)
StartIdle ==
  /\ pc[current] = "start"
  /\ pc' = [pc EXCEPT ![current] = "start_wait", ![Idle] = "idle_enter"]
  /\ count' = [count EXCEPT ![Idle] = 0]
  /\ ready_list' = Append(ready_list, Idle)
  /\ status' = [status EXCEPT ![Idle] = "READY"]
  /\ UNCHANGED <<ready_list_low, current, idle_thread, thread_ticks, waiters,
                 idle_started, child>>

(* thread_block() of the current thread.                                    *)
BlockCurrent ==
  Schedule(ready_list, ready_list_low,
           [status EXCEPT ![current] = "BLOCKED"], count)

(* sema_down(&idle_started): sleep until the value is positive, then take   *)
(* one.                                                                     *)
StartWait ==
  \/ /\ idle_started > 0
     /\ Moves("start_wait", "run")
     /\ idle_started' = idle_started - 1
     /\ UNCHANGED <<status, count, ready_list, ready_list_low, current,
                    idle_thread, thread_ticks, waiters, child>>
  \/ /\ idle_started = 0
     /\ pc[current] = "start_wait"
     /\ waiters' = waiters \cup {current}
     /\ BlockCurrent
     /\ UNCHANGED <<idle_thread, idle_started, pc, child>>

IdleEnter ==
  /\ Moves("idle_enter", "idle_up")
  /\ idle_thread' = current
  /\ UNCHANGED <<status, count, ready_list, ready_list_low, current,
                 thread_ticks, waiters, idle_started, child>>

(* idle() that raises the semaphore and wakes no one.                       *)
WrongIdleUp ==
  /\ Moves("idle_up", "idle_loop")
  /\ idle_started' = idle_started + 1
  /\ UNCHANGED <<status, count, ready_list, ready_list_low, current,
                 idle_thread, thread_ticks, waiters, child>>

(* sema_up(idle_started) wakes the initial thread if it sleeps there.       *)
IdleUp ==
  /\ Moves("idle_up", "idle_loop")
  /\ idle_started' = idle_started + 1
  /\ waiters' = waiters \ {Main}
  /\ IF Main \in waiters
       THEN MakeReady(Main)
       ELSE UNCHANGED <<status, ready_list, ready_list_low>>
  /\ UNCHANGED <<count, current, idle_thread, thread_ticks, child>>

(* intr_disable(); thread_block(): the idle thread sleeps in no semaphore.  *)
IdleBlock ==
  /\ pc[current] = "idle_loop"
  /\ BlockCurrent
  /\ UNCHANGED <<idle_thread, waiters, idle_started, pc, child>>

----------------------------------------------------------------------------
(* The calls a running thread makes into thread.c.                          *)

(* thread_create up to intr_set_level: a zeroed page holds a blocked thread *)
(* that no list of sleeping threads knows.                                  *)
Create(t) ==
  /\ t # Idle
  /\ status[t] = "FREE"
  /\ Moves("run", "create")
  /\ status' = [status EXCEPT ![t] = "BLOCKED"]
  /\ count' = [count EXCEPT ![t] = 0]
  /\ child' = [child EXCEPT ![current] = t]
  /\ UNCHANGED <<ready_list, ready_list_low, current, idle_thread,
                 thread_ticks, waiters, idle_started>>

(* thread_create's thread_unblock(t), up to its intr_set_level.             *)
EndCreate ==
  /\ Moves("create", "report")
  /\ MakeReady(child[current])
  /\ UNCHANGED <<count, current, idle_thread, thread_ticks, waiters,
                 idle_started, child>>

(* thread_unblock's closing printf, of t->count and t->tid, interrupts on.  *)
Report ==
  /\ Moves("report", "run")
  /\ child' = [child EXCEPT ![current] = NoThread]
  /\ UNCHANGED <<status, count, ready_list, ready_list_low, current,
                 idle_thread, thread_ticks, waiters, idle_started>>

(* A thread that sleeps without being put in a list of waiters.             *)
WrongBlock ==
  /\ pc[current] = "run"
  /\ BlockCurrent
  /\ UNCHANGED <<idle_thread, waiters, idle_started, pc, child>>

(* A sema_down, lock_acquire or timer sleep that calls thread_block.        *)
Block ==
  /\ pc[current] = "run"
  /\ waiters' = waiters \cup {current}
  /\ BlockCurrent
  /\ UNCHANGED <<idle_thread, idle_started, pc, child>>

(* A sema_up by the running thread or by an interrupt handler wakes t.      *)
Unblock(t) ==
  /\ InterruptsOn
  /\ t \in waiters
  /\ pc[t] = "run"
  /\ waiters' = waiters \ {t}
  /\ MakeReady(t)
  /\ UNCHANGED <<count, current, idle_thread, thread_ticks, idle_started, pc,
                 child>>

Yield ==
  /\ pc[current] = "run"
  /\ YieldFrom(ready_list, ready_list_low, count)
  /\ UNCHANGED <<idle_thread, waiters, idle_started, pc, child>>

Exit ==
  /\ pc[current] = "run"
  /\ Schedule(ready_list, ready_list_low,
              [status EXCEPT ![current] = "DYING"], count)
  /\ UNCHANGED <<idle_thread, waiters, idle_started, pc, child>>

----------------------------------------------------------------------------
Boot == StartIdle \/ StartWait \/ IdleEnter \/ IdleUp

Next ==
  \/ Tick
  \/ StartIdle \/ StartWait \/ IdleEnter \/ IdleUp \/ IdleBlock
  \/ EndCreate \/ Report \/ Block \/ Yield \/ Exit
  \/ \E t \in Thread : Create(t) \/ Unblock(t)

(* The timer keeps interrupting, and the straight-line code of thread_start *)
(* and idle keeps advancing whenever it has the CPU between two ticks.      *)
Fairness == WF_vars(Tick) /\ SF_vars(Boot)

Spec == Init /\ [][Next]_vars

FairSpec == Spec /\ Fairness

----------------------------------------------------------------------------
TypeOK ==
  /\ status \in [Thread -> Status]
  /\ count \in [Thread -> -WAITING_TIME..1]
  /\ ready_list \in Seq(Thread)
  /\ ready_list_low \in Seq(Thread)
  /\ current \in Thread
  /\ idle_thread \in {Idle, NoThread}
  /\ thread_ticks \in Nat
  /\ waiters \subseteq Thread
  /\ idle_started \in 0..1
  /\ pc \in [Thread -> Location]
  /\ child \in [Thread -> Thread \cup {NoThread}]

(* No runnable thread is lost and none is queued twice, in two lists or in  *)
(* the list its count does not name (thread.h: count >= 0 for queue 1,      *)
(* count < 0 for queue 2), through unblocking, demotion and promotion; the  *)
(* idle thread, once known, is in neither.                                  *)
RunQueues ==
  /\ NoDuplicates(ready_list)
  /\ NoDuplicates(ready_list_low)
  /\ Queued = {t \in Thread : status[t] = "READY" /\ t # idle_thread}
  /\ \A t \in Elements(ready_list) : count[t] >= 0
  /\ \A t \in Elements(ready_list_low) : count[t] < 0

(* The assertions of thread_current and schedule: the thread that has the   *)
(* CPU exists and is RUNNING, and no other thread is.                       *)
CurrentRunning ==
  {t \in Thread : status[t] = "RUNNING"} = {current}

(* A thread that sleeps is known to whoever must wake it, so thread_unblock *)
(* finds every thread it is given BLOCKED: the threads in no semaphore are  *)
(* the new ones, each in the hands of one creator, and the idle one.        *)
Sleepers ==
  /\ \A t \in waiters : status[t] = "BLOCKED" /\ t # idle_thread
  /\ \A t \in Thread : pc[t] = "create" =>
       /\ child[t] \in Thread \ (waiters \cup {idle_thread, Main})
       /\ status[child[t]] = "BLOCKED"
  /\ \A t \in Thread :
       (status[t] = "BLOCKED" /\ t \notin waiters /\ t # idle_thread) =>
         \E p \in Thread : pc[p] = "create" /\ child[p] = t
  /\ \A p, q \in Thread :
       (pc[p] = "create" /\ pc[q] = "create" /\ child[p] = child[q]) => p = q

IdleCode == {"idle_enter", "idle_up", "idle_loop"}

(* thread_start does not return, so no thread but the first two exists,     *)
(* before idle_thread is set: from then on next_thread_to_run, which        *)
(* returns idle_thread when both lists are empty, never returns NULL.       *)
StartUp ==
  /\ pc[Main] = "start" => current = Main /\ status[Idle] = "FREE"
  /\ pc[Main] = "start" <=> pc[Idle] = "run"
  /\ pc[Main] \notin {"start", "start_wait"} => pc[Idle] = "idle_loop"
  /\ pc[Idle] \in IdleCode \cup {"run"}
  /\ pc[Idle] \in IdleCode => status[Idle] \notin {"FREE", "DYING"}
  /\ pc[Idle] = "idle_enter" => status[Idle] # "BLOCKED"
  /\ idle_thread = IF pc[Idle] \in {"idle_up", "idle_loop"} THEN Idle ELSE NoThread
  /\ idle_started > 0 => pc[Idle] = "idle_loop"
  /\ status[Main] # "FREE"
  /\ \A t \in Thread \ {Main} :
       /\ pc[t] \notin {"start", "start_wait"}
       /\ t # Idle => pc[t] \notin IdleCode
       /\ t # Idle /\ pc[Main] \in {"start", "start_wait"} => status[t] = "FREE"
  /\ pc[Main] \notin IdleCode

(* The thread next in ready_list_low has waited longest: no thread ages     *)
(* past one that entered the list before it, so promotion keeps the order.  *)
OldestFirst ==
  \A i, j \in 1..Len(ready_list_low) :
    i <= j => count[ready_list_low[i]] <= count[ready_list_low[j]]

(* A slice of TIME_SLICE or TIME_SLICE_LOW ticks is never overrun, however  *)
(* the running thread came to its level.                                    *)
SliceBound ==
  thread_ticks < IF count[current] < 0 THEN TIME_SLICE_LOW ELSE TIME_SLICE

(* A thread of ready_list_low is given the CPU only if no thread, promoted  *)
(* or woken in the same step ones included, waits in ready_list.            *)
HighLevelFirst ==
  [][(current' # current /\ current' # idle_thread /\ count'[current'] < 0)
     => ready_list' = <<>>]_vars

(* While a thread waits in one list it keeps its place: whoever was ahead   *)
(* of it may leave, and no one gets ahead of it.                            *)
KeepsOrder(list, list2) ==
  \A i2, j2 \in 1..Len(list2) : i2 < j2 =>
    \A j \in 1..Len(list) :
      list[j] = list2[j2] => \E i \in 1..(j - 1) : list[i] = list2[i2]

FirstComeFirstServed ==
  [][/\ KeepsOrder(ready_list, ready_list')
     /\ KeepsOrder(ready_list_low, ready_list_low')]_vars

(* thread_start returns.                                                    *)
BootCompletes == <>(pc[Main] = "run")

(* The queues and levels do no more than order the threads of a             *)
(* work-conserving dispatcher that loses and duplicates none.               *)
D == INSTANCE Dispatcher WITH running <- current, ready <- Queued

Dispatches == D!Spec

(* A thread in ready_list or ready_list_low gets the CPU in the end, even   *)
(* while new threads of the high level keep coming: the aging of            *)
(* thread_tick outweighs the priority of next_thread_to_run.                *)
NeverStarves == D!NoStarvation
=============================================================================
