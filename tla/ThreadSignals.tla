--------------------------- MODULE ThreadSignals ---------------------------
(***************************************************************************)
(* The signals of Pintos/Added_Signals (signal.c, thread.c).               *)
(*                                                                         *)
(* A page holds a struct thread and the kernel stack of its thread, so one *)
(* record per page holds the struct's members, the place where the thread  *)
(* stands in its own code, and the one local variable that survives a      *)
(* switch.  Signals are queued by page, parents are known by tid: pages    *)
(* are reused, tids are not.  The scheduler runs with interrupts off from  *)
(* schedule() to the end of handleSignals, during which delivering holds   *)
(* and nothing else happens; elsewhere a tick may fall between two actions.*)
(* The threads sleep in thread_block and in a semaphore of their own, as   *)
(* well as in tid_lock's.  The specification starts where thread_start     *)
(* returns.                                                                *)
(***************************************************************************)
EXTENDS Integers, Sequences, FiniteSets, Lists

CONSTANTS
  Page,        (* pages that can hold a struct thread                       *)
  Main,        (* initial_thread                                            *)
  Idle,        (* idle_thread                                               *)
  NoPage,      (* the NULL pointer                                          *)
  TIME_SLICE,  (* ticks a thread runs before it yields                      *)
  MaxTid,      (* bound of the model: tids run up to this one               *)
  MaxAge,      (* ages are counted up to this one, past every lifetime      *)
  MaxValue,    (* bound of the model: the semaphore's value                 *)
  Sleeps,      (* calls the threads sleep in: thread_block, sema_down       *)
  Lifetimes,   (* values the threads pass to setlifetime                    *)
  Sent,        (* types they pass to kill,                                  *)
  Maskable,    (* to sigprocmask,                                           *)
  Ignorable    (* and to signal                                             *)

SigType == {"SIG_KILL", "SIG_UBLOCK", "SIG_USR", "SIG_CHLD", "SIG_CPU"}

ASSUME PageAssumption ==
  /\ Main \in Page /\ Idle \in Page /\ Main # Idle /\ NoPage \notin Page

(* kill() rejects the types that only the kernel sends.                     *)
ASSUME InputAssumption ==
  /\ TIME_SLICE \in Nat \ {0}
  /\ MaxTid \in Nat
  /\ MaxAge \in Nat
  /\ MaxValue \in Nat
  /\ Lifetimes \subseteq 0..(MaxAge - 1)
  /\ Sent \subseteq {"SIG_KILL", "SIG_UBLOCK", "SIG_USR"}
  /\ Maskable \subseteq SigType
  /\ Ignorable \subseteq SigType

ASSUME MemoryAssumption == IsFiniteSet(Page)

VARIABLES
  thread,        (* the struct thread and the stack of every page           *)
  ready_list,
  sig_list,      (* pending signals; "to" is history: the receiver's tid    *)
  current,       (* running_thread()                                        *)
  delivering,    (* thread_schedule_tail is about to call handleSignals     *)
  thread_ticks,
  next_tid,
  tid_lock,      (* tid_lock's holder, NULL while the lock is free          *)
  tid_waiters,   (* the threads asleep in tid_lock's semaphore              *)
  sema,          (* a semaphore that the threads share                      *)
  wakers,        (* whom a call of thread_unblock is still to wake          *)
  panicked       (* an ASSERT has failed and stopped the kernel             *)

vars == <<thread, ready_list, sig_list, current, delivering, thread_ticks,
          next_tid, tid_lock, tid_waiters, sema, wakers, panicked>>

(* "unborn": never run.  "run": between two calls into the modelled code.   *)
(* "asleep": in a thread_block that somebody's thread_unblock ends.         *)
(* "down": in the loop of sema_down, interrupts off.                        *)
(* "new", "locked", "numbered", "made": thread_create, before lock_acquire, *)
(* holding tid_lock, with a tid, before its thread_unblock.                 *)
Location ==
  {"unborn", "run", "asleep", "down", "new", "locked", "numbered", "made", "idle"}

(* init_thread: a zeroed struct thread, BLOCKED.                            *)
Zeroed ==
  [tid |-> 0, status |-> "BLOCKED", parent |-> 0, sigign |-> {}, sigmask |-> {},
   age |-> 0, maxlifetime |-> 0, child |-> 0, dchild |-> 0,
   pc |-> "unborn", newborn |-> NoPage, intr_off |-> FALSE]

Freed == [Zeroed EXCEPT !.status = "FREE"]

(* The members of all_list.                                                 *)
Live(th) == {p \in Page : th[p].status \notin {"FREE", "DYING"}}

(* Threads that thread_create has not given a stack to switch to, nor a     *)
(* parent, whose tid is never 0.                                            *)
HalfBuilt == {p \in Live(thread) : thread[p].parent = 0}

----------------------------------------------------------------------------
(* thread_init and thread_start: main created the idle thread (its child    *)
(* count went from -1 to 0), which disowned itself and sleeps.              *)
Init ==
  /\ thread = [p \in Page |->
       CASE p = Main -> [Zeroed EXCEPT !.tid = 1, !.status = "RUNNING",
                           !.parent = -1, !.sigign = SigType, !.pc = "run"]
         [] p = Idle -> [Zeroed EXCEPT !.tid = 2, !.parent = -1,
                           !.sigign = SigType, !.pc = "idle"]
         [] OTHER -> Freed]
  /\ ready_list = <<>>
  /\ sig_list = <<>>
  /\ current = Main
  /\ delivering = FALSE
  /\ thread_ticks = 0
  /\ next_tid = 3
  /\ tid_lock = NoPage
  /\ tid_waiters = <<>>
  /\ sema = [value |-> 0, waiters |-> <<>>]
  /\ wakers = {}
  /\ panicked = FALSE

----------------------------------------------------------------------------
(* The definitions named Wrong... are mistakes that the runs must notice:   *)
(* PROJECT.json puts each in the place of the definition that follows it.   *)

(* Without the search for a pending signal of the same type.                *)
WrongQueued(sigs, th, type, sender, p) ==
  Append(sigs, [sig |-> type, sender |-> sender, receiver |-> p,
                to |-> th[p].tid])

(* A signal of a type is pending once per receiver, from its last sender.   *)
Queued(sigs, th, type, sender, p) ==
  LET same(i) == sigs[i].receiver = p /\ sigs[i].sig = type
      entry == [sig |-> type, sender |-> sender, receiver |-> p,
                to |-> th[p].tid]
  IN  IF \E i \in 1..Len(sigs) : same(i)
      THEN [i \in 1..Len(sigs) |->
              IF same(i) /\ \A j \in 1..(i - 1) : ~same(j)
              THEN entry ELSE sigs[i]]
      ELSE Append(sigs, entry)

(* The thread that is to run stays on ready_list: list_front instead of     *)
(* list_pop_front.                                                          *)
WrongSchedule(ready, th) ==
  LET next == IF ready = <<>> THEN Idle ELSE Head(ready)
  IN  /\ thread' = [th EXCEPT ![next].status = "RUNNING"]
      /\ ready_list' = ready
      /\ current' = next
      /\ thread_ticks' = 0
      /\ delivering' = TRUE

(* schedule(), switch_threads and thread_schedule_tail up to its call of    *)
(* handleSignals, entered with the list and the threads its caller leaves.  *)
Schedule(ready, th) ==
  LET next == IF ready = <<>> THEN Idle ELSE Head(ready)
      reaped == IF th[current].status = "DYING" /\ current # Main
                THEN [th EXCEPT ![current] = Freed] ELSE th
  IN  /\ thread' = [reaped EXCEPT ![next].status = "RUNNING"]
      /\ ready_list' = IF ready = <<>> THEN <<>> ELSE Tail(ready)
      /\ current' = next
      /\ thread_ticks' = 0
      /\ delivering' = TRUE

(* thread_yield(): the idle thread is put on no list.                       *)
YieldFrom(th) ==
  Schedule(IF current = Idle THEN ready_list ELSE Append(ready_list, current),
           [th EXCEPT ![current].status = "READY"])

BlockAt(pc) ==
  Schedule(ready_list, [thread EXCEPT ![current].status = "BLOCKED",
                                      ![current].pc = pc])

(* thread_unblock's effect on a struct thread.                              *)
Woken(r) ==
  [r EXCEPT !.status = "READY",
            !.pc = IF @ \in {"unborn", "asleep"} THEN "run" ELSE @]

(* thread_exit that leaves the parent of its children alone.                *)
WrongOrphaned(th) == th

(* Children of a thread that exits lose their parent.                       *)
Orphaned(th) ==
  [p \in Page |->
    IF p \in Live(th) /\ th[p].parent = th[current].tid
    THEN [th[p] EXCEPT !.parent = -1] ELSE th[p]]

Parents(th) == {p \in Live(th) : th[p].tid = th[current].parent}

(* thread_exit() of the current thread: SIG_CHLD for its parent, if alive.  *)
ExitFrom(ready, sigs, th) ==
  /\ sig_list' = IF Parents(th) = {} THEN sigs
                 ELSE LET parent == CHOOSE p \in Parents(th) : TRUE
                      IN  Queued(sigs, th, "SIG_CHLD", -1, parent)
  /\ Schedule(ready, [Orphaned(th) EXCEPT ![current].status = "DYING"])

----------------------------------------------------------------------------
(* handleSignals: what the switch to current delivers.                      *)

(* SIG_KILL masked like every other type.                                   *)
WrongTakenMasked(e) ==
  LET r == thread[e.receiver]
  IN  IF e.sig = "SIG_UBLOCK"
      THEN /\ r.status # "FREE"
           /\ "SIG_UBLOCK" \notin r.sigmask
           /\ "SIG_UBLOCK" \in r.sigign
      ELSE e.receiver = current /\ e.sig \notin r.sigmask

(* Whether the walk takes e from sig_list: a SIG_UBLOCK whoever its         *)
(* receiver is, another type if current receives it.                        *)
Taken(e) ==
  LET r == thread[e.receiver]
  IN  IF e.sig = "SIG_UBLOCK"
      THEN /\ r.status # "FREE"
           /\ "SIG_UBLOCK" \notin r.sigmask
           /\ "SIG_UBLOCK" \in r.sigign
      ELSE /\ e.receiver = current
           /\ e.sig = "SIG_KILL" \/ e.sig \notin r.sigmask

(* The mask that decides on a SIG_UBLOCK whose receiver's page is free is   *)
(* whatever palloc left there.                                              *)
Dangling ==
  {e \in Elements(sig_list) :
     e.sig = "SIG_UBLOCK" /\ thread[e.receiver].status = "FREE"}

(* thread_unblock without the test of the receiver's status.                *)
WrongToUnblock ==
  {e \in Elements(sig_list) : e.sig = "SIG_UBLOCK" /\ Taken(e)}

ToUnblock ==
  {e \in Elements(sig_list) :
     /\ e.sig = "SIG_UBLOCK" /\ Taken(e)
     /\ thread[e.receiver].status = "BLOCKED"}

(* SIG_CHLD handled and left in the list.                                   *)
WrongKept(gone) ==
  {e \in Elements(sig_list) : e.sig = "SIG_CHLD" \/ ~Taken(e)} \ gone

Kept(gone) == {e \in Elements(sig_list) : ~Taken(e)} \ gone

(* clock_count - starttime > maxlifetime, for a thread with a lifetime.     *)
Expired(r) == r.maxlifetime # 0 /\ r.age > r.maxlifetime

(* A lifetime that is never checked.                                        *)
WrongDelivered ==
  {e.sig : e \in {f \in Elements(sig_list) : f.sig # "SIG_UBLOCK" /\ Taken(f)}}

(* sigd: the types delivered to current.                                    *)
Delivered ==
  {e.sig : e \in {f \in Elements(sig_list) : f.sig # "SIG_UBLOCK" /\ Taken(f)}}
    \cup {s \in {"SIG_CPU"} : /\ s \notin thread[current].sigmask
                              /\ Expired(thread[current])}

(* The default handlers run for the types current does not ignore; a        *)
(* SIG_KILL is handled even then.                                           *)
Handled == (Delivered \cap thread[current].sigign)
             \cup (Delivered \cap {"SIG_KILL"})

HandleSignals ==
  /\ delivering
  /\ \E gone \in SUBSET Dangling :
       LET wakes == Filter(sig_list, ToUnblock)
           ready == ready_list \o [i \in 1..Len(wakes) |-> wakes[i].receiver]
           sigs == Filter(sig_list, Kept(gone))
           woken == {e.receiver : e \in ToUnblock}
           th == [p \in Page |->
                   IF p \in woken THEN Woken(thread[p])
                   ELSE IF p = current /\ "SIG_CHLD" \in Handled
                   THEN [thread[p] EXCEPT !.dchild = @ + 1]
                   ELSE thread[p]]
       IN  IF Handled \cap {"SIG_CPU", "SIG_KILL"} # {}
           THEN ExitFrom(ready, sigs, th)
           ELSE /\ thread' = th
                /\ ready_list' = ready
                /\ sig_list' = sigs
                /\ delivering' = FALSE
                /\ UNCHANGED <<current, thread_ticks>>
  /\ UNCHANGED <<next_tid, tid_lock, tid_waiters, sema, wakers, panicked>>

----------------------------------------------------------------------------
(* The timer and the calls of a running thread.                             *)

SliceOver == thread_ticks + 1 >= TIME_SLICE

At(pc) == ~delivering /\ thread[current].pc = pc

Interruptible == ~thread[current].intr_off /\ thread[current].pc # "down"

(* thread_tick.  clock_count is kept as every thread's age.                 *)
Tick ==
  /\ ~delivering
  /\ Interruptible
  /\ LET older == [p \in Page |->
           IF p \in Live(thread) /\ thread[p].age < MaxAge
           THEN [thread[p] EXCEPT !.age = @ + 1] ELSE thread[p]]
     IN  \/ SliceOver /\ YieldFrom(older)
         \/ /\ ~SliceOver
            /\ thread' = older
            /\ thread_ticks' = thread_ticks + 1
            /\ UNCHANGED <<ready_list, current, delivering>>
  /\ UNCHANGED <<sig_list, next_tid, tid_lock, tid_waiters, sema, wakers,
                 panicked>>

Yield ==
  /\ At("run")
  /\ YieldFrom(thread)
  /\ UNCHANGED <<sig_list, next_tid, tid_lock, tid_waiters, sema, wakers,
                 panicked>>

(* A thread_block outside a semaphore: the caller has told somebody whom to *)
(* wake.                                                                    *)
Block ==
  /\ At("run") /\ "thread_block" \in Sleeps
  /\ BlockAt("asleep")
  /\ wakers' = wakers \cup {current}
  /\ UNCHANGED <<sig_list, next_tid, tid_lock, tid_waiters, sema, panicked>>

IdleBlock ==
  /\ At("idle")
  /\ BlockAt("idle")
  /\ UNCHANGED <<sig_list, next_tid, tid_lock, tid_waiters, sema, wakers,
                 panicked>>

(* Who can call thread_unblock and sema_up: a thread, or the handler of an  *)
(* interrupt.                                                               *)
CanCall == At("run") \/ (~delivering /\ Interruptible)

(* thread_unblock for a thread that has called thread_block.  It asserts    *)
(* that t is BLOCKED.                                                       *)
Unblock(t) ==
  /\ CanCall
  /\ t \in wakers
  /\ wakers' = wakers \ {t}
  /\ IF thread[t].status = "BLOCKED"
     THEN /\ thread' = [thread EXCEPT ![t] = Woken(@)]
          /\ ready_list' = Append(ready_list, t)
          /\ UNCHANGED panicked
     ELSE /\ panicked' = TRUE
          /\ UNCHANGED <<thread, ready_list>>
  /\ UNCHANGED <<sig_list, current, delivering, thread_ticks, next_tid,
                 tid_lock, tid_waiters, sema>>

(* sema_down: a thread that is woken tests the value again.                 *)
Down ==
  /\ (At("run") /\ "sema_down" \in Sleeps) \/ At("down")
  /\ IF sema.value = 0
     THEN /\ sema' = [sema EXCEPT !.waiters = Append(@, current)]
          /\ BlockAt("down")
     ELSE /\ sema' = [sema EXCEPT !.value = @ - 1]
          /\ thread' = [thread EXCEPT ![current].pc = "run"]
          /\ UNCHANGED <<ready_list, current, delivering, thread_ticks>>
  /\ UNCHANGED <<sig_list, next_tid, tid_lock, tid_waiters, wakers, panicked>>

(* sema_up.  A waiter that is neither ready nor running is BLOCKED, as      *)
(* thread_unblock asserts; the others make the state Undefined.             *)
Up ==
  /\ CanCall /\ sema.value < MaxValue
  /\ IF sema.waiters = <<>>
     THEN UNCHANGED <<thread, ready_list>>
     ELSE /\ thread' = [thread EXCEPT ![Head(sema.waiters)] = Woken(@)]
          /\ ready_list' = Append(ready_list, Head(sema.waiters))
  /\ sema' = [value |-> sema.value + 1,
              waiters |-> IF sema.waiters = <<>> THEN <<>> ELSE Tail(sema.waiters)]
  /\ UNCHANGED <<sig_list, current, delivering, thread_ticks, next_tid,
                 tid_lock, tid_waiters, wakers, panicked>>

Exit ==
  /\ At("run")
  /\ ExitFrom(ready_list, sig_list, thread)
  /\ UNCHANGED <<next_tid, tid_lock, tid_waiters, sema, wakers, panicked>>

(* A failed ASSERT.                                                         *)
Panic ==
  /\ panicked' = TRUE
  /\ UNCHANGED <<thread, ready_list, sig_list, current, delivering,
                 thread_ticks, next_tid, tid_lock, tid_waiters, sema, wakers>>

----------------------------------------------------------------------------
(* thread_create.                                                           *)

(* palloc_get_page and init_thread: the thread is in all_list from here on. *)
BeginCreate(t) ==
  /\ At("run")
  /\ next_tid <= MaxTid
  /\ thread[t].status = "FREE"
  /\ thread' = [thread EXCEPT ![t] = Zeroed, ![current].pc = "new",
                              ![current].newborn = t]
  /\ UNCHANGED <<ready_list, sig_list, current, delivering, thread_ticks,
                 next_tid, tid_lock, tid_waiters, sema, wakers, panicked>>

(* allocate_tid's lock_acquire.                                             *)
AcquireTidLock ==
  /\ At("new")
  /\ \/ /\ tid_lock = NoPage
        /\ tid_lock' = current
        /\ thread' = [thread EXCEPT ![current].pc = "locked"]
        /\ UNCHANGED <<ready_list, sig_list, current, delivering,
                       thread_ticks, next_tid, tid_waiters, sema, wakers,
                       panicked>>
     \/ /\ tid_lock # NoPage
        /\ tid_waiters' = Append(tid_waiters, current)
        /\ BlockAt("new")
        /\ UNCHANGED <<sig_list, next_tid, tid_lock, sema, wakers, panicked>>

(* allocate_tid without its lock_release.                                   *)
WrongTakeTidLocked ==
  /\ At("locked")
  /\ thread' = [thread EXCEPT ![current].pc = "numbered",
                              ![thread[current].newborn].tid = next_tid]
  /\ next_tid' = next_tid + 1
  /\ UNCHANGED <<ready_list, tid_waiters, tid_lock, sig_list, current,
                 delivering, thread_ticks, sema, wakers, panicked>>

(* The waiter that lock_release wakes stays on the list of waiters.         *)
WrongTakeTidFront ==
  /\ At("locked")
  /\ LET named == [thread EXCEPT ![current].pc = "numbered",
                                 ![thread[current].newborn].tid = next_tid]
     IN  IF tid_waiters = <<>>
         THEN thread' = named /\ UNCHANGED ready_list
         ELSE /\ thread' = [named EXCEPT ![Head(tid_waiters)] = Woken(@)]
              /\ ready_list' = Append(ready_list, Head(tid_waiters))
  /\ next_tid' = next_tid + 1
  /\ tid_lock' = NoPage
  /\ UNCHANGED <<tid_waiters, sig_list, current, delivering, thread_ticks,
                 sema, wakers, panicked>>

(* next_tid++ and lock_release, which wakes the first waiter; t->tid.       *)
TakeTid ==
  /\ At("locked")
  /\ LET named == [thread EXCEPT ![current].pc = "numbered",
                                 ![thread[current].newborn].tid = next_tid]
     IN  IF tid_waiters = <<>>
         THEN /\ thread' = named
              /\ UNCHANGED <<ready_list, tid_waiters>>
         ELSE /\ thread' = [named EXCEPT ![Head(tid_waiters)] = Woken(@)]
              /\ ready_list' = Append(ready_list, Head(tid_waiters))
              /\ tid_waiters' = Tail(tid_waiters)
  /\ next_tid' = next_tid + 1
  /\ tid_lock' = NoPage
  /\ UNCHANGED <<sig_list, current, delivering, thread_ticks, sema, wakers,
                 panicked>>

(* thread_create between intr_disable and intr_set_level.                   *)
FillIn ==
  /\ At("numbered")
  /\ thread' = [thread EXCEPT
       ![current].pc = "made",
       ![current].child = @ + 1,
       ![thread[current].newborn] =
          [@ EXCEPT !.parent = thread[current].tid, !.sigign = SigType,
                    !.sigmask = {}, !.age = 0, !.maxlifetime = 0,
                    !.child = 0, !.dchild = 0]]
  /\ UNCHANGED <<ready_list, sig_list, current, delivering, thread_ticks,
                 next_tid, tid_lock, tid_waiters, sema, wakers, panicked>>

(* thread_unblock(t), which asserts that t is BLOCKED.                      *)
EndCreate ==
  /\ At("made")
  /\ LET t == thread[current].newborn
     IN  IF thread[t].status = "BLOCKED"
         THEN /\ thread' = [thread EXCEPT ![t] = Woken(@),
                                          ![current].pc = "run",
                                          ![current].newborn = NoPage]
              /\ ready_list' = Append(ready_list, t)
              /\ UNCHANGED <<sig_list, current, delivering, thread_ticks,
                             next_tid, tid_lock, tid_waiters, sema, wakers,
                             panicked>>
         ELSE Panic

----------------------------------------------------------------------------
(* The calls of signal.c.                                                   *)

(* signal(): SIG_DFL keeps a type among those that are handled.             *)
Signal(s, a) ==
  /\ At("run")
  /\ thread' = [thread EXCEPT ![current].sigign =
                  IF a = "SIG_DFL" THEN @ \cup {s} ELSE @ \ {s}]
  /\ UNCHANGED <<ready_list, sig_list, current, delivering, thread_ticks,
                 next_tid, tid_lock, tid_waiters, sema, wakers, panicked>>

SigProcMask(how, set) ==
  /\ At("run")
  /\ thread' = [thread EXCEPT ![current].sigmask =
                  CASE how = "SIG_BLOCK" -> @ \cup set
                    [] how = "SIG_UNBLOCK" -> @ \ set
                    [] how = "SIG_SETMASK" -> set]
  /\ UNCHANGED <<ready_list, sig_list, current, delivering, thread_ticks,
                 next_tid, tid_lock, tid_waiters, sema, wakers, panicked>>

SetLifetime(x) ==
  /\ At("run")
  /\ thread' = [thread EXCEPT ![current].maxlifetime = x]
  /\ UNCHANGED <<ready_list, sig_list, current, delivering, thread_ticks,
                 next_tid, tid_lock, tid_waiters, sema, wakers, panicked>>

(* kill() that lets every thread kill.                                      *)
WrongAllowed(s, dt) == TRUE

(* Only its parent kills a thread.                                          *)
Allowed(s, dt) ==
  s = "SIG_KILL" => thread[dt].parent = thread[current].tid

(* kill(): both early returns come after intr_disable and leave interrupts  *)
(* off.  get_thread finds a live thread, also one without a tid yet.        *)
Kill(tid, s) ==
  /\ At("run")
  /\ LET found == {p \in Live(thread) : thread[p].tid = tid}
     IN  \/ \E dt \in found :
              /\ Allowed(s, dt)
              /\ sig_list' = Queued(sig_list, thread, s, thread[current].tid, dt)
              /\ UNCHANGED thread
         \/ /\ found = {} \/ \E dt \in found : ~Allowed(s, dt)
            /\ thread' = [thread EXCEPT ![current].intr_off = TRUE]
            /\ UNCHANGED sig_list
  /\ UNCHANGED <<ready_list, current, delivering, thread_ticks, next_tid,
                 tid_lock, tid_waiters, sema, wakers, panicked>>

----------------------------------------------------------------------------
(* The threads whose elem is on the list of a semaphore.                    *)
Waiting == Elements(tid_waiters) \cup Elements(sema.waiters)

(* What the elem of a struct thread on two lists, or a switch to a thread   *)
(* without a stack, leads to is undefined: no step is modelled from there.  *)
Undefined ==
  (Elements(ready_list) \cup {current}) \cap (Waiting \cup HalfBuilt) # {}

Step ==
  \/ HandleSignals \/ Tick \/ Yield \/ Block \/ Down \/ Up \/ IdleBlock \/ Exit
  \/ \E t \in Page : BeginCreate(t) \/ Unblock(t)
  \/ AcquireTidLock \/ TakeTid \/ FillIn \/ EndCreate
  \/ \E s \in Ignorable : Signal(s, "SIG_DFL") \/ Signal(s, "SIG_IGN")
  \/ \E how \in {"SIG_BLOCK", "SIG_UNBLOCK", "SIG_SETMASK"} :
       \E set \in SUBSET Maskable : SigProcMask(how, set)
  \/ \E x \in Lifetimes : SetLifetime(x)
  \/ \E tid \in 0..MaxTid, s \in Sent : Kill(tid, s)

Next == ~panicked /\ ~Undefined /\ Step

Spec == Init /\ [][Next]_vars

(* thread_create, and sema_down for a thread that is awake.                 *)
Advance ==
  AcquireTidLock \/ TakeTid \/ FillIn \/ EndCreate \/ (At("down") /\ Down)

(* The timer keeps interrupting, handleSignals is straight-line code, and   *)
(* so is what Advance does, whenever it has the CPU.                        *)
Fairness ==
  /\ WF_vars(Next /\ Tick)
  /\ WF_vars(Next /\ HandleSignals)
  /\ \A p \in Page : SF_vars(Next /\ current = p /\ Advance)

FairSpec == Spec /\ Fairness

----------------------------------------------------------------------------
TypeOK ==
  /\ thread \in [Page ->
       [tid : Nat, status : {"FREE", "BLOCKED", "READY", "RUNNING", "DYING"},
        parent : Nat \cup {-1}, sigign : SUBSET SigType,
        sigmask : SUBSET SigType, age : 0..MaxAge, maxlifetime : 0..MaxAge,
        child : Nat, dchild : Nat, pc : Location,
        newborn : Page \cup {NoPage}, intr_off : BOOLEAN]]
  /\ ready_list \in Seq(Page)
  /\ sig_list \in Seq([sig : SigType, sender : Nat \cup {-1},
                       receiver : Page, to : Nat])
  /\ current \in Page
  /\ delivering \in BOOLEAN
  /\ thread_ticks \in 0..(TIME_SLICE - 1)
  /\ next_tid \in Nat
  /\ tid_lock \in Page \cup {NoPage}
  /\ tid_waiters \in Seq(Page)
  /\ sema \in [value : 0..MaxValue, waiters : Seq(Page)]
  /\ wakers \in SUBSET Page
  /\ panicked \in BOOLEAN

(* No runnable thread is lost or queued twice and exactly one runs, whoever *)
(* is unblocked or killed in the middle of a switch.  A SIG_UBLOCK may lead *)
(* to a state that is Undefined or to a failed ASSERT: this holds up to     *)
(* that state and in it, not beyond.                                        *)
RunQueue ==
  /\ NoDuplicates(ready_list)
  /\ {p \in Page : thread[p].status = "RUNNING"} = {current}
  /\ \A p \in Elements(ready_list) : thread[p].status = "READY"
  /\ \A p \in Page \ {Idle} :
       thread[p].status = "READY" => p \in Elements(ready_list)

(* Readme: multiple same signals to the same thread are queued up as a      *)
(* single signal, through kill, thread_exit and the reuse of pages.         *)
OnePendingPerType ==
  \A i, j \in 1..Len(sig_list) :
    (/\ sig_list[i].receiver = sig_list[j].receiver
     /\ sig_list[i].sig = sig_list[j].sig) => i = j

(* A pending SIG_KILL was sent by the parent of the thread that will die of *)
(* it, and to that thread, not to an earlier one on its page; the parent    *)
(* may have exited since.                                                   *)
KilledByParent ==
  \A e \in Elements(sig_list) : e.sig = "SIG_KILL" =>
    LET r == thread[e.receiver]
    IN  e.receiver \in Live(thread) /\ e.to = r.tid /\ r.parent \in {e.sender, -1}

(* A thread that was sent SIG_KILL executes no more code of its own,        *)
(* whatever it masks or ignores.                                            *)
KilledNeverRuns ==
  ~delivering => \A e \in Elements(sig_list) :
                   e.sig = "SIG_KILL" => e.receiver # current

(* Overview: the parent of an orphan becomes -1, so no thread can pass for  *)
(* the parent of another's child; nobody but the two first threads and the  *)
(* orphans is without a parent, and no one is its own.                      *)
FamilyTree ==
  /\ \A p, q \in Live(thread) :
       (thread[p].tid = thread[q].tid /\ thread[p].tid # 0) => p = q
  /\ \A p \in Live(thread) : thread[p].pc # "unborn" =>
       \/ thread[p].parent = -1
       \/ \E q \in Live(thread) \ {p} : thread[q].tid = thread[p].parent

(* The number of children that the SIG_CHLD handler prints as alive, child  *)
(* - dchild, never falls short of those that are, though thread_exit counts *)
(* nothing and pages are reused.  A parent that exits with a masked SIG_CHLD*)
(* pending leaves it to the next thread of its page, which counts it.       *)
AliveCount ==
  "SIG_CHLD" \notin Maskable =>
    \A p \in Live(thread) : thread[p].tid # 0 =>
      LET alive == {q \in Live(thread) : thread[q].parent = thread[p].tid}
      IN  Cardinality(alive) + thread[p].dchild <= thread[p].child

(* The assertions of lock_acquire and lock_release: a thread that calls the *)
(* first does not hold tid_lock, one that calls the second does.  A thread  *)
(* killed with the lock leaves its page as the holder; no thread that gets  *)
(* the page runs, since creating one takes the lock.                        *)
LockHolder ==
  ~delivering => (thread[current].pc = "locked" <=> tid_lock = current)

(* As long as nobody sends SIG_UBLOCK, the wake-ups of the waiters of       *)
(* tid_lock, of semaphores and of thread_block do not meet: thread_unblock  *)
(* finds its thread BLOCKED, and who waits in a semaphore is BLOCKED, is on *)
(* one list, once, and is not ready, whoever is killed between the lock and *)
(* the list.                                                                *)
LockWaiters ==
  "SIG_UBLOCK" \notin Sent =>
    /\ ~panicked
    /\ NoDuplicates(tid_waiters) /\ NoDuplicates(sema.waiters)
    /\ Elements(tid_waiters) \cap Elements(sema.waiters) = {}
    /\ \A p \in Waiting :
         thread[p].status = "BLOCKED" /\ p \notin Elements(ready_list)

(* Overview: once a switch is complete, nothing that it had to deliver is   *)
(* left: no SIG_UBLOCK for a thread that accepts it, no SIG_KILL and nothing*)
(* unmasked for the thread that runs, whose lifetime, unless it masks or    *)
(* ignores SIG_CPU, is not over.                                            *)
SwitchDelivers ==
  [][(delivering /\ ~delivering') =>
       LET r == thread'[current']
       IN  /\ \A e \in Elements(sig_list') :
                /\ e.receiver = current' /\ e.sig # "SIG_UBLOCK" =>
                     e.sig \in r.sigmask \ {"SIG_KILL"}
                /\ e.sig = "SIG_UBLOCK" /\ e.receiver \in Live(thread') =>
                     \/ "SIG_UBLOCK" \in thread'[e.receiver].sigmask
                     \/ "SIG_UBLOCK" \notin thread'[e.receiver].sigign
           /\ Expired(r) => "SIG_CPU" \in r.sigmask \/ "SIG_CPU" \notin r.sigign]_vars

(* Who waits for tid_lock is woken, however many threads compete for it, as *)
(* long as nobody is killed: a SIG_KILL or SIG_CPU delivered to the holder  *)
(* leaves the lock taken for ever.  No more is promised: a newcomer may     *)
(* take the lock before the thread that was woken, which then waits again.  *)
WaitersWoken ==
  \A p \in Page : p \in Elements(tid_waiters) ~> p \notin Elements(tid_waiters)

----------------------------------------------------------------------------
(* What comments say and runs refute.                                       *)

(* thread_tick enforces preemption: a ready thread does not wait for ever.  *)
ReadyRuns ==
  \A p \in Page \ {Idle} : thread[p].status = "READY" ~> thread[p].status # "READY"

(* thread.h lets the ready list and the list of a semaphore share elem: they*)
(* are mutually exclusive.                                                  *)
ElemOnOneList == Elements(ready_list) \cap Waiting = {}
=============================================================================
