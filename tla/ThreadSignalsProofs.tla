------------------------- MODULE ThreadSignalsProofs -------------------------
(* Proofs about the signals of Pintos for every set of pages, every bound   *)
(* on tids and ages, and whatever types the threads send, mask and ignore.  *)
(* First the run queue and the records, then families, the waiters of the   *)
(* lock and the counting of children, each with an invariant of its own on  *)
(* top of the ones before it.                                               *)
EXTENDS ThreadSignals, ListsProofs, FiniteSetTheorems, TLAPS

Status == {"FREE", "BLOCKED", "READY", "RUNNING", "DYING"}

Struct ==
  [tid : Nat, status : Status,
   parent : Nat \cup {-1}, sigign : SUBSET SigType,
   sigmask : SUBSET SigType, age : 0..MaxAge, maxlifetime : 0..MaxAge,
   child : Nat, dchild : Nat, pc : Location,
   newborn : Page \cup {NoPage}, intr_off : BOOLEAN]

Entry == [sig : SigType, sender : Nat \cup {-1}, receiver : Page, to : Nat]

Threads == [Page -> Struct]

Building == {"new", "locked", "numbered", "made"}

(* A thread in thread_create has a page for its child, not its own.         *)
NewbornKnown(th) ==
  \A p \in Page : th[p].pc \in Building => th[p].newborn \in Page \ {p}

(* A list of signals without two of a type for one receiver.                *)
Keyed(sigs) ==
  \A i, j \in 1..Len(sigs) :
    sigs[i].receiver = sigs[j].receiver /\ sigs[i].sig = sigs[j].sig => i = j

(* RunQueue of any list and threads, with those that run.                   *)
Runnable(ready, th, running) ==
  /\ NoDuplicates(ready)
  /\ {p \in Page : th[p].status = "RUNNING"} = running
  /\ \A p \in Elements(ready) : th[p].status = "READY"
  /\ \A p \in Page \ {Idle} : th[p].status = "READY" => p \in Elements(ready)

IInv ==
  /\ TypeOK
  /\ NewbornKnown(thread)
  /\ Runnable(ready_list, thread, {current})
  /\ Keyed(sig_list)

(* Those who sleep.                                                         *)
SleepersTyped ==
  /\ tid_waiters \in Seq(Page)
  /\ sema \in [value : 0..MaxValue, waiters : Seq(Page)]
  /\ wakers \in SUBSET Page

(* The types of what a step leaves.                                         *)
Typed(th, ready, sigs) ==
  th \in Threads /\ ready \in Seq(Page) /\ sigs \in Seq(Entry)

LEMMA TypeOKParts ==
  TypeOK <=>
    /\ Typed(thread, ready_list, sig_list)
    /\ current \in Page /\ delivering \in BOOLEAN
    /\ thread_ticks \in 0..(TIME_SLICE - 1)
    /\ next_tid \in Nat /\ tid_lock \in Page \cup {NoPage}
    /\ SleepersTyped /\ panicked \in BOOLEAN
BY DEF TypeOK, SleepersTyped, Typed, Threads, Struct, Status, Entry

LEMMA EmptyList == NoDuplicates(<<>>) /\ Elements(<<>>) = {}
BY DEF NoDuplicates, Elements

LEMMA ZeroedTyped ==
  /\ Zeroed \in Struct /\ Zeroed.status = "BLOCKED" /\ Zeroed.pc = "unborn"
  /\ Freed \in Struct /\ Freed.status = "FREE" /\ Freed.pc = "unborn"
<1>1. 0 \in 0..MaxAge
  BY InputAssumption
<1>2. "unborn" \in Location
  BY DEF Location
<1>3. {} \in SUBSET SigType
  OBVIOUS
<1>4. Zeroed \in Struct /\ Zeroed.status = "BLOCKED" /\ Zeroed.pc = "unborn"
  BY <1>1, <1>2, <1>3 DEF Zeroed, Struct, Status
<1> HIDE DEF Zeroed
<1>5. Freed \in Struct /\ Freed.status = "FREE" /\ Freed.pc = Zeroed.pc
  BY <1>4 DEF Freed, Struct, Status
<1> QED BY <1>4, <1>5

(* A new status.                                                            *)
LEMMA WithStatus ==
  ASSUME NEW r \in Struct, NEW status \in Status,
         NEW s, s = [r EXCEPT !.status = status]
  PROVE  /\ s \in Struct /\ s.status = status /\ s.pc = r.pc
         /\ s.tid = r.tid /\ s.parent = r.parent /\ s.newborn = r.newborn
         /\ s.sigign = r.sigign
BY DEF Struct, Status

(* The status of one thread.                                                *)
LEMMA SetStatus ==
  ASSUME NEW th \in Threads, NEW t \in Page, NEW status \in Status,
         NEW th2, th2 = [th EXCEPT ![t].status = status]
  PROVE  /\ th2 \in Threads
         /\ \A p \in Page :
              /\ th2[p].status = IF p = t THEN status ELSE th[p].status
              /\ th2[p].pc = th[p].pc /\ th2[p].newborn = th[p].newborn
              /\ th2[p].tid = th[p].tid /\ th2[p].parent = th[p].parent
              /\ th2[p].sigign = th[p].sigign
<1> DEFINE s == [th[t] EXCEPT !.status = status]
<1>1. th2 = [p \in Page |-> IF p = t THEN s ELSE th[p]]
  BY DEF Threads
<1>2. th[t] \in Struct
  BY DEF Threads
<1>3. /\ s \in Struct /\ s.status = status /\ s.pc = th[t].pc
      /\ s.newborn = th[t].newborn /\ s.tid = th[t].tid /\ s.parent = th[t].parent
      /\ s.sigign = th[t].sigign
  BY <1>2, WithStatus
<1> HIDE DEF s
<1> QED BY <1>1, <1>3 DEF Threads

LEMMA InitIInv == Init => IInv
<1> SUFFICES ASSUME Init PROVE IInv
  OBVIOUS
<1>1. \A p \in Page :
        /\ thread[p] \in Struct /\ thread[p].pc \notin Building
        /\ p = Main => thread[p].status = "RUNNING"
        /\ p # Main => thread[p].status \notin {"RUNNING", "READY"}
  <2> SUFFICES ASSUME NEW p \in Page
               PROVE  /\ thread[p] \in Struct /\ thread[p].pc \notin Building
                      /\ p = Main => thread[p].status = "RUNNING"
                      /\ p # Main => thread[p].status \notin {"RUNNING", "READY"}
    OBVIOUS
  <2>1. CASE p = Main
    <3>1. thread[p] = [Zeroed EXCEPT !.tid = 1, !.status = "RUNNING",
                         !.parent = -1, !.sigign = SigType, !.pc = "run"]
      BY <2>1, PageAssumption DEF Init
    <3>2. 1 \in Nat /\ -1 \in Nat \cup {-1} /\ SigType \in SUBSET SigType
          /\ "run" \in Location
      BY DEF Location
    <3>3. thread[p] \in Struct /\ thread[p].pc = "run" /\ thread[p].status = "RUNNING"
      BY <3>1, <3>2, ZeroedTyped DEF Struct, Status
    <3> QED BY <2>1, <3>3 DEF Building
  <2>2. CASE p = Idle
    <3>1. thread[p] = [Zeroed EXCEPT !.tid = 2, !.parent = -1,
                         !.sigign = SigType, !.pc = "idle"]
      BY <2>2, PageAssumption DEF Init
    <3>2. 2 \in Nat /\ -1 \in Nat \cup {-1} /\ SigType \in SUBSET SigType
          /\ "idle" \in Location
      BY DEF Location
    <3>3. /\ thread[p] \in Struct /\ thread[p].pc = "idle"
          /\ thread[p].status = "BLOCKED"
      BY <3>1, <3>2, ZeroedTyped DEF Struct, Status
    <3> QED BY <2>2, <3>3, PageAssumption DEF Building
  <2>3. CASE p # Main /\ p # Idle
    <3>1. thread[p] = Freed
      BY <2>3 DEF Init
    <3> QED BY <2>3, <3>1, ZeroedTyped DEF Building
  <2> QED BY <2>1, <2>2, <2>3
<1>2. thread \in Threads
  BY <1>1 DEF Init, Threads
<1>3. TypeOK
  <2>1. Typed(thread, ready_list, sig_list)
    BY <1>2 DEF Init, Typed
  <2>2. 0 \in 0..(TIME_SLICE - 1)
    BY InputAssumption
  <2>3. current \in Page /\ next_tid \in Nat /\ tid_lock \in Page \cup {NoPage}
    BY PageAssumption DEF Init
  <2>4. delivering \in BOOLEAN /\ panicked \in BOOLEAN
    BY DEF Init
  <2>5. SleepersTyped /\ thread_ticks \in 0..(TIME_SLICE - 1)
    BY <2>2, InputAssumption DEF Init, SleepersTyped
  <2> QED BY <2>1, <2>3, <2>4, <2>5, TypeOKParts
<1>4. NewbornKnown(thread)
  BY <1>1 DEF NewbornKnown
<1>5. Runnable(ready_list, thread, {current})
  BY <1>1, EmptyList, PageAssumption DEF Init, Runnable
<1>6. Keyed(sig_list)
  BY DEF Init, Keyed
<1> QED BY <1>3, <1>4, <1>5, <1>6 DEF IInv

----------------------------------------------------------------------------
(* Pending signals.                                                         *)

(* A list without two equal elements, whose elements differ in their keys.  *)
LEMMA KeyedElements ==
  ASSUME NEW sigs \in Seq(Entry)
  PROVE  Keyed(sigs) <=>
           /\ NoDuplicates(sigs)
           /\ \A e, f \in Elements(sigs) :
                e.receiver = f.receiver /\ e.sig = f.sig => e = f
BY DEF Keyed, NoDuplicates, Elements

LEMMA FilterKeyed ==
  ASSUME NEW sigs \in Seq(Entry), Keyed(sigs), NEW kept
  PROVE  /\ Filter(sigs, kept) \in Seq(Entry)
         /\ Keyed(Filter(sigs, kept))
         /\ Elements(Filter(sigs, kept)) = Elements(sigs) \cap kept
<1> DEFINE out == Filter(sigs, kept)
<1>1. /\ out \in Seq(Entry) /\ Elements(out) = Elements(sigs) \cap kept
      /\ NoDuplicates(sigs) => NoDuplicates(out)
  BY FilterKeeps
<1> HIDE DEF out
<1>2. Keyed(out)
  BY <1>1, KeyedElements
<1> QED BY <1>1, <1>2 DEF out

LEMMA QueuedKeyed ==
  ASSUME NEW sigs \in Seq(Entry), Keyed(sigs), NEW th \in Threads,
         NEW type \in SigType, NEW sender \in Nat \cup {-1}, NEW p \in Page
  PROVE  /\ Queued(sigs, th, type, sender, p) \in Seq(Entry)
         /\ Keyed(Queued(sigs, th, type, sender, p))
<1> DEFINE same(i) == sigs[i].receiver = p /\ sigs[i].sig = type
           entry == [sig |-> type, sender |-> sender, receiver |-> p,
                     to |-> th[p].tid]
           out == Queued(sigs, th, type, sender, p)
<1>1. entry \in Entry
  BY DEF Entry, Threads, Struct
<1>2. CASE \E i \in 1..Len(sigs) : same(i)
  <2>1. out = [i \in 1..Len(sigs) |->
                 IF same(i) /\ \A j \in 1..(i - 1) : ~same(j)
                 THEN entry ELSE sigs[i]]
    BY <1>2 DEF Queued
  <2>2. out \in Seq(Entry) /\ Len(out) = Len(sigs)
    BY <1>1, <2>1
  <2>3. \A i \in 1..Len(sigs) :
          out[i].receiver = sigs[i].receiver /\ out[i].sig = sigs[i].sig
    BY <2>1
  <2> HIDE DEF out
  <2>4. Keyed(out)
    BY <2>2, <2>3 DEF Keyed
  <2> QED BY <2>2, <2>4 DEF out
<1>3. CASE ~ \E i \in 1..Len(sigs) : same(i)
  <2>1. out = Append(sigs, entry)
    BY <1>3 DEF Queued
  <2>2. /\ out \in Seq(Entry) /\ Len(out) = Len(sigs) + 1
        /\ \A i \in 1..Len(sigs) : out[i] = sigs[i]
        /\ out[Len(sigs) + 1] = entry
    BY <1>1, <2>1
  <2>3. entry.receiver = p /\ entry.sig = type
    OBVIOUS
  <2> HIDE DEF out, entry
  <2>4. Keyed(out)
    BY <1>3, <2>2, <2>3 DEF Keyed
  <2> QED BY <2>2, <2>4 DEF out
<1> QED BY <1>2, <1>3

----------------------------------------------------------------------------
(* A switch.                                                                *)

LEMMA ScheduleKeeps ==
  ASSUME current \in Page, NEW ready \in Seq(Page), NEW th \in Threads,
         Runnable(ready, th, {}), NewbornKnown(th), Schedule(ready, th)
  PROVE  /\ thread' \in Threads /\ ready_list' \in Seq(Page) /\ current' \in Page
         /\ delivering' = TRUE /\ thread_ticks' = 0
         /\ NewbornKnown(thread') /\ Runnable(ready_list', thread', {current'})
<1> DEFINE next == IF ready = <<>> THEN Idle ELSE Head(ready)
           reaped == IF th[current].status = "DYING" /\ current # Main
                     THEN [th EXCEPT ![current] = Freed] ELSE th
<1>1. /\ thread' = [reaped EXCEPT ![next].status = "RUNNING"]
      /\ ready_list' = IF ready = <<>> THEN <<>> ELSE Tail(ready)
      /\ current' = next /\ thread_ticks' = 0 /\ delivering' = TRUE
  BY DEF Schedule
<1>2. next \in Page
  BY PopFront, PageAssumption
<1>3. reaped \in Threads
  BY ZeroedTyped DEF Threads
<1>4. \A p \in Page : /\ reaped[p].pc \in Building => reaped[p].newborn \in Page \ {p}
                      /\ reaped[p].status # "RUNNING"
                      /\ reaped[p].status = "READY" <=> th[p].status = "READY"
  BY DEF NewbornKnown, Runnable, Threads, Freed, Zeroed, Building
<1> HIDE DEF reaped, next
<1>5. /\ thread' \in Threads
      /\ \A p \in Page : /\ thread'[p].pc = reaped[p].pc
                         /\ thread'[p].newborn = reaped[p].newborn
                         /\ thread'[p].status = IF p = next THEN "RUNNING"
                                                ELSE reaped[p].status
  <2>1. "RUNNING" \in Status
    BY DEF Status
  <2> DEFINE th2 == [reaped EXCEPT ![next].status = "RUNNING"]
  <2>2. /\ th2 \in Threads
        /\ \A p \in Page : /\ th2[p].pc = reaped[p].pc
                           /\ th2[p].newborn = reaped[p].newborn
                           /\ th2[p].status = IF p = next THEN "RUNNING"
                                              ELSE reaped[p].status
    BY <1>2, <1>3, SetStatus DEF Status
  <2>3. thread' = th2
    BY <1>1
  <2> QED BY <2>2, <2>3
<1>6. NewbornKnown(thread')
  BY <1>4, <1>5 DEF NewbornKnown
<1>7. /\ ready_list' \in Seq(Page) /\ NoDuplicates(ready_list')
      /\ Elements(ready) \ {next} = Elements(ready_list')
      /\ next \notin Elements(ready_list')
  BY <1>1, PopFront, EmptyList DEF Runnable, next
<1>8. ready = <<>> => next = Idle
  BY DEF next
<1>9. Runnable(ready_list', thread', {next})
  <2>1. {p \in Page : thread'[p].status = "RUNNING"} = {next}
    BY <1>2, <1>4, <1>5
  <2>2. \A p \in Elements(ready_list') : thread'[p].status = "READY"
    <3>1. Elements(ready) \subseteq Page
      BY ElementsAt
    <3> QED BY <1>4, <1>5, <1>7, <3>1 DEF Runnable
  <2>3. \A p \in Page \ {Idle} : thread'[p].status = "READY" => p \in Elements(ready_list')
    BY <1>4, <1>5, <1>7 DEF Runnable
  <2> QED BY <1>7, <2>1, <2>2, <2>3 DEF Runnable
<1> QED BY <1>1, <1>2, <1>5, <1>6, <1>7, <1>9

(* What a switch leaves, beside the signals and the lock.                   *)
LEMMA SwitchKeepsIInv ==
  ASSUME IInv, NEW ready \in Seq(Page), NEW th \in Threads,
         Runnable(ready, th, {}), NewbornKnown(th), Schedule(ready, th),
         sig_list' \in Seq(Entry), Keyed(sig_list)',
         UNCHANGED <<next_tid, tid_lock, panicked>>, SleepersTyped'
  PROVE  IInv'
<1>1. current \in Page
  BY DEF IInv, TypeOK
<1>2. /\ thread' \in Threads /\ ready_list' \in Seq(Page) /\ current' \in Page
      /\ delivering' = TRUE /\ thread_ticks' = 0
      /\ NewbornKnown(thread') /\ Runnable(ready_list', thread', {current'})
  BY <1>1, ScheduleKeeps
<1>3. TypeOK'
  BY <1>2, InputAssumption
     DEF IInv, TypeOK, SleepersTyped, Threads, Struct, Status, Entry
<1> QED BY <1>2, <1>3 DEF IInv, Runnable, NewbornKnown, Keyed

(* Threads that differ from these in other members than status and those    *)
(* that NewbornKnown reads.                                                 *)
Alike(th) ==
  th \in Threads /\ \A p \in Page : th[p].status = thread[p].status

LEMMA StopCurrent ==
  ASSUME IInv, NEW th \in Threads, Alike(th), NEW th2 \in Threads,
         NEW status \in {"BLOCKED", "DYING"},
         \A p \in Page : th2[p].status = IF p = current THEN status ELSE th[p].status
  PROVE  Runnable(ready_list, th2, {})
<1>1. /\ ready_list \in Seq(Page) /\ Elements(ready_list) \subseteq Page
      /\ current \in Page
  BY ElementsAt DEF IInv, TypeOK
<1> QED BY <1>1 DEF IInv, Alike, Runnable

LEMMA YieldKeepsIInv ==
  ASSUME IInv, NEW th, Alike(th), NewbornKnown(th), YieldFrom(th),
         UNCHANGED <<sig_list, next_tid, tid_lock, tid_waiters, sema, wakers,
                     panicked>>
  PROVE  IInv'
<1> DEFINE ready == IF current = Idle THEN ready_list ELSE Append(ready_list, current)
           th2 == [th EXCEPT ![current].status = "READY"]
<1>1. /\ current \in Page /\ ready_list \in Seq(Page) /\ th \in Threads
      /\ Elements(ready_list) \subseteq Page /\ thread[current].status = "RUNNING"
  BY ElementsAt DEF IInv, TypeOK, Alike, Runnable
<1>2. current \notin Elements(ready_list)
  BY <1>1 DEF IInv, Runnable
<1>3. /\ th2 \in Threads
      /\ \A p \in Page : /\ th2[p].pc = th[p].pc /\ th2[p].newborn = th[p].newborn
                         /\ th2[p].status = IF p = current THEN "READY"
                                            ELSE thread[p].status
  BY <1>1, SetStatus DEF Status, Alike
<1>4. NewbornKnown(th2)
  BY <1>3 DEF NewbornKnown
<1>5. /\ ready \in Seq(Page) /\ NoDuplicates(ready)
      /\ Elements(ready) = Elements(ready_list) \cup ({current} \ {Idle})
  BY <1>1, <1>2, PushBack DEF IInv, Runnable
<1>6. Schedule(ready, th2)
  BY DEF YieldFrom
<1> HIDE DEF ready, th2
<1>7. Runnable(ready, th2, {})
  BY <1>1, <1>3, <1>5 DEF IInv, Runnable
<1>8. /\ sig_list' \in Seq(Entry) /\ Keyed(sig_list)' /\ SleepersTyped'
  BY TypeOKParts DEF IInv, Keyed, TypeOK, Typed, SleepersTyped
<1> QED BY <1>3, <1>4, <1>5, <1>6, <1>7, <1>8, SwitchKeepsIInv

LEMMA BlockKeepsIInv ==
  ASSUME IInv, NEW pc \in {"asleep", "down", "idle", "new"}, BlockAt(pc),
         pc = "new" => thread[current].newborn \in Page \ {current},
         UNCHANGED <<sig_list, next_tid, tid_lock, panicked>>,
         SleepersTyped'
  PROVE  IInv'
<1> DEFINE th == [thread EXCEPT ![current].status = "BLOCKED", ![current].pc = pc]
<1>1. current \in Page /\ ready_list \in Seq(Page) /\ thread \in Threads
  BY TypeOKParts DEF IInv, Typed
<1>2. /\ th \in Threads
      /\ \A p \in Page : /\ th[p].pc = IF p = current THEN pc ELSE thread[p].pc
                         /\ th[p].newborn = thread[p].newborn
                         /\ th[p].status = IF p = current THEN "BLOCKED"
                                           ELSE thread[p].status
  <2>1. th = [p \in Page |-> IF p = current
                            THEN [thread[p] EXCEPT !.status = "BLOCKED", !.pc = pc]
                            ELSE thread[p]]
    BY <1>1 DEF Threads
  <2> DEFINE s == [thread[current] EXCEPT !.status = "BLOCKED", !.pc = pc]
  <2>2. thread[current] \in Struct /\ "BLOCKED" \in Status /\ pc \in Location
    BY <1>1 DEF Threads, Status, Location
  <2> HIDE DEF th, s
  <2>3. /\ s \in Struct /\ s.status = "BLOCKED" /\ s.pc = pc
        /\ s.newborn = thread[current].newborn
    BY <2>2 DEF Struct, Status, s
  <2>4. th = [p \in Page |-> IF p = current THEN s ELSE thread[p]]
    BY <2>1 DEF s
  <2> QED BY <1>1, <2>3, <2>4 DEF Threads
<1>3. Schedule(ready_list, th)
  BY DEF BlockAt, th
<1> HIDE DEF th
<1>4. NewbornKnown(th)
  BY <1>1, <1>2 DEF NewbornKnown, IInv, Building
<1>5. Runnable(ready_list, th, {})
  BY <1>1, <1>2, StopCurrent DEF Alike
<1>6. sig_list' \in Seq(Entry) /\ Keyed(sig_list)'
  BY TypeOKParts DEF IInv, Keyed, Typed
<1> QED BY <1>1, <1>2, <1>3, <1>4, <1>5, <1>6, SwitchKeepsIInv

(* thread_exit, of the current thread and with the list and the signals     *)
(* that the caller leaves.                                                  *)
LEMMA ExitKeepsIInv ==
  ASSUME IInv, NEW ready \in Seq(Page), NEW sigs \in Seq(Entry), Keyed(sigs),
         NEW th \in Threads, NewbornKnown(th), Runnable(ready, th, {current}),
         ExitFrom(ready, sigs, th),
         UNCHANGED <<next_tid, tid_lock, tid_waiters, sema, wakers, panicked>>
  PROVE  IInv'
<1> DEFINE th2 == [Orphaned(th) EXCEPT ![current].status = "DYING"]
<1>1. current \in Page
  BY DEF IInv, TypeOK
<1>2. /\ Orphaned(th) \in Threads
      /\ \A p \in Page : /\ Orphaned(th)[p].pc = th[p].pc
                         /\ Orphaned(th)[p].newborn = th[p].newborn
                         /\ Orphaned(th)[p].status = th[p].status
  <2>1. \A p \in Page : [th[p] EXCEPT !.parent = -1] \in Struct
    BY DEF Threads, Struct
  <2> QED BY <2>1 DEF Orphaned, Threads, Struct
<1>3. /\ th2 \in Threads
      /\ \A p \in Page : /\ th2[p].pc = th[p].pc
                         /\ th2[p].newborn = th[p].newborn
                         /\ th2[p].status = IF p = current THEN "DYING" ELSE th[p].status
  BY <1>1, <1>2, SetStatus DEF Status
<1>4. Schedule(ready, th2)
  BY DEF ExitFrom
<1> HIDE DEF th2
<1>5. NewbornKnown(th2)
  BY <1>3 DEF NewbornKnown
<1>6. Runnable(ready, th2, {})
  <2>1. Elements(ready) \subseteq Page
    BY ElementsAt
  <2> QED BY <1>1, <1>3, <2>1 DEF Runnable
<1>7. sig_list' \in Seq(Entry) /\ Keyed(sig_list')
  <2>1. CASE Parents(th) = {}
    BY <2>1 DEF ExitFrom
  <2>2. CASE Parents(th) # {}
    <3>1. PICK p \in Page : sig_list' = Queued(sigs, th, "SIG_CHLD", -1, p)
      <4>1. (CHOOSE p \in Parents(th) : TRUE) \in Page
        BY <2>2 DEF Parents, Live
      <4> QED BY <2>2, <4>1 DEF ExitFrom
    <3> QED BY <3>1, QueuedKeyed DEF SigType
  <2> QED BY <2>1, <2>2
<1>8. SleepersTyped'
  BY DEF IInv, TypeOK, SleepersTyped
<1> QED BY <1>3, <1>4, <1>5, <1>6, <1>7, <1>8, SwitchKeepsIInv DEF Keyed
----------------------------------------------------------------------------
(* The steps that are no switch.                                            *)

Asleep == {"FREE", "BLOCKED", "DYING"}

(* Nobody becomes ready or stops being it, nor runs or stops.               *)
LEMMA StayKeepsIInv ==
  ASSUME IInv, thread' \in Threads, NewbornKnown(thread'),
         \A p \in Page : \/ thread'[p].status = thread[p].status
                         \/ {thread[p].status, thread'[p].status} \subseteq Asleep,
         UNCHANGED <<ready_list, current, delivering>>, SleepersTyped',
         sig_list' \in Seq(Entry), Keyed(sig_list'),
         next_tid' \in Nat, tid_lock' \in Page \cup {NoPage}, panicked' \in BOOLEAN,
         thread_ticks' \in 0..(TIME_SLICE - 1)
  PROVE  IInv'
<1>1. TypeOK'
  BY DEF IInv, TypeOK, SleepersTyped, Threads, Struct, Status, Entry
<1>2. ready_list \in Seq(Page) /\ Elements(ready_list) \subseteq Page
  BY ElementsAt DEF IInv, TypeOK
<1>3. Runnable(ready_list, thread', {current})
  <2>1. \A p \in Page : /\ thread'[p].status = "RUNNING" <=> thread[p].status = "RUNNING"
                        /\ thread'[p].status = "READY" <=> thread[p].status = "READY"
    BY DEF Asleep
  <2> QED BY <1>2, <2>1 DEF IInv, Runnable
<1> QED BY <1>1, <1>3 DEF IInv, NewbornKnown, Runnable, Keyed

(* One thread becomes ready.                                                *)
LEMMA WakeKeepsIInv ==
  ASSUME IInv, NEW t \in Page, t \notin Elements(ready_list), t # current,
         thread' \in Threads, NewbornKnown(thread'),
         \A p \in Page : thread'[p].status = IF p = t THEN "READY" ELSE thread[p].status,
         ready_list' = Append(ready_list, t),
         UNCHANGED <<current, delivering, sig_list, thread_ticks, panicked>>,
         SleepersTyped',
         next_tid' \in Nat, tid_lock' \in Page \cup {NoPage}
  PROVE  IInv'
<1>1. ready_list \in Seq(Page) /\ Elements(ready_list) \subseteq Page /\ current \in Page
  BY ElementsAt DEF IInv, TypeOK
<1>2. /\ ready_list' \in Seq(Page) /\ NoDuplicates(ready_list')
      /\ Elements(ready_list') = Elements(ready_list) \cup {t}
  BY <1>1, PushBack DEF IInv, Runnable
<1>3. TypeOK'
  BY <1>2 DEF IInv, TypeOK, SleepersTyped, Threads, Struct, Status, Entry
<1>4. Runnable(ready_list', thread', {current})
  <2>1. {p \in Page : thread'[p].status = "RUNNING"} = {current}
    BY <1>1 DEF IInv, Runnable
  <2>2. \A p \in Elements(ready_list') : thread'[p].status = "READY"
    BY <1>1, <1>2 DEF IInv, Runnable
  <2>3. \A p \in Page \ {Idle} : thread'[p].status = "READY" => p \in Elements(ready_list')
    BY <1>2 DEF IInv, Runnable
  <2> QED BY <1>2, <2>1, <2>2, <2>3 DEF Runnable
<1> QED BY <1>3, <1>4 DEF IInv, NewbornKnown, Runnable, Keyed

(* The parts of the invariant that the steps use.                           *)
LEMMA Parts ==
  ASSUME IInv
  PROVE  /\ thread \in Threads /\ ready_list \in Seq(Page) /\ sig_list \in Seq(Entry)
         /\ current \in Page /\ thread_ticks \in 0..(TIME_SLICE - 1)
         /\ next_tid \in Nat /\ tid_lock \in Page \cup {NoPage}
         /\ SleepersTyped /\ tid_waiters \in Seq(Page)
         /\ panicked \in BOOLEAN /\ delivering \in BOOLEAN
         /\ thread[current].status = "RUNNING"
         /\ \A p \in Page \ {current} : thread[p].status # "RUNNING"
         /\ Elements(ready_list) \subseteq Page /\ current \notin Elements(ready_list)
<1>1. /\ ready_list \in Seq(Page) /\ current \in Page
  BY DEF IInv, TypeOK
<1>2. Elements(ready_list) \subseteq Page
  BY <1>1, ElementsAt
<1> QED BY <1>1, <1>2, TypeOKParts DEF IInv, Typed, Runnable, SleepersTyped

(* A step that leaves those who sleep alone.                                *)
LEMMA SleepersStay ==
  ASSUME IInv, UNCHANGED <<tid_waiters, sema, wakers>>
  PROVE  SleepersTyped'
BY Parts DEF SleepersTyped

(* thread_unblock's effect.                                                 *)
LEMMA WokenStruct ==
  ASSUME NEW r \in Struct
  PROVE  /\ Woken(r) \in Struct /\ Woken(r).status = "READY"
         /\ Woken(r).pc = IF r.pc \in {"unborn", "asleep"} THEN "run" ELSE r.pc
         /\ Woken(r).newborn = r.newborn
         /\ Woken(r).tid = r.tid /\ Woken(r).parent = r.parent
         /\ Woken(r).sigign = r.sigign
BY DEF Woken, Struct, Status, Location

(* Another struct thread in one page.                                       *)
LEMMA Replaced ==
  ASSUME NEW th \in Threads, NEW t \in Page, NEW r \in Struct,
         NEW th2, th2 = [th EXCEPT ![t] = r]
  PROVE  th2 \in Threads /\ \A p \in Page : th2[p] = IF p = t THEN r ELSE th[p]
BY DEF Threads

LEMMA TickKeepsIInv == ASSUME IInv, Tick PROVE IInv'
<1> DEFINE older == [p \in Page |->
             IF p \in Live(thread) /\ thread[p].age < MaxAge
             THEN [thread[p] EXCEPT !.age = @ + 1] ELSE thread[p]]
<1>1. /\ older \in Threads
      /\ \A p \in Page : /\ older[p].status = thread[p].status
                         /\ older[p].pc = thread[p].pc
                         /\ older[p].newborn = thread[p].newborn
  <2>1. ASSUME NEW p \in Page, thread[p].age < MaxAge
        PROVE  LET r == [thread[p] EXCEPT !.age = @ + 1]
               IN  /\ r \in Struct /\ r.status = thread[p].status
                   /\ r.pc = thread[p].pc /\ r.newborn = thread[p].newborn
    <3>1. thread[p] \in Struct
      BY Parts DEF Threads
    <3>2. thread[p].age + 1 \in 0..MaxAge
      BY <2>1, <3>1, InputAssumption DEF Struct
    <3> QED BY <3>1, <3>2 DEF Struct
  <2> QED BY <2>1, Parts DEF Threads
<1>2. \/ SliceOver /\ YieldFrom(older)
      \/ /\ ~SliceOver /\ thread' = older /\ thread_ticks' = thread_ticks + 1
         /\ UNCHANGED <<ready_list, current, delivering>>
  BY DEF Tick
<1>3. UNCHANGED <<sig_list, next_tid, tid_lock, tid_waiters, sema, wakers,
                  panicked>>
  BY DEF Tick
<1> HIDE DEF older
<1>4. NewbornKnown(older) /\ Alike(older)
  BY <1>1 DEF NewbornKnown, IInv, Alike
<1>5. CASE SliceOver /\ YieldFrom(older)
  BY <1>3, <1>4, <1>5, YieldKeepsIInv
<1>6. CASE /\ ~SliceOver /\ thread' = older /\ thread_ticks' = thread_ticks + 1
           /\ UNCHANGED <<ready_list, current, delivering>>
  <2>1. thread_ticks' \in 0..(TIME_SLICE - 1)
    BY <1>6, Parts, InputAssumption DEF SliceOver
  <2>2. Keyed(sig_list)
    BY DEF IInv
  <2> QED BY <1>1, <1>3, <1>4, <1>6, <2>1, <2>2, Parts, SleepersStay, StayKeepsIInv
<1> QED BY <1>2, <1>5, <1>6

LEMMA YieldStepKeepsIInv == ASSUME IInv, Yield PROVE IInv'
<1>1. Alike(thread) /\ NewbornKnown(thread)
  BY Parts DEF Alike, IInv
<1> QED BY <1>1, YieldKeepsIInv DEF Yield

LEMMA BlockStepKeepsIInv == ASSUME IInv, Block \/ IdleBlock PROVE IInv'
<1>1. SleepersTyped'
  BY Parts DEF Block, IdleBlock, SleepersTyped
<1> QED BY <1>1, BlockKeepsIInv DEF Block, IdleBlock

(* Somebody who is BLOCKED is woken.                                        *)
LEMMA ReadyKeepsIInv ==
  ASSUME IInv, NEW t \in Page, t # current, t \notin Elements(ready_list),
         thread' = [thread EXCEPT ![t] = Woken(@)],
         ready_list' = Append(ready_list, t),
         UNCHANGED <<sig_list, current, delivering, thread_ticks, next_tid,
                     tid_lock, panicked>>,
         SleepersTyped'
  PROVE  IInv'
<1>1. thread[t] \in Struct
  BY Parts DEF Threads
<1>2. /\ thread' \in Threads
      /\ \A p \in Page : thread'[p] = IF p = t THEN Woken(thread[t]) ELSE thread[p]
  BY <1>1, Parts, WokenStruct DEF Threads
<1>3. NewbornKnown(thread')
  BY <1>1, <1>2, WokenStruct DEF NewbornKnown, IInv, Building
<1>4. \A p \in Page : thread'[p].status = IF p = t THEN "READY" ELSE thread[p].status
  BY <1>1, <1>2, WokenStruct
<1> QED BY <1>2, <1>3, <1>4, Parts, WakeKeepsIInv

LEMMA UnblockKeepsIInv == ASSUME IInv, NEW t \in Page, Unblock(t) PROVE IInv'
<1>1. SleepersTyped'
  BY Parts DEF Unblock, SleepersTyped
<1>2. CASE thread[t].status = "BLOCKED"
  <2>1. t # current /\ t \notin Elements(ready_list)
    BY <1>2, Parts DEF IInv, Runnable
  <2> QED BY <1>1, <1>2, <2>1, ReadyKeepsIInv DEF Unblock
<1>3. CASE thread[t].status # "BLOCKED"
  <2>1. /\ UNCHANGED <<thread, ready_list, sig_list, current, delivering,
                       thread_ticks, next_tid, tid_lock>>
        /\ panicked' = TRUE
    BY <1>3 DEF Unblock
  <2>2. NewbornKnown(thread') /\ Keyed(sig_list')
    BY <2>1 DEF NewbornKnown, Keyed, IInv
  <2> QED BY <1>1, <2>1, <2>2, Parts, StayKeepsIInv
<1> QED BY <1>2, <1>3

LEMMA ExitStepKeepsIInv == ASSUME IInv, Exit PROVE IInv'
<1>1. Keyed(sig_list) /\ NewbornKnown(thread) /\ Runnable(ready_list, thread, {current})
  BY DEF IInv
<1> QED BY <1>1, Parts, ExitKeepsIInv DEF Exit
(* One member of a struct thread.                                           *)
LEMMA MemberKeepsIInv ==
  ASSUME IInv, NEW r \in Struct,
         r.status = thread[current].status, r.pc = thread[current].pc,
         r.newborn = thread[current].newborn,
         thread' = [thread EXCEPT ![current] = r],
         UNCHANGED <<ready_list, sig_list, current, delivering, thread_ticks,
                     next_tid, tid_lock, tid_waiters, sema, wakers, panicked>>
  PROVE  IInv'
<1>1. /\ thread' \in Threads
      /\ \A p \in Page : thread'[p] = IF p = current THEN r ELSE thread[p]
  BY Parts DEF Threads
<1>2. NewbornKnown(thread')
  BY <1>1 DEF NewbornKnown, IInv
<1>3. \A p \in Page : thread'[p].status = thread[p].status
  BY <1>1
<1>4. Keyed(sig_list')
  BY DEF IInv, Keyed
<1> QED BY <1>1, <1>2, <1>3, <1>4, Parts, SleepersStay, StayKeepsIInv

LEMMA DownKeepsIInv == ASSUME IInv, Down PROVE IInv'
<1>1. SleepersTyped /\ current \in Page /\ thread[current] \in Struct
  BY Parts DEF Threads
<1>2. CASE sema.value = 0
  <2> DEFINE waiters == Append(sema.waiters, current)
  <2>1. sema' = [sema EXCEPT !.waiters = waiters] /\ BlockAt("down")
        /\ UNCHANGED <<sig_list, next_tid, tid_lock, tid_waiters, wakers, panicked>>
    BY <1>2 DEF Down
  <2>2. waiters \in Seq(Page)
    BY <1>1 DEF SleepersTyped
  <2> HIDE DEF waiters
  <2>3. SleepersTyped'
    BY <1>1, <2>1, <2>2 DEF SleepersTyped
  <2> QED BY <2>1, <2>3, BlockKeepsIInv
<1>3. CASE sema.value # 0
  <2> DEFINE r == [thread[current] EXCEPT !.pc = "run"]
  <2>1. /\ sema' = [sema EXCEPT !.value = @ - 1]
        /\ thread' = [thread EXCEPT ![current].pc = "run"]
        /\ UNCHANGED <<ready_list, sig_list, current, delivering,
                       thread_ticks, next_tid, tid_lock, tid_waiters, wakers,
                       panicked>>
    BY <1>3 DEF Down
  <2>2. SleepersTyped'
    BY <1>1, <1>3, <2>1, InputAssumption DEF SleepersTyped
  <2>3. r \in Struct /\ r.status = thread[current].status /\ r.pc = "run"
    BY <1>1 DEF Struct, Location
  <2>4. /\ thread' \in Threads
        /\ \A p \in Page : thread'[p] = IF p = current THEN r ELSE thread[p]
    BY <1>1, <2>1, <2>3, Parts DEF Threads
  <2> HIDE DEF r
  <2>5. NewbornKnown(thread')
    BY <2>3, <2>4 DEF NewbornKnown, IInv, Building
  <2>6. \A p \in Page : thread'[p].status = thread[p].status
    BY <2>3, <2>4
  <2>7. Keyed(sig_list')
    BY <2>1 DEF IInv, Keyed
  <2> QED BY <2>1, <2>2, <2>4, <2>5, <2>6, <2>7, Parts, StayKeepsIInv
<1> QED BY <1>2, <1>3

LEMMA UpKeepsIInv == ASSUME IInv, ~Undefined, Up PROVE IInv'
<1> DEFINE w == Head(sema.waiters)
<1>1. SleepersTyped /\ sema.value + 1 \in 0..MaxValue
  BY Parts, InputAssumption DEF Up, SleepersTyped
<1>2. UNCHANGED <<sig_list, current, delivering, thread_ticks, next_tid,
                  tid_lock, tid_waiters, wakers, panicked>>
  BY DEF Up
<1>3. CASE sema.waiters = <<>>
  <2>1. UNCHANGED <<thread, ready_list>>
        /\ sema' = [value |-> sema.value + 1, waiters |-> <<>>]
    BY <1>3 DEF Up
  <2>2. SleepersTyped'
    BY <1>1, <1>2, <2>1 DEF SleepersTyped
  <2>3. NewbornKnown(thread') /\ Keyed(sig_list')
    BY <1>2, <2>1 DEF NewbornKnown, Keyed, IInv
  <2> QED BY <1>2, <2>1, <2>2, <2>3, Parts, StayKeepsIInv
<1>4. CASE sema.waiters # <<>>
  <2>1. /\ thread' = [thread EXCEPT ![w] = Woken(@)]
        /\ ready_list' = Append(ready_list, w)
        /\ sema' = [value |-> sema.value + 1, waiters |-> Tail(sema.waiters)]
    BY <1>4 DEF Up
  <2>2. w \in Elements(sema.waiters) /\ w \in Page /\ Tail(sema.waiters) \in Seq(Page)
    BY <1>1, <1>4, PopFront DEF SleepersTyped
  <2>3. SleepersTyped'
    BY <1>1, <1>2, <2>1, <2>2 DEF SleepersTyped
  <2>4. w # current /\ w \notin Elements(ready_list)
    BY <2>2 DEF Undefined, Waiting
  <2> HIDE DEF w
  <2> QED BY <1>2, <2>1, <2>2, <2>3, <2>4, ReadyKeepsIInv
<1> QED BY <1>3, <1>4

LEMMA CallKeepsIInv ==
  ASSUME IInv,
         \/ \E s \in Ignorable : Signal(s, "SIG_DFL") \/ Signal(s, "SIG_IGN")
         \/ \E how \in {"SIG_BLOCK", "SIG_UNBLOCK", "SIG_SETMASK"} :
              \E set \in SUBSET Maskable : SigProcMask(how, set)
         \/ \E x \in Lifetimes : SetLifetime(x)
  PROVE  IInv'
<1>1. thread[current] \in Struct /\ current \in Page /\ thread \in Threads
  BY Parts DEF Threads
<1>2. ASSUME NEW s \in Ignorable, NEW a \in {"SIG_DFL", "SIG_IGN"}, Signal(s, a)
      PROVE  IInv'
  <2> DEFINE set == IF a = "SIG_DFL" THEN thread[current].sigign \cup {s}
                    ELSE thread[current].sigign \ {s}
             r == [thread[current] EXCEPT !.sigign = set]
  <2>1. set \in SUBSET SigType
    BY <1>1, InputAssumption DEF Struct
  <2> HIDE DEF set
  <2>2. r \in Struct /\ r.status = thread[current].status
        /\ r.pc = thread[current].pc /\ r.newborn = thread[current].newborn
    BY <1>1, <2>1 DEF Struct
  <2>3. thread' = [thread EXCEPT ![current] = r]
    BY <1>1, <1>2 DEF Signal, set, Threads
  <2> HIDE DEF r
  <2> QED BY <1>2, <2>2, <2>3, MemberKeepsIInv DEF Signal
<1>3. ASSUME NEW how \in {"SIG_BLOCK", "SIG_UNBLOCK", "SIG_SETMASK"},
             NEW set \in SUBSET Maskable, SigProcMask(how, set)
      PROVE  IInv'
  <2> DEFINE old == thread[current].sigmask
  <2>1. PICK mask \in {old \cup set, old \ set, set} :
          thread' = [thread EXCEPT ![current].sigmask = mask]
    BY <1>3 DEF SigProcMask
  <2>2. mask \in SUBSET SigType
    BY <1>1, InputAssumption DEF Struct
  <2> DEFINE r == [thread[current] EXCEPT !.sigmask = mask]
  <2>3. r \in Struct /\ r.status = thread[current].status
        /\ r.pc = thread[current].pc /\ r.newborn = thread[current].newborn
    BY <1>1, <2>2 DEF Struct
  <2>4. thread' = [thread EXCEPT ![current] = r]
    BY <1>1, <2>1 DEF Threads
  <2> HIDE DEF r
  <2> QED BY <1>3, <2>3, <2>4, MemberKeepsIInv DEF SigProcMask
<1>4. ASSUME NEW x \in Lifetimes, SetLifetime(x) PROVE IInv'
  <2> DEFINE r == [thread[current] EXCEPT !.maxlifetime = x]
  <2>1. x \in 0..MaxAge
    BY InputAssumption
  <2>2. r \in Struct /\ r.status = thread[current].status
        /\ r.pc = thread[current].pc /\ r.newborn = thread[current].newborn
    BY <1>1, <2>1 DEF Struct
  <2>3. thread' = [thread EXCEPT ![current] = r]
    BY <1>1, <1>4 DEF SetLifetime, Threads
  <2> HIDE DEF r
  <2> QED BY <1>4, <2>2, <2>3, MemberKeepsIInv DEF SetLifetime
<1> QED BY <1>2, <1>3, <1>4

LEMMA KillKeepsIInv ==
  ASSUME IInv, NEW tid \in 0..MaxTid, NEW s \in Sent, Kill(tid, s) PROVE IInv'
<1>1. /\ thread[current] \in Struct /\ current \in Page /\ thread \in Threads
      /\ sig_list \in Seq(Entry) /\ Keyed(sig_list)
  BY Parts DEF Threads, IInv
<1>2. ASSUME NEW dt \in Page, UNCHANGED thread,
             sig_list' = Queued(sig_list, thread, s, thread[current].tid, dt)
      PROVE  IInv'
  <2>1. s \in SigType /\ thread[current].tid \in Nat \cup {-1}
    BY <1>1, InputAssumption DEF SigType, Struct
  <2>2. sig_list' \in Seq(Entry) /\ Keyed(sig_list')
    BY <1>1, <1>2, <2>1, QueuedKeyed
  <2>3. NewbornKnown(thread')
    BY <1>2 DEF IInv, NewbornKnown
  <2> QED BY <1>2, <2>2, <2>3, Parts, SleepersStay, StayKeepsIInv DEF Kill
<1>3. ASSUME thread' = [thread EXCEPT ![current].intr_off = TRUE], UNCHANGED sig_list
      PROVE  IInv'
  <2> DEFINE r == [thread[current] EXCEPT !.intr_off = TRUE]
  <2>1. r \in Struct /\ r.status = thread[current].status
        /\ r.pc = thread[current].pc /\ r.newborn = thread[current].newborn
    BY <1>1 DEF Struct
  <2>2. thread' = [thread EXCEPT ![current] = r]
    BY <1>1, <1>3 DEF Threads
  <2> HIDE DEF r
  <2> QED BY <1>3, <2>1, <2>2, MemberKeepsIInv DEF Kill
<1> QED BY <1>2, <1>3 DEF Kill, Live

----------------------------------------------------------------------------
(* thread_create.                                                           *)

LEMMA BeginCreateKeepsIInv == ASSUME IInv, NEW t \in Page, BeginCreate(t) PROVE IInv'
<1>1. /\ thread[current] \in Struct /\ current \in Page /\ thread \in Threads
      /\ thread[t].status = "FREE" /\ t # current /\ Keyed(sig_list)
  BY Parts DEF Threads, BeginCreate, IInv
<1> DEFINE r == [thread[current] EXCEPT !.pc = "new", !.newborn = t]
<1>2. r \in Struct /\ r.status = thread[current].status /\ r.newborn = t
  BY <1>1 DEF Struct, Location
<1>3. /\ thread' \in Threads
      /\ \A p \in Page : thread'[p] = IF p = t THEN Zeroed
                                      ELSE IF p = current THEN r ELSE thread[p]
  BY <1>1, <1>2, ZeroedTyped DEF BeginCreate, Threads
<1> HIDE DEF r
<1>4. NewbornKnown(thread')
  BY <1>2, <1>3, ZeroedTyped DEF NewbornKnown, IInv, Building
<1>5. \A p \in Page : \/ thread'[p].status = thread[p].status
                      \/ {thread[p].status, thread'[p].status} \subseteq Asleep
  BY <1>1, <1>2, <1>3, ZeroedTyped DEF Asleep
<1> QED BY <1>1, <1>3, <1>4, <1>5, Parts, SleepersStay, StayKeepsIInv DEF BeginCreate

LEMMA AcquireKeepsIInv == ASSUME IInv, AcquireTidLock PROVE IInv'
<1>1. /\ thread[current] \in Struct /\ current \in Page /\ thread \in Threads
      /\ tid_waiters \in Seq(Page) /\ Keyed(sig_list)
      /\ thread[current].newborn \in Page \ {current}
  BY Parts DEF Threads, AcquireTidLock, At, IInv, NewbornKnown, Building
<1>2. CASE tid_lock = NoPage
  <2> DEFINE r == [thread[current] EXCEPT !.pc = "locked"]
  <2>1. r \in Struct /\ r.status = thread[current].status
        /\ r.newborn = thread[current].newborn
    BY <1>1 DEF Struct, Location
  <2>2. /\ thread' \in Threads
        /\ \A p \in Page : thread'[p] = IF p = current THEN r ELSE thread[p]
    BY <1>1, <1>2, <2>1 DEF AcquireTidLock, Threads
  <2> HIDE DEF r
  <2>3. NewbornKnown(thread')
    BY <1>1, <2>1, <2>2 DEF NewbornKnown, IInv
  <2>4. \A p \in Page : thread'[p].status = thread[p].status
    BY <2>1, <2>2
  <2> QED BY <1>1, <1>2, <2>2, <2>3, <2>4, Parts, SleepersStay, StayKeepsIInv DEF AcquireTidLock
<1>3. CASE tid_lock # NoPage
  <2>1. /\ BlockAt("new") /\ tid_waiters' = Append(tid_waiters, current)
        /\ UNCHANGED <<sig_list, next_tid, tid_lock, sema, wakers, panicked>>
    BY <1>3 DEF AcquireTidLock
  <2>2. Append(tid_waiters, current) \in Seq(Page)
    BY <1>1
  <2>3. SleepersTyped'
    BY <2>1, <2>2, Parts DEF SleepersTyped
  <2> QED BY <1>1, <2>1, <2>3, BlockKeepsIInv
<1> QED BY <1>2, <1>3

LEMMA TakeTidKeepsIInv == ASSUME IInv, ~ Undefined, TakeTid PROVE IInv'
<1> DEFINE n == thread[current].newborn
           named == [thread EXCEPT ![current].pc = "numbered", ![n].tid = next_tid]
<1>1. /\ thread[current] \in Struct /\ current \in Page /\ thread \in Threads
      /\ tid_waiters \in Seq(Page) /\ Keyed(sig_list) /\ n \in Page \ {current} /\ next_tid \in Nat
      /\ next_tid' \in Nat
  BY Parts DEF Threads, TakeTid, At, IInv, NewbornKnown, Building
<1>2. /\ named \in Threads
      /\ \A p \in Page : /\ named[p].status = thread[p].status
                         /\ named[p].newborn = thread[p].newborn
                         /\ named[p].pc = IF p = current THEN "numbered" ELSE thread[p].pc
  <2> DEFINE r == [thread[current] EXCEPT !.pc = "numbered"]
             one == [p \in Page |-> IF p = current THEN r ELSE thread[p]]
  <2>1. r \in Struct /\ r.status = thread[current].status
        /\ r.newborn = thread[current].newborn /\ r.pc = "numbered"
    BY <1>1 DEF Struct, Location
  <2> HIDE DEF r
  <2>2. one \in Threads /\ one[n] \in Struct
    BY <1>1, <2>1 DEF Threads
  <2> DEFINE s == [one[n] EXCEPT !.tid = next_tid]
  <2> HIDE DEF one
  <2>3. s \in Struct /\ s.status = one[n].status /\ s.newborn = one[n].newborn
        /\ s.pc = one[n].pc
    BY <1>1, <2>2 DEF Struct
  <2> HIDE DEF s
  <2>4. named = [p \in Page |-> IF p = n THEN s ELSE one[p]]
    BY <1>1 DEF s, one, r, Threads
  <2> HIDE DEF named, n
  <2> QED BY <1>1, <2>1, <2>2, <2>3, <2>4 DEF one, Threads
<1>3. At("locked") /\ tid_lock' = NoPage
      /\ UNCHANGED <<sig_list, current, delivering, thread_ticks, sema,
                     wakers, panicked>>
  BY DEF TakeTid
<1>4. CASE tid_waiters = <<>>
  <2>1. thread' = named /\ UNCHANGED <<ready_list, tid_waiters>>
    BY <1>4 DEF TakeTid
  <2> HIDE DEF named
  <2>2. NewbornKnown(thread')
    BY <1>1, <1>2, <2>1 DEF NewbornKnown, IInv
  <2> QED BY <1>1, <1>2, <1>3, <2>1, <2>2, Parts, SleepersStay, StayKeepsIInv
<1>5. CASE tid_waiters # <<>>
  <2> DEFINE w == Head(tid_waiters)
  <2>1. /\ thread' = [named EXCEPT ![w] = Woken(named[w])]
        /\ ready_list' = Append(ready_list, w) /\ tid_waiters' = Tail(tid_waiters)
    BY <1>5 DEF TakeTid
  <2>2. w \in Elements(tid_waiters) /\ w \in Page /\ tid_waiters' \in Seq(Page)
    BY <1>1, <1>5, <2>1, PopFront
  <2>3. w # current /\ w \notin Elements(ready_list)
    BY <2>2 DEF Undefined, Waiting
  <2> HIDE DEF named, w
  <2>4. named[w] \in Struct
    BY <1>2, <2>2 DEF Threads
  <2>5. /\ thread' \in Threads
        /\ \A p \in Page : thread'[p] = IF p = w THEN Woken(named[w]) ELSE named[p]
    BY <1>2, <2>1, <2>2, <2>4, WokenStruct DEF Threads
  <2>6. \A p \in Page : thread'[p].status = IF p = w THEN "READY" ELSE thread[p].status
    BY <1>2, <2>4, <2>5, WokenStruct
  <2>7. NewbornKnown(thread')
    BY <1>1, <1>2, <2>2, <2>4, <2>5, WokenStruct DEF NewbornKnown, IInv, Building
  <2>8. SleepersTyped'
    BY <1>3, <2>1, <2>2, Parts DEF SleepersTyped
  <2> QED BY <1>1, <1>3, <2>1, <2>2, <2>3, <2>5, <2>6, <2>7, <2>8, WakeKeepsIInv
<1> QED BY <1>4, <1>5

LEMMA FillInKeepsIInv == ASSUME IInv, FillIn PROVE IInv'
<1> DEFINE n == thread[current].newborn
           r == [thread[current] EXCEPT !.pc = "made", !.child = @ + 1]
           s == [thread[n] EXCEPT !.parent = thread[current].tid, !.sigign = SigType,
                                  !.sigmask = {}, !.age = 0, !.maxlifetime = 0,
                                  !.child = 0, !.dchild = 0]
<1>1. /\ thread[current] \in Struct /\ current \in Page /\ thread \in Threads
      /\ Keyed(sig_list) /\ n \in Page \ {current} /\ thread[n] \in Struct
  BY Parts DEF Threads, FillIn, At, IInv, NewbornKnown, Building
<1>2. r \in Struct /\ r.status = thread[current].status /\ r.newborn = n
  <2>1. thread[current].child + 1 \in Nat /\ "made" \in Location
    BY <1>1 DEF Struct, Location
  <2> QED BY <1>1, <2>1 DEF Struct
<1>3. s \in Struct /\ s.status = thread[n].status /\ s.newborn = thread[n].newborn
      /\ s.pc = thread[n].pc
  <2>1. 0 \in 0..MaxAge /\ thread[current].tid \in Nat
    BY <1>1, InputAssumption DEF Struct
  <2> QED BY <1>1, <2>1 DEF Struct
<1>4. \A p \in Page : thread'[p] = IF p = n THEN s ELSE IF p = current THEN r ELSE thread[p]
  BY <1>1 DEF FillIn, Threads
<1>5. thread' = [p \in Page |-> thread'[p]]
  BY <1>1 DEF FillIn, Threads
<1> HIDE DEF r, s
<1>6. thread' \in Threads
  BY <1>1, <1>2, <1>3, <1>4, <1>5 DEF Threads
<1>7. \A p \in Page : /\ thread'[p].status = thread[p].status
                      /\ thread'[p].newborn = thread[p].newborn
                      /\ p # current => thread'[p].pc = thread[p].pc
  BY <1>1, <1>2, <1>3, <1>4
<1>8. NewbornKnown(thread')
  BY <1>1, <1>7 DEF NewbornKnown, IInv
<1> QED BY <1>1, <1>6, <1>7, <1>8, Parts, SleepersStay, StayKeepsIInv DEF FillIn

LEMMA EndCreateKeepsIInv == ASSUME IInv, EndCreate PROVE IInv'
<1> DEFINE t == thread[current].newborn
<1>1. /\ thread[current] \in Struct /\ current \in Page /\ thread \in Threads
      /\ Keyed(sig_list) /\ t \in Page \ {current}
  BY Parts DEF Threads, EndCreate, At, IInv, NewbornKnown, Building
<1>2. CASE thread[t].status = "BLOCKED"
  <2> DEFINE r == [thread[current] EXCEPT !.pc = "run", !.newborn = NoPage]
  <2>1. t # current /\ t \notin Elements(ready_list) /\ thread[t] \in Struct
    BY <1>1, <1>2, Parts DEF IInv, Runnable, Threads
  <2>2. r \in Struct /\ r.status = thread[current].status /\ r.pc = "run"
    BY <1>1 DEF Struct, Location
  <2>3. /\ thread' = [p \in Page |-> IF p = current THEN r
                                     ELSE IF p = t THEN Woken(thread[t]) ELSE thread[p]]
        /\ ready_list' = Append(ready_list, t)
        /\ UNCHANGED <<sig_list, current, delivering, thread_ticks, next_tid,
                       tid_lock, tid_waiters, sema, wakers, panicked>>
    BY <1>1, <1>2, <2>1 DEF EndCreate, Threads
  <2> HIDE DEF r, t
  <2>4. thread' \in Threads
    BY <1>1, <2>1, <2>2, <2>3, WokenStruct DEF Threads
  <2>5. \A p \in Page : thread'[p].status = IF p = t THEN "READY" ELSE thread[p].status
    BY <1>1, <2>1, <2>2, <2>3, WokenStruct
  <2>6. NewbornKnown(thread')
    BY <1>1, <2>1, <2>2, <2>3, WokenStruct DEF NewbornKnown, IInv, Building
  <2> QED BY <1>1, <2>1, <2>3, <2>4, <2>5, <2>6, Parts, SleepersStay, WakeKeepsIInv
<1>3. CASE thread[t].status # "BLOCKED"
  <2>1. Panic
    BY <1>3 DEF EndCreate
  <2>2. NewbornKnown(thread')
    BY <2>1 DEF Panic, NewbornKnown, IInv
  <2> QED BY <1>1, <2>1, <2>2, Parts, SleepersStay, StayKeepsIInv DEF Panic
<1> QED BY <1>2, <1>3
----------------------------------------------------------------------------
(* handleSignals.                                                           *)

(* The receivers of the SIG_UBLOCKs that the walk takes, in their order.    *)
Receivers ==
  LET wakes == Filter(sig_list, ToUnblock)
  IN  [i \in 1..Len(wakes) |-> wakes[i].receiver]

ReceiverPages == {e.receiver : e \in ToUnblock}

LEMMA ReceiversOnce ==
  ASSUME IInv
  PROVE  /\ Receivers \in Seq(Page) /\ NoDuplicates(Receivers)
         /\ Elements(Receivers) = ReceiverPages
         /\ ReceiverPages \subseteq {p \in Page : thread[p].status = "BLOCKED"}
<1> DEFINE wakes == Filter(sig_list, ToUnblock)
<1>1. /\ wakes \in Seq(Entry) /\ Keyed(wakes)
      /\ Elements(wakes) = Elements(sig_list) \cap ToUnblock
  BY Parts, FilterKeyed DEF IInv
<1>2. ToUnblock \subseteq Elements(sig_list)
  BY DEF ToUnblock
<1>3. \A e \in ToUnblock :
        e \in Entry /\ e.sig = "SIG_UBLOCK" /\ thread[e.receiver].status = "BLOCKED"
  BY <1>2, Parts, ElementsAt DEF ToUnblock
<1>4. Receivers = [i \in 1..Len(wakes) |-> wakes[i].receiver]
  BY DEF Receivers
<1> HIDE DEF wakes
<1>5. \A i \in 1..Len(wakes) : wakes[i] \in ToUnblock
  BY <1>1, ElementsAt
<1>6. /\ Receivers \in Seq(Page) /\ Len(Receivers) = Len(wakes)
      /\ \A i \in 1..Len(wakes) : Receivers[i] = wakes[i].receiver
  <2>1. \A i \in 1..Len(wakes) : wakes[i].receiver \in Page
    BY <1>3, <1>5 DEF Entry
  <2> QED BY <1>1, <1>4, <2>1
<1>7. NoDuplicates(Receivers)
  BY <1>1, <1>3, <1>5, <1>6 DEF NoDuplicates, Keyed
<1>8. Elements(Receivers) = ReceiverPages
  <2>1. \A e \in ToUnblock : \E i \in 1..Len(wakes) : wakes[i] = e
    BY <1>1, <1>2 DEF Elements
  <2> QED BY <1>5, <1>6, <2>1 DEF Elements, ReceiverPages
<1>9. ReceiverPages \subseteq {p \in Page : thread[p].status = "BLOCKED"}
  BY <1>3 DEF ReceiverPages, Entry
<1> QED BY <1>6, <1>7, <1>8, <1>9

(* The threads once the signals have been handled.                          *)
HandledThreads ==
  [p \in Page |->
     IF p \in ReceiverPages THEN Woken(thread[p])
     ELSE IF p = current /\ "SIG_CHLD" \in Handled
     THEN [thread[p] EXCEPT !.dchild = @ + 1]
     ELSE thread[p]]

LEMMA HandledFacts ==
  ASSUME IInv
  PROVE  /\ HandledThreads \in Threads /\ NewbornKnown(HandledThreads)
         /\ ready_list \o Receivers \in Seq(Page)
         /\ Runnable(ready_list \o Receivers, HandledThreads, {current})
<1> DEFINE th == HandledThreads
           ready == ready_list \o Receivers
<1>1. \A p \in Page : thread[p] \in Struct
  BY Parts DEF Threads
<1>2. ASSUME NEW p \in Page
      PROVE  /\ th[p] \in Struct /\ th[p].newborn = thread[p].newborn
             /\ th[p].pc \in Building => thread[p].pc \in Building
             /\ th[p].status = IF p \in ReceiverPages THEN "READY" ELSE thread[p].status
  <2>1. CASE p \in ReceiverPages
    <3>1. th[p] = Woken(thread[p])
      BY <2>1 DEF HandledThreads
    <3> HIDE DEF th
    <3> QED BY <1>1, <2>1, <3>1, WokenStruct DEF Building
  <2>2. CASE p \notin ReceiverPages /\ th[p] = thread[p]
    BY <1>1, <2>2
  <2>3. CASE p \notin ReceiverPages /\ th[p] = [thread[p] EXCEPT !.dchild = @ + 1]
    <3>1. thread[p] \in Struct /\ thread[p].dchild + 1 \in Nat
      BY <1>1 DEF Struct
    <3> HIDE DEF th
    <3> QED BY <2>3, <3>1 DEF Struct
  <2> QED BY <2>1, <2>2, <2>3 DEF HandledThreads
<1>3. th \in Threads
  BY <1>2 DEF HandledThreads, Threads
<1> HIDE DEF th
<1>4. NewbornKnown(th)
  BY <1>2 DEF NewbornKnown, IInv
<1>5. /\ ready_list \in Seq(Page) /\ NoDuplicates(ready_list)
      /\ Receivers \in Seq(Page) /\ NoDuplicates(Receivers)
      /\ Elements(Receivers) = ReceiverPages
      /\ ReceiverPages \subseteq {p \in Page : thread[p].status = "BLOCKED"}
  BY Parts, ReceiversOnce DEF IInv, Runnable
<1>6. Elements(ready_list) \cap ReceiverPages = {}
  BY <1>5 DEF IInv, Runnable
<1>7. /\ ready \in Seq(Page) /\ NoDuplicates(ready)
      /\ Elements(ready) = Elements(ready_list) \cup ReceiverPages
  BY <1>5, <1>6, Concat
<1> HIDE DEF ready
<1>8. Runnable(ready, th, {current})
  <2>1. {p \in Page : th[p].status = "RUNNING"} = {current}
    BY <1>2, <1>5, Parts
  <2>2. ASSUME NEW p \in Elements(ready) PROVE th[p].status = "READY"
    <3>1. p \in Page
      BY <1>7, ElementsAt
    <3>2. CASE p \in ReceiverPages
      BY <1>2, <3>1, <3>2
    <3>3. CASE p \in Elements(ready_list) /\ p \notin ReceiverPages
      <4>1. thread[p].status = "READY"
        BY <3>3 DEF IInv, Runnable
      <4> QED BY <1>2, <3>1, <3>3, <4>1
    <3> QED BY <1>7, <3>2, <3>3
  <2>3. \A p \in Page \ {Idle} : th[p].status = "READY" => p \in Elements(ready)
    BY <1>2, <1>7 DEF IInv, Runnable
  <2> QED BY <1>7, <2>1, <2>2, <2>3 DEF Runnable
<1> QED BY <1>3, <1>4, <1>7, <1>8 DEF th, ready

LEMMA HandleKeepsIInv == ASSUME IInv, HandleSignals PROVE IInv'
<1>1. PICK gone \in SUBSET Dangling :
        IF Handled \cap {"SIG_CPU", "SIG_KILL"} # {}
        THEN ExitFrom(ready_list \o Receivers, Filter(sig_list, Kept(gone)), HandledThreads)
        ELSE /\ thread' = HandledThreads
             /\ ready_list' = ready_list \o Receivers
             /\ sig_list' = Filter(sig_list, Kept(gone))
             /\ delivering' = FALSE
             /\ UNCHANGED <<current, thread_ticks>>
  BY DEF HandleSignals, Receivers, HandledThreads, ReceiverPages
<1>2. UNCHANGED <<next_tid, tid_lock, tid_waiters, sema, wakers, panicked>>
  BY DEF HandleSignals
<1> DEFINE sigs == Filter(sig_list, Kept(gone))
<1>3. sigs \in Seq(Entry) /\ Keyed(sigs)
  BY Parts, FilterKeyed DEF IInv
<1> HIDE DEF sigs
<1>4. CASE ExitFrom(ready_list \o Receivers, sigs, HandledThreads)
  BY <1>2, <1>3, <1>4, HandledFacts, ExitKeepsIInv
<1>5. CASE /\ thread' = HandledThreads
           /\ ready_list' = ready_list \o Receivers
           /\ sig_list' = sigs
           /\ delivering' = FALSE
           /\ UNCHANGED <<current, thread_ticks>>
  <2>1. /\ thread' \in Threads /\ NewbornKnown(thread') /\ ready_list' \in Seq(Page)
        /\ Runnable(ready_list', thread', {current})
    BY <1>5, HandledFacts
  <2>2. TypeOK'
    BY <1>2, <1>3, <1>5, <2>1 DEF IInv, TypeOK, Threads, Struct, Status, Entry
  <2> QED BY <1>3, <1>5, <2>1, <2>2 DEF IInv, NewbornKnown, Runnable, Keyed
<1> QED BY <1>1, <1>4, <1>5 DEF sigs

LEMMA StepKeepsIInv == IInv /\ [Next]_vars => IInv'
<1> SUFFICES ASSUME IInv, [Next]_vars PROVE IInv'
  OBVIOUS
<1>1. CASE UNCHANGED vars
  BY <1>1 DEF vars, IInv, TypeOK, NewbornKnown, Runnable, Keyed
<1>2. CASE ~ Undefined /\ Step
  <2>1. CASE HandleSignals \/ Tick \/ Yield \/ Block \/ IdleBlock \/ Exit
    BY <2>1, HandleKeepsIInv, TickKeepsIInv, YieldStepKeepsIInv, BlockStepKeepsIInv,
       ExitStepKeepsIInv
  <2>2. CASE \E t \in Page : BeginCreate(t) \/ Unblock(t)
    BY <2>2, BeginCreateKeepsIInv, UnblockKeepsIInv
  <2>3. CASE AcquireTidLock \/ TakeTid \/ FillIn \/ EndCreate
    BY <1>2, <2>3, AcquireKeepsIInv, TakeTidKeepsIInv, FillInKeepsIInv, EndCreateKeepsIInv
  <2>4. CASE \/ \E s \in Ignorable : Signal(s, "SIG_DFL") \/ Signal(s, "SIG_IGN")
             \/ \E how \in {"SIG_BLOCK", "SIG_UNBLOCK", "SIG_SETMASK"} :
                  \E set \in SUBSET Maskable : SigProcMask(how, set)
             \/ \E x \in Lifetimes : SetLifetime(x)
    BY <2>4, CallKeepsIInv
  <2>5. CASE \E tid \in 0..MaxTid, s \in Sent : Kill(tid, s)
    BY <2>5, KillKeepsIInv
  <2>6. CASE Down \/ Up
    BY <1>2, <2>6, DownKeepsIInv, UpKeepsIInv
  <2> QED BY <1>2, <2>1, <2>2, <2>3, <2>4, <2>5, <2>6 DEF Step
<1> QED BY <1>1, <1>2 DEF Next

LEMMA Invariance == Spec => []IInv
BY InitIInv, StepKeepsIInv, PTL DEF Spec

(* The structures of threads and signals keep their types, and a thread in  *)
(* thread_create has a page for its child that is not its own.              *)
THEOREM TypeCorrect == Spec => [](TypeOK /\ NewbornKnown(thread))
<1>1. IInv => TypeOK /\ NewbornKnown(thread)
  BY DEF IInv
<1> QED BY <1>1, Invariance, PTL

(* No runnable thread is lost or queued twice and exactly one runs, with    *)
(* any types of signals sent, masked and ignored together, up to and in the *)
(* first state in which an ASSERT has failed, an elem is on two lists or a  *)
(* thread without a stack is ready.  Only SIG_UBLOCK leads to such a state: *)
(* WaitersSleep and AlwaysDefined.                                          *)
THEOREM RunQueueCorrect == Spec => []RunQueue
<1>1. IInv => RunQueue
  BY DEF IInv, Runnable, RunQueue
<1> QED BY <1>1, Invariance, PTL

(* No two signals of a type are pending for one thread.                     *)
THEOREM OnePending == Spec => []OnePendingPerType
<1>1. IInv => OnePendingPerType
  BY DEF IInv, Keyed, OnePendingPerType
<1> QED BY <1>1, Invariance, PTL

----------------------------------------------------------------------------
(* What a switch leaves.                                                    *)

(* Only handleSignals completes a switch, on its way without an exit.       *)
LEMMA SwitchCompletes ==
  ASSUME Next, delivering, ~delivering'
  PROVE  \E gone \in SUBSET Dangling :
           /\ ~(Handled \cap {"SIG_CPU", "SIG_KILL"} # {})
           /\ thread' = HandledThreads
           /\ sig_list' = Filter(sig_list, Kept(gone))
           /\ current' = current
<1>1. HandleSignals
  <2>1. ~Tick /\ ~Yield /\ ~Block /\ ~IdleBlock /\ ~Exit /\ ~Down /\ ~Up
    BY DEF Tick, Yield, Block, IdleBlock, Exit, Down, Up, CanCall, At
  <2>2. \A t \in Page : ~BeginCreate(t) /\ ~Unblock(t)
    BY DEF BeginCreate, Unblock, CanCall, At
  <2>3. ~AcquireTidLock /\ ~TakeTid /\ ~FillIn /\ ~EndCreate
    BY DEF AcquireTidLock, TakeTid, FillIn, EndCreate, At
  <2>4. /\ \A s, a : ~Signal(s, a)
        /\ \A how, set : ~SigProcMask(how, set)
        /\ \A x : ~SetLifetime(x)
        /\ \A tid, s : ~Kill(tid, s)
    BY DEF Signal, SigProcMask, SetLifetime, Kill, At
  <2> QED BY <2>1, <2>2, <2>3, <2>4 DEF Next, Step
<1>2. PICK gone \in SUBSET Dangling :
        IF Handled \cap {"SIG_CPU", "SIG_KILL"} # {}
        THEN ExitFrom(ready_list \o Receivers, Filter(sig_list, Kept(gone)), HandledThreads)
        ELSE /\ thread' = HandledThreads
             /\ ready_list' = ready_list \o Receivers
             /\ sig_list' = Filter(sig_list, Kept(gone))
             /\ delivering' = FALSE
             /\ UNCHANGED <<current, thread_ticks>>
  BY <1>1 DEF HandleSignals, Receivers, HandledThreads, ReceiverPages
<1>3. ~(Handled \cap {"SIG_CPU", "SIG_KILL"} # {})
  <2>1. ASSUME Handled \cap {"SIG_CPU", "SIG_KILL"} # {} PROVE FALSE
    <3>1. ExitFrom(ready_list \o Receivers, Filter(sig_list, Kept(gone)), HandledThreads)
      BY <1>2, <2>1
    <3> QED BY <3>1 DEF ExitFrom, Schedule
  <2> QED BY <2>1
<1> QED BY <1>2, <1>3

(* The handlers change neither masks nor lifetimes.                         *)
LEMMA HandledSets ==
  ASSUME IInv, NEW p \in Page
  PROVE  /\ HandledThreads[p].sigmask = thread[p].sigmask
         /\ HandledThreads[p].sigign = thread[p].sigign
         /\ HandledThreads[p].age = thread[p].age
         /\ HandledThreads[p].maxlifetime = thread[p].maxlifetime
         /\ HandledThreads[p].status \notin {"FREE", "DYING"} =>
              thread[p].status \notin {"FREE", "DYING"}
<1>1. thread[p] \in Struct
  BY Parts DEF Threads
<1>2. CASE p \in ReceiverPages
  <2>1. HandledThreads[p] = Woken(thread[p]) /\ thread[p].status = "BLOCKED"
    BY <1>2, ReceiversOnce DEF HandledThreads
  <2> QED BY <1>1, <2>1 DEF Woken, Struct
<1>3. CASE p \notin ReceiverPages /\ HandledThreads[p] = thread[p]
  BY <1>3
<1>4. CASE p \notin ReceiverPages /\ HandledThreads[p] = [thread[p] EXCEPT !.dchild = @ + 1]
  BY <1>1, <1>4 DEF Struct
<1> QED BY <1>2, <1>3, <1>4 DEF HandledThreads

(* What the state after a switch has delivered.                             *)
AllDelivered ==
  LET r == thread[current]
  IN  /\ \A e \in Elements(sig_list) :
           /\ e.receiver = current /\ e.sig # "SIG_UBLOCK" =>
                e.sig \in r.sigmask \ {"SIG_KILL"}
           /\ e.sig = "SIG_UBLOCK" /\ e.receiver \in Live(thread) =>
                \/ "SIG_UBLOCK" \in thread[e.receiver].sigmask
                \/ "SIG_UBLOCK" \notin thread[e.receiver].sigign
      /\ Expired(r) => "SIG_CPU" \in r.sigmask \/ "SIG_CPU" \notin r.sigign

LEMMA SwitchDeliversAll ==
  ASSUME IInv, Next, delivering, ~delivering'
  PROVE  AllDelivered'
<1>1. PICK gone \in SUBSET Dangling :
        /\ ~(Handled \cap {"SIG_CPU", "SIG_KILL"} # {})
        /\ thread' = HandledThreads
        /\ sig_list' = Filter(sig_list, Kept(gone))
        /\ current' = current
  BY SwitchCompletes
<1>2. current \in Page /\ sig_list \in Seq(Entry)
  BY Parts
<1>3. Elements(sig_list') \subseteq Kept(gone)
  BY <1>1, <1>2, FilterKeyed DEF IInv
<1>4. ASSUME NEW e \in Elements(sig_list')
      PROVE  e \in Entry /\ ~Taken(e)
  BY <1>2, <1>3, ElementsAt DEF Kept
<1>5. ASSUME NEW e \in Elements(sig_list'),
             e.receiver = current', e.sig # "SIG_UBLOCK"
      PROVE  e.sig \in thread'[current].sigmask \ {"SIG_KILL"}
  BY <1>1, <1>2, <1>4, <1>5, HandledSets DEF Taken
<1>6. ASSUME NEW e \in Elements(sig_list'),
             e.sig = "SIG_UBLOCK", e.receiver \in Live(thread')
      PROVE  \/ "SIG_UBLOCK" \in thread'[e.receiver].sigmask
             \/ "SIG_UBLOCK" \notin thread'[e.receiver].sigign
  <2>1. e.receiver \in Page /\ HandledThreads[e.receiver].status \notin {"FREE", "DYING"}
    BY <1>1, <1>6 DEF Live
  <2>2. thread[e.receiver].status # "FREE"
    BY <2>1, HandledSets
  <2> QED BY <1>1, <1>4, <1>6, <2>1, <2>2, HandledSets DEF Taken
<1>7. Expired(thread'[current]) =>
        "SIG_CPU" \in thread'[current].sigmask \/ "SIG_CPU" \notin thread'[current].sigign
  <2>1. Expired(thread'[current]) <=> Expired(thread[current])
    BY <1>1, <1>2, HandledSets DEF Expired
  <2>2. "SIG_CPU" \notin Handled
    BY <1>1
  <2>3. Expired(thread[current]) => "SIG_CPU" \in thread[current].sigmask
                                      \/ "SIG_CPU" \notin thread[current].sigign
    BY <2>2 DEF Handled, Delivered
  <2> QED BY <1>1, <1>2, <2>1, <2>3, HandledSets
<1> QED BY <1>1, <1>5, <1>6, <1>7 DEF AllDelivered, Expired

(* A completed switch leaves nothing that it had to deliver, whoever it     *)
(* wakes on the way and whatever palloc left in the pages of the dead.      *)
THEOREM SwitchComplete == Spec => SwitchDelivers
<1>1. IInv /\ [Next]_vars =>
        [(delivering /\ ~delivering') =>
           LET r == thread'[current']
           IN  /\ \A e \in Elements(sig_list') :
                    /\ e.receiver = current' /\ e.sig # "SIG_UBLOCK" =>
                         e.sig \in r.sigmask \ {"SIG_KILL"}
                    /\ e.sig = "SIG_UBLOCK" /\ e.receiver \in Live(thread') =>
                         \/ "SIG_UBLOCK" \in thread'[e.receiver].sigmask
                         \/ "SIG_UBLOCK" \notin thread'[e.receiver].sigign
               /\ Expired(r) => "SIG_CPU" \in r.sigmask \/ "SIG_CPU" \notin r.sigign]_vars
  BY SwitchDeliversAll DEF AllDelivered, Live
<1> QED BY <1>1, Invariance, PTL DEF Spec, SwitchDelivers

----------------------------------------------------------------------------
(* Who sleeps in the semaphore stays where it is while others run.          *)

(* From th to th2 nobody but current dies, and nobody else leaves sema_down.*)
Onlook(th, th2) ==
  \A p \in Page \ {current} :
    p \in Live(th) => p \in Live(th2) /\ (th[p].pc = "down" => th2[p].pc = "down")

LEMMA SwitchLeaves ==
  ASSUME current \in Page, NEW ready \in Seq(Page), NEW th \in Threads,
         Schedule(ready, th)
  PROVE  \A p \in Live(th) :
           /\ thread'[p].status \in {th[p].status, "RUNNING"}
           /\ thread'[p].pc = th[p].pc
<1> DEFINE next == IF ready = <<>> THEN Idle ELSE Head(ready)
           reaped == IF th[current].status = "DYING" /\ current # Main
                     THEN [th EXCEPT ![current] = Freed] ELSE th
<1>1. thread' = [reaped EXCEPT ![next].status = "RUNNING"]
  BY DEF Schedule
<1>2. next \in Page /\ "RUNNING" \in Status
  BY PopFront, PageAssumption DEF Status
<1>3. reaped \in Threads /\ \A p \in Live(th) : p \in Page /\ reaped[p] = th[p]
  BY ZeroedTyped DEF Threads, Live
<1> DEFINE th2 == [reaped EXCEPT ![next].status = "RUNNING"]
<1>4. thread' = th2
  BY <1>1
<1> HIDE DEF next, reaped
<1>5. /\ th2 \in Threads
      /\ \A p \in Page :
           /\ th2[p].status = IF p = next THEN "RUNNING" ELSE reaped[p].status
           /\ th2[p].pc = reaped[p].pc
  BY <1>2, <1>3, SetStatus DEF Status
<1> HIDE DEF th2
<1> QED BY <1>3, <1>4, <1>5

LEMMA SwitchIsOnlooked ==
  ASSUME NEW th, NEW th2 \in Threads, NEW ready \in Seq(Page), current \in Page,
         \A p \in Page \ {current} : th2[p].status = th[p].status /\ th2[p].pc = th[p].pc,
         Schedule(ready, th2)
  PROVE  Onlook(th, thread')
<1>1. \A p \in Live(th2) : /\ thread'[p].status \in {th2[p].status, "RUNNING"}
                           /\ thread'[p].pc = th2[p].pc
  BY SwitchLeaves
<1> QED BY <1>1 DEF Onlook, Live

LEMMA YieldIsOnlooked ==
  ASSUME IInv, NEW th, Alike(th), \A p \in Page : th[p].pc = thread[p].pc, YieldFrom(th)
  PROVE  Onlook(thread, thread')
<1> DEFINE ready == IF current = Idle THEN ready_list ELSE Append(ready_list, current)
           th2 == [th EXCEPT ![current].status = "READY"]
<1>1. current \in Page /\ ready_list \in Seq(Page) /\ th \in Threads
  BY Parts DEF Alike
<1>2. /\ th2 \in Threads
      /\ \A p \in Page : /\ th2[p].status = IF p = current THEN "READY" ELSE th[p].status
                         /\ th2[p].pc = th[p].pc
  BY <1>1, SetStatus DEF Status
<1>3. ready \in Seq(Page) /\ Schedule(ready, th2)
  BY <1>1 DEF YieldFrom
<1> HIDE DEF ready, th2
<1> QED BY <1>1, <1>2, <1>3, SwitchIsOnlooked DEF Alike

LEMMA BlockIsOnlooked ==
  ASSUME IInv, NEW pc \in Location, BlockAt(pc)
  PROVE  /\ Onlook(thread, thread')
         /\ current \in Live(thread') /\ thread'[current].pc = pc
<1> DEFINE r == [thread[current] EXCEPT !.status = "BLOCKED", !.pc = pc]
           th == [thread EXCEPT ![current].status = "BLOCKED", ![current].pc = pc]
<1>1. /\ current \in Page /\ ready_list \in Seq(Page) /\ thread \in Threads
      /\ thread[current] \in Struct
  BY Parts DEF Threads
<1>2. r \in Struct /\ r.status = "BLOCKED" /\ r.pc = pc
  BY <1>1 DEF Struct, Status
<1>3. th = [thread EXCEPT ![current] = r] /\ Schedule(ready_list, th)
  BY <1>1 DEF Threads, BlockAt
<1> HIDE DEF r, th
<1>4. th \in Threads /\ \A p \in Page : th[p] = IF p = current THEN r ELSE thread[p]
  <2>1. r \in Struct /\ current \in Page /\ thread \in Threads
    BY <1>1, <1>2
  <2> QED BY <1>3, <2>1 DEF Threads
<1>5. Onlook(thread, thread')
  BY <1>1, <1>3, <1>4, SwitchIsOnlooked
<1>6. current \in Live(th)
  BY <1>1, <1>2, <1>4 DEF Live
<1>7. thread'[current].status \in {"BLOCKED", "RUNNING"} /\ thread'[current].pc = pc
  <2>1. thread'[current].status \in {th[current].status, "RUNNING"}
        /\ thread'[current].pc = th[current].pc
    BY <1>1, <1>3, <1>4, <1>6, SwitchLeaves
  <2> QED BY <1>1, <1>2, <1>4, <2>1
<1> QED BY <1>1, <1>5, <1>7 DEF Live

LEMMA ExitIsOnlooked ==
  ASSUME current \in Page, NEW th, NEW th2 \in Threads, NEW ready \in Seq(Page), NEW sigs,
         \A p \in Page \ {current} :
           p \in Live(th) => p \in Live(th2) /\ (th[p].pc = "down" => th2[p].pc = "down"),
         ExitFrom(ready, sigs, th2)
  PROVE  Onlook(th, thread')
<1> DEFINE orphaned == Orphaned(th2)
           th3 == [orphaned EXCEPT ![current].status = "DYING"]
<1>1. /\ orphaned \in Threads
      /\ \A p \in Page : orphaned[p].status = th2[p].status /\ orphaned[p].pc = th2[p].pc
  <2>1. \A p \in Page : [th2[p] EXCEPT !.parent = -1] \in Struct
    BY DEF Threads, Struct
  <2> QED BY <2>1 DEF Orphaned, Threads, Struct
<1> HIDE DEF orphaned
<1>2. Schedule(ready, th3)
  BY DEF ExitFrom, orphaned
<1>3. /\ th3 \in Threads
      /\ \A p \in Page : /\ th3[p].status = IF p = current THEN "DYING"
                                                ELSE orphaned[p].status
                         /\ th3[p].pc = orphaned[p].pc
  BY <1>1, SetStatus DEF Status
<1> HIDE DEF th3
<1>4. \A p \in Page \ {current} : th3[p].status = th2[p].status /\ th3[p].pc = th2[p].pc
  BY <1>1, <1>3
<1>5. Onlook(th2, thread')
  BY <1>2, <1>3, <1>4, SwitchIsOnlooked
<1> QED BY <1>5 DEF Onlook

LEMMA HandleIsOnlooked == ASSUME IInv, HandleSignals PROVE Onlook(thread, thread')
<1>1. PICK gone \in SUBSET Dangling :
        IF Handled \cap {"SIG_CPU", "SIG_KILL"} # {}
        THEN ExitFrom(ready_list \o Receivers, Filter(sig_list, Kept(gone)), HandledThreads)
        ELSE thread' = HandledThreads
  BY DEF HandleSignals, Receivers, HandledThreads, ReceiverPages
<1>2. /\ current \in Page /\ HandledThreads \in Threads
      /\ ready_list \o Receivers \in Seq(Page)
  BY Parts, HandledFacts
<1>3. ASSUME NEW p \in Page, p \in Live(thread)
      PROVE  /\ p \in Live(HandledThreads)
             /\ thread[p].pc = "down" => HandledThreads[p].pc = "down"
  <2>1. thread[p] \in Struct
    BY Parts DEF Threads
  <2>2. CASE HandledThreads[p] = Woken(thread[p])
    BY <2>1, <2>2, WokenStruct DEF Live
  <2>3. CASE HandledThreads[p] = [thread[p] EXCEPT !.dchild = @ + 1]
    BY <1>3, <2>1, <2>3 DEF Live, Struct
  <2>4. CASE HandledThreads[p] = thread[p]
    BY <1>3, <2>4 DEF Live
  <2> QED BY <2>2, <2>3, <2>4 DEF HandledThreads
<1>4. CASE Handled \cap {"SIG_CPU", "SIG_KILL"} # {}
  BY <1>1, <1>2, <1>3, <1>4, ExitIsOnlooked
<1>5. CASE thread' = HandledThreads
  BY <1>3, <1>5 DEF Onlook
<1> QED BY <1>1, <1>4, <1>5

LEMMA WakingIsOnlooked ==
  ASSUME NEW th \in Threads, NEW t \in Page, NEW th2, th2 = [th EXCEPT ![t] = Woken(@)]
  PROVE  Onlook(th, th2)
<1>1. th[t] \in Struct
  BY DEF Threads
<1>2. \A p \in Page : th2[p] = IF p = t THEN Woken(th[t]) ELSE th[p]
  BY DEF Threads
<1> QED BY <1>1, <1>2, WokenStruct DEF Onlook, Live

(* Whatever current changes, of itself and of the thread that it creates.   *)
LEMMA CreatorIsOnlooked ==
  ASSUME NEW n \in Page, NEW th, NEW th2, NEW s,
         s.status = th[n].status, s.pc = th[n].pc,
         \A p \in Page \ {current} : th2[p] = IF p = n THEN s ELSE th[p]
  PROVE  Onlook(th, th2)
BY DEF Onlook, Live

LEMMA TickIsOnlooked == ASSUME IInv, Tick PROVE Onlook(thread, thread')
<1> DEFINE older == [p \in Page |->
             IF p \in Live(thread) /\ thread[p].age < MaxAge
             THEN [thread[p] EXCEPT !.age = @ + 1] ELSE thread[p]]
<1>1. (SliceOver /\ YieldFrom(older)) \/ thread' = older
  BY DEF Tick
<1>2. ASSUME NEW p \in Page
      PROVE  /\ older[p] \in Struct /\ older[p].status = thread[p].status
             /\ older[p].pc = thread[p].pc
  <2>1. thread[p] \in Struct
    BY Parts DEF Threads
  <2>2. CASE older[p] = thread[p]
    BY <2>1, <2>2
  <2>3. CASE older[p] = [thread[p] EXCEPT !.age = @ + 1] /\ thread[p].age < MaxAge
    <3>1. thread[p].age + 1 \in 0..MaxAge
      BY <2>1, <2>3, InputAssumption DEF Struct
    <3> HIDE DEF older
    <3> QED BY <2>1, <2>3, <3>1 DEF Struct
  <2> QED BY <2>2, <2>3
<1>3. older \in Threads
  BY <1>2 DEF Threads
<1> HIDE DEF older
<1>4. CASE YieldFrom(older)
  BY <1>2, <1>3, <1>4, YieldIsOnlooked DEF Alike
<1>5. CASE thread' = older
  BY <1>2, <1>5 DEF Onlook, Live
<1> QED BY <1>1, <1>4, <1>5

LEMMA TakeTidIsOnlooked == ASSUME IInv, TakeTid PROVE Onlook(thread, thread')
<1> DEFINE n == thread[current].newborn
           one == [thread EXCEPT ![current].pc = "numbered"]
           s == [one[n] EXCEPT !.tid = next_tid]
           named == [thread EXCEPT ![current].pc = "numbered", ![n].tid = next_tid]
           h == Head(tid_waiters)
<1>1. /\ current \in Page /\ thread \in Threads /\ n \in Page \ {current}
      /\ thread[current] \in Struct /\ thread[n] \in Struct /\ next_tid \in Nat
      /\ tid_waiters \in Seq(Page)
  BY Parts DEF Threads, TakeTid, At, IInv, NewbornKnown, Building
<1>2. [thread[current] EXCEPT !.pc = "numbered"] \in Struct
  BY <1>1 DEF Struct, Location
<1>3. one \in Threads /\ one[n] = thread[n]
      /\ \A p \in Page \ {current} : one[p] = thread[p]
  BY <1>1, <1>2 DEF Threads
<1>4. named = [one EXCEPT ![n] = s]
  BY <1>1 DEF Threads
<1>5. s \in Struct /\ s.status = thread[n].status /\ s.pc = thread[n].pc
  <2> HIDE DEF one
  <2> QED BY <1>1, <1>3 DEF Struct
<1>6. \/ thread' = named
      \/ tid_waiters # <<>> /\ thread' = [named EXCEPT ![h] = Woken(@)]
  BY DEF TakeTid
<1> HIDE DEF one, s, named, n
<1>7. named \in Threads /\ \A p \in Page : named[p] = IF p = n THEN s ELSE one[p]
  BY <1>1, <1>3, <1>4, <1>5 DEF Threads
<1>8. Onlook(thread, named)
  BY <1>1, <1>3, <1>5, <1>7, CreatorIsOnlooked
<1>9. CASE tid_waiters # <<>> /\ thread' = [named EXCEPT ![h] = Woken(@)]
  <2>1. h \in Page
    BY <1>1, <1>9, PopFront
  <2> HIDE DEF h
  <2>2. Onlook(named, thread')
    BY <1>7, <1>9, <2>1, WakingIsOnlooked
  <2> QED BY <1>8, <2>2 DEF Onlook
<1> QED BY <1>6, <1>8, <1>9

LEMMA FillInIsOnlooked == ASSUME IInv, FillIn PROVE Onlook(thread, thread')
<1> DEFINE n == thread[current].newborn
           s == [thread[n] EXCEPT !.parent = thread[current].tid, !.sigign = SigType,
                                  !.sigmask = {}, !.age = 0, !.maxlifetime = 0,
                                  !.child = 0, !.dchild = 0]
<1>1. /\ thread[current] \in Struct /\ current \in Page /\ thread \in Threads
      /\ n \in Page \ {current} /\ thread[n] \in Struct
  BY Parts DEF Threads, FillIn, At, IInv, NewbornKnown, Building
<1>2. s.status = thread[n].status /\ s.pc = thread[n].pc
  BY <1>1 DEF Struct
<1>3. \A p \in Page \ {current} : thread'[p] = IF p = n THEN s ELSE thread[p]
  BY <1>1 DEF FillIn, Threads
<1> HIDE DEF s, n
<1> QED BY <1>1, <1>2, <1>3, CreatorIsOnlooked

LEMMA EndCreateIsOnlooked == ASSUME IInv, EndCreate PROVE Onlook(thread, thread')
<1> DEFINE t == thread[current].newborn
           one == [thread EXCEPT ![t] = Woken(@)]
<1>1. current \in Page /\ thread \in Threads /\ t \in Page \ {current}
  BY Parts DEF EndCreate, At, IInv, NewbornKnown, Building
<1>2. Onlook(thread, one)
  BY <1>1, WakingIsOnlooked
<1>3. CASE thread[t].status = "BLOCKED"
  <2>1. \A p \in Page \ {current} : thread'[p] = one[p]
    BY <1>1, <1>3 DEF EndCreate, Threads
  <2> QED BY <1>2, <2>1 DEF Onlook, Live
<1>4. CASE thread[t].status # "BLOCKED"
  BY <1>4 DEF EndCreate, Panic, Onlook, Live
<1> QED BY <1>3, <1>4

----------------------------------------------------------------------------
(* Families, the signals that parents send their children and the lock that *)
(* thread_create takes.  The invariant says of each thread where in         *)
(* thread_create it may stand and what that means for the page of its       *)
(* child, because pages and signals outlive the threads they were meant for.*)


Early == {"new", "locked", "numbered"}

(* What thread_create has not given a parent yet is known to nobody else;   *)
(* odd are the pages excused from that.                                     *)
Unfinished(th, odd) ==
  \A p \in Live(th) : th[p].parent = 0 =>
    /\ th[p].sigign = {}
    /\ p \in odd \/ (th[p].status = "BLOCKED" /\ th[p].pc = "unborn")

(* Tids are handed out once, and parents are older than their children.     *)
Tids(th, next) ==
  /\ \A p \in Live(th) : th[p].tid < next
  /\ \A p, q \in Live(th) : th[p].tid = th[q].tid /\ th[p].tid # 0 => p = q
  /\ \A p \in Live(th) : th[p].parent # 0 => th[p].parent < th[p].tid /\ 0 < th[p].tid
  /\ \A p \in Live(th) : th[p].parent \notin {0, -1} =>
       \E q \in Live(th) : th[q].tid = th[p].parent

(* A creator's page for its child is the child's alone.                     *)
Creators(th) ==
  /\ \A p \in Live(th) : th[p].pc \in Early =>
       LET n == th[p].newborn
       IN  /\ n \in Live(th) /\ th[n].parent = 0
           /\ IF th[p].pc = "numbered" THEN th[p].tid < th[n].tid ELSE th[n].tid = 0
  /\ \A p, q \in Live(th) :
       th[p].pc \in Early /\ th[q].pc \in Early /\ th[p].newborn = th[q].newborn => p = q

(* tid_lock's holder is in allocate_tid, or was killed there; then its page *)
(* is nobody's, or that of a thread that will never be numbered.            *)
Locking(th, lock, waiters) ==
  /\ \A p \in Live(th) : th[p].pc = "locked" => lock = p
  /\ lock \in Live(th) =>
       th[lock].pc = "locked" \/ (th[lock].parent = 0 /\ th[lock].tid = 0)
  /\ \A p \in Elements(waiters) : p \in Live(th) /\ th[p].pc = "new"

(* The idle thread is there for good.                                       *)
IdleLives(th) ==
  /\ Idle \in Live(th) /\ th[Idle].pc = "idle" /\ th[Idle].parent = -1
  /\ th[Idle].maxlifetime = 0

(* The pending signals that end their receiver.                             *)
Deadly(sigs) == {e \in Elements(sigs) : e.sig \in {"SIG_KILL", "SIG_CPU"}}

Orders(th, deadly) ==
  \A e \in deadly :
    /\ e.sig = "SIG_KILL" /\ 0 < e.sender
    /\ e.receiver \in Live(th) \ {Idle} /\ e.to = th[e.receiver].tid
    /\ th[e.receiver].parent \in {e.sender, -1}

Kin(th, deadly, next, lock, waiters, odd) ==
  /\ Unfinished(th, odd)
  /\ Tids(th, next)
  /\ Creators(th)
  /\ Locking(th, lock, waiters)
  /\ IdleLives(th)
  /\ Orders(th, deadly)

(* Who is on the list of the semaphore is alive, in sema_down.              *)
Downs(th, waiters) == \A p \in Elements(waiters) : p \in Live(th) /\ th[p].pc = "down"

KInv ==
  /\ IInv
  /\ Kin(thread, Deadly(sig_list), next_tid, tid_lock, tid_waiters, Elements(ready_list))
  /\ Downs(thread, sema.waiters)
  /\ KilledNeverRuns

----------------------------------------------------------------------------
(* Steps that change nobody's kin.                                          *)

(* The places that the invariant speaks of.                                 *)
Fixed == Early \cup {"idle"}

(* th2 has the threads of th, at the same places if they are Fixed.         *)
Quiet(th, th2, odd) ==
  /\ Live(th2) = Live(th)
  /\ \A p \in Live(th) :
       /\ th2[p].tid = th[p].tid /\ th2[p].parent = th[p].parent
       /\ th2[p].pc \in Early => th2[p].newborn = th[p].newborn
       /\ th[p].pc \in Fixed \/ th2[p].pc \in Fixed => th2[p].pc = th[p].pc
       /\ th[p].parent = 0 =>
            /\ th2[p].sigign = th[p].sigign
            /\ p \in odd \/ (th2[p].status = th[p].status /\ th2[p].pc = th[p].pc)
  /\ th2[Idle].maxlifetime = th[Idle].maxlifetime

LEMMA QuietKeepsKin ==
  ASSUME NEW th, NEW th2, NEW deadly, NEW deadly2, NEW next, NEW lock,
         NEW waiters, NEW waiters2, NEW odd,
         Kin(th, deadly, next, lock, waiters, {}), Quiet(th, th2, odd),
         deadly2 \subseteq deadly,
         \A p \in Elements(waiters2) :
           p \in Elements(waiters) \/ (p \in Live(th) /\ th[p].pc = "new")
  PROVE  Kin(th2, deadly2, next, lock, waiters2, odd)
<1>1. Live(th2) = Live(th)
  BY DEF Quiet
<1> DEFINE live == Live(th)
<1>2. \A p \in live :
        /\ th2[p].tid = th[p].tid /\ th2[p].parent = th[p].parent
        /\ th2[p].pc \in Early => th2[p].newborn = th[p].newborn
        /\ th[p].pc \in Fixed \/ th2[p].pc \in Fixed => th2[p].pc = th[p].pc
        /\ th[p].parent = 0 =>
             /\ th2[p].sigign = th[p].sigign
             /\ p \in odd \/ (th2[p].status = th[p].status /\ th2[p].pc = th[p].pc)
  BY DEF Quiet
<1> HIDE DEF live
<1>3. Live(th) = live /\ Live(th2) = live
  BY <1>1 DEF live
<1>4. Unfinished(th2, odd)
  BY <1>2, <1>3 DEF Kin, Unfinished
<1>5. Tids(th2, next)
  BY <1>2, <1>3 DEF Kin, Tids
<1>6. Creators(th2)
  <2>1. \A p \in live : th2[p].pc \in Early =>
          th[p].pc = th2[p].pc /\ th2[p].newborn = th[p].newborn
    BY <1>2 DEF Fixed
  <2>2. ASSUME NEW p \in live, th2[p].pc \in Early
        PROVE  LET n == th2[p].newborn
               IN  /\ n \in live /\ th2[n].parent = 0
                   /\ IF th2[p].pc = "numbered" THEN th2[p].tid < th2[n].tid
                      ELSE th2[n].tid = 0
    <3>1. th[p].pc = th2[p].pc /\ th2[p].newborn = th[p].newborn
      BY <2>1, <2>2
    <3>2. LET n == th[p].newborn
          IN  /\ n \in live /\ th[n].parent = 0
              /\ IF th[p].pc = "numbered" THEN th[p].tid < th[n].tid ELSE th[n].tid = 0
      BY <1>3, <2>2, <3>1 DEF Kin, Creators
    <3> QED BY <1>2, <3>1, <3>2
  <2> QED BY <1>3, <2>1, <2>2 DEF Kin, Creators
<1>7. Locking(th2, lock, waiters2)
  BY <1>2, <1>3 DEF Kin, Locking, Fixed, Early
<1>8. IdleLives(th2)
  BY <1>2, <1>3 DEF Kin, IdleLives, Quiet, Fixed
<1>9. Orders(th2, deadly2)
  BY <1>2, <1>3 DEF Kin, Orders
<1> QED BY <1>4, <1>5, <1>6, <1>7, <1>8, <1>9 DEF Kin

(* The invariant of a state whose step is defined.                          *)
KinNow == Kin(thread, Deadly(sig_list), next_tid, tid_lock, tid_waiters, {})

LEMMA OddMayGrow ==
  ASSUME NEW th, NEW deadly, NEW next, NEW lock, NEW waiters, NEW odd,
         Kin(th, deadly, next, lock, waiters, {})
  PROVE  Kin(th, deadly, next, lock, waiters, odd)
BY DEF Kin, Unfinished

(* The running thread has a parent or is an orphan, and waits for nothing.  *)
LEMMA RunningKin ==
  ASSUME KInv, ~Undefined
  PROVE  /\ KinNow /\ current \in Live(thread) /\ thread[current].parent # 0
         /\ 0 < thread[current].tid
         /\ current \notin Elements(tid_waiters) /\ current \notin Elements(sema.waiters)
<1>1. current \in Live(thread)
  BY Parts DEF KInv, Live
<1>2. \A p \in Live(thread) : thread[p].parent = 0 => p \notin Elements(ready_list) \cup {current}
  BY DEF Undefined, HalfBuilt
<1>3. KinNow
  <2>1. Unfinished(thread, {})
    BY <1>2 DEF KInv, Kin, Unfinished
  <2> QED BY <2>1 DEF KInv, Kin, KinNow
<1>4. current \notin Elements(tid_waiters) /\ current \notin Elements(sema.waiters)
  BY DEF Undefined, Waiting
<1> QED BY <1>1, <1>2, <1>3, <1>4 DEF KinNow, Kin, Tids

(* A switch to a thread that has been woken, or to the idle thread.         *)
LEMMA SwitchKeepsKin ==
  ASSUME current \in Page, NEW ready \in Seq(Page), NEW th \in Threads,
         \A p \in Elements(ready) : th[p].status = "READY",
         NEW deadly, NEW next, NEW lock, NEW waiters,
         Kin(th, deadly, next, lock, waiters, {}), Schedule(ready, th)
  PROVE  Kin(thread', deadly, next, lock, waiters, {}) /\ delivering'
<1> DEFINE chosen == IF ready = <<>> THEN Idle ELSE Head(ready)
           reaped == IF th[current].status = "DYING" /\ current # Main
                     THEN [th EXCEPT ![current] = Freed] ELSE th
<1>1. thread' = [reaped EXCEPT ![chosen].status = "RUNNING"] /\ delivering'
  BY DEF Schedule
<1>2. chosen \in Live(th) /\ th[chosen].parent # 0
  <2>1. CASE ready = <<>>
    BY <2>1 DEF Kin, IdleLives
  <2>2. CASE ready # <<>>
    <3>1. Head(ready) \in Page /\ Head(ready) \in Elements(ready)
      BY <2>2, PopFront
    <3> QED BY <2>2, <3>1 DEF Kin, Unfinished, Live
  <2> QED BY <2>1, <2>2
<1>3. /\ reaped \in Threads
      /\ \A p \in Page : \/ reaped[p] = th[p]
                         \/ th[p].status = "DYING" /\ reaped[p].status = "FREE"
  BY ZeroedTyped DEF Threads
<1> HIDE DEF chosen, reaped
<1>4. \A p \in Live(th) : reaped[p] = th[p]
  BY <1>3 DEF Live
<1>5. \A p \in Page :
        /\ thread'[p].status = IF p = chosen THEN "RUNNING" ELSE reaped[p].status
        /\ thread'[p].pc = reaped[p].pc /\ thread'[p].newborn = reaped[p].newborn
        /\ thread'[p].tid = reaped[p].tid /\ thread'[p].parent = reaped[p].parent
        /\ thread'[p].sigign = reaped[p].sigign
        /\ thread'[p].maxlifetime = reaped[p].maxlifetime
  <2>1. /\ thread' = [p \in Page |-> IF p = chosen
                        THEN [reaped[p] EXCEPT !.status = "RUNNING"] ELSE reaped[p]]
    BY <1>1, <1>3 DEF Threads
  <2>2. \A p \in Page : LET s == [reaped[p] EXCEPT !.status = "RUNNING"]
          IN  /\ s.status = "RUNNING" /\ s.pc = reaped[p].pc
              /\ s.newborn = reaped[p].newborn /\ s.tid = reaped[p].tid
              /\ s.parent = reaped[p].parent /\ s.sigign = reaped[p].sigign
              /\ s.maxlifetime = reaped[p].maxlifetime
    BY <1>3 DEF Threads, Struct
  <2> QED BY <2>1, <2>2
<1>6. Live(thread') = Live(th)
  BY <1>2, <1>3, <1>5 DEF Live
<1>7. Quiet(th, thread', {})
  <2>1. Idle \in Live(th) /\ \A p \in Live(th) : p \in Page
    BY DEF Kin, IdleLives, Live
  <2> QED BY <1>2, <1>4, <1>5, <1>6, <2>1 DEF Quiet
<1> QED BY <1>1, <1>7, QuietKeepsKin

(* Another struct thread for the one that runs.                             *)
LEMMA CurrentIsQuiet ==
  ASSUME IInv, KinNow, current \in Live(thread), thread[current].parent # 0,
         NEW r \in Struct, r.status \notin {"FREE", "DYING"},
         r.tid = thread[current].tid, r.parent = thread[current].parent,
         r.pc \in Early => r.newborn = thread[current].newborn,
         thread[current].pc \in Fixed \/ r.pc \in Fixed => r.pc = thread[current].pc,
         current = Idle => r.maxlifetime = thread[current].maxlifetime,
         NEW th, th = [thread EXCEPT ![current] = r]
  PROVE  Quiet(thread, th, {})
<1>1. thread \in Threads /\ current \in Page
  BY Parts
<1>2. \A p \in Page : th[p] = IF p = current THEN r ELSE thread[p]
  BY <1>1 DEF Threads
<1>3. Live(th) = Live(thread)
  BY <1>2 DEF Live
<1>4. Idle \in Page /\ \A p \in Live(thread) : p \in Page
  BY PageAssumption DEF Live
<1> QED BY <1>2, <1>3, <1>4 DEF Quiet

(* Threads that differ in their ages.                                       *)
LEMMA YieldKeepsKin ==
  ASSUME KInv, ~Undefined, NEW th, Alike(th), Quiet(thread, th, {}),
         YieldFrom(th), UNCHANGED <<sig_list, next_tid, tid_lock,
                                    tid_waiters>>
  PROVE  KinNow' /\ delivering'
<1> DEFINE ready == IF current = Idle THEN ready_list ELSE Append(ready_list, current)
           th2 == [th EXCEPT ![current].status = "READY"]
<1>1. /\ current \in Page /\ ready_list \in Seq(Page) /\ th \in Threads
      /\ Elements(ready_list) \subseteq Page /\ current \in Live(thread)
      /\ thread[current].parent # 0 /\ KinNow
  BY Parts, RunningKin DEF Alike, KInv
<1>2. Kin(th, Deadly(sig_list), next_tid, tid_lock, tid_waiters, {})
  BY <1>1, QuietKeepsKin DEF KinNow
<1>3. /\ th2 \in Threads
      /\ \A p \in Page : /\ th2[p].status = IF p = current THEN "READY" ELSE th[p].status
                         /\ th2[p].pc = th[p].pc /\ th2[p].newborn = th[p].newborn
                         /\ th2[p].tid = th[p].tid /\ th2[p].parent = th[p].parent
                         /\ th2[p].sigign = th[p].sigign
                         /\ th2[p].maxlifetime = th[p].maxlifetime
  BY <1>1, SetStatus DEF Status
<1>4. ready \in Seq(Page) /\ Elements(ready) \subseteq Elements(ready_list) \cup {current}
  BY <1>1, PushBack
<1>5. Schedule(ready, th2)
  BY DEF YieldFrom
<1> HIDE DEF ready, th2
<1>6. \A p \in Elements(ready) : th2[p].status = "READY"
  BY <1>1, <1>3, <1>4 DEF KInv, IInv, Runnable, Alike
<1>7. current \in Live(th) /\ th[current].parent # 0
  BY <1>1 DEF Quiet
<1>8. Live(th2) = Live(th)
  BY <1>3, <1>7 DEF Live
<1>9. Quiet(th, th2, {})
  <2>1. Idle \in Page /\ \A p \in Live(th) : p \in Page
    BY PageAssumption DEF Live
  <2> QED BY <1>3, <1>7, <1>8, <2>1 DEF Quiet
<1>10. Kin(th2, Deadly(sig_list), next_tid, tid_lock, tid_waiters, {})
  BY <1>2, <1>9, QuietKeepsKin
<1>11. Kin(thread', Deadly(sig_list), next_tid, tid_lock, tid_waiters, {}) /\ delivering'
  BY <1>1, <1>3, <1>4, <1>5, <1>6, <1>10, SwitchKeepsKin
<1> QED BY <1>11 DEF KinNow, Deadly

----------------------------------------------------------------------------
(* The steps, from a state of KInv whose next step is defined.              *)

LEMMA TickKeepsKin == ASSUME KInv, ~Undefined, Tick PROVE KinNow'
<1> DEFINE older == [p \in Page |->
             IF p \in Live(thread) /\ thread[p].age < MaxAge
             THEN [thread[p] EXCEPT !.age = @ + 1] ELSE thread[p]]
<1>1. \/ SliceOver /\ YieldFrom(older)
      \/ thread' = older /\ UNCHANGED <<ready_list, current, delivering>>
  BY DEF Tick
<1>2. UNCHANGED <<sig_list, next_tid, tid_lock, tid_waiters>>
  BY DEF Tick
<1>3. ASSUME NEW p \in Page
      PROVE  /\ older[p] \in Struct /\ older[p].status = thread[p].status
             /\ older[p].pc = thread[p].pc /\ older[p].newborn = thread[p].newborn
             /\ older[p].tid = thread[p].tid /\ older[p].parent = thread[p].parent
             /\ older[p].sigign = thread[p].sigign
             /\ older[p].maxlifetime = thread[p].maxlifetime
  <2>1. thread[p] \in Struct
    BY Parts DEF KInv, Threads
  <2>2. CASE older[p] = thread[p]
    BY <2>1, <2>2
  <2>3. CASE older[p] = [thread[p] EXCEPT !.age = @ + 1] /\ thread[p].age < MaxAge
    <3>1. thread[p].age + 1 \in 0..MaxAge
      BY <2>1, <2>3, InputAssumption DEF Struct
    <3> HIDE DEF older
    <3> QED BY <2>1, <2>3, <3>1 DEF Struct
  <2> QED BY <2>2, <2>3
<1>4. older \in Threads
  BY <1>3 DEF Threads
<1> HIDE DEF older
<1>5. Alike(older)
  BY <1>3, <1>4 DEF Alike
<1>6. Quiet(thread, older, {})
  <2>1. Live(older) = Live(thread)
    BY <1>3 DEF Live
  <2>2. Idle \in Page /\ \A p \in Live(thread) : p \in Page
    BY PageAssumption DEF Live
  <2> QED BY <1>3, <2>1, <2>2 DEF Quiet
<1>7. CASE SliceOver /\ YieldFrom(older)
  BY <1>2, <1>5, <1>6, <1>7, YieldKeepsKin
<1>8. CASE thread' = older /\ UNCHANGED <<ready_list, current, delivering>>
  <2>1. Kin(thread', Deadly(sig_list), next_tid, tid_lock, tid_waiters, {})
    BY <1>6, <1>8, RunningKin, QuietKeepsKin DEF KinNow
  <2> QED BY <1>2, <2>1 DEF KinNow, Deadly
<1> QED BY <1>1, <1>7, <1>8

LEMMA ThreadIsQuiet == Quiet(thread, thread, {})
BY DEF Quiet

LEMMA YieldStepKeepsKin == ASSUME KInv, ~Undefined, Yield PROVE KinNow'
<1>1. Alike(thread)
  BY Parts DEF Alike, KInv
<1> QED BY <1>1, ThreadIsQuiet, YieldKeepsKin DEF Yield

(* thread_block, outside or inside a semaphore.                             *)
LEMMA BlockKeepsKin ==
  ASSUME KInv, ~Undefined, NEW pc \in {"asleep", "down", "idle", "new"}, BlockAt(pc),
         IF pc \in {"asleep", "down"} THEN thread[current].pc \in {"run", "down"}
         ELSE thread[current].pc = pc,
         UNCHANGED <<sig_list, next_tid, tid_lock>>,
         NEW waiters \in Seq(Page), tid_waiters' = waiters,
         \A p \in Elements(waiters) :
           p \in Elements(tid_waiters) \/ (p = current /\ pc = "new")
  PROVE  KinNow'
<1> DEFINE r == [thread[current] EXCEPT !.status = "BLOCKED", !.pc = pc]
           th == [thread EXCEPT ![current].status = "BLOCKED", ![current].pc = pc]
<1>1. /\ current \in Page /\ ready_list \in Seq(Page) /\ thread \in Threads /\ IInv
      /\ KinNow /\ current \in Live(thread) /\ thread[current].parent # 0
      /\ Elements(ready_list) \subseteq Page /\ current \notin Elements(ready_list)
  BY Parts, RunningKin DEF KInv
<1>2. /\ r \in Struct /\ r.status = "BLOCKED" /\ r.pc = pc
      /\ r.tid = thread[current].tid /\ r.parent = thread[current].parent
      /\ r.newborn = thread[current].newborn
      /\ r.maxlifetime = thread[current].maxlifetime
  <2>1. thread[current] \in Struct /\ "BLOCKED" \in Status /\ pc \in Location
    BY <1>1 DEF Threads, Status, Location
  <2> QED BY <2>1 DEF Struct
<1>3. th = [thread EXCEPT ![current] = r]
  BY <1>1 DEF Threads
<1>4. Schedule(ready_list, th)
  BY DEF BlockAt
<1> HIDE DEF r, th
<1>5. Quiet(thread, th, {})
  <2>1. thread[current].pc \in Fixed \/ r.pc \in Fixed => r.pc = thread[current].pc
    BY <1>2 DEF Fixed, Early
  <2>2. r.status \notin {"FREE", "DYING"}
    BY <1>2
  <2>3. r.pc \in Early => r.newborn = thread[current].newborn
    BY <1>2
  <2> QED BY <1>1, <1>2, <1>3, <2>1, <2>2, <2>3, CurrentIsQuiet
<1>6. Kin(th, Deadly(sig_list), next_tid, tid_lock, waiters, {})
  BY <1>1, <1>5, QuietKeepsKin DEF KinNow
<1>7. th \in Threads /\ \A p \in Page : th[p] = IF p = current THEN r ELSE thread[p]
  <2>1. r \in Struct /\ current \in Page /\ thread \in Threads
    BY <1>1, <1>2
  <2> QED BY <1>3, <2>1 DEF Threads
<1>8. \A p \in Elements(ready_list) : th[p].status = "READY"
  BY <1>1, <1>7 DEF IInv, Runnable
<1>9. Kin(thread', Deadly(sig_list), next_tid, tid_lock, waiters, {})
  BY <1>1, <1>4, <1>6, <1>7, <1>8, SwitchKeepsKin
<1> QED BY <1>9 DEF KinNow, Deadly

LEMMA BlockStepKeepsKin == ASSUME KInv, ~Undefined, Block \/ IdleBlock PROVE KinNow'
<1>1. tid_waiters \in Seq(Page)
  BY Parts DEF KInv
<1> QED BY <1>1, BlockKeepsKin DEF Block, IdleBlock, At

(* Woken threads that have a parent or are excused.                         *)
LEMMA WakingIsQuiet ==
  ASSUME NEW th \in Threads, NEW t \in Live(th), NEW odd, th[t].parent # 0 \/ t \in odd,
         NEW th2, th2 = [th EXCEPT ![t] = Woken(th[t])]
  PROVE  Quiet(th, th2, odd)
<1>1. t \in Page /\ th[t] \in Struct
  BY DEF Live, Threads
<1>2. \A p \in Page : th2[p] = IF p = t THEN Woken(th[t]) ELSE th[p]
  BY <1>1 DEF Threads
<1>3. Live(th2) = Live(th)
  BY <1>1, <1>2, WokenStruct DEF Live
<1>4. Woken(th[t]).maxlifetime = th[t].maxlifetime
  BY <1>1 DEF Woken, Struct
<1>5. Idle \in Page /\ \A p \in Live(th) : p \in Page
  BY PageAssumption DEF Live
<1> QED BY <1>1, <1>2, <1>3, <1>4, <1>5, WokenStruct DEF Quiet, Fixed, Early

(* Whom thread_unblock wakes may have been put to sleep again by then, or be*)
(* another thread, still without a stack: any but a thread that is awake.   *)
LEMMA UnblockKeepsKin ==
  ASSUME KInv, ~Undefined, NEW t \in Page, Unblock(t)
  PROVE  Kin(thread', Deadly(sig_list'), next_tid', tid_lock', tid_waiters',
             Elements(ready_list'))
<1>1. thread \in Threads /\ KinNow /\ ready_list \in Seq(Page)
  BY Parts, RunningKin DEF KInv
<1>2. UNCHANGED <<sig_list, next_tid, tid_lock, tid_waiters>>
  BY DEF Unblock
<1>3. CASE thread[t].status = "BLOCKED"
  <2>1. thread' = [thread EXCEPT ![t] = Woken(thread[t])]
        /\ ready_list' = Append(ready_list, t)
    BY <1>3 DEF Unblock
  <2>2. t \in Live(thread) /\ t \in Elements(ready_list')
    BY <1>1, <1>3, <2>1, PushBack DEF Live
  <2>3. Quiet(thread, thread', Elements(ready_list'))
    BY <1>1, <2>1, <2>2, WakingIsQuiet
  <2>4. Kin(thread', Deadly(sig_list), next_tid, tid_lock, tid_waiters,
            Elements(ready_list'))
    BY <1>1, <2>3, QuietKeepsKin DEF KinNow
  <2> QED BY <1>2, <2>4 DEF Deadly
<1>4. CASE thread[t].status # "BLOCKED"
  <2>1. UNCHANGED <<thread, ready_list>>
    BY <1>4 DEF Unblock
  <2>2. Kin(thread, Deadly(sig_list), next_tid, tid_lock, tid_waiters, Elements(ready_list))
    BY DEF KInv
  <2> QED BY <1>2, <2>1, <2>2 DEF Deadly
<1> QED BY <1>3, <1>4

LEMMA DownKeepsKin == ASSUME KInv, ~Undefined, Down PROVE KinNow'
<1>1. /\ thread \in Threads /\ current \in Page /\ IInv /\ KinNow /\ tid_waiters \in Seq(Page)
      /\ current \in Live(thread) /\ thread[current].parent # 0
      /\ thread[current] \in Struct
  BY Parts, RunningKin DEF KInv, Threads
<1>2. /\ thread[current].pc \in {"run", "down"}
      /\ UNCHANGED <<sig_list, next_tid, tid_lock, tid_waiters>>
  BY DEF Down, At
<1>3. CASE sema.value = 0
  BY <1>1, <1>2, <1>3, BlockKeepsKin DEF Down
<1>4. CASE sema.value # 0
  <2> DEFINE r == [thread[current] EXCEPT !.pc = "run"]
  <2>1. thread' = [thread EXCEPT ![current] = r]
    BY <1>1, <1>4 DEF Down, Threads
  <2>2. /\ r \in Struct /\ r.status = thread[current].status /\ r.pc = "run"
        /\ r.tid = thread[current].tid /\ r.parent = thread[current].parent
        /\ r.maxlifetime = thread[current].maxlifetime
    BY <1>1 DEF Struct, Location
  <2> HIDE DEF r
  <2>3. Quiet(thread, thread', {})
    <3>1. thread[current].status \notin {"FREE", "DYING"}
      BY <1>1 DEF Live
    <3>2. /\ r.pc \notin Early
          /\ thread[current].pc \in Fixed \/ r.pc \in Fixed => r.pc = thread[current].pc
      BY <1>2, <2>2 DEF Fixed, Early
    <3> QED BY <1>1, <2>1, <2>2, <3>1, <3>2, CurrentIsQuiet
  <2>4. Kin(thread', Deadly(sig_list), next_tid, tid_lock, tid_waiters, {})
    BY <1>1, <2>3, QuietKeepsKin DEF KinNow
  <2> QED BY <1>2, <2>4 DEF KinNow, Deadly
<1> QED BY <1>3, <1>4

(* sema_up wakes a thread that has been built, in sema_down.                *)
LEMMA UpKeepsKin == ASSUME KInv, ~Undefined, Up PROVE KinNow'
<1> DEFINE t == Head(sema.waiters)
<1>1. thread \in Threads /\ KinNow /\ sema.waiters \in Seq(Page)
  BY Parts, RunningKin DEF KInv, SleepersTyped
<1>2. UNCHANGED <<sig_list, next_tid, tid_lock, tid_waiters>>
  BY DEF Up
<1>3. CASE sema.waiters = <<>>
  BY <1>1, <1>2, <1>3 DEF Up, KinNow, Deadly
<1>4. CASE sema.waiters # <<>>
  <2>1. thread' = [thread EXCEPT ![t] = Woken(thread[t])]
    BY <1>4 DEF Up
  <2>2. t \in Elements(sema.waiters)
    BY <1>1, <1>4, PopFront
  <2> HIDE DEF t
  <2>3. t \in Live(thread) /\ thread[t].pc = "down"
    BY <2>2 DEF KInv, Downs
  <2>4. thread[t].parent # 0
    BY <1>1, <2>3 DEF KinNow, Kin, Unfinished
  <2>5. Quiet(thread, thread', {})
    BY <1>1, <2>1, <2>3, <2>4, WakingIsQuiet
  <2>6. Kin(thread', Deadly(sig_list), next_tid, tid_lock, tid_waiters, {})
    BY <1>1, <2>5, QuietKeepsKin DEF KinNow
  <2> QED BY <1>2, <2>6 DEF KinNow, Deadly
<1> QED BY <1>3, <1>4

----------------------------------------------------------------------------
(* thread_exit and handleSignals.                                           *)

LEMMA FewerDeadly ==
  ASSUME NEW th, NEW deadly, NEW deadly2, NEW next, NEW lock, NEW waiters, NEW odd,
         Kin(th, deadly, next, lock, waiters, odd), deadly2 \subseteq deadly
  PROVE  Kin(th, deadly2, next, lock, waiters, odd)
BY DEF Kin, Orders

LEMMA QueuedElements ==
  ASSUME NEW sigs \in Seq(Entry), NEW th, NEW type, NEW sender, NEW p
  PROVE  \A e \in Elements(Queued(sigs, th, type, sender, p)) :
           \/ e \in Elements(sigs)
           \/ e = [sig |-> type, sender |-> sender, receiver |-> p, to |-> th[p].tid]
<1> DEFINE same(i) == sigs[i].receiver = p /\ sigs[i].sig = type
           entry == [sig |-> type, sender |-> sender, receiver |-> p,
                     to |-> th[p].tid]
           out == Queued(sigs, th, type, sender, p)
<1>1. CASE \E i \in 1..Len(sigs) : same(i)
  <2>1. out = [i \in 1..Len(sigs) |->
                 IF same(i) /\ \A j \in 1..(i - 1) : ~same(j)
                 THEN entry ELSE sigs[i]]
    BY <1>1 DEF Queued
  <2> HIDE DEF entry, same
  <2>2. /\ Len(out) = Len(sigs)
        /\ \A i \in 1..Len(sigs) : out[i] \in {entry, sigs[i]}
    BY <2>1
  <2> HIDE DEF out
  <2>3. \A e \in Elements(out) : e \in Elements(sigs) \/ e = entry
    BY <2>2 DEF Elements
  <2> QED BY <2>3 DEF out, entry
<1>2. CASE ~ \E i \in 1..Len(sigs) : same(i)
  <2>1. out = Append(sigs, entry)
    BY <1>2 DEF Queued
  <2> HIDE DEF entry
  <2>2. /\ Len(out) = Len(sigs) + 1 /\ out[Len(sigs) + 1] = entry
        /\ \A i \in 1..Len(sigs) : out[i] = sigs[i]
    BY <2>1
  <2> HIDE DEF out
  <2>3. \A e \in Elements(out) : e \in Elements(sigs) \/ e = entry
    BY <2>2 DEF Elements
  <2> QED BY <2>3 DEF out, entry
<1> QED BY <1>1, <1>2

(* Who exits has been switched to and waits for nothing.                    *)
LEMMA ExitKeepsKin ==
  ASSUME current \in Page, NEW ready \in Seq(Page), NEW sigs \in Seq(Entry),
         NEW th \in Threads, Runnable(ready, th, {current}),
         current # Idle, th[current].parent # 0, current \notin Elements(tid_waiters),
         Kin(th, Deadly(sigs), next_tid, tid_lock, tid_waiters, {}),
         \A e \in Deadly(sigs) : e.receiver # current,
         ExitFrom(ready, sigs, th), UNCHANGED <<next_tid, tid_lock,
                                                tid_waiters>>
  PROVE  KinNow' /\ delivering'
<1> DEFINE orphaned == Orphaned(th)
           th2 == [orphaned EXCEPT ![current].status = "DYING"]
           me == th[current].tid
<1>1. /\ th[current].status = "RUNNING" /\ current \in Live(th)
      /\ \A p \in Live(th) : p \in Page
  BY DEF Runnable, Live
<1>2. \A p \in Live(th) : th[p].tid \in Nat /\ th[p].parent \in Nat \cup {-1}
  BY <1>1 DEF Threads, Struct
<1>3. 0 < me /\ me \in Nat
  BY <1>1, <1>2 DEF Kin, Tids
<1>4. /\ orphaned \in Threads
      /\ \A p \in Page :
           /\ orphaned[p].status = th[p].status /\ orphaned[p].pc = th[p].pc
           /\ orphaned[p].newborn = th[p].newborn /\ orphaned[p].tid = th[p].tid
           /\ orphaned[p].sigign = th[p].sigign
           /\ orphaned[p].maxlifetime = th[p].maxlifetime
           /\ orphaned[p].parent = IF p \in Live(th) /\ th[p].parent = me
                                   THEN -1 ELSE th[p].parent
  <2>1. \A p \in Page : LET s == [th[p] EXCEPT !.parent = -1]
          IN  /\ s \in Struct /\ s.status = th[p].status /\ s.pc = th[p].pc
              /\ s.newborn = th[p].newborn /\ s.tid = th[p].tid
              /\ s.sigign = th[p].sigign /\ s.maxlifetime = th[p].maxlifetime
              /\ s.parent = -1
    BY DEF Threads, Struct
  <2> QED BY <2>1 DEF Orphaned, Threads
<1> HIDE DEF orphaned
<1>5. /\ th2 \in Threads
      /\ \A p \in Page :
           /\ th2[p].status = IF p = current THEN "DYING" ELSE th[p].status
           /\ th2[p].pc = th[p].pc
           /\ th2[p].newborn = th[p].newborn /\ th2[p].tid = th[p].tid
           /\ th2[p].sigign = th[p].sigign
           /\ th2[p].maxlifetime = th[p].maxlifetime
           /\ th2[p].parent = IF p \in Live(th) /\ th[p].parent = me
                              THEN -1 ELSE th[p].parent
  <2> DEFINE s == [orphaned[current] EXCEPT !.status = "DYING"]
  <2>1. s \in Struct /\ s.status = "DYING" /\ s.pc = orphaned[current].pc
        /\ s.newborn = orphaned[current].newborn /\ s.tid = orphaned[current].tid
        /\ s.sigign = orphaned[current].sigign /\ s.parent = orphaned[current].parent
        /\ s.maxlifetime = orphaned[current].maxlifetime
    <3>1. orphaned[current] \in Struct
      BY <1>4 DEF Threads
    <3> QED BY <3>1 DEF Struct, Status
  <2>2. th2 = [p \in Page |-> IF p = current THEN s ELSE orphaned[p]]
    BY <1>4 DEF Threads
  <2> HIDE DEF s, th2
  <2>3. th2 \in Threads
    BY <1>4, <2>1, <2>2 DEF Threads
  <2>4. \A p \in Page : th2[p] = IF p = current THEN s ELSE orphaned[p]
    BY <2>2
  <2> HIDE DEF me
  <2> QED BY <1>4, <2>1, <2>3, <2>4
<1>6. Schedule(ready, th2)
  BY DEF ExitFrom, orphaned
<1> HIDE DEF th2
<1>7. Live(th2) = Live(th) \ {current}
  BY <1>5 DEF Live
<1>8. \A p \in Live(th2) :
        /\ p \in Live(th) /\ p # current
        /\ th2[p].status = th[p].status /\ th2[p].pc = th[p].pc
        /\ th2[p].newborn = th[p].newborn /\ th2[p].tid = th[p].tid
        /\ th2[p].sigign = th[p].sigign
        /\ th2[p].parent = IF th[p].parent = me THEN -1 ELSE th[p].parent
        /\ th2[p].parent = 0 <=> th[p].parent = 0
  BY <1>1, <1>3, <1>5, <1>7
<1> HIDE DEF me
<1>9. Kin(th2, Deadly(sigs), next_tid, tid_lock, tid_waiters, {})
  <2>1. Unfinished(th2, {})
    BY <1>8 DEF Kin, Unfinished
  <2>2. Tids(th2, next_tid)
    <3>1. \A p, q \in Live(th2) : th2[p].tid = th2[q].tid /\ th2[p].tid # 0 => p = q
      BY <1>8 DEF Kin, Tids
    <3>2. \A p \in Live(th2) : th2[p].tid < next_tid
      BY <1>8 DEF Kin, Tids
    <3>3. \A p \in Live(th2) :
            th2[p].parent # 0 => th2[p].parent < th2[p].tid /\ 0 < th2[p].tid
      BY <1>2, <1>8 DEF Kin, Tids
    <3>4. ASSUME NEW p \in Live(th2), th2[p].parent \notin {0, -1}
          PROVE  \E q \in Live(th2) : th2[q].tid = th2[p].parent
      <4>1. p \in Live(th) /\ th[p].parent = th2[p].parent /\ th[p].parent # me
        BY <1>8, <3>4
      <4>2. PICK q \in Live(th) : th[q].tid = th[p].parent
        BY <3>4, <4>1 DEF Kin, Tids
      <4>3. q # current
        BY <4>1, <4>2 DEF me
      <4> QED BY <1>7, <1>8, <4>1, <4>2, <4>3
    <3> QED BY <3>1, <3>2, <3>3, <3>4 DEF Tids
  <2>3. Creators(th2)
    <3>1. ASSUME NEW p \in Live(th2), th2[p].pc \in Early
          PROVE  LET n == th2[p].newborn
                 IN  /\ n \in Live(th2) /\ th2[n].parent = 0
                     /\ IF th2[p].pc = "numbered" THEN th2[p].tid < th2[n].tid
                        ELSE th2[n].tid = 0
      <4>1. LET n == th[p].newborn
            IN  /\ n \in Live(th) /\ th[n].parent = 0
                /\ IF th[p].pc = "numbered" THEN th[p].tid < th[n].tid
                   ELSE th[n].tid = 0
        BY <1>8, <3>1 DEF Kin, Creators
      <4>2. th[p].newborn # current
        BY <4>1
      <4> QED BY <1>7, <1>8, <4>1, <4>2
    <3> QED BY <1>8, <3>1 DEF Kin, Creators
  <2>4. Locking(th2, tid_lock, tid_waiters)
    BY <1>7, <1>8 DEF Kin, Locking
  <2>5. IdleLives(th2)
    BY <1>3, <1>5, <1>7, PageAssumption DEF Kin, IdleLives
  <2>6. Orders(th2, Deadly(sigs))
    BY <1>7, <1>8 DEF Kin, Orders
  <2> QED BY <2>1, <2>2, <2>3, <2>4, <2>5, <2>6 DEF Kin
<1>10. \A p \in Elements(ready) : th2[p].status = "READY"
  BY <1>1, <1>5, ElementsAt DEF Runnable
<1>11. Kin(thread', Deadly(sigs), next_tid, tid_lock, tid_waiters, {}) /\ delivering'
  BY <1>5, <1>6, <1>9, <1>10, SwitchKeepsKin
<1>12. Deadly(sig_list') \subseteq Deadly(sigs)
  <2>1. CASE Parents(th) = {}
    BY <2>1 DEF ExitFrom
  <2>2. CASE Parents(th) # {}
    <3> DEFINE parent == CHOOSE p \in Parents(th) : TRUE
    <3>1. sig_list' = Queued(sigs, th, "SIG_CHLD", -1, parent)
      BY <2>2 DEF ExitFrom
    <3> HIDE DEF parent
    <3> QED BY <3>1, QueuedElements DEF Deadly
  <2> QED BY <2>1, <2>2
<1>13. Kin(thread', Deadly(sig_list'), next_tid, tid_lock, tid_waiters, {})
  BY <1>11, <1>12, FewerDeadly
<1> QED BY <1>11, <1>13 DEF KinNow, Deadly

LEMMA ExitStepKeepsKin == ASSUME KInv, ~Undefined, Exit PROVE KinNow' /\ delivering'
<1>1. /\ current \in Page /\ thread \in Threads /\ ready_list \in Seq(Page)
      /\ sig_list \in Seq(Entry) /\ Runnable(ready_list, thread, {current})
  BY Parts DEF KInv, IInv
<1>2. /\ KinNow /\ thread[current].parent # 0 /\ current \notin Elements(tid_waiters)
  BY RunningKin
<1>3. ~delivering /\ thread[current].pc = "run"
  BY DEF Exit, At
<1>4. current # Idle
  BY <1>2, <1>3 DEF KinNow, Kin, IdleLives
<1>5. \A e \in Deadly(sig_list) : e.receiver # current
  BY <1>2, <1>3 DEF KInv, KilledNeverRuns, KinNow, Kin, Orders, Deadly
<1> QED BY <1>1, <1>2, <1>4, <1>5, ExitKeepsKin DEF Exit, KinNow

(* The receivers of the SIG_UBLOCKs have parents.                           *)
LEMMA HandledIsQuiet ==
  ASSUME KInv, ~Undefined PROVE Quiet(thread, HandledThreads, {})
<1> DEFINE th == HandledThreads
<1>1. IInv /\ KinNow /\ thread \in Threads
  BY Parts, RunningKin DEF KInv
<1>2. \A p \in Page : thread[p] \in Struct
  BY <1>1 DEF Threads
<1>3. ASSUME NEW p \in ReceiverPages
      PROVE  p \in Live(thread) /\ thread[p].parent # 0
  <2>1. p \in Page /\ thread[p].status = "BLOCKED"
    BY <1>1, <1>3, ReceiversOnce
  <2>2. "SIG_UBLOCK" \in thread[p].sigign
    BY <1>3 DEF ReceiverPages, ToUnblock, Taken
  <2> QED BY <1>1, <2>1, <2>2 DEF Live, KinNow, Kin, Unfinished
<1>4. ASSUME NEW p \in Page
      PROVE  /\ th[p].tid = thread[p].tid /\ th[p].parent = thread[p].parent
             /\ th[p].newborn = thread[p].newborn /\ th[p].sigign = thread[p].sigign
             /\ th[p].maxlifetime = thread[p].maxlifetime
             /\ IF p \in ReceiverPages THEN th[p].status = "READY"
                ELSE th[p].status = thread[p].status
             /\ th[p].pc = IF p \in ReceiverPages /\ thread[p].pc \in {"unborn", "asleep"}
                           THEN "run" ELSE thread[p].pc
  <2>1. CASE p \in ReceiverPages
    <3>1. th[p] = Woken(thread[p])
      BY <2>1 DEF HandledThreads
    <3>2. Woken(thread[p]).maxlifetime = thread[p].maxlifetime
      BY <1>2 DEF Woken, Struct
    <3> HIDE DEF th
    <3> QED BY <1>2, <2>1, <3>1, <3>2, WokenStruct
  <2>2. CASE p \notin ReceiverPages /\ th[p] = thread[p]
    BY <2>2
  <2>3. CASE p \notin ReceiverPages /\ th[p] = [thread[p] EXCEPT !.dchild = @ + 1]
    <3>1. thread[p] \in Struct
      BY <1>2
    <3> HIDE DEF th
    <3> QED BY <2>3, <3>1 DEF Struct
  <2> QED BY <2>1, <2>2, <2>3 DEF HandledThreads
<1> HIDE DEF th
<1>5. Live(th) = Live(thread)
  BY <1>3, <1>4 DEF Live
<1>6. Idle \in Page /\ \A p \in Live(thread) : p \in Page
  BY PageAssumption DEF Live
<1>7. Quiet(thread, th, {})
  BY <1>3, <1>4, <1>5, <1>6 DEF Quiet, Fixed, Early
<1> QED BY <1>7 DEF th

(* No signal that ends the current thread is left.                          *)
LEMMA KeptSpare ==
  ASSUME KInv, ~Undefined, NEW gone
  PROVE  LET sigs == Filter(sig_list, Kept(gone))
         IN  /\ sigs \in Seq(Entry) /\ Deadly(sigs) \subseteq Deadly(sig_list)
             /\ \A e \in Deadly(sigs) : e.sig = "SIG_KILL" /\ e.receiver # current
<1> DEFINE sigs == Filter(sig_list, Kept(gone))
<1>1. sig_list \in Seq(Entry) /\ Keyed(sig_list)
  BY Parts DEF KInv, IInv
<1>2. sigs \in Seq(Entry) /\ Elements(sigs) = Elements(sig_list) \cap Kept(gone)
  BY <1>1, FilterKeyed
<1> HIDE DEF sigs
<1>3. Deadly(sigs) \subseteq Deadly(sig_list)
  BY <1>2 DEF Deadly
<1>4. ASSUME NEW e \in Deadly(sigs) PROVE e.sig = "SIG_KILL" /\ e.receiver # current
  <2>1. e.sig = "SIG_KILL"
    BY <1>3, RunningKin DEF KinNow, Kin, Orders
  <2>2. ~Taken(e)
    BY <1>2 DEF Deadly, Kept
  <2> QED BY <2>1, <2>2 DEF Taken
<1> QED BY <1>2, <1>3, <1>4 DEF sigs

(* What ends a thread was sent to it by kill, or is its lifetime's end: the *)
(* idle thread has no parent and no lifetime.                               *)
LEMMA IdleSpared ==
  ASSUME KInv, ~Undefined, Handled \cap {"SIG_CPU", "SIG_KILL"} # {}
  PROVE  current # Idle
<1>1. Orders(thread, Deadly(sig_list)) /\ IdleLives(thread)
  BY RunningKin DEF KinNow, Kin
<1>2. PICK s \in {"SIG_CPU", "SIG_KILL"} : s \in Delivered
  BY DEF Handled
<1>3. CASE \E f \in Elements(sig_list) : f.sig = s /\ f.sig # "SIG_UBLOCK" /\ Taken(f)
  <2>1. PICK f \in Elements(sig_list) : f.sig = s /\ f.sig # "SIG_UBLOCK" /\ Taken(f)
    BY <1>3
  <2>2. f \in Deadly(sig_list) /\ f.receiver = current
    BY <2>1 DEF Deadly, Taken
  <2> QED BY <1>1, <2>2 DEF Orders
<1>4. CASE Expired(thread[current])
  BY <1>1, <1>4 DEF Expired, IdleLives
<1> QED BY <1>2, <1>3, <1>4 DEF Delivered

LEMMA HandleKeepsKin ==
  ASSUME KInv, ~Undefined, HandleSignals PROVE KinNow' /\ KilledNeverRuns'
<1>1. PICK gone \in SUBSET Dangling :
        IF Handled \cap {"SIG_CPU", "SIG_KILL"} # {}
        THEN ExitFrom(ready_list \o Receivers, Filter(sig_list, Kept(gone)), HandledThreads)
        ELSE /\ thread' = HandledThreads
             /\ sig_list' = Filter(sig_list, Kept(gone))
             /\ UNCHANGED current
  BY DEF HandleSignals, Receivers, HandledThreads, ReceiverPages
<1>2. UNCHANGED <<next_tid, tid_lock, tid_waiters>>
  BY DEF HandleSignals
<1> DEFINE sigs == Filter(sig_list, Kept(gone))
<1>3. /\ sigs \in Seq(Entry) /\ Deadly(sigs) \subseteq Deadly(sig_list)
      /\ \A e \in Deadly(sigs) : e.sig = "SIG_KILL" /\ e.receiver # current
  BY KeptSpare
<1> HIDE DEF sigs
<1>4. Kin(HandledThreads, Deadly(sigs), next_tid, tid_lock, tid_waiters, {})
  BY <1>3, RunningKin, HandledIsQuiet, QuietKeepsKin DEF KinNow
<1>5. CASE /\ Handled \cap {"SIG_CPU", "SIG_KILL"} # {}
           /\ ExitFrom(ready_list \o Receivers, sigs, HandledThreads)
  <2>1. /\ current \in Page /\ HandledThreads \in Threads
        /\ ready_list \o Receivers \in Seq(Page)
        /\ Runnable(ready_list \o Receivers, HandledThreads, {current})
    BY Parts, HandledFacts DEF KInv
  <2>2. current # Idle /\ current \notin Elements(tid_waiters)
    BY <1>5, IdleSpared, RunningKin
  <2>3. HandledThreads[current].parent # 0
    BY HandledIsQuiet, RunningKin DEF Quiet
  <2>4. KinNow' /\ delivering'
    BY <1>2, <1>3, <1>4, <1>5, <2>1, <2>2, <2>3, ExitKeepsKin
  <2> QED BY <2>4 DEF KilledNeverRuns
<1>6. CASE thread' = HandledThreads /\ sig_list' = sigs /\ UNCHANGED current
  <2>1. KinNow'
    BY <1>2, <1>4, <1>6 DEF KinNow, Deadly
  <2>2. KilledNeverRuns'
    BY <1>3, <1>6 DEF KilledNeverRuns, Deadly
  <2> QED BY <2>1, <2>2
<1> QED BY <1>1, <1>5, <1>6 DEF sigs

----------------------------------------------------------------------------
(* The calls of signal.c.                                                   *)

LEMMA KilledStays ==
  ASSUME KilledNeverRuns, delivering' \/ UNCHANGED <<sig_list, current,
                                                     delivering>>
  PROVE  KilledNeverRuns'
BY DEF KilledNeverRuns

LEMMA MemberKeepsKin ==
  ASSUME KInv, ~Undefined, thread[current].pc = "run",
         NEW r \in Struct, r.status = thread[current].status, r.pc = "run",
         r.tid = thread[current].tid, r.parent = thread[current].parent,
         thread' = [thread EXCEPT ![current] = r],
         UNCHANGED <<sig_list, next_tid, tid_lock, tid_waiters>>
  PROVE  KinNow'
<1>1. /\ IInv /\ KinNow /\ current \in Live(thread) /\ thread[current].parent # 0
      /\ thread[current].status = "RUNNING"
  BY Parts, RunningKin DEF KInv
<1>2. current # Idle
  BY <1>1 DEF KinNow, Kin, IdleLives
<1>3. Quiet(thread, thread', {})
  BY <1>1, <1>2, CurrentIsQuiet DEF Fixed, Early
<1>4. Kin(thread', Deadly(sig_list), next_tid, tid_lock, tid_waiters, {})
  BY <1>1, <1>3, QuietKeepsKin DEF KinNow
<1> QED BY <1>4 DEF KinNow, Deadly

LEMMA CallKeepsKin ==
  ASSUME KInv, ~Undefined,
         \/ \E s \in Ignorable : Signal(s, "SIG_DFL") \/ Signal(s, "SIG_IGN")
         \/ \E how \in {"SIG_BLOCK", "SIG_UNBLOCK", "SIG_SETMASK"} :
              \E set \in SUBSET Maskable : SigProcMask(how, set)
         \/ \E x \in Lifetimes : SetLifetime(x)
  PROVE  KinNow'
<1>1. thread[current] \in Struct /\ current \in Page /\ thread \in Threads
  BY Parts DEF Threads, KInv
<1>2. ASSUME NEW s \in Ignorable, NEW a \in {"SIG_DFL", "SIG_IGN"}, Signal(s, a)
      PROVE  KinNow'
  <2> DEFINE set == IF a = "SIG_DFL" THEN thread[current].sigign \cup {s}
                    ELSE thread[current].sigign \ {s}
             r == [thread[current] EXCEPT !.sigign = set]
  <2>1. set \in SUBSET SigType
    BY <1>1, InputAssumption DEF Struct
  <2>2. thread' = [thread EXCEPT ![current] = r] /\ thread[current].pc = "run"
    BY <1>1, <1>2 DEF Signal, set, Threads, At
  <2> HIDE DEF set
  <2>3. r \in Struct /\ r.status = thread[current].status /\ r.pc = thread[current].pc
        /\ r.tid = thread[current].tid /\ r.parent = thread[current].parent
    BY <1>1, <2>1 DEF Struct
  <2> HIDE DEF r
  <2> QED BY <1>2, <2>2, <2>3, MemberKeepsKin DEF Signal
<1>3. ASSUME NEW how \in {"SIG_BLOCK", "SIG_UNBLOCK", "SIG_SETMASK"},
             NEW set \in SUBSET Maskable, SigProcMask(how, set)
      PROVE  KinNow'
  <2> DEFINE old == thread[current].sigmask
  <2>1. PICK mask \in {old \cup set, old \ set, set} :
          thread' = [thread EXCEPT ![current].sigmask = mask]
    BY <1>3 DEF SigProcMask
  <2>2. mask \in SUBSET SigType
    BY <1>1, InputAssumption DEF Struct
  <2> DEFINE r == [thread[current] EXCEPT !.sigmask = mask]
  <2>3. r \in Struct /\ r.status = thread[current].status /\ r.pc = thread[current].pc
        /\ r.tid = thread[current].tid /\ r.parent = thread[current].parent
    BY <1>1, <2>2 DEF Struct
  <2>4. thread' = [thread EXCEPT ![current] = r] /\ thread[current].pc = "run"
    BY <1>1, <1>3, <2>1 DEF Threads, SigProcMask, At
  <2> HIDE DEF r
  <2> QED BY <1>3, <2>3, <2>4, MemberKeepsKin DEF SigProcMask
<1>4. ASSUME NEW x \in Lifetimes, SetLifetime(x) PROVE KinNow'
  <2> DEFINE r == [thread[current] EXCEPT !.maxlifetime = x]
  <2>1. x \in 0..MaxAge
    BY InputAssumption
  <2>2. r \in Struct /\ r.status = thread[current].status /\ r.pc = thread[current].pc
        /\ r.tid = thread[current].tid /\ r.parent = thread[current].parent
    BY <1>1, <2>1 DEF Struct
  <2>3. thread' = [thread EXCEPT ![current] = r] /\ thread[current].pc = "run"
    BY <1>1, <1>4 DEF SetLifetime, Threads, At
  <2> HIDE DEF r
  <2> QED BY <1>4, <2>2, <2>3, MemberKeepsKin DEF SetLifetime
<1> QED BY <1>2, <1>3, <1>4

(* A child is not its own parent, nor is the idle thread anybody's child.   *)
LEMMA KillKeepsKin ==
  ASSUME KInv, ~Undefined, NEW tid \in 0..MaxTid, NEW s \in Sent, Kill(tid, s)
  PROVE  KinNow' /\ KilledNeverRuns'
<1>1. /\ thread[current] \in Struct /\ current \in Page /\ thread \in Threads
      /\ sig_list \in Seq(Entry)
  BY Parts DEF Threads, KInv
<1>2. /\ KinNow /\ current \in Live(thread) /\ 0 < thread[current].tid
      /\ thread[current].tid \in Nat
  BY <1>1, RunningKin DEF Struct
<1>3. ~delivering /\ thread[current].pc = "run"
  BY DEF Kill, At
<1>4. UNCHANGED <<current, delivering, next_tid, tid_lock, tid_waiters>>
  BY DEF Kill
<1>5. ASSUME NEW dt \in Live(thread), Allowed(s, dt), UNCHANGED thread,
             sig_list' = Queued(sig_list, thread, s, thread[current].tid, dt)
      PROVE  KinNow' /\ KilledNeverRuns'
  <2> DEFINE entry == [sig |-> s, sender |-> thread[current].tid, receiver |-> dt,
                       to |-> thread[dt].tid]
  <2>1. \A e \in Deadly(sig_list') : e \in Deadly(sig_list) \/ e = entry
    BY <1>1, <1>5, QueuedElements DEF Deadly
  <2>2. entry.sig = s /\ entry.sender = thread[current].tid /\ entry.receiver = dt
        /\ entry.to = thread[dt].tid
    OBVIOUS
  <2>3. s # "SIG_CPU"
    BY InputAssumption
  <2>4. s = "SIG_KILL" => thread[dt].parent = thread[current].tid
    BY <1>5 DEF Allowed
  <2>5. s = "SIG_KILL" => dt # Idle /\ dt # current
    <3>1. thread[Idle].parent = -1
      BY <1>2 DEF KinNow, Kin, IdleLives
    <3>2. thread[dt].parent # 0 => thread[dt].parent < thread[dt].tid
      BY <1>2 DEF KinNow, Kin, Tids
    <3> QED BY <1>2, <2>4, <3>1, <3>2
  <2> HIDE DEF entry
  <2>6. Orders(thread, Deadly(sig_list'))
    <3> SUFFICES ASSUME NEW e \in Deadly(sig_list')
                 PROVE  /\ e.sig = "SIG_KILL" /\ 0 < e.sender
                        /\ e.receiver \in Live(thread) \ {Idle}
                        /\ e.to = thread[e.receiver].tid
                        /\ thread[e.receiver].parent \in {e.sender, -1}
      BY DEF Orders
    <3>1. CASE e \in Deadly(sig_list)
      BY <1>2, <3>1 DEF KinNow, Kin, Orders
    <3>2. CASE e = entry
      <4>1. s = "SIG_KILL"
        BY <2>2, <2>3, <3>2 DEF Deadly
      <4> QED BY <1>2, <1>5, <2>2, <2>4, <2>5, <3>2, <4>1
    <3> QED BY <2>1, <3>1, <3>2
  <2>7. KinNow'
    BY <1>2, <1>4, <1>5, <2>6 DEF KinNow, Kin, Deadly
  <2>8. KilledNeverRuns'
    <3> SUFFICES ASSUME NEW e \in Elements(sig_list'), e.sig = "SIG_KILL"
                 PROVE  e.receiver # current
      BY <1>4 DEF KilledNeverRuns
    <3>1. e \in Deadly(sig_list')
      BY DEF Deadly
    <3>2. CASE e \in Deadly(sig_list)
      BY <1>3, <3>2 DEF KInv, KilledNeverRuns, Deadly
    <3> QED BY <2>1, <2>2, <2>5, <3>1, <3>2
  <2> QED BY <2>7, <2>8
<1>6. ASSUME thread' = [thread EXCEPT ![current].intr_off = TRUE], UNCHANGED sig_list
      PROVE  KinNow' /\ KilledNeverRuns'
  <2> DEFINE r == [thread[current] EXCEPT !.intr_off = TRUE]
  <2>1. r \in Struct /\ r.status = thread[current].status /\ r.pc = thread[current].pc
        /\ r.tid = thread[current].tid /\ r.parent = thread[current].parent
    BY <1>1 DEF Struct
  <2>2. thread' = [thread EXCEPT ![current] = r]
    BY <1>1, <1>6 DEF Threads
  <2> HIDE DEF r
  <2>3. KinNow'
    BY <1>3, <1>4, <1>6, <2>1, <2>2, MemberKeepsKin
  <2>4. KilledNeverRuns'
    BY <1>4, <1>6, KilledStays DEF KInv
  <2> QED BY <2>3, <2>4
<1> QED BY <1>5, <1>6 DEF Kill

----------------------------------------------------------------------------
(* thread_create.                                                           *)

LEMMA BeginCreateKeepsKin ==
  ASSUME KInv, ~Undefined, NEW t \in Page, BeginCreate(t) PROVE KinNow'
<1> DEFINE r == [thread[current] EXCEPT !.pc = "new", !.newborn = t]
           live == Live(thread)
<1>1. /\ thread[current] \in Struct /\ current \in Page /\ thread \in Threads
      /\ KinNow /\ current \in live /\ 0 < thread[current].tid
      /\ thread[current].parent # 0 /\ current \notin Elements(tid_waiters)
      /\ t \notin live /\ thread[current].pc = "run" /\ next_tid \in Nat
      /\ thread[current].tid \in Nat
  <2>1. /\ thread[current] \in Struct /\ current \in Page /\ thread \in Threads
        /\ next_tid \in Nat
    BY Parts DEF Threads, KInv
  <2>2. t \notin live /\ thread[current].pc = "run"
    BY DEF BeginCreate, Live, At
  <2> QED BY <2>1, <2>2, RunningKin DEF Struct
<1>2. /\ r.status = thread[current].status /\ r.newborn = t /\ r.pc = "new"
      /\ r.tid = thread[current].tid /\ r.parent = thread[current].parent
      /\ r.sigign = thread[current].sigign
  BY <1>1 DEF Struct
<1>3. \A p \in Page : thread'[p] = IF p = t THEN Zeroed
                                   ELSE IF p = current THEN r ELSE thread[p]
  BY <1>1 DEF BeginCreate, Threads
<1>4. UNCHANGED <<sig_list, next_tid, tid_lock, tid_waiters>>
  BY DEF BeginCreate
<1>5. /\ Zeroed.status = "BLOCKED" /\ Zeroed.pc = "unborn" /\ Zeroed.tid = 0
      /\ Zeroed.parent = 0 /\ Zeroed.sigign = {}
  BY DEF Zeroed
<1> HIDE DEF r
<1>6. Live(thread') = live \cup {t}
  BY <1>1, <1>2, <1>3, <1>5 DEF Live
<1>7. /\ thread'[t] = Zeroed
      /\ \A p \in live :
           /\ p # t /\ thread'[p].status = thread[p].status
           /\ thread'[p].tid = thread[p].tid /\ thread'[p].parent = thread[p].parent
           /\ thread'[p].sigign = thread[p].sigign
           /\ p # current => thread'[p] = thread[p]
           /\ thread[p].parent = 0 => p # current
  BY <1>1, <1>2, <1>3 DEF Live
<1>8. thread'[current].pc = "new" /\ thread'[current].newborn = t
  BY <1>1, <1>2, <1>3
<1>9. Live(thread) = live
  OBVIOUS
<1> HIDE DEF live
<1>10. Unfinished(thread', {})
  BY <1>1, <1>5, <1>6, <1>7, <1>9 DEF KinNow, Kin, Unfinished
<1>11. Tids(thread', next_tid)
  <2>1. 0 < next_tid
    BY <1>1, <1>9 DEF KinNow, Kin, Tids
  <2>2. \A p \in live : thread'[p].parent \notin {0, -1} =>
          \E q \in live : thread'[q].tid = thread'[p].parent
    BY <1>1, <1>7, <1>9 DEF KinNow, Kin, Tids
  <2> QED BY <1>1, <1>5, <1>6, <1>7, <1>9, <2>1, <2>2 DEF KinNow, Kin, Tids
<1>12. Creators(thread')
  <2>1. ASSUME NEW p \in live, p # current, thread[p].pc \in Early
        PROVE  LET n == thread[p].newborn
               IN  /\ n \in live /\ n # t /\ thread'[n].parent = 0
                   /\ IF thread'[p].pc = "numbered" THEN thread'[p].tid < thread'[n].tid
                      ELSE thread'[n].tid = 0
    BY <1>1, <1>7, <1>9, <2>1 DEF KinNow, Kin, Creators
  <2>2. ASSUME NEW p \in Live(thread'), thread'[p].pc \in Early
        PROVE  LET n == thread'[p].newborn
               IN  /\ n \in Live(thread') /\ thread'[n].parent = 0
                   /\ IF thread'[p].pc = "numbered" THEN thread'[p].tid < thread'[n].tid
                      ELSE thread'[n].tid = 0
    <3>1. CASE p = current
      BY <1>5, <1>6, <1>7, <1>8, <3>1
    <3>2. CASE p \in live /\ p # current
      BY <1>6, <1>7, <2>1, <2>2, <3>2
    <3>3. p # t
      BY <1>5, <1>7, <2>2 DEF Early
    <3> QED BY <1>6, <3>1, <3>2, <3>3
  <2>3. ASSUME NEW p \in Live(thread'), NEW q \in Live(thread'), thread'[p].pc \in Early,
               thread'[q].pc \in Early, thread'[p].newborn = thread'[q].newborn
        PROVE  p = q
    <3>1. p \in live /\ q \in live
      BY <1>5, <1>6, <1>7, <2>3 DEF Early
    <3>2. CASE p # current /\ q # current
      BY <1>1, <1>7, <1>9, <2>3, <3>1, <3>2 DEF KinNow, Kin, Creators
    <3>3. CASE p = current /\ q # current
      BY <1>7, <1>8, <2>1, <2>3, <3>1, <3>3
    <3>4. CASE p # current /\ q = current
      BY <1>7, <1>8, <2>1, <2>3, <3>1, <3>4
    <3> QED BY <3>2, <3>3, <3>4
  <2> QED BY <2>2, <2>3 DEF Creators
<1>13. Locking(thread', tid_lock, tid_waiters)
  BY <1>1, <1>5, <1>6, <1>7, <1>8, <1>9 DEF KinNow, Kin, Locking
<1>14. IdleLives(thread')
  BY <1>1, <1>6, <1>7, <1>9 DEF KinNow, Kin, IdleLives
<1>15. Orders(thread', Deadly(sig_list))
  BY <1>1, <1>6, <1>7, <1>9 DEF KinNow, Kin, Orders
<1> QED BY <1>4, <1>10, <1>11, <1>12, <1>13, <1>14, <1>15 DEF KinNow, Kin, Deadly

LEMMA AcquireKeepsKin ==
  ASSUME KInv, ~Undefined, AcquireTidLock PROVE KinNow'
<1>1. /\ thread[current] \in Struct /\ current \in Page /\ thread \in Threads
      /\ tid_waiters \in Seq(Page) /\ thread[current].pc = "new"
  BY Parts DEF Threads, AcquireTidLock, At, KInv
<1>2. /\ KinNow /\ current \in Live(thread) /\ thread[current].parent # 0
      /\ current \notin Elements(tid_waiters)
  BY RunningKin
<1>3. CASE tid_lock = NoPage
  <2> DEFINE r == [thread[current] EXCEPT !.pc = "locked"]
  <2>1. /\ r.status = thread[current].status /\ r.newborn = thread[current].newborn
        /\ r.tid = thread[current].tid /\ r.parent = thread[current].parent
        /\ r.pc = "locked" /\ r.sigign = thread[current].sigign
    BY <1>1 DEF Struct
  <2>2. /\ \A p \in Page : thread'[p] = IF p = current THEN r ELSE thread[p]
        /\ tid_lock' = current /\ UNCHANGED <<sig_list, next_tid,
                                              tid_waiters>>
    BY <1>1, <1>3 DEF AcquireTidLock, Threads
  <2> HIDE DEF r
  <2>3. Live(thread') = Live(thread)
    BY <2>1, <2>2 DEF Live
  <2>4. \A p \in Live(thread) :
          /\ thread'[p].status = thread[p].status
          /\ thread'[p].tid = thread[p].tid /\ thread'[p].parent = thread[p].parent
          /\ thread'[p].sigign = thread[p].sigign
          /\ thread'[p].newborn = thread[p].newborn
          /\ p # current => thread'[p] = thread[p]
          /\ thread[p].parent = 0 => p # current
    BY <1>2, <2>1, <2>2 DEF Live
  <2>5. thread'[current].pc = "locked"
    BY <1>1, <2>1, <2>2
  <2>6. Unfinished(thread', {})
    BY <1>2, <2>3, <2>4 DEF KinNow, Kin, Unfinished
  <2>7. Tids(thread', next_tid)
    BY <1>2, <2>3, <2>4 DEF KinNow, Kin, Tids
  <2>8. Creators(thread')
    <3>1. \A p \in Live(thread) :
            /\ thread'[p].pc \in Early => thread[p].pc \in Early
            /\ thread'[p].pc = "numbered" <=> thread[p].pc = "numbered"
      BY <1>1, <2>4, <2>5 DEF Early
    <3>2. ASSUME NEW p \in Live(thread), thread[p].pc \in Early
          PROVE  LET n == thread'[p].newborn
                 IN  /\ n \in Live(thread) /\ thread'[n].parent = 0
                     /\ IF thread'[p].pc = "numbered" THEN thread'[p].tid < thread'[n].tid
                        ELSE thread'[n].tid = 0
      BY <1>2, <2>4, <3>1, <3>2 DEF KinNow, Kin, Creators
    <3> QED BY <1>2, <2>3, <2>4, <3>1, <3>2 DEF KinNow, Kin, Creators
  <2>9. Locking(thread', tid_lock', tid_waiters)
    <3>1. \A p \in Live(thread) : thread[p].pc # "locked"
      BY <1>2, <1>3, PageAssumption DEF KinNow, Kin, Locking, Live
    <3> QED BY <1>2, <2>2, <2>3, <2>4, <2>5, <3>1 DEF KinNow, Kin, Locking
  <2>10. IdleLives(thread')
    <3>1. current # Idle
      BY <1>1, <1>2 DEF KinNow, Kin, IdleLives
    <3> QED BY <1>2, <2>3, <2>4, <3>1 DEF KinNow, Kin, IdleLives
  <2>11. Orders(thread', Deadly(sig_list))
    BY <1>2, <2>3, <2>4 DEF KinNow, Kin, Orders
  <2> QED BY <2>2, <2>6, <2>7, <2>8, <2>9, <2>10, <2>11 DEF KinNow, Kin, Deadly
<1>4. CASE tid_lock # NoPage
  <2> DEFINE waiters == Append(tid_waiters, current)
  <2>1. waiters \in Seq(Page) /\ Elements(waiters) = Elements(tid_waiters) \cup {current}
    BY <1>1, PushBack
  <2>2. /\ BlockAt("new") /\ tid_waiters' = waiters
        /\ UNCHANGED <<sig_list, next_tid, tid_lock>>
    BY <1>4 DEF AcquireTidLock
  <2> HIDE DEF waiters
  <2> QED BY <1>1, <2>1, <2>2, BlockKeepsKin
<1> QED BY <1>3, <1>4

(* What TakeTid and FillIn start from: a creator and its child's page n.    *)
LEMMA ChildOf ==
  ASSUME KInv, ~Undefined, thread[current].pc \in {"locked", "numbered"}
  PROVE  LET n == thread[current].newborn
         IN  /\ current \in Page /\ thread \in Threads /\ n \in Page \ {current, Idle}
             /\ thread[current] \in Struct /\ thread[n] \in Struct
             /\ n \in Live(thread) /\ thread[n].parent = 0
             /\ thread[n].status = "BLOCKED" /\ thread[n].pc = "unborn"
             /\ IF thread[current].pc = "numbered" THEN thread[current].tid < thread[n].tid
                ELSE thread[n].tid = 0
             /\ \A p \in Live(thread) \ {current} :
                  thread[p].pc \in Early => thread[p].newborn # n
             /\ \A e \in Deadly(sig_list) : e.receiver # n
<1> DEFINE n == thread[current].newborn
<1>1. /\ current \in Page /\ thread \in Threads /\ KinNow /\ current \in Live(thread)
      /\ thread[current].parent # 0 /\ thread[current].pc \in Early
  BY Parts, RunningKin DEF KInv, Early
<1>2. /\ n \in Live(thread) /\ thread[n].parent = 0
      /\ IF thread[current].pc = "numbered" THEN thread[current].tid < thread[n].tid
         ELSE thread[n].tid = 0
      /\ \A p \in Live(thread) \ {current} :
           thread[p].pc \in Early => thread[p].newborn # n
  BY <1>1 DEF KinNow, Kin, Creators
<1> HIDE DEF n
<1>3. n \in Page \ {current, Idle}
  BY <1>1, <1>2 DEF Live, KinNow, Kin, IdleLives
<1>4. thread[n].status = "BLOCKED" /\ thread[n].pc = "unborn"
  BY <1>1, <1>2 DEF KinNow, Kin, Unfinished
<1>5. \A e \in Deadly(sig_list) : e.receiver # n
  <2>1. \A e \in Deadly(sig_list) : e.sender # 0 /\ thread[e.receiver].parent \in {e.sender, -1}
    BY <1>1 DEF KinNow, Kin, Orders
  <2> QED BY <1>2, <2>1
<1>6. thread[current] \in Struct /\ thread[n] \in Struct
  BY <1>1, <1>3 DEF Threads
<1> QED BY <1>1, <1>2, <1>3, <1>4, <1>5, <1>6 DEF n

LEMMA TakeTidKeepsKin ==
  ASSUME KInv, ~Undefined, TakeTid PROVE KinNow'
<1> DEFINE n == thread[current].newborn
           r == [thread[current] EXCEPT !.pc = "numbered"]
           s == [thread[n] EXCEPT !.tid = next_tid]
           named == [thread EXCEPT ![current].pc = "numbered", ![n].tid = next_tid]
<1>1. thread[current].pc = "locked"
  BY DEF TakeTid, At
<1>2. /\ current \in Page /\ thread \in Threads /\ n \in Page \ {current, Idle}
      /\ thread[current] \in Struct /\ thread[n] \in Struct
      /\ n \in Live(thread) /\ thread[n].parent = 0
      /\ thread[n].status = "BLOCKED" /\ thread[n].pc = "unborn"
      /\ thread[n].tid = 0
      /\ \A p \in Live(thread) \ {current} :
           thread[p].pc \in Early => thread[p].newborn # n
      /\ \A e \in Deadly(sig_list) : e.receiver # n
  BY <1>1, ChildOf
<1>3. /\ KinNow /\ current \in Live(thread) /\ thread[current].parent # 0
      /\ 0 < thread[current].tid /\ current \notin Elements(tid_waiters)
  BY RunningKin
<1>4. /\ next_tid \in Nat /\ thread[current].tid \in Nat /\ tid_waiters \in Seq(Page)
      /\ \A p \in Page : thread[p].tid \in Nat /\ thread[p].parent \in Nat \cup {-1}
  BY <1>2, Parts DEF KInv, Threads, Struct
<1>5. /\ r \in Struct /\ r.status = thread[current].status
      /\ r.newborn = thread[current].newborn
      /\ r.tid = thread[current].tid /\ r.parent = thread[current].parent
      /\ r.pc = "numbered" /\ r.sigign = thread[current].sigign
  BY <1>2 DEF Struct, Location
<1>6. /\ s \in Struct /\ s.status = thread[n].status /\ s.newborn = thread[n].newborn
      /\ s.tid = next_tid /\ s.parent = thread[n].parent
      /\ s.pc = thread[n].pc /\ s.sigign = thread[n].sigign
  BY <1>2, <1>4 DEF Struct
<1>7. /\ named = [p \in Page |-> IF p = n THEN s ELSE IF p = current THEN r ELSE thread[p]]
  BY <1>2 DEF Threads
<1>8. /\ next_tid' = next_tid + 1 /\ tid_lock' = NoPage /\ UNCHANGED sig_list
      /\ \/ tid_waiters = <<>> /\ thread' = named /\ UNCHANGED tid_waiters
         \/ /\ tid_waiters # <<>>
            /\ thread' = [named EXCEPT ![Head(tid_waiters)] = Woken(named[Head(tid_waiters)])]
            /\ tid_waiters' = Tail(tid_waiters)
  BY DEF TakeTid
<1> HIDE DEF n, r, s, named
<1>9. /\ named \in Threads /\ named[n] = s /\ named[current] = r
      /\ \A p \in Page \ {n, current} : named[p] = thread[p]
  BY <1>2, <1>5, <1>6, <1>7 DEF Threads
<1>10. Live(named) = Live(thread)
  BY <1>2, <1>5, <1>6, <1>9 DEF Live
<1>11. \A p \in Live(thread) :
         /\ p \in Page /\ named[p].status = thread[p].status
         /\ named[p].tid = IF p = n THEN next_tid ELSE thread[p].tid
         /\ named[p].parent = thread[p].parent
         /\ named[p].sigign = thread[p].sigign
         /\ named[p].newborn = thread[p].newborn
         /\ named[p].pc = IF p = current THEN "numbered" ELSE thread[p].pc
  <2>1. \A p \in Live(thread) : p \in Page
    BY DEF Live
  <2> QED BY <1>2, <1>5, <1>6, <1>9, <2>1
<1>12. Kin(named, Deadly(sig_list), next_tid + 1, NoPage, tid_waiters, {})
  <2>1. Unfinished(named, {})
    BY <1>3, <1>10, <1>11 DEF KinNow, Kin, Unfinished
  <2>2. Tids(named, next_tid + 1)
    <3>1. \A p \in Live(thread) : thread[p].tid < next_tid
      BY <1>3 DEF KinNow, Kin, Tids
    <3>2. \A p \in Live(thread) : named[p].tid < next_tid + 1
      BY <1>4, <1>11, <3>1
    <3>3. \A p, q \in Live(thread) : named[p].tid = named[q].tid /\ named[p].tid # 0 => p = q
      <4>1. \A p \in Live(thread) : thread[p].tid # next_tid
        BY <1>4, <1>11, <3>1
      <4> QED BY <1>3, <1>11, <4>1 DEF KinNow, Kin, Tids
    <3>4. \A p \in Live(thread) :
            named[p].parent # 0 => named[p].parent < named[p].tid /\ 0 < named[p].tid
      BY <1>2, <1>3, <1>11 DEF KinNow, Kin, Tids
    <3>5. ASSUME NEW p \in Live(thread), named[p].parent \notin {0, -1}
          PROVE  \E q \in Live(thread) : named[q].tid = named[p].parent
      <4>1. PICK q \in Live(thread) : thread[q].tid = thread[p].parent
        BY <1>3, <1>11, <3>5 DEF KinNow, Kin, Tids
      <4>2. q # n
        BY <1>2, <1>11, <3>5, <4>1
      <4> QED BY <1>11, <4>1, <4>2
    <3> QED BY <1>10, <3>2, <3>3, <3>4, <3>5 DEF Tids
  <2>3. Creators(named)
    <3>1. \A p \in Live(thread) : named[p].pc \in Early => thread[p].pc \in Early
      BY <1>1, <1>11 DEF Early
    <3>2. ASSUME NEW p \in Live(thread), thread[p].pc \in Early
          PROVE  LET m == named[p].newborn
                 IN  /\ m \in Live(thread) /\ named[m].parent = 0
                     /\ IF named[p].pc = "numbered" THEN named[p].tid < named[m].tid
                        ELSE named[m].tid = 0
      <4>1. CASE p = current
        <5>1. named[p].newborn = n /\ named[p].tid = thread[p].tid /\ named[p].pc = "numbered"
          BY <1>2, <1>3, <1>11, <4>1 DEF n
        <5>2. thread[p].tid < next_tid
          BY <1>3 DEF KinNow, Kin, Tids
        <5> QED BY <1>2, <1>11, <5>1, <5>2
      <4>2. CASE p # current
        <5> DEFINE m == thread[p].newborn
        <5>1. /\ m \in Live(thread) /\ thread[m].parent = 0
              /\ IF thread[p].pc = "numbered" THEN thread[p].tid < thread[m].tid
                 ELSE thread[m].tid = 0
          BY <1>3, <3>2 DEF KinNow, Kin, Creators
        <5>2. m # n
          BY <1>2, <3>2, <4>2
        <5>3. p # n
          BY <1>2, <3>2 DEF Early
        <5>4. named[p].newborn = m /\ named[p].pc = thread[p].pc /\ named[p].tid = thread[p].tid
          BY <1>11, <4>2, <5>3
        <5> HIDE DEF m
        <5> QED BY <1>11, <5>1, <5>2, <5>4
      <4> QED BY <4>1, <4>2
    <3> QED BY <1>3, <1>10, <1>11, <3>1, <3>2 DEF KinNow, Kin, Creators
  <2>4. Locking(named, NoPage, tid_waiters)
    <3>1. \A p \in Live(thread) : named[p].pc # "locked"
      BY <1>1, <1>3, <1>11 DEF KinNow, Kin, Locking
    <3>2. NoPage \notin Live(thread)
      BY PageAssumption DEF Live
    <3>3. \A p \in Elements(tid_waiters) : p \in Live(thread) /\ named[p].pc = "new"
      BY <1>3, <1>11 DEF KinNow, Kin, Locking
    <3> QED BY <1>10, <3>1, <3>2, <3>3 DEF Locking
  <2>5. IdleLives(named)
    <3>1. current # Idle /\ n # Idle /\ Idle \in Live(thread)
      BY <1>1, <1>2, <1>3 DEF KinNow, Kin, IdleLives
    <3>2. named[Idle] = thread[Idle]
      BY <1>9, <3>1, PageAssumption
    <3> QED BY <1>3, <1>10, <3>2 DEF KinNow, Kin, IdleLives
  <2>6. Orders(named, Deadly(sig_list))
    BY <1>2, <1>3, <1>10, <1>11 DEF KinNow, Kin, Orders
  <2> QED BY <2>1, <2>2, <2>3, <2>4, <2>5, <2>6 DEF Kin
<1>13. CASE tid_waiters = <<>> /\ thread' = named /\ UNCHANGED tid_waiters
  BY <1>8, <1>12, <1>13 DEF KinNow, Deadly
<1>14. CASE /\ tid_waiters # <<>>
            /\ thread' = [named EXCEPT ![Head(tid_waiters)] = Woken(named[Head(tid_waiters)])]
            /\ tid_waiters' = Tail(tid_waiters)
  <2> DEFINE w == Head(tid_waiters)
  <2>1. /\ w \in Elements(tid_waiters)
        /\ Elements(Tail(tid_waiters)) \subseteq Elements(tid_waiters)
    BY <1>4, <1>14, PopFront
  <2>2. w \in Live(named) /\ named[w].pc = "new"
    BY <1>12, <2>1 DEF Kin, Locking
  <2>3. named[w].parent # 0
    BY <1>12, <2>2 DEF Kin, Unfinished
  <2> HIDE DEF w
  <2>4. thread' = [named EXCEPT ![w] = Woken(named[w])]
    BY <1>14 DEF w
  <2>5. Quiet(named, thread', {})
    BY <1>9, <2>2, <2>3, <2>4, WakingIsQuiet
  <2>6. Kin(thread', Deadly(sig_list), next_tid + 1, NoPage, Tail(tid_waiters), {})
    BY <1>12, <2>1, <2>5, QuietKeepsKin
  <2> QED BY <1>8, <1>14, <2>6 DEF KinNow, Deadly
<1> QED BY <1>8, <1>13, <1>14

LEMMA FillInKeepsKin ==
  ASSUME KInv, ~Undefined, FillIn PROVE KinNow'
<1> DEFINE n == thread[current].newborn
           me == thread[current].tid
           r == [thread[current] EXCEPT !.pc = "made", !.child = @ + 1]
           s == [thread[n] EXCEPT !.parent = me, !.sigign = SigType,
                                  !.sigmask = {}, !.age = 0, !.maxlifetime = 0,
                                  !.child = 0, !.dchild = 0]
<1>1. thread[current].pc = "numbered"
  BY DEF FillIn, At
<1>2. /\ current \in Page /\ thread \in Threads /\ n \in Page \ {current, Idle}
      /\ thread[current] \in Struct /\ thread[n] \in Struct
      /\ n \in Live(thread) /\ thread[n].parent = 0
      /\ thread[n].status = "BLOCKED" /\ thread[n].pc = "unborn"
      /\ me < thread[n].tid
      /\ \A p \in Live(thread) \ {current} :
           thread[p].pc \in Early => thread[p].newborn # n
      /\ \A e \in Deadly(sig_list) : e.receiver # n
  BY <1>1, ChildOf
<1>3. /\ KinNow /\ current \in Live(thread) /\ thread[current].parent # 0
      /\ 0 < me /\ current \notin Elements(tid_waiters)
  BY RunningKin
<1>4. me \in Nat /\ thread[n].tid \in Nat
  BY <1>2 DEF Struct
<1>5. /\ r.status = thread[current].status /\ r.newborn = n /\ r.tid = me
      /\ r.parent = thread[current].parent /\ r.pc = "made"
      /\ r.sigign = thread[current].sigign
  BY <1>2 DEF Struct
<1>6. /\ s.status = thread[n].status /\ s.newborn = thread[n].newborn
      /\ s.tid = thread[n].tid /\ s.parent = me /\ s.pc = thread[n].pc
  BY <1>2 DEF Struct
<1>7. \A p \in Page : thread'[p] = IF p = n THEN s
                                   ELSE IF p = current THEN r ELSE thread[p]
  BY <1>2 DEF FillIn, Threads
<1>8. UNCHANGED <<sig_list, next_tid, tid_lock, tid_waiters>>
  BY DEF FillIn
<1> HIDE DEF n, me, r, s
<1>9. Live(thread') = Live(thread)
  BY <1>2, <1>5, <1>6, <1>7 DEF Live
<1>10. \A p \in Live(thread) :
         /\ p \in Page /\ thread'[p].status = thread[p].status
         /\ thread'[p].tid = thread[p].tid
         /\ thread'[p].parent = IF p = n THEN me ELSE thread[p].parent
         /\ p # n => thread'[p].sigign = thread[p].sigign
         /\ thread'[p].newborn = thread[p].newborn
         /\ thread'[p].pc = IF p = current THEN "made" ELSE thread[p].pc
  <2>1. \A p \in Live(thread) : p \in Page
    BY DEF Live
  <2>2. thread[current].newborn = n /\ thread[current].tid = me
    BY DEF n, me
  <2> QED BY <1>2, <1>5, <1>6, <1>7, <2>1, <2>2
<1>11. Unfinished(thread', {})
  BY <1>2, <1>3, <1>9, <1>10 DEF KinNow, Kin, Unfinished
<1>12. Tids(thread', next_tid)
  <2>1. thread[current].tid = me
    BY DEF me
  <2>2. \A p \in Live(thread) : thread'[p].parent # 0 =>
          thread'[p].parent < thread'[p].tid /\ 0 < thread'[p].tid
    BY <1>2, <1>3, <1>4, <1>10 DEF KinNow, Kin, Tids
  <2>3. ASSUME NEW p \in Live(thread), thread'[p].parent \notin {0, -1}
        PROVE  \E q \in Live(thread) : thread'[q].tid = thread'[p].parent
    <3>1. CASE p = n
      BY <1>3, <1>10, <2>1, <3>1
    <3>2. CASE p # n
      BY <1>3, <1>10, <2>3, <3>2 DEF KinNow, Kin, Tids
    <3> QED BY <3>1, <3>2
  <2> QED BY <1>3, <1>9, <1>10, <2>2, <2>3 DEF KinNow, Kin, Tids
<1>13. Creators(thread')
  <2>1. \A p \in Live(thread) :
          thread'[p].pc \in Early => p # current /\ thread[p].pc \in Early
    BY <1>10 DEF Early
  <2>2. ASSUME NEW p \in Live(thread), p # current, thread[p].pc \in Early
        PROVE  LET m == thread'[p].newborn
               IN  /\ m \in Live(thread) /\ thread'[m].parent = 0
                   /\ IF thread'[p].pc = "numbered" THEN thread'[p].tid < thread'[m].tid
                      ELSE thread'[m].tid = 0
    <3> DEFINE m == thread[p].newborn
    <3>1. /\ m \in Live(thread) /\ thread[m].parent = 0
          /\ IF thread[p].pc = "numbered" THEN thread[p].tid < thread[m].tid
             ELSE thread[m].tid = 0
      BY <1>3, <2>2 DEF KinNow, Kin, Creators
    <3>2. m # n
      BY <1>2, <2>2
    <3>3. thread'[p].newborn = m /\ thread'[p].pc = thread[p].pc
          /\ thread'[p].tid = thread[p].tid
      BY <1>10, <2>2
    <3> HIDE DEF m
    <3> QED BY <1>10, <3>1, <3>2, <3>3
  <2> QED BY <1>3, <1>9, <1>10, <2>1, <2>2 DEF KinNow, Kin, Creators
<1>14. Locking(thread', tid_lock, tid_waiters)
  <2>1. \A p \in Live(thread) : thread'[p].pc = "locked" <=> thread[p].pc = "locked"
    BY <1>1, <1>10
  <2>2. tid_lock # n
    BY <1>2, <1>3, <1>4 DEF KinNow, Kin, Locking
  <2>3. \A p \in Elements(tid_waiters) : p \in Live(thread) /\ thread'[p].pc = "new"
    BY <1>3, <1>10 DEF KinNow, Kin, Locking
  <2> QED BY <1>3, <1>9, <1>10, <2>1, <2>2, <2>3 DEF KinNow, Kin, Locking
<1>15. IdleLives(thread')
  <2>1. current # Idle /\ n # Idle
    BY <1>1, <1>2, <1>3 DEF KinNow, Kin, IdleLives
  <2>2. thread'[Idle] = thread[Idle]
    BY <1>7, <2>1, PageAssumption
  <2> QED BY <1>3, <1>9, <2>2 DEF KinNow, Kin, IdleLives
<1>16. Orders(thread', Deadly(sig_list))
  BY <1>2, <1>3, <1>9, <1>10 DEF KinNow, Kin, Orders
<1> QED BY <1>8, <1>11, <1>12, <1>13, <1>14, <1>15, <1>16 DEF KinNow, Kin, Deadly

(* If a SIG_UBLOCK has let the child run before its creator unblocked it,   *)
(* its page may by now be that of a thread that is not built yet.           *)
LEMMA EndCreateKeepsKin ==
  ASSUME KInv, ~Undefined, EndCreate
  PROVE  Kin(thread', Deadly(sig_list'), next_tid', tid_lock', tid_waiters',
             Elements(ready_list'))
<1> DEFINE t == thread[current].newborn
           r == [thread[current] EXCEPT !.pc = "run", !.newborn = NoPage]
           w == Woken(thread[t])
<1>1. thread[current].pc = "made"
  BY DEF EndCreate, At
<1>2. /\ current \in Page /\ thread \in Threads /\ t \in Page \ {current}
      /\ thread[current] \in Struct /\ thread[t] \in Struct /\ ready_list \in Seq(Page)
  <2>1. current \in Page /\ thread \in Threads /\ ready_list \in Seq(Page)
    BY Parts DEF KInv
  <2>2. t \in Page \ {current}
    BY <1>1, <2>1 DEF KInv, IInv, NewbornKnown, Building
  <2> QED BY <2>1, <2>2 DEF Threads
<1>3. KinNow /\ current \in Live(thread) /\ thread[current].parent # 0
  BY RunningKin
<1>4. CASE thread[t].status = "BLOCKED"
  <2>1. /\ r.status = thread[current].status /\ r.tid = thread[current].tid
        /\ r.parent = thread[current].parent /\ r.pc = "run"
        /\ r.maxlifetime = thread[current].maxlifetime
    BY <1>2 DEF Struct
  <2>2. /\ w.status = "READY" /\ w.newborn = thread[t].newborn
        /\ w.pc = (IF thread[t].pc \in {"unborn", "asleep"} THEN "run" ELSE thread[t].pc)
        /\ w.tid = thread[t].tid /\ w.parent = thread[t].parent
        /\ w.sigign = thread[t].sigign
    BY <1>2, WokenStruct
  <2>3. w.maxlifetime = thread[t].maxlifetime
    BY <1>2 DEF Woken, Struct
  <2>4. /\ \A p \in Page : thread'[p] = IF p = current THEN r
                                        ELSE IF p = t THEN w ELSE thread[p]
        /\ ready_list' = Append(ready_list, t)
        /\ UNCHANGED <<sig_list, next_tid, tid_lock, tid_waiters>>
    BY <1>2, <1>4 DEF EndCreate, Threads
  <2> HIDE DEF t, r, w
  <2>5. Live(thread') = Live(thread)
    BY <1>2, <1>3, <1>4, <2>1, <2>2, <2>4 DEF Live
  <2>6. t \in Elements(ready_list')
    BY <1>2, <2>4, PushBack
  <2>7. Quiet(thread, thread', {t})
    <3>1. \A p \in Live(thread) : p \in Page
      BY DEF Live
    <3>2. \A p \in Live(thread) :
            /\ thread'[p].tid = thread[p].tid /\ thread'[p].parent = thread[p].parent
            /\ thread'[p].pc \in Early => thread'[p].newborn = thread[p].newborn
            /\ thread[p].pc \in Fixed \/ thread'[p].pc \in Fixed => thread'[p].pc = thread[p].pc
      BY <1>1, <1>2, <2>1, <2>2, <2>4, <3>1 DEF Fixed, Early
    <3>3. \A p \in Live(thread) : thread[p].parent = 0 =>
            /\ thread'[p].sigign = thread[p].sigign
            /\ p \in {t} \/ (thread'[p].status = thread[p].status /\ thread'[p].pc = thread[p].pc)
      BY <1>2, <1>3, <2>2, <2>4, <3>1
    <3>4. thread'[Idle].maxlifetime = thread[Idle].maxlifetime
      BY <1>2, <2>1, <2>3, <2>4, PageAssumption
    <3> QED BY <2>5, <3>2, <3>3, <3>4 DEF Quiet
  <2>8. Kin(thread', Deadly(sig_list), next_tid, tid_lock, tid_waiters, {t})
    BY <1>3, <2>7, QuietKeepsKin DEF KinNow
  <2>9. Kin(thread', Deadly(sig_list), next_tid, tid_lock, tid_waiters, Elements(ready_list'))
    BY <2>6, <2>8 DEF Kin, Unfinished
  <2> QED BY <2>4, <2>9 DEF Deadly
<1>5. CASE thread[t].status # "BLOCKED"
  <2>1. UNCHANGED <<thread, sig_list, next_tid, tid_lock, tid_waiters>>
    BY <1>5 DEF EndCreate, Panic
  <2>2. Kin(thread, Deadly(sig_list), next_tid, tid_lock, tid_waiters, Elements(ready_list'))
    BY <1>3, OddMayGrow DEF KinNow
  <2> QED BY <2>1, <2>2 DEF Deadly
<1> QED BY <1>4, <1>5

----------------------------------------------------------------------------
(* The invariant and what follows from it.                                  *)

LEMMA InitKInv == Init => KInv
<1> SUFFICES ASSUME Init PROVE KInv
  OBVIOUS
<1>1. /\ Freed.status = "FREE" /\ Zeroed.status = "BLOCKED" /\ Zeroed.maxlifetime = 0
  BY DEF Freed, Zeroed
<1>2. /\ thread[Main].tid = 1 /\ thread[Main].parent = -1 /\ thread[Main].pc = "run"
      /\ thread[Main].status = "RUNNING"
  <2>1. thread[Main] = [Zeroed EXCEPT !.tid = 1, !.status = "RUNNING",
                          !.parent = -1, !.sigign = SigType, !.pc = "run"]
    BY PageAssumption DEF Init
  <2> QED BY <2>1 DEF Zeroed
<1>3. /\ thread[Idle].tid = 2 /\ thread[Idle].parent = -1 /\ thread[Idle].pc = "idle"
      /\ thread[Idle].status = "BLOCKED" /\ thread[Idle].maxlifetime = 0
  <2>1. thread[Idle] = [Zeroed EXCEPT !.tid = 2, !.parent = -1,
                          !.sigign = SigType, !.pc = "idle"]
    BY PageAssumption DEF Init
  <2> QED BY <2>1 DEF Zeroed
<1>4. Live(thread) = {Main, Idle}
  <2>1. \A p \in Page \ {Main, Idle} : thread[p] = Freed
    BY DEF Init
  <2> QED BY <1>1, <1>2, <1>3, <2>1, PageAssumption DEF Live
<1>5. Deadly(sig_list) = {} /\ Elements(tid_waiters) = {}
  BY EmptyList DEF Init, Deadly
<1>6. Unfinished(thread, Elements(ready_list))
  BY <1>2, <1>3, <1>4 DEF Unfinished
<1>7. Tids(thread, next_tid)
  <2>1. next_tid = 3
    BY DEF Init
  <2> QED BY <1>2, <1>3, <1>4, <2>1 DEF Tids
<1>8. Creators(thread)
  BY <1>2, <1>3, <1>4 DEF Creators, Early
<1>9. Locking(thread, tid_lock, tid_waiters)
  <2>1. tid_lock \notin Live(thread)
    BY <1>4, PageAssumption DEF Init
  <2> QED BY <1>2, <1>3, <1>4, <1>5, <2>1 DEF Locking
<1>10. IdleLives(thread)
  BY <1>3, <1>4 DEF IdleLives
<1>11. Orders(thread, Deadly(sig_list)) /\ KilledNeverRuns
  BY <1>5 DEF Orders, KilledNeverRuns, Deadly
<1>12. Downs(thread, sema.waiters)
  BY EmptyList DEF Init, Downs
<1> QED BY <1>6, <1>7, <1>8, <1>9, <1>10, <1>11, <1>12, InitIInv DEF KInv, Kin

LEMMA KinNowEnough ==
  ASSUME IInv', KinNow', Downs(thread, sema.waiters)', KilledNeverRuns' PROVE KInv'
BY OddMayGrow DEF KInv, KinNow, Kin, Unfinished

(* A step that leaves the list of the semaphore alone, or shortens it.      *)
LEMMA OnlookIsEnough ==
  ASSUME KInv, ~Undefined, Onlook(thread, thread'),
         Elements(sema'.waiters) \subseteq Elements(sema.waiters)
  PROVE  Downs(thread', sema'.waiters)
<1>1. current \notin Elements(sema.waiters) /\ \A p \in Live(thread) : p \in Page
  BY RunningKin DEF Live
<1> QED BY <1>1 DEF KInv, Downs, Onlook

LEMMA SwitchKeepsDowns ==
  ASSUME KInv, ~Undefined, HandleSignals \/ Tick \/ Yield \/ Block \/ IdleBlock \/ Exit
  PROVE  Downs(thread', sema'.waiters)
<1>1. IInv /\ current \in Page /\ thread \in Threads /\ ready_list \in Seq(Page)
  BY Parts DEF KInv
<1>2. UNCHANGED sema
  BY DEF HandleSignals, Tick, Yield, Block, IdleBlock, Exit
<1>3. Onlook(thread, thread')
  <2>1. CASE HandleSignals \/ Tick
    BY <1>1, <2>1, HandleIsOnlooked, TickIsOnlooked
  <2>2. CASE Yield
    BY <1>1, <2>2, YieldIsOnlooked DEF Yield, Alike
  <2>3. CASE Block \/ IdleBlock
    BY <1>1, <2>3, BlockIsOnlooked DEF Block, IdleBlock, Location
  <2>4. CASE Exit
    BY <1>1, <2>4, ExitIsOnlooked DEF Exit
  <2> QED BY <2>1, <2>2, <2>3, <2>4
<1> QED BY <1>2, <1>3, OnlookIsEnough

LEMMA SemaphoreKeepsDowns ==
  ASSUME KInv, ~Undefined, Down \/ Up
  PROVE  Downs(thread', sema'.waiters)
<1>1. /\ IInv /\ current \in Page /\ thread \in Threads
      /\ sema \in [value : 0..MaxValue, waiters : Seq(Page)]
  BY Parts DEF KInv, SleepersTyped
<1>2. CASE Down /\ sema.value = 0
  <2>1. BlockAt("down") /\ sema'.waiters = Append(sema.waiters, current)
    BY <1>1, <1>2 DEF Down
  <2>2. Onlook(thread, thread') /\ current \in Live(thread') /\ thread'[current].pc = "down"
    BY <1>1, <2>1, BlockIsOnlooked DEF Location
  <2>3. Elements(sema'.waiters) = Elements(sema.waiters) \cup {current}
    BY <1>1, <2>1, PushBack
  <2>4. \A p \in Elements(sema.waiters) :
          p \in Page \ {current} /\ p \in Live(thread) /\ thread[p].pc = "down"
    BY RunningKin DEF KInv, Downs, Live
  <2> QED BY <2>2, <2>3, <2>4 DEF Downs, Onlook
<1>3. CASE Down /\ sema.value # 0
  <2>1. sema'.waiters = sema.waiters /\ thread' = [thread EXCEPT ![current].pc = "run"]
    BY <1>1, <1>3 DEF Down
  <2>2. Onlook(thread, thread')
    BY <1>1, <2>1 DEF Onlook, Live, Threads
  <2> QED BY <2>1, <2>2, OnlookIsEnough
<1>4. CASE Up /\ sema.waiters = <<>>
  <2>1. sema'.waiters = <<>>
    BY <1>4 DEF Up
  <2> QED BY <2>1, EmptyList DEF Downs
<1>5. CASE Up /\ sema.waiters # <<>>
  <2>1. sema'.waiters = Tail(sema.waiters)
        /\ thread' = [thread EXCEPT ![Head(sema.waiters)] = Woken(@)]
    BY <1>5 DEF Up
  <2>2. Head(sema.waiters) \in Page
        /\ Elements(sema'.waiters) \subseteq Elements(sema.waiters)
    BY <1>1, <1>5, <2>1, PopFront
  <2>3. Onlook(thread, thread')
    BY <1>1, <2>1, <2>2, WakingIsOnlooked
  <2> QED BY <2>2, <2>3, OnlookIsEnough
<1> QED BY <1>2, <1>3, <1>4, <1>5

LEMMA CreateKeepsDowns ==
  ASSUME KInv, ~Undefined,
         \/ \E t \in Page : BeginCreate(t) \/ Unblock(t)
         \/ AcquireTidLock \/ TakeTid \/ FillIn \/ EndCreate
  PROVE  Downs(thread', sema'.waiters)
<1>1. IInv /\ current \in Page /\ thread \in Threads
  BY Parts DEF KInv
<1>2. UNCHANGED sema
  BY DEF BeginCreate, Unblock, AcquireTidLock, TakeTid, FillIn, EndCreate, Panic
<1>3. Onlook(thread, thread')
  <2>1. ASSUME NEW t \in Page, BeginCreate(t) PROVE Onlook(thread, thread')
    <3>1. \A p \in Page \ {current, t} : thread'[p] = thread[p]
      BY <1>1, <2>1 DEF BeginCreate, Threads
    <3> QED BY <2>1, <3>1 DEF BeginCreate, Onlook, Live
  <2>2. ASSUME NEW t \in Page, Unblock(t) PROVE Onlook(thread, thread')
    <3>1. UNCHANGED thread \/ thread' = [thread EXCEPT ![t] = Woken(@)]
      BY <2>2 DEF Unblock
    <3>2. CASE UNCHANGED thread
      BY <3>2 DEF Onlook, Live
    <3>3. CASE thread' = [thread EXCEPT ![t] = Woken(@)]
      BY <1>1, <3>3, WakingIsOnlooked
    <3> QED BY <3>1, <3>2, <3>3
  <2>3. CASE AcquireTidLock
    <3>1. BlockAt("new") \/ thread' = [thread EXCEPT ![current].pc = "locked"]
      BY <2>3 DEF AcquireTidLock
    <3>2. CASE BlockAt("new")
      BY <1>1, <3>2, BlockIsOnlooked DEF Location
    <3>3. CASE thread' = [thread EXCEPT ![current].pc = "locked"]
      BY <1>1, <3>3 DEF Onlook, Live, Threads
    <3> QED BY <3>1, <3>2, <3>3
  <2>4. CASE TakeTid \/ FillIn \/ EndCreate
    BY <1>1, <2>4, TakeTidIsOnlooked, FillInIsOnlooked, EndCreateIsOnlooked
  <2> QED BY <2>1, <2>2, <2>3, <2>4
<1> QED BY <1>2, <1>3, OnlookIsEnough

LEMMA CallKeepsDowns ==
  ASSUME KInv, ~Undefined,
         \/ \E s \in Ignorable : Signal(s, "SIG_DFL") \/ Signal(s, "SIG_IGN")
         \/ \E how \in {"SIG_BLOCK", "SIG_UNBLOCK", "SIG_SETMASK"} :
              \E set \in SUBSET Maskable : SigProcMask(how, set)
         \/ \E x \in Lifetimes : SetLifetime(x)
         \/ \E tid \in 0..MaxTid, s \in Sent : Kill(tid, s)
  PROVE  Downs(thread', sema'.waiters)
<1>1. thread \in Threads
  BY Parts DEF KInv
<1>2. UNCHANGED sema
  BY DEF Signal, SigProcMask, SetLifetime, Kill
<1>3. \A p \in Page \ {current} : thread'[p] = thread[p]
  BY <1>1 DEF Signal, SigProcMask, SetLifetime, Kill, Threads
<1>4. Onlook(thread, thread')
  BY <1>3 DEF Onlook, Live
<1> QED BY <1>2, <1>4, OnlookIsEnough

LEMMA StepKeepsDowns ==
  ASSUME KInv, ~Undefined, Step PROVE Downs(thread', sema'.waiters)
BY SwitchKeepsDowns, SemaphoreKeepsDowns, CreateKeepsDowns, CallKeepsDowns DEF Step

LEMMA StepKeepsKInv == KInv /\ [Next]_vars => KInv'
<1> SUFFICES ASSUME KInv, [Next]_vars PROVE KInv'
  OBVIOUS
<1>1. IInv'
  BY StepKeepsIInv DEF KInv
<1>2. CASE UNCHANGED vars
  <2>1. UNCHANGED <<thread, ready_list, sig_list, current, delivering,
                    next_tid, tid_lock, tid_waiters, sema>>
    BY <1>2 DEF vars
  <2>2. Kin(thread, Deadly(sig_list), next_tid, tid_lock, tid_waiters,
            Elements(ready_list))'
    BY <2>1 DEF KInv, Kin, Unfinished, Tids, Creators, Locking, IdleLives, Orders,
       Deadly, Elements, Live
  <2>3. Downs(thread, sema.waiters)'
    BY <2>1 DEF KInv, Downs, Elements, Live
  <2> QED BY <1>1, <2>1, <2>2, <2>3, KilledStays DEF KInv
<1>3. CASE ~Undefined /\ Step
  <2>0. Downs(thread, sema.waiters)'
    BY <1>3, StepKeepsDowns
  <2>1. CASE Tick \/ Yield \/ Block \/ IdleBlock \/ Down \/ Up
    <3>1. KinNow'
      BY <1>3, <2>1, TickKeepsKin, YieldStepKeepsKin, BlockStepKeepsKin, DownKeepsKin,
         UpKeepsKin
    <3>2. delivering' \/ UNCHANGED <<sig_list, current, delivering>>
      BY <2>1 DEF Tick, Yield, Block, IdleBlock, Down, Up, YieldFrom, BlockAt, Schedule
    <3> QED BY <1>1, <3>1, <3>2, <2>0, KilledStays, KinNowEnough DEF KInv
  <2>2. CASE HandleSignals
    BY <1>1, <1>3, <2>2, <2>0, HandleKeepsKin, KinNowEnough
  <2>3. CASE Exit
    <3>1. KinNow' /\ delivering'
      BY <1>3, <2>3, ExitStepKeepsKin
    <3> QED BY <1>1, <3>1, <2>0, KilledStays, KinNowEnough DEF KInv
  <2>4. ASSUME NEW t \in Page, BeginCreate(t) PROVE KInv'
    <3>1. KinNow'
      BY <1>3, <2>4, BeginCreateKeepsKin
    <3>2. UNCHANGED <<sig_list, current, delivering>>
      BY <2>4 DEF BeginCreate
    <3> QED BY <1>1, <3>1, <3>2, <2>0, KilledStays, KinNowEnough DEF KInv
  <2>5. CASE AcquireTidLock \/ TakeTid \/ FillIn
    <3>1. KinNow'
      BY <1>3, <2>5, AcquireKeepsKin, TakeTidKeepsKin, FillInKeepsKin
    <3>2. delivering' \/ UNCHANGED <<sig_list, current, delivering>>
      BY <2>5 DEF AcquireTidLock, TakeTid, FillIn, BlockAt, Schedule
    <3> QED BY <1>1, <3>1, <3>2, <2>0, KilledStays, KinNowEnough DEF KInv
  <2>6. CASE EndCreate \/ \E t \in Page : Unblock(t)
    <3>1. UNCHANGED <<sig_list, current, delivering>>
      BY <2>6 DEF EndCreate, Panic, Unblock
    <3>2. Kin(thread', Deadly(sig_list'), next_tid', tid_lock', tid_waiters',
              Elements(ready_list'))
      BY <1>3, <2>6, EndCreateKeepsKin, UnblockKeepsKin
    <3>3. KilledNeverRuns'
      BY <3>1, KilledStays DEF KInv
    <3> QED BY <1>1, <2>0, <3>2, <3>3 DEF KInv
  <2>7. CASE \/ \E s \in Ignorable : Signal(s, "SIG_DFL") \/ Signal(s, "SIG_IGN")
             \/ \E how \in {"SIG_BLOCK", "SIG_UNBLOCK", "SIG_SETMASK"} :
                  \E set \in SUBSET Maskable : SigProcMask(how, set)
             \/ \E x \in Lifetimes : SetLifetime(x)
    <3>1. KinNow'
      BY <1>3, <2>7, CallKeepsKin
    <3>2. UNCHANGED <<sig_list, current, delivering>>
      BY <2>7 DEF Signal, SigProcMask, SetLifetime
    <3> QED BY <1>1, <3>1, <3>2, <2>0, KilledStays, KinNowEnough DEF KInv
  <2>8. ASSUME NEW tid \in 0..MaxTid, NEW s \in Sent, Kill(tid, s) PROVE KInv'
    BY <1>1, <1>3, <2>8, <2>0, KillKeepsKin, KinNowEnough
  <2> QED BY <1>3, <2>1, <2>2, <2>3, <2>4, <2>5, <2>6, <2>7, <2>8 DEF Step
<1> QED BY <1>2, <1>3 DEF Next

LEMMA KinInvariance == Spec => []KInv
BY InitKInv, StepKeepsKInv, PTL DEF Spec

(* A pending SIG_KILL comes from the parent of the thread that will die of  *)
(* it, though pages are reused and threads exit between kill and delivery.  *)
THEOREM KillsOwnChild == Spec => []KilledByParent
<1>1. KInv => KilledByParent
  BY DEF KInv, Kin, Orders, Deadly, KilledByParent
<1> QED BY <1>1, KinInvariance, PTL

(* A thread that was sent SIG_KILL runs no more, whatever it masks, ignores *)
(* or was in the middle of.                                                 *)
THEOREM KilledStops == Spec => []KilledNeverRuns
<1>1. KInv => KilledNeverRuns
  BY DEF KInv
<1> QED BY <1>1, KinInvariance, PTL

(* No two threads have one tid, and a thread's parent is alive or -1, up to *)
(* where a SIG_UBLOCK makes a thread run that is not built.                 *)
THEOREM FamiliesHold == Spec => [](Undefined \/ FamilyTree)
<1>1. KInv => Undefined \/ FamilyTree
  <2> SUFFICES ASSUME KInv, ~Undefined PROVE FamilyTree
    OBVIOUS
  <2>1. Unfinished(thread, {}) /\ Tids(thread, next_tid)
    BY RunningKin DEF KinNow, Kin
  <2>2. ASSUME NEW p \in Live(thread), thread[p].pc # "unborn", thread[p].parent # -1
        PROVE  \E q \in Live(thread) \ {p} : thread[q].tid = thread[p].parent
    <3>1. thread[p].parent # 0
      BY <2>1, <2>2 DEF Unfinished
    <3>2. thread[p].parent < thread[p].tid
      BY <2>1, <3>1 DEF Tids
    <3>3. PICK q \in Live(thread) : thread[q].tid = thread[p].parent
      BY <2>1, <2>2, <3>1 DEF Tids
    <3>4. p \in Page /\ thread[p].tid \in Nat
      BY Parts DEF KInv, Threads, Struct, Live
    <3>5. q # p
      BY <3>2, <3>3, <3>4
    <3> QED BY <3>3, <3>5
  <2> QED BY <2>1, <2>2 DEF FamilyTree, Tids
<1> QED BY <1>1, KinInvariance, PTL

(* The assertions about tid_lock's holder hold, also when it is killed with *)
(* the lock and its page is used again.                                     *)
THEOREM HolderKnown == Spec => []LockHolder
<1>1. KInv => LockHolder
  <2> SUFFICES ASSUME KInv PROVE thread[current].pc = "locked" <=> tid_lock = current
    BY DEF LockHolder
  <2>1. current \in Live(thread) /\ thread[current].status = "RUNNING"
        /\ current \notin Elements(ready_list)
    BY Parts DEF KInv, Live
  <2>2. thread[current].parent # 0
    BY <2>1 DEF KInv, Kin, Unfinished
  <2> QED BY <2>1, <2>2 DEF KInv, Kin, Locking
<1> QED BY <1>1, KinInvariance, PTL

----------------------------------------------------------------------------
(* Waiting for tid_lock, in a semaphore or for thread_unblock, and new      *)
(* threads until they are unblocked, when nobody sends SIG_UBLOCK: such     *)
(* threads are dormant.                                                     *)

Dormant(th) ==
  {p \in Live(th) : /\ th[p].status = "BLOCKED"
                    /\ th[p].pc \in {"new", "unborn", "down", "asleep"}}

(* What a creator is about to unblock has a parent, sleeps and is its own.  *)
Waits(th, waiters) ==
  /\ NoDuplicates(waiters)
  /\ Elements(waiters) \subseteq Dormant(th)
  /\ \A p \in Live(th) : th[p].pc = "made" =>
       LET n == th[p].newborn
       IN  n \in Dormant(th) /\ th[n].pc = "unborn" /\ th[n].parent # 0
  /\ \A p, q \in Live(th) :
       th[p].pc = "made" /\ th[q].pc = "made" /\ th[p].newborn = th[q].newborn => p = q

(* Who waits in the semaphore, once, and whom thread_unblock is to wake.    *)
Naps(th, downs, blocked) ==
  /\ NoDuplicates(downs)
  /\ Elements(downs) \subseteq {p \in Dormant(th) : th[p].pc = "down"}
  /\ blocked \subseteq {p \in Dormant(th) : th[p].pc = "asleep"}

Calm(sigs) == \A e \in Elements(sigs) : e.sig # "SIG_UBLOCK"

WInv ==
  /\ KInv
  /\ Unfinished(thread, {})
  /\ Calm(sig_list)
  /\ ~panicked
  /\ Waits(thread, tid_waiters)
  /\ Naps(thread, sema.waiters, wakers)

(* From th to th2 nobody wakes who is dormant, and no creator comes to its  *)
(* thread_unblock.                                                          *)
Still(th, th2) ==
  \A p \in Page :
    /\ p \in Dormant(th) =>
         /\ th2[p].status = "BLOCKED" /\ th2[p].pc = th[p].pc
         /\ th[p].parent # 0 => th2[p].parent # 0
    /\ p \in Live(th2) /\ th2[p].pc = "made" =>
         p \in Live(th) /\ th[p].pc = "made" /\ th2[p].newborn = th[p].newborn

LEMMA StillDormant ==
  ASSUME NEW th, NEW th2, Still(th, th2), NEW p \in Dormant(th)
  PROVE  /\ p \in Dormant(th2) /\ th2[p].pc = th[p].pc
         /\ th[p].parent # 0 => th2[p].parent # 0
BY DEF Still, Dormant, Live

LEMMA StillTwice ==
  ASSUME NEW th, NEW th2, NEW th3, Still(th, th2), Still(th2, th3)
  PROVE  Still(th, th3)
<1>1. ASSUME NEW p \in Page, p \in Dormant(th)
      PROVE  /\ th3[p].status = "BLOCKED" /\ th3[p].pc = th[p].pc
             /\ th[p].parent # 0 => th3[p].parent # 0
  <2>1. p \in Dormant(th2) /\ th2[p].pc = th[p].pc
        /\ (th[p].parent # 0 => th2[p].parent # 0)
    BY <1>1, StillDormant
  <2> QED BY <1>1, <2>1 DEF Still
<1>2. ASSUME NEW p \in Page, p \in Live(th3), th3[p].pc = "made"
      PROVE  p \in Live(th) /\ th[p].pc = "made" /\ th3[p].newborn = th[p].newborn
  <2>1. p \in Live(th2) /\ th2[p].pc = "made" /\ th3[p].newborn = th2[p].newborn
    BY <1>2 DEF Still
  <2> QED BY <1>2, <2>1 DEF Still
<1> QED BY <1>1, <1>2 DEF Still

LEMMA StillKeepsWaits ==
  ASSUME NEW th, NEW th2, NEW waiters, Waits(th, waiters), Still(th, th2)
  PROVE  Waits(th2, waiters)
<1>1. Elements(waiters) \subseteq Dormant(th2)
  BY StillDormant DEF Waits
<1>2. \A p \in Live(th2) : th2[p].pc = "made" =>
        p \in Live(th) /\ th[p].pc = "made" /\ th2[p].newborn = th[p].newborn
  BY DEF Still, Live
<1>3. ASSUME NEW p \in Live(th2), th2[p].pc = "made"
      PROVE  LET n == th2[p].newborn
             IN  n \in Dormant(th2) /\ th2[n].pc = "unborn" /\ th2[n].parent # 0
  <2> DEFINE n == th[p].newborn
  <2>1. n \in Dormant(th) /\ th[n].pc = "unborn" /\ th[n].parent # 0
    BY <1>2, <1>3 DEF Waits
  <2>2. th2[p].newborn = n
    BY <1>2, <1>3
  <2> HIDE DEF n
  <2>3. n \in Dormant(th2) /\ th2[n].pc = "unborn" /\ th2[n].parent # 0
    BY <2>1, StillDormant
  <2> QED BY <2>2, <2>3
<1>4. \A p, q \in Live(th2) :
        th2[p].pc = "made" /\ th2[q].pc = "made" /\ th2[p].newborn = th2[q].newborn => p = q
  BY <1>2 DEF Waits
<1> QED BY <1>1, <1>3, <1>4 DEF Waits

LEMMA StillKeepsNaps ==
  ASSUME NEW th, NEW th2, NEW downs, NEW blocked, Naps(th, downs, blocked), Still(th, th2)
  PROVE  Naps(th2, downs, blocked)
BY StillDormant DEF Naps

(* thread_unblock or sema_up for a thread that is dormant.                  *)
LEMMA WakeKeepsWaits ==
  ASSUME WInv, NEW t \in Dormant(thread), thread[t].pc \in {"down", "asleep"},
         thread' = [thread EXCEPT ![t] = Woken(thread[t])]
  PROVE  /\ Waits(thread', tid_waiters)
         /\ \A p \in Dormant(thread) \ {t} : p \in Dormant(thread') /\ thread'[p] = thread[p]
<1>1. /\ thread \in Threads /\ t \in Page /\ thread[t] \in Struct
      /\ Waits(thread, tid_waiters)
  BY Parts DEF WInv, KInv, Dormant, Live, Threads
<1>2. \A p \in Page : thread'[p] = IF p = t THEN Woken(thread[t]) ELSE thread[p]
  BY <1>1 DEF Threads
<1>3. /\ Woken(thread[t]).status = "READY" /\ Woken(thread[t]).pc \in {"down", "run"}
  BY <1>1, WokenStruct
<1>4. Live(thread') = Live(thread)
  BY <1>1, <1>2, <1>3 DEF Dormant, Live
<1>5. \A p \in Dormant(thread) \ {t} : p \in Dormant(thread') /\ thread'[p] = thread[p]
  BY <1>2, <1>4 DEF Dormant, Live
<1>6. \A p \in Live(thread') : thread'[p].pc = "made" => p \in Live(thread) /\ thread'[p] = thread[p]
  BY <1>2, <1>3, <1>4 DEF Live
<1>7. ASSUME NEW p \in Live(thread'), thread'[p].pc = "made"
      PROVE  LET n == thread'[p].newborn
             IN  n \in Dormant(thread') /\ thread'[n].pc = "unborn" /\ thread'[n].parent # 0
  <2> DEFINE n == thread[p].newborn
  <2>1. n \in Dormant(thread) \ {t} /\ thread[n].pc = "unborn" /\ thread[n].parent # 0
    BY <1>1, <1>6, <1>7 DEF Waits
  <2>2. thread'[p].newborn = n
    BY <1>6, <1>7
  <2> HIDE DEF n
  <2> QED BY <1>5, <2>1, <2>2
<1>8. Elements(tid_waiters) \subseteq Dormant(thread')
  <2>1. \A p \in Elements(tid_waiters) : thread[p].pc = "new"
    BY DEF WInv, KInv, Kin, Locking
  <2> QED BY <1>1, <1>5, <2>1 DEF Waits
<1>9. \A p, q \in Live(thread') :
        thread'[p].pc = "made" /\ thread'[q].pc = "made" /\ thread'[p].newborn = thread'[q].newborn => p = q
  BY <1>1, <1>6 DEF Waits
<1> QED BY <1>1, <1>5, <1>7, <1>8, <1>9 DEF Waits

(* No step is left undefined.                                               *)
LEMMA WaitersApart ==
  ASSUME WInv
  PROVE  /\ ~Undefined
         /\ \A p \in Dormant(thread) : p # current /\ p \notin Elements(ready_list)
<1>1. /\ thread[current].status = "RUNNING"
      /\ \A p \in Elements(ready_list) : thread[p].status = "READY"
  BY Parts DEF WInv, KInv, IInv, Runnable
<1>2. \A p \in Dormant(thread) : p # current /\ p \notin Elements(ready_list)
  BY <1>1 DEF Dormant
<1>3. Waiting \subseteq Dormant(thread)
  BY DEF WInv, Waits, Naps, Waiting
<1>4. HalfBuilt \subseteq Dormant(thread)
  BY DEF WInv, Unfinished, HalfBuilt, Dormant
<1> QED BY <1>2, <1>3, <1>4 DEF Undefined

----------------------------------------------------------------------------
(* The members that schedule() leaves alone.                                *)
LEMMA SwitchMembers ==
  ASSUME current \in Page, NEW ready \in Seq(Page), NEW th \in Threads,
         \A p \in Elements(ready) : th[p].status = "READY",
         IdleLives(th), Schedule(ready, th)
  PROVE  /\ Live(thread') = Live(th)
         /\ \A p \in Live(th) :
              /\ \/ thread'[p].status = th[p].status
                 \/ th[p].status = "READY" \/ p = Idle
              /\ thread'[p].pc = th[p].pc /\ thread'[p].newborn = th[p].newborn
              /\ thread'[p].tid = th[p].tid /\ thread'[p].parent = th[p].parent
              /\ thread'[p].sigmask = th[p].sigmask
              /\ thread'[p].child = th[p].child /\ thread'[p].dchild = th[p].dchild
<1> DEFINE chosen == IF ready = <<>> THEN Idle ELSE Head(ready)
           reaped == IF th[current].status = "DYING" /\ current # Main
                     THEN [th EXCEPT ![current] = Freed] ELSE th
<1>1. thread' = [reaped EXCEPT ![chosen].status = "RUNNING"]
  BY DEF Schedule
<1>2. chosen \in Live(th) /\ (th[chosen].status = "READY" \/ chosen = Idle)
  <2>1. CASE ready = <<>>
    BY <2>1 DEF IdleLives
  <2>2. CASE ready # <<>>
    <3>1. Head(ready) \in Page /\ Head(ready) \in Elements(ready)
      BY <2>2, PopFront
    <3> QED BY <2>2, <3>1 DEF Live
  <2> QED BY <2>1, <2>2
<1>3. /\ reaped \in Threads
      /\ \A p \in Page : \/ reaped[p] = th[p]
                         \/ th[p].status = "DYING" /\ reaped[p].status = "FREE"
  BY ZeroedTyped DEF Threads
<1> HIDE DEF chosen, reaped
<1>4. \A p \in Live(th) : p \in Page /\ reaped[p] = th[p]
  BY <1>3 DEF Live
<1>5. \A p \in Page : p # chosen => thread'[p] = reaped[p]
  BY <1>1, <1>3 DEF Threads
<1>6. thread'[chosen] = [th[chosen] EXCEPT !.status = "RUNNING"]
  BY <1>1, <1>2, <1>3, <1>4 DEF Threads
<1>7. th[chosen] \in Struct
  BY <1>2, <1>4 DEF Threads
<1>8. LET s == thread'[chosen] r == th[chosen]
      IN  /\ s.status = "RUNNING" /\ s.pc = r.pc /\ s.newborn = r.newborn
          /\ s.tid = r.tid /\ s.parent = r.parent /\ s.sigmask = r.sigmask
          /\ s.child = r.child /\ s.dchild = r.dchild
  BY <1>6, <1>7 DEF Struct
<1>9. Live(thread') = Live(th)
  BY <1>2, <1>3, <1>4, <1>5, <1>8 DEF Live
<1> QED BY <1>2, <1>4, <1>5, <1>8, <1>9

LEMMA SwitchIsStill ==
  ASSUME current \in Page, NEW ready \in Seq(Page), NEW th \in Threads,
         \A p \in Elements(ready) : th[p].status = "READY",
         IdleLives(th), Schedule(ready, th)
  PROVE  Still(th, thread')
<1>1. /\ Live(thread') = Live(th)
      /\ \A p \in Live(th) :
           /\ \/ thread'[p].status = th[p].status
              \/ th[p].status = "READY" \/ p = Idle
           /\ thread'[p].pc = th[p].pc /\ thread'[p].newborn = th[p].newborn
           /\ thread'[p].parent = th[p].parent
  BY SwitchMembers
<1>2. Idle \notin Dormant(th)
  BY DEF IdleLives, Dormant
<1> QED BY <1>1, <1>2 DEF Still, Dormant

(* Another struct thread for the one that runs.                             *)
LEMMA CurrentIsStill ==
  ASSUME IInv, NEW r,
         r.pc = "made" => thread[current].pc = "made" /\ r.newborn = thread[current].newborn,
         NEW th, th = [thread EXCEPT ![current] = r]
  PROVE  Still(thread, th)
<1>1. thread \in Threads /\ current \in Page /\ thread[current].status = "RUNNING"
  BY Parts
<1>2. \A p \in Page : th[p] = IF p = current THEN r ELSE thread[p]
  BY <1>1 DEF Threads
<1> QED BY <1>1, <1>2 DEF Still, Dormant, Live

(* The same in all that matters here.                                       *)
LEMMA AlikeIsStill ==
  ASSUME NEW th, NEW th2,
         \A p \in Page : /\ th2[p].status = th[p].status /\ th2[p].pc = th[p].pc
                         /\ th2[p].newborn = th[p].newborn
                         /\ th2[p].parent = th[p].parent
  PROVE  Still(th, th2)
BY DEF Still, Dormant, Live

----------------------------------------------------------------------------
(* The steps.                                                               *)

LEMMA YieldIsStill ==
  ASSUME KInv, ~Undefined, NEW th, Alike(th), Still(thread, th), Quiet(thread, th, {}),
         YieldFrom(th)
  PROVE  Still(thread, thread')
<1> DEFINE ready == IF current = Idle THEN ready_list ELSE Append(ready_list, current)
           th2 == [th EXCEPT ![current].status = "READY"]
<1>1. /\ current \in Page /\ ready_list \in Seq(Page) /\ th \in Threads
      /\ th[current].status = "RUNNING"
  BY Parts DEF Alike, KInv
<1>2. /\ th2 \in Threads
      /\ \A p \in Page : /\ th2[p].status = IF p = current THEN "READY" ELSE th[p].status
                         /\ th2[p].pc = th[p].pc /\ th2[p].newborn = th[p].newborn
                         /\ th2[p].tid = th[p].tid /\ th2[p].parent = th[p].parent
                         /\ th2[p].sigign = th[p].sigign
                         /\ th2[p].maxlifetime = th[p].maxlifetime
  BY <1>1, SetStatus DEF Status
<1>3. ready \in Seq(Page) /\ Elements(ready) \subseteq Elements(ready_list) \cup {current}
  BY <1>1, PushBack
<1>4. Schedule(ready, th2)
  BY DEF YieldFrom
<1> HIDE DEF ready, th2
<1>5. \A p \in Elements(ready) : th2[p].status = "READY"
  <2>1. Elements(ready_list) \subseteq Page /\ Runnable(ready_list, thread, {current})
    BY Parts DEF KInv, IInv
  <2> QED BY <1>1, <1>2, <1>3, <2>1 DEF Runnable, Alike
<1>6. Still(th, th2)
  BY <1>1, <1>2 DEF Still, Dormant, Live
<1>7. IdleLives(th2)
  <2>1. Idle \in Page /\ IdleLives(thread)
    BY PageAssumption DEF KInv, Kin
  <2>2. /\ Idle \in Live(th) /\ th[Idle].pc = "idle" /\ th[Idle].parent = -1
        /\ th[Idle].maxlifetime = 0
    BY <2>1 DEF Quiet, IdleLives, Fixed
  <2> QED BY <1>2, <2>1, <2>2 DEF IdleLives, Live
<1>8. Still(th2, thread')
  BY <1>1, <1>2, <1>3, <1>4, <1>5, <1>7, SwitchIsStill
<1> QED BY <1>6, <1>8, StillTwice

LEMMA TickIsStill == ASSUME KInv, ~Undefined, Tick PROVE Still(thread, thread')
<1> DEFINE older == [p \in Page |->
             IF p \in Live(thread) /\ thread[p].age < MaxAge
             THEN [thread[p] EXCEPT !.age = @ + 1] ELSE thread[p]]
<1>1. \/ SliceOver /\ YieldFrom(older)
      \/ thread' = older
  BY DEF Tick
<1>2. ASSUME NEW p \in Page
      PROVE  /\ older[p] \in Struct /\ older[p].status = thread[p].status
             /\ older[p].pc = thread[p].pc /\ older[p].newborn = thread[p].newborn
             /\ older[p].tid = thread[p].tid /\ older[p].parent = thread[p].parent
             /\ older[p].sigign = thread[p].sigign
             /\ older[p].maxlifetime = thread[p].maxlifetime
  <2>1. thread[p] \in Struct
    BY Parts DEF KInv, Threads
  <2>2. CASE older[p] = thread[p]
    BY <2>1, <2>2
  <2>3. CASE older[p] = [thread[p] EXCEPT !.age = @ + 1] /\ thread[p].age < MaxAge
    <3>1. thread[p].age + 1 \in 0..MaxAge
      BY <2>1, <2>3, InputAssumption DEF Struct
    <3> HIDE DEF older
    <3> QED BY <2>1, <2>3, <3>1 DEF Struct
  <2> QED BY <2>2, <2>3
<1>3. older \in Threads
  BY <1>2 DEF Threads
<1> HIDE DEF older
<1>4. Alike(older) /\ Still(thread, older)
  BY <1>2, <1>3, AlikeIsStill DEF Alike
<1>5. Quiet(thread, older, {})
  <2>1. Live(older) = Live(thread)
    BY <1>2 DEF Live
  <2>2. Idle \in Page /\ \A p \in Live(thread) : p \in Page
    BY PageAssumption DEF Live
  <2> QED BY <1>2, <2>1, <2>2 DEF Quiet
<1> QED BY <1>1, <1>4, <1>5, YieldIsStill

LEMMA BlockIsStill ==
  ASSUME KInv, NEW pc \in {"asleep", "down", "idle", "new"}, BlockAt(pc),
         current # Idle \/ pc = "idle"
  PROVE  /\ Still(thread, thread')
         /\ pc # "idle" => current \in Dormant(thread') /\ thread'[current].pc = pc
<1> DEFINE r == [thread[current] EXCEPT !.status = "BLOCKED", !.pc = pc]
           th == [thread EXCEPT ![current].status = "BLOCKED", ![current].pc = pc]
<1>1. /\ current \in Page /\ ready_list \in Seq(Page) /\ thread \in Threads /\ IInv
      /\ Elements(ready_list) \subseteq Page /\ current \notin Elements(ready_list)
      /\ thread[current] \in Struct
  BY Parts DEF KInv, Threads
<1>2. r \in Struct /\ r.status = "BLOCKED" /\ r.pc = pc /\ r.parent = thread[current].parent
      /\ r.maxlifetime = thread[current].maxlifetime
  <2>1. "BLOCKED" \in Status /\ pc \in Location
    BY DEF Status, Location
  <2> QED BY <1>1, <2>1 DEF Struct
<1>3. th = [thread EXCEPT ![current] = r]
  BY <1>1 DEF Threads
<1>4. Schedule(ready_list, th)
  BY DEF BlockAt
<1> HIDE DEF r, th
<1>5. th \in Threads /\ \A p \in Page : th[p] = IF p = current THEN r ELSE thread[p]
  <2>1. r \in Struct /\ current \in Page /\ thread \in Threads
    BY <1>1, <1>2
  <2> QED BY <1>3, <2>1 DEF Threads
<1>6. Still(thread, th)
  BY <1>1, <1>2, <1>3, CurrentIsStill
<1>7. \A p \in Elements(ready_list) : th[p].status = "READY"
  BY <1>1, <1>5 DEF IInv, Runnable
<1>8. IdleLives(th)
  <2>1. IdleLives(thread) /\ Idle \in Page
    BY PageAssumption DEF KInv, Kin
  <2> QED BY <1>1, <1>2, <1>5, <2>1 DEF IdleLives, Live
<1>9. Still(th, thread')
  BY <1>1, <1>4, <1>5, <1>7, <1>8, SwitchIsStill
<1>10. pc # "idle" => current \in Dormant(th) /\ th[current].pc = pc
  BY <1>1, <1>2, <1>5 DEF Dormant, Live
<1> QED BY <1>6, <1>9, <1>10, StillTwice, StillDormant

LEMMA ExitIsStill ==
  ASSUME current \in Page, NEW ready \in Seq(Page), NEW sigs, NEW th \in Threads,
         Runnable(ready, th, {current}), IdleLives(th), current # Idle,
         ExitFrom(ready, sigs, th)
  PROVE  Still(th, thread')
<1> DEFINE orphaned == Orphaned(th)
           th2 == [orphaned EXCEPT ![current].status = "DYING"]
<1>1. th[current].status = "RUNNING" /\ Elements(ready) \subseteq Page
  BY ElementsAt DEF Runnable
<1>2. \A p \in Page : LET s == [th[p] EXCEPT !.parent = -1]
        IN  /\ s \in Struct /\ s.status = th[p].status /\ s.pc = th[p].pc
            /\ s.newborn = th[p].newborn /\ s.parent = -1
            /\ s.maxlifetime = th[p].maxlifetime
  BY DEF Threads, Struct
<1>3. /\ orphaned \in Threads
      /\ \A p \in Page :
           /\ orphaned[p].status = th[p].status /\ orphaned[p].pc = th[p].pc
           /\ orphaned[p].newborn = th[p].newborn
           /\ orphaned[p].parent \in {th[p].parent, -1}
           /\ orphaned[p].maxlifetime = th[p].maxlifetime
  BY <1>2 DEF Orphaned, Threads
<1> HIDE DEF orphaned
<1>4. /\ th2 \in Threads
      /\ \A p \in Page : p # current => th2[p] = orphaned[p]
      /\ th2[current] = [orphaned[current] EXCEPT !.status = "DYING"]
  <2> DEFINE s == [orphaned[current] EXCEPT !.status = "DYING"]
  <2>1. orphaned[current] \in Struct
    BY <1>3 DEF Threads
  <2>2. s \in Struct
    BY <2>1 DEF Struct, Status
  <2>3. th2 = [orphaned EXCEPT ![current] = s]
    BY <1>3 DEF Threads
  <2>4. s = [orphaned[current] EXCEPT !.status = "DYING"]
    OBVIOUS
  <2> HIDE DEF s, th2
  <2>5. th2 \in Threads /\ \A p \in Page : th2[p] = IF p = current THEN s ELSE orphaned[p]
    BY <1>3, <2>2, <2>3 DEF Threads
  <2> QED BY <2>4, <2>5
<1>5. th2[current].status = "DYING"
  <2>1. orphaned[current] \in Struct
    BY <1>3 DEF Threads
  <2> QED BY <1>4, <2>1 DEF Struct
<1>6. Schedule(ready, th2)
  BY DEF ExitFrom, orphaned
<1> HIDE DEF th2
<1>7. Still(th, th2)
  <2>1. current \notin Dormant(th) /\ current \notin Live(th2)
    BY <1>1, <1>5 DEF Dormant, Live
  <2>2. \A p \in Page : p # current =>
          /\ th2[p].status = th[p].status /\ th2[p].pc = th[p].pc
          /\ th2[p].newborn = th[p].newborn /\ th2[p].parent \in {th[p].parent, -1}
    BY <1>3, <1>4
  <2> QED BY <2>1, <2>2 DEF Still, Dormant, Live
<1>8. \A p \in Elements(ready) : th2[p].status = "READY"
  BY <1>1, <1>3, <1>4 DEF Runnable
<1>9. IdleLives(th2)
  BY <1>3, <1>4, PageAssumption DEF IdleLives, Live
<1>10. Still(th2, thread')
  BY <1>4, <1>6, <1>8, <1>9, SwitchIsStill
<1> QED BY <1>7, <1>10, StillTwice

(* handleSignals wakes nobody.                                              *)
LEMMA HandledIsStill ==
  ASSUME IInv, Calm(sig_list) PROVE Still(thread, HandledThreads)
<1>1. ReceiverPages = {}
  BY DEF ReceiverPages, ToUnblock, Calm
<1>2. ASSUME NEW p \in Page
      PROVE  /\ HandledThreads[p].status = thread[p].status
             /\ HandledThreads[p].pc = thread[p].pc
             /\ HandledThreads[p].newborn = thread[p].newborn
             /\ HandledThreads[p].parent = thread[p].parent
  <2>1. thread[p] \in Struct
    BY Parts DEF Threads
  <2>2. \/ HandledThreads[p] = thread[p]
        \/ HandledThreads[p] = [thread[p] EXCEPT !.dchild = @ + 1]
    BY <1>1 DEF HandledThreads
  <2> QED BY <2>1, <2>2 DEF Struct
<1> QED BY <1>2, AlikeIsStill

LEMMA HandleIsStill ==
  ASSUME WInv, HandleSignals PROVE Still(thread, thread') /\ Calm(sig_list')
<1>1. PICK gone \in SUBSET Dangling :
        IF Handled \cap {"SIG_CPU", "SIG_KILL"} # {}
        THEN ExitFrom(ready_list \o Receivers, Filter(sig_list, Kept(gone)), HandledThreads)
        ELSE /\ thread' = HandledThreads
             /\ sig_list' = Filter(sig_list, Kept(gone))
  BY DEF HandleSignals, Receivers, HandledThreads, ReceiverPages
<1> DEFINE sigs == Filter(sig_list, Kept(gone))
<1>2. KInv /\ IInv /\ ~Undefined /\ Calm(sig_list)
  BY WaitersApart DEF WInv, KInv
<1>3. sigs \in Seq(Entry) /\ Calm(sigs)
  <2>1. sigs \in Seq(Entry) /\ Elements(sigs) \subseteq Elements(sig_list)
    BY <1>2, Parts, FilterKeyed DEF IInv
  <2> QED BY <1>2, <2>1 DEF Calm
<1>4. Still(thread, HandledThreads)
  BY <1>2, HandledIsStill
<1> HIDE DEF sigs
<1>5. CASE /\ Handled \cap {"SIG_CPU", "SIG_KILL"} # {}
           /\ ExitFrom(ready_list \o Receivers, sigs, HandledThreads)
  <2>1. /\ current \in Page /\ HandledThreads \in Threads
        /\ ready_list \o Receivers \in Seq(Page)
        /\ Runnable(ready_list \o Receivers, HandledThreads, {current})
    BY <1>2, Parts, HandledFacts
  <2>2. current # Idle
    BY <1>2, <1>5, IdleSpared
  <2>3. IdleLives(HandledThreads)
    <3>1. Kin(HandledThreads, Deadly(sig_list), next_tid, tid_lock, tid_waiters, {})
      BY <1>2, RunningKin, HandledIsQuiet, QuietKeepsKin DEF KinNow
    <3> QED BY <3>1 DEF Kin
  <2>4. Still(HandledThreads, thread')
    BY <1>5, <2>1, <2>2, <2>3, ExitIsStill
  <2>5. Calm(sig_list')
    BY <1>3, <1>5, QueuedElements DEF ExitFrom, Calm
  <2> QED BY <1>4, <2>4, <2>5, StillTwice
<1> QED BY <1>1, <1>3, <1>4, <1>5 DEF sigs

(* What a step leaves of the invariant, besides KInv.                       *)
WNext ==
  /\ Unfinished(thread', {})
  /\ Calm(sig_list')
  /\ ~panicked'
  /\ Waits(thread', tid_waiters')
  /\ Naps(thread', sema'.waiters, wakers')

LEMMA StillIsEnough ==
  ASSUME WInv, KinNow', Still(thread, thread'),
         UNCHANGED <<tid_waiters, panicked, wakers>>, sema'.waiters = sema.waiters,
         Calm(sig_list')
  PROVE  WNext
<1>1. Waits(thread', tid_waiters') /\ Naps(thread', sema'.waiters, wakers')
  BY StillKeepsWaits, StillKeepsNaps DEF WInv
<1> QED BY <1>1 DEF WNext, WInv, KinNow, Kin

LEMMA SwitchKeepsWaits ==
  ASSUME WInv, Tick \/ Yield \/ IdleBlock PROVE WNext
<1>1. KInv /\ IInv /\ ~Undefined /\ Calm(sig_list)
  BY WaitersApart DEF WInv, KInv
<1>2. KinNow'
  BY <1>1, TickKeepsKin, YieldStepKeepsKin, BlockStepKeepsKin
<1>3. UNCHANGED <<tid_waiters, panicked, sig_list, sema, wakers>>
  BY DEF Tick, Yield, IdleBlock
<1>4. CASE Tick
  BY <1>1, <1>2, <1>3, <1>4, TickIsStill, StillIsEnough
<1>5. CASE Yield
  <2>1. Alike(thread)
    BY <1>1, Parts DEF Alike
  <2>2. Still(thread, thread)
    BY AlikeIsStill
  <2>3. Still(thread, thread')
    BY <1>1, <1>5, <2>1, <2>2, ThreadIsQuiet, YieldIsStill DEF Yield
  <2> QED BY <1>1, <1>2, <1>3, <2>3, StillIsEnough
<1>6. CASE IdleBlock
  <2>1. BlockAt("idle")
    BY <1>6 DEF IdleBlock
  <2>2. Still(thread, thread')
    BY <1>1, <2>1, BlockIsStill
  <2> QED BY <1>1, <1>2, <1>3, <2>2, StillIsEnough
<1> QED BY <1>4, <1>5, <1>6

(* Who goes to sleep was not asleep.                                        *)
LEMMA BlockKeepsWaits ==
  ASSUME WInv, Block \/ (Down /\ sema.value = 0) PROVE WNext
<1>1. /\ KInv /\ IInv /\ ~Undefined /\ Calm(sig_list)
      /\ current \in Page /\ sema \in [value : 0..MaxValue, waiters : Seq(Page)]
  BY WaitersApart, Parts DEF WInv, KInv, SleepersTyped
<1>2. KinNow' /\ current \notin Elements(sema.waiters)
  BY <1>1, BlockStepKeepsKin, DownKeepsKin, RunningKin
<1>3. UNCHANGED <<tid_waiters, panicked, sig_list>> /\ thread[current].pc \in {"run", "down"}
  BY DEF Block, Down, At
<1>4. current # Idle
  BY <1>1, <1>3, RunningKin DEF KinNow, Kin, IdleLives
<1>5. CASE Block
  <2>1. BlockAt("asleep") /\ wakers' = wakers \cup {current} /\ UNCHANGED sema
    BY <1>5 DEF Block
  <2>2. Still(thread, thread') /\ current \in Dormant(thread') /\ thread'[current].pc = "asleep"
    BY <1>1, <1>4, <2>1, BlockIsStill
  <2>3. Waits(thread', tid_waiters) /\ Naps(thread', sema.waiters, wakers)
    BY <2>2, StillKeepsWaits, StillKeepsNaps DEF WInv
  <2>4. Naps(thread', sema'.waiters, wakers')
    BY <2>1, <2>2, <2>3 DEF Naps
  <2> QED BY <1>1, <1>2, <1>3, <2>3, <2>4 DEF WNext, WInv, KinNow, Kin
<1>6. CASE Down /\ sema.value = 0
  <2>1. BlockAt("down") /\ sema'.waiters = Append(sema.waiters, current) /\ UNCHANGED wakers
    BY <1>1, <1>6 DEF Down
  <2>2. Still(thread, thread') /\ current \in Dormant(thread') /\ thread'[current].pc = "down"
    BY <1>1, <1>4, <2>1, BlockIsStill
  <2>3. Waits(thread', tid_waiters) /\ Naps(thread', sema.waiters, wakers)
    BY <2>2, StillKeepsWaits, StillKeepsNaps DEF WInv
  <2>4. /\ NoDuplicates(sema'.waiters)
        /\ Elements(sema'.waiters) = Elements(sema.waiters) \cup {current}
    BY <1>1, <1>2, <2>1, PushBack DEF WInv, Naps
  <2>5. Naps(thread', sema'.waiters, wakers')
    BY <2>1, <2>2, <2>3, <2>4 DEF Naps
  <2> QED BY <1>1, <1>2, <1>3, <2>3, <2>5 DEF WNext, WInv, KinNow, Kin
<1> QED BY <1>5, <1>6

(* A sema_down that finds the value above zero.                             *)
LEMMA DownKeepsWaits == ASSUME WInv, Down, sema.value # 0 PROVE WNext
<1> DEFINE r == [thread[current] EXCEPT !.pc = "run"]
<1>1. /\ KInv /\ IInv /\ ~Undefined /\ Calm(sig_list) /\ thread \in Threads
      /\ current \in Page /\ thread[current] \in Struct
      /\ sema \in [value : 0..MaxValue, waiters : Seq(Page)]
  BY WaitersApart, Parts DEF WInv, KInv, Threads, SleepersTyped
<1>2. KinNow'
  BY <1>1, DownKeepsKin
<1>3. /\ UNCHANGED <<tid_waiters, panicked, sig_list, wakers>>
      /\ sema'.waiters = sema.waiters
      /\ thread' = [thread EXCEPT ![current].pc = "run"]
  BY <1>1 DEF Down
<1>4. thread' = [thread EXCEPT ![current] = r] /\ r.pc = "run"
  BY <1>1, <1>3 DEF Threads, Struct
<1> HIDE DEF r
<1>5. Still(thread, thread')
  BY <1>1, <1>4, CurrentIsStill
<1> QED BY <1>1, <1>2, <1>3, <1>5, StillIsEnough

LEMMA ExitKeepsWaits == ASSUME WInv, Exit PROVE WNext
<1>1. KInv /\ IInv /\ ~Undefined /\ Calm(sig_list)
  BY WaitersApart DEF WInv, KInv
<1>2. KinNow' /\ UNCHANGED <<tid_waiters, panicked, sema, wakers>>
  BY <1>1, ExitStepKeepsKin DEF Exit
<1>3. /\ current \in Page /\ thread \in Threads /\ ready_list \in Seq(Page)
      /\ sig_list \in Seq(Entry) /\ Runnable(ready_list, thread, {current})
  BY <1>1, Parts DEF IInv
<1>4. IdleLives(thread) /\ current # Idle
  BY <1>1, RunningKin DEF Exit, At, KinNow, Kin, IdleLives
<1>5. ExitFrom(ready_list, sig_list, thread)
  BY DEF Exit
<1>6. Still(thread, thread')
  BY <1>3, <1>4, <1>5, ExitIsStill
<1>7. Calm(sig_list')
  BY <1>1, <1>3, <1>5, QueuedElements DEF ExitFrom, Calm
<1> QED BY <1>2, <1>6, <1>7, StillIsEnough

LEMMA HandleKeepsWaits == ASSUME WInv, HandleSignals PROVE WNext
<1>1. KInv /\ ~Undefined
  BY WaitersApart DEF WInv
<1>2. KinNow' /\ UNCHANGED <<tid_waiters, panicked, sema, wakers>>
  BY <1>1, HandleKeepsKin DEF HandleSignals
<1> QED BY <1>2, HandleIsStill, StillIsEnough

(* thread_unblock finds its thread BLOCKED and on no list.                  *)
LEMMA UnblockKeepsWaits == ASSUME WInv, NEW t \in Page, Unblock(t) PROVE WNext
<1>1. /\ KInv /\ thread \in Threads /\ thread[t] \in Struct /\ ~Undefined
      /\ Calm(sig_list) /\ KinNow /\ ready_list \in Seq(Page)
  BY Parts, WaitersApart, RunningKin DEF WInv, KInv, Threads
<1>2. t \in Dormant(thread) /\ thread[t].status = "BLOCKED" /\ thread[t].pc = "asleep"
  BY DEF Unblock, WInv, Naps, Dormant
<1>3. /\ thread' = [thread EXCEPT ![t] = Woken(thread[t])] /\ wakers' = wakers \ {t}
      /\ UNCHANGED <<tid_waiters, panicked, sig_list, sema>>
  BY <1>2 DEF Unblock
<1>4. /\ Waits(thread', tid_waiters)
      /\ \A p \in Dormant(thread) \ {t} : p \in Dormant(thread') /\ thread'[p] = thread[p]
  BY <1>2, <1>3, WakeKeepsWaits
<1>5. Naps(thread', sema'.waiters, wakers')
  BY <1>2, <1>3, <1>4 DEF WInv, Naps
<1>6. Unfinished(thread', {})
  <2>1. Quiet(thread, thread', {})
    <3>1. t \in Live(thread) /\ thread[t].parent # 0
      BY <1>1, <1>2 DEF Dormant, KinNow, Kin, Unfinished
    <3>2. thread' = [thread EXCEPT ![t] = Woken(thread[t])]
      BY <1>3
    <3> QED BY <1>1, <3>1, <3>2, WakingIsQuiet
  <2>2. Kin(thread', Deadly(sig_list), next_tid, tid_lock, tid_waiters, {})
    BY <1>1, <2>1, QuietKeepsKin DEF KinNow
  <2> QED BY <2>2 DEF Kin
<1> QED BY <1>1, <1>3, <1>4, <1>5, <1>6 DEF WNext, WInv

(* So does sema_up.                                                         *)
LEMMA UpKeepsWaits == ASSUME WInv, Up PROVE WNext
<1> DEFINE t == Head(sema.waiters)
<1>1. /\ KInv /\ thread \in Threads /\ ~Undefined /\ Calm(sig_list) /\ KinNow
      /\ sema.waiters \in Seq(Page)
  BY Parts, WaitersApart, RunningKin DEF WInv, KInv, SleepersTyped
<1>2. KinNow' /\ UNCHANGED <<tid_waiters, panicked, sig_list, wakers>>
  BY <1>1, UpKeepsKin DEF Up
<1>3. CASE sema.waiters = <<>>
  <2>1. UNCHANGED thread /\ sema'.waiters = sema.waiters
    BY <1>3 DEF Up
  <2>2. Still(thread, thread')
    BY <2>1, AlikeIsStill
  <2> QED BY <1>1, <1>2, <2>1, <2>2, StillIsEnough
<1>4. CASE sema.waiters # <<>>
  <2>1. thread' = [thread EXCEPT ![t] = Woken(thread[t])] /\ sema'.waiters = Tail(sema.waiters)
    BY <1>4 DEF Up
  <2>2. /\ t \in Elements(sema.waiters)
        /\ NoDuplicates(Tail(sema.waiters))
        /\ Elements(Tail(sema.waiters)) = Elements(sema.waiters) \ {t}
    BY <1>1, <1>4, PopFront DEF WInv, Naps
  <2> HIDE DEF t
  <2>3. t \in Dormant(thread) /\ thread[t].pc = "down"
    BY <2>2 DEF WInv, Naps
  <2>4. /\ Waits(thread', tid_waiters)
        /\ \A p \in Dormant(thread) \ {t} : p \in Dormant(thread') /\ thread'[p] = thread[p]
    BY <2>1, <2>3, WakeKeepsWaits
  <2>5. Naps(thread', sema'.waiters, wakers')
    BY <1>2, <2>1, <2>2, <2>3, <2>4 DEF WInv, Naps
  <2> QED BY <1>1, <1>2, <2>4, <2>5 DEF WNext, WInv, KinNow, Kin
<1> QED BY <1>3, <1>4

LEMMA BeginCreateKeepsWaits == ASSUME WInv, NEW t \in Page, BeginCreate(t) PROVE WNext
<1> DEFINE r == [thread[current] EXCEPT !.pc = "new", !.newborn = t]
<1>1. /\ KInv /\ thread \in Threads /\ current \in Page /\ thread[current] \in Struct
      /\ thread[current].status = "RUNNING" /\ ~Undefined /\ Calm(sig_list)
  BY Parts, WaitersApart DEF WInv, KInv, Threads
<1>2. KinNow'
  BY <1>1, BeginCreateKeepsKin
<1>3. UNCHANGED <<tid_waiters, panicked, sig_list, sema, wakers>> /\ thread[t].status = "FREE"
  BY DEF BeginCreate
<1>4. \A p \in Page : thread'[p] = IF p = current THEN r
                                   ELSE IF p = t THEN Zeroed ELSE thread[p]
  BY <1>1, <1>3 DEF BeginCreate, Threads
<1>5. r.pc = "new" /\ Zeroed.pc = "unborn"
  BY <1>1, ZeroedTyped DEF Struct
<1> HIDE DEF r
<1>6. Still(thread, thread')
  BY <1>1, <1>3, <1>4, <1>5 DEF Still, Dormant, Live
<1> QED BY <1>1, <1>2, <1>3, <1>6, StillIsEnough

LEMMA CallKeepsWaits ==
  ASSUME WInv,
         \/ \E s \in Ignorable : Signal(s, "SIG_DFL") \/ Signal(s, "SIG_IGN")
         \/ \E how \in {"SIG_BLOCK", "SIG_UNBLOCK", "SIG_SETMASK"} :
              \E set \in SUBSET Maskable : SigProcMask(how, set)
         \/ \E x \in Lifetimes : SetLifetime(x)
  PROVE  WNext
<1>1. /\ KInv /\ IInv /\ thread \in Threads /\ current \in Page /\ thread[current] \in Struct
      /\ ~Undefined /\ Calm(sig_list)
  BY Parts, WaitersApart DEF WInv, KInv, Threads
<1>2. KinNow'
  BY <1>1, CallKeepsKin
<1>3. UNCHANGED <<tid_waiters, panicked, sig_list, sema, wakers>> /\ thread[current].pc = "run"
  BY DEF Signal, SigProcMask, SetLifetime, At
<1>4. \E x : \/ thread' = [thread EXCEPT ![current].sigign = x]
             \/ thread' = [thread EXCEPT ![current].sigmask = x]
             \/ thread' = [thread EXCEPT ![current].maxlifetime = x]
  BY DEF Signal, SigProcMask, SetLifetime
<1>5. PICK x : \/ thread' = [thread EXCEPT ![current] = [thread[current] EXCEPT !.sigign = x]]
               \/ thread' = [thread EXCEPT ![current] = [thread[current] EXCEPT !.sigmask = x]]
               \/ thread' = [thread EXCEPT ![current] =
                               [thread[current] EXCEPT !.maxlifetime = x]]
  BY <1>1, <1>4 DEF Threads
<1>6. /\ [thread[current] EXCEPT !.sigign = x].pc = "run"
      /\ [thread[current] EXCEPT !.sigmask = x].pc = "run"
      /\ [thread[current] EXCEPT !.maxlifetime = x].pc = "run"
  BY <1>1, <1>3 DEF Struct
<1>7. PICK r : thread' = [thread EXCEPT ![current] = r] /\ r.pc = "run"
  BY <1>5, <1>6
<1>8. Still(thread, thread')
  BY <1>1, <1>7, CurrentIsStill
<1> QED BY <1>1, <1>2, <1>3, <1>8, StillIsEnough

LEMMA KillKeepsWaits ==
  ASSUME WInv, "SIG_UBLOCK" \notin Sent, NEW tid \in 0..MaxTid, NEW s \in Sent, Kill(tid, s)
  PROVE  WNext
<1>1. /\ KInv /\ IInv /\ thread \in Threads /\ current \in Page /\ thread[current] \in Struct
      /\ ~Undefined /\ Calm(sig_list) /\ sig_list \in Seq(Entry)
  BY Parts, WaitersApart DEF WInv, KInv, Threads
<1>2. KinNow'
  BY <1>1, KillKeepsKin
<1>3. UNCHANGED <<tid_waiters, panicked, sema, wakers>> /\ thread[current].pc = "run"
  BY DEF Kill, At
<1>4. CASE \E dt : sig_list' = Queued(sig_list, thread, s, thread[current].tid, dt)
                   /\ UNCHANGED thread
  <2>1. PICK dt : sig_list' = Queued(sig_list, thread, s, thread[current].tid, dt)
                  /\ UNCHANGED thread
    BY <1>4
  <2>2. Calm(sig_list')
    BY <1>1, <2>1, QueuedElements DEF Calm
  <2>3. Still(thread, thread')
    BY <2>1, AlikeIsStill
  <2> QED BY <1>2, <1>3, <2>2, <2>3, StillIsEnough
<1>5. CASE thread' = [thread EXCEPT ![current].intr_off = TRUE] /\ UNCHANGED sig_list
  <2> DEFINE r == [thread[current] EXCEPT !.intr_off = TRUE]
  <2>1. thread' = [thread EXCEPT ![current] = r] /\ r.pc = "run"
    BY <1>1, <1>3, <1>5 DEF Threads, Struct
  <2> HIDE DEF r
  <2>2. Still(thread, thread')
    BY <1>1, <2>1, CurrentIsStill
  <2> QED BY <1>1, <1>2, <1>3, <1>5, <2>2, StillIsEnough
<1> QED BY <1>4, <1>5 DEF Kill

----------------------------------------------------------------------------
(* The steps of thread_create.                                              *)

(* Who waits for the lock waits once, and sleeps.                           *)
LEMMA AcquireKeepsWaits == ASSUME WInv, AcquireTidLock PROVE WNext
<1>1. /\ KInv /\ IInv /\ thread \in Threads /\ current \in Page /\ thread[current] \in Struct
      /\ ~Undefined /\ Calm(sig_list) /\ tid_waiters \in Seq(Page)
  BY Parts, WaitersApart DEF WInv, KInv, Threads
<1>2. KinNow' /\ current \notin Elements(tid_waiters)
  BY <1>1, AcquireKeepsKin, RunningKin
<1>3. UNCHANGED <<panicked, sig_list, sema, wakers>> /\ thread[current].pc = "new"
  BY DEF AcquireTidLock, At
<1>4. CASE /\ thread' = [thread EXCEPT ![current].pc = "locked"]
           /\ UNCHANGED tid_waiters
  <2> DEFINE r == [thread[current] EXCEPT !.pc = "locked"]
  <2>1. thread' = [thread EXCEPT ![current] = r] /\ r.pc = "locked"
    BY <1>1, <1>4 DEF Threads, Struct
  <2> HIDE DEF r
  <2>2. Still(thread, thread')
    BY <1>1, <2>1, CurrentIsStill
  <2> QED BY <1>1, <1>2, <1>3, <1>4, <2>2, StillIsEnough
<1>5. CASE tid_waiters' = Append(tid_waiters, current) /\ BlockAt("new")
  <2>1. current # Idle
    BY <1>1, <1>3, RunningKin DEF KinNow, Kin, IdleLives
  <2>2. Still(thread, thread') /\ current \in Dormant(thread')
    BY <1>1, <1>5, <2>1, BlockIsStill
  <2>3. Waits(thread', tid_waiters) /\ Naps(thread', sema.waiters, wakers)
    BY <2>2, StillKeepsWaits, StillKeepsNaps DEF WInv
  <2>4. NoDuplicates(tid_waiters') /\ Elements(tid_waiters') = Elements(tid_waiters) \cup {current}
    BY <1>1, <1>2, <1>5, PushBack DEF WInv, Waits
  <2>5. Waits(thread', tid_waiters')
    BY <2>2, <2>3, <2>4 DEF Waits
  <2> QED BY <1>1, <1>2, <1>3, <2>3, <2>5 DEF WNext, WInv, KinNow, Kin
<1> QED BY <1>4, <1>5 DEF AcquireTidLock

(* lock_release wakes the first waiter, who is in lock_acquire: nobody's    *)
(* child that is not unblocked yet.                                         *)
LEMMA TakeTidKeepsWaits == ASSUME WInv, TakeTid PROVE WNext
<1> DEFINE n == thread[current].newborn
           r == [thread[current] EXCEPT !.pc = "numbered"]
           s == [thread[n] EXCEPT !.tid = next_tid]
           named == [thread EXCEPT ![current].pc = "numbered", ![n].tid = next_tid]
           h == Head(tid_waiters)
<1>1. /\ KInv /\ ~Undefined /\ Calm(sig_list) /\ ~panicked /\ tid_waiters \in Seq(Page)
      /\ thread[current].status = "RUNNING" /\ thread[current].pc = "locked"
      /\ next_tid \in Nat
  BY Parts, WaitersApart DEF WInv, KInv, TakeTid, At
<1>2. /\ current \in Page /\ thread \in Threads /\ n \in Page \ {current, Idle}
      /\ thread[current] \in Struct /\ thread[n] \in Struct
  BY <1>1, ChildOf
<1>3. KinNow' /\ UNCHANGED <<panicked, sig_list, sema, wakers>> /\ KinNow
  BY <1>1, TakeTidKeepsKin, RunningKin DEF TakeTid
<1>4. /\ r.status = thread[current].status /\ r.newborn = n
      /\ r.parent = thread[current].parent /\ r.pc = "numbered"
      /\ s.status = thread[n].status /\ s.newborn = thread[n].newborn
      /\ s.parent = thread[n].parent /\ s.pc = thread[n].pc
  BY <1>2 DEF Struct
<1>5. /\ named \in Threads
      /\ \A p \in Page : /\ named[p].status = thread[p].status
                         /\ named[p].newborn = thread[p].newborn
                         /\ named[p].parent = thread[p].parent
                         /\ named[p].pc = IF p = current THEN "numbered" ELSE thread[p].pc
  <2>1. r \in Struct /\ s \in Struct
    BY <1>1, <1>2 DEF Struct, Location
  <2>2. named = [p \in Page |-> IF p = current THEN r
                                ELSE IF p = n THEN s ELSE thread[p]]
    BY <1>2 DEF Threads
  <2>3. thread[current].newborn = n
    OBVIOUS
  <2> HIDE DEF r, s, named, n
  <2> QED BY <1>2, <1>4, <2>1, <2>2, <2>3 DEF Threads
<1>6. IF tid_waiters = <<>>
      THEN thread' = named /\ tid_waiters' = tid_waiters
      ELSE thread' = [named EXCEPT ![h] = Woken(named[h])] /\ tid_waiters' = Tail(tid_waiters)
  <2>1. tid_waiters # <<>> => h \in Page
    BY <1>1, PopFront
  <2> QED BY <1>5, <2>1 DEF TakeTid, Threads
<1> HIDE DEF n, r, s, named
<1>7. CASE tid_waiters = <<>>
  <2>1. Still(thread, thread')
    BY <1>1, <1>5, <1>6, <1>7 DEF Still, Dormant, Live
  <2> QED BY <1>1, <1>3, <1>6, <1>7, <2>1, StillIsEnough
<1>8. CASE tid_waiters # <<>>
  <2>1. /\ h \in Elements(tid_waiters)
        /\ NoDuplicates(Tail(tid_waiters)) 
        /\ Elements(Tail(tid_waiters)) = Elements(tid_waiters) \ {h}
    BY <1>1, <1>8, PopFront DEF WInv, Waits
  <2>2. h \in Dormant(thread) /\ thread[h].pc = "new" /\ h \in Page /\ h # current
    BY <1>1, <1>3, <2>1, WaitersApart DEF WInv, Waits, Dormant, Live, KinNow, Kin, Locking
  <2>3. named[h] \in Struct /\ named[h].pc = "new"
    BY <1>5, <2>2 DEF Threads
  <2> HIDE DEF h
  <2>4. /\ thread' = [named EXCEPT ![h] = Woken(named[h])]
        /\ tid_waiters' = Tail(tid_waiters)
    BY <1>6, <1>8
  <2>5. \A p \in Page :
          /\ thread'[p].status = IF p = h THEN "READY" ELSE thread[p].status
          /\ thread'[p].newborn = thread[p].newborn
          /\ thread'[p].parent = thread[p].parent
          /\ thread'[p].pc = IF p = current THEN "numbered" ELSE thread[p].pc
    <3>1. \A p \in Page : thread'[p] = IF p = h THEN Woken(named[h]) ELSE named[p]
      BY <1>5, <2>2, <2>4 DEF Threads
    <3> QED BY <1>5, <2>2, <2>3, <3>1, WokenStruct
  <2>6. Live(thread') = Live(thread)
    BY <2>2, <2>5 DEF Live, Dormant
  <2>7. \A p \in Dormant(thread) \ {h} :
          p \in Dormant(thread') /\ thread'[p].pc = thread[p].pc
          /\ thread'[p].parent = thread[p].parent
    BY <1>1, <2>5, <2>6 DEF Dormant, Live
  <2>8. \A p \in Live(thread') : thread'[p].pc = "made" =>
          /\ p \in Live(thread) /\ thread[p].pc = "made"
          /\ thread'[p].newborn = thread[p].newborn
    BY <2>5, <2>6 DEF Live
  <2>9. ASSUME NEW p \in Live(thread'), thread'[p].pc = "made"
        PROVE  LET m == thread'[p].newborn
               IN  m \in Dormant(thread') /\ thread'[m].pc = "unborn" /\ thread'[m].parent # 0
    <3> DEFINE m == thread[p].newborn
    <3>1. m \in Dormant(thread) /\ thread[m].pc = "unborn" /\ thread[m].parent # 0
      BY <2>8, <2>9 DEF WInv, Waits
    <3>2. m # h /\ thread'[p].newborn = m
      BY <2>2, <2>8, <2>9, <3>1
    <3> HIDE DEF m
    <3> QED BY <2>7, <3>1, <3>2
  <2>10. Waits(thread', tid_waiters')
    <3>1. NoDuplicates(tid_waiters') /\ Elements(tid_waiters') \subseteq Dormant(thread')
      BY <2>1, <2>4, <2>7 DEF WInv, Waits
    <3>2. \A p, q \in Live(thread') :
            thread'[p].pc = "made" /\ thread'[q].pc = "made"
              /\ thread'[p].newborn = thread'[q].newborn => p = q
      BY <2>8 DEF WInv, Waits
    <3> QED BY <2>9, <3>1, <3>2 DEF Waits
  <2>11. Naps(thread', sema.waiters, wakers)
    BY <2>2, <2>7 DEF WInv, Naps
  <2> QED BY <1>1, <1>3, <2>10, <2>11 DEF WNext, KinNow, Kin
<1> QED BY <1>7, <1>8

(* The child that is complete now was nobody's before.                      *)
LEMMA FillInKeepsWaits == ASSUME WInv, FillIn PROVE WNext
<1> DEFINE n == thread[current].newborn
           me == thread[current].tid
           r == [thread[current] EXCEPT !.pc = "made", !.child = @ + 1]
           s == [thread[n] EXCEPT !.parent = me, !.sigign = SigType,
                                  !.sigmask = {}, !.age = 0, !.maxlifetime = 0,
                                  !.child = 0, !.dchild = 0]
<1>1. /\ KInv /\ ~Undefined /\ Calm(sig_list) /\ ~panicked
      /\ thread[current].status = "RUNNING" /\ thread[current].pc = "numbered"
  BY Parts, WaitersApart DEF WInv, KInv, FillIn, At
<1>2. /\ current \in Page /\ thread \in Threads /\ n \in Page \ {current, Idle}
      /\ thread[current] \in Struct /\ thread[n] \in Struct
      /\ n \in Live(thread) /\ thread[n].parent = 0
      /\ thread[n].status = "BLOCKED" /\ thread[n].pc = "unborn" /\ 0 < me
  BY <1>1, ChildOf, RunningKin
<1>3. KinNow' /\ UNCHANGED <<panicked, sig_list, tid_waiters, sema, wakers>>
  BY <1>1, FillInKeepsKin DEF FillIn
<1>4. /\ r.status = thread[current].status /\ r.newborn = n
      /\ r.parent = thread[current].parent /\ r.pc = "made"
      /\ s.status = thread[n].status /\ s.newborn = thread[n].newborn
      /\ s.parent = me /\ s.pc = thread[n].pc
  BY <1>2 DEF Struct
<1>5. \A p \in Page : thread'[p] = IF p = n THEN s
                                   ELSE IF p = current THEN r ELSE thread[p]
  BY <1>2 DEF FillIn, Threads
<1>6. thread[current].newborn = n
  OBVIOUS
<1> HIDE DEF n, me, r, s
<1>7. \A p \in Page : /\ thread'[p].status = thread[p].status
                      /\ thread'[p].newborn = thread[p].newborn
                      /\ thread'[p].parent = IF p = n THEN me ELSE thread[p].parent
                      /\ thread'[p].pc = IF p = current THEN "made" ELSE thread[p].pc
  BY <1>2, <1>4, <1>5, <1>6
<1>8. Live(thread') = Live(thread)
  BY <1>7 DEF Live
<1>9. \A p \in Dormant(thread) :
        /\ p \in Dormant(thread') /\ thread'[p].pc = thread[p].pc
        /\ thread[p].parent # 0 => thread'[p].parent # 0
  BY <1>1, <1>2, <1>7, <1>8 DEF Dormant, Live
<1>10. n \in Dormant(thread') /\ thread'[n].pc = "unborn" /\ thread'[n].parent # 0
  BY <1>2, <1>7, <1>8 DEF Dormant
<1>11. \A p \in Live(thread') : thread'[p].pc = "made" =>
         \/ p = current /\ thread'[p].newborn = n
         \/ /\ p \in Live(thread) /\ thread[p].pc = "made" /\ p # current
            /\ thread'[p].newborn = thread[p].newborn
            /\ thread[p].newborn \in Dormant(thread)
            /\ thread[thread[p].newborn].pc = "unborn"
            /\ thread[thread[p].newborn].parent # 0
  BY <1>1, <1>6, <1>7, <1>8 DEF Live, WInv, Waits
<1>12. \A p \in Live(thread') : thread'[p].pc = "made" =>
         LET m == thread'[p].newborn
         IN  m \in Dormant(thread') /\ thread'[m].pc = "unborn" /\ thread'[m].parent # 0
  BY <1>9, <1>10, <1>11
<1>13. \A p, q \in Live(thread') :
         thread'[p].pc = "made" /\ thread'[q].pc = "made"
           /\ thread'[p].newborn = thread'[q].newborn => p = q
  BY <1>2, <1>11 DEF WInv, Waits
<1>14. Waits(thread', tid_waiters')
  BY <1>3, <1>9, <1>12, <1>13 DEF WInv, Waits
<1>15. Naps(thread', sema'.waiters, wakers')
  BY <1>3, <1>9 DEF WInv, Naps
<1> QED BY <1>1, <1>3, <1>14, <1>15 DEF WNext, KinNow, Kin

(* thread_unblock finds its thread BLOCKED, and wakes no other.             *)
LEMMA EndCreateKeepsWaits == ASSUME WInv, EndCreate PROVE WNext
<1> DEFINE t == thread[current].newborn
           r == [thread[current] EXCEPT !.pc = "run", !.newborn = NoPage]
           w == Woken(thread[t])
<1>1. /\ KInv /\ ~Undefined /\ Calm(sig_list) /\ ~panicked
      /\ thread \in Threads /\ current \in Page /\ thread[current] \in Struct
      /\ thread[current].status = "RUNNING" /\ thread[current].pc = "made"
  BY Parts, WaitersApart DEF WInv, KInv, EndCreate, At, Threads
<1>2. KinNow /\ current \in Live(thread) /\ thread[current].parent # 0
  BY <1>1, RunningKin
<1>3. /\ t \in Dormant(thread) /\ thread[t].pc = "unborn" /\ thread[t].parent # 0
      /\ \A p \in Live(thread) \ {current} : thread[p].pc = "made" => thread[p].newborn # t
  BY <1>1, <1>2 DEF WInv, Waits
<1>4. /\ t \in Live(thread) /\ t \in Page /\ thread[t] \in Struct /\ t # current
      /\ thread[t].status = "BLOCKED"
  BY <1>1, <1>3 DEF Dormant, Live, Threads
<1>5. /\ r.status = thread[current].status /\ r.parent = thread[current].parent
      /\ r.pc = "run"
  BY <1>1 DEF Struct
<1>6. w.status = "READY" /\ w.pc = "run" /\ w.parent = thread[t].parent
  BY <1>3, <1>4, WokenStruct
<1>7. /\ \A p \in Page : thread'[p] = IF p = current THEN r
                                      ELSE IF p = t THEN w ELSE thread[p]
      /\ UNCHANGED <<sig_list, tid_waiters, panicked, sema, wakers>>
  BY <1>1, <1>4 DEF EndCreate, Threads
<1> HIDE DEF t, r, w
<1>8. Live(thread') = Live(thread)
  BY <1>1, <1>2, <1>4, <1>5, <1>6, <1>7 DEF Live
<1>9. Unfinished(thread', {})
  <2>1. \A p \in Live(thread) : thread'[p].parent = 0 => thread'[p] = thread[p]
    BY <1>2, <1>3, <1>5, <1>6, <1>7 DEF Live
  <2> QED BY <1>8, <2>1 DEF WInv, Unfinished
<1>10. \A p \in Dormant(thread) \ {t} : p \in Dormant(thread') /\ thread'[p] = thread[p]
  BY <1>1, <1>7, <1>8 DEF Dormant, Live
<1>11. Elements(tid_waiters) \subseteq Dormant(thread')
  BY <1>2, <1>3, <1>10 DEF WInv, Waits, KinNow, Kin, Locking
<1>12. \A p \in Live(thread') : thread'[p].pc = "made" =>
         p \in Live(thread) \ {current} /\ thread'[p] = thread[p]
  BY <1>5, <1>6, <1>7, <1>8 DEF Live
<1>13. ASSUME NEW p \in Live(thread'), thread'[p].pc = "made"
       PROVE  LET m == thread'[p].newborn
              IN  m \in Dormant(thread') /\ thread'[m].pc = "unborn" /\ thread'[m].parent # 0
  <2> DEFINE m == thread[p].newborn
  <2>1. p \in Live(thread) \ {current} /\ thread[p].pc = "made" /\ thread'[p].newborn = m
    BY <1>12, <1>13
  <2>2. m \in Dormant(thread) \ {t} /\ thread[m].pc = "unborn" /\ thread[m].parent # 0
    BY <1>3, <2>1 DEF WInv, Waits
  <2> HIDE DEF m
  <2> QED BY <1>10, <2>1, <2>2
<1>14. Waits(thread', tid_waiters')
  BY <1>7, <1>11, <1>12, <1>13 DEF WInv, Waits
<1>15. Naps(thread', sema'.waiters, wakers')
  BY <1>3, <1>7, <1>10 DEF WInv, Naps
<1> QED BY <1>1, <1>7, <1>9, <1>14, <1>15 DEF WNext

----------------------------------------------------------------------------
LEMMA InitWInv == Init => WInv
<1> SUFFICES ASSUME Init PROVE WInv
  OBVIOUS
<1>1. KInv
  BY InitKInv
<1>2. Elements(ready_list) = {} /\ Elements(sig_list) = {} /\ Elements(tid_waiters) = {}
      /\ NoDuplicates(tid_waiters)
  BY EmptyList DEF Init
<1>3. Unfinished(thread, {}) /\ Calm(sig_list)
  BY <1>1, <1>2 DEF KInv, Kin, Calm
<1>4. \A p \in Live(thread) : thread[p].pc # "made"
  <2>1. \A p \in Page : thread[p].pc \in {"run", "idle", "unborn"}
    BY ZeroedTyped DEF Init, Zeroed, Freed
  <2> QED BY <2>1 DEF Live
<1>5. Waits(thread, tid_waiters)
  BY <1>2, <1>4 DEF Waits
<1>6. Naps(thread, sema.waiters, wakers)
  BY EmptyList DEF Init, Naps
<1> QED BY <1>1, <1>3, <1>5, <1>6 DEF WInv, Init

LEMMA StepKeepsWInv == "SIG_UBLOCK" \notin Sent => (WInv /\ [Next]_vars => WInv')
<1> SUFFICES ASSUME "SIG_UBLOCK" \notin Sent, WInv, [Next]_vars PROVE WInv'
  OBVIOUS
<1>1. KInv'
  BY StepKeepsKInv DEF WInv
<1>2. CASE UNCHANGED vars
  <2>1. UNCHANGED <<thread, sig_list, tid_waiters, panicked, sema, wakers>>
    BY <1>2 DEF vars
  <2> QED BY <1>1, <2>1 DEF WInv, Unfinished, Calm, Waits, Naps, Dormant, Live, Elements,
                           NoDuplicates
<1>3. CASE Step
  <2>1. WNext
    BY <1>3, SwitchKeepsWaits, BlockKeepsWaits, DownKeepsWaits, UpKeepsWaits, HandleKeepsWaits, ExitKeepsWaits, BeginCreateKeepsWaits,
       UnblockKeepsWaits, AcquireKeepsWaits, TakeTidKeepsWaits, FillInKeepsWaits,
       EndCreateKeepsWaits, CallKeepsWaits, KillKeepsWaits DEF Step
  <2> QED BY <1>1, <2>1 DEF WNext, WInv, Unfinished, Calm, Waits, Naps, Dormant, Live, Elements,
                           NoDuplicates
<1> QED BY <1>2, <1>3 DEF Next

LEMMA WaitsInvariance == "SIG_UBLOCK" \notin Sent => (Spec => []WInv)
<1> SUFFICES ASSUME "SIG_UBLOCK" \notin Sent PROVE Spec => []WInv
  OBVIOUS
<1>1. WInv /\ [Next]_vars => WInv'
  BY StepKeepsWInv
<1> QED BY <1>1, InitWInv, PTL DEF Spec

(* As long as nobody sends SIG_UBLOCK, who waits for tid_lock or in a       *)
(* semaphore sleeps, waits once and is on no ready list, and                *)
(* thread_unblock's assertion holds, whoever is killed between the lock and *)
(* the list.                                                                *)
THEOREM WaitersSleep == Spec => []LockWaiters
<1>1. CASE "SIG_UBLOCK" \notin Sent
  <2>1. WInv => LockWaiters
    <3> SUFFICES ASSUME WInv PROVE LockWaiters
      OBVIOUS
    <3>1. \A p \in Dormant(thread) : p \notin Elements(ready_list) /\ thread[p].status = "BLOCKED"
      BY WaitersApart DEF Dormant
    <3>2. \A p \in Elements(tid_waiters) : thread[p].pc = "new"
      BY DEF WInv, KInv, Kin, Locking
    <3>3. /\ Elements(sema.waiters) \subseteq Dormant(thread)
          /\ \A p \in Elements(sema.waiters) : thread[p].pc = "down"
      BY DEF WInv, Naps
    <3> QED BY <3>1, <3>2, <3>3 DEF LockWaiters, WInv, Waits, Naps, Waiting
  <2> QED BY <1>1, <2>1, WaitsInvariance, PTL
<1>2. CASE "SIG_UBLOCK" \in Sent
  <2>1. LockWaiters
    BY <1>2 DEF LockWaiters
  <2> QED BY <2>1, PTL
<1> QED BY <1>1, <1>2

(* Without SIG_UBLOCKs no step is left undefined: elem is only ever on one  *)
(* list and no thread runs that thread_create has not completed.            *)
THEOREM AlwaysDefined == "SIG_UBLOCK" \notin Sent => (Spec => [](~Undefined /\ FamilyTree))
<1> SUFFICES ASSUME "SIG_UBLOCK" \notin Sent PROVE Spec => [](~Undefined /\ FamilyTree)
  OBVIOUS
<1>1. WInv => ~Undefined
  BY WaitersApart
<1> QED BY <1>1, WaitsInvariance, FamiliesHold, PTL

----------------------------------------------------------------------------
(* What a thread knows of its children: those that are alive, those whose   *)
(* SIG_CHLD it has handled and one SIG_CHLD that may be pending are no more *)
(* than it has created.                                                     *)

Children(th, tid) == {p \in Live(th) : th[p].parent = tid}

Reports(sigs) == {e \in Elements(sigs) : e.sig = "SIG_CHLD"}

Pending(sigs, p) == \E e \in Reports(sigs) : e.receiver = p

Known(th, sigs, p) ==
  Cardinality(Children(th, th[p].tid)) + th[p].dchild
    + (IF Pending(sigs, p) THEN 1 ELSE 0)

(* Who has no parent yet has no children either, and is sent no SIG_CHLD.   *)
Settled(th, sigs) ==
  /\ \A p \in Live(th) :
       /\ "SIG_CHLD" \notin th[p].sigmask
       /\ th[p].tid # 0 => Known(th, sigs, p) <= th[p].child
       /\ th[p].parent = 0 =>
            /\ th[p].child = 0 /\ th[p].dchild = 0
            /\ th[p].tid # 0 => Children(th, th[p].tid) = {}
  /\ \A e \in Reports(sigs) : e.receiver \in Live(th) /\ th[e.receiver].parent # 0

(* No SIG_CHLD outlives its receiver: who runs has none pending.            *)
Told == ~delivering => \A e \in Reports(sig_list) : e.receiver # current

AInv == KInv /\ Settled(thread, sig_list) /\ Told

LEMMA FewChildren ==
  ASSUME NEW th, NEW tid
  PROVE  /\ IsFiniteSet(Children(th, tid)) /\ Cardinality(Children(th, tid)) \in Nat
<1>1. Children(th, tid) \subseteq Page
  BY DEF Children, Live
<1> QED BY <1>1, MemoryAssumption, FS_Subset, FS_CardinalityType

(* The same threads, as far as their children are concerned.                *)
Kindred(th, th2) ==
  /\ Live(th2) = Live(th)
  /\ \A p \in Live(th) :
       /\ th2[p].tid = th[p].tid /\ th2[p].parent = th[p].parent
       /\ th2[p].child = th[p].child /\ th2[p].dchild = th[p].dchild
       /\ "SIG_CHLD" \in th2[p].sigmask => "SIG_CHLD" \in th[p].sigmask

LEMMA KindredTwice ==
  ASSUME NEW th, NEW th2, NEW th3, Kindred(th, th2), Kindred(th2, th3)
  PROVE  Kindred(th, th3)
BY DEF Kindred

LEMMA KindredStaysSettled ==
  ASSUME NEW th \in Threads, NEW sigs, Settled(th, sigs), NEW th2, Kindred(th, th2),
         NEW sigs2, Reports(sigs2) \subseteq Reports(sigs)
  PROVE  Settled(th2, sigs2)
<1>1. \A tid : Children(th2, tid) = Children(th, tid)
  BY DEF Kindred, Children
<1>2. ASSUME NEW p \in Live(th), th[p].tid # 0
      PROVE  Known(th2, sigs2, p) <= th2[p].child
  <2> DEFINE few == Cardinality(Children(th, th[p].tid))
  <2>1. few \in Nat /\ th[p].dchild \in Nat /\ th[p].child \in Nat
    BY FewChildren DEF Threads, Struct, Live
  <2>2. few + th[p].dchild + (IF Pending(sigs, p) THEN 1 ELSE 0) <= th[p].child
    BY <1>2 DEF Settled, Known
  <2>3. /\ Cardinality(Children(th2, th2[p].tid)) = few
        /\ th2[p].dchild = th[p].dchild /\ th2[p].child = th[p].child
    BY <1>1 DEF Kindred
  <2>4. Pending(sigs2, p) => Pending(sigs, p)
    BY DEF Pending
  <2> HIDE DEF few
  <2>5. few + th[p].dchild + (IF Pending(sigs2, p) THEN 1 ELSE 0) <= th[p].child
    BY <2>1, <2>2, <2>4
  <2> QED BY <2>3, <2>5 DEF Known
<1>3. \A p \in Live(th2) :
        /\ p \in Live(th) /\ th2[p].tid = th[p].tid /\ th2[p].parent = th[p].parent
        /\ th2[p].child = th[p].child /\ th2[p].dchild = th[p].dchild
        /\ "SIG_CHLD" \in th2[p].sigmask => "SIG_CHLD" \in th[p].sigmask
  BY DEF Kindred
<1>4. \A e \in Reports(sigs2) : e.receiver \in Live(th2) /\ th2[e.receiver].parent # 0
  BY DEF Kindred, Settled
<1>5. \A p \in Live(th2) :
        /\ "SIG_CHLD" \notin th2[p].sigmask
        /\ th2[p].tid # 0 => Known(th2, sigs2, p) <= th2[p].child
        /\ th2[p].parent = 0 =>
             /\ th2[p].child = 0 /\ th2[p].dchild = 0
             /\ th2[p].tid # 0 => Children(th2, th2[p].tid) = {}
  BY <1>1, <1>2, <1>3 DEF Settled
<1> QED BY <1>4, <1>5 DEF Settled

LEMMA SwitchIsKindred ==
  ASSUME current \in Page, NEW ready \in Seq(Page), NEW th \in Threads,
         \A p \in Elements(ready) : th[p].status = "READY",
         IdleLives(th), Schedule(ready, th)
  PROVE  Kindred(th, thread') /\ delivering'
<1>1. delivering'
  BY DEF Schedule
<1> QED BY <1>1, SwitchMembers DEF Kindred

(* Another struct thread for the one that runs.                             *)
LEMMA CurrentIsKindred ==
  ASSUME IInv, NEW r, r.status \notin {"FREE", "DYING"},
         r.tid = thread[current].tid, r.parent = thread[current].parent,
         r.child = thread[current].child, r.dchild = thread[current].dchild,
         "SIG_CHLD" \in r.sigmask => "SIG_CHLD" \in thread[current].sigmask,
         NEW th, th = [thread EXCEPT ![current] = r]
  PROVE  Kindred(thread, th)
<1>1. thread \in Threads /\ current \in Page /\ thread[current].status = "RUNNING"
  BY Parts
<1>2. \A p \in Page : th[p] = IF p = current THEN r ELSE thread[p]
  BY <1>1 DEF Threads
<1>3. Live(th) = Live(thread) /\ \A p \in Live(thread) : p \in Page
  BY <1>1, <1>2 DEF Live
<1> QED BY <1>2, <1>3 DEF Kindred

LEMMA WokenIsAlike ==
  ASSUME NEW r \in Struct
  PROVE  /\ Woken(r).child = r.child /\ Woken(r).dchild = r.dchild
         /\ Woken(r).sigmask = r.sigmask
BY DEF Woken, Struct

----------------------------------------------------------------------------
(* The steps.                                                               *)

LEMMA YieldIsKindred ==
  ASSUME KInv, ~Undefined, NEW th, Alike(th), Quiet(thread, th, {}), Kindred(thread, th),
         YieldFrom(th)
  PROVE  Kindred(thread, thread') /\ delivering'
<1> DEFINE ready == IF current = Idle THEN ready_list ELSE Append(ready_list, current)
           r == [th[current] EXCEPT !.status = "READY"]
           th2 == [th EXCEPT ![current].status = "READY"]
<1>1. /\ current \in Page /\ ready_list \in Seq(Page) /\ th \in Threads
      /\ th[current].status = "RUNNING" /\ th[current] \in Struct
      /\ Elements(ready_list) \subseteq Page /\ Runnable(ready_list, thread, {current})
  BY Parts DEF Alike, KInv, IInv, Threads
<1>2. /\ r \in Struct /\ r.status = "READY" /\ r.tid = th[current].tid
      /\ r.parent = th[current].parent /\ r.child = th[current].child
      /\ r.dchild = th[current].dchild /\ r.sigmask = th[current].sigmask
      /\ r.pc = th[current].pc /\ r.maxlifetime = th[current].maxlifetime
  BY <1>1 DEF Struct, Status
<1>3. Schedule(ready, th2) /\ th2 = [th EXCEPT ![current] = r]
  BY <1>1 DEF YieldFrom, Threads
<1>4. ready \in Seq(Page) /\ Elements(ready) \subseteq Elements(ready_list) \cup {current}
  BY <1>1, PushBack
<1> HIDE DEF ready, r, th2
<1>5. th2 \in Threads /\ \A p \in Page : th2[p] = IF p = current THEN r ELSE th[p]
  <2>1. r \in Struct /\ current \in Page /\ th \in Threads
    BY <1>1, <1>2
  <2> QED BY <1>3, <2>1 DEF Threads
<1>6. \A p \in Elements(ready) : th2[p].status = "READY"
  BY <1>1, <1>2, <1>4, <1>5 DEF Runnable, Alike
<1>7. Kindred(th, th2)
  <2>1. Live(th2) = Live(th) /\ \A p \in Live(th) : p \in Page
    BY <1>1, <1>2, <1>5 DEF Live
  <2> QED BY <1>2, <1>5, <2>1 DEF Kindred
<1>8. IdleLives(th2)
  <2>1. Idle \in Page /\ IdleLives(thread)
    BY PageAssumption DEF KInv, Kin
  <2>2. /\ Idle \in Live(th) /\ th[Idle].pc = "idle" /\ th[Idle].parent = -1
        /\ th[Idle].maxlifetime = 0
    BY <2>1 DEF Quiet, IdleLives, Fixed
  <2>3. Idle \in Live(th2)
    BY <1>7, <2>2 DEF Kindred
  <2> QED BY <1>2, <1>5, <2>1, <2>2, <2>3 DEF IdleLives
<1>9. Kindred(th2, thread') /\ delivering'
  BY <1>1, <1>3, <1>4, <1>5, <1>6, <1>8, SwitchIsKindred
<1> QED BY <1>7, <1>9, KindredTwice

LEMMA TickIsKindred ==
  ASSUME KInv, ~Undefined, Tick
  PROVE  Kindred(thread, thread') /\ (delivering' \/ UNCHANGED <<current,
                                                                 delivering>>)
<1> DEFINE older == [p \in Page |->
             IF p \in Live(thread) /\ thread[p].age < MaxAge
             THEN [thread[p] EXCEPT !.age = @ + 1] ELSE thread[p]]
<1>1. \/ SliceOver /\ YieldFrom(older)
      \/ thread' = older /\ UNCHANGED <<current, delivering>>
  BY DEF Tick
<1>2. ASSUME NEW p \in Page
      PROVE  /\ older[p] \in Struct /\ older[p].status = thread[p].status
             /\ older[p].pc = thread[p].pc /\ older[p].newborn = thread[p].newborn
             /\ older[p].tid = thread[p].tid /\ older[p].parent = thread[p].parent
             /\ older[p].sigign = thread[p].sigign
             /\ older[p].sigmask = thread[p].sigmask
             /\ older[p].child = thread[p].child /\ older[p].dchild = thread[p].dchild
             /\ older[p].maxlifetime = thread[p].maxlifetime
  <2>1. thread[p] \in Struct
    BY Parts DEF KInv, Threads
  <2>2. CASE older[p] = thread[p]
    BY <2>1, <2>2
  <2>3. CASE older[p] = [thread[p] EXCEPT !.age = @ + 1] /\ thread[p].age < MaxAge
    <3>1. thread[p].age + 1 \in 0..MaxAge
      BY <2>1, <2>3, InputAssumption DEF Struct
    <3> HIDE DEF older
    <3> QED BY <2>1, <2>3, <3>1 DEF Struct
  <2> QED BY <2>2, <2>3
<1>3. older \in Threads
  BY <1>2 DEF Threads
<1> HIDE DEF older
<1>4. Live(older) = Live(thread) /\ Idle \in Page /\ \A p \in Live(thread) : p \in Page
  BY <1>2, PageAssumption DEF Live
<1>5. Alike(older) /\ Quiet(thread, older, {}) /\ Kindred(thread, older)
  BY <1>2, <1>3, <1>4 DEF Alike, Quiet, Kindred
<1> QED BY <1>1, <1>5, YieldIsKindred

LEMMA BlockIsKindred ==
  ASSUME KInv, NEW pc \in {"asleep", "down", "idle", "new"}, BlockAt(pc),
         current # Idle \/ pc = "idle"
  PROVE  Kindred(thread, thread') /\ delivering'
<1> DEFINE r == [thread[current] EXCEPT !.status = "BLOCKED", !.pc = pc]
           th == [thread EXCEPT ![current].status = "BLOCKED", ![current].pc = pc]
<1>1. /\ current \in Page /\ ready_list \in Seq(Page) /\ thread \in Threads /\ IInv
      /\ Elements(ready_list) \subseteq Page /\ current \notin Elements(ready_list)
      /\ thread[current] \in Struct
  BY Parts DEF KInv, Threads
<1>2. /\ r \in Struct /\ r.status = "BLOCKED" /\ r.pc = pc
      /\ r.parent = thread[current].parent /\ r.tid = thread[current].tid
      /\ r.maxlifetime = thread[current].maxlifetime
      /\ r.child = thread[current].child /\ r.dchild = thread[current].dchild
      /\ r.sigmask = thread[current].sigmask
  <2>1. "BLOCKED" \in Status /\ pc \in Location
    BY DEF Status, Location
  <2> QED BY <1>1, <2>1 DEF Struct
<1>3. th = [thread EXCEPT ![current] = r]
  BY <1>1 DEF Threads
<1>4. Schedule(ready_list, th)
  BY DEF BlockAt
<1> HIDE DEF r, th
<1>5. th \in Threads /\ \A p \in Page : th[p] = IF p = current THEN r ELSE thread[p]
  <2>1. r \in Struct /\ current \in Page /\ thread \in Threads
    BY <1>1, <1>2
  <2> QED BY <1>3, <2>1 DEF Threads
<1>6. Kindred(thread, th)
  BY <1>1, <1>2, <1>3, CurrentIsKindred
<1>7. \A p \in Elements(ready_list) : th[p].status = "READY"
  BY <1>1, <1>5 DEF IInv, Runnable
<1>8. IdleLives(th)
  <2>1. IdleLives(thread) /\ Idle \in Page
    BY PageAssumption DEF KInv, Kin
  <2> QED BY <1>1, <1>2, <1>5, <2>1 DEF IdleLives, Live
<1>9. Kindred(th, thread') /\ delivering'
  BY <1>1, <1>4, <1>5, <1>7, <1>8, SwitchIsKindred
<1> QED BY <1>6, <1>9, KindredTwice

(* Who exits is no longer among its parent's children, which its SIG_CHLD   *)
(* makes up for; a pending one is not sent twice.                           *)
LEMMA ExitStaysSettled ==
  ASSUME current \in Page, NEW ready \in Seq(Page), NEW sigs \in Seq(Entry),
         NEW th \in Threads, Runnable(ready, th, {current}), current # Idle,
         IdleLives(th), Tids(th, next_tid), th[current].parent # 0,
         Settled(th, sigs), \A e \in Reports(sigs) : e.receiver # current,
         ExitFrom(ready, sigs, th)
  PROVE  Settled(thread', sig_list') /\ delivering'
<1> DEFINE orphaned == Orphaned(th)
           th2 == [orphaned EXCEPT ![current].status = "DYING"]
           me == th[current].tid
<1>1. /\ th[current].status = "RUNNING" /\ current \in Live(th)
      /\ Elements(ready) \subseteq Page /\ \A p \in Live(th) : p \in Page
  BY ElementsAt DEF Runnable, Live
<1>2. \A p \in Live(th) : /\ th[p].tid \in Nat /\ th[p].parent \in Nat \cup {-1}
                          /\ th[p].child \in Nat /\ th[p].dchild \in Nat
  BY <1>1 DEF Threads, Struct
<1>3. 0 < me /\ me \in Nat
  BY <1>1, <1>2 DEF Tids
<1>4. /\ orphaned \in Threads
      /\ \A p \in Page :
           /\ orphaned[p].status = th[p].status /\ orphaned[p].pc = th[p].pc
           /\ orphaned[p].tid = th[p].tid /\ orphaned[p].child = th[p].child
           /\ orphaned[p].dchild = th[p].dchild /\ orphaned[p].sigmask = th[p].sigmask
           /\ orphaned[p].maxlifetime = th[p].maxlifetime
           /\ orphaned[p].parent = IF p \in Live(th) /\ th[p].parent = me
                                   THEN -1 ELSE th[p].parent
  <2>1. \A p \in Page : LET s == [th[p] EXCEPT !.parent = -1]
          IN  /\ s \in Struct /\ s.status = th[p].status /\ s.pc = th[p].pc
              /\ s.tid = th[p].tid /\ s.child = th[p].child
              /\ s.dchild = th[p].dchild /\ s.sigmask = th[p].sigmask
              /\ s.maxlifetime = th[p].maxlifetime /\ s.parent = -1
    BY DEF Threads, Struct
  <2> QED BY <2>1 DEF Orphaned, Threads
<1> HIDE DEF orphaned
<1>5. /\ th2 \in Threads
      /\ \A p \in Page :
           /\ th2[p].status = IF p = current THEN "DYING" ELSE th[p].status
           /\ th2[p].pc = th[p].pc
           /\ th2[p].tid = th[p].tid /\ th2[p].child = th[p].child
           /\ th2[p].dchild = th[p].dchild /\ th2[p].sigmask = th[p].sigmask
           /\ th2[p].maxlifetime = th[p].maxlifetime
           /\ th2[p].parent = IF p \in Live(th) /\ th[p].parent = me
                              THEN -1 ELSE th[p].parent
  <2> DEFINE s == [orphaned[current] EXCEPT !.status = "DYING"]
  <2>1. s \in Struct /\ s.status = "DYING" /\ s.pc = orphaned[current].pc
        /\ s.tid = orphaned[current].tid /\ s.child = orphaned[current].child
        /\ s.dchild = orphaned[current].dchild /\ s.sigmask = orphaned[current].sigmask
        /\ s.parent = orphaned[current].parent
        /\ s.maxlifetime = orphaned[current].maxlifetime
    <3>1. orphaned[current] \in Struct
      BY <1>4 DEF Threads
    <3> QED BY <3>1 DEF Struct, Status
  <2>2. th2 = [p \in Page |-> IF p = current THEN s ELSE orphaned[p]]
    BY <1>4 DEF Threads
  <2> HIDE DEF s, th2
  <2>3. th2 \in Threads
    BY <1>4, <2>1, <2>2 DEF Threads
  <2>4. \A p \in Page : th2[p] = IF p = current THEN s ELSE orphaned[p]
    BY <2>2
  <2> HIDE DEF me
  <2> QED BY <1>4, <2>1, <2>3, <2>4
<1>6. Schedule(ready, th2)
  BY DEF ExitFrom, orphaned
<1> HIDE DEF th2
<1>7. Live(th2) = Live(th) \ {current}
  BY <1>5 DEF Live
<1>8. \A p \in Live(th2) :
        /\ p \in Live(th) /\ p # current
        /\ th2[p].tid = th[p].tid /\ th2[p].child = th[p].child
        /\ th2[p].dchild = th[p].dchild /\ th2[p].sigmask = th[p].sigmask
        /\ th2[p].parent = IF th[p].parent = me THEN -1 ELSE th[p].parent
        /\ (th2[p].parent = 0 <=> th[p].parent = 0)
  BY <1>1, <1>3, <1>5, <1>7
<1>9. \A p \in Live(th2) : th[p].tid # 0 =>
        Children(th2, th[p].tid) = Children(th, th[p].tid) \ {current}
  <2>1. ASSUME NEW p \in Live(th2), th[p].tid # 0
        PROVE  Children(th2, th[p].tid) = Children(th, th[p].tid) \ {current}
    <3>1. th[p].tid # me /\ th[p].tid # -1
      BY <1>1, <1>2, <1>8, <2>1 DEF Tids
    <3> HIDE DEF me
    <3> QED BY <1>7, <1>8, <3>1 DEF Children
  <2> QED BY <2>1
<1>10. /\ \A e \in Reports(sig_list') :
            \/ e \in Reports(sigs)
            \/ e.receiver \in Parents(th)
       /\ \A p \in Parents(th), q \in Parents(th) : p = q
  <2>1. \A p \in Parents(th), q \in Parents(th) : p = q
    BY <1>1 DEF Parents, Tids
  <2>2. CASE Parents(th) = {}
    BY <2>1, <2>2 DEF ExitFrom
  <2>3. CASE Parents(th) # {}
    <3> DEFINE parent == CHOOSE p \in Parents(th) : TRUE
    <3>1. sig_list' = Queued(sigs, th, "SIG_CHLD", -1, parent) /\ parent \in Parents(th)
      BY <2>3 DEF ExitFrom
    <3> HIDE DEF parent
    <3> QED BY <2>1, <3>1, QueuedElements DEF Reports
  <2> QED BY <2>2, <2>3
<1>11. \A p \in Parents(th) :
         /\ p \in Live(th) /\ p # current /\ th[p].tid = th[current].parent
         /\ th[p].tid # 0 /\ current \in Children(th, th[p].tid) /\ th[p].parent # 0
  <2>1. \A p \in Parents(th) : p \in Live(th) /\ th[p].tid = th[current].parent
    BY DEF Parents
  <2>2. th[current].parent < th[current].tid
    BY <1>1 DEF Tids
  <2>3. \A p \in Parents(th) : p # current /\ current \in Children(th, th[p].tid)
    BY <1>1, <1>2, <2>1, <2>2 DEF Children
  <2> QED BY <2>1, <2>3 DEF Settled
<1> HIDE DEF me
<1>12. Settled(th2, sig_list')
  <2>1. ASSUME NEW p \in Live(th2), th[p].tid # 0
        PROVE  Known(th2, sig_list', p) <= th[p].child
    <3> DEFINE old == Cardinality(Children(th, th[p].tid))
               new == Cardinality(Children(th2, th[p].tid))
    <3>1. old \in Nat /\ new \in Nat /\ th[p].dchild \in Nat /\ th[p].child \in Nat
      BY <1>2, <1>8, FewChildren
    <3>2. new = IF current \in Children(th, th[p].tid) THEN old - 1 ELSE old
      BY <1>9, <2>1, FewChildren, FS_RemoveElement
    <3>3. old + th[p].dchild + (IF Pending(sigs, p) THEN 1 ELSE 0) <= th[p].child
      BY <1>8, <2>1 DEF Settled, Known
    <3>4. Pending(sig_list', p) => Pending(sigs, p) \/ current \in Children(th, th[p].tid)
      BY <1>10, <1>11 DEF Pending
    <3>5. /\ Cardinality(Children(th2, th2[p].tid)) = new /\ th2[p].dchild = th[p].dchild
      BY <1>8
    <3> HIDE DEF old, new
    <3>6. new + th[p].dchild + (IF Pending(sig_list', p) THEN 1 ELSE 0) <= th[p].child
      BY <3>1, <3>2, <3>3, <3>4
    <3> QED BY <3>5, <3>6 DEF Known
  <2>2. ASSUME NEW p \in Live(th2)
        PROVE  /\ "SIG_CHLD" \notin th2[p].sigmask
               /\ th2[p].tid # 0 => Known(th2, sig_list', p) <= th2[p].child
               /\ th2[p].parent = 0 =>
                    /\ th2[p].child = 0 /\ th2[p].dchild = 0
                    /\ th2[p].tid # 0 => Children(th2, th2[p].tid) = {}
    <3>1. th2[p].tid # 0 => Known(th2, sig_list', p) <= th2[p].child
      BY <1>8, <2>1
    <3>2. th2[p].parent = 0 /\ th2[p].tid # 0 => Children(th2, th2[p].tid) = {}
      BY <1>8, <1>9 DEF Settled
    <3> QED BY <1>8, <3>1, <3>2 DEF Settled
  <2>3. \A e \in Reports(sig_list') : e.receiver \in Live(th2) /\ th2[e.receiver].parent # 0
    <3>1. \A e \in Reports(sig_list') :
            e.receiver \in Live(th) \ {current} /\ th[e.receiver].parent # 0
      BY <1>10, <1>11 DEF Settled
    <3> QED BY <1>7, <1>8, <3>1
  <2> QED BY <2>2, <2>3 DEF Settled
<1>13. \A p \in Elements(ready) : th2[p].status = "READY"
  BY <1>1, <1>5 DEF Runnable
<1>14. IdleLives(th2)
  BY <1>3, <1>5, <1>7, PageAssumption DEF IdleLives
<1>15. Kindred(th2, thread') /\ delivering'
  BY <1>5, <1>6, <1>13, <1>14, SwitchIsKindred
<1> QED BY <1>5, <1>12, <1>15, KindredStaysSettled

(* The SIG_CHLD that is handled was pending.                                *)
LEMMA HandledStaysSettled ==
  ASSUME AInv, ~Undefined, NEW gone \in SUBSET Dangling
  PROVE  LET sigs == Filter(sig_list, Kept(gone))
         IN  /\ Settled(HandledThreads, sigs)
             /\ \A e \in Reports(sigs) : e.receiver # current
<1> DEFINE th == HandledThreads
           sigs == Filter(sig_list, Kept(gone))
<1>1. /\ thread \in Threads /\ th \in Threads /\ current \in Page
      /\ thread[current].status = "RUNNING" /\ Settled(thread, sig_list)
      /\ current \in Live(thread)
  BY Parts, HandledFacts DEF AInv, KInv, Live
<1>2. sigs \in Seq(Entry) /\ Elements(sigs) = Elements(sig_list) \cap Kept(gone)
  BY Parts, FilterKeyed DEF AInv, KInv, IInv
<1> HIDE DEF sigs
<1>3. Live(th) = Live(thread)
        /\ \A p \in Live(thread) : th[p].tid = thread[p].tid /\ th[p].parent = thread[p].parent
  BY HandledIsQuiet DEF Quiet, AInv
<1>4. ReceiverPages \subseteq {p \in Page : thread[p].status = "BLOCKED"}
  BY ReceiversOnce DEF AInv, KInv
<1>5. ASSUME NEW p \in Live(thread)
      PROVE  /\ th[p].child = thread[p].child /\ th[p].sigmask = thread[p].sigmask
             /\ th[p].dchild = IF p = current /\ "SIG_CHLD" \in Handled
                               THEN thread[p].dchild + 1 ELSE thread[p].dchild
  <2>1. p \in Page /\ thread[p] \in Struct
    BY <1>1 DEF Live, Threads
  <2>2. CASE p \in ReceiverPages
    <3>1. th[p] = Woken(thread[p]) /\ p # current
      BY <1>1, <1>4, <2>1, <2>2 DEF HandledThreads
    <3> HIDE DEF th
    <3> QED BY <2>1, <3>1, WokenIsAlike
  <2>3. CASE p \notin ReceiverPages /\ p = current /\ "SIG_CHLD" \in Handled
    <3>1. th[p] = [thread[p] EXCEPT !.dchild = @ + 1]
      BY <2>1, <2>3 DEF HandledThreads
    <3> HIDE DEF th
    <3> QED BY <2>1, <2>3, <3>1 DEF Struct
  <2>4. CASE p \notin ReceiverPages /\ ~(p = current /\ "SIG_CHLD" \in Handled)
    <3>1. th[p] = thread[p]
      BY <2>1, <2>4 DEF HandledThreads
    <3> QED BY <2>4, <3>1
  <2> QED BY <2>2, <2>3, <2>4
<1> HIDE DEF th
<1>6. \A e \in Reports(sigs) : e \in Reports(sig_list) /\ e.receiver # current
  <2>1. \A e \in Reports(sig_list) : e.receiver = current => Taken(e)
    BY <1>1 DEF Reports, Taken, Settled
  <2> QED BY <1>2, <2>1 DEF Reports, Kept
<1>7. "SIG_CHLD" \in Handled => Pending(sig_list, current)
  <2> SUFFICES ASSUME "SIG_CHLD" \in Handled PROVE Pending(sig_list, current)
    OBVIOUS
  <2>1. PICK e \in Elements(sig_list) : e.sig = "SIG_CHLD" /\ Taken(e)
    BY DEF Handled, Delivered
  <2> QED BY <2>1 DEF Pending, Reports, Taken
<1>8. \A tid : Children(th, tid) = Children(thread, tid)
  BY <1>3 DEF Children
<1>9. ASSUME NEW p \in Live(thread), thread[p].tid # 0
      PROVE  Known(th, sigs, p) <= thread[p].child
  <2> DEFINE few == Cardinality(Children(thread, thread[p].tid))
  <2>1. few \in Nat /\ thread[p].dchild \in Nat /\ thread[p].child \in Nat
    BY <1>1, FewChildren DEF Threads, Struct, Live
  <2>2. few + thread[p].dchild + (IF Pending(sig_list, p) THEN 1 ELSE 0) <= thread[p].child
    BY <1>1, <1>9 DEF Settled, Known
  <2>3. Cardinality(Children(th, th[p].tid)) = few
    BY <1>3, <1>8
  <2>4. Pending(sigs, p) => Pending(sig_list, p) /\ p # current
    BY <1>6 DEF Pending
  <2> HIDE DEF few
  <2>5. few + th[p].dchild + (IF Pending(sigs, p) THEN 1 ELSE 0) <= thread[p].child
    BY <1>5, <1>7, <2>1, <2>2, <2>4
  <2> QED BY <2>3, <2>5 DEF Known
<1>10. \A p \in Live(thread) : thread[p].parent = 0 => p # current
  BY RunningKin DEF AInv
<1>11. \A p \in Live(th) :
         /\ "SIG_CHLD" \notin th[p].sigmask
         /\ th[p].tid # 0 => Known(th, sigs, p) <= th[p].child
         /\ th[p].parent = 0 =>
              /\ th[p].child = 0 /\ th[p].dchild = 0
              /\ th[p].tid # 0 => Children(th, th[p].tid) = {}
  BY <1>1, <1>3, <1>5, <1>8, <1>9, <1>10 DEF Settled
<1>12. \A e \in Reports(sigs) : e.receiver \in Live(th) /\ th[e.receiver].parent # 0
  BY <1>1, <1>3, <1>6 DEF Settled
<1>13. Settled(th, sigs)
  BY <1>11, <1>12 DEF Settled
<1> QED BY <1>6, <1>13 DEF th, sigs

(* What a step leaves of the invariant, besides KInv.                       *)
ANext == Settled(thread', sig_list') /\ Told'

LEMMA HandleStaysSettled == ASSUME AInv, ~Undefined, HandleSignals PROVE ANext
<1>1. PICK gone \in SUBSET Dangling :
        IF Handled \cap {"SIG_CPU", "SIG_KILL"} # {}
        THEN ExitFrom(ready_list \o Receivers, Filter(sig_list, Kept(gone)), HandledThreads)
        ELSE /\ thread' = HandledThreads
             /\ sig_list' = Filter(sig_list, Kept(gone))
             /\ UNCHANGED current
  BY DEF HandleSignals, Receivers, HandledThreads, ReceiverPages
<1> DEFINE sigs == Filter(sig_list, Kept(gone))
<1>2. Settled(HandledThreads, sigs) /\ \A e \in Reports(sigs) : e.receiver # current
  BY HandledStaysSettled
<1>3. sigs \in Seq(Entry) /\ KInv /\ IInv
  BY Parts, FilterKeyed DEF AInv, KInv, IInv
<1> HIDE DEF sigs
<1>4. CASE /\ Handled \cap {"SIG_CPU", "SIG_KILL"} # {}
           /\ ExitFrom(ready_list \o Receivers, sigs, HandledThreads)
  <2>1. /\ current \in Page /\ HandledThreads \in Threads
        /\ ready_list \o Receivers \in Seq(Page)
        /\ Runnable(ready_list \o Receivers, HandledThreads, {current})
    BY <1>3, Parts, HandledFacts
  <2>2. current # Idle
    BY <1>3, <1>4, IdleSpared
  <2>3. IdleLives(HandledThreads) /\ Tids(HandledThreads, next_tid)
    <3>1. Kin(HandledThreads, Deadly(sig_list), next_tid, tid_lock, tid_waiters, {})
      BY <1>3, RunningKin, HandledIsQuiet, QuietKeepsKin DEF KinNow
    <3> QED BY <3>1 DEF Kin
  <2>4. HandledThreads[current].parent # 0
    BY <1>3, RunningKin, HandledIsQuiet DEF Quiet
  <2>5. Settled(thread', sig_list') /\ delivering'
    BY <1>2, <1>3, <1>4, <2>1, <2>2, <2>3, <2>4, ExitStaysSettled
  <2> QED BY <2>5 DEF ANext, Told
<1>5. CASE thread' = HandledThreads /\ sig_list' = sigs /\ UNCHANGED current
  BY <1>2, <1>5 DEF ANext, Told
<1> QED BY <1>1, <1>4, <1>5 DEF sigs

LEMMA ExitStepStaysSettled == ASSUME AInv, ~Undefined, Exit PROVE ANext
<1>1. /\ current \in Page /\ thread \in Threads /\ ready_list \in Seq(Page)
      /\ sig_list \in Seq(Entry) /\ Runnable(ready_list, thread, {current})
  BY Parts DEF AInv, KInv, IInv
<1>2. KinNow /\ thread[current].parent # 0
  BY RunningKin DEF AInv
<1>3. ~delivering /\ thread[current].pc = "run" /\ ExitFrom(ready_list, sig_list, thread)
  BY DEF Exit, At
<1>4. IdleLives(thread) /\ Tids(thread, next_tid) /\ current # Idle
  BY <1>2, <1>3 DEF KinNow, Kin, IdleLives
<1>5. Settled(thread, sig_list) /\ \A e \in Reports(sig_list) : e.receiver # current
  BY <1>3 DEF AInv, Told
<1>6. Settled(thread', sig_list') /\ delivering'
  BY <1>1, <1>2, <1>3, <1>4, <1>5, ExitStaysSettled
<1> QED BY <1>6 DEF ANext, Told

LEMMA KindredIsEnough ==
  ASSUME AInv, Kindred(thread, thread'), Reports(sig_list') \subseteq Reports(sig_list),
         delivering' \/ UNCHANGED <<current, delivering>>
  PROVE  ANext
<1>1. Settled(thread', sig_list')
  BY KindredStaysSettled, Parts DEF AInv, KInv
<1> QED BY <1>1 DEF ANext, AInv, Told

LEMMA SwitchStaysSettled ==
  ASSUME AInv, ~Undefined, Tick \/ Yield \/ Block \/ IdleBlock PROVE ANext
<1>1. KInv /\ IInv /\ Reports(sig_list') = Reports(sig_list)
  BY DEF AInv, KInv, Tick, Yield, Block, IdleBlock
<1>2. CASE Tick
  BY <1>1, <1>2, TickIsKindred, KindredIsEnough
<1>3. CASE Yield
  <2>1. Alike(thread) /\ Kindred(thread, thread)
    BY <1>1, Parts DEF Alike, Kindred
  <2>2. YieldFrom(thread)
    BY <1>3 DEF Yield
  <2>3. Kindred(thread, thread') /\ delivering'
    BY <1>1, <2>1, <2>2, ThreadIsQuiet, YieldIsKindred
  <2> QED BY <1>1, <2>3, KindredIsEnough
<1>4. CASE Block
  <2>1. current # Idle
    BY <1>1, <1>4, RunningKin DEF Block, At, KinNow, Kin, IdleLives
  <2>2. BlockAt("asleep")
    BY <1>4 DEF Block
  <2>3. Kindred(thread, thread') /\ delivering'
    BY <1>1, <2>1, <2>2, BlockIsKindred
  <2> QED BY <1>1, <2>3, KindredIsEnough
<1>5. CASE IdleBlock
  <2>1. BlockAt("idle")
    BY <1>5 DEF IdleBlock
  <2>2. Kindred(thread, thread') /\ delivering'
    BY <1>1, <2>1, BlockIsKindred
  <2> QED BY <1>1, <2>2, KindredIsEnough
<1> QED BY <1>2, <1>3, <1>4, <1>5

LEMMA WakingIsKindred ==
  ASSUME IInv, NEW t \in Live(thread), thread' = [thread EXCEPT ![t] = Woken(thread[t])]
  PROVE  Kindred(thread, thread')
<1>1. thread \in Threads /\ t \in Page /\ thread[t] \in Struct
  BY Parts DEF Live, Threads
<1>2. \A p \in Page : thread'[p] = IF p = t THEN Woken(thread[t]) ELSE thread[p]
  BY <1>1 DEF Threads
<1>3. /\ Woken(thread[t]).status = "READY" /\ Woken(thread[t]).tid = thread[t].tid
      /\ Woken(thread[t]).parent = thread[t].parent
      /\ Woken(thread[t]).child = thread[t].child
      /\ Woken(thread[t]).dchild = thread[t].dchild
      /\ Woken(thread[t]).sigmask = thread[t].sigmask
  BY <1>1, WokenStruct, WokenIsAlike
<1>4. Live(thread') = Live(thread) /\ \A p \in Live(thread) : p \in Page
  BY <1>1, <1>2, <1>3 DEF Live
<1> QED BY <1>2, <1>3, <1>4 DEF Kindred

LEMMA UnblockStaysSettled ==
  ASSUME AInv, ~Undefined, NEW t \in Page, Unblock(t) PROVE ANext
<1>1. IInv /\ UNCHANGED <<sig_list, current, delivering>>
  BY DEF AInv, KInv, Unblock
<1>2. CASE thread[t].status = "BLOCKED"
  <2>1. t \in Live(thread) /\ thread' = [thread EXCEPT ![t] = Woken(thread[t])]
    BY <1>2 DEF Unblock, Live
  <2> QED BY <1>1, <2>1, WakingIsKindred, KindredIsEnough
<1>3. CASE thread[t].status # "BLOCKED"
  <2>1. Kindred(thread, thread')
    BY <1>3 DEF Unblock, Kindred
  <2> QED BY <1>1, <2>1, KindredIsEnough
<1> QED BY <1>2, <1>3

LEMMA DownStaysSettled == ASSUME AInv, ~Undefined, Down PROVE ANext
<1>1. /\ KInv /\ IInv /\ thread \in Threads /\ current \in Page /\ thread[current] \in Struct
      /\ Reports(sig_list') = Reports(sig_list) /\ thread[current].status = "RUNNING"
  BY Parts DEF AInv, KInv, Threads, Down
<1>2. CASE sema.value = 0
  <2>1. current # Idle
    BY <1>1, RunningKin DEF Down, At, KinNow, Kin, IdleLives
  <2>2. BlockAt("down")
    BY <1>2 DEF Down
  <2>3. Kindred(thread, thread') /\ delivering'
    BY <1>1, <2>1, <2>2, BlockIsKindred
  <2> QED BY <1>1, <2>3, KindredIsEnough
<1>3. CASE sema.value # 0
  <2> DEFINE r == [thread[current] EXCEPT !.pc = "run"]
  <2>1. thread' = [thread EXCEPT ![current] = r] /\ UNCHANGED <<current, delivering>>
    BY <1>1, <1>3 DEF Down, Threads
  <2>2. /\ r.status = thread[current].status /\ r.tid = thread[current].tid
        /\ r.parent = thread[current].parent /\ r.child = thread[current].child
        /\ r.dchild = thread[current].dchild /\ r.sigmask = thread[current].sigmask
    BY <1>1 DEF Struct
  <2> HIDE DEF r
  <2>3. Kindred(thread, thread')
    BY <1>1, <2>1, <2>2, CurrentIsKindred
  <2> QED BY <1>1, <2>1, <2>3, KindredIsEnough
<1> QED BY <1>2, <1>3

LEMMA UpStaysSettled == ASSUME AInv, ~Undefined, Up PROVE ANext
<1>1. IInv /\ UNCHANGED <<sig_list, current, delivering>> /\ sema.waiters \in Seq(Page)
  BY Parts DEF AInv, KInv, Up, SleepersTyped
<1>2. CASE sema.waiters = <<>>
  <2>1. Kindred(thread, thread')
    BY <1>2 DEF Up, Kindred
  <2> QED BY <1>1, <2>1, KindredIsEnough
<1>3. CASE sema.waiters # <<>>
  <2> DEFINE t == Head(sema.waiters)
  <2>1. thread' = [thread EXCEPT ![t] = Woken(thread[t])]
    BY <1>3 DEF Up
  <2>2. t \in Live(thread)
    BY <1>1, <1>3, PopFront DEF AInv, KInv, Downs
  <2> HIDE DEF t
  <2> QED BY <1>1, <2>1, <2>2, WakingIsKindred, KindredIsEnough
<1> QED BY <1>2, <1>3

(* The calls of the running thread, none of which masks SIG_CHLD.           *)
LEMMA CallStaysSettled ==
  ASSUME AInv, ~Undefined, "SIG_CHLD" \notin Maskable,
         \/ \E s \in Ignorable : Signal(s, "SIG_DFL") \/ Signal(s, "SIG_IGN")
         \/ \E how \in {"SIG_BLOCK", "SIG_UNBLOCK", "SIG_SETMASK"} :
              \E set \in SUBSET Maskable : SigProcMask(how, set)
         \/ \E x \in Lifetimes : SetLifetime(x)
  PROVE  ANext
<1>1. /\ IInv /\ thread \in Threads /\ current \in Page /\ thread[current] \in Struct
      /\ thread[current].status = "RUNNING"
  BY Parts DEF AInv, KInv, Threads
<1>2. UNCHANGED <<sig_list, current, delivering>>
  BY DEF Signal, SigProcMask, SetLifetime
<1>3. \E x : \/ thread' = [thread EXCEPT ![current].sigign = x]
             \/ thread' = [thread EXCEPT ![current].maxlifetime = x]
             \/ /\ thread' = [thread EXCEPT ![current].sigmask = x]
                /\ "SIG_CHLD" \in x => "SIG_CHLD" \in thread[current].sigmask
  <2>1. CASE \E how \in {"SIG_BLOCK", "SIG_UNBLOCK", "SIG_SETMASK"} :
               \E set \in SUBSET Maskable : SigProcMask(how, set)
    <3>1. PICK how \in {"SIG_BLOCK", "SIG_UNBLOCK", "SIG_SETMASK"}, set \in SUBSET Maskable :
            SigProcMask(how, set)
      BY <2>1
    <3> DEFINE mask == thread[current].sigmask
    <3>2. thread' = [thread EXCEPT ![current].sigmask =
                       CASE how = "SIG_BLOCK" -> mask \cup set
                         [] how = "SIG_UNBLOCK" -> mask \ set
                         [] how = "SIG_SETMASK" -> set]
      BY <3>1 DEF SigProcMask
    <3> DEFINE x == CASE how = "SIG_BLOCK" -> mask \cup set
                      [] how = "SIG_UNBLOCK" -> mask \ set
                      [] how = "SIG_SETMASK" -> set
    <3>3. x \in {mask \cup set, mask \ set, set}
      BY <3>1
    <3>4. "SIG_CHLD" \in x => "SIG_CHLD" \in mask
      BY <3>3
    <3> QED BY <3>2, <3>4
  <2> QED BY <2>1 DEF Signal, SetLifetime
<1>4. PICK x : \/ thread' = [thread EXCEPT ![current] = [thread[current] EXCEPT !.sigign = x]]
               \/ thread' = [thread EXCEPT ![current] =
                               [thread[current] EXCEPT !.maxlifetime = x]]
               \/ /\ thread' = [thread EXCEPT ![current] =
                                  [thread[current] EXCEPT !.sigmask = x]]
                  /\ "SIG_CHLD" \in x => "SIG_CHLD" \in thread[current].sigmask
  BY <1>1, <1>3 DEF Threads
<1>5. \E r : /\ thread' = [thread EXCEPT ![current] = r]
             /\ r.status = "RUNNING" /\ r.tid = thread[current].tid
             /\ r.parent = thread[current].parent /\ r.child = thread[current].child
             /\ r.dchild = thread[current].dchild
             /\ "SIG_CHLD" \in r.sigmask => "SIG_CHLD" \in thread[current].sigmask
  <2> DEFINE same(r) == /\ r.status = "RUNNING" /\ r.tid = thread[current].tid
                        /\ r.parent = thread[current].parent
                        /\ r.child = thread[current].child
                        /\ r.dchild = thread[current].dchild
             s1 == [thread[current] EXCEPT !.sigign = x]
             s2 == [thread[current] EXCEPT !.maxlifetime = x]
             s3 == [thread[current] EXCEPT !.sigmask = x]
  <2>1. same(s1) /\ s1.sigmask = thread[current].sigmask
    BY <1>1 DEF Struct
  <2>2. same(s2) /\ s2.sigmask = thread[current].sigmask
    BY <1>1 DEF Struct
  <2>3. same(s3) /\ s3.sigmask = x
    BY <1>1 DEF Struct
  <2>4. \/ thread' = [thread EXCEPT ![current] = s1]
        \/ thread' = [thread EXCEPT ![current] = s2]
        \/ thread' = [thread EXCEPT ![current] = s3]
             /\ ("SIG_CHLD" \in x => "SIG_CHLD" \in thread[current].sigmask)
    BY <1>4
  <2> HIDE DEF s1, s2, s3
  <2> QED BY <2>1, <2>2, <2>3, <2>4
<1>6. Kindred(thread, thread')
  BY <1>1, <1>5, CurrentIsKindred
<1> QED BY <1>2, <1>6, KindredIsEnough

LEMMA KillStaysSettled ==
  ASSUME AInv, ~Undefined, NEW tid \in 0..MaxTid, NEW s \in Sent, Kill(tid, s) PROVE ANext
<1>1. /\ IInv /\ thread \in Threads /\ current \in Page /\ thread[current] \in Struct
      /\ thread[current].status = "RUNNING" /\ sig_list \in Seq(Entry)
  BY Parts DEF AInv, KInv, Threads
<1>2. UNCHANGED <<current, delivering>> /\ s # "SIG_CHLD"
  BY InputAssumption DEF Kill
<1>3. CASE \E dt : sig_list' = Queued(sig_list, thread, s, thread[current].tid, dt)
                   /\ UNCHANGED thread
  <2>1. PICK dt : sig_list' = Queued(sig_list, thread, s, thread[current].tid, dt)
                  /\ UNCHANGED thread
    BY <1>3
  <2>2. Reports(sig_list') \subseteq Reports(sig_list)
    BY <1>1, <1>2, <2>1, QueuedElements DEF Reports
  <2>3. Kindred(thread, thread')
    BY <2>1 DEF Kindred
  <2> QED BY <1>2, <2>2, <2>3, KindredIsEnough
<1>4. CASE thread' = [thread EXCEPT ![current].intr_off = TRUE] /\ UNCHANGED sig_list
  <2> DEFINE r == [thread[current] EXCEPT !.intr_off = TRUE]
  <2>1. thread' = [thread EXCEPT ![current] = r]
    BY <1>1, <1>4 DEF Threads
  <2>2. /\ r.status = "RUNNING" /\ r.tid = thread[current].tid
        /\ r.parent = thread[current].parent /\ r.child = thread[current].child
        /\ r.dchild = thread[current].dchild /\ r.sigmask = thread[current].sigmask
    BY <1>1 DEF Struct
  <2> HIDE DEF r
  <2>3. Kindred(thread, thread')
    BY <1>1, <2>1, <2>2, CurrentIsKindred
  <2> QED BY <1>2, <1>4, <2>3, KindredIsEnough
<1> QED BY <1>3, <1>4 DEF Kill

----------------------------------------------------------------------------
(* The steps of thread_create.                                              *)

LEMMA BeginCreateStaysSettled ==
  ASSUME AInv, ~Undefined, NEW t \in Page, BeginCreate(t) PROVE ANext
<1> DEFINE r == [thread[current] EXCEPT !.pc = "new", !.newborn = t]
           live == Live(thread)
<1>1. /\ thread \in Threads /\ current \in Page /\ thread[current] \in Struct
      /\ thread[current].status = "RUNNING" /\ Settled(thread, sig_list)
      /\ thread[t].status = "FREE" /\ UNCHANGED <<sig_list, current,
                                                  delivering>>
  BY Parts DEF AInv, KInv, Threads, BeginCreate
<1>2. \A p \in Page : thread'[p] = IF p = current THEN r
                                   ELSE IF p = t THEN Zeroed ELSE thread[p]
  BY <1>1 DEF BeginCreate, Threads
<1>3. /\ r.status = "RUNNING" /\ r.tid = thread[current].tid
      /\ r.parent = thread[current].parent /\ r.child = thread[current].child
      /\ r.dchild = thread[current].dchild /\ r.sigmask = thread[current].sigmask
  BY <1>1 DEF Struct
<1>4. /\ Zeroed.status = "BLOCKED" /\ Zeroed.tid = 0 /\ Zeroed.parent = 0
      /\ Zeroed.sigmask = {} /\ Zeroed.child = 0 /\ Zeroed.dchild = 0
  BY DEF Zeroed
<1> HIDE DEF r
<1>5. /\ Live(thread') = live \cup {t} /\ t \notin live
      /\ \A p \in live : p \in Page /\ p # t
  BY <1>1, <1>2, <1>3, <1>4 DEF Live
<1>6. \A p \in live :
        /\ thread'[p].tid = thread[p].tid /\ thread'[p].parent = thread[p].parent
        /\ thread'[p].child = thread[p].child /\ thread'[p].dchild = thread[p].dchild
        /\ thread'[p].sigmask = thread[p].sigmask
  BY <1>2, <1>3, <1>5
<1>7. thread'[t] = Zeroed
  BY <1>1, <1>2
<1>8. \A tid : tid # 0 => Children(thread', tid) = Children(thread, tid)
  BY <1>4, <1>5, <1>6, <1>7 DEF Children
<1>9. ASSUME NEW p \in live, thread[p].tid # 0
      PROVE  Known(thread', sig_list, p) <= thread[p].child
  <2>1. Children(thread', thread'[p].tid) = Children(thread, thread[p].tid)
    BY <1>6, <1>8, <1>9
  <2>2. Known(thread, sig_list, p) <= thread[p].child
    BY <1>1, <1>9 DEF Settled
  <2> QED BY <1>6, <2>1, <2>2 DEF Known
<1>10. \A p \in Live(thread') :
         /\ "SIG_CHLD" \notin thread'[p].sigmask
         /\ thread'[p].tid # 0 => Known(thread', sig_list, p) <= thread'[p].child
         /\ thread'[p].parent = 0 =>
              /\ thread'[p].child = 0 /\ thread'[p].dchild = 0
              /\ thread'[p].tid # 0 => Children(thread', thread'[p].tid) = {}
  <2>1. ASSUME NEW p \in live
        PROVE  /\ "SIG_CHLD" \notin thread'[p].sigmask
               /\ thread'[p].tid # 0 => Known(thread', sig_list, p) <= thread'[p].child
               /\ thread'[p].parent = 0 =>
                    /\ thread'[p].child = 0 /\ thread'[p].dchild = 0
                    /\ thread'[p].tid # 0 => Children(thread', thread'[p].tid) = {}
    BY <1>1, <1>6, <1>8, <1>9 DEF Settled
  <2> QED BY <1>4, <1>5, <1>7, <2>1
<1>11. \A e \in Reports(sig_list) : e.receiver \in Live(thread') /\ thread'[e.receiver].parent # 0
  BY <1>1, <1>5, <1>6 DEF Settled
<1>12. Settled(thread', sig_list')
  BY <1>1, <1>10, <1>11 DEF Settled
<1> QED BY <1>1, <1>12 DEF ANext, AInv, Told

LEMMA AcquireStaysSettled == ASSUME AInv, ~Undefined, AcquireTidLock PROVE ANext
<1>1. /\ KInv /\ IInv /\ thread \in Threads /\ current \in Page /\ thread[current] \in Struct
      /\ thread[current].status = "RUNNING" /\ thread[current].pc = "new"
      /\ UNCHANGED sig_list
  BY Parts DEF AInv, KInv, Threads, AcquireTidLock, At
<1>2. CASE /\ thread' = [thread EXCEPT ![current].pc = "locked"]
           /\ UNCHANGED <<current, delivering>>
  <2> DEFINE r == [thread[current] EXCEPT !.pc = "locked"]
  <2>1. thread' = [thread EXCEPT ![current] = r]
    BY <1>1, <1>2 DEF Threads
  <2>2. /\ r.status = "RUNNING" /\ r.tid = thread[current].tid
        /\ r.parent = thread[current].parent /\ r.child = thread[current].child
        /\ r.dchild = thread[current].dchild /\ r.sigmask = thread[current].sigmask
    BY <1>1 DEF Struct
  <2> HIDE DEF r
  <2>3. Kindred(thread, thread')
    BY <1>1, <2>1, <2>2, CurrentIsKindred
  <2> QED BY <1>1, <1>2, <2>3, KindredIsEnough
<1>3. CASE BlockAt("new")
  <2>1. current # Idle
    BY <1>1, RunningKin DEF KinNow, Kin, IdleLives
  <2>2. Kindred(thread, thread') /\ delivering'
    BY <1>1, <1>3, <2>1, BlockIsKindred
  <2> QED BY <1>1, <2>2, KindredIsEnough
<1> QED BY <1>2, <1>3 DEF AcquireTidLock

(* A tid that is handed out is nobody's parent yet.                         *)
LEMMA TakeTidStaysSettled == ASSUME AInv, ~Undefined, TakeTid PROVE ANext
<1> DEFINE n == thread[current].newborn
           r == [thread[current] EXCEPT !.pc = "numbered"]
           s == [thread[n] EXCEPT !.tid = next_tid]
           named == [thread EXCEPT ![current].pc = "numbered", ![n].tid = next_tid]
           h == Head(tid_waiters)
<1>1. /\ KInv /\ tid_waiters \in Seq(Page) /\ next_tid \in Nat
      /\ thread[current].pc = "locked" /\ UNCHANGED <<sig_list, current,
                                                      delivering>>
      /\ Settled(thread, sig_list)
  BY Parts DEF AInv, KInv, TakeTid, At
<1>2. /\ current \in Page /\ thread \in Threads /\ n \in Page \ {current, Idle}
      /\ thread[current] \in Struct /\ thread[n] \in Struct
      /\ n \in Live(thread) /\ thread[n].parent = 0
  BY <1>1, ChildOf
<1>3. KinNow /\ current \in Live(thread) /\ 0 < thread[current].tid
  BY <1>1, RunningKin
<1>4. /\ r \in Struct /\ r.status = thread[current].status /\ r.tid = thread[current].tid
      /\ r.parent = thread[current].parent /\ r.child = thread[current].child
      /\ r.dchild = thread[current].dchild /\ r.sigmask = thread[current].sigmask
  BY <1>2 DEF Struct, Location
<1>5. /\ s \in Struct /\ s.status = thread[n].status /\ s.tid = next_tid
      /\ s.parent = thread[n].parent /\ s.child = thread[n].child
      /\ s.dchild = thread[n].dchild /\ s.sigmask = thread[n].sigmask
  BY <1>1, <1>2 DEF Struct
<1>6. named = [p \in Page |-> IF p = current THEN r ELSE IF p = n THEN s ELSE thread[p]]
  BY <1>2 DEF Threads
<1>7. IF tid_waiters = <<>> THEN thread' = named
      ELSE thread' = [named EXCEPT ![h] = Woken(named[h])]
  BY DEF TakeTid
<1> HIDE DEF n, r, s, named
<1>8. named \in Threads
        /\ \A p \in Page : named[p] = IF p = current THEN r ELSE IF p = n THEN s ELSE thread[p]
  BY <1>2, <1>4, <1>5, <1>6 DEF Threads
<1>9. /\ Live(named) = Live(thread)
      /\ \A p \in Live(thread) :
           /\ named[p].tid = (IF p = n THEN next_tid ELSE thread[p].tid)
           /\ named[p].parent = thread[p].parent
           /\ named[p].child = thread[p].child /\ named[p].dchild = thread[p].dchild
           /\ named[p].sigmask = thread[p].sigmask
  BY <1>2, <1>4, <1>5, <1>8 DEF Live
<1>10. \A tid : Children(named, tid) = Children(thread, tid)
  BY <1>9 DEF Children
<1>11. next_tid # 0 /\ Children(thread, next_tid) = {}
  <2>1. /\ \A p \in Live(thread) : thread[p].tid < next_tid
        /\ \A p \in Live(thread) : thread[p].parent # 0 => thread[p].parent < thread[p].tid
    BY <1>3 DEF KinNow, Kin, Tids
  <2>2. \A p \in Live(thread) : thread[p].tid \in Nat /\ thread[p].parent \in Nat \cup {-1}
    BY <1>2 DEF Threads, Struct, Live
  <2>3. next_tid # 0
    BY <1>1, <1>3, <2>1, <2>2
  <2>4. \A p \in Live(thread) : thread[p].parent # next_tid
    BY <1>1, <2>1, <2>2, <2>3
  <2> QED BY <2>3, <2>4 DEF Children
<1>12. Settled(named, sig_list)
  <2>1. ASSUME NEW p \in Live(thread), named[p].tid # 0
        PROVE  Known(named, sig_list, p) <= named[p].child
    <3>1. CASE p = n
      <4>1. Children(named, named[p].tid) = {} /\ named[p].dchild = 0 /\ named[p].child = 0
        BY <1>1, <1>2, <1>9, <1>10, <1>11, <3>1 DEF Settled
      <4>2. ~Pending(sig_list, p)
        BY <1>1, <1>2, <3>1 DEF Pending, Settled
      <4>3. Known(named, sig_list, p) = 0
        BY <4>1, <4>2, FS_EmptySet DEF Known
      <4> QED BY <4>1, <4>3
    <3>2. CASE p # n
      <4>1. /\ named[p].tid = thread[p].tid /\ named[p].dchild = thread[p].dchild
            /\ named[p].child = thread[p].child
        BY <1>9, <3>2
      <4>2. Known(thread, sig_list, p) <= thread[p].child
        BY <1>1, <2>1, <4>1 DEF Settled
      <4> QED BY <1>10, <4>1, <4>2 DEF Known
    <3> QED BY <3>1, <3>2
  <2>2. ASSUME NEW p \in Live(named)
        PROVE  /\ "SIG_CHLD" \notin named[p].sigmask
               /\ named[p].tid # 0 => Known(named, sig_list, p) <= named[p].child
               /\ named[p].parent = 0 =>
                    /\ named[p].child = 0 /\ named[p].dchild = 0
                    /\ named[p].tid # 0 => Children(named, named[p].tid) = {}
    <3>1. named[p].parent = 0 /\ named[p].tid # 0 => Children(named, named[p].tid) = {}
      BY <1>1, <1>9, <1>10, <1>11 DEF Settled
    <3> QED BY <1>1, <1>9, <2>1, <3>1 DEF Settled
  <2>3. \A e \in Reports(sig_list) : e.receiver \in Live(named) /\ named[e.receiver].parent # 0
    BY <1>1, <1>9 DEF Settled
  <2> QED BY <2>2, <2>3 DEF Settled
<1>13. Kindred(named, thread')
  <2>1. CASE tid_waiters = <<>>
    BY <1>7, <2>1 DEF Kindred
  <2>2. CASE tid_waiters # <<>>
    <3>1. h \in Live(thread) /\ h \in Page
      BY <1>1, <1>3, <2>2, PopFront DEF KinNow, Kin, Locking
    <3> HIDE DEF h
    <3>2. named[h] \in Struct /\ named[h].status \notin {"FREE", "DYING"}
      BY <1>8, <1>9, <3>1 DEF Threads, Live
    <3>3. \A p \in Page : thread'[p] = IF p = h THEN Woken(named[h]) ELSE named[p]
      BY <1>7, <1>8, <2>2, <3>1 DEF Threads
    <3>4. /\ Woken(named[h]).status = "READY" /\ Woken(named[h]).tid = named[h].tid
          /\ Woken(named[h]).parent = named[h].parent
          /\ Woken(named[h]).child = named[h].child
          /\ Woken(named[h]).dchild = named[h].dchild
          /\ Woken(named[h]).sigmask = named[h].sigmask
      BY <3>2, WokenStruct, WokenIsAlike
    <3>5. Live(thread') = Live(named) /\ \A p \in Live(named) : p \in Page
      BY <3>2, <3>3, <3>4 DEF Live
    <3> QED BY <3>3, <3>4, <3>5 DEF Kindred
  <2> QED BY <2>1, <2>2
<1>14. Settled(thread', sig_list')
  BY <1>1, <1>8, <1>12, <1>13, KindredStaysSettled
<1> QED BY <1>1, <1>14 DEF ANext, AInv, Told

(* One more child, and one more counted.                                    *)
LEMMA FillInStaysSettled == ASSUME AInv, ~Undefined, FillIn PROVE ANext
<1> DEFINE n == thread[current].newborn
           me == thread[current].tid
           r == [thread[current] EXCEPT !.pc = "made", !.child = @ + 1]
           s == [thread[n] EXCEPT !.parent = me, !.sigign = SigType,
                                  !.sigmask = {}, !.age = 0, !.maxlifetime = 0,
                                  !.child = 0, !.dchild = 0]
<1>1. /\ KInv /\ Settled(thread, sig_list) /\ thread[current].pc = "numbered"
      /\ UNCHANGED <<sig_list, current, delivering>>
  BY DEF AInv, FillIn, At
<1>2. /\ current \in Page /\ thread \in Threads /\ n \in Page \ {current, Idle}
      /\ thread[current] \in Struct /\ thread[n] \in Struct
      /\ n \in Live(thread) /\ thread[n].parent = 0 /\ me < thread[n].tid
  BY <1>1, ChildOf
<1>3. /\ KinNow /\ current \in Live(thread) /\ 0 < me /\ thread[current].parent # 0
      /\ thread[current].tid = me
  BY <1>1, RunningKin
<1>4. /\ me \in Nat /\ thread[n].tid \in Nat
      /\ \A p \in Live(thread) : thread[p].child \in Nat /\ thread[p].dchild \in Nat
  BY <1>2 DEF Threads, Struct, Live
<1>5. /\ r.status = thread[current].status /\ r.tid = me
      /\ r.parent = thread[current].parent /\ r.child = thread[current].child + 1
      /\ r.dchild = thread[current].dchild /\ r.sigmask = thread[current].sigmask
  BY <1>2 DEF Struct
<1>6. /\ s.status = thread[n].status /\ s.tid = thread[n].tid
      /\ s.parent = me /\ s.child = 0 /\ s.dchild = 0 /\ s.sigmask = {}
  BY <1>2 DEF Struct
<1>7. \A p \in Page : thread'[p] = IF p = n THEN s
                                   ELSE IF p = current THEN r ELSE thread[p]
  BY <1>2 DEF FillIn, Threads
<1> HIDE DEF n, me, r, s
<1>8. Live(thread') = Live(thread) /\ \A p \in Live(thread) : p \in Page
  BY <1>2, <1>5, <1>6, <1>7 DEF Live
<1>9. \A p \in Live(thread) :
        /\ thread'[p].tid = thread[p].tid
        /\ thread'[p].parent = IF p = n THEN me ELSE thread[p].parent
        /\ thread'[p].child = (IF p = n THEN 0 ELSE IF p = current THEN thread[p].child + 1
                               ELSE thread[p].child)
        /\ thread'[p].dchild = (IF p = n THEN 0 ELSE thread[p].dchild)
        /\ thread'[p].sigmask = (IF p = n THEN {} ELSE thread[p].sigmask)
  BY <1>2, <1>3, <1>5, <1>6, <1>7, <1>8
<1>10. Children(thread', me) = Children(thread, me) \cup {n} /\ n \notin Children(thread, me)
  BY <1>2, <1>3, <1>4, <1>8, <1>9 DEF Children
<1>11. \A tid : tid \notin {0, me} => Children(thread', tid) = Children(thread, tid)
  BY <1>2, <1>8, <1>9 DEF Children
<1>12. \A p \in Live(thread) \ {current} : thread[p].tid # me
  BY <1>3 DEF KinNow, Kin, Tids
<1>13. thread[n].tid # 0 /\ Children(thread, thread[n].tid) = {} /\ ~Pending(sig_list, n)
  BY <1>1, <1>2, <1>3, <1>4 DEF Settled, Pending
<1>14. ASSUME NEW p \in Live(thread), thread[p].tid # 0
       PROVE  Known(thread', sig_list, p) <= thread'[p].child
  <2>1. CASE p = n
    <3>1. /\ Children(thread', thread'[p].tid) = {} /\ thread'[p].dchild = 0
          /\ thread'[p].child = 0
      BY <1>2, <1>9, <1>11, <1>12, <1>13, <2>1
    <3>2. Known(thread', sig_list, p) = 0
      BY <1>13, <2>1, <3>1, FS_EmptySet DEF Known
    <3> QED BY <3>1, <3>2
  <2>2. CASE p = current
    <3> DEFINE few == Cardinality(Children(thread, me))
    <3>1. few \in Nat /\ Cardinality(Children(thread', me)) = few + 1
      BY <1>10, FewChildren, FS_AddElement
    <3>2. few + thread[p].dchild + (IF Pending(sig_list, p) THEN 1 ELSE 0) <= thread[p].child
      BY <1>1, <1>3, <1>14, <2>2 DEF Settled, Known
    <3>3. /\ thread'[p].tid = me /\ thread'[p].dchild = thread[p].dchild
          /\ thread'[p].child = thread[p].child + 1
      BY <1>2, <1>3, <1>9, <2>2
    <3> HIDE DEF few
    <3>4. few + 1 + thread[p].dchild + (IF Pending(sig_list, p) THEN 1 ELSE 0)
            <= thread[p].child + 1
      BY <1>4, <3>1, <3>2
    <3> QED BY <3>1, <3>3, <3>4 DEF Known
  <2>3. CASE p # n /\ p # current
    <3>1. /\ Children(thread', thread'[p].tid) = Children(thread, thread[p].tid)
          /\ thread'[p].dchild = thread[p].dchild /\ thread'[p].child = thread[p].child
      BY <1>9, <1>11, <1>12, <1>14, <2>3
    <3>2. Known(thread, sig_list, p) <= thread[p].child
      BY <1>1, <1>14 DEF Settled
    <3> QED BY <3>1, <3>2 DEF Known
  <2> QED BY <2>1, <2>2, <2>3
<1>15. ASSUME NEW p \in Live(thread')
       PROVE  /\ "SIG_CHLD" \notin thread'[p].sigmask
              /\ thread'[p].tid # 0 => Known(thread', sig_list, p) <= thread'[p].child
              /\ thread'[p].parent = 0 =>
                   /\ thread'[p].child = 0 /\ thread'[p].dchild = 0
                   /\ thread'[p].tid # 0 => Children(thread', thread'[p].tid) = {}
  <2>1. /\ p \in Live(thread) /\ thread'[p].tid = thread[p].tid
        /\ "SIG_CHLD" \notin thread'[p].sigmask
    BY <1>1, <1>8, <1>9, <1>15 DEF Settled
  <2>2. thread'[p].parent = 0 => /\ p # n /\ p # current /\ thread[p].parent = 0
                                 /\ thread'[p].child = 0 /\ thread'[p].dchild = 0
    BY <1>1, <1>3, <1>4, <1>9, <2>1 DEF Settled
  <2>3. thread'[p].parent = 0 /\ thread'[p].tid # 0 => Children(thread', thread'[p].tid) = {}
    BY <1>1, <1>11, <1>12, <2>1, <2>2 DEF Settled
  <2> QED BY <1>14, <2>1, <2>2, <2>3
<1>16. \A e \in Reports(sig_list) : e.receiver \in Live(thread') /\ thread'[e.receiver].parent # 0
  BY <1>1, <1>3, <1>4, <1>8, <1>9 DEF Settled
<1>17. Settled(thread', sig_list')
  BY <1>1, <1>15, <1>16 DEF Settled
<1> QED BY <1>1, <1>17 DEF ANext, AInv, Told

LEMMA EndCreateStaysSettled == ASSUME AInv, ~Undefined, EndCreate PROVE ANext
<1> DEFINE t == thread[current].newborn
           r == [thread[current] EXCEPT !.pc = "run", !.newborn = NoPage]
           w == Woken(thread[t])
<1>1. /\ KInv /\ thread[current].pc = "made" /\ UNCHANGED <<sig_list, current,
                                                            delivering>>
  BY DEF AInv, EndCreate, At, Panic
<1>2. /\ current \in Page /\ thread \in Threads /\ t \in Page \ {current}
      /\ thread[current] \in Struct /\ thread[t] \in Struct
      /\ thread[current].status = "RUNNING"
  <2>1. current \in Page /\ thread \in Threads /\ thread[current].status = "RUNNING"
    BY <1>1, Parts DEF KInv
  <2>2. t \in Page \ {current}
    BY <1>1, <2>1 DEF KInv, IInv, NewbornKnown, Building
  <2> QED BY <2>1, <2>2 DEF Threads
<1>3. CASE thread[t].status = "BLOCKED"
  <2>1. /\ r.status = "RUNNING" /\ r.tid = thread[current].tid
        /\ r.parent = thread[current].parent /\ r.child = thread[current].child
        /\ r.dchild = thread[current].dchild /\ r.sigmask = thread[current].sigmask
    BY <1>2 DEF Struct
  <2>2. /\ w.status = "READY" /\ w.tid = thread[t].tid /\ w.parent = thread[t].parent
        /\ w.child = thread[t].child /\ w.dchild = thread[t].dchild
        /\ w.sigmask = thread[t].sigmask
    BY <1>2, WokenStruct, WokenIsAlike
  <2>3. \A p \in Page : thread'[p] = IF p = current THEN r
                                     ELSE IF p = t THEN w ELSE thread[p]
    BY <1>2, <1>3 DEF EndCreate, Threads
  <2> HIDE DEF t, r, w
  <2>4. Live(thread') = Live(thread) /\ \A p \in Live(thread) : p \in Page
    BY <1>2, <1>3, <2>1, <2>2, <2>3 DEF Live
  <2>5. Kindred(thread, thread')
    BY <1>2, <2>1, <2>2, <2>3, <2>4 DEF Kindred
  <2> QED BY <1>1, <2>5, KindredIsEnough
<1>4. CASE thread[t].status # "BLOCKED"
  <2>1. UNCHANGED thread
    BY <1>4 DEF EndCreate, Panic
  <2>2. Kindred(thread, thread')
    BY <2>1 DEF Kindred
  <2> QED BY <1>1, <2>2, KindredIsEnough
<1> QED BY <1>3, <1>4

----------------------------------------------------------------------------
LEMMA InitAInv == Init => AInv
<1> SUFFICES ASSUME Init PROVE AInv
  OBVIOUS
<1>1. KInv /\ Reports(sig_list) = {}
  BY InitKInv, EmptyList DEF Init, Reports
<1>2. /\ thread[Main].tid = 1 /\ thread[Main].parent = -1 /\ thread[Main].sigmask = {}
      /\ thread[Main].child = 0 /\ thread[Main].dchild = 0
  <2>1. thread[Main] = [Zeroed EXCEPT !.tid = 1, !.status = "RUNNING",
                          !.parent = -1, !.sigign = SigType, !.pc = "run"]
    BY PageAssumption DEF Init
  <2> QED BY <2>1 DEF Zeroed
<1>3. /\ thread[Idle].tid = 2 /\ thread[Idle].parent = -1 /\ thread[Idle].sigmask = {}
      /\ thread[Idle].child = 0 /\ thread[Idle].dchild = 0
  <2>1. thread[Idle] = [Zeroed EXCEPT !.tid = 2, !.parent = -1,
                          !.sigign = SigType, !.pc = "idle"]
    BY PageAssumption DEF Init
  <2> QED BY <2>1 DEF Zeroed
<1>4. Live(thread) \subseteq {Main, Idle}
  <2>1. \A p \in Page \ {Main, Idle} : thread[p] = Freed
    BY DEF Init
  <2> QED BY <2>1, ZeroedTyped DEF Live
<1>5. Children(thread, 1) = {} /\ Children(thread, 2) = {}
  BY <1>2, <1>3, <1>4 DEF Children
<1>6. Known(thread, sig_list, Main) = 0 /\ Known(thread, sig_list, Idle) = 0
  BY <1>1, <1>2, <1>3, <1>5, FS_EmptySet DEF Known, Pending
<1>7. Settled(thread, sig_list)
  BY <1>1, <1>2, <1>3, <1>4, <1>6 DEF Settled
<1> QED BY <1>1, <1>7 DEF AInv, Told

LEMMA StepKeepsAInv == "SIG_CHLD" \notin Maskable => (AInv /\ [Next]_vars => AInv')
<1> SUFFICES ASSUME "SIG_CHLD" \notin Maskable, AInv, [Next]_vars PROVE AInv'
  OBVIOUS
<1>1. KInv'
  BY StepKeepsKInv DEF AInv
<1>2. CASE UNCHANGED vars
  <2>1. UNCHANGED <<thread, sig_list, current, delivering>>
    BY <1>2 DEF vars
  <2>2. ANext
    BY <2>1, KindredIsEnough DEF Kindred
  <2> QED BY <1>1, <2>2 DEF AInv, ANext, Settled, Known, Pending, Children, Reports,
                            Elements, Live
<1>3. CASE ~Undefined /\ Step
  <2>1. ANext
    BY <1>3, SwitchStaysSettled, HandleStaysSettled, ExitStepStaysSettled,
       BeginCreateStaysSettled, UnblockStaysSettled, DownStaysSettled, UpStaysSettled,
       AcquireStaysSettled,
       TakeTidStaysSettled, FillInStaysSettled, EndCreateStaysSettled,
       CallStaysSettled, KillStaysSettled DEF Step
  <2> QED BY <1>1, <2>1 DEF AInv, ANext, Settled, Known, Pending, Children, Reports,
                            Elements, Live
<1> QED BY <1>2, <1>3 DEF Next

LEMMA CountInvariance == "SIG_CHLD" \notin Maskable => (Spec => []AInv)
<1> SUFFICES ASSUME "SIG_CHLD" \notin Maskable PROVE Spec => []AInv
  OBVIOUS
<1>1. AInv /\ [Next]_vars => AInv'
  BY StepKeepsAInv
<1> QED BY <1>1, InitAInv, PTL DEF Spec

(* The SIG_CHLD handler never prints fewer children alive than there are,   *)
(* as long as nobody masks SIG_CHLD, which the property says: a child is    *)
(* alive, reported by the one pending signal, handled, or lost.             *)
THEOREM CountsChildren == Spec => []AliveCount
<1>1. CASE "SIG_CHLD" \notin Maskable
  <2>1. AInv => AliveCount
    <3> SUFFICES ASSUME AInv, NEW p \in Live(thread), thread[p].tid # 0
                 PROVE  Cardinality(Children(thread, thread[p].tid)) + thread[p].dchild
                          <= thread[p].child
      BY DEF AliveCount, Children
    <3> DEFINE few == Cardinality(Children(thread, thread[p].tid))
    <3>1. few \in Nat /\ thread[p].dchild \in Nat /\ thread[p].child \in Nat
      BY FewChildren, Parts DEF AInv, KInv, Threads, Struct, Live
    <3>2. few + thread[p].dchild + (IF Pending(sig_list, p) THEN 1 ELSE 0) <= thread[p].child
      BY DEF AInv, Settled, Known
    <3> HIDE DEF few
    <3>3. few + thread[p].dchild <= thread[p].child
      BY <3>1, <3>2
    <3> QED BY <3>3 DEF few
  <2> QED BY <1>1, <2>1, CountInvariance, PTL
<1>2. CASE "SIG_CHLD" \in Maskable
  <2>1. AliveCount
    BY <1>2 DEF AliveCount
  <2> QED BY <2>1, PTL
<1> QED BY <1>1, <1>2
=============================================================================
