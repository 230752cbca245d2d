# A TLA+ model of the operating-systems laboratory

The repository is a collection of systems programs in C: two modified copies of
the Pintos thread system (a two-level feedback scheduler, and signals), a
client/server pair over System V shared memory and semaphores, a shared student
database, a file copy between two processes over pipes, and a small shell. Each
directory is a program of its own; they share no code at run time. The modules
here model the programs one by one.

## Inventory

### Pintos scheduler: `Pintos/Scheduler_changes/thread.c`, `thread.h`

*State*: `ready_list` and `ready_list_low`, every thread's `status` and `count`
(an `int8_t` that is at once the level, the number of slices used at the high
level, and, negated, the age at the low one), `idle_thread`, `thread_ticks`.
*Operations*: `thread_init`, `thread_start`, `thread_tick`, `thread_create`,
`thread_block`, `thread_unblock`, `thread_yield`, `thread_exit`, `idle`,
`schedule`/`thread_schedule_tail`.
*Interaction*: the timer interrupt calls `thread_tick` whenever interrupts are
on; semaphores, locks and interrupt handlers call `thread_block` and
`thread_unblock`.
*Hard*: every point of thread code with interrupts on can be preempted; the
aging loop moves threads between the lists it walks; pages are reused; the boot
sequence runs before an idle thread exists.
*Correct when*: no runnable thread is lost or queued twice; the level and the
list agree; exactly one thread runs; slices are not overrun; the low list stays
ordered by age; the high level goes first; nobody starves.

### Pintos signals: `Pintos/Added_Signals/signal.c`, `signal.h`, `thread.c`, `thread.h`, `Overview.txt`, `Readme.txt`

*State*: `sig_list` of pending signals (sender, receiver page, type); each
thread's masked and ignored types, parent's tid, lifetime, counts of children
created and dead; the ready list, `all_list`, `tid_lock` with its waiters.
*Operations*: `kill`, `signal`, `sigprocmask`, the `sig*set` functions,
`setlifetime`, `handleSignals` (run by `thread_schedule_tail`), and the thread
functions around them.
*Interaction*: `kill` and `thread_exit` queue signals, `thread_schedule_tail`
delivers those of the thread it switches to, and a delivered `SIG_KILL` or
`SIG_CPU` calls `thread_exit` from inside the scheduler.
*Hard*: a signal outlives its receiver and names a page that is reused; handlers
run at every switch, also in the middle of `thread_create` or while the thread
holds `tid_lock`; a thread that waits for a semaphore is unblocked.
*Correct when*: a `SIG_KILL` reaches the thread it was sent to and no other, only
a parent kills, pending signals of a type are unique, no runnable thread is lost.

### Booking server: `Multithread_server_client/A.c`, `B.c`

*State*: a shared ring of ten requests, two semaphores (`PS`, `CS`), the server's
pid, `ticket`, `global_count`, two mutexes and a condition variable.
*Operations*: the client's produce loop, the server's consume loop, one thread per
request, the creation and lookup of the shared objects, the `SIGINT` handler that
removes them.
*Hard*: a ring without a mutex; wait and signal around `global_count` with two
different limits; start-up races; removal under a blocked peer; a killed server.
*Correct when*: no request is lost, duplicated or overwritten, `ticket` stays in
0..100, `global_count` within its cap, nobody waits for ever, and a server that
ends in its handler leaves nothing behind.

### Student database: `Querying and updation/X.c`, `Y.c`, `clean.c`

*State*: an array of records in shared memory that ends in a sentinel, the
semaphore `mute`, the file on disk.
*Operations*: X loads the file and writes it back when it finds the mark; Y
searches and updates.
*Hard*: Y may start before X has loaded the file; an update puts its mark in the
place of the sentinel; a crash inside the critical section.
*Correct when*: lengths are right, the file is a snapshot of the table, updates
reach it.

### Pipe copy: `Copy_using _pipes/fcopy.c`

*State*: two pipes, their ends in two processes, two buffers, the files.
*Hard*: short blocks, an ignored write error, the end of the file at a multiple of
the buffer, a peer that dies, an end that is not closed.
*Correct when*: the copy is a prefix of the source, what is acknowledged has been
written, and both processes end.

### Shell: `Command_interrupter/shell.c`, `run.c`

*State*: the arguments and counters that carry over from line to line, the children
not reaped, free descriptors.
*Operations*: built-in commands, `cp`, redirections, pipelines, background programs.
*Hard*: variables declared inside the loop and not initialised; children never
reaped; leaking descriptors.
*Correct when*: the shell waits for its own child, runs what was typed, and comes
back to the prompt.

### Not behaviour

`README.md`, the other `readme.txt` files, the `Makefile`s and `text.txt` (data
of the student database) describe or build the programs above.

## Modules

| module | models |
|---|---|
| `Lists` | `struct list`: its elements, a walk that removes some of them |
| `MultilevelQueue` | the scheduler of `Scheduler_changes/thread.c` |
| `Dispatcher` | abstract: a work-conserving dispatcher that loses and duplicates no thread; `MultilevelQueue` implements it |
| `ThreadSignals` | `Added_Signals/signal.c` with the thread functions it changed |
| `SignalSets` | `sigset_t` and its bit functions |
| `BookingServer` | the service: client loop, ring, semaphores, throttle, request threads |
| `BoundedChannel` | abstract: a bounded FIFO channel; `BookingServer` implements it |
| `BookingLifecycle` | how the booking server and its client start and stop |
| `StudentDatabase` | X and its Ys, the sentinel, the file, kills |
| `PipeCopy` | the copy between parent and child, with failing calls and kills |
| `Shell` | the shell's loop and the life of its children |
| `MC...` | instances for TLC |
| `...Proofs` | theorems (see Proofs) |

`MultilevelQueue` and `ThreadSignals` EXTEND `Lists`. `MultilevelQueue` has an
INSTANCE of `Dispatcher` (`running <- current, ready <- Queued`), `BookingServer`
one of `BoundedChannel` (the channel is what stands in the ring between `out` and
`in`). The six programs are separate, so nothing else composes them; the two
copies of Pintos are different kernels. `BookingServer` and `BookingLifecycle` are
the two halves of one program: the second counts the requests that the first
transports.

The definitions named `Wrong...` belong to no specification: each is a plausible
mistake in the definition after it, and `PROJECT.json` pairs it with the property
that must fail when it takes that definition's place.

## How `MultilevelQueue` corresponds to the code

A thread is its page. `status`, `count` and the two ready lists are the
variables of the same names; `current` is `running_thread()`; `pc` and `child`
keep where a thread stands in `thread_start`, `thread_create` and `idle` and
its local `t`; `waiters` is the set of threads asleep in some semaphore, of which
the repository only shows the calls of `thread_block` and `thread_unblock`.

A section with interrupts off is one action, and so is the timer interrupt with
the `thread_yield` it asks for. `Tick` is `thread_tick` whole: aging, promotion,
the test of the slice, the demotion, and the switch when the slice is over. It is
enabled wherever interrupts are on. `StartIdle`, `StartWait`, `IdleEnter`,
`IdleUp`, `IdleBlock` are `thread_start` and `idle`; `Create`, `EndCreate` and
`Report` are `thread_create` up to `intr_set_level`, its `thread_unblock`, and
the `printf` that `thread_unblock` runs after it has restored interrupts; `Block`,
`Unblock`, `Yield`, `Exit` are the calls of a running thread. `Schedule` is
`schedule` with `thread_schedule_tail`: it picks, resets `count`, frees the page of
a dead thread and clears `thread_ticks`.

*Bounds.* Five pages in the safety runs (initial, idle, three others, so a list
can hold three threads and a page can be reused while two threads wait), four in
the liveness run; slices of 2 ticks (1 in the liveness run) and 2 for the low
level, a wait of 2: each counter can be below, at and past its limit. The state
space is finite without any cap. Pages other than the first two are symmetric; the
liveness run does not use the symmetry.

*Fairness.* `WF(Tick)`: the timer keeps interrupting while interrupts are on.
`SF(Boot)`: the straight-line code of `thread_start` and `idle` advances if it gets
the CPU again and again. Nothing is assumed of the threads' own calls.

## How `ThreadSignals` corresponds to the code

One record per page holds the members of `struct thread` and what its stack
holds: `pc`, the local `t` of `thread_create` (`newborn`), and whether the
thread's code runs with interrupts off (`intr_off`). `sig_list` holds the pending
signals in order; the field `to` of an entry is history, the tid that the receiver had
when the signal was sent, and no action reads it. `all_list` is `Live`, the pages
whose thread has been initialised and has not exited.

A switch is two steps without interruption between them: the caller's step ends
in `Schedule` (up to the call of `handleSignals`) and sets `delivering`;
`HandleSignals` is then the only step enabled. It walks `sig_list` (`Taken`,
`Kept`), unblocks the receivers of `SIG_UBLOCK`, runs the handlers, and if
SIG_CPU or SIG_KILL ends the thread it performs `thread_exit`, whose `schedule` sets
`delivering` again. `thread_create` is five actions, cut where a tick or a
contended `tid_lock` can come in between. Besides `tid_lock`'s list there are two
places where threads sleep: `Block` is a `thread_block` whose caller stays in
`wakers` until its `Unblock`, which asserts that it is BLOCKED; `Down`
and `Up` are `sema_down` and `sema_up` on one semaphore `sema`, whose waiters hang on
it by the same `elem` that `ready_list` uses, and `sema_down` tests the value again when
it is woken. `Kill` has the two early returns, which leave `intr_off`
set. `clock_count - starttime` is kept as an age that stops counting past every lifetime in use.

A `SIG_UBLOCK` whose receiver's page is free reads whatever mask the freed page
holds, so it may be dropped or kept. A thread is `HalfBuilt` from `init_thread` until
its creator has given it a parent, and for ever if the creator is killed before
that. Once a thread's `elem` is on two lists, or a half-built thread, which has no
stack to switch to, is made ready, what the program does is undefined and the model
stops (`Undefined`); it stops too where the `ASSERT` of `thread_unblock` fails
(`panicked`), in `Unblock` or at the end of `thread_create`. The states in which that has just
happened are states of the model: the invariants are checked and proved in them, and
say nothing of what comes after. For these
reasons the runs of this module do not check for deadlock. That `tid_lock` is taken
by nobody who holds it (`lock_acquire` asserts it) is the invariant
`LockHolder`, not a disjunct.

Signal sets are TLA+ sets here. `SignalSets` has the functions on `int8_t`, and
the assumptions `BitsAreSets` and `SetFunctions` of `MCThreadSignals` compare
them with sets on every `int8_t` and every argument at and next to its limits.
`MCMultilevelQueue` likewise compares `Filter` with `SelectSeq`.

The specification starts where `thread_start` returns: `MultilevelQueue` models the
same boot step by step, and signals play no part in it, since there is no thread
yet that could send one.

*Bounds.* Four pages (initial, idle, two others) and tids up to 4 for `SIG_KILL`: a
parent with two children in turn, or a grandchild, a page used twice, and a
semaphore with values 0 and 1 that three threads wait for. Three pages for `SIG_UBLOCK`, whose
receivers sleep in either way, still with a page that is reused. Five pages and tids up to 5 for
`tid_lock`: two threads are inside `thread_create` at once, and the one that has released the lock
may come back and take it again before the waiter it has woken runs, which then waits a second
time. Three at once would take seven pages, too many for TLC with fairness and hence without symmetry. Slices of one tick, lifetimes of
one tick and ages up to two: below, at and past. Every run restricts the types that threads send,
mask and ignore to those it is about; the theorems do not.

*Fairness* (only in the runs of `ReadyRuns` and `WaitersWoken`). Weak for `Tick` and
for `HandleSignals`; strong for the statements of `thread_create` and `sema_down`, per
page: a thread that has the CPU again and again executes them. `Tick` is not enabled while
the running thread has interrupts off, and that is what `ReadyRuns` fails on.

## How the booking server corresponds to the code

`BookingServer`: `Aqueue`, `in`, `out`, `PS`, `CS`, `ticket`, `global_count` and
`cnt_mutex` are the program's. `pcA` is the client between `P`, the store and `V`;
`pcB` is the main thread between `P`, its section under `cnt_mutex2`, the read with
`pthread_create`, and `V`; `pc[t]` is a request thread in `book_ticket`. A section
under `cnt_mutex2` is one action, because nobody sleeps in it: `Wait`, `Admit` (whose
`Throttled` is both the `if` and the `while`), `Finish` with its
`pthread_cond_signal`. `cnt_mutex` is held over a sleep, so it is a variable and
`book_ticket` is five actions. `pthread_cond_wait` may return on its own, and
`pthread_create` may fail up to `MaxFailures` times, which the code ignores.

*Bounds.* A ring of 2, throttle limits 3 and 1, three threads, one ticket and requests
of -1 and 1: the ring is full and empty, the throttle closes with requests left,
a request is refused, a ticket is returned above the limit. One failed `pthread_create`,
the most that `LOW` = 1 allows: with more failures than `LOW` the main thread sleeps
for ever (with the program's numbers, after the sixth).

*Fairness.* Weak for each process and each thread. A mutex need not be fair, so nothing
is claimed of an individual request thread.

`BookingLifecycle`: the objects carry the number of the server that made them; every
statement of `main` that creates, initialises or attaches one is an action, in the order of
`After`, and so is every removal of `my_handler`. `Interrupt` is `SIGINT` once
`signal()` has run; `Die` is any other end, at any statement. The client is started
once, at any time, and never checks what `semget` returns. `semop` on an id of -1 or on
a removed semaphore fails at once (`P`, `V`). A request is only counted.

*Bounds.* A queue of 2 and two servers: objects left over by the first meet the second,
and the client may hold ids of both. Counters are cut one past each end. There is
no deadlock check: everything may have ended.

*Fairness.* A started program executes its statements; nobody need start or stop one.

What the second module tells beyond its properties: a server killed while the client
sleeps in `P(PS)` leaves it there for ever, although the readme (lines 6-8) has A
detect it; `ClientFollows` states exactly that exception. A server that was killed makes
later starts fail (`IPC_EXCL` on the segment) or run with semaphore ids of -1, reading
requests nobody made. `kill(0, 0)` succeeds, so a client that comes before the pid is
stored, when the server then dies, goes on for ever.

## How `StudentDatabase` corresponds to the code

`roll` and `CG` are the shared records, `mute` the semaphore, `file` the file as far as it
has been written. X's actions are its statements on shared objects, in order: `Load` one
record, `CloseTable` the sentinel, `FindMark` the unlocked test, `LockFile`,
`Truncate` (`fopen(..., "w")`), `Write` one record, `UnlockFile`. A Y finds the segment,
finds `mute` or not, counts the records (`Scan`, one per turn), then searches or updates
under `mute`, waiting for its user inside (`ask`). A Y that did not find `mute` has a `P` and a `V` that
fail and do nothing; `intruders` is history, the Ys that have gone to an update like that, or
that held `mute` when X set its value. Past the table `RunOn` ends somewhere or
kills the Y. Any process may be killed anywhere; `semop` has no `SEM_UNDO`. Names are left
out, and record i has roll number i + 1.

*Bounds.* Two records, two grades, two Ys: an update that meets an update, a search, the
write-back, or a kill of the holder. *Fairness.* Weak for X's loop only; a Y waits for its
user. Processes may all have ended, so deadlock is not checked.

What the model shows of the code, which the properties have to except:

* An update puts its mark -2 in the place of the sentinel, and its own scan, which goes on,
  runs off the table while it holds `mute`. If that kills the Y, or it is killed while it waits
  for its user, nobody gets `mute` again and X never writes (`holder \in Querier` in
  `UpdatesReachFile`); the readme (lines 8-12) expects the write.
* A Y that starts between X's `shmget` and `semget` never looks at what its own `semget`
  returned (`Y.c:81`) and updates without the mutex. A grade may then change in the middle of
  X's write, and the file is no snapshot, and an update may set the mark just before X clears it,
  and is not written. `WritesSnapshot` and `UpdatesReachFile` hold as long as `intruders` is empty.
* A Y that counts the records before X has closed the table may get a wild length, and puts
  its mark there, outside the table (`Y.c:94`, `141`): X does not see it and does not write
  (`Unmarked` in `UpdatesReachFile`).

X truncates before it writes, so killing it in between loses the records. A file without a final newline
loses its last record: `Length`, which `LengthRightOrWild` calls right, is the length that X uses.

## How `PipeCopy` corresponds to the code

A byte is its position in the source. The ends of the two pipes are held by each process
as they are in the code; a read returns 0 when nobody holds the write end, a write
without a reader kills the writer. Each `close` pair, `read` and `write` is an
action; `fork`, a read of the source and a write of the copy may fail (a write in part),
and either process may be killed anywhere.

Two things are left out. The zero that is stored behind what a `read` returned (`fcopy.c:43`, `70`) is
never read; behind a full block it lies one byte past `buffer`, and what it overwrites is up to
the compiler's layout of the stack. And the source is a regular file, of which only the last block is
short: from a terminal or a fifo the message may come before the end.

*Bounds.* Blocks of 2 and sources of 0 to 5 bytes: empty, short, full, at a multiple, and
three blocks. All faults. *Fairness.* Weak for both processes. Ended processes stop the
system, so deadlock is not checked.

What it shows: the child acknowledges a write that failed, prints that the copy succeeded, and
nobody reports the failure (`buffer2 == "-1"` compares addresses), against Readme lines 9-14. The properties
except it (`short`), but for the order of the bytes that do arrive (`CopyIsPrefix`). For a source whose size is a multiple of
the block no message is printed.

## How `Shell` corresponds to the code

A token is a word with or without an ampersand at its end. `arg`, `inputnum` and `pid` keep
what earlier lines left, since they are declared in the loop and not initialised; at the
start they hold anything relevant. `Parse` is the splitting, `Crash`, `Pipeline`,
`Redirected` and `Simple` the branches after it, `Fork` and `Wait` the calls.
`Logged` and `Copy` are the built-in commands. A child is forked, opens its files and
executes (`ChildExec`), runs, and is a zombie until it is waited for.

`Top` is how far the lines can reach into `arg[50]`, so no line overruns it; one of more
than 49 tokens, which the code does not refuse, is left out. The copies in `p`, which the
stages of a pipeline would use, are left out, since nothing reads them; a stage of more than
20 arguments writes into the entry of the next one. The scan that fills them compares one entry
more than the first, so a NULL there crashes the shell (`Pipeline`); no line leads to one. `Usual` lines, of which
`RunsAsTyped` speaks, have their redirections at the end, `<` before `>`: of others, such as
`a < f b > g`, the code takes the wrong part for arguments, since it only looks at the last
four tokens.

*Bounds.* Fourteen lines, one for each shape that the code tells apart, in every
order; two descriptors and two children, so that both run out. *Fairness.* Weak for the shell
and for children; a program typed with an ampersand may run for ever, and the user need not
type. The shell may exit or crash, so deadlock is not checked.

What it shows: no stage of a pipeline is started (the loop `for (i = yespipes; i < 0;
i--)`), and the `waitpid` after it waits for whatever `pid` holds; a redirection in a line of four words, as in `a x > f`, runs nothing; `a > g < f` opens `f` for
both; an empty line, `mkdir` without operand, `prog&` after a longer line, or a full
descriptor table crash the shell; `a &` runs `a` in the foreground with "&" as argument;
`cp` overwrites whatever the times of the files, and leaks a descriptor.

## Runs

| run | what it shows |
|---|---|
| `scheduler_safety` | every interleaving of ticks, creations, wake-ups, sleeps, yields and exits keeps the queues, the levels and the slices right, and implements `Dispatcher` |
| `scheduler_liveness` | no queued thread starves, and `thread_start` returns |
| `signals_kill` | `SIG_KILL` comes from the parent, reaches the thread it was meant for, is obeyed before that thread runs again; tids, parents and child counts stay consistent; the assertions on `tid_lock` and the lists of waiters hold wherever a thread is killed |
| `signals_unblock` | `SIG_UBLOCK` to a thread in any state, asleep in a semaphore or in `thread_block` included, loses, duplicates and repeats nothing up to and in the state where it has put an `elem` on two lists or an `ASSERT` has failed; nothing deliverable is left after a switch |
| `signals_lock` | with two threads in `thread_create`, one of which may overtake the other that it has woken, the waiters of `tid_lock` stay on one list and each is woken, as long as nobody is killed |
| `signals_preemption` | **refuted**: preemption is enforced (a comment of `thread.c`); a failed `kill` leaves interrupts off |
| `signals_elem` | **refuted**: a thread is never on the run queue and on a semaphore's list at once (a comment of `thread.h`); `SIG_UBLOCK` puts it there |
| `booking_service` | the ring is a FIFO channel, the throttle counts right and loses no wake-up, tickets are never oversold, the server goes on |
| `booking_lifecycle` | no request is lost in the start-up races, the handler cleans up, the client follows its server or sleeps on a semaphore left behind |
| `student_database` | lengths are right or wild; the file is a snapshot, and updates reach it, but for the exceptions told above |
| `pipe_copy` | the copy is a prefix, or at least in order when writes fail; an acknowledgement means that the write was tried, the message that the source has been read to its end; both processes end |
| `shell` | the shell waits for its own child, runs what was typed, and the prompt comes back |

`AliveCount` states its exception, threads that mask `SIG_CHLD`: a masked one left pending by an
exit is inherited by the next thread on the page, and then the number printed falls short. In
the other direction `child - dchild` may exceed the number of living
children, because signals of one type are coalesced; the Readme says so itself.
`LockWaiters` states its own, `SIG_UBLOCK`: one sent to a waiter of `tid_lock` or of a semaphore puts
its `elem` on two lists (the run `signals_elem` shows it), one sent to a thread in `thread_block`, or to
one that its creator has not unblocked yet, makes a later `thread_unblock`'s assertion fail. `FamilyTree` holds in every state that is not `Undefined`; in the
instances here it holds in all. A `SIG_UBLOCK` that lets a child run and exit before its creator's
`thread_unblock` can make the creator wake a half-built thread on the same page: that takes tids
up to 6. Without `SIG_UBLOCK` no state is `Undefined` (`AlwaysDefined`).
`WaitersWoken` needs that nobody is killed: `SIG_KILL`
or `SIG_CPU` delivered to the holder of `tid_lock` leaves it locked for ever, and one delivered to a thread
that `sema_up` has just woken takes the wake-up with it. And it promises a wake-up, not the lock:
a newcomer may take the lock before the thread that was woken, which then waits again; nothing
bounds how often, so that a `thread_create` returns is not claimed.

Every module but `MultilevelQueue` keeps a `TypeOK` that no run lists, to spare a run per
module; those of `ThreadSignals`, `StudentDatabase` and `Shell` are proved, those of the two booking modules are contained in the
inductive invariants in the form the proofs need.

In the scheduler two more disagreements came up. The pseudo-code in `thread_tick` promotes
at `count <= -WAITING_TIME`, the code at `<`, one tick later. And the `printf` at the end of
`thread_unblock` reads the thread after interrupts are back on: the thread may have run and
exited by then, and its page may be free.

## Proofs

Everything below holds for every value of the constants that satisfies the modules'
assumptions. In each module the inductive invariant is called `IInv`; the second
invariants that stand on one are named here.

*Scheduler* (`MultilevelQueueProofs`, for slices and waits of 1 to 127). `IInv` is
`TypeOK`, `RunQueues`, `CurrentRunning`, `Sleepers` and `StartUp`. None is inductive alone: that a
step finds its thread on the right list needs the link of level and list (`RunQueues`); that
`next_thread_to_run` returns a thread needs the idle thread to exist (`StartUp`); that
`thread_unblock` queues nobody twice needs every BLOCKED thread to be in the hands of one
waker (`Sleepers`). On top, `AgeInv` adds the order of ages, the fact that ages outside the
low list are fresh, and `SliceBound`. The theorem `HighLevelAlwaysFirst` and
the refinement of `Dispatcher` follow from one lemma about each
action under `IInv`. `FirstComeFirstServed` follows from `Grows`: of two threads of the new list the
second of which was in the old one, the first was there too, and ahead of it. Every list operation
of the code has it, aging included, whose loop removes from the list it walks; on a list without
duplicates it is `KeepsOrder`.

*Signals* (`ThreadSignalsProofs`, whatever the threads send, mask and ignore). `IInv` is
`TypeOK`, `RunQueue`, `OnePendingPerType`, and that a thread inside `thread_create` has a
page for its child which is not its own (without it `thread_create` could wake the thread that
executes it). The switch is proved once (`SwitchKeepsIInv`) from a condition on the list and the
threads its caller leaves; `handleSignals` meets that condition because pending
`SIG_UBLOCK`s have different receivers (`OnePendingPerType`), each BLOCKED and hence not on `ready_list`.
A step is taken only where the state is not `Undefined`, so what it leads to is covered whatever
list a receiver's `elem` was on.
`SwitchDelivers` is one step of `HandleSignals` under `IInv`: what the walk keeps is masked, is for
another thread, or is a `SIG_UBLOCK` that its receiver does not take.

*Families* (also `ThreadSignalsProofs`, as the next two). Pages and signals outlive the threads they were meant
for, so `KilledByParent` needs to know what may happen to a page. `KInv` adds to `IInv`: a thread
not made ready is, until it has a parent, BLOCKED, `unborn` and without an
ignored signal (`Unfinished`); tids are unique and parents older than their
children (`Tids`); the page in the hands of a creator is that of its child alone (`Creators`); the
holder of `tid_lock` is in `allocate_tid`, or its page is now free or a thread's that is never
numbered (`Locking`); a waiter of the semaphore is alive and in `sema_down` (`Downs`), which steps
of others leave so (`Onlook`); the idle thread does not die; and each pending signal that ends its receiver
is a `SIG_KILL` from the receiver's parent (`Orders`). `QuietKeepsKin` disposes of every step that
changes none of that. From `KInv` follow `KilledByParent`, `KilledNeverRuns`, `LockHolder`, and
`FamilyTree` wherever the state is not `Undefined`.

*The waiters*, when nobody sends `SIG_UBLOCK`. `WInv` adds to `KInv` that no such
signal is pending and no `ASSERT` has failed, that every waiter of `tid_lock` is dormant (BLOCKED, inside `lock_acquire`, in
`sema_down`, in `thread_block` or not yet unblocked by its creator) and waits once, that a creator about to call
`thread_unblock` has a dormant child, which is no other creator's, and that the semaphore's waiters
and those whom a `thread_unblock` is to wake are dormant in their own places (`Naps`). Only a release, `sema_up` and `thread_unblock` end
dormancy; every other step leaves the dormant as they are (`Still`). `LockWaiters` and
`AlwaysDefined` follow.

*Counting children.* `AliveCount` alone is not inductive: a `SIG_CHLD` that is pending will raise
`dchild`. `AInv` counts it in advance (`Settled`: the living, those whose death was handled, and one
if a `SIG_CHLD` is pending are at most `child`); a death moves one child from the first term
into the last, and nothing if one is already pending. That a report never reaches the next
thread of a page needs `Told`: whoever runs has none pending. Cardinalities need the set of
pages to be finite (`MemoryAssumption`).

*Booking service* (`BookingServerProofs`). `IInv` is `TypeOK`, `SlotsBalance`,
`CountsRequests`, `NoLostWakeUp`, `NeverOversold`, and that `cnt_mutex` is held by exactly the
thread between its lock and its unlock. The refinement of `BoundedChannel` rests on `SlotsBalance`:
the slot the client writes is `Unread` after `out`, never one of those.

*Booking lifecycle* (`BookingLifecycleProofs`). For `HandlerCleansUp`: a running server has
the ids of exactly the semaphores it has made, and the handler has removed what stands before
the statement it is at. For `RequestsAccounted`: in addition, as long as the client can still
find all of the server's objects, either nothing has been written and the semaphores are 0 (until
both values are set), or the slots add up to the size of the queue.

*Student database* (`StudentDatabaseProofs`). `IInv` says that only the place after the last
record ever holds a mark; that a Y past its first scan has the right length or a wild one (`Scans`);
and, as long as `intruders` is empty, who holds `mute` where (`Mutex`) and that what X has written so far
is in the shared records (`Writing`). `intruders` only grows.

*Pipe copy* (`PipeCopyProofs`). Who holds which end, what the parent's buffer holds, and the
six phases of a block's round: not sent, in the pipe, with the child, written, acknowledged, child
gone. In each the copy is known, or, once a write has failed, it is in order and ends at or before
the block (`InOrder`).

*Shell* (`ShellProofs`, for every set of lines that fit into `arg`, every number of children and
descriptors). `PromptMeansDone` and `WaitsForItsOwn` need to know who is alive while the
shell waits (`Others`: besides the child it waits for, only what was typed with an ampersand; nobody
before the first fork), because `waitpid` may get -1, 0 or an older line's pid. What `Parse` leaves
is described by `Parsed`: `background` only with an ampersand; a bar that the scan finds is the line's,
although `inputnum` and the tail of `arg` may be an older line's (the scan stops at the NULL
behind a first token that ends in an ampersand); and without an ampersand `arg` holds the
tokens exactly. From the last part, `RedirectionAsTyped` finds the redirections of a `Usual` line
where the branches look for them, and `ArgvIs` the arguments before them.

`ListsProofs` has the facts about `Filter`, `Append`, `Tail` and `\o` that the two kernels
need. `Filter` is a recursive function; its facts are proved by induction over a set of
numbers (`SetInduction`).

Only model-checked: the liveness properties (the prover does no reasoning about fairness), which
are `NeverStarves`, `BootCompletes`, `WaitersWoken`, `ServerGoesOn`, `ClientFollows`, `UpdatesReachFile`, `BothEnd` and
`PromptComesBack`. Every invariant and every action property that a run checks is also
proved.

## Not modelled

* *Pintos.* Console output takes no time, except the `printf` of `thread_unblock` in
  `MultilevelQueue`, which reads the thread and is a step of its own (`Report`); the console
  lock it and the handlers take is Pintos code outside this repository. The insertion in
  `all_list` with interrupts on (`init_thread`) is one step, and so are `lock_release` and the
  store of the new tid after it. `palloc_get_page` succeeds while a page is free; `malloc` always does.
  Statistics, priorities, names, and the getters and setters nothing reads.
* *Booking server.* Reuse of a pid by another process; a `SIGINT` that a request
  thread or a second one takes while the handler runs; two servers at once; more than one client; the
  memory of ended threads, which nobody frees.
* *Student database.* Names and output of searches; `clean.c`, since X is started once.
* *Pipe copy.* The opening of the files; the branch of the child for a failed `read` of the pipe
  (`fcopy.c:54-59`), which no pipe produces.
* *Shell.* Directories, contents of files, lines of 50 tokens or more, `run.c`, which starts the shell and waits for it.
