# MacRuby on the iPhone: a TLA+ development of its threads and its collector

The repository is a port of MacRuby 0.4 to the iPhone: the YARV interpreter
(`src/macruby/0.4`), Apple's garbage collector AutoZone (`src/autozone-77.1`)
and a small application that starts them (`src/main.m`). This project specifies
the parts where the program's correctness is hardest to test: native threads
that take turns under one lock, interrupt one another, sleep, join, lock
mutexes and are killed, with a timer thread and signal handlers that take no lock
at all; what the library builds on them, the queues of `lib/thread.rb` and the
serialization of `require`; and a collector that marks and frees memory while
the threads run.

## 1. The system

| Part | State | Operations | Interacts by |
|---|---|---|---|
| Global VM lock | `vm->global_interpreter_lock`, `ruby_current_thread`, `vm->running_thread` | `GVL_UNLOCK_BEGIN/END`, `rb_thread_schedule` | every thread takes turns |
| Interrupts | `th->interrupt_flag` (0x01 timer, 0x02 interrupt), `th->thrown_errinfo`, `th->unblock` | `rb_thread_interrupt`, `RUBY_VM_CHECK_INTS`, `rb_thread_execute_interrupts` | written by other threads, read at polls |
| Timer thread | none of its own | `timer_thread_function`, every 10 ms | sets 0x01 of the running thread without a lock; hands signals over |
| Threads | `status`, `errinfo`, `living_threads`, `join_list_head/next` | new, sleep, stop, pass, wakeup, run, join, raise, kill, end of thread, end of process | interrupts, lists of joiners |
| Signals | `signal_buff`, `main_thread->exec_signal` | `sighandler`, `rb_signal_exec` | timer thread to main thread |
| Mutex | `mutex->th`, `cond_waiting`, a native mutex and condition | lock, try_lock, unlock, sleep, synchronize | blocking region, `lock_interrupt` |
| Blocking IO | `signal_thread_list`, `th->unblock` | `do_select`, `ubf_select` | SIGVTALRM sent by the timer thread |
| Load lock of `require` | `vm->loading_table`, `rb_barrier_t` (owner, list of waiters), `$"` | `load_lock`, `load_unlock`, `rb_barrier_wait/release` | direct hand-over of a file to a waiter |
| Queue, SizedQueue | `@que`, `@waiting`, `@queue_wait`, `@max`, `@mutex` (`lib/thread.rb`) | push, pop, max=, clear | `Mutex#sleep`, `Thread#wakeup`, `Thread#run` |
| ConditionVariable, Monitor | Ruby arrays and mutexes (`lib/thread.rb`, `lib/monitor.rb`) | wait, signal, broadcast | as the queues |
| AutoZone collector | mark bits, scan stack or pending bits, write-barrier cards, ages, `_needs_enlivening`, `_enlivening_queue`, `_garbage_list` | collect: scan, rescan, scavenge, free | mutators, by their barriers and their stacks |
| AutoZone mutator side | the heap, roots, reference counts, weak locations | allocate, write barriers, retain, release, weak assign and read | `_enlivening_lock`, the admin locks |
| AutoZone requests, threads, allocator | `collection_requested_mode`, the thread list, free lists | request, register, suspend, allocate | the collector thread |
| Interpreter, compiler, core classes, Objective-C bridge | sequential, under the lock | - | calls |

What is hard here:

- **interleaving**: an interrupt may come at any point of going to sleep, of
  waiting for a mutex, of joining, of ending;
- **unlocked writers**: the timer thread's `interrupt_flag |= 0x01`,
  `native_sleep`'s `th->status = prev_status`;
- **re-entrance**: a trap handler runs inside whatever the main thread was
  doing, also inside `join`;
- **partial failure**: an exception leaves a C function half way (a mutex that is
  being taken, a list node that is linked), `pthread_create` fails;
- **liveness**: who sleeps or waits must be woken, what is thrown at a thread
  must be taken, a signal must reach the main thread;
- **wakeups without memory**: the queues keep lists of sleeping threads in Ruby
  arrays and wake them by `Thread#wakeup`, which says nothing of which sleep it ends;
- **a heap that moves under the scan**: the collector never stops all threads; what
  a mutator stores, allocates, retains or reads weakly behind it has to be queued.

`PROJECT.json` lists each hazard at its line with the properties that cover it.

What makes each part correct:

- lock: exactly the thread that runs VM code holds it, and `GET_THREAD()` is it;
- interrupts: none is lost, and nothing thrown at a thread is forgotten;
- threads: `Thread#status` is right, the dead stay dead, joiners are woken, the
  process ends alone;
- signals: a signal received is executed by the main thread;
- mutex: a block of `synchronize` runs only with its mutex owned, an unlock is
  never lost, a waiter can be interrupted, `Mutex#sleep` comes back locked;
- queues: objects come out once and in order, whoever waits is announced in the
  list and is served;
- require: a file is loaded by one thread at a time, who waited for it gets it, and
  nobody waits for a thread that no longer loads;
- collector: when a scan ends, what the program can reach is marked; no stack, root
  or weak reference names a block that was freed.

## 2. The modules

### VMCore

State and steps every other module shares: `pc` (where each native thread is),
`ret` (where `RUBY_VM_CHECK_INTS()` returns to), `gvl`, `current`
(`ruby_current_thread` and `vm->running_thread`, which are always set together),
`status`, `prev_status`, `flag` (`interrupt_flag` as a set of bits), `thrown`
(`thrown_errinfo`) and `timer`, the timer thread's registers.

- `GvlLock`, `GvlUnlock`, `Holds` are the two halves of `GVL_UNLOCK_*` and
  running under the lock.
- `native_sleep`, `EnterWait`, `EndWait`, `RestoreStatus` and `RegainLock` are the
  five points at which `native_sleep` can be overtaken: it has let go of the lock;
  it has looked at `interrupt_flag` under `interrupt_lock`; it has left
  `pthread_cond_wait`; it has written its old status back; it has the lock.
- `TimerLoad` and `RubyVmSetTimerInterrupt` are the timer's tick. With
  `AtomicOr = TRUE` it is one step. With `FALSE` it is a load and a store, as
  compiled for ARM, and what another thread wrote in between is overwritten.

What a thread does under its own `interrupt_lock` or under a mutex's native lock
is one step: everything it touches is guarded by that lock, the timer's bit
excepted.

### RubyThread

`pc = "user"` is Ruby code. It may make any call in `Calls`; each call is an
action named after the C function, with the whole of the function's effect up
to the point where it gives the lock away. A call made from the VM ends in
`vm_call_method`'s poll (`pc = "ints"`); the poll's outcomes are `IntsReturn`,
`IntsThrow` (an exception of another thread), `IntsPass` (give way) and, in the
main thread, `signal_exec`, `rb_interrupt` and `rb_thread_signal_raise`. An
exception unwinds C frames in `Unwind`: the `rb_ensure` of `thread_join` takes
the thread off the list.

- *Joining.* The list of joiners is the code's own: a head in the thread being
  joined, one `join_list_next` per joiner. `JoinChain` is what a walk along it
  meets: the smallest set that holds the head and, with a thread, the next one
  (`HoldsList`). It is stated so, and not as a recursion, for the proofs' sake.
  `RemoveFromJoinList` the unlinking, and a walk that never ends is the program
  counter `"hang"`.
- *Ending.* `Finish`, `FinishRaise` (`abort_on_exception`, which can give the
  lock away) and `FinishWake`; `rb_thread_terminate_all`, `TerminateWait`,
  `TerminateDone` for the process.
- *Signals.* `sighandler` buffers, `TimerSignal` hands over, the main thread
  executes. `frame` is what a trap handler interrupted; `TrapReturn` and
  `TrapUnwind` go back to it.
- `Rescue` is the program handling an exception at any level.

Data is abstracted to what is told apart: an exception is `"exc"`, a kill
`"kill"` or `"terminate"`, an unwinding is `"exc"` or `"fatal"` (which cannot be
rescued); a time limit is a Boolean, since the clock may run out at any moment.

### RubyMutex

The mutex (`owner`, `cond_waiting`), the lock loop of `rb_mutex_lock` split where
another thread can come in (`EnterRegion`, `lock_func`, `WaitSpurious`,
`LeaveRegion`, `LockLoop`), `rb_mutex_unlock`, `rb_mutex_sleep` and its
`rb_ensure` (`SleepRelock`), `synchronize` of `prelude.rb` (`frames`, `Begin`,
`UnwindUnlock`), and the three ways to interrupt a waiter. The unblock function
in force is told by `pc`: between `set_unblock_function` and
`reset_unblock_function` it is `lock_interrupt`, in `native_sleep` the signal to
its condition variable. Threads exist from the start and end by `Finish`; joins
and process signals are `RubyThread`'s subject.

### FifoQueue and RubyQueue

`RubyQueue` is `lib/thread.rb` at the grain at which the interpreter can switch
threads: one method call on the queue's arrays or mutex is one step. `pc` names the
line a thread is at; `Inside` are the ones with `@mutex`. `PushTest`, `Sleep`,
`PushDo`, `PushShift`, `Wake`, `Run` are `SizedQueue#push` (and `Queue#push`, which
has no test); `PopTest`, `PopShift`, `RoomTest`, `RoomShift` are `pop`;
`set_max`, `MaxSet`, `MaxShift`, `MaxWake` are `max=`, which wakes outside the
mutex; `clear` takes no mutex at all. `wakeup` is a wakeup by a stranger, `kill`
and `Unwind` a thread that is killed anywhere, also on its way back from
`Mutex#sleep`.

The mutex and the sleep are abstract here: what `RubyMutex` and `RubyThread` check
and prove (a synchronized block runs alone, `OwnerRuns`; no wakeup is lost,
`NoLostWakeup`) is what `Lock`, `Relock`, `Sleep` and `Woken` assume.

`FifoQueue` is the abstract queue: a call begins, takes effect in one step and
returns. `ImplementsFifo` is the refinement: `items` is `@que`, and `OpOf` reads off
`pc` what a thread's call is up to; it takes effect at `@que.push`, at
`@que.shift` and at the assignment of `@max`. `cleared`, in both, remembers in
whose pop there was a `clear`, the one case in which a pop returns nil.

### RubyRequire

`rb_require_safe`. `features` is `$"`, `owner` and `waiting` are the barriers of
the loading table (an entry exists while its barrier has an owner), `stack` the
loads a thread is in, with what each body still requires. `load_lock` has its
three outcomes: load, go on (a thread meets a file it is loading itself), sleep.
A load ends with `Finish`, or without the feature (`GiveUp`) when the body raises or
the thread is killed, which it may be anywhere, in the middle of any load too.
`abandoned` is a history variable: the files of which a load was given up with a
thread waiting; a load that begins when nobody is left of those who load the file or
wait for it ends that (`Afresh`).
`load_unlock` deletes the entry and signals; `thlist_signal` wakes *everyone* on
the list, whatever they sleep for by now, and makes the first that is not dead the
owner. A waiter is `"chosen"`, `"woken"` or `"orphan"` (its barrier was deleted by a
thread that did not own it, and `rb_barrier_release` raised).

### ZoneCollector

`Zone::collect` with the mutators that run meanwhile. `mem` is what the scanned
locations hold (roots and fields of blocks), `stack` the blocks a thread's stack
and registers name, `weak` the weak locations, `refcount`, `age`, `cards` the
allocator's and the write barrier's side of a block.

- *Mutators.* `block_allocate`, `set_write_barrier`, `root_write_barrier`,
  `block_increment_refcount`, `block_decrement_refcount`,
  `assign_weak_reference`, `read_weak_reference` are the functions of these
  names; `Load` and `Drop` are what compiled code does without calling anyone.
  `auto_read_weak_reference` is also `ConditionClear` and then `LoadWeak`: it
  tests `_needs_enlivening` with no lock held.
- *The collector* goes through `phase`: the retained and old blocks, the roots, the
  stacks of running threads (of which any part may be seen), the transitive
  closure, each thread suspended with its own closure, and at last the enlivening
  queue with `_enlivening_lock` held. `reset_all_marks_and_pending` is the rescan
  after an overflow of the scan stack. `scavenge_blocks`,
  `weak_clear_references`, `free_garbage`, `collect_end` finish.
- *missed* and *lost* are history variables. The code leaves three ways to hold a
  block behind the collector's back: a write barrier does not enliven the value it
  overwrites, which a thread scanned before may have loaded; the weak read above;
  and the first retain of a small or medium block. An overwritten or weakly read
  block is missed only if a thread whose stack was scanned for the last time holds it
  and nothing that is marked or queued leads to it any more (`Overlooked`), so that
  an ordinary overwrite misses nothing; a retained one, if the pass over the blocks
  came by before and it is neither marked nor queued. The
  next collection, and a rescan, starts with nothing missed. What a collection puts
  on the garbage list although a missed block leads to it (`Led`) is lost, until it
  is allocated again, or found retained by `free_garbage`.

`Incremented` is what `inc_refcount_small_medium` *returns*, which for a small or
medium block's first retain is not the new count; see `zone_retain`.

### The MC modules

`MCThread`, `MCMutex`, `MCQueue`, `MCRequire` and `MCZone` name the threads, items,
files and blocks of the instances and the symmetry between those that are alike.
`MCRequire` has three files of which one requires the next.

### The proof modules

`RubyThreadProofs`, `RubyThreadWakeProofs`, `RubyThreadLifeProofs`,
`RubyThreadJoinProofs`, `RubyMutexProofs`, `RubyQueueProofs`, `RubyRequireProofs` and
`ZoneCollectorProofs`, see section 5.

Definitions whose comment begins with *Mutant* are variations of the one that
follows with a plausible mistake; they belong to no specification. For every
property of a passing run, `PROJECT.json` names one under which TLC finds the
property violated.

## 3. The runs

| Run | Instance | Checks | Distinct states |
|---|---|---|---|
| `life` | 2 threads, every call, with and without limits, failing `pthread_create`, end of the process | `TypeOK CurrentIsHolder ThrownIsFlagged NoSleepInterrupted StatusTellsTruth ExitAlone DeadIsForever` | 576,584 |
| `joiners` | 3 threads; join, wakeup, ends in every order | `NoOrphanJoiner NoHang` | 1.1 million |
| `live` | 2 threads; Kernel#raise, join, kill, `abort_on_exception` | `ThrownIsTaken JoinReturns` | 29,996 |
| `signals` | 2 threads; one signal; sleep, raise | `ThrownIsFlagged SignalIsTaken` | 98,196 |
| `mutex` | 3 threads, 1 mutex; synchronize, try_lock, Mutex#sleep, wakeup | `TypeOK OwnerRuns WaitersCounted NoStuckWaiter` | 1.3 million |
| `mutex_live` | 2 threads, 1 mutex; synchronize, wakeup, raise, kill | `OwnerRuns FreeIsTaken` | 10,402 |
| `queue` | SizedQueue of 1; 3 threads, of which 2 push, 2 pop, all set max to 2 and one is killed; 2 items; clear | `TypeOK PopperAnnounced ImplementsFifo` | 943,775 |
| `queue_live` | SizedQueue of 1, no `max=`; a producer, a thread that pushes and pops; stray wakeups, pops that do not wait | `PusherAnnounced PopperServed PusherServed ImplementsFifo` | 24,532 |
| `require` | 3 threads, 3 files in a chain, one an extension, one that may raise; wakeup and kill of a thread anywhere | `TypeOK TableOwned Serialized WaiterFindsFeature WaitEnds` | 37,883 |
| `zone` | a large and a small block of one field, a root, a weak location, a mutator; generational collections, in which blocks become old | `TypeOK AllReachableMarked NoDangling HeapMarked` | 3.8 million |
| `queue_stuck` | Queue; a producer, two consumers | `NoStuckPopper`: violated | |
| `zone_retain` | 2 small blocks, a root, a mutator | `RetainedMarked`: violated | |

What they show:

- `life`: however the calls of two threads interleave with each other and with
  the timer, exactly one thread runs VM code; no interrupt is lost on the way
  into sleep; what is thrown stays announced by its bit until it is taken; the
  status shown is right except while a thread comes back from sleep; the process
  does not go away under a running thread.
- `joiners`: a joiner that is woken goes back to sleep where it is on the list, one
  that the end of the process unwinds leaves it, and everyone behind is still
  found.
- `live`, `signals`, `mutex_live`: what must happen does, under the fairness below.
  `mutex_live` follows a thread from its wakeup to the mutex, through polls, raises
  and kills; that a free mutex with waiters has such a thread is `mutex`'s
  `NoStuckWaiter`, with three threads.
- `mutex`: `cond_waiting` may exceed the number of waiters (spurious wakeups raise
  it) but never falls below, and a free mutex with waiters always has somebody
  awake who will look at it.
- `queue`, `queue_live`: however calls interleave, an object is handed out once, in
  order, and a killed call takes effect once or not at all. A thread asleep in pop
  is always in its list or held by a thread about to wake it, and so is one asleep
  in push as long as nobody calls `max=`. With one producer, one consumer (which
  pushes as well) and neither `max=` nor `clear`, both are served; with two
  producers beside the consumer, a stale entry of one can swallow the other's wakeup,
  as in `queue_stuck`. The bound is the code's: `push` tests
  `@que.length <= @max` (`lib/thread.rb:295`), which admits one object more than the
  "maximum size of +max+" of the comment at line 244; `FifoQueue` has that bound,
  and so no run speaks of the comment's.
- `require`: with loaders killed and bodies that raise anywhere, a file is loaded by
  one thread at a time and found by everyone who waited for it, unless a load of it
  was given up while threads waited; then several may load it and a waiter may go on
  without it, until all of them are done. Every wait comes to an end either way.
- `zone`: through allocation, stores, retains, weak reads and an overflow of the
  scan stack, in any order and collection after collection, what is reachable when
  the scan ends is marked and nothing that is named is freed, except the blocks of
  which the code does not tell the collector (*missed* above) and what only they
  lead to. The run reaches all three ways to miss a block, and stacks that name one
  that was freed for that reason.

Two runs end in a violation, each a disagreement between the code and its own
words, quoted under `findings`:

1. `queue_stuck`: `push` wakes the consumer it took off the list twice, the second
   time after the block. If the consumer is by then in its next `pop`, that sleep
   ends, it enters itself again and its older entry remains; a later push wakes
   that entry, and another consumer sleeps on beside an object.
2. `zone_retain`: the first retain of a small or medium block does not enliven it,
   because the function that increments returns the old count. A block retained
   behind the collector and dropped from the stack is not marked. (`free_garbage`
   looks at the count again and does not free that block, but what only it
   references is unmarked too.)

### Divergences that are not runs

These properties state what a comment, a document or a test says; they are kept in
the modules, and TLC refutes each in the instance given:

| Property | Instance | What happens | Says otherwise |
|---|---|---|---|
| `KilledIsAborting` (`RubyThread`) | 2 threads; kill, sleep | `native_sleep` (`thread_pthread.c:466`) writes its old status over `THREAD_TO_KILL`; the killer may see "run" | `thread.c:1423`, `test/ruby/test_thread.rb:334` |
| `KillEndsSleep` (`RubyThread`) | 2 threads; kill, sleep; `AtomicOr = FALSE` | the timer's `\|=` (`thread.c:2066`), where it is a load and a store, erases the kill's bit | `thread.c:1027` |
| `JoinersWoken` (`RubyThread`) | 3 threads; join; one signal | a join made by a trap handler inside a join relinks the thread's only `join_list_next` (`thread.c:595`) | `thread.c:366` |
| `NoOrphanJoiner` (`RubyThread`) | 4 threads; `abort_on_exception` | a thread with the status `THREAD_KILLED` gives the lock away in `rb_thread_raise` (`thread.c:359`) before it wakes its joiners; one of them leaves, does not unlink itself, as the status says the list is done with (`thread.c:540`), and joins another thread: its `join_list_next` leads elsewhere and who is behind it is not woken | `thread.c:366` |
| `KillEndsWait` (`RubyMutex`) | 2 threads; synchronize, kill | a kill between `set_unblock_function` and the wait (`thread.c:2525`) finds `cond_waiting` at 0 and wakes nobody | `ChangeLog:13734`, `test/ruby/test_thread.rb:428` |
| `SleepReacquires` (`RubyMutex`) | 2 threads; synchronize, Mutex#sleep, raise | a second exception, thrown while the mutex is locked again (`thread.c:2602`), leaves `Mutex#sleep` without it | `ChangeLog:2468` |
| `PusherAnnounced`, `PusherServed` (`RubyQueue`) | SizedQueue; a producer, another thread that sets max from 1 to 2, `MaxLen = 4` | `max=` takes entries off `@queue_wait` without the mutex (`lib/thread.rb:277`), among them that of a producer between `@queue_wait.push` and `@mutex.sleep`; its `run` finds that producer awake, which then sleeps with no entry | `lib/thread.rb:287` |
| `PusherServed` (`RubyQueue`) | as `queue_live`, with clear | `clear` (`lib/thread.rb:212`) makes room and wakes nobody | `lib/thread.rb:287` |
| `LoadedOnce` (`RubyRequire`) | as `require`, nobody woken or killed | a waiter that is handed the barrier (`load.c:364`) loads the file without looking at `$"` again | `load.c:396` |
| `AllSerialized` (`RubyRequire`) | as `require`, nobody woken or killed; or nobody raising and one killed | after a body raised or its loader was killed, a waiter loads the file with no entry in the table (`load.c:562`), beside a newcomer | `load.c:353` |

Two of AutoZone's comments are met in the same way. `AutoMemoryScanner.cpp:707`
says that all reachable blocks will be marked; one that is missed, on a stack or
retained, may not be. `mark_cards_untouched` assigns to a card the
value it compares it with, so that cards stay touched: a generational collection
scans more than it needs, and loses nothing.

### Bounds, and why they are enough

- *Threads.* Everything but the lists of joiners and the queue of a mutex relates
  two threads (the interrupted one and the interrupter) and the timer. A list
  needs three: one joined, one that leaves, one behind it. A lost unlock needs an
  owner and two waiters.
- *Calls.* `life` allows all calls together; runs with three threads or liveness
  restrict `Calls` to the ones their property is about.
- *MaxSignals = 1.* A second signal would only interrupt the handler of the first.
- *MaxWaiting* bounds `cond_waiting`, which a spurious wakeup of
  `pthread_cond_wait` raises each time; it restricts only `WaitSpurious`, and 2
  lets the count exceed the waiters.
- *Limits* chooses sleeps and joins with a limit, without one, or both.
- *MaxLen* and *MaxStale* (`RubyQueue`) bound the length of the queue and the entries
  of the lists that belong to nobody who sleeps. They only keep a call or a stray
  wakeup from *beginning*. A SizedQueue of 1 holds 2 objects, the code's bound: with
  `MaxLen = 2` two producers can begin and one of them finds it full and sleeps, to be
  woken by a pop or by `max=`. Two stale entries are one more than it takes to swallow
  a wakeup.
- *Maxes = {2}* (`queue`): `max=` by every thread, from 1 to 2 with producers asleep,
  and from 2 to 2. A size that becomes smaller is left to the theorems.
- *Killable = {c}* (`queue`, `require`): one thread is killed, wherever it is. In
  `require` that it is one leaves somebody to go on: with a second one, all threads can
  be dead but one whose wait nobody ends any more (section 4).
- *MaxEntries* (`RubyRequire`) bounds a barrier's list when the program calls
  `require`; a woken thread may be on a list twice.
- *Blocks, Fields* (`ZoneCollector`): a block behind another one is what marking can
  miss; two blocks of one field make every shape of it, cycles included. The
  theorems of section 5 are for any heap and any number of mutators.
- *Large = {p}*: one block whose first retain is enlivened, one whose is not.
- *Modes = {TRUE}*: generational collections, which are full ones for the blocks that
  are not old yet. With both kinds the run is too long; full collections of old blocks
  are in `zone_retain` and in the theorems.
- *InitialAge = 1, MaxRetains = 1*: a block is young, then old; it is retained or
  not.

`NoStuckWaiter` is checked without raise and kill: a waiter that is signalled and
killed at once leaves with the signal, and the next waiter sleeps beside a free
mutex. `OwnerRuns` is checked without raise and `Mutex#sleep` together, where
`SleepReacquires` fails. `DeadIsForever` is checked without `abort_on_exception`.
`NoOrphanJoiner` and `NoHang` are checked without signals and without
`abort_on_exception`. With a signal, `rb_thread_signal_raise`, alone and with an
exception already thrown at it, waits for itself, and a trap handler may join inside
a join. With `abort_on_exception` (3 threads; join, wakeup, raise) a joiner leaves the
list in the window described in the table, `rb_thread_terminate_all` marks the ending
thread to be killed, which lets it be joined again, and the joiner that joins it again
becomes its own `join_list_next`: the walk that wakes the joiners does not end.

### Fairness

`FairSpec` assumes, and the code's scheduling justifies:

- weak fairness of C code that can run (`RunsUnderLock`, `SleepStep`, `Outside`,
  `MainStep`): native threads are scheduled;
- strong fairness of taking the global lock: Darwin's mutexes queue their
  waiters, and `rb_thread_schedule` yields after unlocking;
- strong fairness of polling: Ruby code polls at every call, branch and leave;
- strong fairness of ticks that fall into Ruby code, of polls that find nothing and,
  in `RubyMutex`, of taking the lock with no bit set: the timer ticks every 10 ms and
  so neither always inside the same few C functions nor between every two polls;
- weak fairness of `Rescue` and of the end of a thread, for a thread that unwinds
  (`RubyMutex`): an exception is rescued somewhere or ends its thread.

In `RubyQueue` every step of a call is weakly fair and taking the mutex strongly
fair, which rests on `FreeIsTaken` and on Darwin's queueing of waiters. In
`RubyRequire` the steps of a thread are weakly fair: threads are run, and the
bodies of files come to an end. `ZoneCollector` has no liveness property: nothing
obliges anybody to ask for a collection, and that a scan of finitely many blocks
ends is plain from its loops, which mark a block once.

Nothing obliges the Ruby program to make a call, end a block, end a thread or
leave a trap handler.

## 4. Deadlock

Deadlock is checked in every run but `queue` and `queue_live`. In `RubyThread` and `RubyMutex` the timer
keeps ticking until the process has ended, where `Exited` stutters, so it says
little by itself; that threads do not wait on one another for ever is what the
liveness properties and `NoHang`, `NoOrphanJoiner` and `NoStuckWaiter` are for. In
`require` it says that the three threads never all wait. In `queue` and `queue_live`
the system may really stop: a consumer is killed, or pushes to a full queue itself, and
everyone sleeps in push. (In `queue_live` also the bound on stale entries can keep the
last push from beginning.)

With a second killed thread `require` can end with a thread that waits for ever: it is
an orphan, forgotten by the thread that gave up the load it waited for, and all others
are dead. `WaitEnds` is not about it, as the file is `abandoned`, and it holds with two
killed threads too.

## 5. The proofs

The theorems about threads hold for every finite set of threads, every choice of
calls and limits, with and without signals, `abort_on_exception` and an atomic
`|=` (`CoreAssumption` and `ThreadAssumption`); the ones about the mutex for any
mutexes and finite set of threads (`MutexAssumption`), about the queue for any
threads, objects and sizes (`QueueAssumption`), about require for any threads, files
and dependencies between them (`RequireAssumption`), about the collector for any sets
of blocks, fields, roots, weak locations and mutators (`ConstantsOK`). TLC evaluates
these assumptions in the runs. A theorem that needs more says so in its statement;
each such hypothesis is one without which TLC refutes the property, as told below. TLC
checked every inductive invariant, with the hypotheses and without, before it was
proved.

### Threads

- **`TypeCorrect`** (`RubyThreadProofs`): `Spec => []TypeOK`. `TypeOK` is
  inductive. The proof has one lemma per group of actions. The operators that
  build new maps (`SetInterrupt`, `Woken`, `RemoveFromJoinList`, `Unwind`,
  `Schedule`) have typing lemmas of their own, which the actions cite.
- **`LockSafe`** (`RubyThreadProofs`): `Spec => []CurrentIsHolder`. Each
  action is shown to be one of three kinds of step: it *keeps* the lock's side of
  every thread, one thread *leaves* the VM's side and frees the lock, or one
  *enters* it and takes the lock and `ruby_current_thread`. Each kind preserves
  `CurrentIsHolder` given `TypeOK`. The classification is needed because `Woken`
  rewrites program counters of other threads: waking moves a thread only within
  the outside, which a lemma states once.
- **`NoLostWakeup`** (`RubyThreadWakeProofs`):
  `Spec => [](AtomicOr => NoSleepInterrupted /\ KillEndsSleep)`, and
  **`ThrownStaysFlagged`**: `Spec => [](AtomicOr => ThrownIsFlagged)`. Where the timer
  thread's `|=` is one access, no thread sleeps with an interrupt pending or with a
  kill thrown at it, and what is thrown stays announced by its bit until it is taken;
  that the condition is needed is shown in section 3. The invariant `WakeInv` joins
  the two, since the second is what a sleeper's clear flag means for what was thrown at
  it, and adds that the timer holds no old value of the flag, that nobody throws a
  kill at the main thread, and the order of a signal's stations (`SignalsOK`: what the
  main thread is to execute was taken from the buffer). Every step is shown to be one
  of two kinds: a thread moves, clearing at most its own flag for what it takes
  (`MoveWakes`), or it sets the bit in a set of threads and wakes the same set
  (`InterruptWakes`); going to sleep looks at the flag, and the timer only adds its
  bit.
- **`StatusIsTrue`**, **`ExitsAlone`**, **`DeathIsFinal`** (`RubyThreadLifeProofs`):
  `Spec => []StatusTellsTruth`, `Spec => []ExitAlone` and
  `~AbortOnException => (Spec => DeadIsForever)`. One invariant serves all three:
  `LifeInv` relates a thread's place in the code, the status shown, the status that
  `native_sleep` will put back and membership of `living_threads`; says where the main
  thread cannot be; and does the same for what a trap handler interrupted. The status
  put back is the part that is needed: `native_sleep` overwrites whatever was written
  meanwhile, so that only knowing the value it saved says what a thread returns with.
  With `abort_on_exception` a thread that has the status of a dead one still runs, in
  the middle of `rb_thread_raise`; `rb_thread_terminate_all` marks it to be killed and
  it counts as alive again, and so `DeathIsFinal` has its hypothesis.
- **`NoThreadHangs`** and **`JoinersAreFound`** (`RubyThreadJoinProofs`):
  `Spec => []NoHang` for `~AbortOnException` and `MaxSignals = 0`, and
  `Spec => []NoOrphanJoiner` where the timer's `|=` is one access as well (`AtomicOr`:
  a torn one erases the bit of the thread that is woken, and it sleeps on beside a
  dead thread). Section 3 tells what happens without the other two. `JoinInv` says
  that the joiners of a thread that has not ended are exactly `Threaded` on its list:
  every link leads on to a joiner of the same thread or to the end, no two lead to the
  same place, none leads back to the head, and the head leads to all. That a walk ends
  and meets everyone is said with sets (in every set of joiners some link leads out of
  the set; a set that holds the head and is closed is all of them), so that nothing
  needs induction over the list. Linking in front, unlinking the head and unlinking
  in the middle preserve it (`ThreadedFront`, `ThreadedTail`, `ThreadedPast`), and a
  walk along such a list meets the joiners and ends (`WalkMeetsJoiners`, `WalkEnds`).
  Every step enters one joiner, takes one off, or does not touch the lists; `LifeInv`
  gives that a thread whose list is still to be walked does not have the status of a
  dead one. `JoinersTold` adds that whoever is still in join on a thread that has
  ended has its interrupt bit set.

### Mutex

- **`MutexTyped`** (`RubyMutexProofs`): `Spec => []TypeOK`.
- **`WaitersAreCounted`**: `Spec => []WaitersCounted`, with raises, kills and spurious
  wakeups. The counting is of a finite set: each step that moves a thread to or from
  the wait changes `cond_waiting` by at least as much as it changes the cardinality.
- **`BlocksExclude`**:
  `~("raise" \in Calls /\ "Mutex#sleep" \in Calls) => (Spec => []OwnerRuns)`. Exactly
  the combination in which `SleepReacquires` fails (section 3) is excluded.
  `FramesOwned` says of every block a thread is in that its mutex is owned, that the
  thread is on its way back from `Mutex#sleep` on it, or that a kill took it out of
  there, in which case the thread only unwinds; `WantOK`, `ThrownOK` and `ErrOK` say
  what a thread knows while it locks and where an exception can be under way.
- **`NoUnlockIsLost`**: `{"raise", "kill"} \cap Calls = {} => (Spec => []NoStuckWaiter)`.
  Without the hypothesis a waiter leaves with the signal it was given (section 3,
  bounds). It uses `WaitersCounted`: an unlock that finds `cond_waiting` at 0 signals
  nobody, and then there is nobody to signal.

### Queue and SizedQueue

- **`QueueTyped`** (`RubyQueueProofs`): `Spec => []TypeOK`.
- **`QueueImplementsFifo`**: `Spec => ImplementsFifo`, the refinement, with no
  hypotheses: kills, stray wakeups, `max=` and the unlocked `clear` included. Every
  step is shown to be a step of `FifoQueue` or to leave its variables alone, given
  `QueueInv`: who is inside the block has the mutex (`Excluded`), what a thread keeps
  in `arg` fits where it is (`ArgOK`), and what it found out under the mutex is still
  true when it acts on it, unless there was a `clear` (`FoundOK`).
- **`PoppersAreAnnounced`**: `Killable \cap Pushers = {} => (Spec => []PopperAnnounced)`
  and **`PushersAreAnnounced`**:
  `Killable \cap Poppers = {} /\ Maxes = {} => (Spec => []PusherAnnounced)`. Who is
  killed between taking an entry off the list and waking its thread takes the wakeup
  with it; what `max=` does to a producer that is about to sleep is in section 3.

### Require

- **`RequireTyped`**, **`OwnersLoad`**, **`LoadsAreSerialized`**,
  **`WaitersFindTheFeature`** (`RubyRequireProofs`): `Spec` implies `[]TypeOK`,
  `[]TableOwned`, `[]Serialized` and `WaiterFindsFeature`, with no hypotheses; the
  requires may also form circles, every file may raise and every thread be killed
  anywhere. `Serialized` alone is far from inductive, since a waiter that is handed
  the barrier loads the file with no entry in the table. `FileOK` tells, of a file
  that is not `abandoned`, its two lives apart by `$"`: while it is not there, only
  the owner of its barrier loads it and nobody is chosen; once it is there, there is
  no barrier and at most one thread loads it or was chosen to, as only one is chosen
  when the barrier goes and nobody sleeps on the file again. A load that is given up
  with nobody waiting goes back to the first life; with somebody waiting the file is
  `abandoned`, until it is loaded with nobody left who loads it or wants it. `WaitInv`
  adds, for the waiters, that who sleeps is on the list and who was woken has the
  feature.

### Collector

- **`ZoneTyped`** (`ZoneCollectorProofs`): `Spec => []TypeOK`.
- **`HeapScanned`**: `Spec => []HeapMarked`, whatever the collector is not told of. `HeapMarked` speaks of the end of a scan; the invariant `HeapInv` says
  what holds on the way there: what a scanned location holds is marked or queued
  (`HeapKept`), the flags and the lock follow the phases (`FlagsOK`), a generational
  collection has marked the old blocks it came to (`OldKept`) and can skip the fields
  without a card because these are empty (`CardsOK`). At the end the queue and the
  scan stack are empty, and "marked or queued" is "marked".
- **`ReachableScanned`** and **`NothingDangles`**:
  `Spec => []AllReachableMarked` and `Spec => []NoDangling`, with no hypotheses: small
  and large blocks, both kinds of collection, and any number of them, whether or not
  an earlier one missed something. `SafeInv` adds `RetainedKept`, `StacksKept` and
  `GarbageApart`. `StacksKept` is the part that took finding: what a scanned thread
  holds need not be marked, queued or missed itself (it may have loaded it from a
  queued block that is not scanned yet), but what is leads to it (`Led`). `Led` is
  stated as membership of every set that encloses the blocks one starts from and is
  closed under references, so that nothing needs induction over paths (`LedBase`,
  `LedClosed`). When the scan ends, the queue is empty and what is marked leads only to
  what is marked (`HeapKept`), which leaves the missed blocks and what they lead to
  (`ScanComplete`). `GarbageApart` carries it through the sweep: what is named is in
  use (`InUse`), that is, not on `_garbage_list`, or was lost; since what is lost is
  closed under references too, the rest stays apart from it.

In each, one lemma per conjunct of the invariant has one step per action
(`TypeStep`, `FlagsStep`, `CardsStep`, `OldStep`, `HeapStep`, `RetainedStep`,
`StacksStep`, `GarbageStep`).

### What is only model-checked

What is under fairness, for good: liveness is out of the prover's reach
(`ThrownIsTaken`, `JoinReturns`, `SignalIsTaken`, `FreeIsTaken`, `PopperServed`,
`PusherServed`, `WaitEnds`). Every invariant and every action property of a passing
run is proved.

## 6. Not modelled

- `Thread#priority` (ignored natively), thread-locals, `ThreadGroup`, `$SAFE`,
  `set_trace_func`: a field each, under the lock.
- The cache of native threads and `atfork`.
- The ThreadErrors of recursive locking and of unlocking what one does not own;
  a mutex locked outside `synchronize` and kept.
- `rb_thread_raise`'s waiting its turn in `RubyMutex` (it is in `RubyThread`).
- `ConditionVariable` and `Monitor`; IO waits (`do_select`, `ubf_select`,
  `signal_thread_list`).
- In `RubyQueue`, a kill between the lock and the `begin` of `synchronize`, which
  leaves the mutex locked (it is in `RubyMutex`). In `RubyRequire`, the search of the
  load path, and files that require one another in a circle, on which two threads
  deadlock in the code too.
- In `ZoneCollector`: associative references, `auto_zone_write_barrier_memmove` (with
  the flag clear it copies after it has let the lock go, against its own comment),
  finalizers, resurrection and zombies, explicit deallocation, the hash table of
  `auto_weak.c`, threads that register or end during a collection, the requests to the
  collector thread, and the allocator's regions, subzones and free lists.
- The interpreter, the compiler and the parser, core classes, the Objective-C
  bridge, encodings, extensions: sequential under the lock, or third-party.

Most of the repository's lines are tables (encodings, transcoders), generated
parsers, vendored libraries and sequential classes: there is nothing in them for
these modules to say.

## 7. Plan

1. *Done*: `VMCore` and `RubyThread` with nine theorems, `RubyMutex` with four,
   `RubyQueue` with four, its refinement of `FifoQueue` among them, `RubyRequire` with
   four, `ZoneCollector` with four. Every invariant of a passing run
   is proved.
2. `ZoneRequests` (the collector thread and the requests to it) and threads that
   register with the zone while it scans.
3. `IOWait` (`do_select`, `ubf_select`, `signal_thread_list`): the list is edited
   by the waiter and walked by the timer thread; nobody is signalled after it left.
