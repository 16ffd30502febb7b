----------------------------- MODULE RubyQueue ------------------------------
(***************************************************************************)
(* Queue and SizedQueue of macruby/0.4/lib/thread.rb, step by step.        *)
(*                                                                         *)
(* The interpreter polls, and may run another thread, after every method   *)
(* call, so a step is one call on the queue's arrays or mutex; what can    *)
(* only be seen by a thread that has the mutex is not split further.       *)
(*                                                                         *)
(* The mutex and Mutex#sleep are what RubyMutex makes them.  Thread#wakeup *)
(* and #run end the sleep of a thread that is asleep, none being lost from *)
(* the moment the mutex is free (RubyThread's NoLostWakeup), and do        *)
(* nothing to one that is not, which clears its interrupt_flag when it     *)
(* next polls.  A kill between the lock and the begin of synchronize,      *)
(* which leaves the mutex locked (RubyMutex), is not repeated here.        *)
(***************************************************************************)
EXTENDS Naturals, Sequences, FiniteSets

CONSTANTS
    Threads,
    None,
    Items,          \* the objects that are pushed
    Sized,          \* SizedQueue or Queue
    InitialMax,     \* the argument of SizedQueue.new
    Maxes,          \* the arguments of max=
    Pushers,        \* the threads that push
    Poppers,        \* the threads that pop
    Killable,       \* the threads that are killed
    Calls,          \* the other calls the program makes
    MaxLen,         \* bound: a Queue's length when a push begins
    MaxStale        \* bound: entries of the lists not due to a sleeping thread

ASSUME QueueAssumption ==
    /\ None \notin Threads \cup Items
    /\ Sized \in BOOLEAN
    /\ InitialMax \in Nat \ {0} /\ Maxes \subseteq Nat
    /\ Pushers \cup Poppers \cup Killable \subseteq Threads
    /\ Calls \subseteq {"pop_nonblock", "clear", "wakeup"}
    /\ MaxLen \in Nat /\ MaxStale \in Nat

VARIABLES
    que,            \* @que
    waiting,        \* @waiting: threads that sleep in pop, or did
    queue_wait,     \* @queue_wait: threads that sleep in push, or did
    max,            \* @max
    mutex,          \* who has @mutex
    pc,             \* where each thread is
    arg,            \* a push's or max='s argument, a pop's value
    non_block,      \* the threads whose pop is not to wait
    tee,            \* the local variable t
    cleared         \* history: the threads during whose pop there was a clear

lists == <<waiting, queue_wait>>
locals == <<arg, non_block, tee, cleared>>
vars == <<que, lists, max, mutex, pc, locals>>

Asleep == {"push_sleep", "pop_sleep"}

\* The pcs at which a thread has @mutex.
Inside == {"push_test", "push_doze", "push_do", "push_shift", "push_wake",
           "pop_test", "pop_doze", "pop_shift",
           "room_test", "room_shift", "room_wake", "max_set"}

\* The pcs of a push that has not appended yet, and of a pop with no value yet.
InPush == {"push_lock", "push_test", "push_doze", "push_sleep", "push_relock",
           "push_do"}

InPop == {"pop_lock", "pop_test", "pop_doze", "pop_sleep", "pop_relock",
          "pop_shift"}

\* The pcs of a push that has appended and of a pop that has its value.
Pushed == {"push_shift", "push_wake", "push_run"}

Popped == {"room_lock", "room_test", "room_shift", "room_wake", "pop_run",
           "pop_done"}

PCs == Inside \cup Asleep \cup
       {"idle", "done", "push_lock", "push_relock", "push_run",
        "pop_lock", "pop_relock", "room_lock", "pop_run", "pop_done",
        "max_lock", "max_shift", "max_wake", "kill_relock", "unwind", "dead"}

Init ==
    /\ que = <<>>
    /\ waiting = <<>> /\ queue_wait = <<>>
    /\ max = InitialMax
    /\ mutex = None
    /\ pc = [t \in Threads |-> "idle"]
    /\ arg = [t \in Threads |-> None]
    /\ non_block = {}
    /\ tee = [t \in Threads |-> None]
    /\ cleared = {}

\* Bounds what begins, so that nothing that has begun is held up.
FewStale ==
    Len(waiting) + Len(queue_wait)
        <= Cardinality({t \in Threads : pc[t] \in Asleep}) + MaxStale

Goto(t, p) == pc' = [pc EXCEPT ![t] = p]

Moves(t, p, q) == pc[t] = p /\ Goto(t, q)

\* The rest of a block is done and synchronize unlocks.
Leaves(t, p) == mutex' = None /\ Goto(t, p)

\* The call is over, and its locals with it.
Forgets(t) ==
    /\ arg' = [arg EXCEPT ![t] = None]
    /\ tee' = [tee EXCEPT ![t] = None]
    /\ non_block' = non_block \ {t}
    /\ cleared' = cleared \ {t}

(***************************************************************************)
(* Thread#wakeup of u, which is not dead; q is the pc map the caller       *)
(* leaves.  The woken thread goes for the mutex.                           *)
(***************************************************************************)
\* Mutant: the thread sleeps on.
NotWoken(u, q) == q

Woken(u, q) ==
    [q EXCEPT ![u] = CASE @ = "push_sleep" -> "push_relock"
                       [] @ = "pop_sleep" -> "pop_relock"
                       [] OTHER -> @]

(***************************************************************************)
(* @mutex.lock, and the lock with which Mutex#sleep ends.  pop only leaves *)
(* the block, and with it the mutex, when it has slept.                    *)
(***************************************************************************)
\* Mutant: a lock that does not exclude.
LockAnyway(t) ==
    /\ mutex' = t
    /\ \/ Moves(t, "push_lock", IF Sized THEN "push_test" ELSE "push_do")
       \/ Moves(t, "pop_lock", "pop_test")
       \/ Moves(t, "room_lock", "room_test")
       \/ Moves(t, "max_lock", "max_set")
    /\ UNCHANGED <<que, lists, max, locals>>

Lock(t) ==
    /\ mutex = None /\ mutex' = t
    /\ \/ Moves(t, "push_lock", IF Sized THEN "push_test" ELSE "push_do")
       \/ Moves(t, "pop_lock", "pop_test")
       \/ Moves(t, "room_lock", "room_test")
       \/ Moves(t, "max_lock", "max_set")
    /\ UNCHANGED <<que, lists, max, locals>>

Relock(t) ==
    /\ mutex = None
    /\ \/ Moves(t, "push_relock", "push_test") /\ mutex' = t
       \/ Moves(t, "pop_relock", "pop_lock") /\ UNCHANGED mutex
       \/ Moves(t, "kill_relock", "unwind") /\ mutex' = t
    /\ UNCHANGED <<que, lists, max, locals>>

\* A call returns or raises.
Return(t) ==
    /\ pc[t] \in {"done", "pop_done"}
    /\ Goto(t, "idle")
    /\ Forgets(t)
    /\ UNCHANGED <<que, lists, max, mutex>>

(***************************************************************************)
(* push.                                                                   *)
(***************************************************************************)
push(t, v) ==
    /\ Moves(t, "idle", "push_lock")
    /\ Len(que) < MaxLen
    /\ FewStale
    /\ arg' = [arg EXCEPT ![t] = v]
    /\ UNCHANGED <<que, lists, max, mutex, non_block, tee, cleared>>

\* Mutant: the object is pushed however many there are.
NoRoomTest(t) ==
    /\ pc[t] = "push_test"
    /\ Goto(t, "push_do")
    /\ UNCHANGED <<que, lists, max, mutex, locals>>

\* Mutant: the thread sleeps without a word in @queue_wait.
WaitUnannounced(t) ==
    /\ pc[t] = "push_test"
    /\ Goto(t, IF Len(que) <= max THEN "push_do" ELSE "push_doze")
    /\ UNCHANGED <<que, lists, max, mutex, locals>>

\* break if @que.length <= @max
PushTest(t) ==
    /\ pc[t] = "push_test"
    /\ IF Len(que) <= max
       THEN Goto(t, "push_do") /\ UNCHANGED queue_wait
       ELSE /\ Goto(t, "push_doze")
            /\ queue_wait' = Append(queue_wait, t)
    /\ UNCHANGED <<que, waiting, max, mutex, locals>>

\* @mutex.sleep, of a push and of a pop.
Sleep(t) ==
    /\ \/ pc[t] = "push_doze" /\ Leaves(t, "push_sleep")
       \/ pc[t] = "pop_doze" /\ Leaves(t, "pop_sleep")
    /\ UNCHANGED <<que, lists, max, locals>>

\* @que.push obj
PushDo(t) ==
    /\ Moves(t, "push_do", "push_shift")
    /\ que' = Append(que, arg[t])
    /\ UNCHANGED <<lists, max, mutex, locals>>

\* t = @waiting.shift
PushShift(t) ==
    /\ pc[t] = "push_shift"
    /\ IF waiting = <<>>
       THEN Leaves(t, "done") /\ UNCHANGED <<waiting, tee>>
       ELSE /\ Goto(t, "push_wake")
            /\ tee' = [tee EXCEPT ![t] = Head(waiting)]
            /\ waiting' = Tail(waiting)
            /\ UNCHANGED mutex
    /\ UNCHANGED <<que, queue_wait, max, arg, non_block, cleared>>

\* t.wakeup if t, which raises ThreadError if t is dead: rescued by a retry.
Wake(t) ==
    /\ pc[t] \in {"push_wake", "room_wake"}
    /\ IF pc[tee[t]] = "dead"
       THEN /\ \/ Moves(t, "push_wake", "push_shift")
               \/ Moves(t, "room_wake", "room_shift")
            /\ UNCHANGED mutex
       ELSE /\ \/ /\ pc[t] = "push_wake"
                  /\ pc' = Woken(tee[t], [pc EXCEPT ![t] = "push_run"])
               \/ /\ pc[t] = "room_wake"
                  /\ pc' = Woken(tee[t], [pc EXCEPT ![t] = "pop_run"])
            /\ mutex' = None
    /\ UNCHANGED <<que, lists, max, locals>>

\* t.run if t, outside the block: the same thread is woken again.
Run(t) ==
    /\ pc[t] \in {"push_run", "pop_run"}
    /\ pc' = Woken(tee[t], [pc EXCEPT ![t] = "done"])
    /\ UNCHANGED <<que, lists, max, mutex, locals>>

(***************************************************************************)
(* pop.                                                                    *)
(***************************************************************************)
pop(t, nb) ==
    /\ Moves(t, "idle", "pop_lock")
    /\ non_block' = IF nb THEN non_block \cup {t} ELSE non_block
    /\ UNCHANGED <<que, lists, max, mutex, arg, tee, cleared>>

\* Mutant: the thread sleeps without a word in @waiting.
SleepUnannounced(t) ==
    /\ pc[t] = "pop_test"
    /\ Goto(t, IF que = <<>> THEN "pop_doze" ELSE "pop_shift")
    /\ UNCHANGED <<que, lists, max, mutex, locals>>

\* if @que.empty?, with the raise or the @waiting.push of its branch
PopTest(t) ==
    /\ pc[t] = "pop_test"
    /\ \/ /\ que # <<>>
          /\ Goto(t, "pop_shift")
          /\ UNCHANGED <<waiting, mutex>>
       \/ /\ que = <<>> /\ t \in non_block
          /\ Leaves(t, "done")
          /\ UNCHANGED waiting
       \/ /\ que = <<>> /\ t \notin non_block
          /\ Goto(t, "pop_doze")
          /\ waiting' = Append(waiting, t)
          /\ UNCHANGED mutex
    /\ UNCHANGED <<que, queue_wait, max, locals>>

\* return @que.shift, which is nil if there is nothing
PopShift(t) ==
    /\ pc[t] = "pop_shift"
    /\ IF que = <<>>
       THEN arg' = [arg EXCEPT ![t] = None] /\ UNCHANGED que
       ELSE arg' = [arg EXCEPT ![t] = Head(que)] /\ que' = Tail(que)
    /\ Leaves(t, IF Sized THEN "room_lock" ELSE "pop_done")
    /\ UNCHANGED <<lists, max, non_block, tee, cleared>>

\* if @que.length < @max
RoomTest(t) ==
    /\ pc[t] = "room_test"
    /\ IF Len(que) < max THEN Goto(t, "room_shift") /\ UNCHANGED mutex
                         ELSE Leaves(t, "pop_done")
    /\ UNCHANGED <<que, lists, max, locals>>

\* t = @queue_wait.shift
RoomShift(t) ==
    /\ pc[t] = "room_shift"
    /\ IF queue_wait = <<>>
       THEN Leaves(t, "pop_done") /\ UNCHANGED <<queue_wait, tee>>
       ELSE /\ Goto(t, "room_wake")
            /\ tee' = [tee EXCEPT ![t] = Head(queue_wait)]
            /\ queue_wait' = Tail(queue_wait)
            /\ UNCHANGED mutex
    /\ UNCHANGED <<que, waiting, max, arg, non_block, cleared>>

(***************************************************************************)
(* max=, which wakes as many pushers as there are new places, after it has *)
(* left the block: arg counts them.                                        *)
(***************************************************************************)
set_max(t, n) ==
    /\ Moves(t, "idle", "max_lock")
    /\ arg' = [arg EXCEPT ![t] = n]
    /\ UNCHANGED <<que, lists, max, mutex, non_block, tee, cleared>>

MaxSet(t) ==
    /\ pc[t] = "max_set"
    /\ max' = arg[t]
    /\ IF arg[t] <= max
       THEN Leaves(t, "done") /\ UNCHANGED arg
       ELSE /\ Leaves(t, "max_shift")
            /\ arg' = [arg EXCEPT ![t] = @ - max]
    /\ UNCHANGED <<que, lists, non_block, tee, cleared>>

\* Mutant: the loop does not end while nobody waits.
ShiftsPastDiff(t) ==
    /\ pc[t] = "max_shift"
    /\ \/ /\ arg[t] = 0
          /\ Goto(t, "done")
          /\ UNCHANGED <<queue_wait, arg, tee>>
       \/ /\ queue_wait = <<>>
          /\ arg' = [arg EXCEPT ![t] = @ - 1]
          /\ UNCHANGED <<pc, queue_wait, tee>>
    /\ UNCHANGED <<que, waiting, max, mutex, non_block, cleared>>

\* diff.times do t = @queue_wait.shift
MaxShift(t) ==
    /\ pc[t] = "max_shift"
    /\ \/ /\ arg[t] = 0
          /\ Goto(t, "done")
          /\ UNCHANGED <<queue_wait, arg, tee>>
       \/ /\ arg[t] > 0 /\ queue_wait = <<>>
          /\ arg' = [arg EXCEPT ![t] = @ - 1]
          /\ UNCHANGED <<pc, queue_wait, tee>>
       \/ /\ arg[t] > 0 /\ queue_wait # <<>>
          /\ Goto(t, "max_wake")
          /\ tee' = [tee EXCEPT ![t] = Head(queue_wait)]
          /\ queue_wait' = Tail(queue_wait)
          /\ UNCHANGED arg
    /\ UNCHANGED <<que, waiting, max, mutex, non_block, cleared>>

\* t.run if t, with a retry if it is dead
MaxWake(t) ==
    /\ pc[t] = "max_wake"
    /\ IF pc[tee[t]] = "dead"
       THEN Goto(t, "max_shift") /\ UNCHANGED arg
       ELSE /\ pc' = Woken(tee[t], [pc EXCEPT ![t] = "max_shift"])
            /\ arg' = [arg EXCEPT ![t] = @ - 1]
    /\ UNCHANGED <<que, lists, max, mutex, non_block, tee, cleared>>

(***************************************************************************)
(* Calls that do not take the mutex.                                       *)
(***************************************************************************)
\* Queue#clear
clear ==
    /\ que # <<>>
    /\ que' = <<>>
    /\ cleared' = cleared \cup {t \in Threads : pc[t] \in InPop}
    /\ UNCHANGED <<lists, max, mutex, pc, arg, non_block, tee>>

\* Somebody else's Thread#wakeup, or pthread_cond_wait returns for no reason.
wakeup(t) ==
    /\ pc[t] \in Asleep
    /\ FewStale
    /\ pc' = Woken(t, pc)
    /\ UNCHANGED <<que, lists, max, mutex, locals>>

(***************************************************************************)
(* Thread#kill: a thread that sleeps in Mutex#sleep locks the mutex before *)
(* it unwinds, any other unwinds where it is.  Until it is dead its status *)
(* is THREAD_TO_KILL, and wakeup does not raise.                           *)
(***************************************************************************)
kill(t) ==
    /\ pc[t] \notin {"kill_relock", "unwind", "dead"}
    /\ Goto(t, IF pc[t] \in Asleep THEN "kill_relock" ELSE "unwind")
    /\ UNCHANGED <<que, lists, max, mutex, locals>>

Unwind(t) ==
    /\ Moves(t, "unwind", "dead")
    /\ mutex' = IF mutex = t THEN None ELSE mutex
    /\ Forgets(t)
    /\ UNCHANGED <<que, lists, max>>

-----------------------------------------------------------------------------
\* A thread goes on with what it is doing.
Step(t) ==
    \/ Lock(t) \/ Relock(t) \/ Sleep(t) \/ Unwind(t)
    \/ PushTest(t) \/ PushDo(t) \/ PushShift(t) \/ Wake(t) \/ Run(t)
    \/ PopTest(t) \/ PopShift(t) \/ Return(t)
    \/ RoomTest(t) \/ RoomShift(t)
    \/ MaxSet(t) \/ MaxShift(t) \/ MaxWake(t)

Next ==
    \/ \E t \in Threads : Step(t)
    \/ \E t \in Pushers, v \in Items : push(t, v)
    \/ \E t \in Poppers : pop(t, FALSE)
    \/ "pop_nonblock" \in Calls /\ \E t \in Poppers : pop(t, TRUE)
    \/ Sized /\ \E t \in Threads, n \in Maxes : set_max(t, n)
    \/ "clear" \in Calls /\ clear
    \/ "wakeup" \in Calls /\ \E t \in Threads : wakeup(t)
    \/ \E t \in Killable : kill(t)

Spec == Init /\ [][Next]_vars

(***************************************************************************)
(* Every thread keeps being run, and gets the mutex if it is free again    *)
(* and again.  Nobody has to call anything.                                *)
(***************************************************************************)
FairSpec ==
    /\ Spec
    /\ \A t \in Threads : WF_vars(Step(t)) /\ SF_vars(Lock(t) \/ Relock(t))

-----------------------------------------------------------------------------
\* Every variable has its type.
TypeOK ==
    /\ que \in Seq(Items)
    /\ waiting \in Seq(Threads) /\ queue_wait \in Seq(Threads)
    /\ max \in Nat
    /\ mutex \in Threads \cup {None}
    /\ pc \in [Threads -> PCs]
    /\ arg \in [Threads -> Items \cup Nat \cup {None}]
    /\ non_block \subseteq Threads
    /\ tee \in [Threads -> Threads \cup {None}]
    /\ cleared \subseteq Threads

\* A thread that sleeps in pop, or is about to, is in @waiting or is being
\* woken: every push finds it.
PopperAnnounced ==
    \A t \in Threads :
        pc[t] \in {"pop_doze", "pop_sleep"} =>
            \/ \E i \in DOMAIN waiting : waiting[i] = t
            \/ \E s \in Threads : pc[s] = "push_wake" /\ tee[s] = t

\* The same of a thread that sleeps in SizedQueue#push and of every pop, as
\* long as nobody calls max=, which shifts @queue_wait without the mutex and
\* may take the entry of a thread that is not asleep yet and will be.
PusherAnnounced ==
    \A t \in Threads :
        pc[t] \in {"push_doze", "push_sleep"} =>
            \/ \E i \in DOMAIN queue_wait : queue_wait[i] = t
            \/ \E s \in Threads : pc[s] \in {"room_wake", "max_wake"} /\ tee[s] = t

\* Nobody is in the middle of a call, other than asleep.
Quiet == \A t \in Threads : pc[t] \in Asleep \cup {"idle", "dead"}

\* No thread is left asleep in pop when there is something to pop and nobody
\* is on the way to wake it.
NoStuckPopper ==
    Quiet /\ que # <<>> => \A t \in Threads : pc[t] # "pop_sleep"

\* A thread in pop gets something if something stays there for it.
PopperServed ==
    \A t \in Threads :
        pc[t] \in InPop /\ que # <<>> ~> pc[t] \notin InPop \/ que = <<>>

\* A thread in SizedQueue#push pushes if there is room for it.
PusherServed ==
    \A t \in Threads :
        (pc[t] \in InPush /\ Len(que) < max)
            ~> pc[t] \notin InPush \/ Len(que) >= max

\* What a call is up to, seen from outside, when its thread is at p: it takes
\* effect at @que.push, at @que.shift, or when max= assigns.
OpAt(p, value, popping) ==
    CASE p \in InPush -> <<"push", value>>
      [] p \in Pushed -> <<"pushed", None>>
      [] p \in InPop -> <<popping, None>>
      [] p \in Popped -> <<"popped", value>>
      [] p \in {"max_lock", "max_set"} -> <<"max=", value>>
      [] p \in {"idle", "done", "max_shift", "max_wake"} -> <<"none", None>>
      [] p \in {"kill_relock", "unwind", "dead"} -> <<"dead", None>>

PopOf(t) == IF t \in non_block THEN "pop_nonblock" ELSE "pop"

OpOf(t) == OpAt(pc[t], arg[t], PopOf(t))

Fifo == INSTANCE FifoQueue WITH
    items <- que, op <- [t \in Threads |-> OpOf(t)],
    cleared <- {t \in cleared : pc[t] \in InPop}

\* The queue behaves as one object whose operations are atomic (FifoQueue).
ImplementsFifo == Fifo!Spec
=============================================================================
