----------------------------- MODULE RubyMutex ------------------------------
(***************************************************************************)
(* Mutex#lock, try_lock, unlock, sleep and synchronize of                  *)
(* macruby/0.4/thread.c and prelude.rb, used by threads that wake, raise   *)
(* at and kill one another.                                                *)
(*                                                                         *)
(* A Ruby mutex is an owner guarded by a native mutex and a condition      *)
(* variable.  The sections under the native mutex are single steps: only   *)
(* pthread_cond_wait gives it away.  A waiting thread is outside the       *)
(* global VM lock, and the unblock function installed for it broadcasts.   *)
(*                                                                         *)
(* The Ruby program locks with synchronize, or with try_lock and an        *)
(* ensure: frames[t] are the mutexes whose blocks t is in.  Locking a      *)
(* mutex one owns and unlocking one one does not only raise ThreadError,   *)
(* and are left out, and so is rb_thread_raise's waiting for its turn.     *)
(***************************************************************************)
EXTENDS VMCore, FiniteSets

CONSTANTS
    Mutexes,
    Calls,          \* bound: the calls the Ruby program makes
    MaxWaiting      \* bound: cond_waiting, which spurious wakeups raise

AllCalls == {"synchronize", "try_lock", "Mutex#sleep", "wakeup", "raise",
             "kill"}

ASSUME MutexAssumption ==
    /\ IsFiniteSet(Threads)
    /\ None \notin Mutexes
    /\ Calls \subseteq AllCalls
    /\ MaxWaiting \in Nat

VARIABLES
    owner,          \* mutex->th
    cond_waiting,   \* mutex->cond_waiting
    want,           \* the mutex a thread's lock or sleep is about
    frames,         \* the synchronize blocks a thread is in
    errinfo         \* th->errinfo: what the thread is unwinding with

mutexVars == <<owner, cond_waiting, want, frames, errinfo>>
vars == <<coreVars, mutexVars>>

\* Program counters on the VM's side of the global lock.
VMSide == {"user", "ints", "lk_set", "lk_loop", "begin", "ms_lock", "unwind"}

\* Inside BLOCKING_REGION, with lock_interrupt as the unblock function.
InRegion == {"lk_func", "lk_wait", "lk_woken", "lk_gvl"}

PCs == VMSide \cup InRegion \cup
       {"yield", "sl_enter", "sl_wait", "sl_status", "sl_gvl", "dead"}

\* What RUBY_VM_CHECK_INTS() may return to.
Labels == {"user", "lk_set", "lk_loop", "begin", "ms_lock", "unwind"}

Init ==
    /\ CoreInit([t \in Threads |-> IF t = Main THEN "user" ELSE "yield"])
    /\ owner = [m \in Mutexes |-> None]
    /\ cond_waiting = [m \in Mutexes |-> 0]
    /\ want = [t \in Threads |-> None]
    /\ frames = [t \in Threads |-> {}]
    /\ errinfo = [t \in Threads |-> "nil"]

rb_thread_alone == Cardinality({t \in Threads : pc[t] # "dead"}) = 1

\* The threads in native_cond_wait(&mutex->cond).
Waiters(m) == {t \in Threads : pc[t] = "lk_wait" /\ want[t] = m}

\* A call from Ruby code ends with a poll of interrupt_flag.
Polls(t, r) ==
    /\ Goto(t, "ints")
    /\ ret' = [ret EXCEPT ![t] = r]

(***************************************************************************)
(* Locking.                                                                *)
(***************************************************************************)
\* Where rb_mutex_lock returns to: Mutex#sleep locks a mutex whose block the
\* thread is in, and goes on unwinding if it was left by an exception;
\* synchronize polls once more before it enters its block.
Locked(t, m) ==
    /\ owner' = [owner EXCEPT ![m] = t]
    /\ IF m \notin frames[t] THEN Polls(t, "begin") /\ UNCHANGED want
       ELSE /\ IF errinfo[t] = "nil" THEN Polls(t, "user")
                                     ELSE Goto(t, "unwind") /\ UNCHANGED ret
            /\ want' = [want EXCEPT ![t] = None]

\* rb_mutex_trylock takes a free mutex, as does the start of rb_mutex_lock.
rb_mutex_trylock(t, m) ==
    /\ pc[t] = "user" /\ Holds(t)
    /\ owner[m] # t
    /\ IF owner[m] = None
       THEN /\ owner' = [owner EXCEPT ![m] = t]
            /\ want' = [want EXCEPT ![t] = m]
            /\ Polls(t, "begin")
       ELSE Polls(t, "user") /\ UNCHANGED <<owner, want>>
    /\ UNCHANGED <<status, prev_status, flag, thrown, timer, cond_waiting,
                   frames, errinfo>>

rb_mutex_lock(t, m) ==
    /\ pc[t] = "user" /\ Holds(t)
    /\ owner[m] # t
    /\ want' = [want EXCEPT ![t] = m]
    /\ IF owner[m] = None
       THEN owner' = [owner EXCEPT ![m] = t] /\ Polls(t, "begin")
       ELSE Goto(t, "lk_set") /\ UNCHANGED <<owner, ret>>
    /\ UNCHANGED <<status, prev_status, flag, thrown, timer, cond_waiting,
                   frames, errinfo>>

\* The rb_mutex_lock that rb_ensure calls when the sleep of Mutex#sleep ends.
SleepRelock(t) ==
    /\ pc[t] = "ms_lock" /\ Holds(t)
    /\ IF owner[want[t]] = None
       THEN Locked(t, want[t])
       ELSE Goto(t, "lk_set") /\ UNCHANGED <<owner, ret, want>>
    /\ UNCHANGED <<status, prev_status, flag, thrown, timer, cond_waiting,
                   frames, errinfo>>

\* Mutant: set_unblock_function tries again without RUBY_VM_CHECK_INTS.
RetryUnpolled(t) ==
    /\ pc[t] = "lk_set"
    /\ \/ /\ flag[t] # {} /\ Holds(t)
          /\ UNCHANGED <<pc, ret, status, prev_status>>
       \/ /\ flag[t] = {} /\ GvlUnlock(t)
          /\ Goto(t, "lk_func")
          /\ prev_status' = [prev_status EXCEPT ![t] = status[t]]
          /\ status' = [status EXCEPT ![t] = "stopped"]
          /\ UNCHANGED ret
    /\ UNCHANGED <<flag, thrown, timer, mutexVars>>

\* BLOCKING_REGION: set_unblock_function looks at interrupt_flag first.
EnterRegion(t) ==
    /\ pc[t] = "lk_set"
    /\ \/ /\ flag[t] # {} /\ Holds(t)
          /\ Polls(t, "lk_set")
          /\ UNCHANGED <<status, prev_status>>
       \/ /\ flag[t] = {} /\ GvlUnlock(t)
          /\ Goto(t, "lk_func")
          /\ prev_status' = [prev_status EXCEPT ![t] = status[t]]
          /\ status' = [status EXCEPT ![t] = "stopped"]
          /\ UNCHANGED ret
    /\ UNCHANGED <<flag, thrown, timer, mutexVars>>

\* Mutant: the mutex is taken whoever owns it.
TakeAnyway(t) ==
    /\ owner' = [owner EXCEPT ![want[t]] = t]
    /\ Goto(t, "lk_gvl")
    /\ UNCHANGED cond_waiting

\* Mutant: cond_waiting is not counted up.
WaitUncounted(t) ==
    IF owner[want[t]] = None
    THEN /\ owner' = [owner EXCEPT ![want[t]] = t]
         /\ Goto(t, "lk_gvl")
         /\ UNCHANGED cond_waiting
    ELSE /\ Goto(t, "lk_wait")
         /\ UNCHANGED <<owner, cond_waiting>>

\* The head of lock_func's loop: take the mutex or wait.
TakeOrWait(t) ==
    LET m == want[t] IN
    IF owner[m] = None
    THEN /\ owner' = [owner EXCEPT ![m] = t]
         /\ Goto(t, "lk_gvl")
         /\ UNCHANGED cond_waiting
    ELSE /\ Goto(t, "lk_wait")
         /\ cond_waiting' = [cond_waiting EXCEPT ![m] = @ + 1]
         /\ UNCHANGED owner

lock_func(t) ==
    /\ \/ pc[t] = "lk_func" /\ TakeOrWait(t)
       \/ pc[t] = "lk_woken" /\ flag[t] = {} /\ TakeOrWait(t)
       \/ /\ pc[t] = "lk_woken" /\ flag[t] # {}
          /\ Goto(t, "lk_gvl")
          /\ UNCHANGED <<owner, cond_waiting>>
    /\ UNCHANGED <<ret, gvl, current, status, prev_status, flag, thrown, timer,
                   want, frames, errinfo>>

\* pthread_cond_wait may return for no reason.
WaitSpurious(t) ==
    /\ pc[t] = "lk_wait"
    /\ cond_waiting[want[t]] < MaxWaiting
    /\ Goto(t, "lk_woken")
    /\ UNCHANGED <<ret, gvl, current, status, prev_status, flag, thrown, timer,
                   mutexVars>>

\* The end of BLOCKING_REGION, which polls.
LeaveRegion(t) ==
    /\ pc[t] = "lk_gvl" /\ GvlLock(t)
    /\ Polls(t, "lk_loop")
    /\ status' = [status EXCEPT ![t] =
                    IF @ = "stopped" THEN prev_status[t] ELSE @]
    /\ prev_status' = [prev_status EXCEPT ![t] = "runnable"]
    /\ UNCHANGED <<flag, thrown, timer, mutexVars>>

\* while (mutex->th != th)
LockLoop(t) ==
    /\ pc[t] = "lk_loop" /\ Holds(t)
    /\ IF owner[want[t]] = t
       THEN Locked(t, want[t])
       ELSE Goto(t, "lk_set") /\ UNCHANGED <<owner, ret, want>>
    /\ UNCHANGED <<status, prev_status, flag, thrown, timer, cond_waiting,
                   frames, errinfo>>

\* synchronize has locked its mutex and enters its block.
Begin(t) ==
    /\ pc[t] = "begin" /\ Holds(t)
    /\ Goto(t, "user")
    /\ frames' = [frames EXCEPT ![t] = @ \cup {want[t]}]
    /\ want' = [want EXCEPT ![t] = None]
    /\ UNCHANGED <<ret, status, prev_status, flag, thrown, timer, owner,
                   cond_waiting, errinfo>>

(***************************************************************************)
(* Unlocking: one waiter is signalled, if cond_waiting says there is one.  *)
(* q is the program counter map the unlocking thread leaves.               *)
(***************************************************************************)
\* Mutant: nobody is signalled.
UnlockSilently(m, q) ==
    /\ owner' = [owner EXCEPT ![m] = None]
    /\ pc' = q
    /\ UNCHANGED cond_waiting

\* Mutant: whether anyone waits is not asked.
SignalUnasked(m, q) ==
    /\ owner' = [owner EXCEPT ![m] = None]
    /\ cond_waiting' = [cond_waiting EXCEPT ![m] = @ - 1]
    /\ IF Waiters(m) = {} THEN pc' = q
       ELSE \E w \in Waiters(m) : pc' = [q EXCEPT ![w] = "lk_woken"]

Unlocked(m, q) ==
    /\ owner' = [owner EXCEPT ![m] = None]
    /\ IF cond_waiting[m] > 0
       THEN /\ cond_waiting' = [cond_waiting EXCEPT ![m] = @ - 1]
            /\ IF Waiters(m) = {} THEN pc' = q
               ELSE \E w \in Waiters(m) : pc' = [q EXCEPT ![w] = "lk_woken"]
       ELSE pc' = q /\ UNCHANGED cond_waiting

\* The ensure of synchronize, when its block ends.
rb_mutex_unlock(t, m) ==
    /\ pc[t] = "user" /\ Holds(t)
    /\ m \in frames[t] /\ owner[m] = t
    /\ Unlocked(m, [pc EXCEPT ![t] = "ints"])
    /\ ret' = [ret EXCEPT ![t] = "user"]
    /\ frames' = [frames EXCEPT ![t] = @ \ {m}]
    /\ UNCHANGED <<status, prev_status, flag, thrown, timer, want, errinfo>>

\* The same when an exception leaves the block: `self.unlock rescue nil'.
UnwindUnlock(t, m) ==
    /\ pc[t] = "unwind" /\ Holds(t)
    /\ m \in frames[t]
    /\ IF owner[m] = t
       THEN Unlocked(m, [pc EXCEPT ![t] = "ints"])
       ELSE Goto(t, "ints") /\ UNCHANGED <<owner, cond_waiting>>
    /\ ret' = [ret EXCEPT ![t] = "unwind"]
    /\ frames' = [frames EXCEPT ![t] = @ \ {m}]
    /\ want' = [want EXCEPT ![t] = None]
    /\ UNCHANGED <<status, prev_status, flag, thrown, timer, errinfo>>

\* The program handles the exception, inside some of its blocks or outside.
Rescue(t) ==
    /\ pc[t] = "unwind" /\ Holds(t)
    /\ errinfo[t] = "exc"
    /\ Goto(t, "user")
    /\ errinfo' = [errinfo EXCEPT ![t] = "nil"]
    /\ want' = [want EXCEPT ![t] = None]
    /\ UNCHANGED <<ret, status, prev_status, flag, thrown, timer, owner,
                   cond_waiting, frames>>

\* A thread ends, with what it has locked outside synchronize still locked.
Finish(t) ==
    /\ t # Main
    /\ pc[t] \in {"user", "unwind"} /\ GvlUnlock(t)
    /\ frames[t] = {}
    /\ Goto(t, "dead")
    /\ status' = [status EXCEPT ![t] = "killed"]
    /\ UNCHANGED <<ret, prev_status, flag, thrown, timer, mutexVars>>

(***************************************************************************)
(* Mutex#sleep unlocks and sleeps without giving the lock away in between, *)
(* and then locks again, whatever ended the sleep.                         *)
(***************************************************************************)
rb_mutex_sleep(t, m) ==
    /\ pc[t] = "user" /\ GvlUnlock(t)
    /\ m \in frames[t] /\ owner[m] = t
    /\ Unlocked(m, [pc EXCEPT ![t] = "sl_enter"])
    /\ ret' = [ret EXCEPT ![t] = "ms_lock"]
    /\ prev_status' = [prev_status EXCEPT ![t] = status[t]]
    /\ status' = [status EXCEPT ![t] = "stopped"]
    /\ want' = [want EXCEPT ![t] = m]
    /\ UNCHANGED <<flag, thrown, timer, frames, errinfo>>

SleepEnter(t) == EnterWait(t) /\ UNCHANGED mutexVars

\* The sleep's limit, or no reason at all.
SleepEnd(t) == EndWait(t) /\ UNCHANGED mutexVars

SleepRestore(t) == RestoreStatus(t) /\ UNCHANGED mutexVars

SleepLeave(t) == RegainLock(t) /\ UNCHANGED mutexVars

(***************************************************************************)
(* Interrupting thread u: rb_thread_interrupt calls lock_interrupt, which  *)
(* wakes everyone who waits for the mutex u is after, or                   *)
(* ubf_pthread_cond_signal.                                                *)
(***************************************************************************)
lock_interrupt(u, q) ==
    IF pc[u] \in InRegion /\ cond_waiting[want[u]] > 0
    THEN /\ pc' = [s \in Threads |->
                    IF s \in Waiters(want[u]) THEN "lk_woken" ELSE q[s]]
         /\ cond_waiting' = [cond_waiting EXCEPT ![want[u]] = 0]
    ELSE /\ pc' = IF pc[u] = "sl_wait" THEN [q EXCEPT ![u] = "sl_status"]
                                       ELSE q
         /\ UNCHANGED cond_waiting

rb_thread_interrupt(t, u) ==
    /\ pc[t] = "user" /\ Holds(t)
    /\ flag' = SetInterrupt({u})
    /\ lock_interrupt(u, [pc EXCEPT ![t] = "ints"])
    /\ ret' = [ret EXCEPT ![t] = "user"]
    /\ UNCHANGED <<prev_status, timer, owner, want, frames, errinfo>>

rb_thread_wakeup(t, u) ==
    /\ status[u] # "killed"
    /\ rb_thread_interrupt(t, u)
    /\ UNCHANGED <<status, thrown>>

rb_thread_raise(t, u) ==
    /\ status[u] # "killed" /\ thrown[u] = "nil"
    /\ rb_thread_interrupt(t, u)
    /\ thrown' = [thrown EXCEPT ![u] = "exc"]
    /\ UNCHANGED status

rb_thread_kill(t, u) ==
    /\ u # Main /\ status[u] \notin {"to_kill", "killed"}
    /\ rb_thread_interrupt(t, u)
    /\ thrown' = [thrown EXCEPT ![u] = "kill"]
    /\ status' = [status EXCEPT ![u] = "to_kill"]

(***************************************************************************)
(* RUBY_VM_CHECK_INTS().                                                   *)
(***************************************************************************)
CheckInts(t) ==
    /\ pc[t] = "user" /\ Holds(t)
    /\ flag[t] # {}
    /\ Polls(t, "user")
    /\ UNCHANGED <<status, prev_status, flag, thrown, timer, mutexVars>>

IntsReturn(t) ==
    /\ pc[t] = "ints" /\ Holds(t)
    /\ flag[t] = {}
    /\ Goto(t, ret[t])
    /\ ret' = [ret EXCEPT ![t] = "user"]
    /\ UNCHANGED <<status, prev_status, flag, thrown, timer, mutexVars>>

\* `exception from another thread': the rb_ensure of Mutex#sleep locks before
\* the exception goes on, everything else unwinds at once.
IntsThrow(t) ==
    /\ pc[t] = "ints" /\ Holds(t)
    /\ flag[t] # {} /\ thrown[t] # "nil"
    /\ flag' = [flag EXCEPT ![t] = {}]
    /\ thrown' = [thrown EXCEPT ![t] = "nil"]
    /\ errinfo' = [errinfo EXCEPT ![t] = IF thrown[t] = "exc" THEN "exc"
                                                             ELSE "fatal"]
    /\ status' = [status EXCEPT ![t] = "runnable"]
    /\ Goto(t, IF ret[t] = "ms_lock" THEN "ms_lock" ELSE "unwind")
    /\ ret' = [ret EXCEPT ![t] = "user"]
    /\ UNCHANGED <<prev_status, timer, owner, cond_waiting, want, frames>>

IntsPass(t) ==
    /\ pc[t] = "ints" /\ gvl = t
    /\ flag[t] # {} /\ thrown[t] = "nil"
    /\ flag' = [flag EXCEPT ![t] = {}]
    /\ IF rb_thread_alone THEN UNCHANGED pc /\ Holds(t)
                          ELSE Goto(t, "yield") /\ GvlUnlock(t)
    /\ UNCHANGED <<ret, status, prev_status, thrown, timer, mutexVars>>

Yielded(t) ==
    /\ pc[t] = "yield" /\ GvlLock(t)
    /\ Goto(t, "ints")
    /\ UNCHANGED <<ret, status, prev_status, flag, thrown, timer, mutexVars>>

TimerTick ==
    /\ TimerLoad \/ RubyVmSetTimerInterrupt
    /\ UNCHANGED <<pc, ret, gvl, current, status, prev_status, thrown,
                   mutexVars>>

-----------------------------------------------------------------------------
UserStep(t) ==
    \/ \E m \in Mutexes :
        \/ "synchronize" \in Calls /\ rb_mutex_lock(t, m)
        \/ "try_lock" \in Calls /\ rb_mutex_trylock(t, m)
        \/ "Mutex#sleep" \in Calls /\ rb_mutex_sleep(t, m)
    \/ \E u \in Threads :
        \/ "wakeup" \in Calls /\ rb_thread_wakeup(t, u)
        \/ "raise" \in Calls /\ rb_thread_raise(t, u)
        \/ "kill" \in Calls /\ rb_thread_kill(t, u)

GetsLock(t) == Yielded(t) \/ SleepLeave(t) \/ LeaveRegion(t)

RunsUnderLock(t) ==
    \/ CheckInts(t) \/ IntsReturn(t) \/ IntsThrow(t) \/ IntsPass(t)
    \/ SleepRelock(t) \/ EnterRegion(t) \/ LockLoop(t) \/ Begin(t)
    \/ \E m \in Mutexes : UnwindUnlock(t, m)

Outside(t) == lock_func(t) \/ SleepEnter(t) \/ SleepRestore(t)

Next ==
    \/ \E t \in Threads :
        \/ UserStep(t)
        \/ \E m \in Mutexes : rb_mutex_unlock(t, m)
        \/ Rescue(t) \/ Finish(t)
        \/ GetsLock(t) \/ RunsUnderLock(t) \/ Outside(t)
        \/ SleepEnd(t) \/ WaitSpurious(t)
    \/ TimerTick

Spec == Init /\ [][Next]_vars

(***************************************************************************)
(* Fairness, as in RubyThread: native threads run, a thread that asks for  *)
(* the global lock while it is freed over and over gets it, the timer      *)
(* ticks in Ruby code and, with its 10 ms, neither between every two polls *)
(* nor during every wait for a lock that is free.  An exception unwinds to *)
(* where it is rescued or its thread ends.  Nothing obliges a block to     *)
(* end.                                                                    *)
(***************************************************************************)
Fairness ==
    /\ \A t \in Threads :
        /\ SF_vars(GetsLock(t))
        /\ SF_vars(flag[t] = {} /\ GetsLock(t))
        /\ SF_vars(CheckInts(t))
        /\ SF_vars(IntsReturn(t))
        /\ SF_vars(flag[t] = {} /\ EnterRegion(t))
        /\ WF_vars(RunsUnderLock(t))
        /\ WF_vars(pc[t] = "unwind" /\ (Rescue(t) \/ Finish(t)))
        /\ WF_vars(Outside(t))
    /\ SF_vars(pc[current] = "user" /\ TimerTick)

FairSpec == Spec /\ Fairness

-----------------------------------------------------------------------------
\* Every variable has its type.
TypeOK ==
    /\ pc \in [Threads -> PCs]
    /\ ret \in [Threads -> Labels]
    /\ gvl \in Threads \cup {None}
    /\ current \in Threads
    /\ status \in [Threads -> ThreadStatus]
    /\ prev_status \in [Threads -> ThreadStatus]
    /\ flag \in [Threads -> SUBSET Bits]
    /\ thrown \in [Threads -> Thrown]
    /\ timer \in [victim : Threads \cup {None}, bits : SUBSET Bits]
    /\ owner \in [Mutexes -> Threads \cup {None}]
    /\ cond_waiting \in [Mutexes -> Nat]
    /\ want \in [Threads -> Mutexes \cup {None}]
    /\ frames \in [Threads -> SUBSET Mutexes]
    /\ errinfo \in [Threads -> {"nil", "exc", "fatal"}]

\* The block of a synchronize runs only while its thread owns the mutex, so
\* that no two threads are in blocks of one mutex at a time.
OwnerRuns ==
    \A t \in Threads : pc[t] = "user" => \A m \in frames[t] : owner[m] = t

\* cond_waiting is never less than the number of threads that wait, so that
\* an unlock or an interrupt never takes the mutex to have no waiters.
WaitersCounted ==
    \A m \in Mutexes : Cardinality(Waiters(m)) <= cond_waiting[m]

\* A thread that will look at the mutex again before it waits.
Comes(t, m) ==
    /\ want[t] = m
    /\ \/ pc[t] \in {"lk_set", "lk_func", "lk_woken", "lk_gvl", "lk_loop"}
       \/ pc[t] \in {"ints", "yield"} /\ ret[t] \in {"lk_set", "lk_loop"}

\* No unlock is lost: when a mutex is free and threads wait for it, one of
\* those that want it is awake and will see that it is free.
NoStuckWaiter ==
    \A m \in Mutexes :
        owner[m] = None /\ Waiters(m) # {} => \E t \in Threads : Comes(t, m)

\* A free mutex that a thread comes for is taken, by it or by another, unless
\* an exception or a kill makes all that come give up: nothing that interrupts
\* a thread between its wakeup and the mutex keeps it from looking again.
\* With NoStuckWaiter, an unlock that threads wait for is followed by a lock.
FreeIsTaken ==
    \A m \in Mutexes :
        LET comes == \E t \in Threads : Comes(t, m) IN
        owner[m] = None /\ comes ~> owner[m] # None \/ ~comes

\* A thread that waits for a mutex can be killed.
KillEndsWait ==
    \A t \in Threads : pc[t] = "lk_wait" => thrown[t] # "kill"

\* An exception that ends Mutex#sleep leaves it with the mutex locked again.
SleepReacquires ==
    \A t \in Threads :
        pc[t] = "unwind" /\ want[t] \in frames[t] => owner[want[t]] = t
=============================================================================
