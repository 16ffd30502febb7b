-------------------------- MODULE RubyMutexProofs ---------------------------
(***************************************************************************)
(* Theorems about Mutex, for any set of threads and of mutexes.            *)
(***************************************************************************)
EXTENDS RubyMutex, FiniteSetTheorems, TLAPS

USE CoreAssumption, MutexAssumption

-----------------------------------------------------------------------------
(* The inductive invariant.                                                 *)

\* Where a thread is in the code that calls RUBY_VM_CHECK_INTS() or
\* native_sleep, while it is inside one of them.
At(t) ==
    IF pc[t] \in {"ints", "yield", "sl_enter", "sl_wait", "sl_status", "sl_gvl"}
    THEN ret[t] ELSE pc[t]

\* The pcs of rb_mutex_lock when the mutex was not free.
Locking == {"lk_set", "lk_func", "lk_wait", "lk_woken", "lk_gvl", "lk_loop"}

\* A thread that locks or sleeps knows its mutex; Mutex#sleep is called inside
\* the mutex's block.
WantOK(t) ==
    /\ At(t) \in Locking \cup {"begin", "ms_lock"} => want[t] \in Mutexes
    /\ At(t) = "ms_lock" => want[t] \in frames[t] /\ "Mutex#sleep" \in Calls
    /\ pc[t] \in {"sl_enter", "sl_wait", "sl_status", "sl_gvl"} => ret[t] = "ms_lock"

\* An exception that is thrown at a thread, or that it unwinds with, was raised.
ThrownOK(t) ==
    /\ thrown[t] = "exc" => "raise" \in Calls
    /\ errinfo[t] = "exc" => "raise" \in Calls

\* t is on the way back into a block that it left with Mutex#sleep.
Relocking(t) ==
    /\ "Mutex#sleep" \in Calls
    /\ At(t) \in Locking \cup {"ms_lock"}
    /\ want[t] \in frames[t]

\* A thread with an exception unwinds, or locks again first.
ErrOK(t) == errinfo[t] # "nil" => At(t) \in {"unwind", "dead"} \/ Relocking(t)

\* A thread owns the mutexes of its blocks, except the one it slept on, and
\* except when a kill has ended the locking after the sleep.
FramesOwned(t) ==
    /\ At(t) = "begin" => owner[want[t]] = t
    /\ \A m \in frames[t] :
        \/ owner[m] = t
        \/ Relocking(t) /\ want[t] = m
        \/ "Mutex#sleep" \in Calls /\ errinfo[t] = "fatal"

-----------------------------------------------------------------------------
(* What the steps do.                                                       *)

\* A step of t's: the others stay where they are, or are woken; t takes free
\* mutexes and gives up its own.
StepOf(t) ==
    /\ \A s \in Threads \ {t} :
        /\ \/ pc'[s] = pc[s]
           \/ pc[s] = "lk_wait" /\ pc'[s] = "lk_woken"
           \/ pc[s] = "sl_wait" /\ pc'[s] = "sl_status"
        /\ ret'[s] = ret[s] /\ want'[s] = want[s]
        /\ frames'[s] = frames[s] /\ errinfo'[s] = errinfo[s]
    /\ \A m \in Mutexes :
        owner'[m] = owner[m] \/ (owner[m] \in {None, t} /\ owner'[m] \in {None, t})

\* An unlock of m by t, which goes on at p: one waiter is signalled.
LEMMA UnlockedMoves ==
    ASSUME TypeOK, NEW t \in Threads, NEW m \in Mutexes, NEW p \in PCs,
           pc[t] # "lk_wait", Unlocked(m, [pc EXCEPT ![t] = p])
    PROVE  /\ pc' \in [Threads -> PCs] /\ pc'[t] = p
           /\ \A s \in Threads \ {t} :
                pc'[s] = pc[s] \/ (s \in Waiters(m) /\ pc'[s] = "lk_woken")
           /\ owner' = [owner EXCEPT ![m] = None]
           /\ cond_waiting' \in [Mutexes -> Nat]
           /\ \A k \in Mutexes \ {m} : cond_waiting'[k] = cond_waiting[k]
           /\ \/ cond_waiting[m] = 0 /\ cond_waiting'[m] = 0
              \/ /\ cond_waiting[m] > 0 /\ cond_waiting'[m] = cond_waiting[m] - 1
                 /\ Waiters(m) = {} \/ \E w \in Waiters(m) : w # t /\ pc'[w] = "lk_woken"
<1> DEFINE q == [pc EXCEPT ![t] = p]
<1>1. /\ q \in [Threads -> PCs] /\ q[t] = p /\ \A s \in Threads \ {t} : q[s] = pc[s]
      /\ "lk_woken" \in PCs
  BY DEF TypeOK, PCs, InRegion
<1>2. \A w \in Waiters(m) : w \in Threads \ {t}
  BY DEF Waiters
<1>3. cond_waiting[m] \in Nat /\ (cond_waiting[m] > 0 => cond_waiting[m] - 1 \in Nat)
      /\ (~(cond_waiting[m] > 0) => cond_waiting[m] = 0)
  BY DEF TypeOK
<1>4. owner' = [owner EXCEPT ![m] = None]
  BY DEF Unlocked
<1>5. CASE cond_waiting[m] > 0
  <2>1. cond_waiting' = [cond_waiting EXCEPT ![m] = @ - 1]
    BY <1>5 DEF Unlocked
  <2>2. CASE Waiters(m) = {}
    <3>1. pc' = q
      BY <1>5, <2>2 DEF Unlocked
    <3> HIDE DEF q
    <3> QED
      BY <1>1, <1>3, <1>4, <1>5, <2>1, <2>2, <3>1 DEF TypeOK
  <2>3. CASE Waiters(m) # {}
    <3>1. PICK w \in Waiters(m) : pc' = [q EXCEPT ![w] = "lk_woken"]
      BY <1>5, <2>3 DEF Unlocked
    <3>2. w \in Threads /\ w # t
      BY <1>2
    <3> HIDE DEF q
    <3> QED
      BY <1>1, <1>3, <1>4, <1>5, <2>1, <3>1, <3>2 DEF TypeOK
  <2> QED
    BY <2>2, <2>3
<1>6. CASE ~(cond_waiting[m] > 0)
  <2>1. pc' = q /\ cond_waiting' = cond_waiting
    BY <1>6 DEF Unlocked
  <2> HIDE DEF q
  <2> QED
    BY <1>1, <1>3, <1>4, <1>6, <2>1 DEF TypeOK
<1> QED
  BY <1>5, <1>6

\* rb_thread_interrupt by t, which goes on at RUBY_VM_CHECK_INTS().
Interrupts(t) ==
    /\ pc[t] = "user" /\ gvl = t
    /\ pc' \in [Threads -> PCs] /\ pc'[t] = "ints"
    /\ \A s \in Threads \ {t} :
        \/ pc'[s] = pc[s]
        \/ pc[s] = "lk_wait" /\ pc'[s] = "lk_woken"
        \/ pc[s] = "sl_wait" /\ pc'[s] = "sl_status"
    /\ cond_waiting' \in [Mutexes -> Nat]
    /\ \A k \in Mutexes :
        \/ cond_waiting'[k] = cond_waiting[k]
        \/ \A s \in Waiters(k) : pc'[s] = "lk_woken"
    /\ flag' \in [Threads -> SUBSET Bits]
    /\ ret' = [ret EXCEPT ![t] = "user"]
    /\ UNCHANGED <<gvl, current, prev_status, timer, owner, want, frames, errinfo>>

LEMMA InterruptMoves ==
    ASSUME TypeOK, \A s \in Threads : WantOK(s),
           NEW t \in Threads, NEW u \in Threads, rb_thread_interrupt(t, u)
    PROVE  Interrupts(t)
<1> DEFINE q == [pc EXCEPT ![t] = "ints"]
<1>1. pc[t] = "user"
  BY DEF rb_thread_interrupt
<1>2. /\ q \in [Threads -> PCs] /\ q[t] = "ints" /\ \A s \in Threads \ {t} : q[s] = pc[s]
      /\ "lk_woken" \in PCs /\ "sl_status" \in PCs
  BY DEF TypeOK, PCs, InRegion, VMSide
<1>3. flag' \in [Threads -> SUBSET Bits]
  BY DEF rb_thread_interrupt, SetInterrupt, TypeOK, Bits
<1>4. lock_interrupt(u, q)
  BY DEF rb_thread_interrupt
<1>5. /\ pc' \in [Threads -> PCs] /\ pc'[t] = "ints"
      /\ \A s \in Threads \ {t} :
            \/ pc'[s] = pc[s]
            \/ pc[s] = "lk_wait" /\ pc'[s] = "lk_woken"
            \/ pc[s] = "sl_wait" /\ pc'[s] = "sl_status"
      /\ cond_waiting' \in [Mutexes -> Nat]
      /\ \A k \in Mutexes :
            \/ cond_waiting'[k] = cond_waiting[k]
            \/ \A s \in Waiters(k) : pc'[s] = "lk_woken"
  <2>1. CASE pc[u] \in InRegion /\ cond_waiting[want[u]] > 0
    <3>1. want[u] \in Mutexes
      BY <2>1 DEF WantOK, At, InRegion, Locking
    <3>2. /\ pc' = [s \in Threads |->
                    IF s \in Waiters(want[u]) THEN "lk_woken" ELSE q[s]]
          /\ cond_waiting' = [cond_waiting EXCEPT ![want[u]] = 0]
      BY <1>4, <2>1 DEF lock_interrupt
    <3>3. t \notin Waiters(want[u]) /\ \A s \in Waiters(want[u]) : s \in Threads /\ pc[s] = "lk_wait"
      BY <1>1 DEF Waiters
    <3> HIDE DEF q
    <3>4. pc' \in [Threads -> PCs] /\ pc'[t] = "ints"
      BY <1>2, <3>2, <3>3
    <3>5. \A s \in Threads \ {t} : pc'[s] = pc[s] \/ (pc[s] = "lk_wait" /\ pc'[s] = "lk_woken")
      BY <1>2, <3>2, <3>3
    <3>6. /\ cond_waiting' \in [Mutexes -> Nat]
          /\ \A k \in Mutexes : cond_waiting'[k] = cond_waiting[k] \/ k = want[u]
      BY <3>1, <3>2 DEF TypeOK
    <3>7. \A s \in Waiters(want[u]) : pc'[s] = "lk_woken"
      BY <3>2, <3>3
    <3> QED
      BY <3>4, <3>5, <3>6, <3>7
  <2>2. CASE ~(pc[u] \in InRegion /\ cond_waiting[want[u]] > 0)
    <3>1. /\ pc' = IF pc[u] = "sl_wait" THEN [q EXCEPT ![u] = "sl_status"] ELSE q
          /\ cond_waiting' = cond_waiting
      BY <1>4, <2>2 DEF lock_interrupt
    <3> HIDE DEF q
    <3> QED
      BY <1>1, <1>2, <3>1 DEF TypeOK
  <2> QED
    BY <2>1, <2>2
<1> QED
  BY <1>1, <1>3, <1>5 DEF Interrupts, rb_thread_interrupt, Holds

\* Thread t unlocks m and goes on to p.
Unlocks(t, m, p) ==
    /\ m \in frames[t] /\ owner[m] = t
    /\ pc[t] \in {"user", "unwind"} /\ pc'[t] = p
    /\ pc' \in [Threads -> PCs]
    /\ \A s \in Threads \ {t} :
        pc'[s] = pc[s] \/ (pc[s] = "lk_wait" /\ pc'[s] = "lk_woken")
    /\ owner' = [owner EXCEPT ![m] = None]
    /\ cond_waiting' \in [Mutexes -> Nat]

LEMMA UnlockMoves ==
    ASSUME TypeOK, NEW t \in Threads, NEW m \in Mutexes, NEW p \in {"ints", "sl_enter"},
           Unlocked(m, [pc EXCEPT ![t] = p]),
           m \in frames[t], owner[m] = t, pc[t] \in {"user", "unwind"}
    PROVE  Unlocks(t, m, p)
<1>1. p \in PCs /\ pc[t] # "lk_wait"
  BY DEF PCs, VMSide
<1>2. \A s \in Waiters(m) : pc[s] = "lk_wait"
  BY DEF Waiters
<1> QED
  BY <1>1, <1>2, UnlockedMoves DEF Unlocks

\* A step of Next that thread t takes.
ThreadStep(t) ==
    \/ UserStep(t)
    \/ \E m \in Mutexes : rb_mutex_unlock(t, m)
    \/ Rescue(t) \/ Finish(t)
    \/ GetsLock(t) \/ RunsUnderLock(t) \/ Outside(t)
    \/ SleepEnd(t) \/ WaitSpurious(t)

LEMMA NextSteps == Next <=> (\E t \in Threads : ThreadStep(t)) \/ TimerTick
  BY DEF Next, ThreadStep

\* No step of t's does more to the others than wake them.
LEMMA StepsOf ==
    ASSUME TypeOK, \A s \in Threads : WantOK(s), NEW t \in Threads, ThreadStep(t)
    PROVE  StepOf(t)
<1>1. ASSUME NEW m \in Mutexes, rb_mutex_lock(t, m)
      PROVE  StepOf(t)
  BY <1>1 DEF rb_mutex_lock, Goto, Holds, Polls, StepOf, TypeOK
<1>2. ASSUME NEW m \in Mutexes, rb_mutex_trylock(t, m)
      PROVE  StepOf(t)
  BY <1>2 DEF rb_mutex_trylock, Goto, Holds, Polls, StepOf, TypeOK
<1>3. ASSUME NEW m \in Mutexes, "Mutex#sleep" \in Calls, rb_mutex_sleep(t, m)
      PROVE  StepOf(t)
  <2>1. Unlocks(t, m, "sl_enter")
    BY <1>3, UnlockMoves DEF rb_mutex_sleep
  <2> QED
    BY <1>3, <2>1 DEF rb_mutex_sleep, Unlocks, StepOf, TypeOK
<1>4. ASSUME NEW u \in Threads, rb_thread_wakeup(t, u)
      PROVE  StepOf(t)
  <2>1. Interrupts(t)
    BY <1>4, InterruptMoves DEF rb_thread_wakeup
  <2> QED
    BY <1>4, <2>1 DEF rb_thread_wakeup, Interrupts, StepOf, TypeOK
<1>5. ASSUME NEW u \in Threads, "raise" \in Calls, rb_thread_raise(t, u)
      PROVE  StepOf(t)
  <2>1. Interrupts(t)
    BY <1>5, InterruptMoves DEF rb_thread_raise
  <2> QED
    BY <1>5, <2>1 DEF rb_thread_raise, Interrupts, StepOf, TypeOK
<1>6. ASSUME NEW u \in Threads, rb_thread_kill(t, u)
      PROVE  StepOf(t)
  <2>1. Interrupts(t)
    BY <1>6, InterruptMoves DEF rb_thread_kill
  <2> QED
    BY <1>6, <2>1 DEF rb_thread_kill, Interrupts, StepOf, TypeOK
<1>7. ASSUME NEW m \in Mutexes, rb_mutex_unlock(t, m)
      PROVE  StepOf(t)
  <2>1. Unlocks(t, m, "ints")
    BY <1>7, UnlockMoves DEF rb_mutex_unlock
  <2> QED
    BY <1>7, <2>1 DEF rb_mutex_unlock, Unlocks, StepOf, TypeOK
<1>8. CASE Rescue(t)
  BY <1>8 DEF Rescue, Goto, Holds, StepOf, TypeOK
<1>9. CASE Finish(t)
  BY <1>9 DEF Finish, Goto, GvlUnlock, mutexVars, StepOf, TypeOK
<1>10. CASE Yielded(t)
  BY <1>10 DEF Yielded, Goto, GvlLock, mutexVars, StepOf, TypeOK
<1>11. CASE SleepLeave(t)
  BY <1>11 DEF SleepLeave, RegainLock, Goto, GvlLock, mutexVars, StepOf,
     TypeOK
<1>12. CASE LeaveRegion(t)
  BY <1>12 DEF LeaveRegion, Goto, GvlLock, Polls, mutexVars, StepOf, TypeOK
<1>13. CASE CheckInts(t)
  BY <1>13 DEF CheckInts, Goto, Holds, Polls, mutexVars, StepOf, TypeOK
<1>14. CASE IntsReturn(t)
  BY <1>14 DEF IntsReturn, Goto, Holds, mutexVars, StepOf, TypeOK
<1>15. CASE IntsThrow(t)
  BY <1>15 DEF IntsThrow, Goto, Holds, StepOf, TypeOK
<1>16. CASE IntsPass(t)
  BY <1>16 DEF IntsPass, Goto, Holds, GvlUnlock, mutexVars, StepOf, TypeOK
<1>17. CASE SleepRelock(t)
  BY <1>17 DEF SleepRelock, Goto, Holds, Polls, Locked, StepOf, TypeOK
<1>18. CASE EnterRegion(t)
  BY <1>18 DEF EnterRegion, Goto, Holds, Polls, GvlUnlock, mutexVars, StepOf,
     TypeOK
<1>19. CASE LockLoop(t)
  BY <1>19 DEF LockLoop, Goto, Holds, Polls, Locked, StepOf, TypeOK
<1>20. CASE Begin(t)
  BY <1>20 DEF Begin, Goto, Holds, StepOf, TypeOK
<1>21. ASSUME NEW m \in Mutexes, UnwindUnlock(t, m)
      PROVE  StepOf(t)
  <2>1. CASE owner[m] = t
    <3>1. Unlocks(t, m, "ints")
      BY <1>21, <2>1, UnlockMoves DEF UnwindUnlock
    <3> QED
      BY <1>21, <3>1 DEF UnwindUnlock, Unlocks, StepOf, TypeOK
  <2>2. CASE owner[m] # t
    BY <1>21, <2>2 DEF UnwindUnlock, Goto, StepOf, TypeOK
  <2> QED
    BY <2>1, <2>2
<1>22. CASE lock_func(t)
  BY <1>22 DEF lock_func, TakeOrWait, Goto, StepOf, TypeOK
<1>23. CASE SleepEnter(t)
  BY <1>23 DEF SleepEnter, EnterWait, Goto, notAsleep, mutexVars, StepOf,
     TypeOK
<1>24. CASE SleepRestore(t)
  BY <1>24 DEF SleepRestore, RestoreStatus, Goto, notAsleep, mutexVars,
     StepOf, TypeOK
<1>25. CASE SleepEnd(t)
  BY <1>25 DEF SleepEnd, EndWait, Goto, notAsleep, mutexVars, StepOf, TypeOK
<1>26. CASE WaitSpurious(t)
  BY <1>26 DEF WaitSpurious, Goto, mutexVars, StepOf, TypeOK
<1> QED
  BY <1>1, <1>2, <1>3, <1>4, <1>5, <1>6, <1>7, <1>8, <1>9, <1>10, <1>11,
     <1>12, <1>13, <1>14, <1>15, <1>16, <1>17, <1>18, <1>19, <1>20, <1>21,
     <1>22, <1>23, <1>24, <1>25, <1>26 DEF ThreadStep, UserStep, GetsLock,
     RunsUnderLock, Outside

-----------------------------------------------------------------------------
(* Each part of the invariant is kept by every step.                        *)

LEMMA TypeOfStep ==
    ASSUME TypeOK, \A s \in Threads : WantOK(s), NEW t \in Threads, ThreadStep(t)
    PROVE  TypeOK'
<1>1. ASSUME NEW m \in Mutexes, rb_mutex_lock(t, m)
      PROVE  TypeOK'
  BY <1>1 DEF rb_mutex_lock, Goto, Holds, Polls, TypeOK, PCs, VMSide,
     InRegion, Labels, WantOK, At, Locking, ThreadStatus
<1>2. ASSUME NEW m \in Mutexes, rb_mutex_trylock(t, m)
      PROVE  TypeOK'
  BY <1>2 DEF rb_mutex_trylock, Goto, Holds, Polls, TypeOK, PCs, VMSide,
     InRegion, Labels, WantOK, At, Locking, ThreadStatus
<1>3. ASSUME NEW m \in Mutexes, "Mutex#sleep" \in Calls, rb_mutex_sleep(t, m)
      PROVE  TypeOK'
  <2>1. Unlocks(t, m, "sl_enter")
    BY <1>3, UnlockMoves DEF rb_mutex_sleep
  <2> QED
    BY <1>3, <2>1 DEF rb_mutex_sleep, Unlocks, Holds, GvlUnlock, TypeOK, Labels,
       ThreadStatus
<1>4. ASSUME NEW u \in Threads, rb_thread_wakeup(t, u)
      PROVE  TypeOK'
  <2>1. Interrupts(t)
    BY <1>4, InterruptMoves DEF rb_thread_wakeup
  <2> QED
    BY <1>4, <2>1 DEF rb_thread_wakeup, Interrupts, TypeOK, Labels, ThreadStatus,
       Thrown
<1>5. ASSUME NEW u \in Threads, "raise" \in Calls, rb_thread_raise(t, u)
      PROVE  TypeOK'
  <2>1. Interrupts(t)
    BY <1>5, InterruptMoves DEF rb_thread_raise
  <2> QED
    BY <1>5, <2>1 DEF rb_thread_raise, Interrupts, TypeOK, Labels, ThreadStatus,
       Thrown
<1>6. ASSUME NEW u \in Threads, rb_thread_kill(t, u)
      PROVE  TypeOK'
  <2>1. Interrupts(t)
    BY <1>6, InterruptMoves DEF rb_thread_kill
  <2> QED
    BY <1>6, <2>1 DEF rb_thread_kill, Interrupts, TypeOK, Labels, ThreadStatus,
       Thrown
<1>7. ASSUME NEW m \in Mutexes, rb_mutex_unlock(t, m)
      PROVE  TypeOK'
  <2>1. Unlocks(t, m, "ints")
    BY <1>7, UnlockMoves DEF rb_mutex_unlock
  <2> QED
    BY <1>7, <2>1 DEF rb_mutex_unlock, Unlocks, Holds, GvlUnlock, TypeOK, Labels,
       ThreadStatus
<1>8. CASE Rescue(t)
  BY <1>8 DEF Rescue, Goto, Holds, TypeOK, PCs, VMSide, InRegion, Labels,
     WantOK, At, Locking, ThreadStatus
<1>9. CASE Finish(t)
  BY <1>9 DEF Finish, Goto, GvlUnlock, mutexVars, TypeOK, PCs, VMSide,
     InRegion, Labels, WantOK, At, Locking, ThreadStatus
<1>10. CASE Yielded(t)
  BY <1>10 DEF Yielded, Goto, GvlLock, mutexVars, TypeOK, PCs, VMSide,
     InRegion, Labels, WantOK, At, Locking, ThreadStatus
<1>11. CASE SleepLeave(t)
  BY <1>11 DEF SleepLeave, RegainLock, Goto, GvlLock, mutexVars, TypeOK, PCs,
     VMSide, InRegion, Labels, WantOK, At, Locking, ThreadStatus
<1>12. CASE LeaveRegion(t)
  BY <1>12 DEF LeaveRegion, Goto, GvlLock, Polls, mutexVars, TypeOK, PCs,
     VMSide, InRegion, Labels, WantOK, At, Locking, ThreadStatus
<1>13. CASE CheckInts(t)
  BY <1>13 DEF CheckInts, Goto, Holds, Polls, mutexVars, TypeOK, PCs, VMSide,
     InRegion, Labels, WantOK, At, Locking, ThreadStatus
<1>14. CASE IntsReturn(t)
  BY <1>14 DEF IntsReturn, Goto, Holds, mutexVars, TypeOK, PCs, VMSide,
     InRegion, Labels, WantOK, At, Locking, ThreadStatus
<1>15. CASE IntsThrow(t)
  <2>1. pc' \in [Threads -> PCs] /\ ret' \in [Threads -> Labels]
    BY <1>15 DEF IntsThrow, Goto, TypeOK, PCs, VMSide, Labels
  <2>2. /\ flag' \in [Threads -> SUBSET Bits] /\ thrown' \in [Threads -> Thrown]
        /\ status' \in [Threads -> ThreadStatus]
        /\ errinfo' \in [Threads -> {"nil", "exc", "fatal"}]
    BY <1>15 DEF IntsThrow, TypeOK, Thrown, ThreadStatus
  <2> QED
    BY <1>15, <2>1, <2>2 DEF IntsThrow, Holds, TypeOK
<1>16. CASE IntsPass(t)
  BY <1>16 DEF IntsPass, Goto, Holds, GvlUnlock, mutexVars, TypeOK, PCs,
     VMSide, InRegion, Labels, WantOK, At, Locking, ThreadStatus
<1>17. CASE SleepRelock(t)
  BY <1>17 DEF SleepRelock, Goto, Holds, Polls, Locked, TypeOK, PCs, VMSide,
     InRegion, Labels, WantOK, At, Locking, ThreadStatus
<1>18. CASE EnterRegion(t)
  BY <1>18 DEF EnterRegion, Goto, Holds, Polls, GvlUnlock, mutexVars, TypeOK,
     PCs, VMSide, InRegion, Labels, WantOK, At, Locking, ThreadStatus
<1>19. CASE LockLoop(t)
  BY <1>19 DEF LockLoop, Goto, Holds, Polls, Locked, TypeOK, PCs, VMSide,
     InRegion, Labels, WantOK, At, Locking, ThreadStatus
<1>20. CASE Begin(t)
  BY <1>20 DEF Begin, Goto, Holds, TypeOK, PCs, VMSide, InRegion, Labels,
     WantOK, At, Locking, ThreadStatus
<1>21. ASSUME NEW m \in Mutexes, UnwindUnlock(t, m)
      PROVE  TypeOK'
  <2>1. CASE owner[m] = t
    <3>1. Unlocks(t, m, "ints")
      BY <1>21, <2>1, UnlockMoves DEF UnwindUnlock
    <3> QED
      BY <1>21, <3>1 DEF UnwindUnlock, Unlocks, Holds, TypeOK, Labels
  <2>2. CASE owner[m] # t
    BY <1>21, <2>2 DEF UnwindUnlock, Goto, Holds, TypeOK, Labels, PCs, VMSide
  <2> QED
    BY <2>1, <2>2
<1>22. CASE lock_func(t)
  BY <1>22 DEF lock_func, TakeOrWait, Goto, TypeOK, PCs, VMSide, InRegion,
     Labels, WantOK, At, Locking, ThreadStatus
<1>23. CASE SleepEnter(t)
  BY <1>23 DEF SleepEnter, EnterWait, Goto, notAsleep, mutexVars, TypeOK, PCs,
     VMSide, InRegion, Labels, WantOK, At, Locking, ThreadStatus
<1>24. CASE SleepRestore(t)
  BY <1>24 DEF SleepRestore, RestoreStatus, Goto, notAsleep, mutexVars,
     TypeOK, PCs, VMSide, InRegion, Labels, WantOK, At, Locking, ThreadStatus
<1>25. CASE SleepEnd(t)
  BY <1>25 DEF SleepEnd, EndWait, Goto, notAsleep, mutexVars, TypeOK, PCs,
     VMSide, InRegion, Labels, WantOK, At, Locking, ThreadStatus
<1>26. CASE WaitSpurious(t)
  BY <1>26 DEF WaitSpurious, Goto, mutexVars, TypeOK, PCs, VMSide, InRegion,
     Labels, WantOK, At, Locking, ThreadStatus
<1> QED
  BY <1>1, <1>2, <1>3, <1>4, <1>5, <1>6, <1>7, <1>8, <1>9, <1>10, <1>11,
     <1>12, <1>13, <1>14, <1>15, <1>16, <1>17, <1>18, <1>19, <1>20, <1>21,
     <1>22, <1>23, <1>24, <1>25, <1>26 DEF ThreadStep, UserStep, GetsLock,
     RunsUnderLock, Outside

\* Every variable keeps its type.
LEMMA TypeStep ==
    ASSUME TypeOK, \A s \in Threads : WantOK(s), [Next]_vars
    PROVE  TypeOK'
<1>1. CASE TimerTick
  BY <1>1 DEF TimerTick, TimerLoad, RubyVmSetTimerInterrupt, TimerIdle, TypeOK,
     mutexVars, Bits
<1>2. CASE UNCHANGED vars
  BY <1>2 DEF vars, coreVars, mutexVars, TypeOK
<1> QED
  BY <1>1, <1>2, NextSteps, TypeOfStep

LEMMA WantOfStep ==
    ASSUME TypeOK, \A s \in Threads : WantOK(s), NEW t \in Threads, ThreadStep(t)
    PROVE  WantOK(t)'
<1>1. ASSUME NEW m \in Mutexes, rb_mutex_lock(t, m)
      PROVE  WantOK(t)'
  BY <1>1 DEF rb_mutex_lock, Goto, Holds, Polls, WantOK, At, Locking, TypeOK,
     PCs, VMSide, InRegion, Labels
<1>2. ASSUME NEW m \in Mutexes, rb_mutex_trylock(t, m)
      PROVE  WantOK(t)'
  BY <1>2 DEF rb_mutex_trylock, Goto, Holds, Polls, WantOK, At, Locking,
     TypeOK, PCs, VMSide, InRegion, Labels
<1>3. ASSUME NEW m \in Mutexes, "Mutex#sleep" \in Calls, rb_mutex_sleep(t, m)
      PROVE  WantOK(t)'
  <2>1. Unlocks(t, m, "sl_enter")
    BY <1>3, UnlockMoves DEF rb_mutex_sleep
  <2> QED
    BY <1>3, <2>1 DEF rb_mutex_sleep, Unlocks, WantOK, At, Locking, TypeOK
<1>4. ASSUME NEW u \in Threads, rb_thread_wakeup(t, u)
      PROVE  WantOK(t)'
  <2>1. Interrupts(t)
    BY <1>4, InterruptMoves DEF rb_thread_wakeup
  <2> QED
    BY <1>4, <2>1 DEF rb_thread_wakeup, Interrupts, TypeOK, WantOK, At, Locking
<1>5. ASSUME NEW u \in Threads, "raise" \in Calls, rb_thread_raise(t, u)
      PROVE  WantOK(t)'
  <2>1. Interrupts(t)
    BY <1>5, InterruptMoves DEF rb_thread_raise
  <2> QED
    BY <1>5, <2>1 DEF rb_thread_raise, Interrupts, TypeOK, WantOK, At, Locking
<1>6. ASSUME NEW u \in Threads, rb_thread_kill(t, u)
      PROVE  WantOK(t)'
  <2>1. Interrupts(t)
    BY <1>6, InterruptMoves DEF rb_thread_kill
  <2> QED
    BY <1>6, <2>1 DEF rb_thread_kill, Interrupts, TypeOK, WantOK, At, Locking
<1>7. ASSUME NEW m \in Mutexes, rb_mutex_unlock(t, m)
      PROVE  WantOK(t)'
  <2>1. Unlocks(t, m, "ints")
    BY <1>7, UnlockMoves DEF rb_mutex_unlock
  <2> QED
    BY <1>7, <2>1 DEF rb_mutex_unlock, Unlocks, WantOK, At, Locking, TypeOK
<1>8. CASE Rescue(t)
  BY <1>8 DEF Rescue, Goto, Holds, WantOK, At, Locking, TypeOK, PCs, VMSide,
     InRegion, Labels
<1>9. CASE Finish(t)
  BY <1>9 DEF Finish, Goto, GvlUnlock, mutexVars, WantOK, At, Locking, TypeOK,
     PCs, VMSide, InRegion, Labels
<1>10. CASE Yielded(t)
  BY <1>10 DEF Yielded, Goto, GvlLock, mutexVars, WantOK, At, Locking, TypeOK,
     PCs, VMSide, InRegion, Labels
<1>11. CASE SleepLeave(t)
  BY <1>11 DEF SleepLeave, RegainLock, Goto, GvlLock, mutexVars, WantOK, At,
     Locking, TypeOK, PCs, VMSide, InRegion, Labels
<1>12. CASE LeaveRegion(t)
  BY <1>12 DEF LeaveRegion, Goto, GvlLock, Polls, mutexVars, WantOK, At,
     Locking, TypeOK, PCs, VMSide, InRegion, Labels
<1>13. CASE CheckInts(t)
  BY <1>13 DEF CheckInts, Goto, Holds, Polls, mutexVars, WantOK, At, Locking,
     TypeOK, PCs, VMSide, InRegion, Labels
<1>14. CASE IntsReturn(t)
  BY <1>14 DEF IntsReturn, Goto, Holds, mutexVars, WantOK, At, Locking,
     TypeOK, PCs, VMSide, InRegion, Labels
<1>15. CASE IntsThrow(t)
  BY <1>15 DEF IntsThrow, Goto, Holds, WantOK, At, Locking, TypeOK, PCs,
     VMSide, InRegion, Labels
<1>16. CASE IntsPass(t)
  BY <1>16 DEF IntsPass, Goto, Holds, GvlUnlock, mutexVars, WantOK, At,
     Locking, TypeOK, PCs, VMSide, InRegion, Labels
<1>17. CASE SleepRelock(t)
  BY <1>17 DEF SleepRelock, Goto, Holds, Polls, Locked, WantOK, At, Locking,
     TypeOK, PCs, VMSide, InRegion, Labels
<1>18. CASE EnterRegion(t)
  BY <1>18 DEF EnterRegion, Goto, Holds, Polls, GvlUnlock, mutexVars, WantOK,
     At, Locking, TypeOK, PCs, VMSide, InRegion, Labels
<1>19. CASE LockLoop(t)
  BY <1>19 DEF LockLoop, Goto, Holds, Polls, Locked, WantOK, At, Locking,
     TypeOK, PCs, VMSide, InRegion, Labels
<1>20. CASE Begin(t)
  BY <1>20 DEF Begin, Goto, Holds, WantOK, At, Locking, TypeOK, PCs, VMSide,
     InRegion, Labels
<1>21. ASSUME NEW m \in Mutexes, UnwindUnlock(t, m)
      PROVE  WantOK(t)'
  <2>1. CASE owner[m] = t
    <3>1. Unlocks(t, m, "ints")
      BY <1>21, <2>1, UnlockMoves DEF UnwindUnlock
    <3> QED
      BY <1>21, <3>1 DEF UnwindUnlock, Unlocks, WantOK, At, Locking, TypeOK
  <2>2. CASE owner[m] # t
    BY <1>21, <2>2 DEF UnwindUnlock, Goto, WantOK, At, Locking, TypeOK
  <2> QED
    BY <2>1, <2>2
<1>22. CASE lock_func(t)
  BY <1>22 DEF lock_func, TakeOrWait, Goto, WantOK, At, Locking, TypeOK, PCs,
     VMSide, InRegion, Labels
<1>23. CASE SleepEnter(t)
  BY <1>23 DEF SleepEnter, EnterWait, Goto, notAsleep, mutexVars, WantOK, At,
     Locking, TypeOK, PCs, VMSide, InRegion, Labels
<1>24. CASE SleepRestore(t)
  BY <1>24 DEF SleepRestore, RestoreStatus, Goto, notAsleep, mutexVars,
     WantOK, At, Locking, TypeOK, PCs, VMSide, InRegion, Labels
<1>25. CASE SleepEnd(t)
  BY <1>25 DEF SleepEnd, EndWait, Goto, notAsleep, mutexVars, WantOK, At,
     Locking, TypeOK, PCs, VMSide, InRegion, Labels
<1>26. CASE WaitSpurious(t)
  BY <1>26 DEF WaitSpurious, Goto, mutexVars, WantOK, At, Locking, TypeOK,
     PCs, VMSide, InRegion, Labels
<1> QED
  BY <1>1, <1>2, <1>3, <1>4, <1>5, <1>6, <1>7, <1>8, <1>9, <1>10, <1>11,
     <1>12, <1>13, <1>14, <1>15, <1>16, <1>17, <1>18, <1>19, <1>20, <1>21,
     <1>22, <1>23, <1>24, <1>25, <1>26 DEF ThreadStep, UserStep, GetsLock,
     RunsUnderLock, Outside

\* What the others were doing they still do.
LEMMA OthersStay ==
    ASSUME TypeOK, NEW t \in Threads, StepOf(t), NEW s \in Threads \ {t}
    PROVE  /\ At(s)' = At(s) \/ (At(s)' \in Locking /\ At(s) \in Locking)
           /\ pc'[s] \in {"sl_enter", "sl_wait", "sl_status", "sl_gvl"}
                => pc[s] \in {"sl_enter", "sl_wait", "sl_status", "sl_gvl"}
           /\ ret'[s] = ret[s] /\ want'[s] = want[s]
           /\ frames'[s] = frames[s] /\ errinfo'[s] = errinfo[s]
  BY DEF StepOf, At, Locking

\* A thread that is in rb_mutex_lock or Mutex#sleep knows its mutex.
LEMMA WantStep ==
    ASSUME TypeOK, \A s \in Threads : WantOK(s), [Next]_vars
    PROVE  \A s \in Threads : WantOK(s)'
<1>1. ASSUME NEW t \in Threads, ThreadStep(t)
      PROVE  \A s \in Threads : WantOK(s)'
  <2>1. StepOf(t) /\ WantOK(t)'
    BY <1>1, StepsOf, WantOfStep
  <2>2. ASSUME NEW s \in Threads \ {t}
        PROVE  WantOK(s)'
    BY <2>1, OthersStay DEF WantOK, Locking
  <2> QED
    BY <2>1, <2>2
<1>2. CASE TimerTick \/ UNCHANGED vars
  BY <1>2 DEF TimerTick, vars, coreVars, mutexVars, WantOK, At
<1> QED
  BY <1>1, <1>2, NextSteps

LEMMA InitType == Init => TypeOK /\ \A s \in Threads : WantOK(s)
  BY DEF Init, CoreInit, TimerIdle, TypeOK, WantOK, At, Locking, PCs, VMSide, InRegion,
     Labels, ThreadStatus, Bits, Thrown

LEMMA TypeAlways == Spec => [](TypeOK /\ \A s \in Threads : WantOK(s))
<1>1. TypeOK /\ (\A s \in Threads : WantOK(s)) /\ [Next]_vars
        => TypeOK' /\ (\A s \in Threads : WantOK(s))'
  BY TypeStep, WantStep
<1> QED
  BY <1>1, InitType, PTL DEF Spec

\* Every variable keeps its type.
THEOREM MutexTyped == Spec => []TypeOK
  BY TypeAlways, PTL

-----------------------------------------------------------------------------
(* The waiters are counted.                                                 *)

\* cond_waiting of m is not too small.
Counted(m) == Cardinality(Waiters(m)) <= cond_waiting[m]

\* Only t can become a waiter.
LEMMA FewerWaiters ==
    ASSUME NEW t \in Threads, StepOf(t), NEW m \in Mutexes
    PROVE  /\ Waiters(m)' \subseteq Waiters(m) \cup {t}
           /\ pc'[t] # "lk_wait" => Waiters(m)' \subseteq Waiters(m)
  BY DEF StepOf, Waiters

LEMMA WaitersFinite ==
    ASSUME NEW m \in Mutexes
    PROVE  /\ IsFiniteSet(Waiters(m)) /\ IsFiniteSet(Waiters(m)')
           /\ Cardinality(Waiters(m)) \in Nat /\ Cardinality(Waiters(m)') \in Nat
<1>1. Waiters(m) \subseteq Threads /\ Waiters(m)' \subseteq Threads
  BY DEF Waiters
<1> QED
  BY <1>1, FS_Subset, FS_CardinalityType

\* With no more waiters and no smaller a count, the count is right.
LEMMA StillCounted ==
    ASSUME TypeOK, TypeOK', NEW m \in Mutexes, Counted(m),
           Waiters(m)' \subseteq Waiters(m), cond_waiting'[m] = cond_waiting[m]
    PROVE  Counted(m)'
<1>1. Cardinality(Waiters(m)') <= Cardinality(Waiters(m))
  BY WaitersFinite, FS_Subset
<1>2. cond_waiting[m] \in Nat
  BY DEF TypeOK
<1> QED
  BY <1>1, <1>2, WaitersFinite DEF Counted

\* An unlock takes one off the count, and a waiter out of the wait if there is
\* one.
LEMMA UnlockCounts ==
    ASSUME TypeOK, TypeOK', NEW t \in Threads, NEW m \in Mutexes, NEW p \in {"ints", "sl_enter"},
           StepOf(t), pc[t] # "lk_wait", Unlocked(m, [pc EXCEPT ![t] = p]),
           NEW k \in Mutexes, Counted(k)
    PROVE  Counted(k)'
<1>1. p \in PCs /\ pc'[t] = p
  <2>1. p \in PCs
    BY DEF PCs, VMSide
  <2> QED
    BY <2>1, UnlockedMoves
<1>2. Waiters(k)' \subseteq Waiters(k)
  BY <1>1, FewerWaiters
<1>3. CASE k # m \/ cond_waiting[m] = 0
  <2>1. cond_waiting'[k] = cond_waiting[k]
    BY <1>1, <1>3, UnlockedMoves
  <2> QED
    BY <1>2, <2>1, StillCounted
<1>4. CASE k = m /\ cond_waiting[m] # 0
  <2>1. /\ cond_waiting[m] \in Nat /\ cond_waiting[m] > 0
        /\ cond_waiting'[m] = cond_waiting[m] - 1
        /\ Waiters(m) = {} \/ \E w \in Waiters(m) : w # t /\ pc'[w] = "lk_woken"
    <3>1. cond_waiting[m] \in Nat
      BY DEF TypeOK
    <3> QED
      BY <1>1, <1>4, <3>1, UnlockedMoves
  <2>2. CASE Waiters(m) = {}
    <3>1. Waiters(m)' = {}
      BY <1>2, <1>4, <2>2
    <3>2. Cardinality(Waiters(m)') = 0
      BY <3>1, FS_EmptySet
    <3> QED
      BY <1>4, <2>1, <3>2 DEF Counted
  <2>3. ASSUME NEW w \in Waiters(m), pc'[w] = "lk_woken"
        PROVE  Counted(m)'
    <3>1. Waiters(m)' \subseteq Waiters(m) \ {w}
      BY <1>2, <1>4, <2>3 DEF Waiters
    <3>2. /\ Cardinality(Waiters(m) \ {w}) = Cardinality(Waiters(m)) - 1
          /\ IsFiniteSet(Waiters(m) \ {w})
      BY WaitersFinite, FS_RemoveElement
    <3>3. Cardinality(Waiters(m)') <= Cardinality(Waiters(m)) - 1
      BY <3>1, <3>2, FS_Subset
    <3> QED
      BY <1>4, <2>1, <3>3, WaitersFinite DEF Counted
  <2> QED
    BY <1>4, <2>1, <2>2, <2>3
<1> QED
  BY <1>3, <1>4

\* A thread that goes to wait counts itself.
LEMMA WaitCounts ==
    ASSUME TypeOK, TypeOK', NEW t \in Threads, lock_func(t), WantOK(t), StepOf(t),
           NEW k \in Mutexes, Counted(k)
    PROVE  Counted(k)'
<1>1. want[t] \in Mutexes /\ want' = want
  BY DEF lock_func, WantOK, At, Locking
<1>2. CASE pc'[t] # "lk_wait"
  <2>1. cond_waiting'[k] = cond_waiting[k]
    BY <1>2 DEF lock_func, TakeOrWait, Goto, TypeOK
  <2> QED
    BY <1>2, <2>1, FewerWaiters, StillCounted
<1>3. CASE pc'[t] = "lk_wait"
  <2>1. cond_waiting' = [cond_waiting EXCEPT ![want[t]] = @ + 1]
    BY <1>3 DEF lock_func, TakeOrWait, Goto, TypeOK
  <2>2. CASE k # want[t]
    <3>1. Waiters(k)' \subseteq Waiters(k)
      BY <1>1, <2>2, FewerWaiters DEF Waiters
    <3>2. cond_waiting'[k] = cond_waiting[k]
      BY <1>1, <2>1, <2>2 DEF TypeOK
    <3> QED
      BY <3>1, <3>2, StillCounted
  <2>3. CASE k = want[t]
    <3>1. Cardinality(Waiters(k) \cup {t}) <= Cardinality(Waiters(k)) + 1
      <4>1. Cardinality(Waiters(k) \cup {t}) \in {Cardinality(Waiters(k)), Cardinality(Waiters(k)) + 1}
        BY WaitersFinite, FS_AddElement
      <4> QED
        BY <4>1, WaitersFinite
    <3>2. IsFiniteSet(Waiters(k) \cup {t})
      BY WaitersFinite, FS_AddElement
    <3>3. Cardinality(Waiters(k)') <= Cardinality(Waiters(k) \cup {t})
      BY <3>2, FewerWaiters, FS_Subset
    <3>4. cond_waiting[k] \in Nat /\ cond_waiting'[k] = cond_waiting[k] + 1
      BY <2>1, <2>3 DEF TypeOK
    <3>5. Cardinality(Waiters(k) \cup {t}) \in Nat
      BY <3>2, FS_CardinalityType
    <3> QED
      BY <3>1, <3>3, <3>4, <3>5, WaitersFinite DEF Counted
  <2> QED
    BY <2>2, <2>3
<1> QED
  BY <1>2, <1>3

\* The other steps leave the counts alone and wait for nothing.
LEMMA CountedOfStep ==
    ASSUME TypeOK, TypeOK', \A s \in Threads : WantOK(s), NEW t \in Threads,
           ThreadStep(t), NEW k \in Mutexes, Counted(k)
    PROVE  Counted(k)'
<1> DEFINE Quiet == cond_waiting' = cond_waiting /\ pc'[t] # "lk_wait"
<1>0. StepOf(t) /\ (Quiet => Counted(k)')
  BY StepsOf, FewerWaiters, StillCounted
<1>1. ASSUME NEW m \in Mutexes, rb_mutex_lock(t, m)
      PROVE  Counted(k)'
  <2>1. Quiet
    BY <1>1 DEF rb_mutex_lock, Goto, Polls, TypeOK
  <2> QED
    BY <1>0, <2>1
<1>2. ASSUME NEW m \in Mutexes, rb_mutex_trylock(t, m)
      PROVE  Counted(k)'
  <2>1. Quiet
    BY <1>2 DEF rb_mutex_trylock, Goto, Polls, TypeOK
  <2> QED
    BY <1>0, <2>1
<1>3. ASSUME NEW m \in Mutexes, "Mutex#sleep" \in Calls, rb_mutex_sleep(t, m)
      PROVE  Counted(k)'
  BY <1>3, <1>0, UnlockCounts DEF rb_mutex_sleep
<1>4. ASSUME NEW u \in Threads, rb_thread_wakeup(t, u)
      PROVE  Counted(k)'
  <2>1. Interrupts(t)
    BY <1>4, InterruptMoves DEF rb_thread_wakeup
  <2>2. Waiters(k)' \subseteq Waiters(k)
    BY <1>0, <2>1, FewerWaiters DEF Interrupts
  <2>3. CASE cond_waiting'[k] = cond_waiting[k]
    BY <2>2, <2>3, StillCounted
  <2>4. CASE \A s \in Waiters(k) : pc'[s] = "lk_woken"
    <3>1. Waiters(k)' = {}
      BY <2>2, <2>4 DEF Waiters
    <3>2. Cardinality(Waiters(k)') = 0 /\ cond_waiting'[k] \in Nat
      BY <2>1, <3>1, FS_EmptySet DEF Interrupts
    <3> QED
      BY <3>2 DEF Counted
  <2> QED
    BY <2>1, <2>3, <2>4 DEF Interrupts
<1>5. ASSUME NEW u \in Threads, "raise" \in Calls, rb_thread_raise(t, u)
      PROVE  Counted(k)'
  <2>1. Interrupts(t)
    BY <1>5, InterruptMoves DEF rb_thread_raise
  <2>2. Waiters(k)' \subseteq Waiters(k)
    BY <1>0, <2>1, FewerWaiters DEF Interrupts
  <2>3. CASE cond_waiting'[k] = cond_waiting[k]
    BY <2>2, <2>3, StillCounted
  <2>4. CASE \A s \in Waiters(k) : pc'[s] = "lk_woken"
    <3>1. Waiters(k)' = {}
      BY <2>2, <2>4 DEF Waiters
    <3>2. Cardinality(Waiters(k)') = 0 /\ cond_waiting'[k] \in Nat
      BY <2>1, <3>1, FS_EmptySet DEF Interrupts
    <3> QED
      BY <3>2 DEF Counted
  <2> QED
    BY <2>1, <2>3, <2>4 DEF Interrupts
<1>6. ASSUME NEW u \in Threads, rb_thread_kill(t, u)
      PROVE  Counted(k)'
  <2>1. Interrupts(t)
    BY <1>6, InterruptMoves DEF rb_thread_kill
  <2>2. Waiters(k)' \subseteq Waiters(k)
    BY <1>0, <2>1, FewerWaiters DEF Interrupts
  <2>3. CASE cond_waiting'[k] = cond_waiting[k]
    BY <2>2, <2>3, StillCounted
  <2>4. CASE \A s \in Waiters(k) : pc'[s] = "lk_woken"
    <3>1. Waiters(k)' = {}
      BY <2>2, <2>4 DEF Waiters
    <3>2. Cardinality(Waiters(k)') = 0 /\ cond_waiting'[k] \in Nat
      BY <2>1, <3>1, FS_EmptySet DEF Interrupts
    <3> QED
      BY <3>2 DEF Counted
  <2> QED
    BY <2>1, <2>3, <2>4 DEF Interrupts
<1>7. ASSUME NEW m \in Mutexes, rb_mutex_unlock(t, m)
      PROVE  Counted(k)'
  BY <1>7, <1>0, UnlockCounts DEF rb_mutex_unlock
<1>8. CASE Rescue(t)
  <2>1. Quiet
    BY <1>8 DEF Rescue, Goto, TypeOK
  <2> QED
    BY <1>0, <2>1
<1>9. CASE Finish(t)
  <2>1. Quiet
    BY <1>9 DEF Finish, Goto, mutexVars, TypeOK
  <2> QED
    BY <1>0, <2>1
<1>10. CASE Yielded(t)
  <2>1. Quiet
    BY <1>10 DEF Yielded, Goto, mutexVars, TypeOK
  <2> QED
    BY <1>0, <2>1
<1>11. CASE SleepLeave(t)
  <2>1. Quiet
    BY <1>11 DEF SleepLeave, RegainLock, Goto, mutexVars, TypeOK
  <2> QED
    BY <1>0, <2>1
<1>12. CASE LeaveRegion(t)
  <2>1. Quiet
    BY <1>12 DEF LeaveRegion, Goto, Polls, mutexVars, TypeOK
  <2> QED
    BY <1>0, <2>1
<1>13. CASE CheckInts(t)
  <2>1. Quiet
    BY <1>13 DEF CheckInts, Goto, Polls, mutexVars, TypeOK
  <2> QED
    BY <1>0, <2>1
<1>14. CASE IntsReturn(t)
  <2>1. Quiet
    BY <1>14 DEF IntsReturn, Goto, mutexVars, TypeOK, Labels
  <2> QED
    BY <1>0, <2>1
<1>15. CASE IntsThrow(t)
  <2>1. Quiet
    BY <1>15 DEF IntsThrow, Goto, TypeOK
  <2> QED
    BY <1>0, <2>1
<1>16. CASE IntsPass(t)
  <2>1. Quiet
    BY <1>16 DEF IntsPass, Goto, mutexVars, TypeOK
  <2> QED
    BY <1>0, <2>1
<1>17. CASE SleepRelock(t)
  <2>1. Quiet
    BY <1>17 DEF SleepRelock, Goto, Polls, Locked, TypeOK
  <2> QED
    BY <1>0, <2>1
<1>18. CASE EnterRegion(t)
  <2>1. Quiet
    BY <1>18 DEF EnterRegion, Goto, Polls, mutexVars, TypeOK
  <2> QED
    BY <1>0, <2>1
<1>19. CASE LockLoop(t)
  <2>1. Quiet
    BY <1>19 DEF LockLoop, Goto, Polls, Locked, TypeOK
  <2> QED
    BY <1>0, <2>1
<1>20. CASE Begin(t)
  <2>1. Quiet
    BY <1>20 DEF Begin, Goto, TypeOK
  <2> QED
    BY <1>0, <2>1
<1>21. ASSUME NEW m \in Mutexes, UnwindUnlock(t, m)
      PROVE  Counted(k)'
  <2>1. CASE owner[m] = t
    BY <1>21, <1>0, <2>1, UnlockCounts DEF UnwindUnlock
  <2>2. CASE owner[m] # t
    BY <1>21, <1>0, <2>2 DEF UnwindUnlock, Goto, TypeOK
  <2> QED
    BY <2>1, <2>2
<1>22. CASE lock_func(t)
  BY <1>22, <1>0, WaitCounts
<1>23. CASE SleepEnter(t)
  <2>1. Quiet
    BY <1>23 DEF SleepEnter, EnterWait, Goto, notAsleep, mutexVars, TypeOK
  <2> QED
    BY <1>0, <2>1
<1>24. CASE SleepRestore(t)
  <2>1. Quiet
    BY <1>24 DEF SleepRestore, RestoreStatus, Goto, notAsleep, mutexVars, TypeOK
  <2> QED
    BY <1>0, <2>1
<1>25. CASE SleepEnd(t)
  <2>1. Quiet
    BY <1>25 DEF SleepEnd, EndWait, Goto, notAsleep, mutexVars, TypeOK
  <2> QED
    BY <1>0, <2>1
<1>26. CASE WaitSpurious(t)
  <2>1. Quiet
    BY <1>26 DEF WaitSpurious, Goto, mutexVars, TypeOK
  <2> QED
    BY <1>0, <2>1
<1> QED
  BY <1>1, <1>2, <1>3, <1>4, <1>5, <1>6, <1>7, <1>8, <1>9, <1>10, <1>11,
     <1>12, <1>13, <1>14, <1>15, <1>16, <1>17, <1>18, <1>19, <1>20, <1>21,
     <1>22, <1>23, <1>24, <1>25, <1>26 DEF ThreadStep, UserStep, GetsLock,
     RunsUnderLock, Outside

LEMMA CountedStep ==
    ASSUME TypeOK, TypeOK', \A s \in Threads : WantOK(s), WaitersCounted, [Next]_vars
    PROVE  WaitersCounted'
<1>1. ASSUME NEW t \in Threads, ThreadStep(t)
      PROVE  WaitersCounted'
  BY <1>1, CountedOfStep DEF WaitersCounted, Counted
<1>2. CASE TimerTick \/ UNCHANGED vars
  BY <1>2 DEF TimerTick, vars, coreVars, mutexVars, WaitersCounted, Waiters
<1> QED
  BY <1>1, <1>2, NextSteps

\* cond_waiting is never less than the number of threads in the wait, so that
\* an unlock signals and an interrupt broadcasts whenever somebody waits.
THEOREM WaitersAreCounted == Spec => []WaitersCounted
<1>1. Init => WaitersCounted
  <2> SUFFICES ASSUME Init, NEW m \in Mutexes
               PROVE  Cardinality(Waiters(m)) <= cond_waiting[m]
    BY DEF WaitersCounted
  <2>1. Waiters(m) = {}
    BY DEF Init, CoreInit, Waiters
  <2>2. Cardinality(Waiters(m)) = 0
    BY <2>1, FS_EmptySet
  <2> QED
    BY <2>2 DEF Init
<1>2. /\ TypeOK /\ \A s \in Threads : WantOK(s)
      /\ TypeOK' /\ WaitersCounted /\ [Next]_vars
      => WaitersCounted'
  BY CountedStep
<1> QED
  BY <1>1, <1>2, TypeAlways, PTL DEF Spec

-----------------------------------------------------------------------------
(* A block of synchronize runs while its thread owns the mutex.             *)

\* What is raised at a thread, or it unwinds with, somebody raised.
LEMMA ThrownStep ==
    ASSUME TypeOK, \A s \in Threads : ThrownOK(s), [Next]_vars
    PROVE  \A s \in Threads : ThrownOK(s)'
<1>1. ASSUME NEW t \in Threads, ThreadStep(t)
      PROVE  \A s \in Threads : ThrownOK(s)'
  <2>1. ASSUME NEW m \in Mutexes, rb_mutex_lock(t, m)
        PROVE  \A s \in Threads : ThrownOK(s)'
    BY <2>1 DEF rb_mutex_lock, ThrownOK, TypeOK
  <2>2. ASSUME NEW m \in Mutexes, rb_mutex_trylock(t, m)
        PROVE  \A s \in Threads : ThrownOK(s)'
    BY <2>2 DEF rb_mutex_trylock, ThrownOK, TypeOK
  <2>3. ASSUME NEW m \in Mutexes, "Mutex#sleep" \in Calls, rb_mutex_sleep(t, m)
        PROVE  \A s \in Threads : ThrownOK(s)'
    BY <2>3 DEF rb_mutex_sleep, ThrownOK, TypeOK
  <2>4. ASSUME NEW u \in Threads, rb_thread_wakeup(t, u)
        PROVE  \A s \in Threads : ThrownOK(s)'
    BY <2>4 DEF rb_thread_wakeup, rb_thread_interrupt, ThrownOK, TypeOK
  <2>5. ASSUME NEW u \in Threads, "raise" \in Calls, rb_thread_raise(t, u)
        PROVE  \A s \in Threads : ThrownOK(s)'
    BY <2>5 DEF rb_thread_raise, rb_thread_interrupt, ThrownOK, TypeOK
  <2>6. ASSUME NEW u \in Threads, rb_thread_kill(t, u)
        PROVE  \A s \in Threads : ThrownOK(s)'
    BY <2>6 DEF rb_thread_kill, rb_thread_interrupt, ThrownOK, TypeOK
  <2>7. ASSUME NEW m \in Mutexes, rb_mutex_unlock(t, m)
        PROVE  \A s \in Threads : ThrownOK(s)'
    BY <2>7 DEF rb_mutex_unlock, ThrownOK, TypeOK
  <2>8. CASE Rescue(t)
    BY <2>8 DEF Rescue, ThrownOK, TypeOK
  <2>9. CASE Finish(t)
    BY <2>9 DEF Finish, mutexVars, ThrownOK, TypeOK
  <2>10. CASE Yielded(t)
    BY <2>10 DEF Yielded, mutexVars, ThrownOK, TypeOK
  <2>11. CASE SleepLeave(t)
    BY <2>11 DEF SleepLeave, RegainLock, mutexVars, ThrownOK, TypeOK
  <2>12. CASE LeaveRegion(t)
    BY <2>12 DEF LeaveRegion, mutexVars, ThrownOK, TypeOK
  <2>13. CASE CheckInts(t)
    BY <2>13 DEF CheckInts, mutexVars, ThrownOK, TypeOK
  <2>14. CASE IntsReturn(t)
    BY <2>14 DEF IntsReturn, mutexVars, ThrownOK, TypeOK
  <2>15. CASE IntsThrow(t)
    BY <2>15 DEF IntsThrow, ThrownOK, TypeOK
  <2>16. CASE IntsPass(t)
    BY <2>16 DEF IntsPass, mutexVars, ThrownOK, TypeOK
  <2>17. CASE SleepRelock(t)
    BY <2>17 DEF SleepRelock, ThrownOK, TypeOK
  <2>18. CASE EnterRegion(t)
    BY <2>18 DEF EnterRegion, mutexVars, ThrownOK, TypeOK
  <2>19. CASE LockLoop(t)
    BY <2>19 DEF LockLoop, ThrownOK, TypeOK
  <2>20. CASE Begin(t)
    BY <2>20 DEF Begin, ThrownOK, TypeOK
  <2>21. ASSUME NEW m \in Mutexes, UnwindUnlock(t, m)
        PROVE  \A s \in Threads : ThrownOK(s)'
    BY <2>21 DEF UnwindUnlock, ThrownOK, TypeOK
  <2>22. CASE lock_func(t)
    BY <2>22 DEF lock_func, ThrownOK, TypeOK
  <2>23. CASE SleepEnter(t)
    BY <2>23 DEF SleepEnter, EnterWait, notAsleep, mutexVars, ThrownOK, TypeOK
  <2>24. CASE SleepRestore(t)
    BY <2>24 DEF SleepRestore, RestoreStatus, notAsleep, mutexVars, ThrownOK,
       TypeOK
  <2>25. CASE SleepEnd(t)
    BY <2>25 DEF SleepEnd, EndWait, notAsleep, mutexVars, ThrownOK, TypeOK
  <2>26. CASE WaitSpurious(t)
    BY <2>26 DEF WaitSpurious, mutexVars, ThrownOK, TypeOK
  <2> QED
    BY <1>1, <2>1, <2>2, <2>3, <2>4, <2>5, <2>6, <2>7, <2>8, <2>9, <2>10,
       <2>11, <2>12, <2>13, <2>14, <2>15, <2>16, <2>17, <2>18, <2>19, <2>20,
       <2>21, <2>22, <2>23, <2>24, <2>25, <2>26 DEF ThreadStep, UserStep,
       GetsLock, RunsUnderLock, Outside
<1>2. CASE TimerTick \/ UNCHANGED vars
  BY <1>2 DEF TimerTick, vars, coreVars, mutexVars, ThrownOK
<1> QED
  BY <1>1, <1>2, NextSteps

\* What t does keeps to the rules of unwinding and of its own blocks.
LEMMA OwnOfStep ==
    ASSUME TypeOK, TypeOK', ~("raise" \in Calls /\ "Mutex#sleep" \in Calls),
           NEW t \in Threads, ThreadStep(t),
           \A s \in Threads : WantOK(s), WantOK(t)',
           ThrownOK(t), ThrownOK(t)', ErrOK(t), FramesOwned(t)
    PROVE  ErrOK(t)' /\ FramesOwned(t)'
<1>1. ASSUME NEW m \in Mutexes, rb_mutex_lock(t, m)
      PROVE  ErrOK(t)' /\ FramesOwned(t)'
  BY <1>1 DEF rb_mutex_lock, Goto, Holds, Polls, WantOK, ThrownOK, ErrOK,
     FramesOwned, Relocking, At, Locking, TypeOK, PCs, VMSide, InRegion,
     Labels
<1>2. ASSUME NEW m \in Mutexes, rb_mutex_trylock(t, m)
      PROVE  ErrOK(t)' /\ FramesOwned(t)'
  BY <1>2 DEF rb_mutex_trylock, Goto, Holds, Polls, WantOK, ThrownOK, ErrOK,
     FramesOwned, Relocking, At, Locking, TypeOK, PCs, VMSide, InRegion,
     Labels
<1>3. ASSUME NEW m \in Mutexes, "Mutex#sleep" \in Calls, rb_mutex_sleep(t, m)
      PROVE  ErrOK(t)' /\ FramesOwned(t)'
  <2>1. Unlocks(t, m, "sl_enter")
    BY <1>3, UnlockMoves DEF rb_mutex_sleep
  <2> QED
    BY <1>3, <2>1 DEF rb_mutex_sleep, Unlocks, WantOK, ThrownOK, ErrOK,
       FramesOwned, Relocking, At, Locking, TypeOK, PCs, VMSide, InRegion,
       Labels
<1>4. ASSUME NEW u \in Threads, rb_thread_wakeup(t, u)
      PROVE  ErrOK(t)' /\ FramesOwned(t)'
  <2>1. Interrupts(t)
    BY <1>4, InterruptMoves DEF rb_thread_wakeup
  <2> QED
    BY <2>1 DEF Interrupts, ErrOK, FramesOwned, Relocking, At, Locking, TypeOK
<1>5. ASSUME NEW u \in Threads, "raise" \in Calls, rb_thread_raise(t, u)
      PROVE  ErrOK(t)' /\ FramesOwned(t)'
  <2>1. Interrupts(t)
    BY <1>5, InterruptMoves DEF rb_thread_raise
  <2> QED
    BY <2>1 DEF Interrupts, ErrOK, FramesOwned, Relocking, At, Locking, TypeOK
<1>6. ASSUME NEW u \in Threads, rb_thread_kill(t, u)
      PROVE  ErrOK(t)' /\ FramesOwned(t)'
  <2>1. Interrupts(t)
    BY <1>6, InterruptMoves DEF rb_thread_kill
  <2> QED
    BY <2>1 DEF Interrupts, ErrOK, FramesOwned, Relocking, At, Locking, TypeOK
<1>7. ASSUME NEW m \in Mutexes, rb_mutex_unlock(t, m)
      PROVE  ErrOK(t)' /\ FramesOwned(t)'
  <2>1. Unlocks(t, m, "ints")
    BY <1>7, UnlockMoves DEF rb_mutex_unlock
  <2> QED
    BY <1>7, <2>1 DEF rb_mutex_unlock, Unlocks, WantOK, ThrownOK, ErrOK,
       FramesOwned, Relocking, At, Locking, TypeOK, PCs, VMSide, InRegion,
       Labels
<1>8. CASE Rescue(t)
  BY <1>8 DEF Rescue, Goto, Holds, WantOK, ThrownOK, ErrOK, FramesOwned,
     Relocking, At, Locking, TypeOK, PCs, VMSide, InRegion, Labels
<1>9. CASE Finish(t)
  BY <1>9 DEF Finish, Goto, GvlUnlock, mutexVars, WantOK, ThrownOK, ErrOK,
     FramesOwned, Relocking, At, Locking, TypeOK, PCs, VMSide, InRegion,
     Labels
<1>10. CASE Yielded(t)
  BY <1>10 DEF Yielded, Goto, GvlLock, mutexVars, WantOK, ThrownOK, ErrOK,
     FramesOwned, Relocking, At, Locking, TypeOK, PCs, VMSide, InRegion,
     Labels
<1>11. CASE SleepLeave(t)
  BY <1>11 DEF SleepLeave, RegainLock, Goto, GvlLock, mutexVars, WantOK,
     ThrownOK, ErrOK, FramesOwned, Relocking, At, Locking, TypeOK, PCs,
     VMSide, InRegion, Labels
<1>12. CASE LeaveRegion(t)
  BY <1>12 DEF LeaveRegion, Goto, GvlLock, Polls, mutexVars, WantOK, ThrownOK,
     ErrOK, FramesOwned, Relocking, At, Locking, TypeOK, PCs, VMSide,
     InRegion, Labels
<1>13. CASE CheckInts(t)
  BY <1>13 DEF CheckInts, Goto, Holds, Polls, mutexVars, WantOK, ThrownOK,
     ErrOK, FramesOwned, Relocking, At, Locking, TypeOK, PCs, VMSide,
     InRegion, Labels
<1>14. CASE IntsReturn(t)
  BY <1>14 DEF IntsReturn, Goto, Holds, mutexVars, WantOK, ThrownOK, ErrOK,
     FramesOwned, Relocking, At, Locking, TypeOK, PCs, VMSide, InRegion,
     Labels
<1>15. CASE IntsThrow(t)
  BY <1>15 DEF IntsThrow, Goto, Holds, WantOK, ThrownOK, ErrOK, FramesOwned,
     Relocking, At, Locking, TypeOK, PCs, VMSide, InRegion, Labels
<1>16. CASE IntsPass(t)
  BY <1>16 DEF IntsPass, Goto, Holds, GvlUnlock, mutexVars, WantOK, ThrownOK,
     ErrOK, FramesOwned, Relocking, At, Locking, TypeOK, PCs, VMSide,
     InRegion, Labels
<1>17. CASE SleepRelock(t)
  BY <1>17 DEF SleepRelock, Goto, Holds, Polls, Locked, WantOK, ThrownOK,
     ErrOK, FramesOwned, Relocking, At, Locking, TypeOK, PCs, VMSide,
     InRegion, Labels
<1>18. CASE EnterRegion(t)
  BY <1>18 DEF EnterRegion, Goto, Holds, Polls, GvlUnlock, mutexVars, WantOK,
     ThrownOK, ErrOK, FramesOwned, Relocking, At, Locking, TypeOK, PCs,
     VMSide, InRegion, Labels
<1>19. CASE LockLoop(t)
  BY <1>19 DEF LockLoop, Goto, Holds, Polls, Locked, WantOK, ThrownOK, ErrOK,
     FramesOwned, Relocking, At, Locking, TypeOK, PCs, VMSide, InRegion,
     Labels
<1>20. CASE Begin(t)
  BY <1>20 DEF Begin, Goto, Holds, WantOK, ThrownOK, ErrOK, FramesOwned,
     Relocking, At, Locking, TypeOK, PCs, VMSide, InRegion, Labels
<1>21. ASSUME NEW m \in Mutexes, UnwindUnlock(t, m)
      PROVE  ErrOK(t)' /\ FramesOwned(t)'
  <2>1. CASE owner[m] = t
    <3>1. Unlocks(t, m, "ints")
      BY <1>21, <2>1, UnlockMoves DEF UnwindUnlock
    <3> QED
      BY <1>21, <3>1 DEF UnwindUnlock, Unlocks, WantOK, ThrownOK, ErrOK,
         FramesOwned, Relocking, At, Locking, TypeOK, PCs, VMSide, InRegion,
         Labels
  <2>2. CASE owner[m] # t
    BY <1>21, <2>2 DEF UnwindUnlock, Goto, WantOK, ThrownOK, ErrOK, FramesOwned,
       Relocking, At, Locking, TypeOK, PCs, VMSide, InRegion, Labels
  <2> QED
    BY <2>1, <2>2
<1>22. CASE lock_func(t)
  BY <1>22 DEF lock_func, TakeOrWait, Goto, WantOK, ThrownOK, ErrOK,
     FramesOwned, Relocking, At, Locking, TypeOK, PCs, VMSide, InRegion,
     Labels
<1>23. CASE SleepEnter(t)
  BY <1>23 DEF SleepEnter, EnterWait, Goto, notAsleep, mutexVars, WantOK,
     ThrownOK, ErrOK, FramesOwned, Relocking, At, Locking, TypeOK, PCs,
     VMSide, InRegion, Labels
<1>24. CASE SleepRestore(t)
  BY <1>24 DEF SleepRestore, RestoreStatus, Goto, notAsleep, mutexVars,
     WantOK, ThrownOK, ErrOK, FramesOwned, Relocking, At, Locking, TypeOK,
     PCs, VMSide, InRegion, Labels
<1>25. CASE SleepEnd(t)
  BY <1>25 DEF SleepEnd, EndWait, Goto, notAsleep, mutexVars, WantOK,
     ThrownOK, ErrOK, FramesOwned, Relocking, At, Locking, TypeOK, PCs,
     VMSide, InRegion, Labels
<1>26. CASE WaitSpurious(t)
  BY <1>26 DEF WaitSpurious, Goto, mutexVars, WantOK, ThrownOK, ErrOK,
     FramesOwned, Relocking, At, Locking, TypeOK, PCs, VMSide, InRegion,
     Labels
<1> QED
  BY <1>1, <1>2, <1>3, <1>4, <1>5, <1>6, <1>7, <1>8, <1>9, <1>10, <1>11,
     <1>12, <1>13, <1>14, <1>15, <1>16, <1>17, <1>18, <1>19, <1>20, <1>21,
     <1>22, <1>23, <1>24, <1>25, <1>26 DEF ThreadStep, UserStep, GetsLock,
     RunsUnderLock, Outside

\* The rules that a thread keeps to.
OwnInv ==
    /\ TypeOK
    /\ \A s \in Threads : WantOK(s) /\ ThrownOK(s) /\ ErrOK(s) /\ FramesOwned(s)

LEMMA OwnStep ==
    ASSUME OwnInv, ~("raise" \in Calls /\ "Mutex#sleep" \in Calls), [Next]_vars
    PROVE  OwnInv'
<1>1. TypeOK' /\ \A s \in Threads : WantOK(s)' /\ ThrownOK(s)'
  BY TypeStep, WantStep, ThrownStep DEF OwnInv
<1>2. ASSUME NEW t \in Threads, ThreadStep(t)
      PROVE  \A s \in Threads : ErrOK(s)' /\ FramesOwned(s)'
  <2>1. StepOf(t) /\ ErrOK(t)' /\ FramesOwned(t)'
    BY <1>1, <1>2, StepsOf, OwnOfStep DEF OwnInv
  <2>2. ASSUME NEW s \in Threads \ {t}
        PROVE  ErrOK(s)' /\ FramesOwned(s)'
    <3>1. TypeOK /\ WantOK(s) /\ ErrOK(s) /\ FramesOwned(s)
      BY DEF OwnInv
    <3>2. \A m \in Mutexes : owner[m] = s => owner'[m] = s
      BY <2>1 DEF StepOf
    <3>3. frames[s] \subseteq Mutexes
      BY <3>1 DEF TypeOK
    <3>4. Relocking(s)' <=> Relocking(s)
      BY <2>1, <3>1, OthersStay DEF Relocking, Locking
    <3> QED
      BY <2>1, <3>1, <3>2, <3>3, <3>4, OthersStay DEF ErrOK, FramesOwned, WantOK, Locking
  <2> QED
    BY <2>1, <2>2
<1>3. CASE TimerTick \/ UNCHANGED vars
  BY <1>1, <1>3 DEF OwnInv, TimerTick, vars, coreVars, mutexVars, ErrOK, FramesOwned, Relocking, At
<1> QED
  BY <1>1, <1>2, <1>3, NextSteps DEF OwnInv

\* A thread runs in a block of synchronize only while it owns the mutex: no two
\* threads are in blocks of one mutex at a time.  The hypothesis is needed: an
\* exception that ends the locking after Mutex#sleep, and is rescued inside the
\* block, leaves the thread in the block without the mutex; a kill does not, as
\* nothing rescues it.
THEOREM BlocksExclude ==
    ~("raise" \in Calls /\ "Mutex#sleep" \in Calls) => (Spec => []OwnerRuns)
<1> SUFFICES ASSUME ~("raise" \in Calls /\ "Mutex#sleep" \in Calls)
             PROVE  Spec => []OwnerRuns
  OBVIOUS
<1>1. Init => OwnInv
  BY InitType DEF Init, CoreInit, OwnInv, ThrownOK, ErrOK, FramesOwned, At
<1>2. OwnInv /\ [Next]_vars => OwnInv'
  BY OwnStep
<1>3. OwnInv => OwnerRuns
  BY DEF OwnInv, OwnerRuns, ErrOK, FramesOwned, Relocking, At, Locking
<1> QED
  BY <1>1, <1>2, <1>3, PTL DEF Spec

-----------------------------------------------------------------------------
(* No unlock is lost.                                                       *)

\* Nothing is thrown where nobody raises or kills.
Calm == \A t \in Threads : thrown[t] = "nil"

LEMMA CalmStep ==
    ASSUME TypeOK, Calm, {"raise", "kill"} \cap Calls = {}, [Next]_vars
    PROVE  Calm'
<1>1. ASSUME NEW t \in Threads, ThreadStep(t)
      PROVE  Calm'
  <2>1. ASSUME NEW m \in Mutexes, rb_mutex_lock(t, m)
        PROVE  Calm'
    BY <2>1 DEF rb_mutex_lock, Calm, TypeOK
  <2>2. ASSUME NEW m \in Mutexes, rb_mutex_trylock(t, m)
        PROVE  Calm'
    BY <2>2 DEF rb_mutex_trylock, Calm, TypeOK
  <2>3. ASSUME NEW m \in Mutexes, "Mutex#sleep" \in Calls, rb_mutex_sleep(t, m)
        PROVE  Calm'
    BY <2>3 DEF rb_mutex_sleep, Calm, TypeOK
  <2>4. ASSUME NEW u \in Threads, rb_thread_wakeup(t, u)
        PROVE  Calm'
    BY <2>4 DEF rb_thread_wakeup, rb_thread_interrupt, Calm, TypeOK
  <2>5. ASSUME NEW u \in Threads, "raise" \in Calls, rb_thread_raise(t, u)
        PROVE  Calm'
    BY <2>5
  <2>6. ASSUME NEW u \in Threads, "kill" \in Calls, rb_thread_kill(t, u)
        PROVE  Calm'
    BY <2>6
  <2>7. ASSUME NEW m \in Mutexes, rb_mutex_unlock(t, m)
        PROVE  Calm'
    BY <2>7 DEF rb_mutex_unlock, Calm, TypeOK
  <2>8. CASE Rescue(t)
    BY <2>8 DEF Rescue, Calm, TypeOK
  <2>9. CASE Finish(t)
    BY <2>9 DEF Finish, mutexVars, Calm, TypeOK
  <2>10. CASE Yielded(t)
    BY <2>10 DEF Yielded, mutexVars, Calm, TypeOK
  <2>11. CASE SleepLeave(t)
    BY <2>11 DEF SleepLeave, RegainLock, mutexVars, Calm, TypeOK
  <2>12. CASE LeaveRegion(t)
    BY <2>12 DEF LeaveRegion, mutexVars, Calm, TypeOK
  <2>13. CASE CheckInts(t)
    BY <2>13 DEF CheckInts, mutexVars, Calm, TypeOK
  <2>14. CASE IntsReturn(t)
    BY <2>14 DEF IntsReturn, mutexVars, Calm, TypeOK
  <2>15. CASE IntsThrow(t)
    BY <2>15 DEF IntsThrow, Calm, TypeOK
  <2>16. CASE IntsPass(t)
    BY <2>16 DEF IntsPass, mutexVars, Calm, TypeOK
  <2>17. CASE SleepRelock(t)
    BY <2>17 DEF SleepRelock, Calm, TypeOK
  <2>18. CASE EnterRegion(t)
    BY <2>18 DEF EnterRegion, mutexVars, Calm, TypeOK
  <2>19. CASE LockLoop(t)
    BY <2>19 DEF LockLoop, Calm, TypeOK
  <2>20. CASE Begin(t)
    BY <2>20 DEF Begin, Calm, TypeOK
  <2>21. ASSUME NEW m \in Mutexes, UnwindUnlock(t, m)
        PROVE  Calm'
    BY <2>21 DEF UnwindUnlock, Calm, TypeOK
  <2>22. CASE lock_func(t)
    BY <2>22 DEF lock_func, Calm, TypeOK
  <2>23. CASE SleepEnter(t)
    BY <2>23 DEF SleepEnter, EnterWait, notAsleep, mutexVars, Calm, TypeOK
  <2>24. CASE SleepRestore(t)
    BY <2>24 DEF SleepRestore, RestoreStatus, notAsleep, mutexVars, Calm,
       TypeOK
  <2>25. CASE SleepEnd(t)
    BY <2>25 DEF SleepEnd, EndWait, notAsleep, mutexVars, Calm, TypeOK
  <2>26. CASE WaitSpurious(t)
    BY <2>26 DEF WaitSpurious, mutexVars, Calm, TypeOK
  <2> QED
    BY <1>1, <2>1, <2>2, <2>3, <2>4, <2>5, <2>6, <2>7, <2>8, <2>9, <2>10,
       <2>11, <2>12, <2>13, <2>14, <2>15, <2>16, <2>17, <2>18, <2>19, <2>20,
       <2>21, <2>22, <2>23, <2>24, <2>25, <2>26 DEF ThreadStep, UserStep,
       GetsLock, RunsUnderLock, Outside
<1>2. CASE TimerTick \/ UNCHANGED vars
  BY <1>2 DEF TimerTick, vars, coreVars, Calm
<1> QED
  BY <1>1, <1>2, NextSteps

\* After t's step mutex k is taken, t comes for it, or t has nothing to do with
\* it.
Settled(t, k) ==
    \/ owner'[k] # None
    \/ Comes(t, k)'
    \/ ~Comes(t, k) /\ owner'[k] = owner[k] /\ ~(pc'[t] = "lk_wait" /\ want'[t] = k)

\* After an unlock of m somebody comes for it if anybody waits.
LEMMA UnlockSettles ==
    ASSUME TypeOK, NEW t \in Threads, NEW m \in Mutexes, NEW p \in {"ints", "sl_enter"},
           StepOf(t), pc[t] # "lk_wait", Unlocked(m, [pc EXCEPT ![t] = p]),
           Cardinality(Waiters(m)) <= cond_waiting[m]
    PROVE  Waiters(m)' = {} \/ \E w \in Threads : Comes(w, m)'
<1>1. p \in PCs
  BY DEF PCs, VMSide
<1>2. Waiters(m)' \subseteq Waiters(m)
  BY <1>1, UnlockedMoves, FewerWaiters
<1>3. CASE cond_waiting[m] = 0
  <2>1. Cardinality(Waiters(m)) = 0
    BY <1>3, WaitersFinite
  <2>2. Waiters(m) = {}
    BY <2>1, WaitersFinite, FS_EmptySet
  <2> QED
    BY <1>2, <2>2
<1>4. CASE Waiters(m) = {}
  BY <1>2, <1>4
<1>5. ASSUME NEW w \in Waiters(m), w # t, pc'[w] = "lk_woken"
      PROVE  Comes(w, m)'
  BY <1>5 DEF StepOf, Waiters, Comes
<1> QED
  BY <1>1, <1>3, <1>4, <1>5, UnlockedMoves DEF Waiters

LEMMA SettledOfStep ==
    ASSUME TypeOK, \A s \in Threads : WantOK(s), Calm, WaitersCounted,
           {"raise", "kill"} \cap Calls = {}, NEW t \in Threads, ThreadStep(t),
           NEW k \in Mutexes
    PROVE  \/ Settled(t, k)
           \/ Waiters(k)' = {} \/ \E w \in Threads : Comes(w, k)'
<1> DEFINE Goal == \/ Settled(t, k)
                   \/ Waiters(k)' = {} \/ \E w \in Threads : Comes(w, k)'
<1>0. StepOf(t)
  BY StepsOf
<1>1. ASSUME NEW m \in Mutexes, rb_mutex_lock(t, m)
      PROVE  Goal
  <2>1. Settled(t, k)
    BY <1>1 DEF rb_mutex_lock, Goto, Polls, Settled, Comes, WantOK, At, Locking,
       TypeOK, Labels
  <2> QED
    BY <2>1
<1>2. ASSUME NEW m \in Mutexes, rb_mutex_trylock(t, m)
      PROVE  Goal
  <2>1. Settled(t, k)
    BY <1>2 DEF rb_mutex_trylock, Goto, Polls, Settled, Comes, WantOK, At,
       Locking, TypeOK, Labels
  <2> QED
    BY <2>1
<1>3. ASSUME NEW m \in Mutexes, "Mutex#sleep" \in Calls, rb_mutex_sleep(t, m)
      PROVE  Goal
  <2>1. CASE k = m
    BY <1>3, <1>0, <2>1, UnlockSettles DEF rb_mutex_sleep, WaitersCounted
  <2>2. CASE k # m
    <3>1. Unlocks(t, m, "sl_enter")
      BY <1>3, UnlockMoves DEF rb_mutex_sleep
    <3> QED
      BY <1>3, <2>2, <3>1 DEF rb_mutex_sleep, Unlocks, Settled, Comes, TypeOK
  <2> QED
    BY <2>1, <2>2
<1>4. ASSUME NEW u \in Threads, rb_thread_wakeup(t, u)
      PROVE  Goal
  <2>1. Interrupts(t)
    BY <1>4, InterruptMoves DEF rb_thread_wakeup
  <2> QED
    BY <2>1 DEF Interrupts, Settled, Comes
<1>5. ASSUME NEW u \in Threads, "raise" \in Calls, rb_thread_raise(t, u)
      PROVE  Goal
  <2>1. Interrupts(t)
    BY <1>5, InterruptMoves DEF rb_thread_raise
  <2> QED
    BY <2>1 DEF Interrupts, Settled, Comes
<1>6. ASSUME NEW u \in Threads, rb_thread_kill(t, u)
      PROVE  Goal
  <2>1. Interrupts(t)
    BY <1>6, InterruptMoves DEF rb_thread_kill
  <2> QED
    BY <2>1 DEF Interrupts, Settled, Comes
<1>7. ASSUME NEW m \in Mutexes, rb_mutex_unlock(t, m)
      PROVE  Goal
  <2>1. CASE k = m
    BY <1>7, <1>0, <2>1, UnlockSettles DEF rb_mutex_unlock, WaitersCounted
  <2>2. CASE k # m
    <3>1. Unlocks(t, m, "ints")
      BY <1>7, UnlockMoves DEF rb_mutex_unlock
    <3> QED
      BY <1>7, <2>2, <3>1 DEF rb_mutex_unlock, Unlocks, Settled, Comes, TypeOK
  <2> QED
    BY <2>1, <2>2
<1>8. CASE Rescue(t)
  <2>1. Settled(t, k)
    BY <1>8 DEF Rescue, Goto, Settled, Comes, WantOK, At, Locking, TypeOK, Labels
  <2> QED
    BY <2>1
<1>9. CASE Finish(t)
  <2>1. Settled(t, k)
    BY <1>9 DEF Finish, Goto, mutexVars, Settled, Comes, WantOK, At, Locking,
       TypeOK, Labels
  <2> QED
    BY <2>1
<1>10. CASE Yielded(t)
  <2>1. Settled(t, k)
    BY <1>10 DEF Yielded, Goto, mutexVars, Settled, Comes, WantOK, At, Locking,
       TypeOK, Labels
  <2> QED
    BY <2>1
<1>11. CASE SleepLeave(t)
  <2>1. Settled(t, k)
    BY <1>11 DEF SleepLeave, RegainLock, Goto, mutexVars, Settled, Comes, WantOK,
       At, Locking, TypeOK, Labels
  <2> QED
    BY <2>1
<1>12. CASE LeaveRegion(t)
  <2>1. Settled(t, k)
    BY <1>12 DEF LeaveRegion, Goto, Polls, mutexVars, Settled, Comes, WantOK, At,
       Locking, TypeOK, Labels
  <2> QED
    BY <2>1
<1>13. CASE CheckInts(t)
  <2>1. Settled(t, k)
    BY <1>13 DEF CheckInts, Goto, Polls, mutexVars, Settled, Comes, WantOK, At,
       Locking, TypeOK, Labels
  <2> QED
    BY <2>1
<1>14. CASE IntsReturn(t)
  <2>1. Settled(t, k)
    BY <1>14 DEF IntsReturn, Goto, mutexVars, Settled, Comes, WantOK, At, Locking,
       TypeOK, Labels
  <2> QED
    BY <2>1
<1>15. CASE IntsThrow(t)
  BY <1>15 DEF IntsThrow, Calm
<1>16. CASE IntsPass(t)
  <2>1. Settled(t, k)
    BY <1>16 DEF IntsPass, Goto, mutexVars, Settled, Comes, WantOK, At, Locking,
       TypeOK, Labels
  <2> QED
    BY <2>1
<1>17. CASE SleepRelock(t)
  <2>1. Settled(t, k)
    BY <1>17 DEF SleepRelock, Goto, Polls, Locked, Settled, Comes, WantOK, At,
       Locking, TypeOK, Labels
  <2> QED
    BY <2>1
<1>18. CASE EnterRegion(t)
  <2>1. Settled(t, k)
    BY <1>18 DEF EnterRegion, Goto, Polls, mutexVars, Settled, Comes, WantOK, At,
       Locking, TypeOK, Labels
  <2> QED
    BY <2>1
<1>19. CASE LockLoop(t)
  <2>1. Settled(t, k)
    BY <1>19 DEF LockLoop, Goto, Polls, Locked, Settled, Comes, WantOK, At,
       Locking, TypeOK, Labels
  <2> QED
    BY <2>1
<1>20. CASE Begin(t)
  <2>1. Settled(t, k)
    BY <1>20 DEF Begin, Goto, Settled, Comes, WantOK, At, Locking, TypeOK, Labels
  <2> QED
    BY <2>1
<1>21. ASSUME NEW m \in Mutexes, UnwindUnlock(t, m)
      PROVE  Goal
  <2>1. CASE owner[m] = t /\ k = m
    BY <1>21, <1>0, <2>1, UnlockSettles DEF UnwindUnlock, WaitersCounted
  <2>2. CASE owner[m] = t /\ k # m
    <3>1. Unlocks(t, m, "ints")
      BY <1>21, <2>2, UnlockMoves DEF UnwindUnlock
    <3> QED
      BY <1>21, <2>2, <3>1 DEF UnwindUnlock, Unlocks, Settled, Comes, TypeOK
  <2>3. CASE owner[m] # t
    BY <1>21, <2>3 DEF UnwindUnlock, Goto, Settled, Comes, TypeOK
  <2> QED
    BY <2>1, <2>2, <2>3
<1>22. CASE lock_func(t)
  <2>1. Settled(t, k)
    BY <1>22 DEF lock_func, TakeOrWait, Goto, Settled, Comes, WantOK, At, Locking,
       TypeOK, Labels
  <2> QED
    BY <2>1
<1>23. CASE SleepEnter(t)
  <2>1. Settled(t, k)
    BY <1>23 DEF SleepEnter, EnterWait, Goto, notAsleep, mutexVars, Settled,
       Comes, WantOK, At, Locking, TypeOK, Labels
  <2> QED
    BY <2>1
<1>24. CASE SleepRestore(t)
  <2>1. Settled(t, k)
    BY <1>24 DEF SleepRestore, RestoreStatus, Goto, notAsleep, mutexVars, Settled,
       Comes, WantOK, At, Locking, TypeOK, Labels
  <2> QED
    BY <2>1
<1>25. CASE SleepEnd(t)
  <2>1. Settled(t, k)
    BY <1>25 DEF SleepEnd, EndWait, Goto, notAsleep, mutexVars, Settled, Comes,
       WantOK, At, Locking, TypeOK, Labels
  <2> QED
    BY <2>1
<1>26. CASE WaitSpurious(t)
  <2>1. Settled(t, k)
    BY <1>26 DEF WaitSpurious, Goto, mutexVars, Settled, Comes, WantOK, At,
       Locking, TypeOK, Labels
  <2> QED
    BY <2>1
<1> QED
  BY <1>1, <1>2, <1>3, <1>4, <1>5, <1>6, <1>7, <1>8, <1>9, <1>10, <1>11,
     <1>12, <1>13, <1>14, <1>15, <1>16, <1>17, <1>18, <1>19, <1>20, <1>21,
     <1>22, <1>23, <1>24, <1>25, <1>26 DEF ThreadStep, UserStep, GetsLock,
     RunsUnderLock, Outside

LEMMA StuckStep ==
    ASSUME TypeOK, \A s \in Threads : WantOK(s), Calm, WaitersCounted, NoStuckWaiter,
           {"raise", "kill"} \cap Calls = {}, [Next]_vars
    PROVE  NoStuckWaiter'
<1>1. ASSUME NEW t \in Threads, ThreadStep(t), NEW k \in Mutexes,
             owner'[k] = None, Waiters(k)' # {}
      PROVE  \E s \in Threads : Comes(s, k)'
  <2>1. StepOf(t)
    BY <1>1, StepsOf
  <2>2. CASE \E w \in Threads : Comes(w, k)'
    BY <2>2
  <2>3. CASE Settled(t, k) /\ ~Comes(t, k)'
    <3>1. ~Comes(t, k) /\ owner[k] = None /\ ~(pc'[t] = "lk_wait" /\ want'[t] = k)
      BY <1>1, <2>3 DEF Settled
    <3>2. Waiters(k)' \subseteq Waiters(k)
      BY <2>1, <3>1, FewerWaiters DEF Waiters
    <3>3. PICK s \in Threads : Comes(s, k)
      BY <1>1, <3>1, <3>2 DEF NoStuckWaiter
    <3>4. Comes(s, k)'
      BY <2>1, <3>1, <3>3 DEF StepOf, Comes
    <3> QED
      BY <3>4
  <2> QED
    BY <1>1, <2>2, <2>3, SettledOfStep
<1>2. CASE TimerTick \/ UNCHANGED vars
  BY <1>2 DEF TimerTick, vars, coreVars, mutexVars, NoStuckWaiter, Waiters, Comes
<1>3. ASSUME NEW t \in Threads, ThreadStep(t)
      PROVE  NoStuckWaiter'
  BY <1>1, <1>3 DEF NoStuckWaiter
<1> QED
  BY <1>2, <1>3, NextSteps

\* When a mutex is free and threads wait for it, one that wants it is awake and
\* will look at it, however threads lock, try, sleep and wake one another.  A
\* signalled thread that an exception or a kill then takes away keeps the
\* signal to itself: hence the hypothesis.
THEOREM NoUnlockIsLost ==
    {"raise", "kill"} \cap Calls = {} => (Spec => []NoStuckWaiter)
<1> SUFFICES ASSUME {"raise", "kill"} \cap Calls = {}
             PROVE  Spec => []NoStuckWaiter
  OBVIOUS
<1>1. Init => NoStuckWaiter /\ Calm
  BY DEF Init, CoreInit, NoStuckWaiter, Waiters, Calm
<1>2. /\ TypeOK /\ \A s \in Threads : WantOK(s)
      /\ WaitersCounted /\ NoStuckWaiter /\ Calm /\ [Next]_vars
      => NoStuckWaiter' /\ Calm'
  BY StuckStep, CalmStep
<1> QED
  BY <1>1, <1>2, TypeAlways, WaitersAreCounted, PTL DEF Spec
=============================================================================
