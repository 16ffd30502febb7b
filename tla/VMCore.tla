------------------------------- MODULE VMCore -------------------------------
(***************************************************************************)
(* What every part of MacRuby's thread layer shares (macruby/0.4/thread.c, *)
(* thread_pthread.c, vm_core.h): native threads that take turns under the  *)
(* global VM lock, the two bits of interrupt_flag by which a thread is     *)
(* asked to stop what it is doing, and the timer thread that sets one of   *)
(* them every 10 ms without taking any lock.                               *)
(*                                                                         *)
(* A thread's critical sections under its own interrupt_lock are single    *)
(* steps here: everything they touch is touched under that lock, except    *)
(* interrupt_flag, whose only unlocked writer is the timer thread, which   *)
(* therefore has steps of its own.                                         *)
(***************************************************************************)
EXTENDS Naturals

CONSTANTS
    Threads,    \* rb_thread_t structures, the main thread's included
    Main,       \* vm->main_thread
    None,       \* a null rb_thread_t pointer
    AtomicOr    \* is the timer thread's `interrupt_flag |= 0x01' one access
                \* (one processor with a read-modify-write instruction), or a
                \* load, an or and a store, as on ARM?

ASSUME CoreAssumption ==
    /\ Main \in Threads
    /\ None \notin Threads
    /\ AtomicOr \in BOOLEAN

VARIABLES
    pc,         \* where each thread's native code is
    ret,        \* where RUBY_VM_CHECK_INTS() returns to
    gvl,        \* the holder of vm->global_interpreter_lock
    current,    \* ruby_current_thread, which is also vm->running_thread
    status,     \* th->status
    prev_status,\* what native_sleep or BLOCKING_REGION puts back into it
    flag,       \* th->interrupt_flag, as the set of its bits
    thrown,     \* th->thrown_errinfo: what another thread threw at this one
    timer       \* the timer thread's registers inside a torn `|= 0x01'

coreVars == <<pc, ret, gvl, current, status, prev_status, flag, thrown, timer>>

\* enum rb_thread_status
ThreadStatus == {"runnable", "to_kill", "stopped", "killed"}

\* 0x01 and 0x02 of interrupt_flag.
Bits == {"timer", "int"}

\* thrown_errinfo: empty, an exception object, eKillSignal, eTerminateSignal.
Thrown == {"nil", "exc", "kill", "terminate"}

TimerIdle == [victim |-> None, bits |-> {}]

CoreInit(pcs) ==
    /\ pc = pcs
    /\ ret = [t \in Threads |-> "user"]
    /\ gvl = Main
    /\ current = Main
    /\ status = [t \in Threads |-> "runnable"]
    /\ prev_status = [t \in Threads |-> "runnable"]
    /\ flag = [t \in Threads |-> {}]
    /\ thrown = [t \in Threads |-> "nil"]
    /\ timer = TimerIdle

(***************************************************************************)
(* The global VM lock.                                                     *)
(***************************************************************************)
\* Mutant: rb_thread_set_current is forgotten.
CurrentNotSet(t) ==
    /\ gvl = None
    /\ gvl' = t
    /\ UNCHANGED current

\* native_mutex_lock(&vm->global_interpreter_lock); rb_thread_set_current(th)
GvlLock(t) ==
    /\ gvl = None
    /\ gvl' = t
    /\ current' = t

\* native_mutex_unlock: ruby_current_thread keeps naming the thread that left.
GvlUnlock(t) ==
    /\ gvl = t
    /\ gvl' = None
    /\ UNCHANGED current

\* Thread t runs on the VM's side of the lock.
Holds(t) == gvl = t /\ UNCHANGED <<gvl, current>>

Goto(t, p) == pc' = [pc EXCEPT ![t] = p]

(***************************************************************************)
(* Bit 0x02, set in the threads of S by rb_thread_interrupt, which then    *)
(* calls their unblock functions.                                          *)
(***************************************************************************)
\* Mutant: the flag is not set.
FlagNotSet(S) == flag

SetInterrupt(S) ==
    [u \in Threads |-> IF u \in S THEN flag[u] \cup {"int"} ELSE flag[u]]

(***************************************************************************)
(* native_sleep, called by code that goes on at r.  The thread lets go of  *)
(* the lock, looks at its interrupt_flag under interrupt_lock, waits       *)
(* there, and restores th->status before it has the lock again.            *)
(***************************************************************************)
native_sleep(t, r) ==
    /\ GvlUnlock(t)
    /\ Goto(t, "sl_enter")
    /\ ret' = [ret EXCEPT ![t] = r]
    /\ prev_status' = [prev_status EXCEPT ![t] = status[t]]
    /\ status' = [status EXCEPT ![t] = "stopped"]

\* What a thread between native_sleep's two dealings with the lock leaves be.
notAsleep == <<ret, gvl, current, flag, thrown, timer>>

\* Mutant: the flag is not looked at under interrupt_lock.
WaitUnchecked(t) ==
    /\ pc[t] = "sl_enter"
    /\ Goto(t, "sl_wait")
    /\ UNCHANGED <<notAsleep, status, prev_status>>

EnterWait(t) ==
    /\ pc[t] = "sl_enter"
    /\ Goto(t, IF "int" \in flag[t] THEN "sl_status" ELSE "sl_wait")
    /\ UNCHANGED <<notAsleep, status, prev_status>>

\* pthread_cond_wait returns without having been signalled.
EndWait(t) ==
    /\ pc[t] = "sl_wait"
    /\ Goto(t, "sl_status")
    /\ UNCHANGED <<notAsleep, status, prev_status>>

\* Mutant: the thread's status stays THREAD_STOPPED.
StatusKept(t) ==
    /\ pc[t] = "sl_status"
    /\ Goto(t, "sl_gvl")
    /\ UNCHANGED <<notAsleep, status, prev_status>>

RestoreStatus(t) ==
    /\ pc[t] = "sl_status"
    /\ Goto(t, "sl_gvl")
    /\ status' = [status EXCEPT ![t] = prev_status[t]]
    /\ prev_status' = [prev_status EXCEPT ![t] = "runnable"]
    /\ UNCHANGED notAsleep

RegainLock(t) ==
    /\ pc[t] = "sl_gvl" /\ GvlLock(t)
    /\ Goto(t, "ints")
    /\ UNCHANGED <<ret, status, prev_status, flag, thrown, timer>>

(***************************************************************************)
(* The timer thread sets bit 0x01 of vm->running_thread with a plain `|='. *)
(* Where that is not one access, whatever another thread writes between    *)
(* the load and the store is overwritten with the value loaded.            *)
(***************************************************************************)
TimerLoad ==
    /\ ~AtomicOr
    /\ timer = TimerIdle
    /\ timer' = [victim |-> current, bits |-> flag[current]]
    /\ UNCHANGED flag

RubyVmSetTimerInterrupt ==
    \/ /\ AtomicOr
       /\ flag' = [flag EXCEPT ![current] = @ \cup {"timer"}]
       /\ UNCHANGED timer
    \/ /\ timer.victim # None
       /\ flag' = [flag EXCEPT ![timer.victim] = timer.bits \cup {"timer"}]
       /\ timer' = TimerIdle
=============================================================================
