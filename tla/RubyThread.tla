----------------------------- MODULE RubyThread -----------------------------
(***************************************************************************)
(* The life of a Ruby thread: Thread.new, sleep, stop, pass, wakeup, join, *)
(* raise and kill, the interrupts that deliver them, the signals the timer *)
(* thread hands to the main thread, the end of a thread and the end of the *)
(* process (macruby/0.4/thread.c, thread_pthread.c, signal.c, eval.c).     *)
(*                                                                         *)
(* At "user" a thread runs Ruby code under the lock and may make any call; *)
(* a call made from the VM ends at "ints", the RUBY_VM_CHECK_INTS() that   *)
(* closes vm_call_method.  raised_flag is left out: it is set and reset    *)
(* while an exception object is being set up, without leaving the lock.    *)
(***************************************************************************)
EXTENDS VMCore, FiniteSets

CONSTANTS
    MaxSignals,         \* bound: process signals delivered, so that no trap
                        \* handler is itself interrupted by a signal
    AbortOnException,   \* vm->thread_abort_on_exception
    Calls,              \* bound: the calls the Ruby program makes
    Limits              \* bound: does it sleep and join with a limit (TRUE),
                        \* without one (FALSE)?

AllCalls == {"Kernel#raise", "sleep", "Thread.stop", "Thread.pass", "wakeup",
             "run", "join", "raise", "kill", "EAGAIN"}

ASSUME ThreadAssumption ==
    /\ MaxSignals \in 0..1
    /\ Calls \subseteq AllCalls
    /\ Limits \subseteq BOOLEAN
    /\ AbortOnException \in BOOLEAN
    /\ IsFiniteSet(Threads)

VARIABLES
    errinfo,        \* th->errinfo: what the thread is unwinding with
    living,         \* vm->living_threads
    join_list_head, \* th->join_list_head: first of the threads joining it
    join_list_next, \* th->join_list_next: the one behind it in such a list
    target,         \* the thread a join, raise or interrupt is about
    limited,        \* does the current sleep have a limit?
    signals,        \* [sent, buffered]: signals so far and vm->signal_buff
    exec_signal,    \* main_thread->exec_signal
    frame           \* what rb_signal_exec interrupted in the main thread

joinList == <<join_list_head, join_list_next>>
locals == <<target, limited, prev_status>>
signalVars == <<signals, exec_signal, frame>>
threadVars == <<errinfo, living, joinList, target, limited, signalVars>>
vars == <<coreVars, errinfo, living, joinList, locals, signalVars>>

\* Program counters on the VM's side of the lock; "hang" is a loop in C that
\* never ends, "exit" the end of the process.
VMSide == {"user", "ints", "join", "raise", "sigraise", "finish", "finraise",
           "finwake", "term", "exit", "hang"}
PCs == VMSide \cup {"unborn", "start", "yield", "sl_enter", "sl_wait",
                    "sl_status", "sl_gvl", "dead"}

\* What execute_interrupts and rb_thread_schedule may return to.
Labels == {"user", "join", "raise", "sigraise", "finraise", "term"}

\* No signal is being handled.
NoFrame == [ret |-> "none", target |-> None, limited |-> FALSE,
            status |-> "runnable", errinfo |-> "nil"]

Init ==
    /\ CoreInit([t \in Threads |-> IF t = Main THEN "user" ELSE "unborn"])
    /\ errinfo = [t \in Threads |-> "nil"]
    /\ living = {Main}
    /\ join_list_head = [t \in Threads |-> None]
    /\ join_list_next = [t \in Threads |-> None]
    /\ target = [t \in Threads |-> None]
    /\ limited = [t \in Threads |-> FALSE]
    /\ signals = [sent |-> 0, buffered |-> 0]
    /\ exec_signal = FALSE
    /\ frame = NoFrame

Created(u) == pc[u] # "unborn"

\* Mutant: a thread that is with one other takes itself to be alone.
AloneOffByOne == Cardinality(living) <= 2

rb_thread_alone == Cardinality(living) = 1

(***************************************************************************)
(* rb_thread_interrupt sets bit 0x02 and calls the unblock function.  The  *)
(* only one installed here is ubf_pthread_cond_signal, from native_sleep;  *)
(* it takes each thread of S out of pthread_cond_wait.  Woken(S, q) is the *)
(* program counter map q after that.                                       *)
(***************************************************************************)
\* Mutant: the condition variable is not signalled.
NotSignalled(S, q) == q

Woken(S, q) ==
    [u \in Threads |-> IF u \in S /\ q[u] = "sl_wait" THEN "sl_status"
                                                     ELSE q[u]]

(***************************************************************************)
(* The list of joining threads is threaded through the joiners themselves. *)
(***************************************************************************)
\* Mutant: nobody is found on the list.
JoinersForgotten(u) == {}

\* Whatever contains the head of the list of u and, with a thread, the next.
HoldsList(u, S) ==
    /\ join_list_head[u] \in S \cup {None}
    /\ \A p \in S : join_list_next[p] \in S \cup {None}

\* The threads that a walk along the list of u comes to.
JoinChain(u) ==
    {p \in Threads : \A S \in SUBSET Threads : HoldsList(u, S) => p \in S}

\* A walk along the list of u never meets its end.
Endless(u) ==
    /\ JoinChain(u) # {}
    /\ \A p \in JoinChain(u) : join_list_next[p] # None

\* Mutants: the thread is not unlinked; the threads behind it are lost.
NotUnlinked(t, u) == UNCHANGED joinList
TailLost(t, u) ==
    IF status[u] = "killed" \/ t \notin JoinChain(u)
    THEN UNCHANGED joinList
    ELSE /\ join_list_head' = [join_list_head EXCEPT ![u] = None]
         /\ UNCHANGED join_list_next

\* remove_from_join_list, run when thread_join_sleep returns or is unwound ...
RemoveFromJoinList(t, u) ==
    IF status[u] = "killed" \/ t \notin JoinChain(u)
    THEN UNCHANGED joinList
    ELSE IF join_list_head[u] = t
    THEN /\ join_list_head' = [join_list_head EXCEPT ![u] = join_list_next[t]]
         /\ UNCHANGED join_list_next
    ELSE /\ join_list_next' =
                [p \in Threads |->
                    IF p \in JoinChain(u) /\ join_list_next[p] = t
                    THEN join_list_next[t] ELSE join_list_next[p]]
         /\ UNCHANGED join_list_head

\* ... and it loops for ever when t is not on a list that has no end.
RemoveHangs(t, u) ==
    status[u] # "killed" /\ t \notin JoinChain(u) /\ Endless(u)

(***************************************************************************)
(* Leaving code that was to go on at r by an exception (TH_JUMP_TAG,       *)
(* rb_exc_raise): thread_join's rb_ensure unlinks the thread,              *)
(* rb_thread_terminate_all ignores the exception, a thread past its end    *)
(* ends once more, everything else unwinds into Ruby code.                 *)
(***************************************************************************)
Unwind(t, r, u, err) ==
    /\ Goto(t, IF r = "join" /\ RemoveHangs(t, u) THEN "hang"
               ELSE IF r = "term" THEN "term"
               ELSE IF r = "finraise" THEN "finish" ELSE "user")
    /\ IF r = "join" THEN RemoveFromJoinList(t, u) ELSE UNCHANGED joinList
    /\ errinfo' = [errinfo EXCEPT ![t] = err]
    /\ ret' = [ret EXCEPT ![t] = "user"]
    /\ target' = [target EXCEPT ![t] = None]
    /\ limited' = [limited EXCEPT ![t] = FALSE]
    /\ UNCHANGED prev_status

\* The C function a thread called raises: it is back in Ruby code.
Raised(t) ==
    /\ Goto(t, "user")
    /\ errinfo' = [errinfo EXCEPT ![t] = "exc"]

\* A call made from the VM ends at vm_call_method's RUBY_VM_CHECK_INTS().
Return(t) ==
    /\ Goto(t, "ints")
    /\ ret' = [ret EXCEPT ![t] = "user"]
    /\ target' = [target EXCEPT ![t] = None]
    /\ limited' = [limited EXCEPT ![t] = FALSE]
    /\ UNCHANGED prev_status

\* rb_thread_schedule, called by code that goes on at r.  A thread that is
\* alone keeps the lock and does not even look at its interrupt_flag, so the
\* `goto again' of rb_thread_raise spins for ever.
Schedule(t, r) ==
    /\ ret' = [ret EXCEPT ![t] = r]
    /\ IF rb_thread_alone
       THEN Goto(t, IF r = "user" THEN "ints" ELSE "hang") /\ Holds(t)
       ELSE Goto(t, "yield") /\ GvlUnlock(t)

(***************************************************************************)
(* Running Ruby code.                                                      *)
(***************************************************************************)
\* The branch, leave and throw instructions poll interrupt_flag.
CheckInts(t) ==
    /\ pc[t] = "user" /\ Holds(t)
    /\ flag[t] # {}
    /\ Goto(t, "ints")
    /\ ret' = [ret EXCEPT ![t] = "user"]
    /\ UNCHANGED <<status, flag, thrown, timer, errinfo, living, joinList,
                   locals, signalVars>>

\* The program raises an exception, and handles one.  A trap handler's caller
\* cannot tell them from those the C functions raise.
UserRaise(t) ==
    /\ pc[t] = "user" /\ Holds(t)
    /\ errinfo[t] # "exc"
    /\ Raised(t)
    /\ UNCHANGED <<ret, status, flag, thrown, timer, living, joinList, locals,
                   signalVars>>

Rescue(t) ==
    /\ pc[t] = "user" /\ Holds(t)
    /\ errinfo[t] = "exc"
    /\ errinfo' = [errinfo EXCEPT ![t] = "nil"]
    /\ UNCHANGED <<pc, ret, status, flag, thrown, timer, living, joinList,
                   locals, signalVars>>

(***************************************************************************)
(* Thread.new: thread_create_core enters the thread into living_threads    *)
(* and then creates its pthread, which may fail.                           *)
(***************************************************************************)
thread_create_core(t, u) ==
    /\ pc[t] = "user" /\ Holds(t)
    /\ pc[u] = "unborn"
    /\ \/ /\ living' = living \cup {u}
          /\ pc' = [pc EXCEPT ![t] = "ints", ![u] = "start"]
          /\ ret' = [ret EXCEPT ![t] = "user"]
          /\ UNCHANGED <<status, errinfo>>
       \/ /\ "EAGAIN" \in Calls
          /\ status' = [status EXCEPT ![u] = "killed"]
          /\ pc' = [pc EXCEPT ![u] = "dead"]
          /\ errinfo' = [errinfo EXCEPT ![t] = "exc"]
          /\ UNCHANGED <<ret, living>>
    /\ UNCHANGED <<flag, thrown, timer, joinList, locals, signalVars>>

\* thread_start_func_2 waits for the lock before it runs the block.
Start(t) ==
    /\ pc[t] = "start" /\ GvlLock(t)
    /\ Goto(t, "user")
    /\ UNCHANGED <<ret, status, flag, thrown, timer, errinfo, living, joinList,
                   locals, signalVars>>

(***************************************************************************)
(* Sleeping, in sleep and in join.                                         *)
(***************************************************************************)
SleepEnter(t) == EnterWait(t) /\ UNCHANGED threadVars

\* pthread_cond_timedwait reaches its limit ...
SleepTimeout(t) == limited[t] /\ EndWait(t) /\ UNCHANGED threadVars

\* ... and either kind of wait may end for no reason, which POSIX allows.
SleepSpurious(t) == EndWait(t) /\ UNCHANGED threadVars

SleepRestore(t) == RestoreStatus(t) /\ UNCHANGED threadVars

SleepLeave(t) == RegainLock(t) /\ UNCHANGED threadVars

\* sleep, with a limit or for ever.
Sleep(t, l) ==
    /\ pc[t] = "user"
    /\ native_sleep(t, "user")
    /\ limited' = [limited EXCEPT ![t] = l]
    /\ UNCHANGED <<flag, thrown, timer, errinfo, living, joinList, target,
                   signalVars>>

\* Thread.stop is sleep for ever, refused to the only thread there is.
rb_thread_stop(t) ==
    \/ /\ pc[t] = "user" /\ Holds(t)
       /\ rb_thread_alone
       /\ errinfo[t] # "exc"
       /\ Raised(t)
       /\ UNCHANGED <<ret, status, flag, thrown, timer, living, joinList,
                      locals, signalVars>>
    \/ ~rb_thread_alone /\ Sleep(t, FALSE)

(***************************************************************************)
(* Thread.pass, Thread#wakeup and Thread#run.                              *)
(***************************************************************************)
thread_s_pass(t) ==
    /\ pc[t] = "user" /\ gvl = t
    /\ Schedule(t, "user")
    /\ UNCHANGED <<status, flag, thrown, timer, errinfo, living, joinList,
                   locals, signalVars>>

\* The thread was given the lock back by rb_thread_schedule.
Yielded(t) ==
    /\ pc[t] = "yield" /\ GvlLock(t)
    /\ Goto(t, "ints")
    /\ UNCHANGED <<ret, status, flag, thrown, timer, errinfo, living, joinList,
                   locals, signalVars>>

rb_thread_wakeup(t, u) ==
    /\ pc[t] = "user" /\ Holds(t)
    /\ Created(u)
    /\ \/ /\ status[u] = "killed"
          /\ Raised(t)
          /\ UNCHANGED <<ret, flag>>
       \/ /\ status[u] # "killed"
          /\ flag' = SetInterrupt({u})
          /\ pc' = Woken({u}, [pc EXCEPT ![t] = "ints"])
          /\ ret' = [ret EXCEPT ![t] = "user"]
          /\ UNCHANGED errinfo
    /\ UNCHANGED <<status, thrown, timer, living, joinList, locals, signalVars>>

\* wakeup, and then rb_thread_schedule, which gives way unless the thread is
\* alone.
rb_thread_run(t, u) ==
    \/ /\ status[u] = "killed" \/ rb_thread_alone
       /\ rb_thread_wakeup(t, u)
    \/ /\ pc[t] = "user" /\ gvl = t
       /\ Created(u) /\ status[u] # "killed" /\ ~rb_thread_alone
       /\ flag' = SetInterrupt({u})
       /\ pc' = Woken({u}, [pc EXCEPT ![t] = "yield"])
       /\ GvlUnlock(t)
       /\ ret' = [ret EXCEPT ![t] = "user"]
       /\ UNCHANGED <<status, thrown, timer, errinfo, living, joinList, locals,
                      signalVars>>

(***************************************************************************)
(* Thread#join.                                                            *)
(***************************************************************************)
thread_join(t, u, l) ==
    /\ pc[t] = "user" /\ Holds(t)
    /\ Created(u)
    /\ Goto(t, "join")
    /\ target' = [target EXCEPT ![t] = u]
    /\ limited' = [limited EXCEPT ![t] = l]
    /\ IF status[u] = "killed"
       THEN UNCHANGED joinList
       ELSE /\ join_list_next' =
                    [join_list_next EXCEPT ![t] = join_list_head[u]]
            /\ join_list_head' = [join_list_head EXCEPT ![u] = t]
    /\ UNCHANGED <<ret, status, flag, thrown, timer, errinfo, living,
                   prev_status, signalVars>>

\* The loop of thread_join_sleep, and what thread_join does after it: the
\* target is dead and its exception is raised once more in the joiner, ...
JoinDone(t) ==
    /\ pc[t] = "join" /\ Holds(t)
    /\ status[target[t]] = "killed"
    /\ IF errinfo[target[t]] = "exc"
       THEN Unwind(t, "user", None, "exc")
       ELSE Return(t) /\ UNCHANGED <<errinfo, joinList>>
    /\ UNCHANGED <<status, flag, thrown, timer, living, signalVars>>

\* ... the time is up, ...
JoinTimeout(t) ==
    /\ pc[t] = "join" /\ Holds(t)
    /\ status[target[t]] # "killed"
    /\ limited[t]
    /\ RemoveFromJoinList(t, target[t])
    /\ IF RemoveHangs(t, target[t])
       THEN Goto(t, "hang") /\ UNCHANGED <<ret, locals>>
       ELSE Return(t)
    /\ UNCHANGED <<status, flag, thrown, timer, errinfo, living, signalVars>>

\* ... or the joiner sleeps.
JoinSleep(t) ==
    /\ pc[t] = "join"
    /\ status[target[t]] # "killed"
    /\ native_sleep(t, "join")
    /\ UNCHANGED <<flag, thrown, timer, errinfo, living, joinList, target,
                   limited, signalVars>>

(***************************************************************************)
(* Thread#raise and Thread#kill.                                           *)
(***************************************************************************)
thread_raise_m(t, u) ==
    /\ pc[t] = "user" /\ Holds(t)
    /\ Created(u)
    /\ Goto(t, "raise")
    /\ target' = [target EXCEPT ![t] = u]
    /\ UNCHANGED <<ret, status, flag, thrown, timer, errinfo, living, joinList,
                   limited, prev_status, signalVars>>

\* rb_thread_raise: nothing is thrown at a dead thread, and not before the
\* thread has taken what was thrown at it earlier.
rb_thread_raise(t) ==
    /\ pc[t] = "raise"
    /\ LET u == target[t] IN
       \/ /\ status[u] = "killed" /\ Holds(t)
          /\ Return(t)
          /\ UNCHANGED <<flag, thrown>>
       \/ /\ status[u] # "killed" /\ thrown[u] # "nil"
          /\ Schedule(t, "raise")
          /\ UNCHANGED <<flag, thrown, locals>>
       \/ /\ status[u] # "killed" /\ thrown[u] = "nil" /\ Holds(t)
          /\ thrown' = [thrown EXCEPT ![u] = "exc"]
          /\ flag' = SetInterrupt({u})
          /\ pc' = Woken({u}, [pc EXCEPT ![t] = "ints"])
          /\ ret' = [ret EXCEPT ![t] = "user"]
          /\ target' = [target EXCEPT ![t] = None]
          /\ UNCHANGED <<limited, prev_status>>
    /\ UNCHANGED <<status, timer, errinfo, living, joinList, signalVars>>

\* Mutant: a thread that is dead can be marked to be killed again.
KillableDead(u) == status[u] # "to_kill"

\* rb_thread_kill has something to do for u.
Killable(u) == status[u] \notin {"to_kill", "killed"}

\* rb_thread_kill; to kill the main thread is to raise SystemExit oneself.
rb_thread_kill(t, u) ==
    /\ pc[t] = "user" /\ Holds(t)
    /\ Created(u)
    /\ \/ /\ ~Killable(u)
          /\ Return(t)
          /\ UNCHANGED <<status, flag, thrown, errinfo>>
       \/ /\ Killable(u) /\ u = Main
          /\ Raised(t)
          /\ UNCHANGED <<ret, status, flag, thrown, locals>>
       \/ /\ Killable(u) /\ u # Main
          /\ flag' = SetInterrupt({u})
          /\ pc' = Woken({u}, [pc EXCEPT ![t] = "ints"])
          /\ ret' = [ret EXCEPT ![t] = "user"]
          /\ thrown' = [thrown EXCEPT ![u] = "kill"]
          /\ status' = [status EXCEPT ![u] = "to_kill"]
          /\ UNCHANGED <<errinfo, locals>>
    /\ UNCHANGED <<timer, living, joinList, signalVars>>

(***************************************************************************)
(* RUBY_VM_CHECK_INTS() and rb_thread_execute_interrupts.                  *)
(***************************************************************************)
\* Mutant: the thread unwinds with the signal itself.
ErrIsThrown(e) == e

\* What a thrown_errinfo becomes: both signals unwind with TAG_FATAL.
ErrOf(e) == IF e \in {"kill", "terminate"} THEN "fatal" ELSE e

\* `exception from another thread', in code that goes on at r.
Throw(t, r, u) ==
    /\ Unwind(t, r, u, ErrOf(thrown[t]))
    /\ thrown' = [thrown EXCEPT ![t] = "nil"]
    /\ status' = [status EXCEPT ![t] = "runnable"]

TakesSignal(t) == t = Main /\ exec_signal

IntsReturn(t) ==
    /\ pc[t] = "ints" /\ Holds(t)
    /\ flag[t] = {}
    /\ Goto(t, ret[t])
    /\ ret' = [ret EXCEPT ![t] = "user"]
    /\ limited' = [limited EXCEPT ![t] = @ /\ ret[t] = "join"]
    /\ UNCHANGED <<status, flag, thrown, timer, errinfo, living, joinList,
                   target, prev_status, signalVars>>

IntsThrow(t) ==
    /\ pc[t] = "ints" /\ Holds(t)
    /\ flag[t] # {} /\ ~TakesSignal(t) /\ thrown[t] # "nil"
    /\ flag' = [flag EXCEPT ![t] = {}]
    /\ IF ret[t] = "sigraise"
       THEN Throw(t, frame.ret, frame.target) /\ frame' = NoFrame
       ELSE Throw(t, ret[t], target[t]) /\ UNCHANGED frame
    /\ UNCHANGED <<timer, living, signals, exec_signal>>

\* `thread pass'.
IntsPass(t) ==
    /\ pc[t] = "ints" /\ gvl = t
    /\ flag[t] # {} /\ ~TakesSignal(t) /\ thrown[t] = "nil"
    /\ flag' = [flag EXCEPT ![t] = {}]
    /\ IF rb_thread_alone THEN UNCHANGED pc /\ Holds(t)
                          ELSE Goto(t, "yield") /\ GvlUnlock(t)
    /\ UNCHANGED <<ret, status, thrown, timer, errinfo, living, joinList,
                   locals, signalVars>>

(***************************************************************************)
(* rb_signal_exec, in the main thread.  A trap handler is Ruby code that   *)
(* runs on top of whatever polled the flag.                                *)
(***************************************************************************)
SignalTaken ==
    /\ pc[Main] = "ints" /\ Holds(Main)
    /\ flag[Main] # {} /\ exec_signal
    /\ exec_signal' = FALSE
    /\ status' = [status EXCEPT ![Main] = "runnable"]
    /\ UNCHANGED <<timer, living, signals>>

PushFrame(p, r) ==
    /\ frame' = [ret |-> ret[Main], target |-> target[Main],
                 limited |-> limited[Main], status |-> status[Main],
                 errinfo |-> errinfo[Main]]
    /\ Goto(Main, p)
    /\ ret' = [ret EXCEPT ![Main] = r]
    /\ errinfo' = [errinfo EXCEPT ![Main] = "nil"]
    /\ target' = [target EXCEPT ![Main] = None]
    /\ limited' = [limited EXCEPT ![Main] = FALSE]
    /\ flag' = [flag EXCEPT ![Main] = {}]
    /\ UNCHANGED <<prev_status, thrown, joinList>>

\* A Proc given to trap.
signal_exec == SignalTaken /\ PushFrame("user", "user")

\* SIGINT without one: rb_interrupt raises at once, and leaves behind what
\* another thread threw at the main thread.
rb_interrupt ==
    /\ SignalTaken
    /\ Unwind(Main, ret[Main], target[Main], "exc")
    /\ flag' = [flag EXCEPT ![Main] = {}]
    /\ UNCHANGED <<thrown, frame>>

\* SIGTERM and the like: the main thread throws SignalException at itself,
\* and so waits for itself to take what was thrown at it before.
rb_thread_signal_raise ==
    \/ /\ SignalTaken
       /\ thrown[Main] = "nil"
       /\ Unwind(Main, ret[Main], target[Main], "exc")
       /\ flag' = [flag EXCEPT ![Main] = {"int"}]
       /\ UNCHANGED <<thrown, frame>>
    \/ /\ SignalTaken
       /\ thrown[Main] # "nil"
       /\ PushFrame("sigraise", "sigraise")
    \/ /\ pc[Main] = "sigraise" /\ gvl = Main
       /\ Schedule(Main, "sigraise")
       /\ UNCHANGED <<status, flag, thrown, timer, errinfo, living, joinList,
                      locals, signalVars>>

\* The handler returns into rb_thread_execute_interrupts, ...
TrapReturn ==
    /\ pc[Main] = "user" /\ gvl = Main
    /\ frame # NoFrame /\ errinfo[Main] = "nil"
    /\ frame' = NoFrame
    /\ IF thrown[Main] # "nil"
       THEN Throw(Main, frame.ret, frame.target) /\ Holds(Main)
       ELSE /\ status' = [status EXCEPT ![Main] = frame.status]
            /\ ret' = [ret EXCEPT ![Main] = frame.ret]
            /\ errinfo' = [errinfo EXCEPT ![Main] = frame.errinfo]
            /\ target' = [target EXCEPT ![Main] = frame.target]
            /\ limited' = [limited EXCEPT ![Main] = frame.limited]
            /\ IF rb_thread_alone THEN Goto(Main, "ints") /\ Holds(Main)
                                  ELSE Goto(Main, "yield") /\ GvlUnlock(Main)
            /\ UNCHANGED <<thrown, joinList, prev_status>>
    /\ UNCHANGED <<flag, timer, living, signals, exec_signal>>

\* ... or an exception leaves it and what it interrupted.
TrapUnwind ==
    /\ pc[Main] = "user" /\ Holds(Main)
    /\ frame # NoFrame /\ errinfo[Main] = "exc"
    /\ frame' = NoFrame
    /\ Unwind(Main, frame.ret, frame.target, "exc")
    /\ UNCHANGED <<status, flag, thrown, timer, living, signals, exec_signal>>

(***************************************************************************)
(* The end of a thread (thread_start_func_2).  With abort_on_exception its *)
(* exception is thrown at the main thread, by the rb_thread_raise that     *)
(* waits its turn.  Then the thread leaves living_threads, wakes the       *)
(* threads that join it and gives the lock away for good.                  *)
(***************************************************************************)
Finish(t) ==
    /\ t # Main
    /\ pc[t] \in {"user", "finish"} /\ Holds(t)
    /\ status' = [status EXCEPT ![t] = "killed"]
    /\ Goto(t, IF AbortOnException /\ errinfo[t] = "exc" THEN "finraise"
                                                         ELSE "finwake")
    /\ UNCHANGED <<ret, flag, thrown, timer, errinfo, living, joinList, locals,
                   signalVars>>

FinishRaise(t) ==
    /\ pc[t] = "finraise"
    /\ \/ /\ thrown[Main] # "nil"
          /\ Schedule(t, "finraise")
          /\ UNCHANGED <<flag, thrown>>
       \/ /\ thrown[Main] = "nil" /\ Holds(t)
          /\ thrown' = [thrown EXCEPT ![Main] = "exc"]
          /\ flag' = SetInterrupt({Main})
          /\ pc' = Woken({Main}, [pc EXCEPT ![t] = "finwake"])
          /\ UNCHANGED ret
    /\ UNCHANGED <<status, timer, errinfo, living, joinList, locals, signalVars>>

FinishWake(t) ==
    /\ pc[t] = "finwake"
    /\ living' = living \ {t}
    /\ flag' = SetInterrupt(JoinChain(t))
    /\ \/ /\ ~Endless(t)
          /\ GvlUnlock(t)
          /\ pc' = Woken(JoinChain(t), [pc EXCEPT ![t] = "dead"])
          /\ status' = [status EXCEPT ![t] = "killed"]
       \/ /\ Endless(t)
          /\ Holds(t)
          /\ pc' = Woken(JoinChain(t), [pc EXCEPT ![t] = "hang"])
          /\ UNCHANGED status
    /\ UNCHANGED <<ret, thrown, timer, errinfo, joinList, locals, signalVars>>

(***************************************************************************)
(* The end of the process: ruby_cleanup calls rb_thread_terminate_all,     *)
(* which throws eTerminateSignal at every thread and passes until it is    *)
(* alone.                                                                  *)
(***************************************************************************)
rb_thread_terminate_all ==
    LET others == living \ {Main} IN
    /\ pc[Main] = "user" /\ Holds(Main)
    /\ frame = NoFrame
    /\ flag' = SetInterrupt(others)
    /\ pc' = Woken(others, [pc EXCEPT ![Main] = "term"])
    /\ thrown' = [u \in Threads |->
                    IF u \in others THEN "terminate" ELSE thrown[u]]
    /\ status' = [u \in Threads |->
                    IF u \in others THEN "to_kill" ELSE status[u]]
    /\ UNCHANGED <<ret, timer, errinfo, living, joinList, locals, signalVars>>

TerminateWait ==
    /\ pc[Main] = "term" /\ gvl = Main
    /\ ~rb_thread_alone
    /\ Schedule(Main, "term")
    /\ UNCHANGED <<status, flag, thrown, timer, errinfo, living, joinList,
                   locals, signalVars>>

TerminateDone ==
    /\ pc[Main] = "term" /\ Holds(Main)
    /\ rb_thread_alone
    /\ Goto(Main, "exit")
    /\ UNCHANGED <<ret, status, flag, thrown, timer, errinfo, living, joinList,
                   locals, signalVars>>

(***************************************************************************)
(* The timer thread and the signal handler, neither of which takes the     *)
(* lock.  They stop with system_working.                                   *)
(***************************************************************************)
Working == pc[Main] # "exit"

TimerTick ==
    /\ Working
    /\ TimerLoad \/ RubyVmSetTimerInterrupt
    /\ UNCHANGED <<pc, ret, gvl, current, status, thrown, errinfo, living,
                   joinList, locals, signalVars>>

TimerSignal ==
    /\ Working
    /\ timer = TimerIdle
    /\ signals.buffered > 0 /\ ~exec_signal
    /\ signals' = [signals EXCEPT !.buffered = @ - 1]
    /\ exec_signal' = TRUE
    /\ flag' = SetInterrupt({Main})
    /\ pc' = Woken({Main}, pc)
    /\ UNCHANGED <<ret, gvl, current, status, thrown, timer, errinfo, living,
                   joinList, locals, frame>>

sighandler ==
    /\ Working
    /\ signals.sent < MaxSignals
    /\ signals' = [sent |-> signals.sent + 1, buffered |-> signals.buffered + 1]
    /\ UNCHANGED <<coreVars, errinfo, living, joinList, locals, exec_signal,
                   frame>>

Exited == ~Working /\ UNCHANGED vars

-----------------------------------------------------------------------------
UserStep(t) ==
    \/ \E u \in Threads : thread_create_core(t, u)
    \/ Rescue(t)
    \/ "Kernel#raise" \in Calls /\ UserRaise(t)
    \/ "sleep" \in Calls /\ \E l \in Limits : Sleep(t, l)
    \/ "Thread.stop" \in Calls /\ rb_thread_stop(t)
    \/ "Thread.pass" \in Calls /\ thread_s_pass(t)
    \/ "wakeup" \in Calls /\ \E u \in Threads : rb_thread_wakeup(t, u)
    \/ "run" \in Calls /\ \E u \in Threads : rb_thread_run(t, u)
    \/ "join" \in Calls /\ \E u \in Threads, l \in Limits : thread_join(t, u, l)
    \/ "raise" \in Calls /\ \E u \in Threads : thread_raise_m(t, u)
    \/ "kill" \in Calls /\ \E u \in Threads : rb_thread_kill(t, u)

GetsLock(t) == Start(t) \/ Yielded(t) \/ SleepLeave(t)

RunsUnderLock(t) ==
    \/ CheckInts(t)
    \/ JoinDone(t) \/ JoinTimeout(t) \/ JoinSleep(t)
    \/ rb_thread_raise(t)
    \/ IntsReturn(t) \/ IntsThrow(t) \/ IntsPass(t)
    \/ FinishRaise(t) \/ FinishWake(t)

SleepStep(t) == SleepEnter(t) \/ SleepTimeout(t) \/ SleepRestore(t)

MainStep ==
    \/ signal_exec \/ rb_interrupt \/ rb_thread_signal_raise
    \/ TerminateWait \/ TerminateDone

Next ==
    \/ \E t \in Threads :
        \/ UserStep(t) \/ Finish(t)
        \/ GetsLock(t) \/ RunsUnderLock(t)
        \/ SleepStep(t) \/ SleepSpurious(t)
    \/ MainStep \/ TrapReturn \/ TrapUnwind \/ rb_thread_terminate_all
    \/ TimerTick \/ TimerSignal \/ sighandler
    \/ Exited

Spec == Init /\ [][Next]_vars

(***************************************************************************)
(* Fairness.  A native thread that can run C code does so, and a thread    *)
(* that waits for the lock while it is freed over and over gets it (strong *)
(* fairness), as Darwin's mutexes, which queue their waiters, and the      *)
(* sched_yield of rb_thread_schedule see to.  Ruby code polls its          *)
(* interrupt_flag at every call, branch and leave, so that a bit that      *)
(* keeps being set there is seen there (strong).  The timer thread ticks   *)
(* every 10 ms: not inside the same few C functions every time (strong,    *)
(* for the ticks that fall into Ruby code), and not between every taking   *)
(* of the lock and the poll behind it (strong, for the polls that find     *)
(* nothing).  Nothing obliges the Ruby program to call anything, to end,   *)
(* or to leave a trap handler.                                             *)
(***************************************************************************)
Fairness ==
    /\ \A t \in Threads :
        /\ SF_vars(GetsLock(t))
        /\ SF_vars(CheckInts(t))
        /\ SF_vars(IntsReturn(t))
        /\ WF_vars(RunsUnderLock(t))
        /\ WF_vars(pc[t] = "finish" /\ Finish(t))
        /\ WF_vars(SleepStep(t))
    /\ WF_vars(MainStep)
    /\ WF_vars(TimerSignal)
    /\ SF_vars(pc[current] = "user" /\ TimerTick)

FairSpec == Spec /\ Fairness

-----------------------------------------------------------------------------
(***************************************************************************)
(* Properties.                                                             *)
(***************************************************************************)
\* Every variable has its type.
TypeOK ==
    /\ pc \in [Threads -> PCs]
    /\ ret \in [Threads -> Labels]
    /\ gvl \in Threads \cup {None}
    /\ current \in Threads
    /\ status \in [Threads -> ThreadStatus]
    /\ flag \in [Threads -> SUBSET Bits]
    /\ thrown \in [Threads -> Thrown]
    /\ timer \in [victim : Threads \cup {None}, bits : SUBSET Bits]
    /\ errinfo \in [Threads -> {"nil", "exc", "fatal"}]
    /\ living \in SUBSET Threads
    /\ join_list_head \in [Threads -> Threads \cup {None}]
    /\ join_list_next \in [Threads -> Threads \cup {None}]
    /\ target \in [Threads -> Threads \cup {None}]
    /\ limited \in [Threads -> BOOLEAN]
    /\ prev_status \in [Threads -> ThreadStatus]
    /\ signals \in [sent : 0..MaxSignals, buffered : Nat]
    /\ exec_signal \in BOOLEAN
    /\ frame \in {NoFrame} \cup
            [ret : Labels, target : Threads \cup {None}, limited : BOOLEAN,
             status : ThreadStatus, errinfo : {"nil", "exc", "fatal"}]

\* The global VM lock works: a thread that runs VM code holds it, whoever
\* holds it runs VM code (it is not kept by a thread that sleeps, waits or
\* has ended), and GET_THREAD() is the thread that runs.
CurrentIsHolder ==
    \A t \in Threads :
        /\ pc[t] \in VMSide <=> gvl = t
        /\ pc[t] \in VMSide => current = t

\* rb_signal_exec has been entered, and may have been left by an exception
\* that skipped the `exception from another thread' behind it.
SignalRan == signals.sent > signals.buffered /\ ~exec_signal

\* Whatever Thread#raise, Thread#kill or the end of the process throws at a
\* thread is announced by bit 0x02 of its interrupt_flag until the thread
\* takes it: the flag is cleared nowhere else.  Only a signal that runs in
\* the main thread separates the two.
ThrownIsFlagged ==
    \A t \in Threads :
        thrown[t] # "nil" /\ pc[t] # "dead" /\ ~(t = Main /\ SignalRan)
            => "int" \in flag[t]

\* No wakeup is lost: a thread inside pthread_cond_wait has no interrupt
\* pending, whenever the interrupt came relative to its going to sleep.
NoSleepInterrupted ==
    \A t \in Threads : pc[t] = "sl_wait" => "int" \notin flag[t]

\* Thread#status tells the truth: a thread that runs Ruby code is not shown
\* asleep or dead, one inside pthread_cond_wait is not shown running, and one
\* that has ended is shown dead.
StatusTellsTruth ==
    \A t \in Threads :
        /\ pc[t] = "user" => status[t] \in {"runnable", "to_kill"}
        /\ pc[t] = "sl_wait" => status[t] \in {"stopped", "to_kill"}
        /\ pc[t] = "dead" => status[t] = "killed"

\* No loop in C runs for ever with the lock in its hands: the lists of
\* joiners are walked to their end.
NoHang == \A t \in Threads : pc[t] # "hang"

Joining(t) == ret[t] = "join" /\ pc[t] \in {"sl_enter", "sl_wait"}

\* A thread asleep in join is either on its way to be woken or on the list of
\* a thread that has yet to end and will wake everyone on it.
NoOrphanJoiner ==
    \A t \in Threads :
        Joining(t) /\ "int" \notin flag[t]
            => t \in JoinChain(target[t]) /\ pc[target[t]] # "dead"

\* `wake up joinning threads': a thread does not sleep in join on a thread
\* that has ended.
JoinersWoken ==
    \A t \in Threads :
        pc[t] = "sl_wait" /\ ret[t] = "join" => pc[target[t]] # "dead"

\* When rb_thread_terminate_all returns and the process goes away, every
\* other thread has run to its end, also one that was created meanwhile.
ExitAlone ==
    pc[Main] = "exit" =>
        \A t \in Threads \ {Main} : pc[t] \in {"unborn", "dead"}

\* Thread#alive? does not turn true again.
DeadIsForever ==
    [][\A t \in Threads : status[t] = "killed" => status'[t] = "killed"]_vars

\* A thread killed in its sleep is shown "aborting" while another thread,
\* such as the one that killed it, holds the lock.
KilledIsAborting ==
    \A t \in Threads :
        thrown[t] = "kill" /\ pc[t] = "sl_gvl" /\ gvl \notin {t, None}
            => status[t] = "to_kill"

\* Thread#kill terminates a thread that sleeps: it does not sleep on with the
\* kill thrown at it.
KillEndsSleep ==
    \A t \in Threads : pc[t] = "sl_wait" => thrown[t] # "kill"

\* What is thrown at a thread is taken by it, wherever it waits, unless it
\* ends first.
ThrownIsTaken ==
    \A t \in Threads :
        thrown[t] # "nil" ~> thrown[t] = "nil" \/ pc[t] = "dead"

\* A thread that joins a thread that has ended gets to run again.
JoinReturns ==
    \A t \in Threads :
        (Joining(t) /\ pc[target[t]] = "dead") ~> gvl = t \/ ~Working

\* A signal the process received is executed by the main thread.
SignalIsTaken == signals.sent > 0 ~> SignalRan \/ ~Working
=============================================================================
