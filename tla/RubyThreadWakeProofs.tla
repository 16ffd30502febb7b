------------------------ MODULE RubyThreadWakeProofs ------------------------
(***************************************************************************)
(* No wakeup is lost, for every set of threads, where the timer thread's   *)
(* `interrupt_flag |= 0x01' is one access.  Where it is a load and a store *)
(* one can be lost, and KillEndsSleep does not hold.                       *)
(***************************************************************************)
EXTENDS RubyThreadProofs

USE CoreAssumption, ThreadAssumption

\* A signal that the main thread is to execute was taken from the buffer.
SignalsOK ==
    /\ signals.buffered <= signals.sent
    /\ exec_signal => signals.buffered < signals.sent

\* The invariant: NoSleepInterrupted preserves itself once the timer cannot
\* hold an old value of the flag; ThrownIsFlagged says what a sleeper's clear
\* flag means for what was thrown at it, and needs the order of the signals.
WakeInv ==
    AtomicOr => /\ timer = TimerIdle
                /\ NoSleepInterrupted
                /\ ThrownIsFlagged
                /\ thrown[Main] # "kill"
                /\ SignalsOK

(***************************************************************************)
(* What every step does to a thread s.                                     *)
(***************************************************************************)
\* s does not come to be asleep with bit 0x02 set, ...
Quiet(s) ==
    pc'[s] = "sl_wait" =>
        \/ "int" \notin flag'[s]
        \/ /\ pc[s] = "sl_wait"
           /\ "int" \in flag'[s] => "int" \in flag[s]

\* ... and what was or is now thrown at it is announced.
Announces(s) ==
    /\ pc[s] = "dead" => pc'[s] = "dead"
    /\ \/ "int" \in flag'[s]
       \/ thrown'[s] = "nil"
       \/ /\ thrown'[s] = thrown[s]
          /\ "int" \in flag[s] => "int" \in flag'[s]

\* Only a signal executed in the main thread separates the two.
Tells(s) == (s = Main /\ SignalRan') \/ Announces(s)

WakeStep ==
    /\ \A s \in Threads : Quiet(s) /\ Tells(s)
    /\ thrown'[Main] = "kill" => thrown[Main] = "kill"
    /\ AtomicOr /\ timer = TimerIdle => timer' = TimerIdle

LEMMA WakePreserved ==
    ASSUME WakeInv, WakeStep, SignalRan => SignalRan', AtomicOr, SignalsOK'
    PROVE  WakeInv'
<1>1. timer' = TimerIdle /\ thrown'[Main] # "kill"
  BY DEF WakeInv, WakeStep
<1>2. NoSleepInterrupted'
  BY DEF WakeInv, WakeStep, Quiet, NoSleepInterrupted
<1>3. ThrownIsFlagged'
  <2> SUFFICES ASSUME NEW s \in Threads, thrown'[s] # "nil", pc'[s] # "dead",
                      ~(s = Main /\ SignalRan')
               PROVE  "int" \in flag'[s]
    BY DEF ThrownIsFlagged
  <2>1. Announces(s)
    BY DEF WakeStep, Tells
  <2>2. thrown[s] # "nil" /\ pc[s] # "dead" => "int" \in flag[s]
    BY DEF WakeInv, ThrownIsFlagged
  <2>3. QED
    BY <2>1, <2>2 DEF Announces
<1>4. QED
  BY <1>1, <1>2, <1>3 DEF WakeInv, TimerIdle

(***************************************************************************)
(* With the bound of one signal, once it has been executed it stays so.    *)
(***************************************************************************)
LEMMA SignalsKept ==
    ASSUME TypeOK, SignalsOK, [Next]_vars
    PROVE  SignalsOK' /\ (SignalRan => SignalRan')
<1>0. /\ signals.sent \in 0..MaxSignals /\ MaxSignals \in 0..1
      /\ signals.buffered \in Nat
  BY DEF TypeOK
<1>1. CASE UNCHANGED <<signals, exec_signal>>
  BY <1>1 DEF SignalsOK, SignalRan
<1>2. CASE UNCHANGED signals /\ exec_signal' = FALSE
  BY <1>2 DEF SignalsOK, SignalRan
<1>3. CASE TimerSignal
  <2>1. /\ signals.buffered > 0 /\ signals'.sent = signals.sent
        /\ signals'.buffered = signals.buffered - 1
    BY <1>3 DEF TimerSignal, TypeOK
  <2>2. ~SignalRan
    BY <1>0, <2>1 DEF SignalRan
  <2>3. QED
    BY <1>0, <2>1, <2>2 DEF SignalsOK
<1>4. CASE sighandler
  <2>1. /\ signals.sent < MaxSignals /\ UNCHANGED exec_signal
        /\ signals'.sent = signals.sent + 1
        /\ signals'.buffered = signals.buffered + 1
    BY <1>4 DEF sighandler
  <2>2. ~SignalRan
    BY <1>0, <2>1 DEF SignalRan
  <2>3. QED
    BY <1>0, <2>1, <2>2 DEF SignalsOK
<1> USE DEF signalVars, threadVars
<1>5. ASSUME NEW t \in Threads, UserStep(t) PROVE UNCHANGED <<signals, exec_signal>>
  BY <1>5 DEF UserStep, thread_create_core, Rescue, UserRaise, Sleep, rb_thread_stop,
     thread_s_pass, rb_thread_wakeup, rb_thread_run, thread_join, thread_raise_m,
     rb_thread_kill
<1>6. ASSUME NEW t \in Threads, GetsLock(t) \/ SleepStep(t) \/ SleepSpurious(t)
      PROVE  UNCHANGED <<signals, exec_signal>>
  BY <1>6 DEF GetsLock, Start, Yielded, SleepLeave, SleepStep, SleepEnter, SleepTimeout,
     SleepRestore, SleepSpurious
<1>7. ASSUME NEW t \in Threads, RunsUnderLock(t) \/ Finish(t)
      PROVE  UNCHANGED <<signals, exec_signal>>
  BY <1>7 DEF RunsUnderLock, Finish, CheckInts, JoinDone, JoinTimeout, JoinSleep,
     rb_thread_raise, IntsReturn, IntsThrow, IntsPass, FinishRaise, FinishWake
<1>8. CASE MainStep
  <2>1. CASE SignalTaken
    BY <1>2, <2>1 DEF SignalTaken
  <2>2. CASE ~SignalTaken
    BY <1>1, <1>8, <2>2 DEF MainStep, signal_exec, rb_interrupt, rb_thread_signal_raise,
       TerminateWait, TerminateDone
  <2>3. QED
    BY <2>1, <2>2
<1>9. CASE TrapReturn \/ TrapUnwind \/ rb_thread_terminate_all \/ TimerTick
  BY <1>1, <1>9 DEF TrapReturn, TrapUnwind, rb_thread_terminate_all, TimerTick
<1>10. CASE UNCHANGED vars
  BY <1>1, <1>10 DEF vars
<1>11. QED
  BY <1>1, <1>3, <1>4, <1>5, <1>6, <1>7, <1>8, <1>9, <1>10 DEF Next, Exited

(***************************************************************************)
(* The two kinds of steps: thread t moves, perhaps clearing its own flag   *)
(* for what it takes, ...                                                  *)
(***************************************************************************)
LEMMA MoveWakes ==
    ASSUME TypeOK, NEW t \in Threads, NEW p, p # "sl_wait",
           pc[t] \notin {"dead", "sl_wait"},
           Goto(t, p) \/ UNCHANGED pc,
           UNCHANGED timer,
           \/ UNCHANGED thrown
           \/ thrown' = [thrown EXCEPT ![t] = "nil"],
           \/ UNCHANGED flag
           \/ /\ \E B : flag' = [flag EXCEPT ![t] = B]
              /\ (t = Main /\ SignalRan') \/ thrown'[t] = "nil"
    PROVE  WakeStep
<1>1. \A s \in Threads : pc'[s] = pc[s] \/ (s = t /\ pc'[s] = p)
  BY DEF TypeOK, Goto
<1>2. \A s \in Threads : thrown'[s] = thrown[s] \/ thrown'[s] = "nil"
  BY DEF TypeOK
<1>3. \A s \in Threads \ {t} : flag'[s] = flag[s]
  BY DEF TypeOK
<1>4. UNCHANGED flag \/ (t = Main /\ SignalRan') \/ thrown'[t] = "nil"
  OBVIOUS
<1>5. \A s \in Threads : Quiet(s)
  BY <1>1, <1>3 DEF Quiet
<1>6. \A s \in Threads : Tells(s)
  BY <1>1, <1>2, <1>3, <1>4 DEF Tells, Announces
<1>7. QED
  BY <1>2, <1>5, <1>6 DEF WakeStep

\* ... or it interrupts the threads of S, which are woken, and may throw
\* something at them.
LEMMA InterruptWakes ==
    ASSUME TypeOK, NEW t \in Threads, NEW p, p # "sl_wait",
           pc[t] # "dead", NEW S,
           pc' = Woken(S, [pc EXCEPT ![t] = p]),
           flag' = SetInterrupt(S),
           UNCHANGED timer,
           \A s \in Threads \ S : thrown'[s] = thrown[s],
           thrown'[Main] = "kill" => thrown[Main] = "kill"
    PROVE  WakeStep
<1> DEFINE q == [pc EXCEPT ![t] = p]
<1>1. \A s \in Threads : q[s] = pc[s] \/ (s = t /\ q[s] = p)
  BY DEF TypeOK
<1>2. pc' = Woken(S, q)
  OBVIOUS
<1> HIDE DEF q
<1>3. \A s \in Threads :
        /\ pc'[s] = "sl_wait" => s \notin S /\ q[s] = "sl_wait"
        /\ q[s] = "dead" => pc'[s] = "dead"
  BY <1>2 DEF Woken
<1>4. \A s \in Threads :
        /\ s \in S => "int" \in flag'[s]
        /\ s \notin S => flag'[s] = flag[s]
  BY DEF SetInterrupt
<1>5. \A s \in Threads : Quiet(s)
  BY <1>1, <1>3, <1>4 DEF Quiet
<1>6. \A s \in Threads : Tells(s)
  BY <1>1, <1>3, <1>4 DEF Tells, Announces
<1>7. QED
  BY <1>5, <1>6 DEF WakeStep

LEMMA UnwindMoves ==
    ASSUME NEW t \in Threads, NEW r, NEW u, NEW e, Unwind(t, r, u, e)
    PROVE  \E p : p # "sl_wait" /\ Goto(t, p)
BY DEF Unwind

LEMMA ScheduleMoves ==
    ASSUME NEW t \in Threads, NEW r, Schedule(t, r)
    PROVE  \E p : p # "sl_wait" /\ Goto(t, p)
BY DEF Schedule

(***************************************************************************)
(* Every step.                                                             *)
(***************************************************************************)
LEMMA WakeUser ==
    ASSUME TypeOK, NEW t \in Threads, UserStep(t)
    PROVE  WakeStep
<1>1. ASSUME NEW u \in Threads, thread_create_core(t, u) PROVE WakeStep
  <2>1. \A s \in Threads : \/ pc'[s] = pc[s]
                           \/ /\ pc[s] # "dead"
                              /\ pc'[s] \in {"ints", "start", "dead"}
    BY <1>1 DEF thread_create_core, TypeOK
  <2>2. UNCHANGED <<flag, thrown, timer>>
    BY <1>1 DEF thread_create_core
  <2>3. QED
    BY <2>1, <2>2 DEF WakeStep, Quiet, Tells, Announces
<1>2. CASE Rescue(t)
  BY <1>2, MoveWakes DEF Rescue
<1>3. CASE UserRaise(t)
  BY <1>3, MoveWakes DEF UserRaise, Raised
<1>4. ASSUME NEW l \in BOOLEAN, Sleep(t, l) PROVE WakeStep
  BY <1>4, MoveWakes DEF Sleep, native_sleep
<1>5. CASE rb_thread_stop(t)
  BY <1>4, <1>5, MoveWakes DEF rb_thread_stop, Raised
<1>6. CASE thread_s_pass(t)
  BY <1>6, ScheduleMoves, MoveWakes DEF thread_s_pass
<1>7. ASSUME NEW u \in Threads, rb_thread_wakeup(t, u) PROVE WakeStep
  <2>1. CASE Raised(t) /\ UNCHANGED flag
    BY <1>7, <2>1, MoveWakes DEF rb_thread_wakeup, Raised
  <2>2. CASE /\ flag' = SetInterrupt({u})
             /\ pc' = Woken({u}, [pc EXCEPT ![t] = "ints"])
    BY <1>7, <2>2, InterruptWakes DEF rb_thread_wakeup
  <2>3. QED
    BY <1>7, <2>1, <2>2 DEF rb_thread_wakeup
<1>8. ASSUME NEW u \in Threads, rb_thread_run(t, u) PROVE WakeStep
  BY <1>7, <1>8, InterruptWakes DEF rb_thread_run
<1>9. ASSUME NEW u \in Threads, NEW l \in BOOLEAN, thread_join(t, u, l)
      PROVE  WakeStep
  BY <1>9, MoveWakes DEF thread_join
<1>10. ASSUME NEW u \in Threads, thread_raise_m(t, u) PROVE WakeStep
  BY <1>10, MoveWakes DEF thread_raise_m
<1>11. ASSUME NEW u \in Threads, rb_thread_kill(t, u) PROVE WakeStep
  <2>1. pc[t] = "user" /\ UNCHANGED timer
    BY <1>11 DEF rb_thread_kill
  <2>2. CASE /\ Raised(t) \/ Return(t)
             /\ UNCHANGED <<flag, thrown>>
    BY <2>1, <2>2, MoveWakes DEF Raised, Return
  <2>3. CASE /\ u # Main
             /\ flag' = SetInterrupt({u})
             /\ pc' = Woken({u}, [pc EXCEPT ![t] = "ints"])
             /\ thrown' = [thrown EXCEPT ![u] = "kill"]
    <3>1. \A s \in Threads \ {u} : thrown'[s] = thrown[s]
      BY <2>3 DEF TypeOK
    <3>2. QED
      BY <2>1, <2>3, <3>1, InterruptWakes
  <2>4. QED
    BY <1>11, <2>2, <2>3 DEF rb_thread_kill
<1>12. QED
  BY <1>1, <1>2, <1>3, <1>4, <1>5, <1>6, <1>7, <1>8, <1>9, <1>10, <1>11
     DEF UserStep

LEMMA WakeSleep ==
    ASSUME TypeOK, NEW t \in Threads,
           GetsLock(t) \/ SleepStep(t) \/ SleepSpurious(t)
    PROVE  WakeStep
<1>1. CASE GetsLock(t)
  BY <1>1, MoveWakes DEF GetsLock, Start, Yielded, SleepLeave, RegainLock
<1>2. CASE SleepEnter(t)
  <2>1. /\ UNCHANGED <<flag, thrown, timer>>
        /\ \A s \in Threads \ {t} : pc'[s] = pc[s]
        /\ pc[t] # "dead"
        /\ pc'[t] = "sl_wait" => "int" \notin flag[t]
    BY <1>2 DEF SleepEnter, EnterWait, notAsleep, Goto, TypeOK
  <2>2. QED
    BY <2>1 DEF WakeStep, Quiet, Tells, Announces
<1>3. ASSUME EndWait(t) PROVE WakeStep
  <2>1. /\ UNCHANGED <<flag, thrown, timer>>
        /\ \A s \in Threads \ {t} : pc'[s] = pc[s]
        /\ pc[t] # "dead" /\ pc'[t] # "sl_wait"
    BY <1>3 DEF EndWait, notAsleep, Goto, TypeOK
  <2>2. QED
    BY <2>1 DEF WakeStep, Quiet, Tells, Announces
<1>4. CASE SleepRestore(t)
  BY <1>4, MoveWakes DEF SleepRestore, RestoreStatus, notAsleep
<1>5. QED
  BY <1>1, <1>2, <1>3, <1>4 DEF SleepStep, SleepTimeout, SleepSpurious

LEMMA WakeRuns ==
    ASSUME TypeOK, NEW t \in Threads, RunsUnderLock(t) \/ Finish(t)
    PROVE  WakeStep
<1>1. CASE CheckInts(t)
  BY <1>1, MoveWakes DEF CheckInts
<1>2. CASE JoinDone(t)
  <2>1. \E p : p # "sl_wait" /\ Goto(t, p)
    BY <1>2, UnwindMoves DEF JoinDone, Return
  <2>2. QED
    BY <1>2, <2>1, MoveWakes DEF JoinDone
<1>3. CASE JoinTimeout(t)
  <2>1. /\ pc[t] = "join" /\ UNCHANGED <<flag, thrown, timer>>
        /\ Goto(t, "hang") \/ Goto(t, "ints")
    BY <1>3 DEF JoinTimeout, Return
  <2>2. QED
    BY <2>1, MoveWakes
<1>4. CASE JoinSleep(t)
  BY <1>4, MoveWakes DEF JoinSleep, native_sleep
<1>5. CASE rb_thread_raise(t)
  <2>1. pc[t] = "raise" /\ UNCHANGED timer
    BY <1>5 DEF rb_thread_raise
  <2>2. CASE /\ Return(t) \/ Schedule(t, "raise")
             /\ UNCHANGED <<flag, thrown>>
    BY <2>1, <2>2, ScheduleMoves, MoveWakes DEF Return
  <2>3. CASE /\ flag' = SetInterrupt({target[t]})
             /\ pc' = Woken({target[t]}, [pc EXCEPT ![t] = "ints"])
             /\ thrown' = [thrown EXCEPT ![target[t]] = "exc"]
    <3>1. /\ \A s \in Threads \ {target[t]} : thrown'[s] = thrown[s]
          /\ thrown'[Main] = "kill" => thrown[Main] = "kill"
      BY <2>3 DEF TypeOK
    <3>2. QED
      BY <2>1, <2>3, <3>1, InterruptWakes
  <2>4. QED
    BY <1>5, <2>2, <2>3 DEF rb_thread_raise
<1>6. CASE IntsReturn(t)
  <2>1. ret[t] # "sl_wait"
    BY DEF TypeOK, Labels
  <2>2. QED
    BY <1>6, <2>1, MoveWakes DEF IntsReturn
<1>7. CASE IntsThrow(t)
  <2>1. /\ pc[t] = "ints" /\ UNCHANGED timer
        /\ flag' = [flag EXCEPT ![t] = {}]
        /\ \E r, u : Throw(t, r, u)
    BY <1>7 DEF IntsThrow
  <2>2. /\ \E p : p # "sl_wait" /\ Goto(t, p)
        /\ thrown' = [thrown EXCEPT ![t] = "nil"]
    BY <2>1, UnwindMoves DEF Throw
  <2>3. thrown'[t] = "nil"
    BY <2>2 DEF TypeOK
  <2>4. QED
    BY <2>1, <2>2, <2>3, MoveWakes
<1>8. CASE IntsPass(t)
  <2>1. /\ pc[t] = "ints" /\ UNCHANGED <<timer, thrown>>
        /\ flag' = [flag EXCEPT ![t] = {}]
        /\ thrown'[t] = "nil"
        /\ UNCHANGED pc \/ Goto(t, "yield")
    BY <1>8 DEF IntsPass
  <2>2. QED
    BY <2>1, MoveWakes
<1>9. CASE FinishRaise(t)
  <2>1. pc[t] = "finraise" /\ UNCHANGED timer
    BY <1>9 DEF FinishRaise
  <2>2. CASE Schedule(t, "finraise") /\ UNCHANGED <<flag, thrown>>
    BY <2>1, <2>2, ScheduleMoves, MoveWakes
  <2>3. CASE /\ flag' = SetInterrupt({Main})
             /\ pc' = Woken({Main}, [pc EXCEPT ![t] = "finwake"])
             /\ thrown' = [thrown EXCEPT ![Main] = "exc"]
    <3>1. /\ \A s \in Threads \ {Main} : thrown'[s] = thrown[s]
          /\ thrown'[Main] = "kill" => thrown[Main] = "kill"
      BY <2>3 DEF TypeOK
    <3>2. QED
      BY <2>1, <2>3, <3>1, InterruptWakes
  <2>4. QED
    BY <1>9, <2>2, <2>3 DEF FinishRaise
<1>10. CASE FinishWake(t)
  <2> DEFINE S == JoinChain(t)
  <2>1. /\ pc[t] = "finwake" /\ UNCHANGED <<timer, thrown>>
        /\ flag' = SetInterrupt(S)
        /\ \/ pc' = Woken(S, [pc EXCEPT ![t] = "dead"])
           \/ pc' = Woken(S, [pc EXCEPT ![t] = "hang"])
    BY <1>10 DEF FinishWake
  <2> HIDE DEF S
  <2>2. QED
    BY <2>1, InterruptWakes
<1>11. CASE Finish(t)
  <2>1. /\ pc[t] \in {"user", "finish"} /\ UNCHANGED <<flag, thrown, timer>>
        /\ Goto(t, "finraise") \/ Goto(t, "finwake")
    BY <1>11 DEF Finish
  <2>2. QED
    BY <2>1, MoveWakes
<1>12. QED
  BY <1>1, <1>2, <1>3, <1>4, <1>5, <1>6, <1>7, <1>8, <1>9, <1>10, <1>11
     DEF RunsUnderLock

LEMMA WakeMain ==
    ASSUME TypeOK, SignalsOK,
           MainStep \/ TrapReturn \/ TrapUnwind \/ rb_thread_terminate_all
    PROVE  WakeStep
<1>a. ASSUME SignalTaken, NEW p, p # "sl_wait", Goto(Main, p),
             \E B : flag' = [flag EXCEPT ![Main] = B], UNCHANGED thrown
      PROVE  WakeStep
  <2>1. pc[Main] = "ints" /\ UNCHANGED timer /\ SignalRan'
    BY <1>a DEF SignalTaken, SignalsOK, SignalRan, TypeOK
  <2>2. QED
    BY <1>a, <2>1, MoveWakes
<1>1. CASE signal_exec
  BY <1>1, <1>a DEF signal_exec, PushFrame
<1>2. CASE rb_interrupt
  BY <1>2, <1>a, UnwindMoves DEF rb_interrupt
<1>3. CASE rb_thread_signal_raise
  <2>1. CASE /\ SignalTaken /\ UNCHANGED thrown
             /\ flag' = [flag EXCEPT ![Main] = {"int"}]
             /\ Unwind(Main, ret[Main], target[Main], "exc")
    BY <1>a, <2>1, UnwindMoves
  <2>2. CASE SignalTaken /\ PushFrame("sigraise", "sigraise")
    BY <1>a, <2>2 DEF PushFrame
  <2>3. CASE /\ pc[Main] = "sigraise" /\ Schedule(Main, "sigraise")
             /\ UNCHANGED <<flag, thrown, timer>>
    BY <2>3, ScheduleMoves, MoveWakes
  <2>4. QED
    BY <1>3, <2>1, <2>2, <2>3 DEF rb_thread_signal_raise
<1>4. CASE TerminateWait
  BY <1>4, ScheduleMoves, MoveWakes DEF TerminateWait
<1>5. CASE TerminateDone
  BY <1>5, MoveWakes DEF TerminateDone
<1>6. CASE TrapReturn
  <2>1. pc[Main] = "user" /\ UNCHANGED <<flag, timer>>
    BY <1>6 DEF TrapReturn
  <2>2. CASE \E r, u : Throw(Main, r, u)
    <3>1. /\ \E p : p # "sl_wait" /\ Goto(Main, p)
          /\ thrown' = [thrown EXCEPT ![Main] = "nil"]
      BY <2>2, UnwindMoves DEF Throw
    <3>2. QED
      BY <2>1, <3>1, MoveWakes
  <2>3. CASE (Goto(Main, "ints") \/ Goto(Main, "yield")) /\ UNCHANGED thrown
    BY <2>1, <2>3, MoveWakes
  <2>4. QED
    BY <1>6, <2>2, <2>3 DEF TrapReturn
<1>7. CASE TrapUnwind
  BY <1>7, UnwindMoves, MoveWakes DEF TrapUnwind
<1>8. CASE rb_thread_terminate_all
  <2> DEFINE S == living \ {Main}
  <2>1. /\ pc[Main] = "user" /\ UNCHANGED timer
        /\ flag' = SetInterrupt(S)
        /\ pc' = Woken(S, [pc EXCEPT ![Main] = "term"])
        /\ thrown' = [u \in Threads |->
                        IF u \in S THEN "terminate" ELSE thrown[u]]
    BY <1>8 DEF rb_thread_terminate_all
  <2>2. Main \notin S
    OBVIOUS
  <2> HIDE DEF S
  <2>3. QED
    BY <2>1, <2>2, InterruptWakes
<1>9. QED
  BY <1>1, <1>2, <1>3, <1>4, <1>5, <1>6, <1>7, <1>8 DEF MainStep

\* The only writer without a lock adds bit 0x01 and erases nothing.
LEMMA WakeTimer ==
    ASSUME TypeOK, AtomicOr, timer = TimerIdle,
           TimerTick \/ TimerSignal \/ sighandler
    PROVE  WakeStep
<1>1. CASE TimerTick
  <2>1. /\ UNCHANGED <<pc, thrown, timer>>
        /\ flag' = [flag EXCEPT ![current] = @ \cup {"timer"}]
    BY <1>1 DEF TimerTick, TimerLoad, RubyVmSetTimerInterrupt, TimerIdle
  <2>2. \A s \in Threads : "int" \in flag'[s] <=> "int" \in flag[s]
    BY <2>1 DEF TypeOK
  <2>3. QED
    BY <2>1, <2>2 DEF WakeStep, Quiet, Tells, Announces
<1>2. CASE TimerSignal
  <2>1. /\ UNCHANGED <<thrown, timer>>
        /\ flag' = SetInterrupt({Main})
        /\ pc' = Woken({Main}, pc)
    BY <1>2 DEF TimerSignal
  <2>2. \A s \in Threads :
            /\ pc'[s] = "sl_wait" => s # Main /\ pc[s] = "sl_wait"
            /\ pc[s] = "dead" => pc'[s] = "dead"
            /\ s # Main => flag'[s] = flag[s]
            /\ s = Main => "int" \in flag'[s]
    BY <2>1 DEF Woken, SetInterrupt
  <2>3. QED
    BY <2>1, <2>2 DEF WakeStep, Quiet, Tells, Announces
<1>3. CASE sighandler
  BY <1>3 DEF sighandler, coreVars, signalVars, SignalRan, WakeStep, Quiet, Tells, Announces
<1>4. QED
  BY <1>1, <1>2, <1>3

LEMMA WakeNext ==
    ASSUME TypeOK, WakeInv, [Next]_vars
    PROVE  WakeInv'
<1>1. CASE ~AtomicOr
  BY <1>1 DEF WakeInv
<1>2. CASE UNCHANGED vars
  <2>1. SignalRan' <=> SignalRan
    BY <1>2 DEF vars, signalVars, SignalRan
  <2>2. SignalsOK' <=> SignalsOK
    BY <1>2 DEF vars, signalVars, SignalsOK
  <2>3. QED
    BY <1>2, <2>1, <2>2 DEF vars, coreVars, WakeInv, NoSleepInterrupted,
       ThrownIsFlagged, TimerIdle
<1>3. CASE AtomicOr /\ Next
  <2>1. CASE Exited
    BY <1>2, <2>1 DEF Exited
  <2>2. CASE ~Exited
    <3>1. timer = TimerIdle /\ SignalsOK
      BY <1>3 DEF WakeInv
    <3>2. WakeStep
      BY <1>3, <2>2, <3>1, WakeUser, WakeSleep, WakeRuns, WakeMain, WakeTimer
         DEF Next
    <3>3. SignalsOK' /\ (SignalRan => SignalRan')
      BY <3>1, SignalsKept
    <3>4. QED
      BY <1>3, <3>2, <3>3, WakePreserved
  <2>3. QED
    BY <2>1, <2>2
<1>4. QED
  BY <1>1, <1>2, <1>3

LEMMA WakeInvariant == Spec => []WakeInv
<1>1. Init => WakeInv
  <2> SUFFICES ASSUME Init PROVE WakeInv
    OBVIOUS
  <2>1. /\ pc = [t \in Threads |-> IF t = Main THEN "user" ELSE "unborn"]
        /\ thrown = [t \in Threads |-> "nil"]
        /\ timer = TimerIdle
        /\ signals.sent = 0 /\ signals.buffered = 0 /\ ~exec_signal
    BY DEF Init, CoreInit
  <2>2. QED
    BY <2>1 DEF WakeInv, NoSleepInterrupted, ThrownIsFlagged, SignalsOK
<1>2. TypeOK /\ WakeInv /\ [Next]_vars => WakeInv'
  BY WakeNext
<1>3. QED
  BY <1>1, <1>2, TypeCorrect, PTL DEF Spec

\* Where the timer thread's `|=' is one access, rb_thread_interrupt and
\* native_sleep lose no wakeup: no thread stays inside pthread_cond_wait with
\* its bit 0x02 set, and none sleeps on with a kill thrown at it.
THEOREM NoLostWakeup ==
    Spec => [](AtomicOr => NoSleepInterrupted /\ KillEndsSleep)
<1>1. WakeInv => (AtomicOr => NoSleepInterrupted /\ KillEndsSleep)
  BY DEF WakeInv, ThrownIsFlagged, NoSleepInterrupted, KillEndsSleep
<1>2. QED
  BY <1>1, WakeInvariant, PTL

\* Where the timer thread's `|=' is one access, whatever was thrown at a thread
\* that has not ended is announced in its interrupt_flag until the thread takes
\* it; only a signal executed in the main thread separates the two.
THEOREM ThrownStaysFlagged == Spec => [](AtomicOr => ThrownIsFlagged)
<1>1. WakeInv => (AtomicOr => ThrownIsFlagged)
  BY DEF WakeInv
<1>2. QED
  BY <1>1, WakeInvariant, PTL
=============================================================================
