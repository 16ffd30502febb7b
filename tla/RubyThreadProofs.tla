-------------------------- MODULE RubyThreadProofs --------------------------
(***************************************************************************)
(* The types of RubyThread's variables and the global VM lock, for every   *)
(* set of threads.                                                         *)
(***************************************************************************)
EXTENDS RubyThread, TLAPS

USE CoreAssumption, ThreadAssumption

LEMMA TypeInit == Init => TypeOK
<1> SUFFICES ASSUME Init PROVE TypeOK
  OBVIOUS
<1>1. signals \in [sent : 0..MaxSignals, buffered : Nat]
  BY DEF Init
<1>2. pc \in [Threads -> PCs]
  BY DEF Init, CoreInit, PCs, VMSide
<1>3. QED
  BY <1>1, <1>2 DEF Init, CoreInit, TypeOK, Labels, ThreadStatus, Bits,
                    Thrown, TimerIdle

(***************************************************************************)
(* What the building blocks of the actions leave in its type.              *)
(***************************************************************************)
LEMMA InterruptType ==
    ASSUME TypeOK, NEW S
    PROVE  SetInterrupt(S) \in [Threads -> SUBSET Bits]
BY DEF TypeOK, SetInterrupt, Bits

LEMMA WokenType ==
    ASSUME TypeOK, NEW S, NEW t \in Threads, NEW p \in PCs
    PROVE  Woken(S, [pc EXCEPT ![t] = p]) \in [Threads -> PCs]
BY DEF TypeOK, Woken, PCs, VMSide

LEMMA RemoveType ==
    ASSUME TypeOK, NEW t \in Threads, NEW u, RemoveFromJoinList(t, u)
    PROVE  /\ join_list_head' \in [Threads -> Threads \cup {None}]
           /\ join_list_next' \in [Threads -> Threads \cup {None}]
BY DEF TypeOK, RemoveFromJoinList, joinList

LEMMA UnwindType ==
    ASSUME TypeOK, NEW t \in Threads, NEW r, NEW u,
           NEW e \in {"nil", "exc", "fatal"}, Unwind(t, r, u, e)
    PROVE  /\ pc' \in [Threads -> PCs]
           /\ ret' \in [Threads -> Labels]
           /\ errinfo' \in [Threads -> {"nil", "exc", "fatal"}]
           /\ target' \in [Threads -> Threads \cup {None}]
           /\ limited' \in [Threads -> BOOLEAN]
           /\ prev_status' = prev_status
           /\ join_list_head' \in [Threads -> Threads \cup {None}]
           /\ join_list_next' \in [Threads -> Threads \cup {None}]
<1>1. /\ join_list_head' \in [Threads -> Threads \cup {None}]
      /\ join_list_next' \in [Threads -> Threads \cup {None}]
  BY RemoveType DEF Unwind, TypeOK, joinList
<1>2. QED
  BY <1>1 DEF Unwind, Goto, TypeOK, PCs, VMSide, Labels

LEMMA ThrowType ==
    ASSUME TypeOK, NEW t \in Threads, NEW r, NEW u, Throw(t, r, u)
    PROVE  /\ pc' \in [Threads -> PCs]
           /\ ret' \in [Threads -> Labels]
           /\ errinfo' \in [Threads -> {"nil", "exc", "fatal"}]
           /\ target' \in [Threads -> Threads \cup {None}]
           /\ limited' \in [Threads -> BOOLEAN]
           /\ prev_status' = prev_status
           /\ join_list_head' \in [Threads -> Threads \cup {None}]
           /\ join_list_next' \in [Threads -> Threads \cup {None}]
           /\ thrown' \in [Threads -> Thrown]
           /\ status' \in [Threads -> ThreadStatus]
<1>1. ErrOf(thrown[t]) \in {"nil", "exc", "fatal"}
  BY DEF TypeOK, ErrOf, Thrown
<1>2. /\ thrown' \in [Threads -> Thrown]
      /\ status' \in [Threads -> ThreadStatus]
  BY DEF Throw, TypeOK, Thrown, ThreadStatus
<1>3. QED
  BY <1>1, <1>2, UnwindType DEF Throw

LEMMA ReturnType ==
    ASSUME TypeOK, NEW t \in Threads, Return(t)
    PROVE  /\ pc' \in [Threads -> PCs]
           /\ ret' \in [Threads -> Labels]
           /\ target' \in [Threads -> Threads \cup {None}]
           /\ limited' \in [Threads -> BOOLEAN]
           /\ prev_status' = prev_status
BY DEF Return, Goto, TypeOK, PCs, VMSide, Labels

LEMMA ScheduleType ==
    ASSUME TypeOK, NEW t \in Threads, NEW r \in Labels, Schedule(t, r)
    PROVE  /\ pc' \in [Threads -> PCs]
           /\ ret' \in [Threads -> Labels]
           /\ gvl' \in Threads \cup {None}
           /\ current' = current
BY DEF Schedule, Goto, Holds, GvlUnlock, TypeOK, PCs, VMSide

LEMMA TypeUser ==
    ASSUME TypeOK, NEW t \in Threads, UserStep(t)
    PROVE  TypeOK'
<1>a. \A u \in Threads :
        /\ SetInterrupt({u}) \in [Threads -> SUBSET Bits]
        /\ Woken({u}, [pc EXCEPT ![t] = "ints"]) \in [Threads -> PCs]
        /\ Woken({u}, [pc EXCEPT ![t] = "yield"]) \in [Threads -> PCs]
  BY InterruptType, WokenType DEF PCs, VMSide
<1> USE DEF TypeOK, PCs, VMSide, Labels, ThreadStatus, Bits, Thrown, joinList,
            locals, signalVars, Goto, Raised, Return, Holds, GvlUnlock
<1>1. ASSUME NEW u \in Threads, thread_create_core(t, u) PROVE TypeOK'
  BY <1>1 DEF thread_create_core
<1>2. CASE Rescue(t)
  BY <1>2 DEF Rescue
<1>3. CASE UserRaise(t)
  BY <1>3 DEF UserRaise
<1>4. ASSUME NEW l \in BOOLEAN, Sleep(t, l) PROVE TypeOK'
  BY <1>4 DEF Sleep, native_sleep
<1>5. CASE rb_thread_stop(t)
  <2>1. CASE Sleep(t, FALSE)
    BY <1>4, <2>1
  <2>2. CASE Raised(t) /\ UNCHANGED <<ret, gvl, current, status, flag, thrown,
                                       timer, living, joinList, locals,
                                       signalVars>>
    BY <2>2
  <2>3. QED
    BY <1>5, <2>1, <2>2 DEF rb_thread_stop, Holds
<1>6. CASE thread_s_pass(t)
  BY <1>6 DEF thread_s_pass, Schedule
<1>7. ASSUME NEW u \in Threads, rb_thread_wakeup(t, u) PROVE TypeOK'
  <2>1. CASE status[u] = "killed"
    BY <1>7, <2>1 DEF rb_thread_wakeup
  <2>2. CASE status[u] # "killed"
    <3>1. /\ flag' = SetInterrupt({u})
          /\ pc' = Woken({u}, [pc EXCEPT ![t] = "ints"])
          /\ ret' = [ret EXCEPT ![t] = "user"]
          /\ UNCHANGED <<errinfo, gvl, current, status, thrown, timer, living,
                         joinList, locals, signalVars>>
      BY <1>7, <2>2 DEF rb_thread_wakeup
    <3>2. QED
      <4>1. pc' \in [Threads -> PCs] BY <1>a, <3>1
      <4>2. flag' \in [Threads -> SUBSET Bits] BY <1>a, <3>1
      <4>3. ret' \in [Threads -> Labels] BY <3>1
      <4> HIDE DEF PCs, VMSide, Labels, ThreadStatus, Bits, Thrown
      <4>4. QED BY <3>1, <4>1, <4>2, <4>3
  <2>3. QED
    BY <2>1, <2>2
<1>8. ASSUME NEW u \in Threads, rb_thread_run(t, u) PROVE TypeOK'
  <2>1. CASE rb_thread_wakeup(t, u)
    BY <1>7, <2>1
  <2>2. CASE ~(status[u] = "killed" \/ rb_thread_alone)
    <3>1. /\ flag' = SetInterrupt({u})
          /\ pc' = Woken({u}, [pc EXCEPT ![t] = "yield"])
          /\ ret' = [ret EXCEPT ![t] = "user"]
          /\ gvl' = None
          /\ UNCHANGED <<current, status, thrown, timer, errinfo, living,
                         joinList, locals, signalVars>>
      BY <1>8, <2>2 DEF rb_thread_run
    <3>2. QED
      BY <1>a, <3>1
  <2>3. QED
    BY <1>8, <2>1, <2>2 DEF rb_thread_run
<1>9. ASSUME NEW u \in Threads, NEW l \in BOOLEAN, thread_join(t, u, l)
      PROVE  TypeOK'
  BY <1>9 DEF thread_join
<1>10. ASSUME NEW u \in Threads, thread_raise_m(t, u) PROVE TypeOK'
  BY <1>10 DEF thread_raise_m
<1>11. ASSUME NEW u \in Threads, rb_thread_kill(t, u) PROVE TypeOK'
  <2>1. CASE ~Killable(u)
    <3>1. /\ Return(t)
          /\ UNCHANGED <<errinfo, gvl, current, status, flag, thrown, timer,
                         living, joinList, signalVars>>
      BY <1>11, <2>1 DEF rb_thread_kill
    <3>2. /\ pc' \in [Threads -> PCs]
          /\ ret' \in [Threads -> Labels]
          /\ target' \in [Threads -> Threads \cup {None}]
          /\ limited' \in [Threads -> BOOLEAN]
          /\ UNCHANGED prev_status
      BY <3>1
    <3> HIDE DEF PCs, VMSide, Labels, ThreadStatus, Bits, Thrown
    <3>3. QED
      BY <3>1, <3>2
  <2>2. CASE Killable(u) /\ u = Main
    BY <1>11, <2>2 DEF rb_thread_kill
  <2>3. CASE Killable(u) /\ u # Main
    <3>1. /\ flag' = SetInterrupt({u})
          /\ pc' = Woken({u}, [pc EXCEPT ![t] = "ints"])
          /\ ret' = [ret EXCEPT ![t] = "user"]
          /\ thrown' = [thrown EXCEPT ![u] = "kill"]
          /\ status' = [status EXCEPT ![u] = "to_kill"]
          /\ UNCHANGED <<errinfo, gvl, current, timer, living, joinList,
                         locals, signalVars>>
      BY <1>11, <2>3 DEF rb_thread_kill
    <3>2. pc' \in [Threads -> PCs] /\ flag' \in [Threads -> SUBSET Bits]
      BY <1>a, <3>1
    <3>3. /\ ret' \in [Threads -> Labels]
          /\ thrown' \in [Threads -> Thrown]
          /\ status' \in [Threads -> ThreadStatus]
      BY <3>1
    <3> HIDE DEF PCs, VMSide, Labels, ThreadStatus, Bits, Thrown
    <3>4. QED
      BY <3>1, <3>2, <3>3
  <2>4. QED
    BY <2>1, <2>2, <2>3
<1>12. QED
  BY <1>1, <1>2, <1>3, <1>4, <1>5, <1>6, <1>7, <1>8, <1>9, <1>10, <1>11
     DEF UserStep

\* The sleeper's steps and the steps that get the lock back.
LEMMA TypeSleep ==
    ASSUME TypeOK, NEW t \in Threads,
           GetsLock(t) \/ SleepStep(t) \/ SleepSpurious(t)
    PROVE  TypeOK'
<1> USE DEF TypeOK, PCs, VMSide, Labels, joinList, locals, signalVars, Goto,
            GvlLock
<1>1. CASE Start(t)
  BY <1>1 DEF Start
<1>2. CASE Yielded(t)
  BY <1>2 DEF Yielded
<1>3. CASE SleepLeave(t)
  BY <1>3 DEF SleepLeave, RegainLock, threadVars
<1>4. CASE SleepEnter(t)
  BY <1>4 DEF SleepEnter, EnterWait, notAsleep, threadVars
<1>5. CASE SleepTimeout(t)
  BY <1>5 DEF SleepTimeout, EndWait, notAsleep, threadVars
<1>6. CASE SleepSpurious(t)
  BY <1>6 DEF SleepSpurious, EndWait, notAsleep, threadVars
<1>7. CASE SleepRestore(t)
  BY <1>7 DEF SleepRestore, RestoreStatus, notAsleep, threadVars, ThreadStatus
<1>8. QED
  BY <1>1, <1>2, <1>3, <1>4, <1>5, <1>6, <1>7 DEF GetsLock, SleepStep

\* The steps of the thread that has the lock, apart from the calls it makes.
LEMMA TypeRuns ==
    ASSUME TypeOK, NEW t \in Threads, RunsUnderLock(t) \/ Finish(t)
    PROVE  TypeOK'
<1>a. /\ \A S : SetInterrupt(S) \in [Threads -> SUBSET Bits]
      /\ \A S : \A p \in PCs :
            Woken(S, [pc EXCEPT ![t] = p]) \in [Threads -> PCs]
  BY InterruptType, WokenType
<1>b. "user" \in Labels /\ {"ints", "finwake", "dead", "hang"} \subseteq PCs
  BY DEF Labels, PCs, VMSide
<1> USE DEF joinList, locals, signalVars
<1>1. CASE CheckInts(t)
  BY <1>1 DEF CheckInts, TypeOK, PCs, VMSide, Labels, Goto, Holds
<1>2. CASE JoinDone(t)
  <2>1. UNCHANGED <<gvl, current, status, flag, thrown, timer, living,
                    signalVars>>
    BY <1>2 DEF JoinDone, Holds
  <2>2. CASE Unwind(t, "user", None, "exc")
    BY <2>1, <2>2, UnwindType DEF TypeOK
  <2>3. CASE Return(t) /\ UNCHANGED <<errinfo, joinList>>
    BY <2>1, <2>3, ReturnType DEF TypeOK
  <2>4. QED
    BY <1>2, <2>2, <2>3 DEF JoinDone
<1>3. CASE JoinTimeout(t)
  <2>1. UNCHANGED <<gvl, current, status, flag, thrown, timer, errinfo, living,
                    signalVars>>
    BY <1>3 DEF JoinTimeout, Holds
  <2>2. /\ join_list_head' \in [Threads -> Threads \cup {None}]
        /\ join_list_next' \in [Threads -> Threads \cup {None}]
    BY <1>3, RemoveType DEF JoinTimeout
  <2>3. CASE Goto(t, "hang") /\ UNCHANGED <<ret, locals>>
    BY <1>b, <2>1, <2>2, <2>3 DEF TypeOK, Goto
  <2>4. CASE Return(t)
    BY <2>1, <2>2, <2>4, ReturnType DEF TypeOK
  <2>5. QED
    BY <1>3, <2>3, <2>4 DEF JoinTimeout
<1>4. CASE JoinSleep(t)
  BY <1>4 DEF JoinSleep, native_sleep, GvlUnlock, TypeOK, PCs, VMSide, Labels,
              ThreadStatus, Goto
<1>5. CASE rb_thread_raise(t)
  <2> DEFINE u == target[t]
  <2>1. UNCHANGED <<status, timer, errinfo, living, joinList, signalVars>>
    BY <1>5 DEF rb_thread_raise
  <2>2. CASE Return(t) /\ Holds(t) /\ UNCHANGED <<flag, thrown>>
    BY <2>1, <2>2, ReturnType DEF TypeOK, Holds
  <2>3. CASE Schedule(t, "raise") /\ UNCHANGED <<flag, thrown, locals>>
    <3>1. "raise" \in Labels
      BY DEF Labels
    <3>2. QED
      BY <2>1, <2>3, <3>1, ScheduleType DEF TypeOK
  <2>4. CASE /\ Holds(t)
             /\ thrown' = [thrown EXCEPT ![u] = "exc"]
             /\ flag' = SetInterrupt({u})
             /\ pc' = Woken({u}, [pc EXCEPT ![t] = "ints"])
             /\ ret' = [ret EXCEPT ![t] = "user"]
             /\ target' = [target EXCEPT ![t] = None]
             /\ UNCHANGED <<limited, prev_status>>
    <3>1. pc' \in [Threads -> PCs] /\ flag' \in [Threads -> SUBSET Bits]
      BY <1>a, <1>b, <2>4
    <3>2. thrown' \in [Threads -> Thrown]
      BY <2>4 DEF TypeOK, Thrown
    <3>3. /\ ret' \in [Threads -> Labels]
          /\ target' \in [Threads -> Threads \cup {None}]
      BY <1>b, <2>4 DEF TypeOK
    <3>4. QED
      BY <2>1, <2>4, <3>1, <3>2, <3>3 DEF TypeOK, Holds
  <2>5. QED
    BY <1>5, <2>2, <2>3, <2>4 DEF rb_thread_raise
<1>6. CASE IntsReturn(t)
  BY <1>6 DEF IntsReturn, TypeOK, PCs, VMSide, Labels, Goto, Holds
<1>7. CASE IntsThrow(t)
  <2>1. /\ UNCHANGED <<gvl, current, timer, living, signals, exec_signal>>
        /\ flag' \in [Threads -> SUBSET Bits]
        /\ frame' = frame \/ frame' = NoFrame
    BY <1>7 DEF IntsThrow, Holds, TypeOK
  <2>2. \E r, u : Throw(t, r, u)
    BY <1>7 DEF IntsThrow
  <2>3. QED
    BY <2>1, <2>2, ThrowType DEF TypeOK
<1>8. CASE IntsPass(t)
  BY <1>8 DEF IntsPass, TypeOK, PCs, VMSide, Bits, Goto, Holds, GvlUnlock
<1>9. CASE FinishRaise(t)
  <2>1. UNCHANGED <<status, timer, errinfo, living, joinList, locals,
                    signalVars>>
    BY <1>9 DEF FinishRaise
  <2>2. CASE Schedule(t, "finraise") /\ UNCHANGED <<flag, thrown>>
    <3>1. "finraise" \in Labels
      BY DEF Labels
    <3>2. QED
      BY <2>1, <2>2, <3>1, ScheduleType DEF TypeOK
  <2>3. CASE /\ Holds(t)
             /\ thrown' = [thrown EXCEPT ![Main] = "exc"]
             /\ flag' = SetInterrupt({Main})
             /\ pc' = Woken({Main}, [pc EXCEPT ![t] = "finwake"])
             /\ UNCHANGED ret
    <3>1. pc' \in [Threads -> PCs] /\ flag' \in [Threads -> SUBSET Bits]
      BY <1>a, <1>b, <2>3
    <3>2. thrown' \in [Threads -> Thrown]
      BY <2>3 DEF TypeOK, Thrown
    <3>3. QED
      BY <2>1, <2>3, <3>1, <3>2 DEF TypeOK, Holds
  <2>4. QED
    BY <1>9, <2>2, <2>3 DEF FinishRaise
<1>10. CASE FinishWake(t)
  <2>1. /\ UNCHANGED <<current, ret, thrown, timer, errinfo, joinList, locals,
                       signalVars>>
        /\ gvl' \in Threads \cup {None}
        /\ living' \in SUBSET Threads
    BY <1>10 DEF FinishWake, TypeOK, GvlUnlock, Holds
  <2>2. pc' \in [Threads -> PCs] /\ flag' \in [Threads -> SUBSET Bits]
    <3> DEFINE S == JoinChain(t)
    <3>1. flag' = SetInterrupt(S)
      BY <1>10 DEF FinishWake
    <3>2. \/ pc' = Woken(S, [pc EXCEPT ![t] = "dead"])
          \/ pc' = Woken(S, [pc EXCEPT ![t] = "hang"])
      BY <1>10 DEF FinishWake
    <3> HIDE DEF S
    <3>3. "dead" \in PCs /\ "hang" \in PCs
      BY DEF PCs, VMSide
    <3>4. /\ Woken(S, [pc EXCEPT ![t] = "dead"]) \in [Threads -> PCs]
          /\ Woken(S, [pc EXCEPT ![t] = "hang"]) \in [Threads -> PCs]
      BY <1>a, <3>3
    <3>5. SetInterrupt(S) \in [Threads -> SUBSET Bits]
      BY <1>a
    <3>6. QED
      BY <3>1, <3>2, <3>4, <3>5
  <2>3. status' \in [Threads -> ThreadStatus]
    BY <1>10 DEF FinishWake, TypeOK, ThreadStatus
  <2>4. QED
    BY <2>1, <2>2, <2>3 DEF TypeOK
<1>11. CASE Finish(t)
  BY <1>11 DEF Finish, TypeOK, PCs, VMSide, ThreadStatus, Goto, Holds
<1>12. QED
  BY <1>1, <1>2, <1>3, <1>4, <1>5, <1>6, <1>7, <1>8, <1>9, <1>10, <1>11
     DEF RunsUnderLock

\* Signals, and the end of the process.
LEMMA TypeMain ==
    ASSUME TypeOK,
           MainStep \/ TrapReturn \/ TrapUnwind \/ rb_thread_terminate_all
    PROVE  TypeOK'
<1> USE DEF joinList, locals, signalVars
<1>a. \A S : SetInterrupt(S) \in [Threads -> SUBSET Bits]
  BY InterruptType
<1>b. [flag EXCEPT ![Main] = {}] \in [Threads -> SUBSET Bits]
  BY DEF TypeOK
<1>1. ASSUME SignalTaken
      PROVE  /\ UNCHANGED <<gvl, current, timer, living, signals>>
             /\ exec_signal' \in BOOLEAN
             /\ status' \in [Threads -> ThreadStatus]
  <2>1. UNCHANGED <<gvl, current, timer, living, signals>>
    BY <1>1 DEF SignalTaken, Holds
  <2>2. exec_signal' \in BOOLEAN
    BY <1>1 DEF SignalTaken
  <2>3. status' \in [Threads -> ThreadStatus]
    BY <1>1 DEF SignalTaken, TypeOK, ThreadStatus
  <2>4. QED
    BY <2>1, <2>2, <2>3
<1>2. ASSUME NEW p \in PCs, NEW r \in Labels, SignalTaken, PushFrame(p, r)
      PROVE  TypeOK'
  <2>1. /\ frame' \in [ret : Labels, target : Threads \cup {None},
                       limited : BOOLEAN, status : ThreadStatus,
                       errinfo : {"nil", "exc", "fatal"}]
        /\ UNCHANGED <<prev_status, thrown, joinList>>
    BY <1>2 DEF PushFrame, TypeOK
  <2>2. /\ pc' \in [Threads -> PCs]
        /\ ret' \in [Threads -> Labels]
        /\ errinfo' \in [Threads -> {"nil", "exc", "fatal"}]
        /\ target' \in [Threads -> Threads \cup {None}]
        /\ limited' \in [Threads -> BOOLEAN]
        /\ flag' \in [Threads -> SUBSET Bits]
    BY <1>2, <1>b DEF PushFrame, Goto, TypeOK
  <2>3. QED
    BY <1>1, <1>2, <2>1, <2>2 DEF TypeOK
<1>3. CASE signal_exec
  BY <1>2, <1>3 DEF signal_exec, PCs, VMSide, Labels
<1>4. ASSUME SignalTaken, NEW r, NEW u, Unwind(Main, r, u, "exc"),
             flag' \in [Threads -> SUBSET Bits], UNCHANGED <<thrown, frame>>
      PROVE  TypeOK'
  BY <1>1, <1>4, UnwindType DEF TypeOK
<1>5. CASE rb_interrupt
  BY <1>4, <1>5, <1>b DEF rb_interrupt
<1>6. CASE rb_thread_signal_raise
  <2>1. CASE /\ SignalTaken
             /\ Unwind(Main, ret[Main], target[Main], "exc")
             /\ flag' = [flag EXCEPT ![Main] = {"int"}]
             /\ UNCHANGED <<thrown, frame>>
    <3>1. flag' \in [Threads -> SUBSET Bits]
      BY <2>1 DEF TypeOK, Bits
    <3>2. QED
      BY <1>4, <2>1, <3>1
  <2>2. CASE SignalTaken /\ PushFrame("sigraise", "sigraise")
    BY <1>2, <2>2 DEF PCs, VMSide, Labels
  <2>3. CASE /\ Schedule(Main, "sigraise")
             /\ UNCHANGED <<status, flag, thrown, timer, errinfo, living,
                            joinList, locals, signalVars>>
    <3>1. "sigraise" \in Labels
      BY DEF Labels
    <3>2. QED
      BY <2>3, <3>1, ScheduleType DEF TypeOK
  <2>4. QED
    BY <1>6, <2>1, <2>2, <2>3 DEF rb_thread_signal_raise
<1>7. CASE TerminateWait
  <2>1. "term" \in Labels
    BY DEF Labels
  <2>2. QED
    BY <1>7, <2>1, ScheduleType DEF TerminateWait, TypeOK
<1>8. CASE TerminateDone
  BY <1>8 DEF TerminateDone, Holds, Goto, TypeOK, PCs, VMSide
<1>9. CASE TrapReturn
  <2>1. /\ UNCHANGED <<flag, timer, living, signals, exec_signal, current>>
        /\ frame' = NoFrame
        /\ gvl' \in Threads \cup {None}
    BY <1>9 DEF TrapReturn, Holds, GvlUnlock, TypeOK
  <2>2. CASE Throw(Main, frame.ret, frame.target)
    BY <2>1, <2>2, ThrowType DEF TypeOK
  <2>3. CASE thrown[Main] = "nil"
    <3>1. frame \in [ret : Labels, target : Threads \cup {None},
                     limited : BOOLEAN, status : ThreadStatus,
                     errinfo : {"nil", "exc", "fatal"}]
      BY <1>9 DEF TrapReturn, TypeOK
    <3>2. /\ status' \in [Threads -> ThreadStatus]
          /\ ret' \in [Threads -> Labels]
          /\ errinfo' \in [Threads -> {"nil", "exc", "fatal"}]
          /\ target' \in [Threads -> Threads \cup {None}]
          /\ limited' \in [Threads -> BOOLEAN]
          /\ UNCHANGED <<thrown, joinList, prev_status>>
      BY <1>9, <2>3, <3>1 DEF TrapReturn, TypeOK
    <3>3. pc' \in [Threads -> PCs]
      BY <1>9, <2>3 DEF TrapReturn, TypeOK, Goto, PCs, VMSide
    <3>4. QED
      BY <2>1, <3>2, <3>3 DEF TypeOK
  <2>4. QED
    BY <1>9, <2>2, <2>3 DEF TrapReturn
<1>10. CASE TrapUnwind
  <2>1. /\ UNCHANGED <<gvl, current, status, flag, thrown, timer, living,
                       signals, exec_signal>>
        /\ frame' = NoFrame
        /\ Unwind(Main, frame.ret, frame.target, "exc")
    BY <1>10 DEF TrapUnwind, Holds
  <2>2. QED
    BY <2>1, UnwindType DEF TypeOK
<1>11. CASE rb_thread_terminate_all
  <2> DEFINE S == living \ {Main}
  <2>1. /\ UNCHANGED <<gvl, current, ret, timer, errinfo, living, joinList,
                       locals, signalVars>>
        /\ flag' = SetInterrupt(S)
        /\ pc' = Woken(S, [pc EXCEPT ![Main] = "term"])
    BY <1>11 DEF rb_thread_terminate_all, Holds
  <2>2. thrown' \in [Threads -> Thrown]
    BY <1>11 DEF rb_thread_terminate_all, TypeOK, Thrown
  <2>3. status' \in [Threads -> ThreadStatus]
    BY <1>11 DEF rb_thread_terminate_all, TypeOK, ThreadStatus
  <2>4. "term" \in PCs
    BY DEF PCs, VMSide
  <2> HIDE DEF S
  <2>5. QED
    BY <1>a, <2>1, <2>2, <2>3, <2>4, WokenType DEF TypeOK
<1>12. QED
  BY <1>3, <1>5, <1>6, <1>7, <1>8, <1>9, <1>10, <1>11 DEF MainStep

\* The timer thread and the signal handler.
LEMMA TypeTimer ==
    ASSUME TypeOK, TimerTick \/ TimerSignal \/ sighandler
    PROVE  TypeOK'
<1> USE DEF joinList, locals, signalVars
<1>1. CASE TimerTick
  <2>1. UNCHANGED <<pc, ret, gvl, current, status, thrown, errinfo, living,
                    joinList, locals, signalVars>>
    BY <1>1 DEF TimerTick
  <2>2. /\ flag' \in [Threads -> SUBSET Bits]
        /\ timer' \in [victim : Threads \cup {None}, bits : SUBSET Bits]
    BY <1>1 DEF TimerTick, TimerLoad, RubyVmSetTimerInterrupt, TimerIdle, Bits,
                TypeOK
  <2>3. QED
    BY <2>1, <2>2 DEF TypeOK
<1>2. CASE TimerSignal
  <2>1. UNCHANGED <<ret, gvl, current, status, thrown, timer, errinfo, living,
                    joinList, locals, frame>>
    BY <1>2 DEF TimerSignal
  <2>2. signals' \in [sent : 0..MaxSignals, buffered : Nat]
    BY <1>2 DEF TimerSignal, TypeOK
  <2>3. exec_signal' \in BOOLEAN
    BY <1>2 DEF TimerSignal
  <2>4. flag' \in [Threads -> SUBSET Bits]
    BY <1>2, InterruptType DEF TimerSignal
  <2>5. pc' \in [Threads -> PCs]
    BY <1>2 DEF TimerSignal, Woken, TypeOK, PCs, VMSide
  <2>6. QED
    BY <2>1, <2>2, <2>3, <2>4, <2>5 DEF TypeOK
<1>3. CASE sighandler
  <2>1. UNCHANGED <<coreVars, errinfo, living, joinList, locals, exec_signal,
                    frame>>
    BY <1>3 DEF sighandler
  <2>2. signals' \in [sent : 0..MaxSignals, buffered : Nat]
    BY <1>3 DEF sighandler, TypeOK
  <2>3. QED
    BY <2>1, <2>2 DEF TypeOK, coreVars
<1>4. QED
  BY <1>1, <1>2, <1>3

\* A step of the specification, or a step that changes nothing.
LEMMA TypeStep == TypeOK /\ [Next]_vars => TypeOK'
<1> SUFFICES ASSUME TypeOK, [Next]_vars PROVE TypeOK'
  OBVIOUS
<1>1. CASE UNCHANGED vars
  BY <1>1 DEF vars, coreVars, joinList, locals, signalVars, TypeOK
<1>2. CASE Next
  BY <1>1, <1>2, TypeUser, TypeSleep, TypeRuns, TypeMain, TypeTimer
     DEF Next, Exited
<1>3. QED
  BY <1>1, <1>2

\* Every variable always has its type, for any number of threads and whatever
\* the bounds: in particular no thread is ever at a place no code is at.
THEOREM TypeCorrect == Spec => []TypeOK
<1>1. Init => TypeOK
  BY TypeInit
<1>2. TypeOK /\ [Next]_vars => TypeOK'
  BY TypeStep
<1>3. QED
  BY <1>1, <1>2, PTL DEF Spec

(***************************************************************************)
(* The global VM lock works: the proof sorts the steps of RubyThread by    *)
(* what they do to the lock.                                               *)
(***************************************************************************)
\* A thread s is on the VM's side of the lock in the program counter map q.
Inside(q, s) == q[s] \in VMSide

\* The lock stays where it is, and so does everyone, ...
Keeps ==
    /\ UNCHANGED <<gvl, current>>
    /\ \A s \in Threads : Inside(pc', s) <=> Inside(pc, s)

\* ... thread t lets go of it and leaves, ...
Leaves(t) ==
    /\ gvl = t /\ gvl' = None /\ UNCHANGED current
    /\ ~Inside(pc', t)
    /\ \A s \in Threads \ {t} : Inside(pc', s) <=> Inside(pc, s)

\* ... or thread t gets it and enters.
Enters(t) ==
    /\ gvl = None /\ gvl' = t /\ current' = t
    /\ Inside(pc', t)
    /\ \A s \in Threads \ {t} : Inside(pc', s) <=> Inside(pc, s)

LockStep == Keeps \/ \E t \in Threads : Leaves(t) \/ Enters(t)

\* Steps of these three kinds preserve mutual exclusion.
LEMMA LockPreserved ==
    ASSUME CurrentIsHolder, LockStep
    PROVE  CurrentIsHolder'
<1>1. CASE Keeps
  BY <1>1 DEF Keeps, Inside, CurrentIsHolder
<1>2. ASSUME NEW t \in Threads, Leaves(t) PROVE CurrentIsHolder'
  BY <1>2 DEF Leaves, Inside, CurrentIsHolder
<1>3. ASSUME NEW t \in Threads, Enters(t) PROVE CurrentIsHolder'
  BY <1>3 DEF Enters, Inside, CurrentIsHolder
<1>4. QED
  BY <1>1, <1>2, <1>3 DEF LockStep

(***************************************************************************)
(* A condition variable's signal does not let anyone through the lock.     *)
(***************************************************************************)
LEMMA WokenInside ==
    ASSUME NEW S, NEW q \in [Threads -> PCs], NEW s \in Threads
    PROVE  Inside(Woken(S, q), s) <=> Inside(q, s)
BY DEF Inside, Woken, VMSide

\* A thread that has the lock goes on with it, waking the threads of S ...
LEMMA KeepsWhenInside ==
    ASSUME TypeOK, NEW t \in Threads, NEW p \in VMSide, NEW S,
           pc[t] \in VMSide, Holds(t),
           pc' = Woken(S, [pc EXCEPT ![t] = p]) \/ Goto(t, p)
    PROVE  LockStep
<1> DEFINE q == [pc EXCEPT ![t] = p]
<1>1. q \in [Threads -> PCs]
  BY DEF TypeOK, PCs
<1>2. \A s \in Threads : Inside(q, s) <=> Inside(pc, s)
  BY DEF Inside, TypeOK
<1>3. pc' = Woken(S, q) \/ pc' = q
  BY DEF Goto
<1> HIDE DEF q
<1>4. \A s \in Threads : Inside(pc', s) <=> Inside(q, s)
  BY <1>1, <1>3, WokenInside
<1>5. QED
  BY <1>2, <1>4 DEF LockStep, Keeps, Holds

\* ... or leaves.
LEMMA LeavesWhenInside ==
    ASSUME TypeOK, NEW t \in Threads, NEW p \in PCs \ VMSide, NEW S,
           GvlUnlock(t),
           pc' = Woken(S, [pc EXCEPT ![t] = p]) \/ Goto(t, p)
    PROVE  LockStep
<1> DEFINE q == [pc EXCEPT ![t] = p]
<1>1. q \in [Threads -> PCs]
  BY DEF TypeOK
<1>2. /\ ~Inside(q, t)
      /\ \A s \in Threads \ {t} : Inside(q, s) <=> Inside(pc, s)
  BY DEF Inside, TypeOK
<1>3. pc' = Woken(S, q) \/ pc' = q
  BY DEF Goto
<1> HIDE DEF q
<1>4. \A s \in Threads : Inside(pc', s) <=> Inside(q, s)
  BY <1>1, <1>3, WokenInside
<1>5. QED
  BY <1>2, <1>4 DEF LockStep, Leaves, GvlUnlock

LEMMA UnwindInside ==
    ASSUME NEW t \in Threads, NEW r, NEW u, NEW e, Unwind(t, r, u, e)
    PROVE  \E p \in VMSide : Goto(t, p)
BY DEF Unwind, VMSide

LEMMA ScheduleLock ==
    ASSUME TypeOK, NEW t \in Threads, NEW r, pc[t] \in VMSide, Schedule(t, r)
    PROVE  LockStep
<1>1. CASE Goto(t, "ints") /\ Holds(t)
  BY <1>1, KeepsWhenInside DEF VMSide
<1>2. CASE Goto(t, "hang") /\ Holds(t)
  BY <1>2, KeepsWhenInside DEF VMSide
<1>3. CASE Goto(t, "yield") /\ GvlUnlock(t)
  BY <1>3, LeavesWhenInside DEF VMSide, PCs
<1>4. QED
  BY <1>1, <1>2, <1>3 DEF Schedule

(***************************************************************************)
(* Every step is of one of the three kinds.                                *)
(***************************************************************************)
LEMMA LockUser ==
    ASSUME TypeOK, NEW t \in Threads, UserStep(t)
    PROVE  LockStep
<1>a. /\ {"user", "ints", "join", "raise"} \subseteq VMSide
      /\ {"sl_enter", "yield"} \subseteq PCs \ VMSide
      /\ pc[t] = "user" => pc[t] \in VMSide
  BY DEF VMSide, PCs
<1>1. ASSUME NEW u \in Threads, thread_create_core(t, u) PROVE LockStep
  BY <1>1 DEF thread_create_core, Holds, LockStep, Keeps, Inside, VMSide, TypeOK
<1>2. CASE Rescue(t)
  BY <1>2 DEF Rescue, Holds, LockStep, Keeps
<1>3. CASE UserRaise(t)
  BY <1>3, <1>a, KeepsWhenInside DEF UserRaise, Raised
<1>4. ASSUME NEW l \in BOOLEAN, Sleep(t, l) PROVE LockStep
  BY <1>4, <1>a, LeavesWhenInside DEF Sleep, native_sleep
<1>5. CASE rb_thread_stop(t)
  <2>1. CASE Sleep(t, FALSE)
    BY <1>4, <2>1
  <2>2. CASE ~Sleep(t, FALSE)
    BY <1>5, <2>2, <1>a, KeepsWhenInside DEF rb_thread_stop, Raised
  <2>3. QED
    BY <2>1, <2>2
<1>6. CASE thread_s_pass(t)
  BY <1>6, <1>a, ScheduleLock DEF thread_s_pass
<1>7. ASSUME NEW u \in Threads, rb_thread_wakeup(t, u) PROVE LockStep
  <2>1. pc[t] \in VMSide /\ Holds(t)
    BY <1>7, <1>a DEF rb_thread_wakeup
  <2>2. Goto(t, "user") \/ pc' = Woken({u}, [pc EXCEPT ![t] = "ints"])
    BY <1>7 DEF rb_thread_wakeup, Raised
  <2>3. QED
    BY <2>1, <2>2, <1>a, KeepsWhenInside
<1>8. ASSUME NEW u \in Threads, rb_thread_run(t, u) PROVE LockStep
  <2>1. CASE rb_thread_wakeup(t, u)
    BY <1>7, <2>1
  <2>2. CASE ~rb_thread_wakeup(t, u)
    BY <1>8, <2>2, <1>a, LeavesWhenInside DEF rb_thread_run
  <2>3. QED
    BY <2>1, <2>2
<1>9. ASSUME NEW u \in Threads, NEW l \in BOOLEAN, thread_join(t, u, l)
      PROVE  LockStep
  BY <1>9, <1>a, KeepsWhenInside DEF thread_join
<1>10. ASSUME NEW u \in Threads, thread_raise_m(t, u) PROVE LockStep
  BY <1>10, <1>a, KeepsWhenInside DEF thread_raise_m
<1>11. ASSUME NEW u \in Threads, rb_thread_kill(t, u) PROVE LockStep
  <2>1. pc[t] \in VMSide /\ Holds(t)
    BY <1>11, <1>a DEF rb_thread_kill
  <2>2. \/ Goto(t, "user") \/ Goto(t, "ints")
        \/ pc' = Woken({u}, [pc EXCEPT ![t] = "ints"])
    BY <1>11 DEF rb_thread_kill, Raised, Return
  <2>3. QED
    BY <2>1, <2>2, <1>a, KeepsWhenInside
<1>12. QED
  BY <1>1, <1>2, <1>3, <1>4, <1>5, <1>6, <1>7, <1>8, <1>9, <1>10, <1>11
     DEF UserStep

LEMMA LockSleep ==
    ASSUME TypeOK, NEW t \in Threads,
           GetsLock(t) \/ SleepStep(t) \/ SleepSpurious(t)
    PROVE  LockStep
<1>1. ASSUME GvlLock(t), Goto(t, "user") \/ Goto(t, "ints") PROVE LockStep
  BY <1>1 DEF GvlLock, Goto, LockStep, Enters, Inside, TypeOK, VMSide
<1>2. CASE GetsLock(t)
  BY <1>1, <1>2 DEF GetsLock, Start, Yielded, SleepLeave, RegainLock
<1>3. ASSUME pc[t] \in {"sl_enter", "sl_wait", "sl_status"},
             \E p \in {"sl_wait", "sl_status", "sl_gvl"} : Goto(t, p),
             UNCHANGED <<gvl, current>>
      PROVE  LockStep
  BY <1>3 DEF Goto, LockStep, Keeps, Inside, TypeOK, VMSide
<1>4. CASE SleepStep(t)
  BY <1>3, <1>4 DEF SleepStep, SleepEnter, EnterWait, SleepTimeout, EndWait,
                    SleepRestore, RestoreStatus, notAsleep
<1>5. CASE SleepSpurious(t)
  BY <1>3, <1>5 DEF SleepSpurious, EndWait, notAsleep
<1>6. QED
  BY <1>2, <1>4, <1>5

LEMMA LockRuns ==
    ASSUME TypeOK, NEW t \in Threads, RunsUnderLock(t) \/ Finish(t)
    PROVE  LockStep
<1>a. /\ {"ints", "hang", "finraise", "finwake"} \subseteq VMSide
      /\ {"sl_enter", "yield", "dead"} \subseteq PCs \ VMSide
      /\ pc[t] \in {"user", "ints", "join", "raise", "finish", "finraise",
                    "finwake"} => pc[t] \in VMSide
  BY DEF VMSide, PCs
<1>b. ASSUME NEW r, NEW u, NEW e, Unwind(t, r, u, e), Holds(t),
             pc[t] \in VMSide
      PROVE  LockStep
  BY <1>b, UnwindInside, KeepsWhenInside
<1>1. CASE CheckInts(t)
  BY <1>1, <1>a, KeepsWhenInside DEF CheckInts
<1>2. CASE JoinDone(t)
  <2>1. CASE Unwind(t, "user", None, "exc")
    BY <1>2, <1>a, <1>b, <2>1 DEF JoinDone
  <2>2. CASE Return(t)
    BY <1>2, <1>a, <2>2, KeepsWhenInside DEF JoinDone, Return
  <2>3. QED
    BY <1>2, <2>1, <2>2 DEF JoinDone
<1>3. CASE JoinTimeout(t)
  <2>1. pc[t] = "join" /\ Holds(t) /\ (Goto(t, "hang") \/ Goto(t, "ints"))
    BY <1>3 DEF JoinTimeout, Return
  <2>2. QED
    BY <1>a, <2>1, KeepsWhenInside
<1>4. CASE JoinSleep(t)
  BY <1>4, <1>a, LeavesWhenInside DEF JoinSleep, native_sleep
<1>5. CASE rb_thread_raise(t)
  <2>1. pc[t] \in VMSide
    BY <1>5, <1>a DEF rb_thread_raise
  <2>2. CASE Schedule(t, "raise")
    BY <2>1, <2>2, ScheduleLock
  <2>3. CASE /\ Holds(t)
             /\ \/ Goto(t, "ints")
                \/ pc' = Woken({target[t]}, [pc EXCEPT ![t] = "ints"])
    BY <1>a, <2>1, <2>3, KeepsWhenInside
  <2>4. QED
    BY <1>5, <2>2, <2>3 DEF rb_thread_raise, Return
<1>6. CASE IntsReturn(t)
  <2>1. ret[t] \in VMSide
    BY DEF TypeOK, Labels, VMSide
  <2>2. QED
    BY <1>6, <1>a, <2>1, KeepsWhenInside DEF IntsReturn
<1>7. CASE IntsThrow(t)
  <2>1. pc[t] = "ints" /\ Holds(t) /\ \E r, u, e : Unwind(t, r, u, e)
    BY <1>7 DEF IntsThrow, Throw
  <2>2. QED
    BY <1>a, <1>b, <2>1
<1>8. CASE IntsPass(t)
  <2>1. CASE Holds(t) /\ UNCHANGED pc
    BY <2>1 DEF Holds, LockStep, Keeps
  <2>2. CASE GvlUnlock(t) /\ Goto(t, "yield")
    BY <1>a, <2>2, LeavesWhenInside
  <2>3. QED
    BY <1>8, <2>1, <2>2 DEF IntsPass
<1>9. CASE FinishRaise(t)
  <2>1. pc[t] \in VMSide
    BY <1>9, <1>a DEF FinishRaise
  <2>2. CASE Schedule(t, "finraise")
    BY <2>1, <2>2, ScheduleLock
  <2>3. CASE Holds(t) /\ pc' = Woken({Main}, [pc EXCEPT ![t] = "finwake"])
    BY <1>a, <2>1, <2>3, KeepsWhenInside
  <2>4. QED
    BY <1>9, <2>2, <2>3 DEF FinishRaise
<1>10. CASE FinishWake(t)
  <2> DEFINE S == JoinChain(t)
  <2>1. pc[t] \in VMSide
    BY <1>10, <1>a DEF FinishWake
  <2>2. \/ GvlUnlock(t) /\ pc' = Woken(S, [pc EXCEPT ![t] = "dead"])
        \/ Holds(t) /\ pc' = Woken(S, [pc EXCEPT ![t] = "hang"])
    BY <1>10 DEF FinishWake
  <2> HIDE DEF S
  <2>3. QED
    BY <1>a, <2>1, <2>2, KeepsWhenInside, LeavesWhenInside
<1>11. CASE Finish(t)
  <2>1. pc[t] \in VMSide /\ Holds(t)
        /\ (Goto(t, "finraise") \/ Goto(t, "finwake"))
    BY <1>11, <1>a DEF Finish
  <2>2. QED
    BY <1>a, <2>1, KeepsWhenInside
<1>12. QED
  BY <1>1, <1>2, <1>3, <1>4, <1>5, <1>6, <1>7, <1>8, <1>9, <1>10, <1>11
     DEF RunsUnderLock

LEMMA LockMain ==
    ASSUME TypeOK,
           MainStep \/ TrapReturn \/ TrapUnwind \/ rb_thread_terminate_all
    PROVE  LockStep
<1>a. /\ {"user", "ints", "sigraise", "term", "exit"} \subseteq VMSide
      /\ "yield" \in PCs \ VMSide
      /\ pc[Main] \in {"user", "ints", "sigraise", "term"}
            => pc[Main] \in VMSide
  BY DEF VMSide, PCs
<1>b. ASSUME NEW r, NEW u, NEW e, Unwind(Main, r, u, e), Holds(Main),
             pc[Main] \in VMSide
      PROVE  LockStep
  BY <1>b, UnwindInside, KeepsWhenInside
<1>1. SignalTaken => pc[Main] \in VMSide /\ Holds(Main)
  BY <1>a DEF SignalTaken
<1>2. CASE signal_exec
  BY <1>2, <1>1, <1>a, KeepsWhenInside DEF signal_exec, PushFrame
<1>3. CASE rb_interrupt
  BY <1>3, <1>1, <1>b DEF rb_interrupt
<1>4. CASE rb_thread_signal_raise
  <2>1. CASE SignalTaken /\ Unwind(Main, ret[Main], target[Main], "exc")
    BY <1>1, <1>b, <2>1
  <2>2. CASE SignalTaken /\ PushFrame("sigraise", "sigraise")
    BY <1>1, <1>a, <2>2, KeepsWhenInside DEF PushFrame
  <2>3. CASE pc[Main] = "sigraise" /\ Schedule(Main, "sigraise")
    BY <1>a, <2>3, ScheduleLock
  <2>4. QED
    BY <1>4, <2>1, <2>2, <2>3 DEF rb_thread_signal_raise
<1>5. CASE TerminateWait
  BY <1>5, <1>a, ScheduleLock DEF TerminateWait
<1>6. CASE TerminateDone
  BY <1>6, <1>a, KeepsWhenInside DEF TerminateDone
<1>7. CASE TrapReturn
  <2>1. pc[Main] \in VMSide
    BY <1>7, <1>a DEF TrapReturn
  <2>2. CASE Holds(Main) /\ \E r, u, e : Unwind(Main, r, u, e)
    BY <1>b, <2>1, <2>2
  <2>3. CASE Goto(Main, "ints") /\ Holds(Main)
    BY <1>a, <2>1, <2>3, KeepsWhenInside
  <2>4. CASE Goto(Main, "yield") /\ GvlUnlock(Main)
    BY <1>a, <2>4, LeavesWhenInside
  <2>5. QED
    BY <1>7, <2>2, <2>3, <2>4 DEF TrapReturn, Throw
<1>8. CASE TrapUnwind
  BY <1>8, <1>a, <1>b DEF TrapUnwind
<1>9. CASE rb_thread_terminate_all
  <2> DEFINE S == living \ {Main}
  <2>1. /\ pc[Main] \in VMSide /\ Holds(Main)
        /\ pc' = Woken(S, [pc EXCEPT ![Main] = "term"])
    BY <1>9, <1>a DEF rb_thread_terminate_all
  <2> HIDE DEF S
  <2>2. QED
    BY <1>a, <2>1, KeepsWhenInside
<1>10. QED
  BY <1>2, <1>3, <1>4, <1>5, <1>6, <1>7, <1>8, <1>9 DEF MainStep

LEMMA LockTimer ==
    ASSUME TypeOK, TimerTick \/ TimerSignal \/ sighandler
    PROVE  LockStep
<1>1. CASE TimerTick
  BY <1>1 DEF TimerTick, LockStep, Keeps
<1>2. CASE TimerSignal
  <2>1. pc \in [Threads -> PCs]
    BY DEF TypeOK
  <2>2. pc' = Woken({Main}, pc) /\ UNCHANGED <<gvl, current>>
    BY <1>2 DEF TimerSignal
  <2>3. \A s \in Threads : Inside(pc', s) <=> Inside(pc, s)
    BY <2>1, <2>2, WokenInside
  <2>4. QED
    BY <2>2, <2>3 DEF LockStep, Keeps
<1>3. CASE sighandler
  BY <1>3 DEF sighandler, coreVars, LockStep, Keeps
<1>4. QED
  BY <1>1, <1>2, <1>3

LEMMA EveryStepIsALockStep == TypeOK /\ [Next]_vars => LockStep
<1> SUFFICES ASSUME TypeOK, [Next]_vars PROVE LockStep
  OBVIOUS
<1>1. CASE UNCHANGED vars
  BY <1>1 DEF vars, coreVars, LockStep, Keeps
<1>2. CASE Next
  BY <1>1, <1>2, LockUser, LockSleep, LockRuns, LockMain, LockTimer
     DEF Next, Exited
<1>3. QED
  BY <1>1, <1>2

\* The global VM lock works for any number of threads: exactly the thread that
\* runs VM code holds it, through every way of giving it up that thread.c has
\* (native_sleep, rb_thread_schedule, the end of the thread) and every way out
\* of a C function by an exception, and ruby_current_thread names that thread.
THEOREM LockSafe == Spec => []CurrentIsHolder
<1>1. Init => CurrentIsHolder
  <2>1. Init => /\ pc = [t \in Threads |-> IF t = Main THEN "user"
                                                       ELSE "unborn"]
                /\ gvl = Main /\ current = Main
    BY DEF Init, CoreInit
  <2>2. "user" \in VMSide /\ "unborn" \notin VMSide
    BY DEF VMSide
  <2>3. QED
    BY <2>1, <2>2 DEF CurrentIsHolder
<1>2. TypeOK /\ CurrentIsHolder /\ [Next]_vars => CurrentIsHolder'
  BY EveryStepIsALockStep, LockPreserved
<1>3. QED
  BY <1>1, <1>2, TypeCorrect, PTL DEF Spec
=============================================================================
