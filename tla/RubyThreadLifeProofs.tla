------------------------ MODULE RubyThreadLifeProofs ------------------------
(***************************************************************************)
(* The life of a thread, for every set of threads: what Thread#status      *)
(* shows, who is in living_threads, and that the process ends alone.       *)
(***************************************************************************)
EXTENDS RubyThreadProofs, FiniteSetTheorems

USE CoreAssumption, ThreadAssumption

Live == {"runnable", "to_kill"}

\* The status of a thread that is at p, and there on behalf of code at r; pv
\* is what native_sleep will put back.  Only with abort_on_exception does a
\* thread run on with the status of a dead one.
StatusOf(p, r, st, pv) ==
    /\ p \in {"unborn", "start", "user", "join", "raise", "sigraise", "term",
              "finish", "exit", "sl_gvl"} => st \in Live
    /\ p \in {"ints", "yield"} /\ r # "finraise" => st \in Live
    /\ p \in {"sl_enter", "sl_wait", "sl_status"} =>
        st \in {"stopped", "to_kill"} /\ pv \in Live
    /\ p = "dead" => st = "killed"
    /\ ~AbortOnException =>
        /\ p # "finraise" /\ r # "finraise"
        /\ st = "killed" => p \in {"finwake", "dead", "hang"}

\* A thread is in living_threads from its creation to its end.
Life(t) ==
    /\ StatusOf(pc[t], ret[t], status[t], prev_status[t])
    /\ t \in living => pc[t] \notin {"unborn", "dead"}
    /\ t \notin living => pc[t] \in {"unborn", "dead", "hang"}
    /\ ~AbortOnException /\ status[t] = "killed" =>
        pc[t] = "finwake" \/ t \notin living

MainNever == {"unborn", "start", "finish", "finraise", "finwake", "dead"}

\* The main thread does not end like the others, and goes only when it is alone.
MainOK ==
    /\ pc[Main] \notin MainNever
    /\ ret[Main] # "finraise"
    /\ Main \in living
    /\ pc[Main] = "exit" => living = {Main}

\* What a trap handler interrupted in the main thread.
FrameOK == frame.ret # "finraise" /\ frame.status \in Live

LifeInv ==
    /\ \A t \in Threads : Life(t)
    /\ MainOK
    /\ FrameOK

(***************************************************************************)
(* Thread t goes to p; the others stay where they are, or are woken.       *)
(***************************************************************************)
Moves(t, p) ==
    /\ pc'[t] = p
    /\ \A s \in Threads \ {t} :
        pc'[s] = pc[s] \/ (pc[s] = "sl_wait" /\ pc'[s] = "sl_status")

\* The others keep their status, unless they are marked to be killed.
Aside(t) ==
    \A s \in Threads \ {t} :
        /\ ret'[s] = ret[s]
        /\ prev_status'[s] = prev_status[s]
        /\ \/ status'[s] = status[s]
           \/ status'[s] = "to_kill" /\ pc[s] # "dead"

LEMMA GotoMoves ==
    ASSUME TypeOK, NEW t \in Threads, NEW p, Goto(t, p)
    PROVE  Moves(t, p)
BY DEF TypeOK, Goto, Moves

LEMMA WokenMoves ==
    ASSUME TypeOK, NEW t \in Threads, NEW p, p # "sl_wait", NEW S,
           pc' = Woken(S, [pc EXCEPT ![t] = p])
    PROVE  Moves(t, p)
<1> DEFINE q == [pc EXCEPT ![t] = p]
<1>1. q[t] = p /\ \A s \in Threads \ {t} : q[s] = pc[s]
  BY DEF TypeOK
<1>2. pc' = Woken(S, q)
  OBVIOUS
<1> HIDE DEF q
<1>3. \A s \in Threads : \/ pc'[s] = q[s]
                         \/ q[s] = "sl_wait" /\ pc'[s] = "sl_status"
  BY <1>2 DEF Woken
<1> QED BY <1>1, <1>3 DEF Moves

\* A thread that has not ended moves, with a status that fits.
LEMMA MoveLives ==
    ASSUME TypeOK, LifeInv, NEW t \in Threads, NEW p, Moves(t, p), Aside(t),
           pc[t] \notin {"unborn", "dead", "hang", "exit"},
           p \notin {"unborn", "dead", "exit"},
           StatusOf(p, ret'[t], status'[t], prev_status'[t]),
           ~AbortOnException /\ status'[t] = "killed" => p = "finwake",
           t = Main => p \notin MainNever /\ ret'[t] # "finraise",
           UNCHANGED living,
           UNCHANGED frame \/ FrameOK'
    PROVE  LifeInv'
<1>1. ASSUME NEW s \in Threads PROVE Life(s)'
  <2>0. Life(s)
    BY DEF LifeInv
  <2>1. CASE s = t
    BY <2>0, <2>1 DEF Moves, Life
  <2>2. CASE s # t /\ pc'[s] = pc[s] /\ status'[s] = status[s]
    BY <2>0, <2>2 DEF Aside, Life
  <2>3. CASE s # t /\ pc'[s] # pc[s] /\ status'[s] = status[s]
    <3>1. pc[s] = "sl_wait" /\ pc'[s] = "sl_status"
      BY <2>3 DEF Moves
    <3> QED BY <2>0, <2>3, <3>1 DEF Aside, Life, StatusOf
  <2>4. CASE s # t /\ status'[s] # status[s]
    <3>1. status'[s] = "to_kill" /\ pc[s] # "dead"
      BY <2>4 DEF Aside
    <3>2. ret'[s] = ret[s] /\ prev_status'[s] = prev_status[s]
      BY <2>4 DEF Aside
    <3>3. pc'[s] = pc[s] \/ (pc[s] = "sl_wait" /\ pc'[s] = "sl_status")
      BY <2>4 DEF Moves
    <3>4. StatusOf(pc'[s], ret'[s], status'[s], prev_status'[s])
      BY <2>0, <3>1, <3>2, <3>3 DEF Life, StatusOf, Live
    <3> QED BY <2>0, <3>1, <3>3, <3>4 DEF Life
  <2> QED BY <2>1, <2>2, <2>3, <2>4
<1>2. MainOK'
  <2>1. CASE t = Main
    BY <2>1 DEF LifeInv, MainOK, Moves
  <2>2. CASE t # Main
    <3>1. pc'[Main] = pc[Main] \/ (pc[Main] = "sl_wait" /\ pc'[Main] = "sl_status")
      BY <2>2 DEF Moves
    <3>2. ret'[Main] = ret[Main]
      BY <2>2 DEF Aside
    <3> QED BY <3>1, <3>2 DEF LifeInv, MainOK, MainNever
  <2> QED BY <2>1, <2>2
<1>3. FrameOK'
  BY DEF LifeInv, FrameOK
<1> QED BY <1>1, <1>2, <1>3 DEF LifeInv

\* Where most calls leave a thread: alive, and somewhere a living thread is.
Places == {"user", "ints", "yield", "start", "join", "raise", "sigraise", "term",
           "hang", "sl_gvl"}

LEMMA LiveMove ==
    ASSUME TypeOK, LifeInv, NEW t \in Threads, NEW p \in Places, Moves(t, p),
           Aside(t),
           pc[t] \notin {"unborn", "dead", "hang", "exit"},
           status'[t] \in Live,
           ret'[t] # "finraise" \/ UNCHANGED ret,
           UNCHANGED living, UNCHANGED frame \/ FrameOK',
           t = Main => p # "start"
    PROVE  LifeInv'
<1>1. status'[t] # "killed"
  BY DEF Live
<1>2. Life(t) /\ ret[Main] # "finraise"
  BY DEF LifeInv, MainOK
<1>3. StatusOf(p, ret'[t], status'[t], prev_status'[t])
  BY <1>1, <1>2 DEF Places, StatusOf, Life
<1>4. t = Main => p \notin MainNever /\ ret'[t] # "finraise"
  BY <1>2 DEF Places, MainNever
<1> QED BY <1>1, <1>3, <1>4, MoveLives DEF Places

\* A thread in Ruby code, or in the C code of a call, is alive.
LEMMA AliveThere ==
    ASSUME LifeInv, NEW t \in Threads
    PROVE  /\ pc[t] \in {"user", "join", "raise", "sigraise", "term", "start",
                         "finish", "sl_gvl"} => status[t] \in Live
           /\ pc[t] \in {"ints", "yield"} =>
                status[t] \in Live \/ (ret[t] = "finraise" /\ AbortOnException)
           /\ ret[t] = "finraise" \/ pc[t] = "finraise" => AbortOnException /\ t # Main
BY DEF LifeInv, Life, StatusOf, MainOK, MainNever

LEMMA UnwindMoved ==
    ASSUME TypeOK, NEW t \in Threads, NEW r, NEW u, NEW e, Unwind(t, r, u, e)
    PROVE  /\ \E p \in {"hang", "term", "finish", "user"} :
                Moves(t, p) /\ (p = "finish" => r = "finraise")
           /\ ret' = [ret EXCEPT ![t] = "user"]
           /\ UNCHANGED prev_status
<1>1. \E p \in {"hang", "term", "finish", "user"} :
        Goto(t, p) /\ (p = "finish" => r = "finraise")
  BY DEF Unwind
<1> QED BY <1>1, GotoMoves DEF Unwind

LEMMA ScheduleMoved ==
    ASSUME TypeOK, NEW t \in Threads, NEW r, Schedule(t, r)
    PROVE  /\ \E p \in {"ints", "hang", "yield"} : Moves(t, p)
           /\ ret' = [ret EXCEPT ![t] = r]
<1>1. \E p \in {"ints", "hang", "yield"} : Goto(t, p)
  BY DEF Schedule
<1> QED BY <1>1, GotoMoves DEF Schedule

LEMMA NobodyElse ==
    ASSUME TypeOK, NEW t \in Threads,
           UNCHANGED ret \/ (\E r : ret' = [ret EXCEPT ![t] = r]),
           UNCHANGED prev_status \/ (\E v : prev_status' = [prev_status EXCEPT ![t] = v]),
           UNCHANGED status \/ (\E v : status' = [status EXCEPT ![t] = v])
    PROVE  Aside(t)
BY DEF TypeOK, Aside

\* A call that leaves the statuses alone.
LEMMA CallLives ==
    ASSUME TypeOK, LifeInv, NEW t \in Threads, NEW p \in Places \ {"start"},
           Moves(t, p),
           pc[t] \in {"user", "join", "raise", "sigraise", "term"},
           UNCHANGED <<status, prev_status, living, frame>>,
           \/ UNCHANGED ret
           \/ \E r \in Labels \ {"finraise"} : ret' = [ret EXCEPT ![t] = r]
    PROVE  LifeInv'
<1>1. Aside(t)
  BY NobodyElse
<1>2. status'[t] \in Live
  BY AliveThere
<1>3. ret'[t] # "finraise" \/ UNCHANGED ret
  BY DEF TypeOK
<1> QED BY <1>1, <1>2, <1>3, LiveMove

\* native_sleep.
LEMMA SleepLives ==
    ASSUME TypeOK, LifeInv, NEW t \in Threads, pc[t] \in {"user", "join"},
           NEW r \in {"user", "join"}, native_sleep(t, r),
           UNCHANGED <<living, frame>>
    PROVE  LifeInv'
<1>1. Moves(t, "sl_enter")
  BY GotoMoves DEF native_sleep
<1>2. Aside(t)
  BY NobodyElse DEF native_sleep
<1>3. status[t] \in Live
  BY AliveThere
<1>4. ret'[t] = r /\ status'[t] = "stopped" /\ prev_status'[t] = status[t]
  BY DEF native_sleep, TypeOK
<1>5. StatusOf("sl_enter", ret'[t], status'[t], prev_status'[t])
  BY <1>3, <1>4 DEF StatusOf
<1> QED BY <1>1, <1>2, <1>4, <1>5, MoveLives DEF MainNever

\* The part of the state that life is about.
LEMMA SameLife ==
    ASSUME LifeInv, UNCHANGED <<pc, ret, status, prev_status, living, frame>>
    PROVE  LifeInv'
BY DEF LifeInv, Life, MainOK, FrameOK

LEMMA CreateLives ==
    ASSUME TypeOK, CurrentIsHolder, LifeInv, NEW t \in Threads, NEW u \in Threads,
           thread_create_core(t, u)
    PROVE  LifeInv'
<1>1. /\ pc[t] = "user" /\ gvl = t /\ pc[u] = "unborn" /\ u # t /\ u # Main
      /\ UNCHANGED <<prev_status, frame>>
  BY DEF thread_create_core, Holds, LifeInv, MainOK, MainNever, locals, signalVars
<1>2. pc[Main] # "exit"
  BY <1>1 DEF CurrentIsHolder, VMSide
<1>3. Life(t) /\ Life(u) /\ status[t] \in Live
  BY <1>1, AliveThere DEF LifeInv
<1>4. CASE /\ living' = living \cup {u}
           /\ pc' = [pc EXCEPT ![t] = "ints", ![u] = "start"]
           /\ ret' = [ret EXCEPT ![t] = "user"]
           /\ UNCHANGED <<status, errinfo>>
  <2>1. /\ pc'[t] = "ints" /\ pc'[u] = "start" /\ ret'[t] = "user"
        /\ \A s \in Threads \ {t, u} : pc'[s] = pc[s]
        /\ \A s \in Threads \ {t} : ret'[s] = ret[s]
    BY <1>1, <1>4 DEF TypeOK
  <2>2. Life(t)'
    BY <1>1, <1>3, <1>4, <2>1 DEF Life, StatusOf, Live
  <2>3. Life(u)'
    BY <1>1, <1>3, <1>4, <2>1 DEF Life, StatusOf, Live
  <2>4. ASSUME NEW s \in Threads \ {t, u} PROVE Life(s)'
    BY <1>1, <1>4, <2>1 DEF LifeInv, Life
  <2>5. MainOK'
    BY <1>1, <1>2, <1>4, <2>1 DEF LifeInv, MainOK, MainNever
  <2> QED BY <1>1, <2>2, <2>3, <2>4, <2>5 DEF LifeInv, FrameOK
<1>5. CASE /\ status' = [status EXCEPT ![u] = "killed"]
           /\ pc' = [pc EXCEPT ![u] = "dead"]
           /\ UNCHANGED <<ret, living>>
  <2>1. /\ pc'[u] = "dead" /\ status'[u] = "killed"
        /\ \A s \in Threads \ {u} : pc'[s] = pc[s] /\ status'[s] = status[s]
    BY <1>5 DEF TypeOK
  <2>2. Life(u)'
    BY <1>1, <1>3, <1>5, <2>1 DEF Life, StatusOf
  <2>3. ASSUME NEW s \in Threads \ {u} PROVE Life(s)'
    BY <1>1, <1>5, <2>1 DEF LifeInv, Life
  <2>4. MainOK'
    BY <1>1, <1>2, <1>5, <2>1 DEF LifeInv, MainOK, MainNever
  <2> QED BY <1>1, <2>2, <2>3, <2>4 DEF LifeInv, FrameOK
<1> QED BY <1>4, <1>5 DEF thread_create_core

LEMMA LifeUser ==
    ASSUME TypeOK, CurrentIsHolder, LifeInv, NEW t \in Threads, UserStep(t)
    PROVE  LifeInv'
<1> USE DEF joinList, locals, signalVars, Places, Labels
<1>1. ASSUME NEW u \in Threads, thread_create_core(t, u) PROVE LifeInv'
  BY <1>1, CreateLives
<1>2. CASE Rescue(t)
  BY <1>2, SameLife DEF Rescue
<1>3. CASE UserRaise(t)
  BY <1>3, GotoMoves, CallLives DEF UserRaise, Raised
<1>4. ASSUME NEW l \in BOOLEAN, Sleep(t, l) PROVE LifeInv'
  BY <1>4, SleepLives DEF Sleep
<1>5. CASE rb_thread_stop(t)
  BY <1>4, <1>5, GotoMoves, CallLives DEF rb_thread_stop, Raised
<1>6. CASE thread_s_pass(t)
  <2>1. /\ pc[t] = "user" /\ UNCHANGED <<status, prev_status, living, frame>>
        /\ Schedule(t, "user")
    BY <1>6 DEF thread_s_pass
  <2>2. PICK p \in {"ints", "hang", "yield"} : Moves(t, p)
    BY <2>1, ScheduleMoved
  <2>3. ret' = [ret EXCEPT ![t] = "user"]
    BY <2>1, ScheduleMoved
  <2> QED BY <2>1, <2>2, <2>3, CallLives
<1>7. ASSUME NEW u \in Threads, rb_thread_wakeup(t, u) PROVE LifeInv'
  <2>1. pc[t] = "user" /\ UNCHANGED <<status, prev_status, living, frame>>
    BY <1>7 DEF rb_thread_wakeup
  <2>2. CASE Raised(t) /\ UNCHANGED ret
    BY <2>1, <2>2, GotoMoves, CallLives DEF Raised
  <2>3. CASE /\ pc' = Woken({u}, [pc EXCEPT ![t] = "ints"])
             /\ ret' = [ret EXCEPT ![t] = "user"]
    BY <2>1, <2>3, WokenMoves, CallLives
  <2> QED BY <1>7, <2>2, <2>3 DEF rb_thread_wakeup
<1>8. ASSUME NEW u \in Threads, rb_thread_run(t, u) PROVE LifeInv'
  <2>1. CASE /\ pc[t] = "user" /\ UNCHANGED <<status, prev_status, living, frame>>
             /\ pc' = Woken({u}, [pc EXCEPT ![t] = "yield"])
             /\ ret' = [ret EXCEPT ![t] = "user"]
    BY <2>1, WokenMoves, CallLives
  <2> QED BY <1>7, <1>8, <2>1 DEF rb_thread_run
<1>9. ASSUME NEW u \in Threads, NEW l \in BOOLEAN, thread_join(t, u, l)
      PROVE  LifeInv'
  BY <1>9, GotoMoves, CallLives DEF thread_join
<1>10. ASSUME NEW u \in Threads, thread_raise_m(t, u) PROVE LifeInv'
  BY <1>10, GotoMoves, CallLives DEF thread_raise_m
<1>11. ASSUME NEW u \in Threads, rb_thread_kill(t, u) PROVE LifeInv'
  <2>1. pc[t] = "user" /\ UNCHANGED <<living, frame>>
    BY <1>11 DEF rb_thread_kill
  <2>2. CASE Return(t) /\ UNCHANGED status
    BY <2>1, <2>2, GotoMoves, CallLives DEF Return
  <2>3. CASE Raised(t) /\ UNCHANGED <<ret, status, locals>>
    BY <2>1, <2>3, GotoMoves, CallLives DEF Raised
  <2>4. CASE /\ Killable(u)
             /\ pc' = Woken({u}, [pc EXCEPT ![t] = "ints"])
             /\ ret' = [ret EXCEPT ![t] = "user"]
             /\ status' = [status EXCEPT ![u] = "to_kill"]
             /\ UNCHANGED locals
    <3>1. Moves(t, "ints")
      BY <2>4, WokenMoves
    <3>2. pc[u] # "dead"
      BY <2>4 DEF Killable, LifeInv, Life, StatusOf
    <3>3. Aside(t)
      BY <2>4, <3>2 DEF Aside, TypeOK
    <3>4. status'[t] \in Live /\ ret'[t] = "user"
      BY <2>1, <2>4, AliveThere DEF TypeOK, Live
    <3> QED BY <2>1, <3>1, <3>3, <3>4, LiveMove
  <2> QED BY <1>11, <2>2, <2>3, <2>4 DEF rb_thread_kill
<1> QED
  BY <1>1, <1>2, <1>3, <1>4, <1>5, <1>6, <1>7, <1>8, <1>9, <1>10, <1>11
     DEF UserStep

\* A thread passes the lock on, and polls its flag.
LEMMA PassLives ==
    ASSUME TypeOK, LifeInv, NEW t \in Threads, pc[t] \in {"ints", "yield"},
           NEW p \in {"ints", "yield"}, Moves(t, p),
           UNCHANGED <<ret, status, prev_status, living, frame>>
    PROVE  LifeInv'
<1>1. Aside(t)
  BY NobodyElse
<1>2. Life(t) /\ ret[Main] # "finraise"
  BY DEF LifeInv, MainOK
<1>3. /\ StatusOf(p, ret'[t], status'[t], prev_status'[t])
      /\ ~AbortOnException => status'[t] # "killed"
  BY <1>2 DEF Life, StatusOf
<1> QED BY <1>1, <1>2, <1>3, MoveLives DEF MainNever

LEMMA LifeSleep ==
    ASSUME TypeOK, LifeInv, NEW t \in Threads,
           GetsLock(t) \/ SleepStep(t) \/ SleepSpurious(t)
    PROVE  LifeInv'
<1> USE DEF joinList, locals, signalVars, threadVars, Places
<1>0. Life(t) /\ MainOK
  BY DEF LifeInv
<1>1. CASE Start(t)
  <2>1. pc[t] = "start" /\ UNCHANGED <<ret, status, prev_status, living, frame>>
    BY <1>1 DEF Start
  <2>2. Moves(t, "user") /\ Aside(t)
    BY <1>1, <2>1, GotoMoves, NobodyElse DEF Start
  <2> QED BY <2>1, <2>2, AliveThere, LiveMove
<1>2. CASE Yielded(t)
  BY <1>2, GotoMoves, PassLives DEF Yielded
<1>3. CASE SleepLeave(t)
  <2>1. pc[t] = "sl_gvl" /\ UNCHANGED <<ret, status, prev_status, living, frame>>
    BY <1>3 DEF SleepLeave, RegainLock
  <2>2. Moves(t, "ints") /\ Aside(t)
    BY <1>3, <2>1, GotoMoves, NobodyElse DEF SleepLeave, RegainLock
  <2> QED BY <2>1, <2>2, AliveThere, LiveMove
<1>4. CASE SleepEnter(t) \/ SleepTimeout(t) \/ SleepSpurious(t)
  <2>1. /\ pc[t] \in {"sl_enter", "sl_wait"}
        /\ Goto(t, "sl_wait") \/ Goto(t, "sl_status")
        /\ UNCHANGED <<ret, status, prev_status, living, frame>>
    BY <1>4 DEF SleepEnter, SleepTimeout, SleepSpurious, EnterWait, EndWait, notAsleep
  <2>2. PICK p \in {"sl_wait", "sl_status"} : Moves(t, p)
    BY <2>1, GotoMoves
  <2>3. Aside(t)
    BY <2>1, NobodyElse
  <2>4. /\ StatusOf(p, ret'[t], status'[t], prev_status'[t])
        /\ status'[t] # "killed"
    BY <1>0, <2>1 DEF Life, StatusOf
  <2> QED BY <1>0, <2>1, <2>2, <2>3, <2>4, MoveLives DEF MainNever, MainOK
<1>5. CASE SleepRestore(t)
  <2>1. /\ pc[t] = "sl_status" /\ Goto(t, "sl_gvl")
        /\ status' = [status EXCEPT ![t] = prev_status[t]]
        /\ prev_status' = [prev_status EXCEPT ![t] = "runnable"]
        /\ UNCHANGED <<ret, living, frame>>
    BY <1>5 DEF SleepRestore, RestoreStatus, notAsleep
  <2>2. Moves(t, "sl_gvl") /\ Aside(t)
    BY <2>1, GotoMoves, NobodyElse
  <2>3. status'[t] \in Live
    BY <1>0, <2>1 DEF Life, StatusOf, TypeOK
  <2> QED BY <2>1, <2>2, <2>3, LiveMove
<1> QED BY <1>1, <1>2, <1>3, <1>4, <1>5 DEF GetsLock, SleepStep

\* The thread leaves what it was in by an exception.
LEMMA UnwindLives ==
    ASSUME TypeOK, LifeInv, NEW t \in Threads, NEW r, NEW u, NEW e,
           Unwind(t, r, u, e),
           pc[t] \in {"user", "join", "ints"},
           r = "finraise" => t # Main,
           status'[t] \in Live,
           UNCHANGED status \/ (\E v : status' = [status EXCEPT ![t] = v]),
           UNCHANGED living, UNCHANGED frame \/ FrameOK'
    PROVE  LifeInv'
<1>1. PICK p \in {"hang", "term", "finish", "user"} :
        Moves(t, p) /\ (p = "finish" => r = "finraise")
  BY UnwindMoved
<1>2. /\ ret' = [ret EXCEPT ![t] = "user"]
      /\ UNCHANGED prev_status
  BY UnwindMoved
<1>3. Aside(t)
  BY <1>2, NobodyElse
<1>4. ret'[t] = "user"
  BY <1>2 DEF TypeOK
<1>5. /\ StatusOf(p, ret'[t], status'[t], prev_status'[t])
      /\ status'[t] # "killed"
  BY <1>4 DEF StatusOf, Live
<1> QED BY <1>1, <1>3, <1>4, <1>5, MoveLives DEF MainNever

LEMMA ThrowLives ==
    ASSUME TypeOK, LifeInv, NEW t \in Threads, NEW r, NEW u, Throw(t, r, u),
           pc[t] \in {"user", "ints"}, r = "finraise" => t # Main,
           UNCHANGED living, UNCHANGED frame \/ FrameOK'
    PROVE  LifeInv'
<1>1. status'[t] \in Live
  BY DEF Throw, TypeOK, Live
<1> QED BY <1>1, UnwindLives DEF Throw

LEMMA FinishWakeLives ==
    ASSUME TypeOK, CurrentIsHolder, LifeInv, NEW t \in Threads, FinishWake(t)
    PROVE  LifeInv'
<1>0. Life(t) /\ MainOK /\ FrameOK
  BY DEF LifeInv
<1>1. pc[t] = "finwake" /\ t # Main
  BY <1>0 DEF FinishWake, MainOK, MainNever
<1>2. pc[Main] # "exit"
  BY <1>1 DEF CurrentIsHolder, VMSide
<1>3. /\ living' = living \ {t}
      /\ UNCHANGED <<ret, prev_status, frame>>
  BY DEF FinishWake, locals, signalVars
<1>4. PICK p \in {"dead", "hang"} :
        /\ Moves(t, p)
        /\ \/ p = "dead" /\ status' = [status EXCEPT ![t] = "killed"]
           \/ p = "hang" /\ UNCHANGED status
  <2> DEFINE S == JoinChain(t)
  <2>1. \/ /\ pc' = Woken(S, [pc EXCEPT ![t] = "dead"])
           /\ status' = [status EXCEPT ![t] = "killed"]
        \/ pc' = Woken(S, [pc EXCEPT ![t] = "hang"]) /\ UNCHANGED status
    BY DEF FinishWake
  <2> HIDE DEF S
  <2> QED BY <2>1, WokenMoves
<1>5. \A s \in Threads \ {t} : status'[s] = status[s]
  BY <1>4 DEF TypeOK
<1>6. Life(t)'
  <2>1. pc'[t] = p /\ t \notin living'
    BY <1>3, <1>4 DEF Moves
  <2>2. p = "dead" => status'[t] = "killed"
    BY <1>4 DEF TypeOK
  <2> QED BY <1>0, <1>1, <1>3, <2>1, <2>2 DEF Life, StatusOf
<1>7. ASSUME NEW s \in Threads \ {t} PROVE Life(s)'
  <2>1. Life(s)
    BY DEF LifeInv
  <2>2. pc'[s] = pc[s] \/ (pc[s] = "sl_wait" /\ pc'[s] = "sl_status")
    BY <1>4 DEF Moves
  <2> QED BY <2>1, <2>2, <1>3, <1>5 DEF Life, StatusOf
<1>8. MainOK'
  <2>1. pc'[Main] = pc[Main] \/ (pc[Main] = "sl_wait" /\ pc'[Main] = "sl_status")
    BY <1>1, <1>4 DEF Moves
  <2> QED BY <1>0, <1>1, <1>2, <1>3, <2>1 DEF MainOK, MainNever
<1> QED BY <1>0, <1>3, <1>6, <1>7, <1>8 DEF LifeInv, FrameOK

LEMMA LifeRuns ==
    ASSUME TypeOK, CurrentIsHolder, LifeInv, NEW t \in Threads,
           RunsUnderLock(t) \/ Finish(t)
    PROVE  LifeInv'
<1> USE DEF joinList, locals, signalVars, Places, Labels
<1>0. Life(t) /\ MainOK /\ FrameOK
  BY DEF LifeInv
<1>1. CASE CheckInts(t)
  BY <1>1, GotoMoves, CallLives DEF CheckInts
<1>2. CASE JoinDone(t)
  <2>1. pc[t] = "join" /\ UNCHANGED <<status, living, frame>>
    BY <1>2 DEF JoinDone
  <2>2. CASE Unwind(t, "user", None, "exc")
    <3>1. status'[t] \in Live
      BY <2>1, AliveThere
    <3> QED BY <2>1, <2>2, <3>1, UnwindLives
  <2>3. CASE Return(t)
    BY <2>1, <2>3, GotoMoves, CallLives DEF Return
  <2> QED BY <1>2, <2>2, <2>3 DEF JoinDone
<1>3. CASE JoinTimeout(t)
  <2>1. pc[t] = "join" /\ UNCHANGED <<status, living, frame>>
    BY <1>3 DEF JoinTimeout
  <2>2. CASE Goto(t, "hang") /\ UNCHANGED <<ret, locals>>
    BY <2>1, <2>2, GotoMoves, CallLives
  <2>3. CASE Return(t)
    BY <2>1, <2>3, GotoMoves, CallLives DEF Return
  <2> QED BY <1>3, <2>2, <2>3 DEF JoinTimeout
<1>4. CASE JoinSleep(t)
  BY <1>4, SleepLives DEF JoinSleep
<1>5. CASE rb_thread_raise(t)
  <2>1. pc[t] = "raise" /\ UNCHANGED <<status, living, frame>>
    BY <1>5 DEF rb_thread_raise
  <2>2. CASE Return(t)
    BY <2>1, <2>2, GotoMoves, CallLives DEF Return
  <2>3. CASE Schedule(t, "raise") /\ UNCHANGED locals
    <3>1. PICK p \in {"ints", "hang", "yield"} : Moves(t, p)
      BY <2>3, ScheduleMoved
    <3>2. ret' = [ret EXCEPT ![t] = "raise"]
      BY <2>3, ScheduleMoved
    <3> QED BY <2>1, <2>3, <3>1, <3>2, CallLives
  <2>4. CASE /\ pc' = Woken({target[t]}, [pc EXCEPT ![t] = "ints"])
             /\ ret' = [ret EXCEPT ![t] = "user"]
             /\ UNCHANGED prev_status
    BY <2>1, <2>4, WokenMoves, CallLives
  <2> QED BY <1>5, <2>2, <2>3, <2>4 DEF rb_thread_raise
<1>6. CASE IntsReturn(t)
  <2>1. /\ pc[t] = "ints" /\ ret' = [ret EXCEPT ![t] = "user"]
        /\ UNCHANGED <<status, prev_status, living, frame>>
    BY <1>6 DEF IntsReturn
  <2>2. PICK p \in Labels : p = ret[t] /\ Moves(t, p)
    BY <1>6, GotoMoves DEF IntsReturn, TypeOK
  <2>3. Aside(t) /\ ret'[t] = "user"
    BY <2>1, NobodyElse DEF TypeOK
  <2>4. CASE p # "finraise"
    <3>1. status'[t] \in Live
      BY <2>1, <2>2, <2>4, AliveThere
    <3> QED BY <2>1, <2>2, <2>3, <2>4, <3>1, LiveMove
  <2>5. CASE p = "finraise"
    <3>1. AbortOnException /\ t # Main
      BY <2>2, <2>5, AliveThere
    <3>2. StatusOf(p, ret'[t], status'[t], prev_status'[t])
      BY <2>5, <3>1 DEF StatusOf
    <3> QED BY <2>1, <2>2, <2>3, <2>5, <3>1, <3>2, MoveLives
  <2> QED BY <2>4, <2>5
<1>7. CASE IntsThrow(t)
  <2>1. pc[t] = "ints" /\ UNCHANGED living
    BY <1>7 DEF IntsThrow
  <2>2. ret[t] = "finraise" => t # Main
    BY <1>0 DEF MainOK
  <2>3. CASE Throw(t, ret[t], target[t]) /\ UNCHANGED frame
    BY <2>1, <2>2, <2>3, ThrowLives
  <2>4. CASE Throw(t, frame.ret, frame.target) /\ frame' = NoFrame
    <3>1. frame.ret # "finraise"
      BY <1>0 DEF FrameOK
    <3>2. FrameOK'
      BY <2>4 DEF FrameOK, NoFrame, Live
    <3> QED BY <2>1, <2>4, <3>1, <3>2, ThrowLives
  <2> QED BY <1>7, <2>3, <2>4 DEF IntsThrow
<1>8. CASE IntsPass(t)
  <2>1. /\ pc[t] = "ints" /\ UNCHANGED <<ret, status, prev_status, living, frame>>
        /\ UNCHANGED pc \/ Goto(t, "yield")
    BY <1>8 DEF IntsPass
  <2>2. CASE UNCHANGED pc
    BY <2>1, <2>2, SameLife
  <2>3. CASE Goto(t, "yield")
    BY <2>1, <2>3, GotoMoves, PassLives
  <2> QED BY <2>1, <2>2, <2>3
<1>9. CASE FinishRaise(t)
  <2>1. /\ pc[t] = "finraise" /\ UNCHANGED <<status, prev_status, living, frame>>
        /\ AbortOnException /\ t # Main
    BY <1>9, AliveThere DEF FinishRaise
  <2>2. CASE Schedule(t, "finraise")
    <3>1. PICK p \in {"ints", "hang", "yield"} : Moves(t, p)
      BY <2>2, ScheduleMoved
    <3>2. ret' = [ret EXCEPT ![t] = "finraise"]
      BY <2>2, ScheduleMoved
    <3>3. Aside(t) /\ ret'[t] = "finraise"
      BY <2>1, <3>2, NobodyElse DEF TypeOK
    <3>4. StatusOf(p, ret'[t], status'[t], prev_status'[t])
      BY <2>1, <3>3 DEF StatusOf
    <3> QED BY <2>1, <3>1, <3>3, <3>4, MoveLives
  <2>3. CASE pc' = Woken({Main}, [pc EXCEPT ![t] = "finwake"]) /\ UNCHANGED ret
    <3>1. Moves(t, "finwake") /\ Aside(t)
      BY <2>1, <2>3, WokenMoves, NobodyElse
    <3>2. StatusOf("finwake", ret'[t], status'[t], prev_status'[t])
      BY <2>1 DEF StatusOf
    <3> QED BY <2>1, <3>1, <3>2, MoveLives
  <2> QED BY <1>9, <2>2, <2>3 DEF FinishRaise
<1>10. CASE FinishWake(t)
  BY <1>10, FinishWakeLives
<1>11. CASE Finish(t)
  <2>1. /\ pc[t] \in {"user", "finish"} /\ t # Main
        /\ UNCHANGED <<ret, prev_status, living, frame>>
        /\ status' = [status EXCEPT ![t] = "killed"]
        /\ \/ AbortOnException /\ Goto(t, "finraise")
           \/ Goto(t, "finwake")
    BY <1>11 DEF Finish
  <2>2. PICK p \in {"finraise", "finwake"} :
            Moves(t, p) /\ (p = "finraise" => AbortOnException)
    BY <2>1, GotoMoves
  <2>3. Aside(t)
    BY <2>1, NobodyElse
  <2>4. StatusOf(p, ret'[t], status'[t], prev_status'[t])
    BY <1>0, <2>1, <2>2 DEF StatusOf, Life
  <2> QED BY <2>1, <2>2, <2>3, <2>4, MoveLives
<1> QED
  BY <1>1, <1>2, <1>3, <1>4, <1>5, <1>6, <1>7, <1>8, <1>9, <1>10, <1>11
     DEF RunsUnderLock

\* A signal is executed: what it interrupts is kept, ...
LEMMA PushLives ==
    ASSUME TypeOK, LifeInv, SignalTaken, NEW p \in {"user", "sigraise"},
           NEW r \in {"user", "sigraise"}, PushFrame(p, r)
    PROVE  LifeInv'
<1>0. Life(Main) /\ MainOK
  BY DEF LifeInv
<1>1. pc[Main] = "ints" /\ UNCHANGED <<living, prev_status>>
  BY DEF SignalTaken, PushFrame
<1>2. status[Main] \in Live
  BY <1>0, <1>1 DEF MainOK, Life, StatusOf
<1>3. FrameOK'
  BY <1>0, <1>2 DEF PushFrame, FrameOK, MainOK
<1>4. Moves(Main, p) /\ Aside(Main)
  BY <1>1, GotoMoves, NobodyElse DEF PushFrame, SignalTaken
<1>5. status'[Main] \in Live /\ ret'[Main] = r
  BY DEF SignalTaken, PushFrame, TypeOK, Live
<1> QED BY <1>1, <1>3, <1>4, <1>5, LiveMove DEF Places

\* ... or left by an exception.
LEMMA InterruptLives ==
    ASSUME TypeOK, LifeInv, SignalTaken,
           Unwind(Main, ret[Main], target[Main], "exc"), UNCHANGED frame
    PROVE  LifeInv'
<1>1. pc[Main] = "ints" /\ UNCHANGED living
  BY DEF SignalTaken
<1>2. status'[Main] \in Live
  BY DEF SignalTaken, TypeOK, Live
<1>3. ret[Main] # "finraise"
  BY DEF LifeInv, MainOK
<1>4. \E v : status' = [status EXCEPT ![Main] = v]
  BY DEF SignalTaken
<1> QED BY <1>1, <1>2, <1>3, <1>4, UnwindLives

LEMMA LifeMain ==
    ASSUME TypeOK, LifeInv,
           MainStep \/ TrapReturn \/ TrapUnwind \/ rb_thread_terminate_all
    PROVE  LifeInv'
<1> USE DEF joinList, locals, signalVars, Places, Labels
<1>0. Life(Main) /\ MainOK /\ FrameOK
  BY DEF LifeInv
<1>a. ASSUME pc[Main] \in {"sigraise", "term"}, NEW r \in {"sigraise", "term"},
             Schedule(Main, r), UNCHANGED <<status, living, locals, signalVars>>
      PROVE  LifeInv'
  <2>1. PICK p \in {"ints", "hang", "yield"} : Moves(Main, p)
    BY <1>a, ScheduleMoved
  <2>2. ret' = [ret EXCEPT ![Main] = r]
    BY <1>a, ScheduleMoved
  <2> QED BY <1>a, <2>1, <2>2, CallLives
<1>1. CASE signal_exec
  BY <1>1, PushLives DEF signal_exec
<1>2. CASE rb_interrupt
  BY <1>2, InterruptLives DEF rb_interrupt
<1>3. CASE rb_thread_signal_raise
  <2>1. CASE /\ SignalTaken /\ UNCHANGED frame
             /\ Unwind(Main, ret[Main], target[Main], "exc")
    BY <2>1, InterruptLives
  <2>2. CASE SignalTaken /\ PushFrame("sigraise", "sigraise")
    BY <2>2, PushLives
  <2>3. CASE /\ pc[Main] = "sigraise" /\ Schedule(Main, "sigraise")
             /\ UNCHANGED <<status, living, locals, signalVars>>
    BY <1>a, <2>3
  <2> QED BY <1>3, <2>1, <2>2, <2>3 DEF rb_thread_signal_raise
<1>4. CASE TerminateWait
  BY <1>4, <1>a DEF TerminateWait
<1>5. CASE TerminateDone
  <2>1. /\ pc[Main] = "term" /\ Goto(Main, "exit") /\ rb_thread_alone
        /\ UNCHANGED <<ret, status, prev_status, living, frame>>
    BY <1>5 DEF TerminateDone
  <2>2. Moves(Main, "exit") /\ status[Main] \in Live
    BY <2>1, GotoMoves, AliveThere
  <2>3. living = {Main}
    <3>1. IsFiniteSet(living)
      BY FS_Subset DEF TypeOK
    <3>2. PICK x : living = {x}
      BY <2>1, <3>1, FS_Singleton DEF rb_thread_alone
    <3> QED BY <1>0, <3>2 DEF MainOK
  <2>4. Life(Main)'
    BY <1>0, <2>1, <2>2 DEF Moves, Life, StatusOf, Live
  <2>5. ASSUME NEW s \in Threads \ {Main} PROVE Life(s)'
    <3>1. Life(s)
      BY DEF LifeInv
    <3>2. pc'[s] = pc[s] \/ (pc[s] = "sl_wait" /\ pc'[s] = "sl_status")
      BY <2>2 DEF Moves
    <3> QED BY <2>1, <3>1, <3>2 DEF Life, StatusOf
  <2>6. MainOK'
    BY <1>0, <2>1, <2>2, <2>3 DEF MainOK, MainNever, Moves
  <2> QED BY <1>0, <2>1, <2>4, <2>5, <2>6 DEF LifeInv, FrameOK
<1>6. CASE TrapReturn
  <2>1. pc[Main] = "user" /\ UNCHANGED living /\ frame' = NoFrame
    BY <1>6 DEF TrapReturn
  <2>2. FrameOK'
    BY <2>1 DEF FrameOK, NoFrame, Live
  <2>3. CASE Throw(Main, frame.ret, frame.target)
    BY <1>0, <2>1, <2>2, <2>3, ThrowLives DEF FrameOK
  <2>4. CASE /\ status' = [status EXCEPT ![Main] = frame.status]
             /\ ret' = [ret EXCEPT ![Main] = frame.ret]
             /\ Goto(Main, "ints") \/ Goto(Main, "yield")
             /\ UNCHANGED prev_status
    <3>1. PICK p \in {"ints", "yield"} : Moves(Main, p)
      BY <2>4, GotoMoves
    <3>2. Aside(Main)
      BY <2>4, NobodyElse
    <3>3. status'[Main] \in Live /\ ret'[Main] # "finraise"
      BY <1>0, <2>4 DEF FrameOK, TypeOK
    <3> QED BY <2>1, <2>2, <3>1, <3>2, <3>3, LiveMove
  <2> QED BY <1>6, <2>3, <2>4 DEF TrapReturn
<1>7. CASE TrapUnwind
  <2>1. /\ pc[Main] = "user" /\ UNCHANGED <<status, living>> /\ frame' = NoFrame
        /\ Unwind(Main, frame.ret, frame.target, "exc")
    BY <1>7 DEF TrapUnwind
  <2>2. FrameOK'
    BY <2>1 DEF FrameOK, NoFrame, Live
  <2>3. status'[Main] \in Live
    BY <2>1, AliveThere
  <2> QED BY <1>0, <2>1, <2>2, <2>3, UnwindLives DEF FrameOK
<1>8. CASE rb_thread_terminate_all
  <2> DEFINE S == living \ {Main}
  <2>1. /\ pc[Main] = "user"
        /\ pc' = Woken(S, [pc EXCEPT ![Main] = "term"])
        /\ status' = [u \in Threads |-> IF u \in S THEN "to_kill" ELSE status[u]]
        /\ UNCHANGED <<ret, prev_status, living, frame>>
    BY <1>8 DEF rb_thread_terminate_all
  <2>2. \A u \in Threads : u \in S => pc[u] # "dead" /\ u # Main
    BY DEF LifeInv, Life
  <2>3. Main \notin S
    OBVIOUS
  <2> HIDE DEF S
  <2>4. Moves(Main, "term")
    BY <2>1, WokenMoves
  <2>5. Aside(Main)
    BY <2>1, <2>2 DEF Aside
  <2>6. status'[Main] \in Live
    BY <2>1, <2>3, AliveThere
  <2> QED BY <2>1, <2>4, <2>5, <2>6, LiveMove
<1> QED
  BY <1>1, <1>2, <1>3, <1>4, <1>5, <1>6, <1>7, <1>8 DEF MainStep

LEMMA LifeTimer ==
    ASSUME TypeOK, LifeInv, TimerTick \/ TimerSignal \/ sighandler
    PROVE  LifeInv'
<1> USE DEF joinList, locals, signalVars, coreVars
<1>1. CASE TimerTick \/ sighandler
  BY <1>1, SameLife DEF TimerTick, sighandler
<1>2. CASE TimerSignal
  <2>1. /\ pc' = Woken({Main}, pc)
        /\ UNCHANGED <<ret, status, prev_status, living, frame>>
    BY <1>2 DEF TimerSignal
  <2>2. \A s \in Threads : \/ pc'[s] = pc[s]
                           \/ pc[s] = "sl_wait" /\ pc'[s] = "sl_status"
    BY <2>1 DEF Woken
  <2>3. ASSUME NEW s \in Threads PROVE Life(s)'
    <3>1. Life(s)
      BY DEF LifeInv
    <3> QED BY <2>1, <2>2, <3>1 DEF Life, StatusOf
  <2>4. MainOK'
    BY <2>1, <2>2 DEF LifeInv, MainOK, MainNever
  <2> QED BY <2>1, <2>3, <2>4 DEF LifeInv, FrameOK
<1> QED BY <1>1, <1>2

LEMMA LifeNext ==
    TypeOK /\ CurrentIsHolder /\ LifeInv /\ [Next]_vars => LifeInv'
<1> SUFFICES ASSUME TypeOK, CurrentIsHolder, LifeInv, [Next]_vars PROVE LifeInv'
  OBVIOUS
<1>1. CASE UNCHANGED vars
  BY <1>1, SameLife DEF vars, coreVars, locals, signalVars
<1>2. CASE Next
  BY <1>1, <1>2, LifeUser, LifeSleep, LifeRuns, LifeMain, LifeTimer DEF Next, Exited
<1> QED BY <1>1, <1>2

LEMMA LifeStarts == Init => LifeInv
<1> SUFFICES ASSUME Init PROVE LifeInv
  OBVIOUS
<1>1. /\ \A t \in Threads : /\ pc[t] = IF t = Main THEN "user" ELSE "unborn"
                            /\ ret[t] = "user" /\ status[t] = "runnable"
                            /\ prev_status[t] = "runnable"
      /\ living = {Main} /\ frame = NoFrame
  BY DEF Init, CoreInit
<1>2. \A t \in Threads : Life(t)
  BY <1>1 DEF Life, StatusOf, Live
<1>3. MainOK /\ FrameOK
  BY <1>1 DEF MainOK, MainNever, FrameOK, NoFrame, Live
<1> QED BY <1>2, <1>3 DEF LifeInv

LEMMA LifeInvariant == Spec => [](TypeOK /\ CurrentIsHolder /\ LifeInv)
<1>1. Init => LifeInv
  BY LifeStarts
<1>2. TypeOK /\ CurrentIsHolder /\ LifeInv /\ [Next]_vars => LifeInv'
  BY LifeNext
<1> QED BY <1>1, <1>2, TypeCorrect, LockSafe, PTL DEF Spec

-----------------------------------------------------------------------------
\* Thread#status tells the truth whatever is called, raised, killed and
\* signalled: a thread that runs Ruby code is shown alive, one inside
\* pthread_cond_wait is not shown running, and one that has ended is shown
\* dead, although native_sleep saves and restores th->status around the lock
\* while rb_thread_kill and rb_thread_terminate_all write it.
THEOREM StatusIsTrue == Spec => []StatusTellsTruth
<1>1. LifeInv => StatusTellsTruth
  BY DEF LifeInv, Life, StatusOf, StatusTellsTruth, Live
<1> QED BY <1>1, LifeInvariant, PTL

\* When rb_thread_terminate_all returns, every other thread has run to its end
\* or was never started, also one that was created or that failed to start
\* meanwhile.
THEOREM ExitsAlone == Spec => []ExitAlone
<1>1. CurrentIsHolder /\ LifeInv => ExitAlone
  <2> SUFFICES ASSUME CurrentIsHolder, LifeInv, pc[Main] = "exit",
                      NEW t \in Threads \ {Main}
               PROVE  pc[t] \in {"unborn", "dead"}
    BY DEF ExitAlone
  <2>1. t \notin living
    BY DEF LifeInv, MainOK
  <2>2. pc[t] \in {"unborn", "dead", "hang"}
    BY <2>1 DEF LifeInv, Life
  <2>3. gvl = Main
    BY DEF CurrentIsHolder, VMSide
  <2>4. pc[t] \notin VMSide
    BY <2>3 DEF CurrentIsHolder
  <2> QED BY <2>2, <2>4 DEF VMSide
<1> QED BY <1>1, LifeInvariant, PTL

-----------------------------------------------------------------------------
\* Whoever writes the status of a thread finds it alive there.
LEMMA DeadStays ==
    ASSUME TypeOK, CurrentIsHolder, LifeInv, ~AbortOnException, [Next]_vars,
           NEW s \in Threads, status[s] = "killed"
    PROVE  status'[s] = "killed"
<1>0. /\ Life(s)
      /\ pc[s] \in {"finwake", "dead", "hang"}
      /\ pc[s] = "finwake" \/ s \notin living
  BY DEF LifeInv, Life, StatusOf
<1>1. CASE UNCHANGED status
  BY <1>1
<1>2. ASSUME NEW t \in Threads, \E v : status' = [status EXCEPT ![t] = v],
             pc[t] \notin {"finwake", "dead", "hang"}
      PROVE  status'[s] = "killed"
  BY <1>0, <1>2 DEF TypeOK
<1>3. ASSUME NEW t \in Threads, status' = [status EXCEPT ![t] = "killed"]
      PROVE  status'[s] = "killed"
  BY <1>3 DEF TypeOK
<1>4. ASSUME NEW t \in Threads, UserStep(t) PROVE status'[s] = "killed"
  <2>1. ASSUME NEW u \in Threads, thread_create_core(t, u) PROVE status'[s] = "killed"
    BY <1>1, <1>3, <2>1 DEF thread_create_core
  <2>2. ASSUME NEW u \in Threads, rb_thread_kill(t, u) PROVE status'[s] = "killed"
    <3>1. CASE UNCHANGED status
      BY <1>1, <3>1
    <3>2. CASE Killable(u) /\ status' = [status EXCEPT ![u] = "to_kill"]
      BY <3>2 DEF Killable, TypeOK
    <3> QED BY <2>2, <3>1, <3>2 DEF rb_thread_kill
  <2>3. ASSUME NEW l, Sleep(t, l) PROVE status'[s] = "killed"
    BY <1>2, <2>3 DEF Sleep, native_sleep
  <2>4. CASE rb_thread_stop(t)
    BY <1>1, <2>3, <2>4 DEF rb_thread_stop
  <2>5. CASE Rescue(t) \/ UserRaise(t) \/ thread_s_pass(t)
    BY <1>1, <2>5 DEF Rescue, UserRaise, thread_s_pass
  <2>6. ASSUME NEW u \in Threads, rb_thread_wakeup(t, u) \/ rb_thread_run(t, u)
        PROVE  status'[s] = "killed"
    BY <1>1, <2>6 DEF rb_thread_wakeup, rb_thread_run
  <2>7. ASSUME NEW u \in Threads, NEW l, thread_join(t, u, l) PROVE status'[s] = "killed"
    BY <1>1, <2>7 DEF thread_join
  <2>8. ASSUME NEW u \in Threads, thread_raise_m(t, u) PROVE status'[s] = "killed"
    BY <1>1, <2>8 DEF thread_raise_m
  <2> QED BY <1>4, <2>1, <2>2, <2>3, <2>4, <2>5, <2>6, <2>7, <2>8 DEF UserStep
<1>5. ASSUME NEW t \in Threads, GetsLock(t) \/ SleepStep(t) \/ SleepSpurious(t)
      PROVE  status'[s] = "killed"
  <2>1. CASE SleepRestore(t)
    BY <1>2, <2>1 DEF SleepRestore, RestoreStatus
  <2>2. CASE ~SleepRestore(t)
    BY <1>1, <1>5, <2>2 DEF GetsLock, Start, Yielded, SleepLeave, RegainLock,
       SleepStep, SleepEnter, EnterWait, SleepTimeout, SleepSpurious, EndWait
  <2> QED BY <2>1, <2>2
<1>6. ASSUME NEW t \in Threads, RunsUnderLock(t) \/ Finish(t)
      PROVE  status'[s] = "killed"
  <2>1. CASE JoinSleep(t)
    BY <1>2, <2>1 DEF JoinSleep, native_sleep
  <2>2. CASE IntsThrow(t)
    BY <1>2, <2>2 DEF IntsThrow, Throw
  <2>3. CASE FinishWake(t) \/ Finish(t)
    BY <1>1, <1>3, <2>3 DEF FinishWake, Finish
  <2>4. CASE CheckInts(t) \/ JoinDone(t) \/ JoinTimeout(t) \/ rb_thread_raise(t)
    BY <1>1, <2>4 DEF CheckInts, JoinDone, JoinTimeout, rb_thread_raise
  <2>5. CASE IntsReturn(t) \/ IntsPass(t) \/ FinishRaise(t)
    BY <1>1, <2>5 DEF IntsReturn, IntsPass, FinishRaise
  <2> QED BY <1>6, <2>1, <2>2, <2>3, <2>4, <2>5 DEF RunsUnderLock
<1>7. CASE MainStep
  <2>1. CASE SignalTaken
    BY <1>2, <2>1 DEF SignalTaken
  <2>2. CASE ~SignalTaken
    BY <1>1, <1>7, <2>2 DEF MainStep, signal_exec, rb_interrupt, rb_thread_signal_raise,
       TerminateWait, TerminateDone
  <2> QED BY <2>1, <2>2
<1>8. CASE TrapReturn
  <2>1. pc[Main] = "user" /\ \E v : status' = [status EXCEPT ![Main] = v]
    BY <1>8 DEF TrapReturn, Throw
  <2> QED BY <1>2, <2>1
<1>9. CASE rb_thread_terminate_all
  <2>1. pc[Main] = "user" /\ gvl = Main
    BY <1>9 DEF rb_thread_terminate_all, Holds
  <2>2. s \notin living
    BY <1>0, <2>1 DEF CurrentIsHolder, VMSide
  <2> QED BY <1>9, <2>2 DEF rb_thread_terminate_all
<1>10. CASE TrapUnwind \/ TimerTick \/ TimerSignal \/ sighandler \/ UNCHANGED vars
  BY <1>1, <1>10 DEF TrapUnwind, TimerTick, TimerSignal, sighandler, vars, coreVars
<1> QED
  BY <1>4, <1>5, <1>6, <1>7, <1>8, <1>9, <1>10 DEF Next, Exited

\* Thread#alive? does not turn true again, unless abort_on_exception is set: a
\* thread that then waits in rb_thread_raise to throw its exception at the main
\* thread has the status of a dead thread and takes what is thrown at itself.
THEOREM DeathIsFinal == ~AbortOnException => (Spec => DeadIsForever)
<1> SUFFICES ASSUME ~AbortOnException PROVE Spec => DeadIsForever
  OBVIOUS
<1>1. TypeOK /\ CurrentIsHolder /\ LifeInv /\ [Next]_vars =>
        [\A t \in Threads : status[t] = "killed" => status'[t] = "killed"]_vars
  BY DeadStays
<1> QED BY <1>1, LifeInvariant, PTL DEF DeadIsForever, Spec
=============================================================================
