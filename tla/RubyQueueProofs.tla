-------------------------- MODULE RubyQueueProofs ---------------------------
(***************************************************************************)
(* Theorems about Queue and SizedQueue, for any sets of threads and        *)
(* objects, any sizes, and any choice of the calls that are made.          *)
(***************************************************************************)
EXTENDS RubyQueue, SequenceTheorems, TLAPS

USE QueueAssumption

-----------------------------------------------------------------------------
(* The inductive invariant.                                                 *)

\* Whoever is inside the block of synchronize has the mutex.
Excluded == \A t \in Threads : pc[t] \in Inside => mutex = t

\* What a call keeps in arg: an object, a new size, a number of wakeups.
ArgOK ==
    \A t \in Threads :
        /\ pc[t] \in InPush => arg[t] \in Items
        /\ pc[t] \in {"max_lock", "max_set"} => arg[t] \in Maxes
        /\ pc[t] = "max_shift" => arg[t] \in Nat
        /\ pc[t] = "max_wake" => arg[t] \in Nat \ {0}

\* What a thread has found out about the queue stays true until it acts on it:
\* there is room for what it pushes, and something for it to shift, unless
\* there was a clear.  A call begins with nothing left over from the last one.
FoundOK ==
    \A t \in Threads :
        /\ pc[t] = "push_do" /\ Sized => Len(que) <= max
        /\ pc[t] = "pop_shift" => que # <<>> \/ t \in cleared
        /\ pc[t] = "idle" => t \notin cleared

\* Who may be where.
RolesOK ==
    \A t \in Threads :
        /\ pc[t] \in InPush \cup {"push_shift", "push_wake"} => t \in Pushers
        /\ pc[t] \in InPop \cup {"room_lock", "room_test", "room_shift", "room_wake"}
             => t \in Poppers
        /\ pc[t] \in {"max_lock", "max_set", "max_shift", "max_wake"} => Maxes # {}

QueueInv == TypeOK /\ Excluded /\ ArgOK /\ FoundOK /\ RolesOK

\* x is in the list s.
Listed(x, s) == \E i \in DOMAIN s : s[i] = x

\* The program counters that a wakeup leads from and to.
WokenPC(p) ==
    IF p = "push_sleep" THEN "push_relock"
    ELSE IF p = "pop_sleep" THEN "pop_relock" ELSE p

\* Thread#wakeup moves one thread, and only from its sleep to the mutex.
LEMMA WokenMoves ==
    ASSUME NEW q \in [Threads -> PCs], NEW u
    PROVE  /\ Woken(u, q) \in [Threads -> PCs]
           /\ \A s \in Threads :
                Woken(u, q)[s] = IF s = u THEN WokenPC(q[s]) ELSE q[s]
  BY DEF Woken, WokenPC, PCs, Inside, Asleep

-----------------------------------------------------------------------------
LEMMA InitInv == Init => QueueInv
  BY EmptySeq DEF Init, QueueInv, TypeOK, Excluded, ArgOK, FoundOK, RolesOK,
     PCs, Inside, Asleep, InPush, InPop

\* Thread t goes on to p and wakes u, if u is another thread that sleeps.
WakesFrom(t, p, u) ==
    /\ pc' \in [Threads -> PCs]
    /\ pc'[t] = p
    /\ \A s \in Threads \ {t} : pc'[s] = IF s = u THEN WokenPC(pc[s]) ELSE pc[s]

LEMMA Wakes ==
    ASSUME TypeOK, NEW t \in Threads, NEW p \in PCs \ Asleep, NEW u,
           pc' = Woken(u, [pc EXCEPT ![t] = p])
    PROVE  WakesFrom(t, p, u)
<1> DEFINE q == [pc EXCEPT ![t] = p]
<1>1. q \in [Threads -> PCs] /\ q[t] = p /\ \A s \in Threads \ {t} : q[s] = pc[s]
  BY DEF TypeOK
<1>2. WokenPC(p) = p
  BY DEF WokenPC, Asleep
<1>3. /\ Woken(u, q) \in [Threads -> PCs]
      /\ \A s \in Threads :
            Woken(u, q)[s] = IF s = u THEN WokenPC(q[s]) ELSE q[s]
  BY <1>1, WokenMoves
<1> QED
  BY <1>1, <1>2, <1>3 DEF WakesFrom

\* t.wakeup: a dead thread makes the caller take the next one off the list.
LEMMA WakeMoves ==
    ASSUME TypeOK, NEW t \in Threads, Wake(t)
    PROVE  /\ \/ /\ pc[tee[t]] = "dead" /\ mutex' = mutex
                 /\ \/ pc[t] = "push_wake" /\ pc' = [pc EXCEPT ![t] = "push_shift"]
                    \/ pc[t] = "room_wake" /\ pc' = [pc EXCEPT ![t] = "room_shift"]
              \/ /\ pc[tee[t]] # "dead" /\ mutex' = None
                 /\ \/ pc[t] = "push_wake" /\ WakesFrom(t, "push_run", tee[t])
                    \/ pc[t] = "room_wake" /\ WakesFrom(t, "pop_run", tee[t])
           /\ UNCHANGED <<que, waiting, queue_wait, max, arg, non_block, tee, cleared>>
<1>1. "push_run" \in PCs \ Asleep /\ "pop_run" \in PCs \ Asleep
  BY DEF PCs, Asleep
<1> QED
  BY <1>1, Wakes DEF Wake, Moves, Goto, lists, locals

\* t.run, which ends the call.
LEMMA RunMoves ==
    ASSUME TypeOK, NEW t \in Threads, Run(t)
    PROVE  /\ pc[t] \in {"push_run", "pop_run"} /\ WakesFrom(t, "done", tee[t])
           /\ UNCHANGED <<que, waiting, queue_wait, max, mutex, arg, non_block, tee, cleared>>
<1>1. "done" \in PCs \ Asleep
  BY DEF PCs, Asleep
<1> QED
  BY <1>1, Wakes DEF Run, lists, locals

\* The t.run of max=, and its retry.
LEMMA MaxWakeMoves ==
    ASSUME TypeOK, NEW t \in Threads, MaxWake(t)
    PROVE  /\ pc[t] = "max_wake"
           /\ \/ /\ pc[tee[t]] = "dead" /\ arg' = arg
                 /\ pc' = [pc EXCEPT ![t] = "max_shift"]
              \/ /\ pc[tee[t]] # "dead"
                 /\ WakesFrom(t, "max_shift", tee[t])
                 /\ arg' = [arg EXCEPT ![t] = @ - 1]
           /\ UNCHANGED <<que, waiting, queue_wait, max, mutex, non_block, tee, cleared>>
<1>1. "max_shift" \in PCs \ Asleep
  BY DEF PCs, Asleep
<1> QED
  BY <1>1, Wakes DEF MaxWake, Goto, lists

\* Whom t.wakeup leaves where it is.
LEMMA WakeOthers ==
    ASSUME TypeOK, NEW t \in Threads, Wake(t)
    PROVE  /\ pc'[t] \in {"push_shift", "push_run", "room_shift", "pop_run"}
           /\ \A s \in Threads \ {t} :
                \/ pc'[s] = pc[s]
                \/ pc[s] \in Asleep /\ pc'[s] = WokenPC(pc[s])
<1>1. CASE pc[tee[t]] = "dead"
  BY <1>1, WakeMoves DEF TypeOK
<1>2. CASE pc[tee[t]] # "dead"
  BY <1>2, WakeMoves DEF WakesFrom, WokenPC, Asleep
<1> QED
  BY <1>1, <1>2

LEMMA MaxWakeOthers ==
    ASSUME TypeOK, NEW t \in Threads, MaxWake(t)
    PROVE  /\ pc'[t] = "max_shift"
           /\ \A s \in Threads \ {t} :
                \/ pc'[s] = pc[s]
                \/ pc[s] \in Asleep /\ pc'[s] = WokenPC(pc[s])
<1>1. CASE pc[tee[t]] = "dead"
  BY <1>1, MaxWakeMoves DEF TypeOK
<1>2. CASE pc[tee[t]] # "dead"
  BY <1>2, MaxWakeMoves DEF WakesFrom, WokenPC, Asleep
<1> QED
  BY <1>1, <1>2

LEMMA WakeupMoves ==
    ASSUME TypeOK, NEW t \in Threads, wakeup(t)
    PROVE  /\ pc' \in [Threads -> PCs]
           /\ pc[t] \in Asleep
           /\ \A s \in Threads : pc'[s] = IF s = t THEN WokenPC(pc[s]) ELSE pc[s]
           /\ UNCHANGED <<que, waiting, queue_wait, max, mutex, arg, non_block, tee, cleared>>
  BY WokenMoves DEF TypeOK, wakeup, lists, locals

\* What max= does when it has the mutex.
LEMMA MaxSetMoves ==
    ASSUME TypeOK, ArgOK, NEW t \in Threads, MaxSet(t)
    PROVE  /\ pc[t] = "max_set" /\ mutex' = None
           /\ arg[t] \in Maxes /\ arg[t] \in Nat /\ max' = arg[t]
           /\ \/ pc' = [pc EXCEPT ![t] = "done"] /\ arg' = arg
              \/ /\ pc' = [pc EXCEPT ![t] = "max_shift"]
                 /\ \E n \in Nat : arg' = [arg EXCEPT ![t] = n]
           /\ UNCHANGED <<que, waiting, queue_wait, non_block, tee, cleared>>
<1>1. arg[t] \in Maxes /\ arg[t] \in Nat /\ max \in Nat
  BY DEF MaxSet, ArgOK, TypeOK
<1>2. ~(arg[t] <= max) => arg[t] - max \in Nat
  BY <1>1
<1> QED
  BY <1>1, <1>2 DEF MaxSet, Leaves, Goto, lists

\* One turn of the loop that wakes the producers.
LEMMA MaxShiftMoves ==
    ASSUME TypeOK, ArgOK, NEW t \in Threads, MaxShift(t)
    PROVE  /\ pc[t] = "max_shift"
           /\ \/ pc' = [pc EXCEPT ![t] = "done"] /\ UNCHANGED <<queue_wait, arg, tee>>
              \/ /\ pc' = pc /\ UNCHANGED <<queue_wait, tee>>
                 /\ \E n \in Nat : arg' = [arg EXCEPT ![t] = n]
              \/ /\ pc' = [pc EXCEPT ![t] = "max_wake"] /\ UNCHANGED arg
                 /\ arg[t] \in Nat \ {0}
                 /\ queue_wait # <<>> /\ queue_wait' = Tail(queue_wait)
                 /\ tee' = [tee EXCEPT ![t] = Head(queue_wait)]
                 /\ tee'[t] \in Threads /\ queue_wait' \in Seq(Threads)
           /\ UNCHANGED <<que, waiting, max, mutex, non_block, cleared>>
<1>1. arg[t] \in Nat
  BY DEF MaxShift, ArgOK
<1>2. arg[t] > 0 => arg[t] - 1 \in Nat /\ arg[t] \in Nat \ {0}
  BY <1>1
<1>3. queue_wait # <<>> => Head(queue_wait) \in Threads /\ Tail(queue_wait) \in Seq(Threads)
  BY HeadTailProperties DEF TypeOK
<1> QED
  BY <1>1, <1>2, <1>3 DEF MaxShift, Goto, TypeOK

-----------------------------------------------------------------------------
(* Each part of the invariant is kept by every step.                        *)

\* Every variable keeps its type.
LEMMA TypeStep ==
    ASSUME TypeOK, ArgOK, [Next]_vars
    PROVE  TypeOK'
<1>1. ASSUME NEW t \in Threads, Lock(t)
      PROVE  TypeOK'
  BY <1>1 DEF Lock, Moves, Goto, TypeOK, ArgOK, lists, locals, InPush, PCs,
     Inside, Asleep
<1>2. ASSUME NEW t \in Threads, Relock(t)
      PROVE  TypeOK'
  BY <1>2 DEF Relock, Moves, Goto, TypeOK, ArgOK, lists, locals, InPush, PCs,
     Inside, Asleep
<1>3. ASSUME NEW t \in Threads, Sleep(t)
      PROVE  TypeOK'
  BY <1>3 DEF Sleep, Leaves, Goto, TypeOK, ArgOK, lists, locals, InPush, PCs,
     Inside, Asleep
<1>4. ASSUME NEW t \in Threads, Unwind(t)
      PROVE  TypeOK'
  BY <1>4 DEF Unwind, Moves, Goto, Forgets, TypeOK, ArgOK, lists, locals,
     InPush, PCs, Inside, Asleep
<1>5. ASSUME NEW t \in Threads, PushTest(t)
      PROVE  TypeOK'
  <2>1. queue_wait' \in Seq(Threads)
    <3>1. Append(queue_wait, t) \in Seq(Threads)
      BY AppendProperties DEF TypeOK
    <3> QED
      BY <1>5, <3>1 DEF PushTest, TypeOK
  <2> QED
    BY <1>5, <2>1 DEF PushTest, Goto, TypeOK, locals, PCs, Inside, Asleep
<1>6. ASSUME NEW t \in Threads, PushDo(t)
      PROVE  TypeOK'
  <2>1. que' \in Seq(Items)
    BY <1>6, AppendProperties DEF PushDo, Moves, TypeOK, ArgOK, InPush
  <2> QED
    BY <1>6, <2>1 DEF PushDo, Moves, Goto, TypeOK, lists, locals, PCs, Inside
<1>7. ASSUME NEW t \in Threads, PushShift(t)
      PROVE  TypeOK'
  <2>1. waiting # <<>> => Head(waiting) \in Threads /\ Tail(waiting) \in Seq(Threads)
    BY HeadTailProperties DEF TypeOK
  <2> QED
    BY <1>7, <2>1 DEF PushShift, Leaves, Goto, TypeOK, PCs, Inside
<1>8. ASSUME NEW t \in Threads, Wake(t)
      PROVE  TypeOK'
  <2>1. "push_shift" \in PCs /\ "room_shift" \in PCs
    BY DEF PCs, Inside
  <2>11. pc' \in [Threads -> PCs]
    BY <1>8, <2>1, WakeMoves DEF WakesFrom, TypeOK
  <2>12. arg' \in [Threads -> Items \cup Nat \cup {None}]
    BY <1>8, WakeMoves DEF TypeOK
  <2>13. /\ que' \in Seq(Items) /\ max' \in Nat
        /\ waiting' \in Seq(Threads) /\ queue_wait' \in Seq(Threads)
    BY <1>8, WakeMoves DEF TypeOK
  <2>14. /\ mutex' \in Threads \cup {None}
        /\ non_block' \subseteq Threads /\ cleared' \subseteq Threads
        /\ tee' \in [Threads -> Threads \cup {None}]
    BY <1>8, WakeMoves DEF TypeOK
  <2> QED
    BY <2>11, <2>12, <2>13, <2>14 DEF TypeOK
<1>9. ASSUME NEW t \in Threads, Run(t)
      PROVE  TypeOK'
  BY <1>9, RunMoves DEF WakesFrom, WokenPC, TypeOK, ArgOK, lists, locals, InPush,
     PCs, Inside, Asleep
<1>10. ASSUME NEW t \in Threads, PopTest(t)
      PROVE  TypeOK'
  <2>1. Append(waiting, t) \in Seq(Threads)
    BY AppendProperties DEF TypeOK
  <2>11. pc' \in [Threads -> PCs]
    BY <1>10 DEF PopTest, Leaves, Goto, TypeOK, PCs, Inside, Asleep
  <2>12. arg' \in [Threads -> Items \cup Nat \cup {None}]
    BY <1>10 DEF PopTest, TypeOK, locals
  <2>13. /\ que' \in Seq(Items) /\ max' \in Nat
        /\ waiting' \in Seq(Threads) /\ queue_wait' \in Seq(Threads)
    BY <1>10, <2>1 DEF PopTest, Leaves, TypeOK, locals
  <2>14. /\ mutex' \in Threads \cup {None}
        /\ non_block' \subseteq Threads /\ cleared' \subseteq Threads
        /\ tee' \in [Threads -> Threads \cup {None}]
    BY <1>10, <2>1 DEF PopTest, Leaves, TypeOK, locals
  <2> QED
    BY <2>11, <2>12, <2>13, <2>14 DEF TypeOK
<1>11. ASSUME NEW t \in Threads, PopShift(t)
      PROVE  TypeOK'
  <2>1. que # <<>> => Head(que) \in Items /\ Tail(que) \in Seq(Items)
    BY HeadTailProperties DEF TypeOK
  <2>11. pc' \in [Threads -> PCs]
    BY <1>11 DEF PopShift, Leaves, Goto, TypeOK, PCs, Inside, Asleep
  <2>12. arg' \in [Threads -> Items \cup Nat \cup {None}]
    BY <1>11, <2>1 DEF PopShift, TypeOK
  <2>13. /\ que' \in Seq(Items) /\ max' \in Nat
        /\ waiting' \in Seq(Threads) /\ queue_wait' \in Seq(Threads)
    BY <1>11, <2>1 DEF PopShift, Leaves, TypeOK, lists
  <2>14. /\ mutex' \in Threads \cup {None}
        /\ non_block' \subseteq Threads /\ cleared' \subseteq Threads
        /\ tee' \in [Threads -> Threads \cup {None}]
    BY <1>11, <2>1 DEF PopShift, Leaves, TypeOK, lists
  <2> QED
    BY <2>11, <2>12, <2>13, <2>14 DEF TypeOK
<1>12. ASSUME NEW t \in Threads, Return(t)
      PROVE  TypeOK'
  BY <1>12 DEF Return, Goto, Forgets, TypeOK, ArgOK, lists, locals, InPush,
     PCs, Inside, Asleep
<1>13. ASSUME NEW t \in Threads, RoomTest(t)
      PROVE  TypeOK'
  BY <1>13 DEF RoomTest, Leaves, Goto, TypeOK, ArgOK, lists, locals, InPush,
     PCs, Inside, Asleep
<1>14. ASSUME NEW t \in Threads, RoomShift(t)
      PROVE  TypeOK'
  <2>1. queue_wait # <<>> => Head(queue_wait) \in Threads /\ Tail(queue_wait) \in Seq(Threads)
    BY HeadTailProperties DEF TypeOK
  <2> QED
    BY <1>14, <2>1 DEF RoomShift, Leaves, Goto, TypeOK, PCs, Inside
<1>15. ASSUME NEW t \in Threads, MaxSet(t)
      PROVE  TypeOK'
  <2>1. "done" \in PCs /\ "max_shift" \in PCs
    BY DEF PCs
  <2>2. pc \in [Threads -> PCs]
    BY DEF TypeOK
  <2>11. pc' \in [Threads -> PCs]
    BY <1>15, <2>1, <2>2, MaxSetMoves
  <2>12. arg' \in [Threads -> Items \cup Nat \cup {None}]
    BY <1>15, MaxSetMoves DEF TypeOK
  <2>13. /\ que' \in Seq(Items) /\ max' \in Nat
        /\ waiting' \in Seq(Threads) /\ queue_wait' \in Seq(Threads)
    BY <1>15, MaxSetMoves DEF TypeOK
  <2>14. /\ mutex' \in Threads \cup {None}
        /\ non_block' \subseteq Threads /\ cleared' \subseteq Threads
        /\ tee' \in [Threads -> Threads \cup {None}]
    BY <1>15, MaxSetMoves DEF TypeOK
  <2> QED
    BY <2>11, <2>12, <2>13, <2>14 DEF TypeOK
<1>16. ASSUME NEW t \in Threads, MaxShift(t)
      PROVE  TypeOK'
  <2>1. arg' = arg \/ \E n \in Nat : arg' = [arg EXCEPT ![t] = n]
    BY <1>16, MaxShiftMoves
  <2>11. pc' \in [Threads -> PCs]
    BY <1>16, MaxShiftMoves DEF TypeOK, PCs, Inside, Asleep
  <2>12. arg' \in [Threads -> Items \cup Nat \cup {None}]
    BY <1>16, <2>1, MaxShiftMoves DEF TypeOK
  <2>13. /\ que' \in Seq(Items) /\ max' \in Nat
        /\ waiting' \in Seq(Threads) /\ queue_wait' \in Seq(Threads)
    BY <1>16, MaxShiftMoves DEF TypeOK
  <2>14. /\ mutex' \in Threads \cup {None}
        /\ non_block' \subseteq Threads /\ cleared' \subseteq Threads
        /\ tee' \in [Threads -> Threads \cup {None}]
    BY <1>16, MaxShiftMoves DEF TypeOK
  <2> QED
    BY <2>11, <2>12, <2>13, <2>14 DEF TypeOK
<1>17. ASSUME NEW t \in Threads, MaxWake(t)
      PROVE  TypeOK'
  <2>1. arg[t] - 1 \in Nat
    <3>1. arg[t] \in Nat \ {0}
      BY <1>17, MaxWakeMoves DEF ArgOK
    <3> QED
      BY <3>1
  <2>11. pc' \in [Threads -> PCs]
    BY <1>17, MaxWakeMoves DEF WakesFrom, TypeOK, PCs, Inside, Asleep
  <2>12. arg' \in [Threads -> Items \cup Nat \cup {None}]
    BY <1>17, <2>1, MaxWakeMoves DEF TypeOK
  <2>13. /\ que' \in Seq(Items) /\ max' \in Nat
        /\ waiting' \in Seq(Threads) /\ queue_wait' \in Seq(Threads)
    BY <1>17, MaxWakeMoves DEF TypeOK
  <2>14. /\ mutex' \in Threads \cup {None}
        /\ non_block' \subseteq Threads /\ cleared' \subseteq Threads
        /\ tee' \in [Threads -> Threads \cup {None}]
    BY <1>17, MaxWakeMoves DEF TypeOK
  <2> QED
    BY <2>11, <2>12, <2>13, <2>14 DEF TypeOK
<1>18. ASSUME NEW t \in Pushers, NEW v \in Items, push(t, v)
      PROVE  TypeOK'
  BY <1>18 DEF push, Moves, Goto, TypeOK, ArgOK, lists, locals, InPush, PCs,
     Inside, Asleep
<1>19. ASSUME NEW t \in Poppers, NEW nb \in BOOLEAN, pop(t, nb)
      PROVE  TypeOK'
  BY <1>19 DEF pop, Moves, Goto, TypeOK, ArgOK, lists, locals, InPush, PCs,
     Inside, Asleep
<1>20. ASSUME NEW t \in Threads, NEW n \in Maxes, Sized, set_max(t, n)
      PROVE  TypeOK'
  BY <1>20 DEF set_max, Moves, Goto, TypeOK, ArgOK, lists, locals, InPush,
     PCs, Inside, Asleep
<1>21. CASE clear
  BY <1>21, EmptySeq DEF clear, TypeOK, lists
<1>22. ASSUME NEW t \in Threads, wakeup(t)
      PROVE  TypeOK'
  BY <1>22, WakeupMoves DEF WokenPC, TypeOK, ArgOK, lists, locals, InPush, PCs,
     Inside, Asleep
<1>23. ASSUME NEW t \in Killable, kill(t)
      PROVE  TypeOK'
  BY <1>23 DEF kill, Goto, TypeOK, ArgOK, lists, locals, InPush, PCs, Inside,
     Asleep
<1>24. CASE UNCHANGED vars
  BY <1>24 DEF vars, lists, locals, TypeOK, ArgOK, lists, locals, InPush, PCs,
     Inside, Asleep
<1> QED
  BY <1>1, <1>2, <1>3, <1>4, <1>5, <1>6, <1>7, <1>8, <1>9, <1>10, <1>11,
     <1>12, <1>13, <1>14, <1>15, <1>16, <1>17, <1>18, <1>19, <1>20, <1>21,
     <1>22, <1>23, <1>24 DEF Next, Step

\* The mutex keeps two threads from being inside.
LEMMA ExcludedStep ==
    ASSUME TypeOK, ArgOK, Excluded, [Next]_vars
    PROVE  Excluded'
<1>1. ASSUME NEW t \in Threads, Lock(t)
      PROVE  Excluded'
  BY <1>1 DEF Lock, Moves, Goto, TypeOK, Excluded, lists, locals, PCs, Inside,
     Asleep
<1>2. ASSUME NEW t \in Threads, Relock(t)
      PROVE  Excluded'
  BY <1>2 DEF Relock, Moves, Goto, TypeOK, Excluded, lists, locals, PCs,
     Inside, Asleep
<1>3. ASSUME NEW t \in Threads, Sleep(t)
      PROVE  Excluded'
  BY <1>3 DEF Sleep, Leaves, Goto, TypeOK, Excluded, lists, locals, PCs,
     Inside, Asleep
<1>4. ASSUME NEW t \in Threads, Unwind(t)
      PROVE  Excluded'
  BY <1>4 DEF Unwind, Moves, Goto, Forgets, TypeOK, Excluded, lists, locals,
     PCs, Inside, Asleep
<1>5. ASSUME NEW t \in Threads, PushTest(t)
      PROVE  Excluded'
  BY <1>5 DEF PushTest, Goto, TypeOK, Excluded, lists, locals, PCs, Inside,
     Asleep
<1>6. ASSUME NEW t \in Threads, PushDo(t)
      PROVE  Excluded'
  BY <1>6 DEF PushDo, Moves, Goto, TypeOK, Excluded, lists, locals, PCs,
     Inside, Asleep
<1>7. ASSUME NEW t \in Threads, PushShift(t)
      PROVE  Excluded'
  BY <1>7 DEF PushShift, Leaves, Goto, TypeOK, Excluded, lists, locals, PCs,
     Inside, Asleep
<1>8. ASSUME NEW t \in Threads, Wake(t)
      PROVE  Excluded'
  BY <1>8, WakeMoves DEF WakesFrom, WokenPC, TypeOK, Excluded, lists, locals,
     PCs, Inside, Asleep
<1>9. ASSUME NEW t \in Threads, Run(t)
      PROVE  Excluded'
  BY <1>9, RunMoves DEF WakesFrom, WokenPC, TypeOK, Excluded, lists, locals, PCs,
     Inside, Asleep
<1>10. ASSUME NEW t \in Threads, PopTest(t)
      PROVE  Excluded'
  BY <1>10 DEF PopTest, Leaves, Goto, TypeOK, Excluded, lists, locals, PCs,
     Inside, Asleep
<1>11. ASSUME NEW t \in Threads, PopShift(t)
      PROVE  Excluded'
  BY <1>11 DEF PopShift, Leaves, Goto, TypeOK, Excluded, lists, locals, PCs,
     Inside, Asleep
<1>12. ASSUME NEW t \in Threads, Return(t)
      PROVE  Excluded'
  BY <1>12 DEF Return, Goto, Forgets, TypeOK, Excluded, lists, locals, PCs,
     Inside, Asleep
<1>13. ASSUME NEW t \in Threads, RoomTest(t)
      PROVE  Excluded'
  BY <1>13 DEF RoomTest, Leaves, Goto, TypeOK, Excluded, lists, locals, PCs,
     Inside, Asleep
<1>14. ASSUME NEW t \in Threads, RoomShift(t)
      PROVE  Excluded'
  BY <1>14 DEF RoomShift, Leaves, Goto, TypeOK, Excluded, lists, locals, PCs,
     Inside, Asleep
<1>15. ASSUME NEW t \in Threads, MaxSet(t)
      PROVE  Excluded'
  BY <1>15, MaxSetMoves DEF TypeOK, Excluded, lists, locals, PCs, Inside, Asleep
<1>16. ASSUME NEW t \in Threads, MaxShift(t)
      PROVE  Excluded'
  BY <1>16, MaxShiftMoves DEF TypeOK, Excluded, lists, locals, PCs, Inside, Asleep
<1>17. ASSUME NEW t \in Threads, MaxWake(t)
      PROVE  Excluded'
  BY <1>17, MaxWakeMoves DEF WakesFrom, WokenPC, TypeOK, Excluded, lists, locals,
     PCs, Inside, Asleep
<1>18. ASSUME NEW t \in Pushers, NEW v \in Items, push(t, v)
      PROVE  Excluded'
  BY <1>18 DEF push, Moves, Goto, TypeOK, Excluded, lists, locals, PCs,
     Inside, Asleep
<1>19. ASSUME NEW t \in Poppers, NEW nb \in BOOLEAN, pop(t, nb)
      PROVE  Excluded'
  BY <1>19 DEF pop, Moves, Goto, TypeOK, Excluded, lists, locals, PCs, Inside,
     Asleep
<1>20. ASSUME NEW t \in Threads, NEW n \in Maxes, Sized, set_max(t, n)
      PROVE  Excluded'
  BY <1>20 DEF set_max, Moves, Goto, TypeOK, Excluded, lists, locals, PCs,
     Inside, Asleep
<1>21. CASE clear
  BY <1>21 DEF clear, TypeOK, Excluded, lists, locals, PCs, Inside, Asleep
<1>22. ASSUME NEW t \in Threads, wakeup(t)
      PROVE  Excluded'
  BY <1>22, WakeupMoves DEF WokenPC, TypeOK, Excluded, lists, locals, PCs, Inside,
     Asleep
<1>23. ASSUME NEW t \in Killable, kill(t)
      PROVE  Excluded'
  BY <1>23 DEF kill, Goto, TypeOK, Excluded, lists, locals, PCs, Inside,
     Asleep
<1>24. CASE UNCHANGED vars
  BY <1>24 DEF vars, lists, locals, TypeOK, Excluded, lists, locals, PCs,
     Inside, Asleep
<1> QED
  BY <1>1, <1>2, <1>3, <1>4, <1>5, <1>6, <1>7, <1>8, <1>9, <1>10, <1>11,
     <1>12, <1>13, <1>14, <1>15, <1>16, <1>17, <1>18, <1>19, <1>20, <1>21,
     <1>22, <1>23, <1>24 DEF Next, Step

\* Calls keep their arguments.
LEMMA ArgStep ==
    ASSUME TypeOK, ArgOK, [Next]_vars
    PROVE  ArgOK'
<1>1. ASSUME NEW t \in Threads, Lock(t)
      PROVE  ArgOK'
  BY <1>1 DEF Lock, Moves, Goto, TypeOK, ArgOK, lists, locals, InPush, PCs,
     Inside, Asleep
<1>2. ASSUME NEW t \in Threads, Relock(t)
      PROVE  ArgOK'
  BY <1>2 DEF Relock, Moves, Goto, TypeOK, ArgOK, lists, locals, InPush, PCs,
     Inside, Asleep
<1>3. ASSUME NEW t \in Threads, Sleep(t)
      PROVE  ArgOK'
  BY <1>3 DEF Sleep, Leaves, Goto, TypeOK, ArgOK, lists, locals, InPush, PCs,
     Inside, Asleep
<1>4. ASSUME NEW t \in Threads, Unwind(t)
      PROVE  ArgOK'
  BY <1>4 DEF Unwind, Moves, Goto, Forgets, TypeOK, ArgOK, lists, locals,
     InPush, PCs, Inside, Asleep
<1>5. ASSUME NEW t \in Threads, PushTest(t)
      PROVE  ArgOK'
  BY <1>5 DEF PushTest, Goto, TypeOK, ArgOK, lists, locals, InPush, PCs,
     Inside, Asleep
<1>6. ASSUME NEW t \in Threads, PushDo(t)
      PROVE  ArgOK'
  BY <1>6 DEF PushDo, Moves, Goto, TypeOK, ArgOK, lists, locals, InPush, PCs,
     Inside, Asleep
<1>7. ASSUME NEW t \in Threads, PushShift(t)
      PROVE  ArgOK'
  BY <1>7 DEF PushShift, Leaves, Goto, TypeOK, ArgOK, lists, locals, InPush,
     PCs, Inside, Asleep
<1>8. ASSUME NEW t \in Threads, Wake(t)
      PROVE  ArgOK'
  BY <1>8, WakeMoves DEF WakesFrom, WokenPC, TypeOK, ArgOK, lists, locals,
     InPush, PCs, Inside, Asleep
<1>9. ASSUME NEW t \in Threads, Run(t)
      PROVE  ArgOK'
  BY <1>9, RunMoves DEF WakesFrom, WokenPC, TypeOK, ArgOK, lists, locals, InPush,
     PCs, Inside, Asleep
<1>10. ASSUME NEW t \in Threads, PopTest(t)
      PROVE  ArgOK'
  BY <1>10 DEF PopTest, Leaves, Goto, TypeOK, ArgOK, lists, locals, InPush,
     PCs, Inside, Asleep
<1>11. ASSUME NEW t \in Threads, PopShift(t)
      PROVE  ArgOK'
  BY <1>11 DEF PopShift, Leaves, Goto, TypeOK, ArgOK, lists, locals, InPush,
     PCs, Inside, Asleep
<1>12. ASSUME NEW t \in Threads, Return(t)
      PROVE  ArgOK'
  BY <1>12 DEF Return, Goto, Forgets, TypeOK, ArgOK, lists, locals, InPush,
     PCs, Inside, Asleep
<1>13. ASSUME NEW t \in Threads, RoomTest(t)
      PROVE  ArgOK'
  BY <1>13 DEF RoomTest, Leaves, Goto, TypeOK, ArgOK, lists, locals, InPush,
     PCs, Inside, Asleep
<1>14. ASSUME NEW t \in Threads, RoomShift(t)
      PROVE  ArgOK'
  BY <1>14 DEF RoomShift, Leaves, Goto, TypeOK, ArgOK, lists, locals, InPush,
     PCs, Inside, Asleep
<1>15. ASSUME NEW t \in Threads, MaxSet(t)
      PROVE  ArgOK'
  BY <1>15, MaxSetMoves DEF TypeOK, ArgOK, lists, locals, InPush, PCs, Inside,
     Asleep
<1>16. ASSUME NEW t \in Threads, MaxShift(t)
      PROVE  ArgOK'
  <2> SUFFICES ASSUME NEW s \in Threads
               PROVE  /\ pc'[s] \in InPush => arg'[s] \in Items
                      /\ pc'[s] \in {"max_lock", "max_set"} => arg'[s] \in Maxes
                      /\ pc'[s] = "max_shift" => arg'[s] \in Nat
                      /\ pc'[s] = "max_wake" => arg'[s] \in Nat \ {0}
    BY DEF ArgOK
  <2>1. CASE s # t
    <3>1. pc'[s] = pc[s] /\ arg'[s] = arg[s]
      BY <1>16, <2>1, MaxShiftMoves DEF TypeOK
    <3> QED
      BY <3>1 DEF ArgOK
  <2>2. CASE s = t
    <3>1. \/ pc'[t] = "done"
          \/ pc'[t] = "max_shift" /\ arg'[t] \in Nat
          \/ pc'[t] = "max_wake" /\ arg'[t] \in Nat \ {0}
      BY <1>16, MaxShiftMoves DEF TypeOK
    <3> QED
      BY <2>2, <3>1 DEF InPush
  <2> QED
    BY <2>1, <2>2
<1>17. ASSUME NEW t \in Threads, MaxWake(t)
      PROVE  ArgOK'
  BY <1>17, MaxWakeMoves DEF WakesFrom, WokenPC, TypeOK, ArgOK, lists, locals,
     InPush, PCs, Inside, Asleep
<1>18. ASSUME NEW t \in Pushers, NEW v \in Items, push(t, v)
      PROVE  ArgOK'
  BY <1>18 DEF push, Moves, Goto, TypeOK, ArgOK, lists, locals, InPush, PCs,
     Inside, Asleep
<1>19. ASSUME NEW t \in Poppers, NEW nb \in BOOLEAN, pop(t, nb)
      PROVE  ArgOK'
  BY <1>19 DEF pop, Moves, Goto, TypeOK, ArgOK, lists, locals, InPush, PCs,
     Inside, Asleep
<1>20. ASSUME NEW t \in Threads, NEW n \in Maxes, Sized, set_max(t, n)
      PROVE  ArgOK'
  BY <1>20 DEF set_max, Moves, Goto, TypeOK, ArgOK, lists, locals, InPush,
     PCs, Inside, Asleep
<1>21. CASE clear
  BY <1>21 DEF clear, TypeOK, ArgOK, lists, locals, InPush, PCs, Inside,
     Asleep
<1>22. ASSUME NEW t \in Threads, wakeup(t)
      PROVE  ArgOK'
  BY <1>22, WakeupMoves DEF WokenPC, TypeOK, ArgOK, lists, locals, InPush, PCs,
     Inside, Asleep
<1>23. ASSUME NEW t \in Killable, kill(t)
      PROVE  ArgOK'
  BY <1>23 DEF kill, Goto, TypeOK, ArgOK, lists, locals, InPush, PCs, Inside,
     Asleep
<1>24. CASE UNCHANGED vars
  BY <1>24 DEF vars, lists, locals, TypeOK, ArgOK, lists, locals, InPush, PCs,
     Inside, Asleep
<1> QED
  BY <1>1, <1>2, <1>3, <1>4, <1>5, <1>6, <1>7, <1>8, <1>9, <1>10, <1>11,
     <1>12, <1>13, <1>14, <1>15, <1>16, <1>17, <1>18, <1>19, <1>20, <1>21,
     <1>22, <1>23, <1>24 DEF Next, Step

\* Nobody but clear changes the queue under a thread that has looked at it.
LEMMA FoundStep ==
    ASSUME TypeOK, ArgOK, Excluded, FoundOK, [Next]_vars
    PROVE  FoundOK'
<1>1. ASSUME NEW t \in Threads, Lock(t)
      PROVE  FoundOK'
  BY <1>1 DEF Lock, Moves, Goto, TypeOK, Excluded, FoundOK, lists, locals,
     InPop, PCs, Inside, Asleep
<1>2. ASSUME NEW t \in Threads, Relock(t)
      PROVE  FoundOK'
  BY <1>2 DEF Relock, Moves, Goto, TypeOK, Excluded, FoundOK, lists, locals,
     InPop, PCs, Inside, Asleep
<1>3. ASSUME NEW t \in Threads, Sleep(t)
      PROVE  FoundOK'
  BY <1>3 DEF Sleep, Leaves, Goto, TypeOK, Excluded, FoundOK, lists, locals,
     InPop, PCs, Inside, Asleep
<1>4. ASSUME NEW t \in Threads, Unwind(t)
      PROVE  FoundOK'
  BY <1>4 DEF Unwind, Moves, Goto, Forgets, TypeOK, Excluded, FoundOK, lists,
     locals, InPop, PCs, Inside, Asleep
<1>5. ASSUME NEW t \in Threads, PushTest(t)
      PROVE  FoundOK'
  BY <1>5 DEF PushTest, Goto, TypeOK, Excluded, FoundOK, lists, locals, InPop,
     PCs, Inside, Asleep
<1>6. ASSUME NEW t \in Threads, PushDo(t)
      PROVE  FoundOK'
  BY <1>6 DEF PushDo, Moves, Goto, TypeOK, Excluded, FoundOK, lists, locals,
     InPop, PCs, Inside, Asleep
<1>7. ASSUME NEW t \in Threads, PushShift(t)
      PROVE  FoundOK'
  BY <1>7 DEF PushShift, Leaves, Goto, TypeOK, Excluded, FoundOK, lists,
     locals, InPop, PCs, Inside, Asleep
<1>8. ASSUME NEW t \in Threads, Wake(t)
      PROVE  FoundOK'
  BY <1>8, WakeMoves DEF WakesFrom, WokenPC, TypeOK, Excluded, FoundOK, lists,
     locals, InPop, PCs, Inside, Asleep
<1>9. ASSUME NEW t \in Threads, Run(t)
      PROVE  FoundOK'
  BY <1>9, RunMoves DEF WakesFrom, WokenPC, TypeOK, Excluded, FoundOK, lists,
     locals, InPop, PCs, Inside, Asleep
<1>10. ASSUME NEW t \in Threads, PopTest(t)
      PROVE  FoundOK'
  BY <1>10 DEF PopTest, Leaves, Goto, TypeOK, Excluded, FoundOK, lists,
     locals, InPop, PCs, Inside, Asleep
<1>11. ASSUME NEW t \in Threads, PopShift(t)
      PROVE  FoundOK'
  BY <1>11 DEF PopShift, Leaves, Goto, TypeOK, Excluded, FoundOK, lists,
     locals, InPop, PCs, Inside, Asleep
<1>12. ASSUME NEW t \in Threads, Return(t)
      PROVE  FoundOK'
  BY <1>12 DEF Return, Goto, Forgets, TypeOK, Excluded, FoundOK, lists,
     locals, InPop, PCs, Inside, Asleep
<1>13. ASSUME NEW t \in Threads, RoomTest(t)
      PROVE  FoundOK'
  BY <1>13 DEF RoomTest, Leaves, Goto, TypeOK, Excluded, FoundOK, lists,
     locals, InPop, PCs, Inside, Asleep
<1>14. ASSUME NEW t \in Threads, RoomShift(t)
      PROVE  FoundOK'
  BY <1>14 DEF RoomShift, Leaves, Goto, TypeOK, Excluded, FoundOK, lists,
     locals, InPop, PCs, Inside, Asleep
<1>15. ASSUME NEW t \in Threads, MaxSet(t)
      PROVE  FoundOK'
  BY <1>15, MaxSetMoves DEF TypeOK, Excluded, FoundOK, lists, locals, InPop, PCs,
     Inside, Asleep
<1>16. ASSUME NEW t \in Threads, MaxShift(t)
      PROVE  FoundOK'
  BY <1>16, MaxShiftMoves DEF TypeOK, Excluded, FoundOK, lists, locals, InPop,
     PCs, Inside, Asleep
<1>17. ASSUME NEW t \in Threads, MaxWake(t)
      PROVE  FoundOK'
  <2>1. \A s \in Threads : pc'[s] \in {"push_do", "pop_shift", "idle"} => pc[s] = pc'[s]
    BY <1>17, MaxWakeOthers DEF WokenPC, Asleep
  <2> QED
    BY <1>17, <2>1, MaxWakeMoves DEF FoundOK
<1>18. ASSUME NEW t \in Pushers, NEW v \in Items, push(t, v)
      PROVE  FoundOK'
  BY <1>18 DEF push, Moves, Goto, TypeOK, Excluded, FoundOK, lists, locals,
     InPop, PCs, Inside, Asleep
<1>19. ASSUME NEW t \in Poppers, NEW nb \in BOOLEAN, pop(t, nb)
      PROVE  FoundOK'
  BY <1>19 DEF pop, Moves, Goto, TypeOK, Excluded, FoundOK, lists, locals,
     InPop, PCs, Inside, Asleep
<1>20. ASSUME NEW t \in Threads, NEW n \in Maxes, Sized, set_max(t, n)
      PROVE  FoundOK'
  BY <1>20 DEF set_max, Moves, Goto, TypeOK, Excluded, FoundOK, lists, locals,
     InPop, PCs, Inside, Asleep
<1>21. CASE clear
  BY <1>21 DEF clear, TypeOK, Excluded, FoundOK, lists, locals, InPop, PCs,
     Inside, Asleep
<1>22. ASSUME NEW t \in Threads, wakeup(t)
      PROVE  FoundOK'
  BY <1>22, WakeupMoves DEF WokenPC, TypeOK, Excluded, FoundOK, lists, locals,
     InPop, PCs, Inside, Asleep
<1>23. ASSUME NEW t \in Killable, kill(t)
      PROVE  FoundOK'
  BY <1>23 DEF kill, Goto, TypeOK, Excluded, FoundOK, lists, locals, InPop,
     PCs, Inside, Asleep
<1>24. CASE UNCHANGED vars
  BY <1>24 DEF vars, lists, locals, TypeOK, Excluded, FoundOK, lists, locals,
     InPop, PCs, Inside, Asleep
<1> QED
  BY <1>1, <1>2, <1>3, <1>4, <1>5, <1>6, <1>7, <1>8, <1>9, <1>10, <1>11,
     <1>12, <1>13, <1>14, <1>15, <1>16, <1>17, <1>18, <1>19, <1>20, <1>21,
     <1>22, <1>23, <1>24 DEF Next, Step

\* Only the threads that push are in push, only those that pop are in pop, and
\* nobody is in max= if it is not called.
LEMMA RolesStep ==
    ASSUME TypeOK, ArgOK, RolesOK, [Next]_vars
    PROVE  RolesOK'
<1>1. ASSUME NEW t \in Threads, Lock(t)
      PROVE  RolesOK'
  BY <1>1 DEF Lock, Moves, Goto, TypeOK, RolesOK, lists, locals, InPush,
     InPop, PCs, Inside, Asleep
<1>2. ASSUME NEW t \in Threads, Relock(t)
      PROVE  RolesOK'
  BY <1>2 DEF Relock, Moves, Goto, TypeOK, RolesOK, lists, locals, InPush,
     InPop, PCs, Inside, Asleep
<1>3. ASSUME NEW t \in Threads, Sleep(t)
      PROVE  RolesOK'
  BY <1>3 DEF Sleep, Leaves, Goto, TypeOK, RolesOK, lists, locals, InPush,
     InPop, PCs, Inside, Asleep
<1>4. ASSUME NEW t \in Threads, Unwind(t)
      PROVE  RolesOK'
  BY <1>4 DEF Unwind, Moves, Goto, Forgets, TypeOK, RolesOK, lists, locals,
     InPush, InPop, PCs, Inside, Asleep
<1>5. ASSUME NEW t \in Threads, PushTest(t)
      PROVE  RolesOK'
  BY <1>5 DEF PushTest, Goto, TypeOK, RolesOK, lists, locals, InPush, InPop,
     PCs, Inside, Asleep
<1>6. ASSUME NEW t \in Threads, PushDo(t)
      PROVE  RolesOK'
  BY <1>6 DEF PushDo, Moves, Goto, TypeOK, RolesOK, lists, locals, InPush,
     InPop, PCs, Inside, Asleep
<1>7. ASSUME NEW t \in Threads, PushShift(t)
      PROVE  RolesOK'
  BY <1>7 DEF PushShift, Leaves, Goto, TypeOK, RolesOK, lists, locals, InPush,
     InPop, PCs, Inside, Asleep
<1>8. ASSUME NEW t \in Threads, Wake(t)
      PROVE  RolesOK'
  BY <1>8, WakeMoves DEF WakesFrom, WokenPC, TypeOK, RolesOK, lists, locals,
     InPush, InPop, PCs, Inside, Asleep
<1>9. ASSUME NEW t \in Threads, Run(t)
      PROVE  RolesOK'
  BY <1>9, RunMoves DEF WakesFrom, WokenPC, TypeOK, RolesOK, lists, locals,
     InPush, InPop, PCs, Inside, Asleep
<1>10. ASSUME NEW t \in Threads, PopTest(t)
      PROVE  RolesOK'
  BY <1>10 DEF PopTest, Leaves, Goto, TypeOK, RolesOK, lists, locals, InPush,
     InPop, PCs, Inside, Asleep
<1>11. ASSUME NEW t \in Threads, PopShift(t)
      PROVE  RolesOK'
  BY <1>11 DEF PopShift, Leaves, Goto, TypeOK, RolesOK, lists, locals, InPush,
     InPop, PCs, Inside, Asleep
<1>12. ASSUME NEW t \in Threads, Return(t)
      PROVE  RolesOK'
  BY <1>12 DEF Return, Goto, Forgets, TypeOK, RolesOK, lists, locals, InPush,
     InPop, PCs, Inside, Asleep
<1>13. ASSUME NEW t \in Threads, RoomTest(t)
      PROVE  RolesOK'
  BY <1>13 DEF RoomTest, Leaves, Goto, TypeOK, RolesOK, lists, locals, InPush,
     InPop, PCs, Inside, Asleep
<1>14. ASSUME NEW t \in Threads, RoomShift(t)
      PROVE  RolesOK'
  BY <1>14 DEF RoomShift, Leaves, Goto, TypeOK, RolesOK, lists, locals,
     InPush, InPop, PCs, Inside, Asleep
<1>15. ASSUME NEW t \in Threads, MaxSet(t)
      PROVE  RolesOK'
  BY <1>15, MaxSetMoves DEF TypeOK, RolesOK, lists, locals, InPush, InPop, PCs,
     Inside, Asleep
<1>16. ASSUME NEW t \in Threads, MaxShift(t)
      PROVE  RolesOK'
  BY <1>16, MaxShiftMoves DEF TypeOK, RolesOK, lists, locals, InPush, InPop, PCs,
     Inside, Asleep
<1>17. ASSUME NEW t \in Threads, MaxWake(t)
      PROVE  RolesOK'
  BY <1>17, MaxWakeMoves DEF WakesFrom, WokenPC, TypeOK, RolesOK, lists, locals,
     InPush, InPop, PCs, Inside, Asleep
<1>18. ASSUME NEW t \in Pushers, NEW v \in Items, push(t, v)
      PROVE  RolesOK'
  BY <1>18 DEF push, Moves, Goto, TypeOK, RolesOK, lists, locals, InPush,
     InPop, PCs, Inside, Asleep
<1>19. ASSUME NEW t \in Poppers, NEW nb \in BOOLEAN, pop(t, nb)
      PROVE  RolesOK'
  BY <1>19 DEF pop, Moves, Goto, TypeOK, RolesOK, lists, locals, InPush,
     InPop, PCs, Inside, Asleep
<1>20. ASSUME NEW t \in Threads, NEW n \in Maxes, Sized, set_max(t, n)
      PROVE  RolesOK'
  BY <1>20 DEF set_max, Moves, Goto, TypeOK, RolesOK, lists, locals, InPush,
     InPop, PCs, Inside, Asleep
<1>21. CASE clear
  BY <1>21 DEF clear, TypeOK, RolesOK, lists, locals, InPush, InPop, PCs,
     Inside, Asleep
<1>22. ASSUME NEW t \in Threads, wakeup(t)
      PROVE  RolesOK'
  BY <1>22, WakeupMoves DEF WokenPC, TypeOK, RolesOK, lists, locals, InPush,
     InPop, PCs, Inside, Asleep
<1>23. ASSUME NEW t \in Killable, kill(t)
      PROVE  RolesOK'
  BY <1>23 DEF kill, Goto, TypeOK, RolesOK, lists, locals, InPush, InPop, PCs,
     Inside, Asleep
<1>24. CASE UNCHANGED vars
  BY <1>24 DEF vars, lists, locals, TypeOK, RolesOK, lists, locals, InPush,
     InPop, PCs, Inside, Asleep
<1> QED
  BY <1>1, <1>2, <1>3, <1>4, <1>5, <1>6, <1>7, <1>8, <1>9, <1>10, <1>11,
     <1>12, <1>13, <1>14, <1>15, <1>16, <1>17, <1>18, <1>19, <1>20, <1>21,
     <1>22, <1>23, <1>24 DEF Next, Step

LEMMA InvStep == QueueInv /\ [Next]_vars => QueueInv'
  BY TypeStep, ExcludedStep, ArgStep, FoundStep, RolesStep DEF QueueInv

LEMMA InvAlways == Spec => []QueueInv
  BY InitInv, InvStep, PTL DEF Spec

\* Every variable keeps its type, whatever is called and whoever is killed.
THEOREM QueueTyped == Spec => []TypeOK
  BY InvAlways, PTL DEF QueueInv

-----------------------------------------------------------------------------
(* The wakeups.                                                             *)

\* What is in a list stays there when another entry is appended.
LEMMA ListAppend ==
    ASSUME NEW s \in Seq(Threads), NEW e \in Threads
    PROVE  /\ Listed(e, Append(s, e))
           /\ \A x \in Threads : Listed(x, s) => Listed(x, Append(s, e))
  BY AppendProperties DEF Listed

\* What shift does not return is still there.
LEMMA ListTail ==
    ASSUME NEW s \in Seq(Threads), s # <<>>
    PROVE  \A x \in Threads : Listed(x, s) => x = Head(s) \/ Listed(x, Tail(s))
<1> SUFFICES ASSUME NEW x \in Threads, NEW i \in DOMAIN s, s[i] = x, x # Head(s)
             PROVE  \E j \in DOMAIN Tail(s) : Tail(s)[j] = x
  BY DEF Listed
<1>1. /\ Len(s) \in Nat /\ Len(Tail(s)) = Len(s) - 1
      /\ DOMAIN s = 1 .. Len(s) /\ DOMAIN Tail(s) = 1 .. Len(Tail(s))
      /\ \A j \in 1 .. Len(Tail(s)) : Tail(s)[j] = s[j + 1]
      /\ Head(s) = s[1]
  BY HeadTailProperties, LenProperties
<1>2. i # 1 /\ i - 1 \in 1 .. Len(Tail(s))
  BY <1>1
<1> QED
  BY <1>1, <1>2

\* No step takes a consumer's wakeup away, if no producer is killed.
LEMMA PopperStep ==
    ASSUME QueueInv, PopperAnnounced, Killable \cap Pushers = {}, [Next]_vars
    PROVE  PopperAnnounced'
<1> USE DEF QueueInv
<1>1. ASSUME NEW t \in Threads, Lock(t)
      PROVE  PopperAnnounced'
  <2>1. \A u \in Threads : pc'[u] \in {"pop_doze", "pop_sleep"} =>
            pc[u] \in {"pop_doze", "pop_sleep"}
    BY <1>1 DEF Lock, Moves, Goto, TypeOK
  <2>2. \A s \in Threads : pc[s] = "push_wake" => pc'[s] = "push_wake" /\ tee'[s] = tee[s]
    BY <1>1 DEF Lock, Moves, Goto, TypeOK, locals
  <2>3. waiting' = waiting
    BY <1>1 DEF Lock, lists
  <2> QED
    BY <2>1, <2>2, <2>3 DEF PopperAnnounced
<1>2. ASSUME NEW t \in Threads, Relock(t)
      PROVE  PopperAnnounced'
  <2>1. \A u \in Threads : pc'[u] \in {"pop_doze", "pop_sleep"} =>
            pc[u] \in {"pop_doze", "pop_sleep"}
    BY <1>2 DEF Relock, Moves, Goto, TypeOK
  <2>2. \A s \in Threads : pc[s] = "push_wake" => pc'[s] = "push_wake" /\ tee'[s] = tee[s]
    BY <1>2 DEF Relock, Moves, Goto, TypeOK, locals
  <2>3. waiting' = waiting
    BY <1>2 DEF Relock, lists
  <2> QED
    BY <2>1, <2>2, <2>3 DEF PopperAnnounced
<1>3. ASSUME NEW t \in Threads, Sleep(t)
      PROVE  PopperAnnounced'
  <2>1. \A u \in Threads : pc'[u] \in {"pop_doze", "pop_sleep"} =>
            pc[u] \in {"pop_doze", "pop_sleep"}
    BY <1>3 DEF Sleep, Leaves, Goto, TypeOK
  <2>2. \A s \in Threads : pc[s] = "push_wake" => pc'[s] = "push_wake" /\ tee'[s] = tee[s]
    BY <1>3 DEF Sleep, Leaves, Goto, TypeOK, locals
  <2>3. waiting' = waiting
    BY <1>3 DEF Sleep, lists
  <2> QED
    BY <2>1, <2>2, <2>3 DEF PopperAnnounced
<1>4. ASSUME NEW t \in Threads, Unwind(t)
      PROVE  PopperAnnounced'
  <2>1. \A u \in Threads : pc'[u] \in {"pop_doze", "pop_sleep"} =>
            pc[u] \in {"pop_doze", "pop_sleep"}
    BY <1>4 DEF Unwind, Moves, Goto, Forgets, TypeOK
  <2>2. \A s \in Threads : pc[s] = "push_wake" => pc'[s] = "push_wake" /\ tee'[s] = tee[s]
    BY <1>4 DEF Unwind, Moves, Goto, Forgets, TypeOK, locals
  <2>3. waiting' = waiting
    BY <1>4 DEF Unwind, lists
  <2> QED
    BY <2>1, <2>2, <2>3 DEF PopperAnnounced
<1>5. ASSUME NEW t \in Threads, PushTest(t)
      PROVE  PopperAnnounced'
  <2>1. \A u \in Threads : pc'[u] \in {"pop_doze", "pop_sleep"} =>
            pc[u] \in {"pop_doze", "pop_sleep"}
    BY <1>5 DEF PushTest, Goto, TypeOK
  <2>2. \A s \in Threads : pc[s] = "push_wake" => pc'[s] = "push_wake" /\ tee'[s] = tee[s]
    BY <1>5 DEF PushTest, Goto, TypeOK, locals
  <2>3. waiting' = waiting
    BY <1>5 DEF PushTest
  <2> QED
    BY <2>1, <2>2, <2>3 DEF PopperAnnounced
<1>6. ASSUME NEW t \in Threads, PushDo(t)
      PROVE  PopperAnnounced'
  <2>1. \A u \in Threads : pc'[u] \in {"pop_doze", "pop_sleep"} =>
            pc[u] \in {"pop_doze", "pop_sleep"}
    BY <1>6 DEF PushDo, Moves, Goto, TypeOK
  <2>2. \A s \in Threads : pc[s] = "push_wake" => pc'[s] = "push_wake" /\ tee'[s] = tee[s]
    BY <1>6 DEF PushDo, Moves, Goto, TypeOK, locals
  <2>3. waiting' = waiting
    BY <1>6 DEF PushDo, lists
  <2> QED
    BY <2>1, <2>2, <2>3 DEF PopperAnnounced
<1>7. ASSUME NEW t \in Threads, PushShift(t)
      PROVE  PopperAnnounced'
  <2>1. \A x \in Threads : Listed(x, waiting) =>
            Listed(x, waiting') \/ (pc'[t] = "push_wake" /\ tee'[t] = x)
    <3>1. waiting # <<>> => \A x \in Threads :
            Listed(x, waiting) => x = Head(waiting) \/ Listed(x, Tail(waiting))
      BY ListTail DEF TypeOK
    <3>2. \/ waiting' = waiting
          \/ /\ waiting # <<>> /\ waiting' = Tail(waiting)
             /\ pc'[t] = "push_wake" /\ tee'[t] = Head(waiting)
      BY <1>7 DEF PushShift, Goto, TypeOK
    <3> QED
      BY <3>1, <3>2
  <2>2. /\ \A u \in Threads \ {t} : pc'[u] = pc[u] /\ tee'[u] = tee[u]
        /\ pc[t] = "push_shift" /\ pc'[t] \in {"push_wake", "done"}
    BY <1>7 DEF PushShift, Leaves, Goto, TypeOK
  <2> QED
    BY <2>1, <2>2 DEF PopperAnnounced, Listed
<1>8. ASSUME NEW t \in Threads, Wake(t)
      PROVE  PopperAnnounced'
  <2> SUFFICES ASSUME NEW u \in Threads, pc'[u] \in {"pop_doze", "pop_sleep"}
               PROVE  \/ Listed(u, waiting)
                      \/ \E s \in Threads : pc'[s] = "push_wake" /\ tee[s] = u
    BY <1>8, WakeMoves DEF PopperAnnounced, Listed
  <2>1. pc[u] = pc'[u] /\ u # t
    BY <1>8, WakeOthers DEF WokenPC, Asleep
  <2>2. pc[t] = "push_wake" => tee[t] # u
    BY <1>8, <2>1, WakeMoves DEF WakesFrom, WokenPC, TypeOK, Excluded, Inside
  <2>3. \A s \in Threads : pc[s] = "push_wake" /\ tee[s] = u => s # t
    BY <1>8, <2>2, WakeMoves
  <2>4. \A s \in Threads : pc[s] = "push_wake" /\ tee[s] = u => pc'[s] = "push_wake"
    BY <1>8, <2>3, WakeOthers DEF Asleep
  <2> QED
    BY <2>1, <2>4 DEF PopperAnnounced, Listed
<1>9. ASSUME NEW t \in Threads, Run(t)
      PROVE  PopperAnnounced'
  <2>1. \A u \in Threads : pc'[u] \in {"pop_doze", "pop_sleep"} => pc[u] = pc'[u]
    BY <1>9, RunMoves DEF WakesFrom, WokenPC, TypeOK
  <2>2. \A s \in Threads : pc[s] = "push_wake" => pc'[s] = "push_wake"
    BY <1>9, RunMoves DEF WakesFrom, WokenPC, TypeOK
  <2> QED
    BY <1>9, <2>1, <2>2, RunMoves DEF PopperAnnounced
<1>10. ASSUME NEW t \in Threads, PopTest(t)
      PROVE  PopperAnnounced'
  <2>1. /\ \A x \in Threads : Listed(x, waiting) => Listed(x, waiting')
        /\ pc'[t] = "pop_doze" => Listed(t, waiting')
    <3>1. Listed(t, Append(waiting, t)) /\ \A x \in Threads :
            Listed(x, waiting) => Listed(x, Append(waiting, t))
      BY ListAppend DEF TypeOK
    <3>2. \/ waiting' = waiting /\ pc'[t] # "pop_doze"
          \/ waiting' = Append(waiting, t)
      BY <1>10 DEF PopTest, Leaves, Goto, TypeOK
    <3> QED
      BY <3>1, <3>2
  <2>2. \A u \in Threads \ {t} : pc'[u] = pc[u] /\ tee'[u] = tee[u]
    BY <1>10 DEF PopTest, Leaves, Goto, TypeOK, locals
  <2>3. pc'[t] \notin {"pop_doze", "pop_sleep"} \ {"pop_doze"} /\ pc[t] = "pop_test"
    BY <1>10 DEF PopTest, Leaves, Goto, TypeOK
  <2> QED
    BY <2>1, <2>2, <2>3 DEF PopperAnnounced, Listed
<1>11. ASSUME NEW t \in Threads, PopShift(t)
      PROVE  PopperAnnounced'
  <2>1. \A u \in Threads : pc'[u] \in {"pop_doze", "pop_sleep"} =>
            pc[u] \in {"pop_doze", "pop_sleep"}
    BY <1>11 DEF PopShift, Leaves, Goto, TypeOK
  <2>2. \A s \in Threads : pc[s] = "push_wake" => pc'[s] = "push_wake" /\ tee'[s] = tee[s]
    BY <1>11 DEF PopShift, Leaves, Goto, TypeOK, locals
  <2>3. waiting' = waiting
    BY <1>11 DEF PopShift, lists
  <2> QED
    BY <2>1, <2>2, <2>3 DEF PopperAnnounced
<1>12. ASSUME NEW t \in Threads, Return(t)
      PROVE  PopperAnnounced'
  <2>1. \A u \in Threads : pc'[u] \in {"pop_doze", "pop_sleep"} =>
            pc[u] \in {"pop_doze", "pop_sleep"}
    BY <1>12 DEF Return, Goto, Forgets, TypeOK
  <2>2. \A s \in Threads : pc[s] = "push_wake" => pc'[s] = "push_wake" /\ tee'[s] = tee[s]
    BY <1>12 DEF Return, Goto, Forgets, TypeOK, locals
  <2>3. waiting' = waiting
    BY <1>12 DEF Return, lists
  <2> QED
    BY <2>1, <2>2, <2>3 DEF PopperAnnounced
<1>13. ASSUME NEW t \in Threads, RoomTest(t)
      PROVE  PopperAnnounced'
  <2>1. \A u \in Threads : pc'[u] \in {"pop_doze", "pop_sleep"} =>
            pc[u] \in {"pop_doze", "pop_sleep"}
    BY <1>13 DEF RoomTest, Leaves, Goto, TypeOK
  <2>2. \A s \in Threads : pc[s] = "push_wake" => pc'[s] = "push_wake" /\ tee'[s] = tee[s]
    BY <1>13 DEF RoomTest, Leaves, Goto, TypeOK, locals
  <2>3. waiting' = waiting
    BY <1>13 DEF RoomTest, lists
  <2> QED
    BY <2>1, <2>2, <2>3 DEF PopperAnnounced
<1>14. ASSUME NEW t \in Threads, RoomShift(t)
      PROVE  PopperAnnounced'
  <2>1. \A u \in Threads : pc'[u] \in {"pop_doze", "pop_sleep"} =>
            pc[u] \in {"pop_doze", "pop_sleep"}
    BY <1>14 DEF RoomShift, Leaves, Goto, TypeOK
  <2>2. \A s \in Threads : pc[s] = "push_wake" => pc'[s] = "push_wake" /\ tee'[s] = tee[s]
    BY <1>14 DEF RoomShift, Leaves, Goto, TypeOK, locals
  <2>3. waiting' = waiting
    BY <1>14 DEF RoomShift
  <2> QED
    BY <2>1, <2>2, <2>3 DEF PopperAnnounced
<1>15. ASSUME NEW t \in Threads, MaxSet(t)
      PROVE  PopperAnnounced'
  <2>1. \A u \in Threads : pc'[u] \in {"pop_doze", "pop_sleep"} =>
            pc[u] \in {"pop_doze", "pop_sleep"}
    BY <1>15, MaxSetMoves DEF TypeOK
  <2>2. \A s \in Threads : pc[s] = "push_wake" => pc'[s] = "push_wake" /\ tee'[s] = tee[s]
    BY <1>15, MaxSetMoves DEF TypeOK, locals
  <2>3. waiting' = waiting
    BY <1>15, MaxSetMoves
  <2> QED
    BY <2>1, <2>2, <2>3 DEF PopperAnnounced
<1>16. ASSUME NEW t \in Threads, MaxShift(t)
      PROVE  PopperAnnounced'
  <2>1. \A u \in Threads : pc'[u] \in {"pop_doze", "pop_sleep"} =>
            pc[u] \in {"pop_doze", "pop_sleep"}
    BY <1>16, MaxShiftMoves DEF TypeOK
  <2>2. \A s \in Threads : pc[s] = "push_wake" => pc'[s] = "push_wake" /\ tee'[s] = tee[s]
    BY <1>16, MaxShiftMoves DEF TypeOK, locals
  <2>3. waiting' = waiting
    BY <1>16, MaxShiftMoves
  <2> QED
    BY <2>1, <2>2, <2>3 DEF PopperAnnounced
<1>17. ASSUME NEW t \in Threads, MaxWake(t)
      PROVE  PopperAnnounced'
  <2>1. \A u \in Threads : pc'[u] \in {"pop_doze", "pop_sleep"} => pc[u] = pc'[u]
    BY <1>17, MaxWakeMoves DEF WakesFrom, WokenPC, TypeOK
  <2>2. \A s \in Threads : pc[s] = "push_wake" => pc'[s] = "push_wake"
    BY <1>17, MaxWakeMoves DEF WakesFrom, WokenPC, TypeOK
  <2> QED
    BY <1>17, <2>1, <2>2, MaxWakeMoves DEF PopperAnnounced
<1>18. ASSUME NEW t \in Pushers, NEW v \in Items, push(t, v)
      PROVE  PopperAnnounced'
  <2>1. \A u \in Threads : pc'[u] \in {"pop_doze", "pop_sleep"} =>
            pc[u] \in {"pop_doze", "pop_sleep"}
    BY <1>18 DEF push, Moves, Goto, TypeOK
  <2>2. \A s \in Threads : pc[s] = "push_wake" => pc'[s] = "push_wake" /\ tee'[s] = tee[s]
    BY <1>18 DEF push, Moves, Goto, TypeOK, locals
  <2>3. waiting' = waiting
    BY <1>18 DEF push, lists
  <2> QED
    BY <2>1, <2>2, <2>3 DEF PopperAnnounced
<1>19. ASSUME NEW t \in Poppers, NEW nb \in BOOLEAN, pop(t, nb)
      PROVE  PopperAnnounced'
  <2>1. \A u \in Threads : pc'[u] \in {"pop_doze", "pop_sleep"} =>
            pc[u] \in {"pop_doze", "pop_sleep"}
    BY <1>19 DEF pop, Moves, Goto, TypeOK
  <2>2. \A s \in Threads : pc[s] = "push_wake" => pc'[s] = "push_wake" /\ tee'[s] = tee[s]
    BY <1>19 DEF pop, Moves, Goto, TypeOK, locals
  <2>3. waiting' = waiting
    BY <1>19 DEF pop, lists
  <2> QED
    BY <2>1, <2>2, <2>3 DEF PopperAnnounced
<1>20. ASSUME NEW t \in Threads, NEW n \in Maxes, Sized, set_max(t, n)
      PROVE  PopperAnnounced'
  <2>1. \A u \in Threads : pc'[u] \in {"pop_doze", "pop_sleep"} =>
            pc[u] \in {"pop_doze", "pop_sleep"}
    BY <1>20 DEF set_max, Moves, Goto, TypeOK
  <2>2. \A s \in Threads : pc[s] = "push_wake" => pc'[s] = "push_wake" /\ tee'[s] = tee[s]
    BY <1>20 DEF set_max, Moves, Goto, TypeOK, locals
  <2>3. waiting' = waiting
    BY <1>20 DEF set_max, lists
  <2> QED
    BY <2>1, <2>2, <2>3 DEF PopperAnnounced
<1>21. CASE clear
  BY <1>21 DEF clear, TypeOK, PopperAnnounced, lists, locals, PCs, Inside,
     Asleep
<1>22. ASSUME NEW t \in Threads, wakeup(t)
      PROVE  PopperAnnounced'
  <2>1. \A u \in Threads : pc'[u] \in {"pop_doze", "pop_sleep"} => pc[u] = pc'[u]
    BY <1>22, WakeupMoves DEF WokenPC, TypeOK
  <2>2. \A s \in Threads : pc[s] = "push_wake" => pc'[s] = "push_wake"
    BY <1>22, WakeupMoves DEF WokenPC, TypeOK, Asleep
  <2> QED
    BY <1>22, <2>1, <2>2, WakeupMoves DEF PopperAnnounced
<1>23. ASSUME NEW t \in Killable, kill(t)
      PROVE  PopperAnnounced'
  BY <1>23 DEF kill, Goto, RolesOK, TypeOK, PopperAnnounced, lists, locals, PCs,
     Inside, Asleep
<1>24. CASE UNCHANGED vars
  BY <1>24 DEF vars, lists, locals, TypeOK, PopperAnnounced, lists, locals,
     PCs, Inside, Asleep
<1> QED
  BY <1>1, <1>2, <1>3, <1>4, <1>5, <1>6, <1>7, <1>8, <1>9, <1>10, <1>11,
     <1>12, <1>13, <1>14, <1>15, <1>16, <1>17, <1>18, <1>19, <1>20, <1>21,
     <1>22, <1>23, <1>24 DEF Next, Step

\* A thread that sleeps in pop, or is about to, is in @waiting or is being
\* woken, so that a push that finds @waiting empty has nobody to wake.  A
\* producer that is killed between its @waiting.shift and its t.wakeup takes
\* the wakeup with it: hence the hypothesis.
THEOREM PoppersAreAnnounced ==
    Killable \cap Pushers = {} => (Spec => []PopperAnnounced)
<1> SUFFICES ASSUME Killable \cap Pushers = {}
             PROVE  Spec => []PopperAnnounced
  OBVIOUS
<1>1. Init => PopperAnnounced
  BY DEF Init, PopperAnnounced
<1>2. QueueInv /\ PopperAnnounced /\ [Next]_vars => PopperAnnounced'
  BY PopperStep
<1> QED
  BY <1>1, <1>2, InvAlways, PTL DEF Spec

\* The same of the wakeups of the producers, if no consumer is killed and
\* max= is not called.
LEMMA PusherStep ==
    ASSUME QueueInv, PusherAnnounced, Killable \cap Poppers = {}, Maxes = {},
           [Next]_vars
    PROVE  PusherAnnounced'
<1> USE DEF QueueInv
<1>1. ASSUME NEW t \in Threads, Lock(t)
      PROVE  PusherAnnounced'
  <2>1. \A u \in Threads : pc'[u] \in {"push_doze", "push_sleep"} =>
            pc[u] \in {"push_doze", "push_sleep"}
    BY <1>1 DEF Lock, Moves, Goto, TypeOK
  <2>2. \A s \in Threads : pc[s] \in {"room_wake", "max_wake"} => pc'[s] \in {"room_wake", "max_wake"} /\ tee'[s] = tee[s]
    BY <1>1 DEF Lock, Moves, Goto, TypeOK, locals
  <2>3. queue_wait' = queue_wait
    BY <1>1 DEF Lock, lists
  <2> QED
    BY <2>1, <2>2, <2>3 DEF PusherAnnounced
<1>2. ASSUME NEW t \in Threads, Relock(t)
      PROVE  PusherAnnounced'
  <2>1. \A u \in Threads : pc'[u] \in {"push_doze", "push_sleep"} =>
            pc[u] \in {"push_doze", "push_sleep"}
    BY <1>2 DEF Relock, Moves, Goto, TypeOK
  <2>2. \A s \in Threads : pc[s] \in {"room_wake", "max_wake"} => pc'[s] \in {"room_wake", "max_wake"} /\ tee'[s] = tee[s]
    BY <1>2 DEF Relock, Moves, Goto, TypeOK, locals
  <2>3. queue_wait' = queue_wait
    BY <1>2 DEF Relock, lists
  <2> QED
    BY <2>1, <2>2, <2>3 DEF PusherAnnounced
<1>3. ASSUME NEW t \in Threads, Sleep(t)
      PROVE  PusherAnnounced'
  <2>1. \A u \in Threads : pc'[u] \in {"push_doze", "push_sleep"} =>
            pc[u] \in {"push_doze", "push_sleep"}
    BY <1>3 DEF Sleep, Leaves, Goto, TypeOK
  <2>2. \A s \in Threads : pc[s] \in {"room_wake", "max_wake"} => pc'[s] \in {"room_wake", "max_wake"} /\ tee'[s] = tee[s]
    BY <1>3 DEF Sleep, Leaves, Goto, TypeOK, locals
  <2>3. queue_wait' = queue_wait
    BY <1>3 DEF Sleep, lists
  <2> QED
    BY <2>1, <2>2, <2>3 DEF PusherAnnounced
<1>4. ASSUME NEW t \in Threads, Unwind(t)
      PROVE  PusherAnnounced'
  <2>1. \A u \in Threads : pc'[u] \in {"push_doze", "push_sleep"} =>
            pc[u] \in {"push_doze", "push_sleep"}
    BY <1>4 DEF Unwind, Moves, Goto, Forgets, TypeOK
  <2>2. \A s \in Threads : pc[s] \in {"room_wake", "max_wake"} => pc'[s] \in {"room_wake", "max_wake"} /\ tee'[s] = tee[s]
    BY <1>4 DEF Unwind, Moves, Goto, Forgets, TypeOK, locals
  <2>3. queue_wait' = queue_wait
    BY <1>4 DEF Unwind, lists
  <2> QED
    BY <2>1, <2>2, <2>3 DEF PusherAnnounced
<1>5. ASSUME NEW t \in Threads, PushTest(t)
      PROVE  PusherAnnounced'
  <2>1. /\ \A x \in Threads : Listed(x, queue_wait) => Listed(x, queue_wait')
        /\ pc'[t] = "push_doze" => Listed(t, queue_wait')
    <3>1. Listed(t, Append(queue_wait, t)) /\ \A x \in Threads :
            Listed(x, queue_wait) => Listed(x, Append(queue_wait, t))
      BY ListAppend DEF TypeOK
    <3>2. \/ queue_wait' = queue_wait /\ pc'[t] # "push_doze"
          \/ queue_wait' = Append(queue_wait, t)
      BY <1>5 DEF PushTest, Goto, TypeOK
    <3> QED
      BY <3>1, <3>2
  <2>2. \A u \in Threads \ {t} : pc'[u] = pc[u] /\ tee'[u] = tee[u]
    BY <1>5 DEF PushTest, Goto, TypeOK, locals
  <2>3. pc'[t] \notin {"push_doze", "push_sleep"} \ {"push_doze"} /\ pc[t] = "push_test"
    BY <1>5 DEF PushTest, Goto, TypeOK
  <2> QED
    BY <2>1, <2>2, <2>3 DEF PusherAnnounced, Listed
<1>6. ASSUME NEW t \in Threads, PushDo(t)
      PROVE  PusherAnnounced'
  <2>1. \A u \in Threads : pc'[u] \in {"push_doze", "push_sleep"} =>
            pc[u] \in {"push_doze", "push_sleep"}
    BY <1>6 DEF PushDo, Moves, Goto, TypeOK
  <2>2. \A s \in Threads : pc[s] \in {"room_wake", "max_wake"} => pc'[s] \in {"room_wake", "max_wake"} /\ tee'[s] = tee[s]
    BY <1>6 DEF PushDo, Moves, Goto, TypeOK, locals
  <2>3. queue_wait' = queue_wait
    BY <1>6 DEF PushDo, lists
  <2> QED
    BY <2>1, <2>2, <2>3 DEF PusherAnnounced
<1>7. ASSUME NEW t \in Threads, PushShift(t)
      PROVE  PusherAnnounced'
  <2>1. \A u \in Threads : pc'[u] \in {"push_doze", "push_sleep"} =>
            pc[u] \in {"push_doze", "push_sleep"}
    BY <1>7 DEF PushShift, Leaves, Goto, TypeOK
  <2>2. \A s \in Threads : pc[s] \in {"room_wake", "max_wake"} => pc'[s] \in {"room_wake", "max_wake"} /\ tee'[s] = tee[s]
    BY <1>7 DEF PushShift, Leaves, Goto, TypeOK, locals
  <2>3. queue_wait' = queue_wait
    BY <1>7 DEF PushShift
  <2> QED
    BY <2>1, <2>2, <2>3 DEF PusherAnnounced
<1>8. ASSUME NEW t \in Threads, Wake(t)
      PROVE  PusherAnnounced'
  <2> SUFFICES ASSUME NEW u \in Threads, pc'[u] \in {"push_doze", "push_sleep"}
               PROVE  \/ Listed(u, queue_wait)
                      \/ \E s \in Threads : pc'[s] \in {"room_wake", "max_wake"} /\ tee[s] = u
    BY <1>8, WakeMoves DEF PusherAnnounced, Listed
  <2>1. pc[u] = pc'[u] /\ u # t
    BY <1>8, WakeOthers DEF WokenPC, Asleep
  <2>2. pc[t] = "room_wake" => tee[t] # u
    BY <1>8, <2>1, WakeMoves DEF WakesFrom, WokenPC, TypeOK, Excluded, Inside
  <2>3. \A s \in Threads : pc[s] \in {"room_wake", "max_wake"} /\ tee[s] = u => s # t
    BY <1>8, <2>2, WakeMoves
  <2>4. \A s \in Threads : pc[s] \in {"room_wake", "max_wake"} /\ tee[s] = u => pc'[s] \in {"room_wake", "max_wake"}
    BY <1>8, <2>3, WakeOthers DEF Asleep
  <2> QED
    BY <2>1, <2>4 DEF PusherAnnounced, Listed
<1>9. ASSUME NEW t \in Threads, Run(t)
      PROVE  PusherAnnounced'
  <2>1. \A u \in Threads : pc'[u] \in {"push_doze", "push_sleep"} => pc[u] = pc'[u]
    BY <1>9, RunMoves DEF WakesFrom, WokenPC, TypeOK
  <2>2. \A s \in Threads : pc[s] \in {"room_wake", "max_wake"} => pc'[s] \in {"room_wake", "max_wake"}
    BY <1>9, RunMoves DEF WakesFrom, WokenPC, TypeOK
  <2> QED
    BY <1>9, <2>1, <2>2, RunMoves DEF PusherAnnounced
<1>10. ASSUME NEW t \in Threads, PopTest(t)
      PROVE  PusherAnnounced'
  <2>1. \A u \in Threads : pc'[u] \in {"push_doze", "push_sleep"} =>
            pc[u] \in {"push_doze", "push_sleep"}
    BY <1>10 DEF PopTest, Leaves, Goto, TypeOK
  <2>2. \A s \in Threads : pc[s] \in {"room_wake", "max_wake"} => pc'[s] \in {"room_wake", "max_wake"} /\ tee'[s] = tee[s]
    BY <1>10 DEF PopTest, Leaves, Goto, TypeOK, locals
  <2>3. queue_wait' = queue_wait
    BY <1>10 DEF PopTest
  <2> QED
    BY <2>1, <2>2, <2>3 DEF PusherAnnounced
<1>11. ASSUME NEW t \in Threads, PopShift(t)
      PROVE  PusherAnnounced'
  <2>1. \A u \in Threads : pc'[u] \in {"push_doze", "push_sleep"} =>
            pc[u] \in {"push_doze", "push_sleep"}
    BY <1>11 DEF PopShift, Leaves, Goto, TypeOK
  <2>2. \A s \in Threads : pc[s] \in {"room_wake", "max_wake"} => pc'[s] \in {"room_wake", "max_wake"} /\ tee'[s] = tee[s]
    BY <1>11 DEF PopShift, Leaves, Goto, TypeOK, locals
  <2>3. queue_wait' = queue_wait
    BY <1>11 DEF PopShift, lists
  <2> QED
    BY <2>1, <2>2, <2>3 DEF PusherAnnounced
<1>12. ASSUME NEW t \in Threads, Return(t)
      PROVE  PusherAnnounced'
  <2>1. \A u \in Threads : pc'[u] \in {"push_doze", "push_sleep"} =>
            pc[u] \in {"push_doze", "push_sleep"}
    BY <1>12 DEF Return, Goto, Forgets, TypeOK
  <2>2. \A s \in Threads : pc[s] \in {"room_wake", "max_wake"} => pc'[s] \in {"room_wake", "max_wake"} /\ tee'[s] = tee[s]
    BY <1>12 DEF Return, Goto, Forgets, TypeOK, locals
  <2>3. queue_wait' = queue_wait
    BY <1>12 DEF Return, lists
  <2> QED
    BY <2>1, <2>2, <2>3 DEF PusherAnnounced
<1>13. ASSUME NEW t \in Threads, RoomTest(t)
      PROVE  PusherAnnounced'
  <2>1. \A u \in Threads : pc'[u] \in {"push_doze", "push_sleep"} =>
            pc[u] \in {"push_doze", "push_sleep"}
    BY <1>13 DEF RoomTest, Leaves, Goto, TypeOK
  <2>2. \A s \in Threads : pc[s] \in {"room_wake", "max_wake"} => pc'[s] \in {"room_wake", "max_wake"} /\ tee'[s] = tee[s]
    BY <1>13 DEF RoomTest, Leaves, Goto, TypeOK, locals
  <2>3. queue_wait' = queue_wait
    BY <1>13 DEF RoomTest, lists
  <2> QED
    BY <2>1, <2>2, <2>3 DEF PusherAnnounced
<1>14. ASSUME NEW t \in Threads, RoomShift(t)
      PROVE  PusherAnnounced'
  <2>1. \A x \in Threads : Listed(x, queue_wait) =>
            Listed(x, queue_wait') \/ (pc'[t] = "room_wake" /\ tee'[t] = x)
    <3>1. queue_wait # <<>> => \A x \in Threads :
            Listed(x, queue_wait) => x = Head(queue_wait) \/ Listed(x, Tail(queue_wait))
      BY ListTail DEF TypeOK
    <3>2. \/ queue_wait' = queue_wait
          \/ /\ queue_wait # <<>> /\ queue_wait' = Tail(queue_wait)
             /\ pc'[t] = "room_wake" /\ tee'[t] = Head(queue_wait)
      BY <1>14 DEF RoomShift, Goto, TypeOK
    <3> QED
      BY <3>1, <3>2
  <2>2. /\ \A u \in Threads \ {t} : pc'[u] = pc[u] /\ tee'[u] = tee[u]
        /\ pc[t] = "room_shift" /\ pc'[t] \in {"room_wake", "pop_done"}
    BY <1>14 DEF RoomShift, Leaves, Goto, TypeOK
  <2> QED
    BY <2>1, <2>2 DEF PusherAnnounced, Listed
<1>15. ASSUME NEW t \in Threads, MaxSet(t)
      PROVE  PusherAnnounced'
  BY <1>15 DEF MaxSet, RolesOK
<1>16. ASSUME NEW t \in Threads, MaxShift(t)
      PROVE  PusherAnnounced'
  BY <1>16 DEF MaxShift, RolesOK
<1>17. ASSUME NEW t \in Threads, MaxWake(t)
      PROVE  PusherAnnounced'
  BY <1>17 DEF MaxWake, RolesOK
<1>18. ASSUME NEW t \in Pushers, NEW v \in Items, push(t, v)
      PROVE  PusherAnnounced'
  <2>1. \A u \in Threads : pc'[u] \in {"push_doze", "push_sleep"} =>
            pc[u] \in {"push_doze", "push_sleep"}
    BY <1>18 DEF push, Moves, Goto, TypeOK
  <2>2. \A s \in Threads : pc[s] \in {"room_wake", "max_wake"} => pc'[s] \in {"room_wake", "max_wake"} /\ tee'[s] = tee[s]
    BY <1>18 DEF push, Moves, Goto, TypeOK, locals
  <2>3. queue_wait' = queue_wait
    BY <1>18 DEF push, lists
  <2> QED
    BY <2>1, <2>2, <2>3 DEF PusherAnnounced
<1>19. ASSUME NEW t \in Poppers, NEW nb \in BOOLEAN, pop(t, nb)
      PROVE  PusherAnnounced'
  <2>1. \A u \in Threads : pc'[u] \in {"push_doze", "push_sleep"} =>
            pc[u] \in {"push_doze", "push_sleep"}
    BY <1>19 DEF pop, Moves, Goto, TypeOK
  <2>2. \A s \in Threads : pc[s] \in {"room_wake", "max_wake"} => pc'[s] \in {"room_wake", "max_wake"} /\ tee'[s] = tee[s]
    BY <1>19 DEF pop, Moves, Goto, TypeOK, locals
  <2>3. queue_wait' = queue_wait
    BY <1>19 DEF pop, lists
  <2> QED
    BY <2>1, <2>2, <2>3 DEF PusherAnnounced
<1>20. ASSUME NEW t \in Threads, NEW n \in Maxes, Sized, set_max(t, n)
      PROVE  PusherAnnounced'
  <2>1. \A u \in Threads : pc'[u] \in {"push_doze", "push_sleep"} =>
            pc[u] \in {"push_doze", "push_sleep"}
    BY <1>20 DEF set_max, Moves, Goto, TypeOK
  <2>2. \A s \in Threads : pc[s] \in {"room_wake", "max_wake"} => pc'[s] \in {"room_wake", "max_wake"} /\ tee'[s] = tee[s]
    BY <1>20 DEF set_max, Moves, Goto, TypeOK, locals
  <2>3. queue_wait' = queue_wait
    BY <1>20 DEF set_max, lists
  <2> QED
    BY <2>1, <2>2, <2>3 DEF PusherAnnounced
<1>21. CASE clear
  BY <1>21 DEF clear, TypeOK, PusherAnnounced, lists, locals, PCs, Inside,
     Asleep
<1>22. ASSUME NEW t \in Threads, wakeup(t)
      PROVE  PusherAnnounced'
  <2>1. \A u \in Threads : pc'[u] \in {"push_doze", "push_sleep"} => pc[u] = pc'[u]
    BY <1>22, WakeupMoves DEF WokenPC, TypeOK
  <2>2. \A s \in Threads : pc[s] \in {"room_wake", "max_wake"} => pc'[s] \in {"room_wake", "max_wake"}
    BY <1>22, WakeupMoves DEF WokenPC, TypeOK, Asleep
  <2> QED
    BY <1>22, <2>1, <2>2, WakeupMoves DEF PusherAnnounced
<1>23. ASSUME NEW t \in Killable, kill(t)
      PROVE  PusherAnnounced'
  BY <1>23 DEF kill, Goto, RolesOK, TypeOK, PusherAnnounced, lists, locals, PCs,
     Inside, Asleep
<1>24. CASE UNCHANGED vars
  BY <1>24 DEF vars, lists, locals, TypeOK, PusherAnnounced, lists, locals,
     PCs, Inside, Asleep
<1> QED
  BY <1>1, <1>2, <1>3, <1>4, <1>5, <1>6, <1>7, <1>8, <1>9, <1>10, <1>11,
     <1>12, <1>13, <1>14, <1>15, <1>16, <1>17, <1>18, <1>19, <1>20, <1>21,
     <1>22, <1>23, <1>24 DEF Next, Step

\* A thread that sleeps in SizedQueue#push, or is about to, is in @queue_wait or
\* is being woken.  A consumer that is killed between its @queue_wait.shift and
\* its t.wakeup takes the wakeup with it; and max=, which shifts @queue_wait
\* without the mutex, wakes a producer that is not asleep yet, to no effect:
\* hence the hypotheses.
THEOREM PushersAreAnnounced ==
    Killable \cap Poppers = {} /\ Maxes = {} => (Spec => []PusherAnnounced)
<1> SUFFICES ASSUME Killable \cap Poppers = {}, Maxes = {}
             PROVE  Spec => []PusherAnnounced
  OBVIOUS
<1>1. Init => PusherAnnounced
  BY DEF Init, PusherAnnounced
<1>2. QueueInv /\ PusherAnnounced /\ [Next]_vars => PusherAnnounced'
  BY PusherStep
<1> QED
  BY <1>1, <1>2, InvAlways, PTL DEF Spec

-----------------------------------------------------------------------------
(* Queue and SizedQueue implement FifoQueue.                                *)

\* What a call is up to depends on where its thread is.
LEMMA OpPush ==
    ASSUME NEW p \in InPush, NEW v, NEW k
    PROVE  OpAt(p, v, k) = <<"push", v>>
  BY DEF OpAt, InPush, InPop, Pushed, Popped

LEMMA OpPushed ==
    ASSUME NEW p \in Pushed, NEW v, NEW k
    PROVE  OpAt(p, v, k) = <<"pushed", None>>
  BY DEF OpAt, InPush, InPop, Pushed, Popped

LEMMA OpPop ==
    ASSUME NEW p \in InPop, NEW v, NEW k
    PROVE  OpAt(p, v, k) = <<k, None>>
  BY DEF OpAt, InPush, InPop, Pushed, Popped

LEMMA OpPopped ==
    ASSUME NEW p \in Popped, NEW v, NEW k
    PROVE  OpAt(p, v, k) = <<"popped", v>>
  BY DEF OpAt, InPush, InPop, Pushed, Popped

LEMMA OpMax ==
    ASSUME NEW p \in {"max_lock", "max_set"}, NEW v, NEW k
    PROVE  OpAt(p, v, k) = <<"max=", v>>
  BY DEF OpAt, InPush, InPop, Pushed, Popped

LEMMA OpNone ==
    ASSUME NEW p \in {"idle", "done", "max_shift", "max_wake"}, NEW v, NEW k
    PROVE  OpAt(p, v, k) = <<"none", None>>
  BY DEF OpAt, InPush, InPop, Pushed, Popped

LEMMA OpDead ==
    ASSUME NEW p \in {"kill_relock", "unwind", "dead"}, NEW v, NEW k
    PROVE  OpAt(p, v, k) = <<"dead", None>>
  BY DEF OpAt, InPush, InPop, Pushed, Popped

\* At p and at q a call is up to the same; v and w are what is in arg, j and k
\* the kinds of pop.
SamePhase(p, v, j, q, w, k) ==
    \/ p \in InPush /\ q \in InPush /\ v = w
    \/ p \in Pushed /\ q \in Pushed
    \/ p \in InPop /\ q \in InPop /\ j = k
    \/ p \in Popped /\ q \in Popped /\ v = w
    \/ p \in {"max_lock", "max_set"} /\ q \in {"max_lock", "max_set"} /\ v = w
    \/ /\ p \in {"idle", "done", "max_shift", "max_wake"}
       /\ q \in {"idle", "done", "max_shift", "max_wake"}
    \/ /\ p \in {"kill_relock", "unwind", "dead"}
       /\ q \in {"kill_relock", "unwind", "dead"}

LEMMA SameOp ==
    ASSUME NEW p, NEW v, NEW j, NEW q, NEW w, NEW k, SamePhase(p, v, j, q, w, k)
    PROVE  OpAt(p, v, j) = OpAt(q, w, k)
<1>1. CASE p \in InPush /\ q \in InPush /\ v = w
  <2>1. OpAt(p, v, j) = <<"push", v>>
    BY <1>1, OpPush
  <2>2. OpAt(q, w, k) = <<"push", v>>
    BY <1>1, OpPush
  <2> QED
    BY <2>1, <2>2
<1>2. CASE p \in Pushed /\ q \in Pushed
  <2>1. OpAt(p, v, j) = <<"pushed", None>>
    BY <1>2, OpPushed
  <2>2. OpAt(q, w, k) = <<"pushed", None>>
    BY <1>2, OpPushed
  <2> QED
    BY <2>1, <2>2
<1>3. CASE p \in InPop /\ q \in InPop /\ j = k
  <2>1. OpAt(p, v, j) = <<k, None>>
    BY <1>3, OpPop
  <2>2. OpAt(q, w, k) = <<k, None>>
    BY <1>3, OpPop
  <2> QED
    BY <2>1, <2>2
<1>4. CASE p \in Popped /\ q \in Popped /\ v = w
  <2>1. OpAt(p, v, j) = <<"popped", v>>
    BY <1>4, OpPopped
  <2>2. OpAt(q, w, k) = <<"popped", v>>
    BY <1>4, OpPopped
  <2> QED
    BY <2>1, <2>2
<1>5. CASE p \in {"max_lock", "max_set"} /\ q \in {"max_lock", "max_set"} /\ v = w
  <2>1. OpAt(p, v, j) = <<"max=", v>>
    BY <1>5, OpMax
  <2>2. OpAt(q, w, k) = <<"max=", v>>
    BY <1>5, OpMax
  <2> QED
    BY <2>1, <2>2
<1>6. CASE /\ p \in {"idle", "done", "max_shift", "max_wake"}
           /\ q \in {"idle", "done", "max_shift", "max_wake"}
  <2>1. OpAt(p, v, j) = <<"none", None>>
    BY <1>6, OpNone
  <2>2. OpAt(q, w, k) = <<"none", None>>
    BY <1>6, OpNone
  <2> QED
    BY <2>1, <2>2
<1>7. CASE /\ p \in {"kill_relock", "unwind", "dead"}
           /\ q \in {"kill_relock", "unwind", "dead"}
  <2>1. OpAt(p, v, j) = <<"dead", None>>
    BY <1>7, OpDead
  <2>2. OpAt(q, w, k) = <<"dead", None>>
    BY <1>7, OpDead
  <2> QED
    BY <2>1, <2>2
<1> QED
  BY <1>1, <1>2, <1>3, <1>4, <1>5, <1>6, <1>7 DEF SamePhase

\* At most t goes from one operation to another.
OthersStay(t) ==
    \A s \in Threads \ {t} :
        /\ pc'[s] \in {pc[s], WokenPC(pc[s])}
        /\ arg'[s] = arg[s]
        /\ PopOf(s)' = PopOf(s)
        /\ (s \in cleared') <=> (s \in cleared)

\* A thread that is woken is in the same operation as before.
LEMMA WokenOp ==
    ASSUME NEW q, NEW p \in {q, WokenPC(q)}, NEW v, NEW k
    PROVE  OpAt(p, v, k) = OpAt(q, v, k) /\ (p \in InPop <=> q \in InPop)
<1>1. CASE p = q
  BY <1>1
<1>2. CASE q = "push_sleep" /\ p = "push_relock"
  <2>1. p \in InPush /\ q \in InPush /\ p \notin InPop /\ q \notin InPop
    BY <1>2 DEF InPush, InPop
  <2> QED
    BY <2>1, SameOp DEF SamePhase
<1>3. CASE q = "pop_sleep" /\ p = "pop_relock"
  <2>1. p \in InPop /\ q \in InPop
    BY <1>3 DEF InPop
  <2> QED
    BY <2>1, SameOp DEF SamePhase
<1> QED
  BY <1>1, <1>2, <1>3 DEF WokenPC

\* Step by step, the abstract queue sees what becomes of t's operation.
LEMMA OpMoves ==
    ASSUME TypeOK, NEW t \in Threads, OthersStay(t), NEW o,
           OpAt(pc'[t], arg'[t], PopOf(t)') = o
    PROVE  /\ Fifo!Becomes(t, o)
           /\ OpOf(t) = o => [u \in Threads |-> OpOf(u)]' = [u \in Threads |-> OpOf(u)]
<1>1. \A s \in Threads \ {t} :
        OpAt(pc'[s], arg'[s], PopOf(s)') = OpAt(pc[s], arg[s], PopOf(s))
  BY WokenOp DEF OthersStay
<1> QED
  BY <1>1 DEF Fifo!Becomes, OpOf

\* The pops with a clear in them are the others' and t's.
LEMMA ClearedMoves ==
    ASSUME TypeOK, cleared' \subseteq Threads, NEW t \in Threads, OthersStay(t)
    PROVE  /\ pc'[t] \notin InPop =>
                {u \in cleared : pc[u] \in InPop}' = {u \in cleared : pc[u] \in InPop} \ {t}
           /\ (t \in cleared' /\ pc'[t] \in InPop <=> t \in cleared /\ pc[t] \in InPop) =>
                {u \in cleared : pc[u] \in InPop}' = {u \in cleared : pc[u] \in InPop}
<1>1. \A s \in Threads \ {t} : pc'[s] \in InPop <=> pc[s] \in InPop
  BY WokenOp DEF OthersStay
<1> QED
  BY <1>1 DEF OthersStay, TypeOK

\* A step in which t's operation stays what it was is no step of the queue's.
LEMMA OpStays ==
    ASSUME TypeOK, TypeOK', NEW t \in Threads, OthersStay(t), UNCHANGED <<que, max>>,
           SamePhase(pc'[t], arg'[t], PopOf(t)', pc[t], arg[t], PopOf(t)),
           t \in cleared' /\ pc'[t] \in InPop <=> t \in cleared /\ pc[t] \in InPop
    PROVE  UNCHANGED Fifo!vars
<1>1. cleared' \subseteq Threads
  BY DEF TypeOK
<1>2. OpAt(pc'[t], arg'[t], PopOf(t)') = OpAt(pc[t], arg[t], PopOf(t))
  BY SameOp
<1> QED
  BY <1>1, <1>2, OpMoves, ClearedMoves DEF Fifo!vars, OpOf

\* Every step is a step of the abstract queue or changes nothing it knows of.
LEMMA FifoStep ==
    ASSUME QueueInv, QueueInv', [Next]_vars
    PROVE  Fifo!Next \/ UNCHANGED Fifo!vars
<1> USE DEF QueueInv
<1>0. cleared' \subseteq Threads
  BY DEF TypeOK
<1>1. ASSUME NEW t \in Threads, Lock(t)
      PROVE  Fifo!Next \/ UNCHANGED Fifo!vars
  <2>1. OthersStay(t)
    BY <1>1 DEF Lock, Moves, Goto, lists, locals, OthersStay, PopOf, TypeOK
  <2>2. SamePhase(pc'[t], arg'[t], PopOf(t)', pc[t], arg[t], PopOf(t))
    BY <1>1 DEF Lock, Moves, Goto, lists, locals, TypeOK, SamePhase, PopOf,
       InPush, InPop, Pushed, Popped
  <2>3. t \in cleared' /\ pc'[t] \in InPop <=> t \in cleared /\ pc[t] \in InPop
    BY <1>1 DEF Lock, Moves, Goto, lists, locals, TypeOK, InPop
  <2> QED
    BY <1>1, <2>1, <2>2, <2>3, OpStays DEF Lock, lists, locals
<1>2. ASSUME NEW t \in Threads, Relock(t)
      PROVE  Fifo!Next \/ UNCHANGED Fifo!vars
  <2>1. OthersStay(t)
    BY <1>2 DEF Relock, Moves, Goto, lists, locals, OthersStay, PopOf, TypeOK
  <2>2. SamePhase(pc'[t], arg'[t], PopOf(t)', pc[t], arg[t], PopOf(t))
    BY <1>2 DEF Relock, Moves, Goto, lists, locals, TypeOK, SamePhase, PopOf,
       InPush, InPop, Pushed, Popped
  <2>3. t \in cleared' /\ pc'[t] \in InPop <=> t \in cleared /\ pc[t] \in InPop
    BY <1>2 DEF Relock, Moves, Goto, lists, locals, TypeOK, InPop
  <2> QED
    BY <1>2, <2>1, <2>2, <2>3, OpStays DEF Relock, lists, locals
<1>3. ASSUME NEW t \in Threads, Sleep(t)
      PROVE  Fifo!Next \/ UNCHANGED Fifo!vars
  <2>1. OthersStay(t)
    BY <1>3 DEF Sleep, Leaves, Goto, lists, locals, OthersStay, PopOf, TypeOK
  <2>2. SamePhase(pc'[t], arg'[t], PopOf(t)', pc[t], arg[t], PopOf(t))
    BY <1>3 DEF Sleep, Leaves, Goto, lists, locals, TypeOK, SamePhase, PopOf,
       InPush, InPop, Pushed, Popped
  <2>3. t \in cleared' /\ pc'[t] \in InPop <=> t \in cleared /\ pc[t] \in InPop
    BY <1>3 DEF Sleep, Leaves, Goto, lists, locals, TypeOK, InPop
  <2> QED
    BY <1>3, <2>1, <2>2, <2>3, OpStays DEF Sleep, Leaves, lists, locals
<1>4. ASSUME NEW t \in Threads, Unwind(t)
      PROVE  Fifo!Next \/ UNCHANGED Fifo!vars
  <2>1. OthersStay(t)
    BY <1>4 DEF Unwind, Moves, Goto, Forgets, lists, locals, OthersStay, PopOf,
       TypeOK
  <2>2. SamePhase(pc'[t], arg'[t], PopOf(t)', pc[t], arg[t], PopOf(t))
    BY <1>4 DEF Unwind, Moves, Goto, Forgets, lists, locals, TypeOK, SamePhase,
       PopOf, InPush, InPop, Pushed, Popped
  <2>3. t \in cleared' /\ pc'[t] \in InPop <=> t \in cleared /\ pc[t] \in InPop
    BY <1>4 DEF Unwind, Moves, Goto, Forgets, lists, locals, TypeOK, InPop
  <2> QED
    BY <1>4, <2>1, <2>2, <2>3, OpStays DEF Unwind, Forgets, lists, locals
<1>5. ASSUME NEW t \in Threads, PushTest(t)
      PROVE  Fifo!Next \/ UNCHANGED Fifo!vars
  <2>1. OthersStay(t)
    BY <1>5 DEF PushTest, Goto, lists, locals, OthersStay, PopOf, TypeOK
  <2>2. SamePhase(pc'[t], arg'[t], PopOf(t)', pc[t], arg[t], PopOf(t))
    BY <1>5 DEF PushTest, Goto, lists, locals, TypeOK, SamePhase, PopOf, InPush,
       InPop, Pushed, Popped
  <2>3. t \in cleared' /\ pc'[t] \in InPop <=> t \in cleared /\ pc[t] \in InPop
    BY <1>5 DEF PushTest, Goto, lists, locals, TypeOK, InPop
  <2> QED
    BY <1>5, <2>1, <2>2, <2>3, OpStays DEF PushTest, lists, locals
<1>6. ASSUME NEW t \in Threads, PushDo(t)
      PROVE  Fifo!Next \/ UNCHANGED Fifo!vars
  <2>1. OthersStay(t)
    BY <1>6 DEF PushDo, Moves, Goto, lists, locals, OthersStay, PopOf, TypeOK
  <2>2. OpOf(t) = <<"push", arg[t]>>
    BY <1>6, OpPush DEF PushDo, Moves, Goto, lists, locals, TypeOK, OpOf, InPush,
       InPop, Pushed, Popped
  <2>3. OpAt(pc'[t], arg'[t], PopOf(t)') = <<"pushed", None>>
    BY <1>6, OpPushed DEF PushDo, Moves, Goto, lists, locals, TypeOK, PopOf,
       InPush, InPop, Pushed, Popped
  <2>4. Fifo!Becomes(t, <<"pushed", None>>)
    BY <2>1, <2>3, OpMoves
  <2>5. {u \in cleared : pc[u] \in InPop}' =
          {u \in cleared : pc[u] \in InPop}
    <3>1. t \in cleared' /\ pc'[t] \in InPop <=> t \in cleared /\ pc[t] \in InPop
      BY <1>6 DEF PushDo, Moves, Goto, lists, locals, TypeOK, InPop
    <3> QED
      BY <1>0, <2>1, <3>1, ClearedMoves
  <2>6. Fifo!Enqueue(t)
    BY <1>6, <2>2, <2>4, <2>5 DEF PushDo, Moves, lists, locals, Fifo!Enqueue,
       FoundOK
  <2> QED
    BY <2>6 DEF Fifo!Next
<1>7. ASSUME NEW t \in Threads, PushShift(t)
      PROVE  Fifo!Next \/ UNCHANGED Fifo!vars
  <2>1. CASE waiting = <<>>
    <3>1. OthersStay(t)
      BY <1>7, <2>1 DEF PushShift, Leaves, Goto, lists, locals, OthersStay,
         PopOf, TypeOK
    <3>2. OpOf(t) = <<"pushed", None>>
      BY <1>7, <2>1, OpPushed DEF PushShift, Leaves, Goto, lists, locals, TypeOK,
         OpOf, InPush, InPop, Pushed, Popped
    <3>3. OpAt(pc'[t], arg'[t], PopOf(t)') = <<"none", None>>
      BY <1>7, <2>1, OpNone DEF PushShift, Leaves, Goto, lists, locals, TypeOK,
         PopOf, InPush, InPop, Pushed, Popped
    <3>4. Fifo!Becomes(t, <<"none", None>>)
      BY <3>1, <3>3, OpMoves
    <3>5. {u \in cleared : pc[u] \in InPop}' =
            {u \in cleared : pc[u] \in InPop}
      <4>1. t \in cleared' /\ pc'[t] \in InPop <=> t \in cleared /\ pc[t] \in InPop
        BY <1>7, <2>1 DEF PushShift, Leaves, Goto, lists, locals, TypeOK, InPop
      <4> QED
        BY <1>0, <3>1, <4>1, ClearedMoves
    <3>6. Fifo!Return(t)
      BY <1>7, <2>1, <3>2, <3>4, <3>5 DEF PushShift, Leaves, lists, locals,
         Fifo!Return, Fifo!Idle
    <3> QED
      BY <3>6 DEF Fifo!Next
  <2>2. CASE waiting # <<>>
    <3>1. OthersStay(t)
      BY <1>7, <2>2 DEF PushShift, Leaves, Goto, lists, locals, OthersStay,
         PopOf, TypeOK
    <3>2. SamePhase(pc'[t], arg'[t], PopOf(t)', pc[t], arg[t], PopOf(t))
      BY <1>7, <2>2 DEF PushShift, Leaves, Goto, lists, locals, TypeOK,
         SamePhase, PopOf, InPush, InPop, Pushed, Popped
    <3>3. t \in cleared' /\ pc'[t] \in InPop <=> t \in cleared /\ pc[t] \in InPop
      BY <1>7, <2>2 DEF PushShift, Leaves, Goto, lists, locals, TypeOK, InPop
    <3> QED
      BY <1>7, <2>2, <3>1, <3>2, <3>3, OpStays DEF PushShift, Leaves, lists,
         locals
  <2> QED
    BY <2>1, <2>2
<1>8. ASSUME NEW t \in Threads, Wake(t)
      PROVE  Fifo!Next \/ UNCHANGED Fifo!vars
  <2>1. OthersStay(t)
    BY <1>8, WakeMoves, WakeOthers DEF OthersStay, PopOf, TypeOK
  <2>2. SamePhase(pc'[t], arg'[t], PopOf(t)', pc[t], arg[t], PopOf(t))
    BY <1>8, WakeMoves DEF WakesFrom, TypeOK, SamePhase, PopOf, InPush, InPop,
       Pushed, Popped
  <2>3. t \in cleared' /\ pc'[t] \in InPop <=> t \in cleared /\ pc[t] \in InPop
    BY <1>8, WakeMoves DEF WakesFrom, TypeOK, InPop
  <2> QED
    BY <1>8, <2>1, <2>2, <2>3, OpStays, WakeMoves
<1>9. ASSUME NEW t \in Threads, Run(t)
      PROVE  Fifo!Next \/ UNCHANGED Fifo!vars
  <2>1. CASE pc[t] = "push_run"
    <3>1. OthersStay(t)
      BY <1>9, <2>1, RunMoves DEF WakesFrom, OthersStay, PopOf, TypeOK
    <3>2. OpOf(t) = <<"pushed", None>>
      BY <1>9, <2>1, RunMoves, OpPushed DEF WakesFrom, TypeOK, OpOf, InPush,
         InPop, Pushed, Popped
    <3>3. OpAt(pc'[t], arg'[t], PopOf(t)') = <<"none", None>>
      BY <1>9, <2>1, RunMoves, OpNone DEF WakesFrom, TypeOK, PopOf, InPush,
         InPop, Pushed, Popped
    <3>4. Fifo!Becomes(t, <<"none", None>>)
      BY <3>1, <3>3, OpMoves
    <3>5. {u \in cleared : pc[u] \in InPop}' =
            {u \in cleared : pc[u] \in InPop}
      <4>1. t \in cleared' /\ pc'[t] \in InPop <=> t \in cleared /\ pc[t] \in InPop
        BY <1>9, <2>1, RunMoves DEF WakesFrom, TypeOK, InPop
      <4> QED
        BY <1>0, <3>1, <4>1, ClearedMoves
    <3>6. Fifo!Return(t)
      BY <1>9, <2>1, RunMoves, <3>2, <3>4, <3>5 DEF Fifo!Return, Fifo!Idle
    <3> QED
      BY <3>6 DEF Fifo!Next
  <2>2. CASE pc[t] = "pop_run"
    <3>1. OthersStay(t)
      BY <1>9, <2>2, RunMoves DEF WakesFrom, OthersStay, PopOf, TypeOK
    <3>2. OpOf(t) = <<"popped", arg[t]>>
      BY <1>9, <2>2, RunMoves, OpPopped DEF WakesFrom, TypeOK, OpOf, InPush,
         InPop, Pushed, Popped
    <3>3. OpAt(pc'[t], arg'[t], PopOf(t)') = <<"none", None>>
      BY <1>9, <2>2, RunMoves, OpNone DEF WakesFrom, TypeOK, PopOf, InPush,
         InPop, Pushed, Popped
    <3>4. Fifo!Becomes(t, <<"none", None>>)
      BY <3>1, <3>3, OpMoves
    <3>5. {u \in cleared : pc[u] \in InPop}' =
            {u \in cleared : pc[u] \in InPop}
      <4>1. t \in cleared' /\ pc'[t] \in InPop <=> t \in cleared /\ pc[t] \in InPop
        BY <1>9, <2>2, RunMoves DEF WakesFrom, TypeOK, InPop
      <4> QED
        BY <1>0, <3>1, <4>1, ClearedMoves
    <3>6. Fifo!Return(t)
      BY <1>9, <2>2, RunMoves, <3>2, <3>4, <3>5 DEF Fifo!Return, Fifo!Idle
    <3> QED
      BY <3>6 DEF Fifo!Next
  <2> QED
    BY <1>9, <2>1, <2>2, RunMoves
<1>10. ASSUME NEW t \in Threads, PopTest(t)
      PROVE  Fifo!Next \/ UNCHANGED Fifo!vars
  <2>1. CASE que = <<>> /\ t \in non_block
    <3>1. OthersStay(t)
      BY <1>10, <2>1 DEF PopTest, Leaves, Goto, lists, locals, PopOf, OthersStay,
         PopOf, TypeOK
    <3>2. OpOf(t) = <<"pop_nonblock", None>>
      BY <1>10, <2>1, OpPop DEF PopTest, Leaves, Goto, lists, locals, PopOf,
         TypeOK, OpOf, InPush, InPop, Pushed, Popped
    <3>3. OpAt(pc'[t], arg'[t], PopOf(t)') = <<"none", None>>
      BY <1>10, <2>1, OpNone DEF PopTest, Leaves, Goto, lists, locals, PopOf,
         TypeOK, PopOf, InPush, InPop, Pushed, Popped
    <3>4. Fifo!Becomes(t, <<"none", None>>)
      BY <3>1, <3>3, OpMoves
    <3>5. {u \in cleared : pc[u] \in InPop}' =
            {u \in cleared : pc[u] \in InPop} \ {t}
      <4>1. pc'[t] \notin InPop
        BY <1>10, <2>1 DEF PopTest, Leaves, Goto, lists, locals, PopOf, TypeOK,
           InPop
      <4> QED
        BY <1>0, <3>1, <4>1, ClearedMoves
    <3>6. Fifo!Refuse(t)
      BY <1>10, <2>1, <3>2, <3>4, <3>5 DEF PopTest, Leaves, lists, locals, PopOf,
         Fifo!Refuse, Fifo!Idle
    <3> QED
      BY <3>6 DEF Fifo!Next
  <2>2. CASE ~(que = <<>> /\ t \in non_block)
    <3>1. OthersStay(t)
      BY <1>10, <2>2 DEF PopTest, Leaves, Goto, lists, locals, OthersStay, PopOf,
         TypeOK
    <3>2. SamePhase(pc'[t], arg'[t], PopOf(t)', pc[t], arg[t], PopOf(t))
      BY <1>10, <2>2 DEF PopTest, Leaves, Goto, lists, locals, TypeOK, SamePhase,
         PopOf, InPush, InPop, Pushed, Popped
    <3>3. t \in cleared' /\ pc'[t] \in InPop <=> t \in cleared /\ pc[t] \in InPop
      BY <1>10, <2>2 DEF PopTest, Leaves, Goto, lists, locals, TypeOK, InPop
    <3> QED
      BY <1>10, <2>2, <3>1, <3>2, <3>3, OpStays DEF PopTest, Leaves, lists, locals
  <2> QED
    BY <2>1, <2>2
<1>11. ASSUME NEW t \in Threads, PopShift(t)
      PROVE  Fifo!Next \/ UNCHANGED Fifo!vars
  <2>1. CASE que = <<>>
    <3>1. OthersStay(t)
      BY <1>11, <2>1 DEF PopShift, Leaves, Goto, lists, locals, OthersStay, PopOf,
         TypeOK
    <3>2. OpOf(t) = <<PopOf(t), None>>
      BY <1>11, <2>1, OpPop DEF PopShift, Leaves, Goto, lists, locals, TypeOK,
         OpOf, InPush, InPop, Pushed, Popped
    <3>3. OpAt(pc'[t], arg'[t], PopOf(t)') = <<"popped", None>>
      BY <1>11, <2>1, OpPopped DEF PopShift, Leaves, Goto, lists, locals, TypeOK,
         PopOf, InPush, InPop, Pushed, Popped
    <3>4. Fifo!Becomes(t, <<"popped", None>>)
      BY <3>1, <3>3, OpMoves
    <3>5. {u \in cleared : pc[u] \in InPop}' =
            {u \in cleared : pc[u] \in InPop} \ {t}
      <4>1. pc'[t] \notin InPop
        BY <1>11, <2>1 DEF PopShift, Leaves, Goto, lists, locals, TypeOK, InPop
      <4> QED
        BY <1>0, <3>1, <4>1, ClearedMoves
    <3>6. Fifo!DequeueNil(t)
      BY <1>11, <2>1, <3>2, <3>4, <3>5 DEF PopShift, Leaves, lists, locals,
         Fifo!DequeueNil, FoundOK, Fifo!Popping, PopOf, InPop
    <3> QED
      BY <3>6 DEF Fifo!Next
  <2>2. CASE que # <<>>
    <3>1. OthersStay(t)
      BY <1>11, <2>2 DEF PopShift, Leaves, Goto, lists, locals, OthersStay, PopOf,
         TypeOK
    <3>2. OpOf(t) = <<PopOf(t), None>>
      BY <1>11, <2>2, OpPop DEF PopShift, Leaves, Goto, lists, locals, TypeOK,
         OpOf, InPush, InPop, Pushed, Popped
    <3>3. OpAt(pc'[t], arg'[t], PopOf(t)') = <<"popped", Head(que)>>
      BY <1>11, <2>2, OpPopped DEF PopShift, Leaves, Goto, lists, locals, TypeOK,
         PopOf, InPush, InPop, Pushed, Popped
    <3>4. Fifo!Becomes(t, <<"popped", Head(que)>>)
      BY <3>1, <3>3, OpMoves
    <3>5. {u \in cleared : pc[u] \in InPop}' =
            {u \in cleared : pc[u] \in InPop} \ {t}
      <4>1. pc'[t] \notin InPop
        BY <1>11, <2>2 DEF PopShift, Leaves, Goto, lists, locals, TypeOK, InPop
      <4> QED
        BY <1>0, <3>1, <4>1, ClearedMoves
    <3>6. Fifo!Dequeue(t)
      BY <1>11, <2>2, <3>2, <3>4, <3>5 DEF PopShift, Leaves, lists, locals,
         Fifo!Dequeue, Fifo!Popping, PopOf
    <3> QED
      BY <3>6 DEF Fifo!Next
  <2> QED
    BY <2>1, <2>2
<1>12. ASSUME NEW t \in Threads, Return(t)
      PROVE  Fifo!Next \/ UNCHANGED Fifo!vars
  <2>1. CASE pc[t] = "pop_done"
    <3>1. OthersStay(t)
      BY <1>12, <2>1 DEF Return, Goto, Forgets, lists, locals, OthersStay, PopOf,
         TypeOK
    <3>2. OpOf(t) = <<"popped", arg[t]>>
      BY <1>12, <2>1, OpPopped DEF Return, Goto, Forgets, lists, locals, TypeOK,
         OpOf, InPush, InPop, Pushed, Popped
    <3>3. OpAt(pc'[t], arg'[t], PopOf(t)') = <<"none", None>>
      BY <1>12, <2>1, OpNone DEF Return, Goto, Forgets, lists, locals, TypeOK,
         PopOf, InPush, InPop, Pushed, Popped
    <3>4. Fifo!Becomes(t, <<"none", None>>)
      BY <3>1, <3>3, OpMoves
    <3>5. {u \in cleared : pc[u] \in InPop}' =
            {u \in cleared : pc[u] \in InPop}
      <4>1. t \in cleared' /\ pc'[t] \in InPop <=> t \in cleared /\ pc[t] \in InPop
        BY <1>12, <2>1 DEF Return, Goto, Forgets, lists, locals, TypeOK, InPop
      <4> QED
        BY <1>0, <3>1, <4>1, ClearedMoves
    <3>6. Fifo!Return(t)
      BY <1>12, <2>1, <3>2, <3>4, <3>5 DEF Return, Forgets, lists, locals,
         Fifo!Return, Fifo!Idle
    <3> QED
      BY <3>6 DEF Fifo!Next
  <2>2. CASE pc[t] = "done"
    <3>1. OthersStay(t)
      BY <1>12, <2>2 DEF Return, Goto, Forgets, lists, locals, OthersStay, PopOf,
         TypeOK
    <3>2. SamePhase(pc'[t], arg'[t], PopOf(t)', pc[t], arg[t], PopOf(t))
      BY <1>12, <2>2 DEF Return, Goto, Forgets, lists, locals, TypeOK, SamePhase,
         PopOf, InPush, InPop, Pushed, Popped
    <3>3. t \in cleared' /\ pc'[t] \in InPop <=> t \in cleared /\ pc[t] \in InPop
      BY <1>12, <2>2 DEF Return, Goto, Forgets, lists, locals, TypeOK, InPop
    <3> QED
      BY <1>12, <2>2, <3>1, <3>2, <3>3, OpStays DEF Return, Forgets, lists, locals
  <2> QED
    BY <1>12, <2>1, <2>2 DEF Return
<1>13. ASSUME NEW t \in Threads, RoomTest(t)
      PROVE  Fifo!Next \/ UNCHANGED Fifo!vars
  <2>1. OthersStay(t)
    BY <1>13 DEF RoomTest, Leaves, Goto, lists, locals, OthersStay, PopOf, TypeOK
  <2>2. SamePhase(pc'[t], arg'[t], PopOf(t)', pc[t], arg[t], PopOf(t))
    BY <1>13 DEF RoomTest, Leaves, Goto, lists, locals, TypeOK, SamePhase, PopOf,
       InPush, InPop, Pushed, Popped
  <2>3. t \in cleared' /\ pc'[t] \in InPop <=> t \in cleared /\ pc[t] \in InPop
    BY <1>13 DEF RoomTest, Leaves, Goto, lists, locals, TypeOK, InPop
  <2> QED
    BY <1>13, <2>1, <2>2, <2>3, OpStays DEF RoomTest, Leaves, lists, locals
<1>14. ASSUME NEW t \in Threads, RoomShift(t)
      PROVE  Fifo!Next \/ UNCHANGED Fifo!vars
  <2>1. OthersStay(t)
    BY <1>14 DEF RoomShift, Leaves, Goto, lists, locals, OthersStay, PopOf, TypeOK
  <2>2. SamePhase(pc'[t], arg'[t], PopOf(t)', pc[t], arg[t], PopOf(t))
    BY <1>14 DEF RoomShift, Leaves, Goto, lists, locals, TypeOK, SamePhase, PopOf,
       InPush, InPop, Pushed, Popped
  <2>3. t \in cleared' /\ pc'[t] \in InPop <=> t \in cleared /\ pc[t] \in InPop
    BY <1>14 DEF RoomShift, Leaves, Goto, lists, locals, TypeOK, InPop
  <2> QED
    BY <1>14, <2>1, <2>2, <2>3, OpStays DEF RoomShift, Leaves, lists, locals
<1>15. ASSUME NEW t \in Threads, MaxSet(t)
      PROVE  Fifo!Next \/ UNCHANGED Fifo!vars
  <2>1. OthersStay(t)
    BY <1>15, MaxSetMoves DEF OthersStay, PopOf, TypeOK
  <2>2. OpOf(t) = <<"max=", arg[t]>>
    BY <1>15, MaxSetMoves, OpMax DEF TypeOK, OpOf, InPush, InPop, Pushed, Popped
  <2>3. OpAt(pc'[t], arg'[t], PopOf(t)') = <<"none", None>>
    BY <1>15, MaxSetMoves, OpNone DEF TypeOK, PopOf, InPush, InPop, Pushed, Popped
  <2>4. Fifo!Becomes(t, <<"none", None>>)
    BY <2>1, <2>3, OpMoves
  <2>5. {u \in cleared : pc[u] \in InPop}' =
          {u \in cleared : pc[u] \in InPop}
    <3>1. t \in cleared' /\ pc'[t] \in InPop <=> t \in cleared /\ pc[t] \in InPop
      BY <1>15, MaxSetMoves DEF TypeOK, InPop
    <3> QED
      BY <1>0, <2>1, <3>1, ClearedMoves
  <2>6. Fifo!SetMax(t)
    BY <1>15, MaxSetMoves, <2>2, <2>4, <2>5 DEF Fifo!SetMax, Fifo!Idle
  <2> QED
    BY <2>6 DEF Fifo!Next
<1>16. ASSUME NEW t \in Threads, MaxShift(t)
      PROVE  Fifo!Next \/ UNCHANGED Fifo!vars
  <2>1. OthersStay(t)
    BY <1>16, MaxShiftMoves DEF OthersStay, PopOf, TypeOK
  <2>2. SamePhase(pc'[t], arg'[t], PopOf(t)', pc[t], arg[t], PopOf(t))
    BY <1>16, MaxShiftMoves DEF TypeOK, SamePhase, PopOf, InPush, InPop, Pushed,
       Popped
  <2>3. t \in cleared' /\ pc'[t] \in InPop <=> t \in cleared /\ pc[t] \in InPop
    BY <1>16, MaxShiftMoves DEF TypeOK, InPop
  <2> QED
    BY <1>16, <2>1, <2>2, <2>3, OpStays, MaxShiftMoves
<1>17. ASSUME NEW t \in Threads, MaxWake(t)
      PROVE  Fifo!Next \/ UNCHANGED Fifo!vars
  <2>1. OthersStay(t)
    BY <1>17, MaxWakeMoves, MaxWakeOthers DEF OthersStay, PopOf, TypeOK
  <2>2. SamePhase(pc'[t], arg'[t], PopOf(t)', pc[t], arg[t], PopOf(t))
    BY <1>17, MaxWakeMoves DEF WakesFrom, TypeOK, SamePhase, PopOf, InPush, InPop,
       Pushed, Popped
  <2>3. t \in cleared' /\ pc'[t] \in InPop <=> t \in cleared /\ pc[t] \in InPop
    BY <1>17, MaxWakeMoves DEF WakesFrom, TypeOK, InPop
  <2> QED
    BY <1>17, <2>1, <2>2, <2>3, OpStays, MaxWakeMoves
<1>18. ASSUME NEW t \in Pushers, NEW v \in Items, push(t, v)
      PROVE  Fifo!Next \/ UNCHANGED Fifo!vars
  <2>1. OthersStay(t)
    BY <1>18 DEF push, Moves, Goto, lists, locals, OthersStay, PopOf, TypeOK
  <2>2. OpOf(t) = <<"none", None>>
    BY <1>18, OpNone DEF push, Moves, Goto, lists, locals, TypeOK, OpOf, InPush,
       InPop, Pushed, Popped
  <2>3. OpAt(pc'[t], arg'[t], PopOf(t)') = <<"push", v>>
    BY <1>18, OpPush DEF push, Moves, Goto, lists, locals, TypeOK, PopOf, InPush,
       InPop, Pushed, Popped
  <2>4. Fifo!Becomes(t, <<"push", v>>)
    BY <2>1, <2>3, OpMoves
  <2>5. {u \in cleared : pc[u] \in InPop}' =
          {u \in cleared : pc[u] \in InPop}
    <3>1. t \in cleared' /\ pc'[t] \in InPop <=> t \in cleared /\ pc[t] \in InPop
      BY <1>18 DEF push, Moves, Goto, lists, locals, TypeOK, InPop
    <3> QED
      BY <1>0, <2>1, <3>1, ClearedMoves
  <2>6. Fifo!Call(t)
    BY <1>18, <2>2, <2>4, <2>5 DEF push, Moves, lists, locals, Fifo!Call,
       Fifo!Idle
  <2> QED
    BY <2>6 DEF Fifo!Next
<1>19. ASSUME NEW t \in Poppers, NEW nb \in BOOLEAN, pop(t, nb)
      PROVE  Fifo!Next \/ UNCHANGED Fifo!vars
  <2>1. OthersStay(t)
    BY <1>19 DEF pop, Moves, Goto, lists, locals, FoundOK, OthersStay, PopOf,
       TypeOK
  <2>2. OpOf(t) = <<"none", None>>
    BY <1>19, OpNone DEF pop, Moves, Goto, lists, locals, FoundOK, TypeOK, OpOf,
       InPush, InPop, Pushed, Popped
  <2>3. OpAt(pc'[t], arg'[t], PopOf(t)') = <<PopOf(t)', None>>
    BY <1>19, OpPop DEF pop, Moves, Goto, lists, locals, FoundOK, TypeOK, PopOf,
       InPush, InPop, Pushed, Popped
  <2>4. Fifo!Becomes(t, <<PopOf(t)', None>>)
    BY <2>1, <2>3, OpMoves
  <2>5. {u \in cleared : pc[u] \in InPop}' =
          {u \in cleared : pc[u] \in InPop}
    <3>1. t \in cleared' /\ pc'[t] \in InPop <=> t \in cleared /\ pc[t] \in InPop
      BY <1>19 DEF pop, Moves, Goto, lists, locals, FoundOK, TypeOK, InPop
    <3> QED
      BY <1>0, <2>1, <3>1, ClearedMoves
  <2>6. Fifo!Call(t)
    BY <1>19, <2>2, <2>4, <2>5 DEF pop, Moves, lists, locals, FoundOK, Fifo!Call,
       Fifo!Idle, PopOf
  <2> QED
    BY <2>6 DEF Fifo!Next
<1>20. ASSUME NEW t \in Threads, NEW n \in Maxes, Sized, set_max(t, n)
      PROVE  Fifo!Next \/ UNCHANGED Fifo!vars
  <2>1. OthersStay(t)
    BY <1>20 DEF set_max, Moves, Goto, lists, locals, OthersStay, PopOf, TypeOK
  <2>2. OpOf(t) = <<"none", None>>
    BY <1>20, OpNone DEF set_max, Moves, Goto, lists, locals, TypeOK, OpOf,
       InPush, InPop, Pushed, Popped
  <2>3. OpAt(pc'[t], arg'[t], PopOf(t)') = <<"max=", n>>
    BY <1>20, OpMax DEF set_max, Moves, Goto, lists, locals, TypeOK, PopOf,
       InPush, InPop, Pushed, Popped
  <2>4. Fifo!Becomes(t, <<"max=", n>>)
    BY <2>1, <2>3, OpMoves
  <2>5. {u \in cleared : pc[u] \in InPop}' =
          {u \in cleared : pc[u] \in InPop}
    <3>1. t \in cleared' /\ pc'[t] \in InPop <=> t \in cleared /\ pc[t] \in InPop
      BY <1>20 DEF set_max, Moves, Goto, lists, locals, TypeOK, InPop
    <3> QED
      BY <1>0, <2>1, <3>1, ClearedMoves
  <2>6. Fifo!Call(t)
    BY <1>20, <2>2, <2>4, <2>5 DEF set_max, Moves, lists, locals, Fifo!Call,
       Fifo!Idle
  <2> QED
    BY <2>6 DEF Fifo!Next
<1>21. CASE clear
  <2>1. \A u \in Threads : OpOf(u)[1] \in Fifo!Popping <=> pc[u] \in InPop
    <3> SUFFICES ASSUME NEW u \in Threads
                 PROVE  OpOf(u)[1] \in Fifo!Popping <=> pc[u] \in InPop
      OBVIOUS
    <3>1. CASE pc[u] \in InPop
      <4>1. OpOf(u) = <<PopOf(u), None>>
        BY <3>1, OpPop DEF OpOf
      <4> QED
        BY <3>1, <4>1 DEF PopOf, Fifo!Popping
    <3>2. CASE pc[u] \notin InPop
      <4>1. \/ OpOf(u) = <<"push", arg[u]>> \/ OpOf(u) = <<"pushed", None>>
            \/ OpOf(u) = <<"popped", arg[u]>> \/ OpOf(u) = <<"max=", arg[u]>>
            \/ OpOf(u) = <<"none", None>> \/ OpOf(u) = <<"dead", None>>
        <5>1. \/ pc[u] \in InPush \/ pc[u] \in Pushed \/ pc[u] \in Popped
              \/ pc[u] \in {"max_lock", "max_set"}
              \/ pc[u] \in {"idle", "done", "max_shift", "max_wake"}
              \/ pc[u] \in {"kill_relock", "unwind", "dead"}
          BY <3>2 DEF TypeOK, PCs, Inside, Asleep, InPush, InPop, Pushed, Popped
        <5> QED
          BY <5>1, OpPush, OpPushed, OpPopped, OpMax, OpNone, OpDead DEF OpOf
      <4> QED
        BY <3>2, <4>1 DEF Fifo!Popping
    <3> QED
      BY <3>1, <3>2
  <2> QED
    BY <1>21, <2>1 DEF clear, Fifo!Next, Fifo!Clear, OpOf, PopOf, lists
<1>22. ASSUME NEW t \in Threads, wakeup(t)
      PROVE  Fifo!Next \/ UNCHANGED Fifo!vars
  <2>1. OthersStay(t)
    BY <1>22, WakeupMoves DEF WokenPC, Asleep, OthersStay, PopOf, TypeOK
  <2>2. SamePhase(pc'[t], arg'[t], PopOf(t)', pc[t], arg[t], PopOf(t))
    BY <1>22, WakeupMoves DEF WokenPC, Asleep, TypeOK, SamePhase, PopOf, InPush,
       InPop, Pushed, Popped
  <2>3. t \in cleared' /\ pc'[t] \in InPop <=> t \in cleared /\ pc[t] \in InPop
    BY <1>22, WakeupMoves DEF WokenPC, Asleep, TypeOK, InPop
  <2> QED
    BY <1>22, <2>1, <2>2, <2>3, OpStays, WakeupMoves
<1>23. ASSUME NEW t \in Killable, kill(t)
      PROVE  Fifo!Next \/ UNCHANGED Fifo!vars
  <2>1. OthersStay(t)
    BY <1>23 DEF kill, Goto, lists, locals, OthersStay, PopOf, TypeOK
  <2>2. OpOf(t) = OpOf(t)
    BY <1>23 DEF kill, Goto, lists, locals, TypeOK, OpOf, InPush, InPop, Pushed,
       Popped
  <2>3. OpAt(pc'[t], arg'[t], PopOf(t)') = <<"dead", None>>
    BY <1>23, OpDead DEF kill, Goto, lists, locals, TypeOK, PopOf, InPush, InPop,
       Pushed, Popped
  <2>4. Fifo!Becomes(t, <<"dead", None>>)
    BY <2>1, <2>3, OpMoves
  <2>5. {u \in cleared : pc[u] \in InPop}' =
          {u \in cleared : pc[u] \in InPop} \ {t}
    <3>1. pc'[t] \notin InPop
      BY <1>23 DEF kill, Goto, lists, locals, TypeOK, InPop
    <3> QED
      BY <1>0, <2>1, <3>1, ClearedMoves
  <2>6. Fifo!Die(t)
    BY <1>23, <2>2, <2>4, <2>5 DEF kill, lists, locals, Fifo!Die, Fifo!Idle
  <2> QED
    BY <2>6 DEF Fifo!Next
<1>24. CASE UNCHANGED vars
  BY <1>24 DEF vars, lists, locals, Fifo!vars, OpOf, PopOf
<1> QED
  BY <1>1, <1>2, <1>3, <1>4, <1>5, <1>6, <1>7, <1>8, <1>9, <1>10, <1>11,
     <1>12, <1>13, <1>14, <1>15, <1>16, <1>17, <1>18, <1>19, <1>20, <1>21,
     <1>22, <1>23, <1>24 DEF Next, Step

\* Every behaviour of the code is one of an object whose operations are atomic:
\* what is pushed is handed out at most once and in order, a SizedQueue appends
\* only when @que.length <= @max, and nil is popped only because of a clear.
THEOREM QueueImplementsFifo == Spec => ImplementsFifo
<1>1. Init => Fifo!Init
  <2> SUFFICES ASSUME Init
               PROVE  Fifo!Init
    OBVIOUS
  <2>1. \A t \in Threads : OpOf(t) = <<"none", None>>
    BY OpNone DEF Init, OpOf
  <2> QED
    BY <2>1 DEF Init, Fifo!Init, Fifo!Idle
<1>2. QueueInv /\ QueueInv' /\ [Next]_vars => [Fifo!Next]_(Fifo!vars)
  BY FifoStep
<1> QED
  BY <1>1, <1>2, InvAlways, PTL DEF Spec, ImplementsFifo, Fifo!Spec
=============================================================================
