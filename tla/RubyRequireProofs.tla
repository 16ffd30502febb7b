------------------------- MODULE RubyRequireProofs --------------------------
(***************************************************************************)
(* Theorems about require among threads, for any files, dependencies and   *)
(* threads.                                                                *)
(***************************************************************************)
EXTENDS RubyRequire, SequenceTheorems, TLAPS

USE RequireAssumption

Frames == [file : Files, todo : Seq(Files)]

-----------------------------------------------------------------------------
(* The inductive invariant.                                                 *)

\* A thread that sleeps for a file is on the list of the file's barrier, and
\* the barrier has an owner.
Sleeping(t) ==
    pc[t] = "sleep" =>
        /\ t \in ToSet(waiting[want[t]])
        /\ owner[want[t]] # None

\* A thread that is killed ends all its loads before it is dead.
Ending(t) == pc[t] = "dead" => \A f \in Files : ~Loads(t, f)

\* t was made the owner of the barrier of f, and will load f.
Chosen(t, f) == pc[t] = "chosen" /\ want[t] = f

\* t is in two loads of f, one inside the other.
Twice(t, f) ==
    \E i, j \in DOMAIN stack[t] :
        i # j /\ stack[t][i].file = f /\ stack[t][j].file = f

\* A file that was not given up with threads waiting is loaded by the owner of
\* its barrier as long as it is not in $"; from then on there is no barrier, and
\* at most one of the threads that waited loads it again.
FileOK(f) ==
    /\ features[f] = 0 =>
        \A t \in Threads :
            /\ Loads(t, f) => owner[f] = t
            /\ ~Chosen(t, f)
    /\ features[f] > 0 =>
        /\ owner[f] = None
        /\ \A t, u \in Threads :
            /\ Loads(t, f) \/ Chosen(t, f)
            /\ Loads(u, f) \/ Chosen(u, f)
            => t = u
    /\ \A t \in Threads : ~Twice(t, f) /\ (Chosen(t, f) => ~Loads(t, f))

RequireInv ==
    /\ TypeOK
    /\ TableOwned
    /\ \A t \in Threads : Sleeping(t) /\ Ending(t)
    /\ \A f \in Files \ abandoned : FileOK(f)

-----------------------------------------------------------------------------
(* Lists and stacks.                                                        *)

\* Who is on a list when a thread has been appended.
LEMMA OnAppended ==
    ASSUME NEW w \in Seq(Threads), NEW t \in Threads, NEW u
    PROVE  u \in ToSet(Append(w, t)) <=> u \in ToSet(w) \/ u = t
<1> DEFINE v == Append(w, t)
<1>1. /\ v \in Seq(Threads) /\ Len(v) = Len(w) + 1
      /\ \A i \in 1..Len(w) : v[i] = w[i]
      /\ v[Len(w) + 1] = t
    OBVIOUS
<1>2. DOMAIN v = 1..(Len(w) + 1) /\ DOMAIN w = 1..Len(w) /\ Len(w) \in Nat
    BY <1>1
<1>3. \A i \in DOMAIN v : v[i] \in ToSet(w) \/ v[i] = t
    <2> TAKE i \in DOMAIN v
    <2>1. i \in 1..Len(w) \/ i = Len(w) + 1 BY <1>2
    <2> HIDE DEF v
    <2> QED BY <2>1, <1>1, <1>2 DEF ToSet
<1>4. \A i \in DOMAIN w : w[i] \in ToSet(v)
    <2> HIDE DEF v
    <2> QED BY <1>1, <1>2 DEF ToSet
<1>5. t \in ToSet(v)
    <2> HIDE DEF v
    <2> QED BY <1>1, <1>2 DEF ToSet
<1> HIDE DEF v
<1>6. u \in ToSet(v) => u \in ToSet(w) \/ u = t
    BY <1>3 DEF ToSet
<1>7. u \in ToSet(w) => u \in ToSet(v)
    BY <1>4 DEF ToSet
<1> QED BY <1>5, <1>6, <1>7 DEF v

\* The first thread on a list is one thread.
LEMMA FirstIsOne ==
    ASSUME TypeOK, NEW f \in Files, NEW t, NEW u, First(f, t), First(f, u)
    PROVE  t = u /\ t \in ToSet(waiting[f])
<1>1. waiting[f] \in Seq(Threads) BY DEF TypeOK
<1>2. PICK i \in DOMAIN waiting[f] :
        /\ waiting[f][i] = t /\ Alive(t)
        /\ \A j \in 1..(i - 1) : ~Alive(waiting[f][j])
    BY DEF First
<1>3. PICK k \in DOMAIN waiting[f] :
        /\ waiting[f][k] = u /\ Alive(u)
        /\ \A j \in 1..(k - 1) : ~Alive(waiting[f][j])
    BY DEF First
<1>4. DOMAIN waiting[f] = 1..Len(waiting[f]) /\ Len(waiting[f]) \in Nat
    BY <1>1
<1>5. i = k \/ i \in 1..(k - 1) \/ k \in 1..(i - 1)
    BY <1>4
<1>6. i = k BY <1>2, <1>3, <1>5
<1> QED BY <1>2, <1>3, <1>6 DEF ToSet

\* A stack without its last load.
LEMMA Fronts ==
    ASSUME NEW s \in Seq(Frames), s # <<>>
    PROVE  /\ Front(s) \in Seq(Frames)
           /\ Len(Front(s)) = Len(s) - 1
           /\ \A i \in 1..(Len(s) - 1) : Front(s)[i] = s[i]
           /\ Last(s) = s[Len(s)]
           /\ Last(s) \in Frames
           /\ Len(s) \in Nat \ {0}
<1>1. Len(s) \in Nat \ {0} /\ DOMAIN s = 1..Len(s)
    BY EmptySeq
<1>2. \A i \in 1..(Len(s) - 1) : s[i] \in Frames
    BY <1>1, ElementOfSeq
<1>3. /\ SubSeq(s, 1, Len(s) - 1) \in Seq(Frames)
      /\ Len(SubSeq(s, 1, Len(s) - 1)) =
            IF 1 <= Len(s) - 1 THEN Len(s) - 1 - 1 + 1 ELSE 0
      /\ \A i \in 1..(Len(s) - 1 - 1 + 1) : SubSeq(s, 1, Len(s) - 1)[i] = s[1 + i - 1]
    BY <1>1, <1>2, SubSeqProperties
<1>4. s[Len(s)] \in Frames
    BY <1>1, ElementOfSeq
<1> QED BY <1>1, <1>3, <1>4 DEF Front, Last

\* The three things that happen to the stacks: a load is pushed, a load is
\* popped, or every thread goes on with the loads it is in.
LoadsKept ==
    \A u \in Threads, g \in Files :
        /\ Loads(u, g)' <=> Loads(u, g)
        /\ Twice(u, g)' <=> Twice(u, g)

LoadPushed(t, f) ==
    \A u \in Threads, g \in Files :
        /\ Loads(u, g)' <=> (Loads(u, g) \/ (u = t /\ g = f))
        /\ Twice(u, g)' => (Twice(u, g) \/ (u = t /\ g = f /\ Loads(t, f)))

LoadPopped(t, f) ==
    /\ Loads(t, f)
    /\ ~Twice(t, f) => ~Loads(t, f)'
    /\ \A u \in Threads, g \in Files :
        /\ Loads(u, g)' => Loads(u, g)
        /\ (Loads(u, g) /\ (u # t \/ g # f)) => Loads(u, g)'
        /\ Twice(u, g)' => Twice(u, g)

\* s is the stack of t, up to what is left to require.
SameFiles(t, s) ==
    /\ s \in Seq(Frames)
    /\ Len(s) = Len(stack[t])
    /\ \A i \in 1..Len(s) : s[i].file = stack[t][i].file

\* Types.
LEMMA StackTyped ==
    ASSUME TypeOK, NEW t \in Threads
    PROVE  /\ stack[t] \in Seq(Frames)
           /\ DOMAIN stack[t] = 1..Len(stack[t])
           /\ Len(stack[t]) \in Nat
           /\ \A i \in 1..Len(stack[t]) : stack[t][i] \in Frames
<1>1. stack[t] \in Seq(Frames) BY DEF TypeOK, Frames
<1> QED BY <1>1, ElementOfSeq

\* Taking a file from what the last load requires changes no file.
LEMMA TodoTaken ==
    ASSUME TypeOK, NEW t \in Threads, stack[t] # <<>>, Top(t).todo # <<>>
    PROVE  /\ SameFiles(t, Append(Rest(t), [Top(t) EXCEPT !.todo = Tail(@)]))
           /\ Head(Top(t).todo) \in Files
<1> DEFINE r == [Top(t) EXCEPT !.todo = Tail(@)]
<1>1. stack[t] \in Seq(Frames) BY StackTyped
<1>2. /\ Rest(t) \in Seq(Frames)
      /\ Len(Rest(t)) = Len(stack[t]) - 1
      /\ \A i \in 1..(Len(stack[t]) - 1) : Rest(t)[i] = stack[t][i]
      /\ Top(t) = stack[t][Len(stack[t])]
      /\ Top(t) \in Frames
      /\ Len(stack[t]) \in Nat \ {0}
    BY <1>1, Fronts DEF Rest, Top
<1>3. Top(t).todo \in Seq(Files) BY <1>2 DEF Frames
<1>4. Head(Top(t).todo) \in Files /\ Tail(Top(t).todo) \in Seq(Files)
    BY <1>3, HeadTailProperties
<1>5. r \in Frames /\ r.file = stack[t][Len(stack[t])].file
    BY <1>2, <1>4 DEF Frames
<1> HIDE DEF r
<1>6. /\ Append(Rest(t), r) \in Seq(Frames)
      /\ Len(Append(Rest(t), r)) = Len(Rest(t)) + 1
      /\ \A i \in 1..Len(Rest(t)) : Append(Rest(t), r)[i] = Rest(t)[i]
      /\ Append(Rest(t), r)[Len(Rest(t)) + 1] = r
    BY <1>2, <1>5, AppendProperties
<1>7. SameFiles(t, Append(Rest(t), r))
    <2>1. Len(Append(Rest(t), r)) = Len(stack[t]) BY <1>2, <1>6
    <2> SUFFICES ASSUME NEW i \in 1..Len(stack[t])
                 PROVE  Append(Rest(t), r)[i].file = stack[t][i].file
        BY <2>1, <1>6 DEF SameFiles
    <2>2. i \in 1..Len(Rest(t)) \/ (i = Len(stack[t]) /\ i = Len(Rest(t)) + 1)
        BY <1>2
    <2>3. CASE i \in 1..Len(Rest(t))
        BY <2>3, <1>2, <1>6
    <2>4. CASE i = Len(stack[t]) /\ i = Len(Rest(t)) + 1
        BY <2>4, <1>2, <1>5, <1>6
    <2> QED BY <2>2, <2>3, <2>4
<1> QED BY <1>4, <1>7 DEF r

LEMMA KeepStack ==
    ASSUME TypeOK, NEW t \in Threads, NEW s, SameFiles(t, s),
           stack' = [stack EXCEPT ![t] = s]
    PROVE  LoadsKept /\ stack' \in [Threads -> Seq(Frames)]
<1>1. stack \in [Threads -> Seq(Frames)] BY DEF TypeOK, Frames
<1>2. s \in Seq(Frames) BY DEF SameFiles
<1>3. stack' \in [Threads -> Seq(Frames)] /\ stack'[t] = s BY <1>1, <1>2
<1>4. \A u \in Threads : DOMAIN stack'[u] = DOMAIN stack[u]
    <2> TAKE u \in Threads
    <2>1. CASE u # t BY <2>1, <1>1
    <2>2. DOMAIN stack[t] = 1..Len(stack[t]) BY StackTyped
    <2>3. DOMAIN s = 1..Len(s) BY <1>2
    <2>4. CASE u = t BY <2>2, <2>3, <2>4, <1>3 DEF SameFiles
    <2> QED BY <2>1, <2>4
<1>5. \A u \in Threads : \A i \in DOMAIN stack[u] : stack'[u][i].file = stack[u][i].file
    <2> TAKE u \in Threads
    <2>1. CASE u # t BY <2>1, <1>1
    <2>2. DOMAIN stack[t] = 1..Len(stack[t]) BY StackTyped
    <2>4. CASE u = t BY <2>2, <2>4, <1>3 DEF SameFiles
    <2> QED BY <2>1, <2>4
<1>6. ASSUME NEW u \in Threads, NEW g \in Files
      PROVE  Loads(u, g)' <=> Loads(u, g)
    BY <1>4, <1>5 DEF Loads
<1>7. ASSUME NEW u \in Threads, NEW g \in Files
      PROVE  Twice(u, g)' <=> Twice(u, g)
    BY <1>4, <1>5 DEF Twice
<1> QED BY <1>3, <1>6, <1>7 DEF LoadsKept

LEMMA PushStack ==
    ASSUME TypeOK, NEW t \in Threads, NEW s, SameFiles(t, s), NEW f \in Files,
           StartLoad(t, f, s)
    PROVE  LoadPushed(t, f) /\ stack' \in [Threads -> Seq(Frames)]
<1>1. stack \in [Threads -> Seq(Frames)] BY DEF TypeOK, Frames
<1>2. s \in Seq(Frames) /\ Len(s) = Len(stack[t]) BY DEF SameFiles
<1>3. Frame(f) \in Frames /\ Frame(f).file = f BY DEF Frame, Frames
<1> DEFINE v == Append(s, Frame(f))
           n == Len(stack[t])
<1>4. /\ v \in Seq(Frames) /\ Len(v) = n + 1
      /\ \A i \in 1..n : v[i] = s[i]
      /\ v[n + 1] = Frame(f)
    BY <1>2, <1>3, AppendProperties
<1>5. n \in Nat /\ DOMAIN stack[t] = 1..n BY StackTyped
<1>6. stack' = [stack EXCEPT ![t] = v] BY DEF StartLoad
<1> HIDE DEF v, n
<1>7. stack' \in [Threads -> Seq(Frames)] /\ stack'[t] = v BY <1>1, <1>4, <1>6
<1>8. DOMAIN v = 1..(n + 1) BY <1>4
<1>9. \A i \in 1..n : v[i].file = stack[t][i].file
    BY <1>2, <1>4 DEF SameFiles, n
<1>10. \A i \in DOMAIN v : i \in 1..n \/ i = n + 1 BY <1>5, <1>8
<1>11. \A i \in 1..n : i \in DOMAIN v /\ i # n + 1 BY <1>5, <1>8
<1>12. n + 1 \in DOMAIN v /\ v[n + 1].file = f BY <1>3, <1>4, <1>5, <1>8
<1>13. ASSUME NEW u \in Threads, NEW g \in Files, u # t
       PROVE  (Loads(u, g)' <=> Loads(u, g)) /\ (Twice(u, g)' <=> Twice(u, g))
    <2>1. stack'[u] = stack[u] BY <1>13, <1>1, <1>6
    <2> QED BY <2>1 DEF Loads, Twice
<1>14. ASSUME NEW g \in Files
       PROVE  Loads(t, g)' <=> (Loads(t, g) \/ g = f)
    BY <1>5, <1>7, <1>9, <1>10, <1>11, <1>12 DEF Loads
<1>15. ASSUME NEW g \in Files, Twice(t, g)'
       PROVE  Twice(t, g) \/ (g = f /\ Loads(t, f))
    <2>1. PICK i, j \in DOMAIN v : i # j /\ v[i].file = g /\ v[j].file = g
        BY <1>7, <1>15 DEF Twice
    <2>2. CASE i \in 1..n /\ j \in 1..n
        BY <2>1, <2>2, <1>5, <1>9 DEF Twice
    <2>3. CASE i \in 1..n /\ j = n + 1
        BY <2>1, <2>3, <1>5, <1>9, <1>12 DEF Loads
    <2>4. CASE i = n + 1 /\ j \in 1..n
        BY <2>1, <2>4, <1>5, <1>9, <1>12 DEF Loads
    <2> QED BY <2>1, <2>2, <2>3, <2>4, <1>10
<1> QED BY <1>7, <1>13, <1>14, <1>15 DEF LoadPushed

LEMMA TopTyped ==
    ASSUME TypeOK, NEW t \in Threads, stack[t] # <<>>
    PROVE  Top(t).file \in Files
<1>1. stack[t] \in Seq(Frames) BY StackTyped
<1>2. Top(t) \in Frames BY <1>1, Fronts DEF Top
<1> QED BY <1>2 DEF Frames

LEMMA PopStack ==
    ASSUME TypeOK, NEW t \in Threads, stack[t] # <<>>,
           stack' = [stack EXCEPT ![t] = Rest(t)],
           NEW f \in Files, f = Top(t).file
    PROVE  /\ LoadPopped(t, f)
           /\ stack' \in [Threads -> Seq(Frames)]
<1>1. stack \in [Threads -> Seq(Frames)] BY DEF TypeOK, Frames
<1> DEFINE v == Rest(t)
           n == Len(stack[t])
<1>2. stack[t] \in Seq(Frames) BY StackTyped
<1>3. /\ v \in Seq(Frames) /\ Len(v) = n - 1
      /\ \A i \in 1..(n - 1) : v[i] = stack[t][i]
      /\ Top(t) = stack[t][n]
      /\ Top(t) \in Frames
      /\ n \in Nat \ {0}
    BY <1>2, Fronts DEF Rest, Top
<1> HIDE DEF v
<1>4. DOMAIN stack[t] = 1..n BY StackTyped
<1> HIDE DEF n
<1>5. stack' \in [Threads -> Seq(Frames)] /\ stack'[t] = v BY <1>1, <1>3 DEF v
<1>6. DOMAIN v = 1..(n - 1) BY <1>3
<1>7. \A i \in DOMAIN v : i \in DOMAIN stack[t] /\ i # n BY <1>3, <1>4, <1>6
<1>8. \A i \in DOMAIN stack[t] : i \in DOMAIN v \/ i = n BY <1>3, <1>4, <1>6
<1>9. \A i \in DOMAIN v : v[i] = stack[t][i] BY <1>3, <1>6
<1>10. n \in DOMAIN stack[t] /\ stack[t][n].file = f BY <1>3, <1>4
<1>12. ASSUME NEW u \in Threads, NEW g \in Files, u # t
       PROVE  (Loads(u, g)' <=> Loads(u, g)) /\ (Twice(u, g)' <=> Twice(u, g))
    <2>1. stack'[u] = stack[u] BY <1>12, <1>1
    <2> QED BY <2>1 DEF Loads, Twice
<1>13. Loads(t, f) BY <1>10 DEF Loads
<1>14. ASSUME ~Twice(t, f) PROVE ~Loads(t, f)'
    <2> SUFFICES ASSUME NEW i \in DOMAIN v, v[i].file = f
                 PROVE  FALSE
        BY <1>5 DEF Loads
    <2> QED BY <1>7, <1>9, <1>10, <1>14 DEF Twice
<1>15. ASSUME NEW g \in Files
       PROVE  /\ Loads(t, g)' => Loads(t, g)
              /\ (Loads(t, g) /\ g # f) => Loads(t, g)'
    BY <1>5, <1>7, <1>8, <1>9, <1>10 DEF Loads
<1>16. ASSUME NEW g \in Files
       PROVE  Twice(t, g)' => Twice(t, g)
    BY <1>5, <1>7, <1>9 DEF Twice
<1> QED BY <1>5, <1>12, <1>13, <1>14, <1>15, <1>16 DEF LoadPopped

-----------------------------------------------------------------------------
(* What the steps do.                                                       *)

StackOK == stack' \in [Threads -> Seq(Frames)]

\* A require that has nothing to load.
Skips ==
    /\ LoadsKept /\ StackOK
    /\ UNCHANGED <<features, owner, waiting, pc, want, abandoned>>

\* A require that makes the thread the owner of the file's barrier.
Takes(t, f) ==
    /\ pc[t] = "run" /\ features[f] = 0 /\ owner[f] = None
    /\ owner' = [owner EXCEPT ![f] = t]
    /\ abandoned' = Afresh(f)
    /\ LoadPushed(t, f) /\ StackOK
    /\ UNCHANGED <<features, waiting, pc, want>>

\* A require that waits.
Sleeps(t, f) ==
    /\ pc[t] = "run" /\ features[f] = 0 /\ owner[f] \notin {None, t}
    /\ waiting' = [waiting EXCEPT ![f] = Append(@, t)]
    /\ pc' = [pc EXCEPT ![t] = "sleep"]
    /\ want' = [want EXCEPT ![t] = f]
    /\ LoadsKept /\ StackOK
    /\ UNCHANGED <<features, owner, abandoned>>

\* What the end of a load of f by t does to thread u.
Told(t, f, u) ==
    /\ pc[u] \notin Waits => pc'[u] = pc[u]
    /\ pc[u] \in Waits => pc'[u] \in Waits
    /\ pc'[u] = "chosen" =>
        \/ pc[u] = "chosen"
        \/ /\ owner[f] = t /\ First(f, u)
           /\ want[u] = f /\ pc[u] \in {"sleep", "woken"}
    /\ pc'[u] = "sleep" => pc[u] = "sleep" /\ want[u] # f
    /\ pc'[u] = "orphan" =>
        \/ pc[u] = "orphan"
        \/ owner[f] # t /\ pc[u] = "sleep" /\ want[u] = f
    /\ pc'[u] = "woken" =>
        \/ pc[u] = "woken"
        \/ owner[f] = t /\ u \in ToSet(waiting[f]) /\ pc[u] \in {"sleep", "orphan"}

\* The list of f has a thread that still waits for it.
Awaited(f) == \E u \in ToSet(waiting[f]) : want[u] = f

\* A load of f by t ends, well or given up.
Ends(t, f) ==
    /\ pc[t] \in {"run", "dying"}
    /\ \/ features' = [features EXCEPT ![f] = @ + 1] /\ UNCHANGED abandoned
       \/ /\ UNCHANGED features
          /\ abandoned' = IF Awaited(f) THEN abandoned \cup {f} ELSE abandoned
    /\ owner' = [owner EXCEPT ![f] = None]
    /\ waiting' = [waiting EXCEPT ![f] = <<>>]
    /\ pc' \in [Threads -> Waits \cup {"run", "dying", "dead"}]
    /\ \A u \in Threads : Told(t, f, u)
    /\ LoadPopped(t, f) /\ StackOK
    /\ UNCHANGED want

LEMMA RequireSteps ==
    ASSUME TypeOK, NEW t \in Threads, pc[t] = "run", NEW f \in Files,
           NEW s, SameFiles(t, s), require(t, f, s)
    PROVE  Skips \/ Takes(t, f) \/ Sleeps(t, f)
<1>1. CASE ~search_required(f)
    <2>1. /\ stack' = [stack EXCEPT ![t] = s]
          /\ UNCHANGED <<features, owner, waiting, pc, want, abandoned>>
        BY <1>1 DEF require
    <2> QED BY <2>1, KeepStack DEF Skips, StackOK
<1>2. CASE search_required(f)
    <2>1. features[f] = 0 /\ load_lock(t, f, s) /\ UNCHANGED features
        BY <1>2 DEF require, search_required
    <2>2. CASE owner[f] = None
        <3>1. /\ owner' = [owner EXCEPT ![f] = t]
              /\ abandoned' = Afresh(f)
              /\ StartLoad(t, f, s)
              /\ UNCHANGED <<waiting, pc, want>>
            BY <2>1, <2>2 DEF load_lock
        <3> QED BY <2>1, <2>2, <3>1, PushStack DEF Takes, StackOK
    <2>3. CASE owner[f] = t
        <3>1. /\ stack' = [stack EXCEPT ![t] = s]
              /\ UNCHANGED <<owner, waiting, pc, want, abandoned>>
            BY <2>1, <2>3 DEF load_lock
        <3> QED BY <2>1, <3>1, KeepStack DEF Skips, StackOK
    <2>4. CASE owner[f] \notin {None, t}
        <3>1. /\ waiting' = [waiting EXCEPT ![f] = Append(@, t)]
              /\ Goto(t, "sleep")
              /\ want' = [want EXCEPT ![t] = f]
              /\ stack' = [stack EXCEPT ![t] = s]
              /\ UNCHANGED <<owner, abandoned>>
            BY <2>1, <2>4 DEF load_lock
        <3> QED BY <2>1, <2>4, <3>1, KeepStack DEF Sleeps, StackOK, Goto
    <2> QED BY <2>2, <2>3, <2>4
<1> QED BY <1>1, <1>2

\* load_unlock tells everybody who waits.
LEMMA UnlockTells ==
    ASSUME TypeOK, \A u \in Threads : Sleeping(u),
           NEW t \in Threads, NEW f \in Files, load_unlock(t, f)
    PROVE  /\ \A u \in Threads : Told(t, f, u)
           /\ pc' \in [Threads -> Waits \cup {"run", "dying", "dead"}]
<1>1. ASSUME NEW u \in Threads
      PROVE  /\ Told(t, f, u)
             /\ pc'[u] \in Waits \cup {"run", "dying", "dead"}
    <2>0. pc[u] \in Waits \cup {"run", "dying", "dead"} BY DEF TypeOK
    <2>1. CASE owner[f] = t
        <3>1. pc' = thlist_signal(f) BY <2>1 DEF load_unlock
        <3>2. pc'[u] = IF First(f, u) /\ want[u] = f /\ pc[u] \in {"sleep", "woken"}
                       THEN "chosen"
                       ELSE IF u \in ToSet(waiting[f]) /\ pc[u] \in {"sleep", "orphan"}
                            THEN "woken" ELSE pc[u]
            BY <3>1 DEF thlist_signal
        <3>3. pc[u] = "sleep" /\ want[u] = f => u \in ToSet(waiting[f])
            BY DEF Sleeping
        <3> QED BY <2>0, <2>1, <3>2, <3>3 DEF Told, Waits
    <2>2. CASE owner[f] # t
        <3>1. pc'[u] = IF pc[u] = "sleep" /\ want[u] = f THEN "orphan" ELSE pc[u]
            BY <2>2 DEF load_unlock
        <3> QED BY <2>0, <2>2, <3>1 DEF Told, Waits
    <2> QED BY <2>1, <2>2
<1>2. DOMAIN pc' = Threads /\ pc' = [u \in Threads |-> pc'[u]]
    <2>1. CASE owner[f] = t
        BY <2>1 DEF load_unlock, thlist_signal
    <2>2. CASE owner[f] # t
        BY <2>2 DEF load_unlock
    <2> QED BY <2>1, <2>2
<1> QED BY <1>1, <1>2

\* The ends of a load.
LEMMA EndSteps ==
    ASSUME RequireInv, NEW t \in Threads, stack[t] # <<>>,
           \/ Finish(t) \/ Raise(t) \/ Unwind(t)
    PROVE  \E f \in Files : Ends(t, f)
<1> USE DEF RequireInv
<1>1. PICK f \in Files : f = Top(t).file BY TopTyped
<1>2. load_unlock(t, f) /\ stack' = [stack EXCEPT ![t] = Rest(t)]
    BY <1>1 DEF Finish, Raise, Unwind, GiveUp
<1>3. LoadPopped(t, f) /\ StackOK BY <1>1, <1>2, PopStack DEF StackOK
<1>4. /\ \A u \in Threads : Told(t, f, u)
      /\ pc' \in [Threads -> Waits \cup {"run", "dying", "dead"}]
    BY <1>2, UnlockTells
<1>5. /\ pc[t] \in {"run", "dying"}
      /\ \/ features' = [features EXCEPT ![f] = @ + 1] /\ UNCHANGED abandoned
         \/ /\ UNCHANGED features
            /\ abandoned' = IF Awaited(f) THEN abandoned \cup {f} ELSE abandoned
      /\ UNCHANGED want
    BY <1>1 DEF Finish, Raise, Unwind, GiveUp, Awaited
<1>6. Ends(t, f) BY <1>2, <1>3, <1>4, <1>5 DEF Ends, load_unlock
<1> QED BY <1>6

-----------------------------------------------------------------------------
(* Every step keeps the invariant.                                          *)

LEMMA SkipsKeep ==
    ASSUME RequireInv, Skips PROVE RequireInv'
<1> USE DEF RequireInv, Skips
<1>1. TypeOK' BY DEF TypeOK, StackOK, Frames
<1>2. TableOwned' BY DEF TableOwned, TypeOK, LoadsKept
<1>3. ASSUME NEW u \in Threads PROVE (Sleeping(u) /\ Ending(u))'
    BY DEF Sleeping, Ending, LoadsKept
<1>4. ASSUME NEW g \in Files \ abandoned' PROVE FileOK(g)'
    BY DEF FileOK, Chosen, LoadsKept
<1> QED BY <1>1, <1>2, <1>3, <1>4

LEMMA TakesKeep ==
    ASSUME RequireInv, NEW t \in Threads, NEW f \in Files, Takes(t, f)
    PROVE  RequireInv'
<1> USE DEF RequireInv, Takes
<1>1. TypeOK' BY DEF TypeOK, StackOK, Frames, Afresh
<1>0. owner'[f] = t /\ \A g \in Files \ {f} : owner'[g] = owner[g]
    BY DEF TypeOK
<1>2. TableOwned' BY <1>0 DEF TableOwned, TypeOK, LoadPushed
<1>3. ASSUME NEW u \in Threads PROVE (Sleeping(u) /\ Ending(u))'
    <2>1. Sleeping(u)' BY <1>0 DEF Sleeping, TypeOK, Waits
    <2>2. Ending(u)' BY DEF Ending, LoadPushed
    <2> QED BY <2>1, <2>2
<1>4. ASSUME NEW g \in Files \ abandoned' PROVE FileOK(g)'
    <2>1. g \notin abandoned => FileOK(g) OBVIOUS
    <2>2. \A u \in Threads : Chosen(u, g)' <=> Chosen(u, g) BY DEF Chosen
    <2>3. CASE g # f
        <3>1. FileOK(g) BY <2>1, <2>3 DEF Afresh
        <3> QED BY <3>1, <2>2, <2>3, <1>0 DEF FileOK, LoadPushed
    <2>4. CASE g = f
        <3>0. \/ FileOK(f)
              \/ \A u \in Threads : ~Loads(u, f) /\ want[u] # f
            BY <2>1, <2>4 DEF Afresh
        <3>1. \A u \in Threads : ~Loads(u, f) /\ ~Chosen(u, f) /\ ~Twice(u, f)
            <4>1. CASE FileOK(f) BY <4>1 DEF FileOK
            <4>2. CASE \A u \in Threads : ~Loads(u, f) /\ want[u] # f
                BY <4>2 DEF Loads, Chosen, Twice
            <4> QED BY <3>0, <4>1, <4>2
        <3>2. \A u \in Threads : (Loads(u, f)' => u = t) /\ ~Twice(u, f)'
            BY <3>1 DEF LoadPushed
        <3> QED BY <3>1, <3>2, <2>2, <2>4, <1>0 DEF FileOK
    <2> QED BY <2>3, <2>4
<1> QED BY <1>1, <1>2, <1>3, <1>4

LEMMA SleepsKeep ==
    ASSUME RequireInv, NEW t \in Threads, NEW f \in Files, Sleeps(t, f)
    PROVE  RequireInv'
<1> USE DEF RequireInv, Sleeps
<1>0. /\ pc'[t] = "sleep" /\ want'[t] = f
      /\ \A u \in Threads \ {t} : pc'[u] = pc[u] /\ want'[u] = want[u]
    BY DEF TypeOK
<1>1. TypeOK'
    <2>1. Append(waiting[f], t) \in Seq(Threads) BY DEF TypeOK
    <2>2. waiting' \in [Files -> Seq(Threads)] BY <2>1 DEF TypeOK
    <2>3. /\ pc' \in [Threads -> Waits \cup {"run", "dying", "dead"}]
          /\ want' \in [Threads -> Files \cup {None}]
        BY DEF TypeOK, Waits
    <2>4. \A u \in Threads : want'[u] # None <=> pc'[u] \in Waits
        BY <1>0 DEF TypeOK, Waits
    <2> QED BY <2>2, <2>3, <2>4 DEF TypeOK, StackOK, Frames
<1>2. TableOwned' BY <1>0 DEF TableOwned, TypeOK, LoadsKept
<1>3. ASSUME NEW u \in Threads PROVE (Sleeping(u) /\ Ending(u))'
    <2>1. Sleeping(u)'
        <3>1. waiting[f] \in Seq(Threads) BY DEF TypeOK
        <3>2. waiting'[f] = Append(waiting[f], t) BY DEF TypeOK
        <3>3. u \in ToSet(waiting'[f]) <=> u \in ToSet(waiting[f]) \/ u = t
            BY <3>1, <3>2, OnAppended
        <3>4. \A g \in Files \ {f} : waiting'[g] = waiting[g] BY DEF TypeOK
        <3>5. CASE u = t
            BY <3>3, <3>5, <1>0 DEF Sleeping
        <3>6. CASE u # t /\ pc[u] = "sleep"
            <4>1. want[u] \in Files BY <3>6 DEF TypeOK, Waits
            <4>2. u \in ToSet(waiting[want[u]]) /\ owner[want[u]] # None
                BY <3>6 DEF Sleeping
            <4>3. u \in ToSet(waiting'[want[u]])
                <5>1. CASE want[u] = f BY <5>1, <4>2, <3>3
                <5>2. CASE want[u] # f BY <5>2, <4>1, <4>2, <3>4
                <5> QED BY <5>1, <5>2
            <4> QED BY <3>6, <4>2, <4>3, <1>0 DEF Sleeping
        <3>7. CASE u # t /\ pc[u] # "sleep" BY <3>7, <1>0 DEF Sleeping
        <3> QED BY <3>5, <3>6, <3>7
    <2>2. Ending(u)' BY <1>0 DEF Ending, LoadsKept
    <2> QED BY <2>1, <2>2
<1>4. ASSUME NEW g \in Files \ abandoned' PROVE FileOK(g)'
    <2>1. FileOK(g) OBVIOUS
    <2>2. \A u \in Threads : Chosen(u, g)' <=> Chosen(u, g) BY <1>0 DEF Chosen
    <2> QED BY <2>1, <2>2 DEF FileOK, LoadsKept
<1> QED BY <1>1, <1>2, <1>3, <1>4

LEMMA ResumeKeeps ==
    ASSUME RequireInv, NEW t \in Threads, Resume(t)
    PROVE  RequireInv'
<1> USE DEF RequireInv
<1>0. /\ pc[t] \in {"chosen", "woken"}
      /\ pc' = [pc EXCEPT ![t] = "run"]
      /\ want' = [want EXCEPT ![t] = None]
      /\ UNCHANGED <<features, owner, waiting, abandoned>>
    BY DEF Resume, Goto
<1>1. /\ pc'[t] = "run" /\ want'[t] = None
      /\ \A u \in Threads \ {t} : pc'[u] = pc[u] /\ want'[u] = want[u]
    BY <1>0 DEF TypeOK
<1>2. PICK f \in Files : f = want[t]
    BY <1>0 DEF TypeOK, Waits
<1>3. SameFiles(t, stack[t]) BY StackTyped DEF SameFiles
<1>4. \/ pc[t] = "chosen" /\ LoadPushed(t, f) /\ StackOK
      \/ pc[t] = "woken" /\ LoadsKept /\ StackOK
    <2>1. CASE pc[t] = "chosen"
        <3>1. StartLoad(t, f, stack[t]) BY <2>1, <1>2 DEF Resume
        <3> QED BY <2>1, <3>1, <1>3, PushStack DEF StackOK
    <2>2. CASE pc[t] = "woken"
        <3>1. stack' = stack BY <2>2 DEF Resume
        <3>2. stack' = [stack EXCEPT ![t] = stack[t]] BY <3>1 DEF TypeOK
        <3> QED BY <2>2, <3>2, <1>3, KeepStack DEF StackOK
    <2> QED BY <2>1, <2>2, <1>0
<1>5. TypeOK'
    <2>1. /\ pc' \in [Threads -> Waits \cup {"run", "dying", "dead"}]
          /\ want' \in [Threads -> Files \cup {None}]
        BY <1>0 DEF TypeOK
    <2>2. \A u \in Threads : want'[u] # None <=> pc'[u] \in Waits
        BY <1>1 DEF TypeOK, Waits
    <2> QED BY <2>1, <2>2, <1>0, <1>4 DEF TypeOK, StackOK, Frames
<1>6. TableOwned'
    BY <1>0, <1>1, <1>4 DEF TableOwned, TypeOK, LoadsKept, LoadPushed
<1>7. ASSUME NEW u \in Threads PROVE (Sleeping(u) /\ Ending(u))'
    <2>1. Sleeping(u)' BY <1>0, <1>1 DEF Sleeping
    <2>2. Ending(u)' BY <1>1, <1>4 DEF Ending, LoadsKept, LoadPushed
    <2> QED BY <2>1, <2>2
<1>8. ASSUME NEW g \in Files \ abandoned' PROVE FileOK(g)'
    <2>1. FileOK(g) BY <1>0
    <2>2. /\ \A u \in Threads \ {t} : Chosen(u, g)' <=> Chosen(u, g)
          /\ ~Chosen(t, g)'
        BY <1>1 DEF Chosen
    <2>3. CASE pc[t] = "woken" BY <2>1, <2>2, <2>3, <1>0, <1>4 DEF FileOK, LoadsKept
    <2>4. CASE pc[t] = "chosen" /\ g = f
        <3>1. Chosen(t, g) BY <2>4, <1>2 DEF Chosen
        <3>2. features[g] \in Nat /\ features[g] > 0 /\ ~Loads(t, g)
            BY <2>1, <3>1 DEF FileOK, TypeOK
        <3>3. LoadPushed(t, f) BY <2>4, <1>4
        <3>4. \A u \in Threads : Loads(u, g)' <=> (Loads(u, g) \/ u = t)
            BY <2>4, <3>3 DEF LoadPushed
        <3>5. \A u \in Threads : ~Twice(u, g)'
            BY <2>1, <2>4, <3>2, <3>3 DEF LoadPushed, FileOK
        <3>6. \A u \in Threads : Loads(u, g) \/ Chosen(u, g) => u = t
            BY <2>1, <3>1, <3>2 DEF FileOK
        <3>7. \A u \in Threads : ~Chosen(u, g)' /\ (Loads(u, g)' => u = t)
            BY <2>2, <3>4, <3>6
        <3>8. features'[g] # 0 /\ owner'[g] = None
            BY <2>1, <3>2, <1>0 DEF FileOK
        <3> QED BY <3>5, <3>7, <3>8 DEF FileOK
    <2>5. CASE pc[t] = "chosen" /\ g # f
        <3>1. LoadPushed(t, f) BY <2>5, <1>4
        <3> QED BY <2>1, <2>2, <2>5, <3>1, <1>0 DEF FileOK, LoadPushed
    <2> QED BY <2>3, <2>4, <2>5, <1>0
<1> QED BY <1>5, <1>6, <1>7, <1>8

LEMMA EndsKeep ==
    ASSUME RequireInv, NEW t \in Threads, NEW f \in Files, Ends(t, f)
    PROVE  RequireInv'
<1> USE DEF RequireInv
<1>0. /\ owner'[f] = None /\ \A g \in Files \ {f} : owner'[g] = owner[g]
      /\ waiting'[f] = <<>> /\ \A g \in Files \ {f} : waiting'[g] = waiting[g]
      /\ want' = want
    BY DEF Ends, TypeOK
<1>1. \A u \in Threads : Told(t, f, u) BY DEF Ends
<1>2. LoadPopped(t, f) BY DEF Ends
<1>3. TypeOK'
    <2>1. /\ features' \in [Files -> Nat]
          /\ owner' \in [Files -> Threads \cup {None}]
          /\ waiting' \in [Files -> Seq(Threads)]
          /\ abandoned' \subseteq Files
        BY DEF Ends, TypeOK
    <2>2. \A u \in Threads : want'[u] # None <=> pc'[u] \in Waits
        <3> TAKE u \in Threads
        <3>1. (pc[u] \in Waits) <=> (pc'[u] \in Waits) BY <1>1 DEF Told
        <3> QED BY <3>1, <1>0 DEF TypeOK
    <2> QED BY <2>1, <2>2, <1>0 DEF Ends, TypeOK, StackOK, Frames
<1>4. TableOwned'
    <2> SUFFICES ASSUME NEW g \in Files, owner'[g] # None
                 PROVE  Loads(owner[g], g)' /\ pc'[owner[g]] # "dead" /\ owner'[g] = owner[g]
        BY DEF TableOwned
    <2>1. g # f /\ owner'[g] = owner[g] /\ owner[g] \in Threads BY <1>0 DEF TypeOK
    <2>2. PICK u \in Threads : u = owner[g] BY <2>1
    <2>3. Loads(u, g) /\ pc[u] # "dead" BY <2>1, <2>2 DEF TableOwned
    <2>4. Loads(u, g)' BY <2>1, <2>3, <1>2 DEF LoadPopped
    <2>5. pc'[u] # "dead" BY <2>3, <1>1 DEF Told, Waits
    <2> QED BY <2>1, <2>2, <2>4, <2>5
<1>5. ASSUME NEW u \in Threads PROVE (Sleeping(u) /\ Ending(u))'
    <2>1. Sleeping(u)'
        <3> SUFFICES ASSUME pc'[u] = "sleep"
                     PROVE  u \in ToSet(waiting'[want[u]]) /\ owner'[want[u]] # None
            BY <1>0 DEF Sleeping
        <3>1. pc[u] = "sleep" /\ want[u] # f BY <1>1 DEF Told
        <3>2. want[u] \in Files \ {f} BY <3>1 DEF TypeOK, Waits
        <3> QED BY <3>1, <3>2, <1>0 DEF Sleeping
    <2>2. Ending(u)'
        <3>1. pc'[u] \in {"dying", "dead"} => pc[u] = pc'[u]
            BY <1>1 DEF Told, Waits
        <3> QED BY <3>1, <1>2 DEF Ending, LoadPopped
    <2> QED BY <2>1, <2>2
<1>6. ASSUME NEW g \in Files \ abandoned', g # f PROVE FileOK(g)'
    <2>1. FileOK(g) BY <1>6 DEF Ends
    <2>2. \A u \in Threads : Chosen(u, g)' => Chosen(u, g)
        BY <1>0, <1>1, <1>6 DEF Chosen, Told
    <2>3. features'[g] = features[g] BY <1>6 DEF Ends, TypeOK
    <2>4. \A u \in Threads : (Loads(u, g)' => Loads(u, g)) /\ (Twice(u, g)' => Twice(u, g))
        BY <1>2 DEF LoadPopped
    <2> QED BY <2>1, <2>2, <2>3, <2>4, <1>0, <1>6 DEF FileOK
<1>7. ASSUME f \notin abandoned' PROVE FileOK(f)'
    <2>1. FileOK(f) BY <1>7 DEF Ends
    <2>2. /\ features[f] \in Nat /\ features'[f] \in Nat
          /\ features'[f] = features[f] + 1 \/ features'[f] = features[f]
        BY DEF Ends, TypeOK
    <2>3. features'[f] = features[f] => ~Awaited(f)
        <3>1. SUFFICES ASSUME features'[f] = features[f] PROVE ~Awaited(f) OBVIOUS
        <3>2. ~(features' = [features EXCEPT ![f] = @ + 1])
            BY <2>2, <3>1 DEF TypeOK
        <3> QED BY <3>2, <1>7 DEF Ends
    <2>4. \A u \in Threads : (Loads(u, f)' => Loads(u, f)) /\ ~Twice(u, f)'
        BY <2>1, <1>2 DEF LoadPopped, FileOK
    <2>5. ~Loads(t, f)' /\ Loads(t, f) BY <2>1, <1>2 DEF LoadPopped, FileOK
    <2>6. \A u \in Threads : ~Loads(u, f)'
        <3> TAKE u \in Threads
        <3>1. CASE features[f] = 0 BY <2>1, <2>4, <2>5, <3>1 DEF FileOK
        <3>2. CASE features[f] > 0 BY <2>1, <2>4, <2>5, <3>2 DEF FileOK
        <3> QED BY <2>2, <3>1, <3>2
    <2>7. ASSUME NEW u \in Threads, Chosen(u, f)', ~Chosen(u, f)
          PROVE  First(f, u) /\ owner[f] = t /\ Awaited(f)
        <3>1. First(f, u) /\ owner[f] = t /\ want[u] = f
            BY <2>7, <1>0, <1>1 DEF Told, Chosen
        <3>2. u \in ToSet(waiting[f]) BY <3>1, FirstIsOne
        <3> QED BY <3>1, <3>2 DEF Awaited
    <2>8. ASSUME NEW u \in Threads, NEW v \in Threads, Chosen(u, f)', Chosen(v, f)'
          PROVE  u = v
        <3>1. CASE features[f] > 0
            <4>1. owner[f] = None BY <2>1, <3>1 DEF FileOK
            <4>2. Chosen(u, f) /\ Chosen(v, f) BY <4>1, <2>7, <2>8
            <4> QED BY <4>2, <2>1, <3>1 DEF FileOK
        <3>2. CASE features[f] = 0
            <4>1. ~Chosen(u, f) /\ ~Chosen(v, f) BY <2>1, <3>2 DEF FileOK
            <4>2. First(f, u) /\ First(f, v) BY <4>1, <2>7, <2>8
            <4> QED BY <4>2, FirstIsOne
        <3> QED BY <2>2, <3>1, <3>2
    <2>9. ASSUME features'[f] = 0, NEW u \in Threads PROVE ~Chosen(u, f)'
        <3>1. features[f] = 0 /\ ~Awaited(f) BY <2>2, <2>3, <2>9
        <3>2. ~Chosen(u, f) BY <2>1, <3>1 DEF FileOK
        <3> QED BY <3>1, <3>2, <2>7
    <2> QED BY <2>4, <2>6, <2>8, <2>9, <1>0 DEF FileOK
<1>8. \A g \in Files \ abandoned' : FileOK(g)'
    BY <1>6, <1>7
<1> QED BY <1>3, <1>4, <1>5, <1>8

\* wakeup, kill, and the end of a killed thread.
Shifts(t) ==
    \/ /\ t \in Wakeable /\ pc[t] \in {"sleep", "orphan"}
       /\ pc' = [pc EXCEPT ![t] = "woken"] /\ want' = want
    \/ /\ pc[t] \notin {"dying", "dead"}
       /\ pc' = [pc EXCEPT ![t] = "dying"]
       /\ want' = [want EXCEPT ![t] = None]
    \/ /\ pc[t] = "dying" /\ \A f \in Files : ~Loads(t, f)
       /\ pc' = [pc EXCEPT ![t] = "dead"] /\ want' = want

LEMMA ShiftsKeep ==
    ASSUME RequireInv, NEW t \in Threads, Shifts(t),
           UNCHANGED <<features, owner, waiting, stack, abandoned>>
    PROVE  RequireInv'
<1> USE DEF RequireInv
<1>0. /\ \A u \in Threads \ {t} : pc'[u] = pc[u] /\ want'[u] = want[u]
      /\ \/ pc[t] \in {"sleep", "orphan"} /\ pc'[t] = "woken" /\ want'[t] = want[t]
         \/ pc[t] \notin {"dying", "dead"} /\ pc'[t] = "dying" /\ want'[t] = None
         \/ /\ pc[t] = "dying" /\ pc'[t] = "dead" /\ want'[t] = want[t]
            /\ \A f \in Files : ~Loads(t, f)
    BY DEF Shifts, TypeOK
<1>1. LoadsKept BY DEF LoadsKept, Loads, Twice
<1>3. TypeOK'
    <2>1. /\ pc' \in [Threads -> Waits \cup {"run", "dying", "dead"}]
          /\ want' \in [Threads -> Files \cup {None}]
        BY DEF Shifts, TypeOK, Waits
    <2>2. \A u \in Threads : want'[u] # None <=> pc'[u] \in Waits
        BY <1>0 DEF TypeOK, Waits
    <2> QED BY <2>1, <2>2 DEF TypeOK
<1>4. ASSUME NEW u \in Threads PROVE (Sleeping(u) /\ Ending(u))'
    <2>1. Sleeping(u)' BY <1>0 DEF Sleeping
    <2>2. Ending(u)' BY <1>0, <1>1 DEF Ending, LoadsKept
    <2> QED BY <2>1, <2>2
<1>5. TableOwned'
    <2> SUFFICES ASSUME NEW g \in Files, owner[g] # None
                 PROVE  Loads(owner[g], g)' /\ pc'[owner[g]] # "dead"
        BY DEF TableOwned
    <2>1. PICK u \in Threads : u = owner[g] BY DEF TypeOK
    <2>2. Loads(u, g) BY <2>1 DEF TableOwned
    <2>3. Loads(u, g)' BY <2>2, <1>1 DEF LoadsKept
    <2>4. pc'[u] # "dead" BY <2>3, <1>4 DEF Ending
    <2> QED BY <2>1, <2>3, <2>4
<1>6. ASSUME NEW g \in Files \ abandoned' PROVE FileOK(g)'
    <2>1. FileOK(g) OBVIOUS
    <2>2. \A u \in Threads : Chosen(u, g)' => Chosen(u, g)
        BY <1>0 DEF Chosen
    <2> QED BY <2>1, <2>2, <1>1 DEF FileOK, LoadsKept
<1> QED BY <1>3, <1>4, <1>5, <1>6

\* The initial state has the invariant.
LEMMA RequireStarts ==
    Init => RequireInv
<1> SUFFICES ASSUME Init PROVE RequireInv OBVIOUS
<1>1. \A t \in Threads : pc[t] = "run" /\ want[t] = None /\ stack[t] = <<>>
    BY DEF Init
<1>2. \A f \in Files : features[f] = 0 /\ owner[f] = None
    BY DEF Init
<1>3. ASSUME NEW t \in Threads, NEW f \in Files
      PROVE  ~Loads(t, f) /\ ~Twice(t, f) /\ ~Chosen(t, f)
    <2>1. DOMAIN stack[t] = {} BY <1>1
    <2> QED BY <1>1, <2>1 DEF Loads, Twice, Chosen
<1>4. TypeOK
    <2>1. <<>> \in Seq(Threads) /\ <<>> \in Seq(Frames) BY EmptySeq
    <2>2. \A t \in Threads : want[t] # None <=> pc[t] \in Waits
        BY <1>1 DEF Waits
    <2> QED BY <2>1, <2>2 DEF Init, TypeOK, Frames
<1>5. TableOwned BY <1>2 DEF TableOwned
<1>6. \A t \in Threads : Sleeping(t) /\ Ending(t)
    BY <1>1 DEF Sleeping, Ending
<1>7. \A f \in Files \ abandoned : FileOK(f)
    BY <1>2, <1>3 DEF FileOK
<1> QED BY <1>4, <1>5, <1>6, <1>7 DEF RequireInv

\* A step is one of these.
StepKinds ==
    \/ Skips
    \/ \E t \in Threads :
        \/ \E f \in Files : Takes(t, f) \/ Sleeps(t, f) \/ Ends(t, f)
        \/ Resume(t)
        \/ Shifts(t) /\ UNCHANGED <<features, owner, waiting, stack, abandoned>>

LEMMA KillSteps ==
    ASSUME TypeOK, NEW t \in Threads,
           \/ (t \in Wakeable /\ wakeup(t))
           \/ kill(t)
           \/ (Unwind(t) /\ stack[t] = <<>>)
    PROVE  Shifts(t) /\ UNCHANGED <<features, owner, waiting, stack, abandoned>>
<1>1. CASE t \in Wakeable /\ wakeup(t) BY <1>1 DEF wakeup, Goto, Shifts
<1>2. CASE kill(t) BY <1>2 DEF kill, Goto, Shifts
<1>3. CASE Unwind(t) /\ stack[t] = <<>>
    <2>1. \A f \in Files : ~Loads(t, f)
        <3>1. DOMAIN stack[t] = {} BY <1>3
        <3> QED BY <3>1 DEF Loads
    <2> QED BY <1>3, <2>1 DEF Unwind, Goto, Shifts
<1> QED BY <1>1, <1>2, <1>3

LEMMA NextSteps ==
    ASSUME RequireInv, Next
    PROVE  StepKinds
<1> USE DEF RequireInv
<1>1. ASSUME NEW t \in Threads, NEW f \in Files, Call(t, f)
      PROVE  StepKinds
    <2>1. SameFiles(t, <<>>)
        BY <1>1, StackTyped DEF Call, SameFiles
    <2> QED BY <1>1, <2>1, RequireSteps DEF Call, StepKinds
<1>2. ASSUME NEW t \in Threads, Nested(t)
      PROVE  StepKinds
    <2>1. stack[t] # <<>> /\ Top(t).todo # <<>> /\ pc[t] = "run"
        BY <1>2 DEF Nested
    <2>2. PICK f \in Files : f = Head(Top(t).todo)
        BY <2>1, TodoTaken
    <2>3. PICK s : s = Append(Rest(t), [Top(t) EXCEPT !.todo = Tail(@)])
        OBVIOUS
    <2>4. SameFiles(t, s) BY <2>1, <2>3, TodoTaken
    <2>5. require(t, f, s) BY <1>2, <2>2, <2>3 DEF Nested
    <2> QED BY <2>1, <2>4, <2>5, RequireSteps DEF StepKinds
<1>3. ASSUME NEW t \in Threads, Resume(t) PROVE StepKinds
    BY <1>3 DEF StepKinds
<1>4. ASSUME NEW t \in Threads, stack[t] # <<>>, Finish(t) \/ Raise(t) \/ Unwind(t)
      PROVE  StepKinds
    BY <1>4, EndSteps DEF StepKinds
<1>5. ASSUME NEW t \in Threads,
             \/ (t \in Wakeable /\ wakeup(t))
             \/ kill(t)
             \/ (Unwind(t) /\ stack[t] = <<>>)
      PROVE  StepKinds
    BY <1>5, KillSteps DEF StepKinds
<1>6. ASSUME NEW t \in Threads, Finish(t) \/ Raise(t)
      PROVE  StepKinds
    BY <1>6, <1>4 DEF Finish, Raise
<1>7. ASSUME NEW t \in Threads, Unwind(t)
      PROVE  StepKinds
    BY <1>7, <1>4, <1>5
<1> QED BY <1>1, <1>2, <1>3, <1>5, <1>6, <1>7 DEF Next, Step

LEMMA RequireKept ==
    RequireInv /\ [Next]_vars => RequireInv'
<1> SUFFICES ASSUME RequireInv, [Next]_vars PROVE RequireInv' OBVIOUS
<1>1. CASE Next
    <2>1. StepKinds BY <1>1, NextSteps
    <2> QED BY <2>1, SkipsKeep, TakesKeep, SleepsKeep, EndsKeep, ResumeKeeps,
               ShiftsKeep DEF StepKinds
<1>2. CASE UNCHANGED vars
    <2>1. LoadsKept BY <1>2 DEF vars, LoadsKept, Loads, Twice
    <2>2. StackOK BY <1>2 DEF vars, RequireInv, TypeOK, StackOK, Frames
    <2>3. Skips BY <1>2, <2>1, <2>2 DEF vars, Skips
    <2> QED BY <2>3, SkipsKeep
<1> QED BY <1>1, <1>2

LEMMA RequireInvariant ==
    Spec => []RequireInv
BY RequireStarts, RequireKept, PTL DEF Spec

-----------------------------------------------------------------------------
(* What a thread that has waited finds.                                     *)

\* A thread that Thread#wakeup leaves alone is on a list just while it waits
\* for that file, or when it was killed there.
Listed(t) ==
    t \notin Wakeable =>
        \A f \in Files :
            t \in ToSet(waiting[f]) =>
                \/ pc[t] \in {"dying", "dead"}
                \/ pc[t] = "sleep" /\ want[t] = f

\* Nobody who waits for a file is forgotten, and who is told to go on finds the
\* file, if it was not given up with threads waiting.
Informed(t) ==
    want[t] \in Files \ abandoned =>
        /\ pc[t] # "orphan"
        /\ pc[t] = "woken" /\ t \notin Wakeable => features[want[t]] > 0

WaitInv == \A t \in Threads : Listed(t) /\ Informed(t)

LEMMA SleepsInform ==
    ASSUME RequireInv, WaitInv, NEW t \in Threads, NEW f \in Files, Sleeps(t, f)
    PROVE  WaitInv'
<1> USE DEF RequireInv, Sleeps
<1>0. /\ pc'[t] = "sleep" /\ want'[t] = f
      /\ \A u \in Threads \ {t} : pc'[u] = pc[u] /\ want'[u] = want[u]
    BY DEF TypeOK
<1>1. waiting[f] \in Seq(Threads) /\ waiting'[f] = Append(waiting[f], t)
    BY DEF TypeOK
<1>2. \A g \in Files \ {f} : waiting'[g] = waiting[g] BY DEF TypeOK
<1>3. ASSUME NEW u \in Threads PROVE Listed(u)' /\ Informed(u)'
    <2>0. Listed(u) /\ Informed(u) BY DEF WaitInv
    <2>1. u \in ToSet(waiting'[f]) <=> u \in ToSet(waiting[f]) \/ u = t
        BY <1>1, OnAppended
    <2>2. CASE u = t
        <3>1. u \notin Wakeable => \A g \in Files : u \notin ToSet(waiting[g])
            BY <2>0, <2>2 DEF Listed
        <3> QED BY <2>2, <3>1, <1>0, <1>2 DEF Listed, Informed
    <2>3. CASE u # t
        <3>1. \A g \in Files : u \in ToSet(waiting'[g]) => u \in ToSet(waiting[g])
            BY <2>1, <2>3, <1>2
        <3> QED BY <2>0, <2>3, <3>1, <1>0 DEF Listed, Informed
    <2> QED BY <2>2, <2>3
<1> QED BY <1>3 DEF WaitInv

LEMMA ResumeInforms ==
    ASSUME RequireInv, WaitInv, NEW t \in Threads, Resume(t)
    PROVE  WaitInv'
<1>0. /\ pc[t] \in {"chosen", "woken"}
      /\ pc' = [pc EXCEPT ![t] = "run"]
      /\ want' = [want EXCEPT ![t] = None]
      /\ UNCHANGED <<features, owner, waiting, abandoned>>
    BY DEF Resume, Goto
<1>1. /\ pc'[t] = "run" /\ want'[t] = None
      /\ \A u \in Threads \ {t} : pc'[u] = pc[u] /\ want'[u] = want[u]
    BY <1>0 DEF RequireInv, TypeOK
<1>2. ASSUME NEW u \in Threads PROVE Listed(u)' /\ Informed(u)'
    BY <1>0, <1>1 DEF WaitInv, Listed, Informed
<1> QED BY <1>2 DEF WaitInv

LEMMA EndsInform ==
    ASSUME RequireInv, WaitInv, NEW t \in Threads, NEW f \in Files, Ends(t, f)
    PROVE  WaitInv'
<1> USE DEF RequireInv
<1>0. /\ waiting'[f] = <<>> /\ \A g \in Files \ {f} : waiting'[g] = waiting[g]
      /\ want' = want
    BY DEF Ends, TypeOK
<1>1. \A g \in Files : features[g] \in Nat /\ (features[g] > 0 => features'[g] > 0)
    <2> TAKE g \in Files
    <2>1. features \in [Files -> Nat] BY DEF TypeOK
    <2>2. CASE features' = [features EXCEPT ![f] = @ + 1]
        <3>1. CASE g = f BY <2>1, <2>2, <3>1
        <3>2. CASE g # f BY <2>1, <2>2, <3>2
        <3> QED BY <3>1, <3>2
    <2>3. CASE UNCHANGED features BY <2>1, <2>3
    <2> QED BY <2>2, <2>3 DEF Ends
<1>2. f \notin abandoned' /\ Awaited(f) => features'[f] > 0 BY DEF Ends, TypeOK
<1>3. Loads(t, f) BY DEF Ends, LoadPopped
<1>4. ASSUME NEW u \in Threads PROVE Listed(u)' /\ Informed(u)'
    <2>0. Listed(u) /\ Informed(u) /\ Told(t, f, u) /\ Sleeping(u)
        BY DEF WaitInv, Ends
    <2>1. Listed(u)'
        <3> SUFFICES ASSUME u \notin Wakeable, NEW g \in Files, u \in ToSet(waiting'[g])
                     PROVE  pc'[u] \in {"dying", "dead"} \/ (pc'[u] = "sleep" /\ want[u] = g)
            BY <1>0 DEF Listed
        <3>1. ToSet(<<>>) = {} BY DEF ToSet
        <3>2. g # f /\ u \in ToSet(waiting[g]) BY <1>0, <3>1
        <3>3. CASE pc[u] \in {"dying", "dead"} BY <2>0, <3>3 DEF Told, Waits
        <3>4. CASE pc[u] = "sleep" /\ want[u] = g
            <4>1. u \notin ToSet(waiting[f]) BY <2>0, <3>2, <3>4 DEF Listed
            <4>2. pc'[u] \in Waits BY <2>0, <3>4 DEF Told, Waits
            <4>3. pc'[u] \notin {"chosen", "orphan", "woken"}
                BY <2>0, <3>2, <3>4, <4>1 DEF Told
            <4> QED BY <3>4, <4>2, <4>3 DEF Waits
        <3> QED BY <2>0, <3>2, <3>3, <3>4 DEF Listed
    <2>2. ASSUME want[u] \in Files \ abandoned' PROVE pc'[u] # "orphan"
        <3>0. want[u] \notin abandoned BY <2>2 DEF Ends
        <3>1. SUFFICES ASSUME owner[f] # t, pc[u] = "sleep", want[u] = f PROVE FALSE
            BY <2>0, <2>2, <3>0 DEF Told, Informed
        <3>2. FileOK(f) /\ owner[f] # None BY <2>0, <2>2, <3>0, <3>1 DEF Sleeping
        <3>3. features[f] = 0 BY <3>2, <1>1 DEF FileOK
        <3> QED BY <3>1, <3>2, <3>3, <1>3 DEF FileOK
    <2>3. ASSUME want[u] \in Files \ abandoned', pc'[u] = "woken", u \notin Wakeable
          PROVE  features'[want[u]] > 0
        <3>0. want[u] \notin abandoned BY <2>3 DEF Ends
        <3>1. CASE pc[u] = "woken" BY <3>0, <3>1, <2>0, <2>3, <1>1 DEF Informed
        <3>2. CASE pc[u] # "woken"
            <4>1. u \in ToSet(waiting[f]) /\ pc[u] = "sleep"
                BY <2>0, <2>3, <3>0, <3>2 DEF Told, Informed
            <4>2. want[u] = f BY <2>0, <2>3, <4>1 DEF Listed
            <4>3. Awaited(f) BY <4>1, <4>2 DEF Awaited
            <4> QED BY <2>3, <4>2, <4>3, <1>2
        <3> QED BY <3>1, <3>2
    <2>4. Informed(u)' BY <2>2, <2>3, <1>0 DEF Informed
    <2> QED BY <2>1, <2>4
<1> QED BY <1>4 DEF WaitInv

LEMMA ShiftsInform ==
    ASSUME RequireInv, WaitInv, NEW t \in Threads, Shifts(t),
           UNCHANGED <<features, owner, waiting, stack, abandoned>>
    PROVE  WaitInv'
<1>0. /\ \A u \in Threads \ {t} : pc'[u] = pc[u] /\ want'[u] = want[u]
      /\ \/ t \in Wakeable /\ pc'[t] = "woken"
         \/ pc'[t] = "dying"
         \/ pc[t] = "dying" /\ pc'[t] = "dead"
    BY DEF Shifts, RequireInv, TypeOK
<1>1. ASSUME NEW u \in Threads PROVE Listed(u)' /\ Informed(u)'
    BY <1>0 DEF WaitInv, Listed, Informed
<1> QED BY <1>1 DEF WaitInv

LEMMA WaitKept ==
    RequireInv /\ WaitInv /\ [Next]_vars => WaitInv'
<1> SUFFICES ASSUME RequireInv, WaitInv, [Next]_vars PROVE WaitInv' OBVIOUS
<1>1. ASSUME UNCHANGED <<features, waiting, pc, want>>,
             \A u \in Threads : want[u] \in abandoned => want[u] \in abandoned'
      PROVE  WaitInv'
    BY <1>1 DEF WaitInv, Listed, Informed
<1>2. CASE Next
    <2>1. StepKinds BY <1>2, NextSteps
    <2>2. CASE Skips BY <2>2, <1>1 DEF Skips
    <2>3. ASSUME NEW t \in Threads, NEW f \in Files, Takes(t, f) PROVE WaitInv'
        <3>1. ASSUME NEW u \in Threads, want[u] \in abandoned PROVE want[u] \in abandoned'
            BY <2>3, <3>1 DEF Takes, Afresh
        <3> QED BY <2>3, <3>1, <1>1 DEF Takes
    <2> QED BY <2>1, <2>2, <2>3, SleepsInform, EndsInform, ResumeInforms,
               ShiftsInform DEF StepKinds
<1>3. CASE UNCHANGED vars BY <1>1, <1>3 DEF vars
<1> QED BY <1>2, <1>3

LEMMA WaitStarts ==
    Init => WaitInv
<1> SUFFICES ASSUME Init PROVE WaitInv OBVIOUS
<1>1. \A f \in Files : ToSet(waiting[f]) = {} BY DEF Init, ToSet
<1> QED BY <1>1 DEF Init, WaitInv, Listed, Informed

-----------------------------------------------------------------------------
(* The theorems.                                                            *)

\* Every variable has its type, and a thread names a file just while it
\* waits, for any files, dependencies and threads, and whatever is raised,
\* woken and killed.
THEOREM RequireTyped ==
    Spec => []TypeOK
<1>1. RequireInv => TypeOK BY DEF RequireInv
<1> QED BY <1>1, RequireInvariant, PTL

\* An entry of vm->loading_table always belongs to a thread that is loading
\* the file and is not dead, whatever is raised, woken and killed: the case of
\* rb_barrier_wait for an owner that was killed never occurs in require.
THEOREM OwnersLoad ==
    Spec => []TableOwned
<1>1. RequireInv => TableOwned BY DEF RequireInv
<1> QED BY <1>1, RequireInvariant, PTL

\* load_lock keeps two threads from loading a file at the same time, whatever is
\* raised, woken and killed, unless a load of the file was given up with threads
\* waiting for it and some of these still load it or wait for it.
THEOREM LoadsAreSerialized ==
    Spec => []Serialized
<1>1. ASSUME RequireInv PROVE Serialized
    <2> SUFFICES ASSUME NEW f \in Files \ abandoned, NEW t \in Threads, NEW u \in Threads,
                        Loads(t, f), Loads(u, f)
                 PROVE  t = u
        BY DEF Serialized
    <2>1. FileOK(f) /\ features[f] \in Nat
        BY <1>1 DEF RequireInv, TypeOK
    <2>2. features[f] = 0 \/ features[f] > 0 BY <2>1
    <2> QED BY <2>1, <2>2 DEF FileOK
<1> QED BY <1>1, RequireInvariant, PTL

\* A thread that rb_barrier_wait tells to go on without the file finds it in
\* $", whoever is killed and whatever is raised, if no load of the file was given
\* up with threads waiting and nobody woke this one with Thread#wakeup: a thread
\* that only thlist_signal wakes has waited long enough.
THEOREM WaitersFindTheFeature ==
    Spec => WaiterFindsFeature
<1>1. Spec => [](RequireInv /\ WaitInv)
    BY RequireStarts, WaitStarts, RequireKept, WaitKept, PTL DEF Spec
<1>2. RequireInv /\ WaitInv =>
        [\A t \in Threads \ Wakeable :
            (/\ pc[t] = "woken" /\ pc'[t] = "run"
             /\ want[t] \notin abandoned /\ stack'[t] = stack[t])
                => features[want[t]] > 0]_vars
    <2>1. ASSUME RequireInv, WaitInv, NEW t \in Threads \ Wakeable,
                 pc[t] = "woken", want[t] \notin abandoned
          PROVE  features[want[t]] > 0
        <3>1. want[t] \in Files BY <2>1 DEF RequireInv, TypeOK, Waits
        <3> QED BY <2>1, <3>1 DEF WaitInv, Informed
    <2> QED BY <2>1
<1> QED BY <1>1, <1>2, PTL DEF WaiterFindsFeature
=============================================================================
