------------------------ MODULE RubyThreadJoinProofs ------------------------
(***************************************************************************)
(* The lists of joining threads, for every set of threads: who sleeps in   *)
(* join is found by the thread that ends, and no walk along a list goes on *)
(* for ever.  Both hold without signals (a trap handler may join inside a  *)
(* join) and without abort_on_exception (a thread that gives the lock away *)
(* after its end leaves its list to others).                               *)
(***************************************************************************)
EXTENDS RubyThreadLifeProofs

USE CoreAssumption, ThreadAssumption

(***************************************************************************)
(* Linked lists.  The set J is threaded on nx from h: a link leads on in J *)
(* or to the end and nowhere from two places; a walk inside J ends; and it *)
(* meets all of J.  The last two speak of sets of threads in place of      *)
(* walks, so that nothing is proved by induction.                          *)
(***************************************************************************)
Closed(S, nx) == \A p \in S : nx[p] \in S \cup {None}

Threaded(J, h, nx) ==
    /\ h \in J \cup {None}
    /\ Closed(J, nx)
    /\ \A p \in J : nx[p] # None => nx[p] # h
    /\ \A p, q \in J : nx[p] = nx[q] /\ nx[p] # None => p = q
    /\ \A S \in SUBSET J : S # {} => \E p \in S : nx[p] \notin S
    /\ \A S \in SUBSET J : h \in S \cup {None} /\ Closed(S, nx) => S = J

\* A link that leads nowhere else changes nothing.
LEMMA ThreadedSame ==
    ASSUME NEW J \in SUBSET Threads, NEW h, NEW nx, NEW mx, Threaded(J, h, nx),
           \A p \in J : mx[p] = nx[p]
    PROVE  Threaded(J, h, mx)
BY DEF Threaded, Closed

\* A thread that is linked in front of the first.
LEMMA ThreadedFront ==
    ASSUME NEW J \in SUBSET Threads, NEW h, NEW nx, NEW mx, Threaded(J, h, nx),
           NEW t \in Threads, t \notin J,
           mx[t] = h, \A p \in J : mx[p] = nx[p]
    PROVE  Threaded(J \cup {t}, t, mx)
<1> DEFINE K == J \cup {t}
<1>1. h # t /\ \A p \in J : mx[p] # t /\ nx[p] \in J \cup {None}
  BY DEF Threaded, Closed
<1>2. Closed(K, mx)
  BY <1>1 DEF Threaded, Closed
<1>3. \A p \in K : mx[p] # None => mx[p] # t
  BY <1>1
<1>4. \A p, q \in K : mx[p] = mx[q] /\ mx[p] # None => p = q
  BY DEF Threaded
<1>5. ASSUME NEW S \in SUBSET K, S # {} PROVE \E p \in S : mx[p] \notin S
  <2>1. CASE S \ {t} = {}
    BY <1>1, <1>5, <2>1
  <2>2. CASE S \ {t} # {}
    <3>1. S \ {t} \in SUBSET J
      OBVIOUS
    <3>2. PICK p \in S \ {t} : nx[p] \notin S \ {t}
      BY <2>2, <3>1 DEF Threaded
    <3> QED BY <1>1, <3>1, <3>2
  <2> QED BY <2>1, <2>2
<1>6. ASSUME NEW S \in SUBSET K, t \in S \cup {None}, Closed(S, mx)
      PROVE  S = K
  <2>1. t \in S /\ S \ {t} \in SUBSET J
    BY <1>6
  <2>2. h \in (S \ {t}) \cup {None}
    BY <1>1, <1>6, <2>1 DEF Closed
  <2>3. Closed(S \ {t}, nx)
    BY <1>1, <1>6, <2>1 DEF Closed
  <2>4. S \ {t} = J
    BY <2>1, <2>2, <2>3 DEF Threaded
  <2> QED BY <2>1, <2>4
<1> QED BY <1>2, <1>3, <1>4, <1>5, <1>6 DEF Threaded

\* No thread is behind itself.
LEMMA NotBehindItself ==
    ASSUME NEW J \in SUBSET Threads, NEW h, NEW nx, Threaded(J, h, nx),
           NEW t \in J
    PROVE  nx[t] # t
<1>1. {t} \in SUBSET J /\ {t} # {}
  OBVIOUS
<1>2. PICK p \in {t} : nx[p] \notin {t}
  BY <1>1 DEF Threaded
<1> QED BY <1>2

\* The first is unlinked ...
LEMMA ThreadedTail ==
    ASSUME NEW J \in SUBSET Threads, NEW nx, NEW mx, NEW t \in J,
           Threaded(J, t, nx), \A p \in J \ {t} : mx[p] = nx[p]
    PROVE  Threaded(J \ {t}, nx[t], mx)
<1> DEFINE K == J \ {t}
<1>0. nx[t] # t /\ t # None
  BY NotBehindItself
<1>1. nx[t] \in K \cup {None}
  BY <1>0 DEF Threaded, Closed
<1>2. Closed(K, mx)
  BY DEF Threaded, Closed
<1>3. \A p \in K : mx[p] # None => mx[p] # nx[t]
  BY DEF Threaded
<1>4. \A p, q \in K : mx[p] = mx[q] /\ mx[p] # None => p = q
  BY DEF Threaded
<1>5. ASSUME NEW S \in SUBSET K, S # {} PROVE \E p \in S : mx[p] \notin S
  BY <1>5 DEF Threaded
<1>6. ASSUME NEW S \in SUBSET K, nx[t] \in S \cup {None}, Closed(S, mx)
      PROVE  S = K
  <2>1. Closed(S \cup {t}, nx) /\ S \cup {t} \in SUBSET J
    BY <1>6 DEF Closed
  <2>2. S \cup {t} = J
    BY <2>1 DEF Threaded
  <2> QED BY <2>2
<1> QED BY <1>1, <1>2, <1>3, <1>4, <1>5, <1>6 DEF Threaded

\* ... or another, which the one before it is led past.
LEMMA ThreadedPast ==
    ASSUME NEW J \in SUBSET Threads, NEW h, NEW nx, NEW mx, NEW t \in J,
           Threaded(J, h, nx), h # t,
           \A p \in J : mx[p] = IF nx[p] = t THEN nx[t] ELSE nx[p]
    PROVE  Threaded(J \ {t}, h, mx)
<1> DEFINE K == J \ {t}
<1>0. nx[t] # t /\ t # None
  BY NotBehindItself
<1>a. \A p \in J : nx[p] \in J \cup {None}
  BY DEF Threaded, Closed
<1>1. h \in K \cup {None}
  BY DEF Threaded
<1>2. Closed(K, mx)
  BY <1>0, <1>a DEF Closed
<1>3. \A p \in K : mx[p] # None => mx[p] # h
  BY DEF Threaded
<1>4. \A p, q \in K : mx[p] = mx[q] /\ mx[p] # None => p = q
  <2> SUFFICES ASSUME NEW p \in K, NEW q \in K, mx[p] = mx[q], mx[p] # None
               PROVE  p = q
    OBVIOUS
  <2>1. \A x, y \in J : nx[x] = nx[y] /\ nx[x] # None => x = y
    BY DEF Threaded
  <2>2. CASE nx[p] = t /\ nx[q] = t
    BY <1>0, <2>1, <2>2
  <2>3. CASE nx[p] = t /\ nx[q] # t
    BY <2>1, <2>3
  <2>4. CASE nx[p] # t /\ nx[q] = t
    BY <2>1, <2>4
  <2>5. CASE nx[p] # t /\ nx[q] # t
    BY <2>1, <2>5
  <2> QED BY <2>2, <2>3, <2>4, <2>5
<1>5. ASSUME NEW S \in SUBSET K, S # {} PROVE \E p \in S : mx[p] \notin S
  <2>1. CASE \E p \in S : nx[p] = t
    <3>1. PICK p \in S : nx[p] = t
      BY <2>1
    <3>2. S \cup {t} \in SUBSET J /\ S \cup {t} # {}
      OBVIOUS
    <3>3. PICK q \in S \cup {t} : nx[q] \notin S \cup {t}
      BY <3>2 DEF Threaded
    <3>4. CASE q = t
      BY <3>1, <3>3, <3>4
    <3>5. CASE q # t
      BY <3>3, <3>5
    <3> QED BY <3>4, <3>5
  <2>2. CASE \A p \in S : nx[p] # t
    <3>1. PICK p \in S : nx[p] \notin S
      BY <1>5 DEF Threaded
    <3> QED BY <2>2, <3>1
  <2> QED BY <2>1, <2>2
<1>6. ASSUME NEW S \in SUBSET K, h \in S \cup {None}, Closed(S, mx)
      PROVE  S = K
  <2>1. CASE \E p \in S : nx[p] = t
    <3>1. PICK p \in S : nx[p] = t
      BY <2>1
    <3>2. nx[t] \in S \cup {None}
      BY <1>6, <3>1 DEF Closed
    <3>3. \A q \in S : nx[q] \in S \cup {t} \cup {None}
      BY <1>6 DEF Closed
    <3>4. Closed(S \cup {t}, nx) /\ S \cup {t} \in SUBSET J
      BY <3>2, <3>3 DEF Closed
    <3>5. S \cup {t} = J
      BY <1>6, <3>4 DEF Threaded
    <3> QED BY <3>5
  <2>2. CASE \A p \in S : nx[p] # t
    <3>1. Closed(S, nx) /\ S \in SUBSET J
      BY <1>6, <2>2 DEF Closed
    <3>2. S = J
      BY <1>6, <3>1 DEF Threaded
    <3> QED BY <3>2
  <2> QED BY <2>1, <2>2
<1> QED BY <1>1, <1>2, <1>3, <1>4, <1>5, <1>6 DEF Threaded

-----------------------------------------------------------------------------
(* The inductive invariant.                                                 *)

\* Where a thread is in the code that calls RUBY_VM_CHECK_INTS(),
\* rb_thread_schedule or native_sleep, while it is inside one of them.
Polling == {"ints", "yield", "sl_enter", "sl_wait", "sl_status", "sl_gvl"}

At(t) == IF pc[t] \in Polling THEN ret[t] ELSE pc[t]

Joiners(u) == {t \in Threads : At(t) = "join" /\ target[t] = u}

\* The list of a thread that has not ended has on it who is joining it; that
\* of a dead thread is no longer looked at, and its members may be on others.
ListsOK ==
    \A u \in Threads :
        pc[u] # "dead" => Threaded(Joiners(u), join_list_head[u], join_list_next)

\* One joins and raises at threads that were created.
TargetsOK ==
    \A t \in Threads :
        At(t) \in {"join", "raise"} =>
            target[t] \in Threads /\ pc[target[t]] # "unborn"

\* The main thread takes what was thrown at it before it goes on: some bit is
\* set, even if the timer thread erased 0x02, and then it does not return.
MainTold ==
    thrown[Main] # "nil" => flag[Main] # {} /\ pc[Main] \in Polling

NoSignals ==
    /\ ~exec_signal /\ frame = NoFrame /\ signals.buffered = 0
    /\ \A t \in Threads : pc[t] # "sigraise" /\ ret[t] # "sigraise"

JoinInv == NoSignals /\ MainTold /\ NoHang /\ TargetsOK /\ ListsOK

\* Who sleeps in join, with no interrupt, does so on a thread that has yet to
\* end.
JoinersTold ==
    \A t \in Threads :
        Joining(t) /\ "int" \notin flag[t] => pc[target[t]] # "dead"

-----------------------------------------------------------------------------
(* Walks.                                                                   *)

\* The walk along the list of a thread that has not ended meets its joiners.
LEMMA WalkMeetsJoiners ==
    ASSUME ListsOK, NEW u \in Threads, pc[u] # "dead"
    PROVE  JoinChain(u) = Joiners(u)
<1> DEFINE J == Joiners(u)
<1>1. Threaded(J, join_list_head[u], join_list_next)
  BY DEF ListsOK
<1>2. J \in SUBSET Threads
  BY DEF Joiners
<1> HIDE DEF J
<1>3. HoldsList(u, J)
  BY <1>1 DEF Threaded, Closed, HoldsList
<1>4. ASSUME NEW S \in SUBSET Threads, HoldsList(u, S) PROVE J \subseteq S
  <2> DEFINE I == S \cap J
  <2>1. I \in SUBSET J /\ join_list_head[u] \in I \cup {None}
    BY <1>1, <1>4 DEF Threaded, HoldsList
  <2>2. Closed(I, join_list_next)
    BY <1>1, <1>4 DEF Threaded, Closed, HoldsList
  <2>3. I = J
    BY <1>1, <2>1, <2>2 DEF Threaded
  <2> QED BY <2>3
<1>5. JoinChain(u) = J
  BY <1>2, <1>3, <1>4 DEF JoinChain
<1> QED BY <1>5 DEF J

\* ... and comes to its end.
LEMMA WalkEnds ==
    ASSUME ListsOK, NEW u \in Threads, pc[u] # "dead"
    PROVE  ~Endless(u)
<1> DEFINE J == Joiners(u)
<1>1. Threaded(J, join_list_head[u], join_list_next)
  BY DEF ListsOK
<1>2. JoinChain(u) = J
  BY WalkMeetsJoiners
<1>3. J # {} => \E p \in J : join_list_next[p] = None
  <2> HIDE DEF J
  <2>1. J \in SUBSET J
    OBVIOUS
  <2>2. J # {} => \E p \in J : join_list_next[p] \notin J
    BY <1>1, <2>1 DEF Threaded
  <2> QED BY <1>1, <2>2 DEF Threaded, Closed
<1> QED BY <1>2, <1>3 DEF Endless

-----------------------------------------------------------------------------
(* What a step of thread t does to the lists.                               *)

\* The others stay where they are, are woken or created.
Others(t) ==
    \A s \in Threads \ {t} :
        /\ ret'[s] = ret[s] /\ target'[s] = target[s]
        /\ \/ pc'[s] = pc[s]
           \/ pc[s] = "sl_wait" /\ pc'[s] = "sl_status"
           \/ pc[s] = "unborn" /\ pc'[s] \in {"start", "dead"}

\* t is on the list it was on, if any, ...
Kept(t) ==
    /\ UNCHANGED joinList
    /\ At(t)' = "join" <=> At(t) = "join"
    /\ At(t) = "join" => target'[t] = target[t]

\* ... begins to join u, ...
Entered(t, u) ==
    /\ At(t) # "join" /\ At(t)' = "join" /\ target'[t] = u
    /\ IF pc[u] = "dead" THEN UNCHANGED joinList
       ELSE /\ join_list_next' = [join_list_next EXCEPT ![t] = join_list_head[u]]
            /\ join_list_head' = [join_list_head EXCEPT ![u] = t]

\* ... or leaves the join.
Left(t) ==
    /\ At(t) = "join" /\ At(t)' # "join"
    /\ IF pc[target[t]] = "dead" THEN UNCHANGED joinList
       ELSE RemoveFromJoinList(t, target[t]) /\ status[target[t]] # "killed"

\* A thread other than t.
LEMMA OthersStay ==
    ASSUME NEW t \in Threads, Others(t), NEW s \in Threads \ {t}
    PROVE  /\ At(s)' = "join" <=> At(s) = "join"
           /\ At(s)' = "raise" <=> At(s) = "raise"
           /\ target'[s] = target[s]
           /\ pc[s] = "dead" => pc'[s] = "dead"
           /\ pc'[s] = "unborn" => pc[s] = "unborn"
           /\ pc'[s] # "sigraise" \/ pc[s] = "sigraise"
           /\ pc'[s] # "hang" \/ pc[s] = "hang"
           /\ pc[s] \in Polling => pc'[s] \in Polling
BY DEF Others, At, Polling

LEMMA KeptLists ==
    ASSUME ListsOK, NEW t \in Threads, Others(t), Kept(t), pc[t] # "dead"
    PROVE  ListsOK'
<1> SUFFICES ASSUME NEW u \in Threads, pc'[u] # "dead"
             PROVE  Threaded(Joiners(u)', join_list_head'[u], join_list_next')
  BY DEF ListsOK
<1>1. pc[u] # "dead"
  BY OthersStay
<1>2. Joiners(u)' = Joiners(u)
  BY OthersStay DEF Kept, Joiners
<1> QED BY <1>1, <1>2 DEF ListsOK, Kept, joinList

LEMMA EnteredLists ==
    ASSUME TypeOK, ListsOK, NEW t \in Threads, NEW u \in Threads, Others(t),
           Entered(t, u), pc[t] # "dead"
    PROVE  ListsOK'
<1> SUFFICES ASSUME NEW w \in Threads, pc'[w] # "dead"
             PROVE  Threaded(Joiners(w)', join_list_head'[w], join_list_next')
  BY DEF ListsOK
<1>1. pc[w] # "dead"
  BY OthersStay
<1>2. Threaded(Joiners(w), join_list_head[w], join_list_next)
  BY <1>1 DEF ListsOK
<1>3. t \notin Joiners(w) /\ Joiners(w) \in SUBSET Threads
  BY DEF Entered, Joiners
<1>4. CASE w # u
  <2>1. Joiners(w)' = Joiners(w)
    BY <1>4, OthersStay DEF Entered, Joiners
  <2>2. /\ join_list_head'[w] = join_list_head[w]
        /\ \A p \in Joiners(w) : join_list_next'[p] = join_list_next[p]
    BY <1>3, <1>4 DEF Entered, joinList, TypeOK
  <2> QED BY <1>2, <1>3, <2>1, <2>2, ThreadedSame
<1>5. CASE w = u
  <2>1. Joiners(w)' = Joiners(w) \cup {t}
    BY <1>5, OthersStay DEF Entered, Joiners
  <2>2. /\ join_list_head'[w] = t
        /\ join_list_next'[t] = join_list_head[w]
        /\ \A p \in Joiners(w) : join_list_next'[p] = join_list_next[p]
    BY <1>1, <1>3, <1>5 DEF Entered, TypeOK
  <2> QED BY <1>2, <1>3, <2>1, <2>2, ThreadedFront
<1> QED BY <1>4, <1>5

LEMMA LeftLists ==
    ASSUME TypeOK, ListsOK, TargetsOK, NEW t \in Threads, Others(t), Left(t),
           pc[t] # "dead"
    PROVE  ListsOK'
<1> SUFFICES ASSUME NEW w \in Threads, pc'[w] # "dead"
             PROVE  Threaded(Joiners(w)', join_list_head'[w], join_list_next')
  BY DEF ListsOK
<1> DEFINE u == target[t]
           J == Joiners(w)
<1>0. u \in Threads
  BY DEF TargetsOK, Left
<1>1. pc[w] # "dead"
  BY OthersStay
<1>2. Threaded(J, join_list_head[w], join_list_next)
  BY <1>1 DEF ListsOK
<1>3. J \in SUBSET Threads /\ (t \in J <=> w = u)
  BY DEF Left, Joiners
<1>4. Joiners(w)' = J \ {t}
  BY OthersStay DEF Left, Joiners
<1>5. CASE w # u
  <2>1. J \ {t} = J
    BY <1>3, <1>5
  <2>2. CASE UNCHANGED joinList
    BY <1>2, <1>4, <2>1, <2>2 DEF joinList
  <2>3. CASE RemoveFromJoinList(t, u) /\ pc[u] # "dead"
    <3>1. JoinChain(u) = Joiners(u)
      BY <1>0, <2>3, WalkMeetsJoiners
    <3>2. \A p \in J : p \notin Joiners(u)
      BY <1>5 DEF Joiners
    <3>3. join_list_head'[w] = join_list_head[w]
      BY <1>5, <2>3 DEF RemoveFromJoinList, joinList, TypeOK
    <3>4. \A p \in J : join_list_next'[p] = join_list_next[p]
      BY <1>3, <2>3, <3>1, <3>2 DEF RemoveFromJoinList, joinList
    <3> QED BY <1>2, <1>3, <1>4, <2>1, <3>3, <3>4, ThreadedSame
  <2> QED BY <2>2, <2>3 DEF Left
<1>6. CASE w = u
  <2>1. JoinChain(u) = J /\ t \in J
    BY <1>1, <1>3, <1>6, WalkMeetsJoiners
  <2>2. RemoveFromJoinList(t, u) /\ status[u] # "killed"
    BY <1>1, <1>6 DEF Left
  <2>3. CASE join_list_head[u] = t
    <3>1. /\ join_list_head' = [join_list_head EXCEPT ![u] = join_list_next[t]]
          /\ UNCHANGED join_list_next
      BY <2>1, <2>2, <2>3 DEF RemoveFromJoinList
    <3>2. join_list_head'[u] = join_list_next[t]
      BY <1>0, <3>1 DEF TypeOK
    <3>3. Threaded(J, t, join_list_next)
      BY <1>2, <1>6, <2>3
    <3>4. Threaded(J \ {t}, join_list_next[t], join_list_next')
      BY <1>3, <2>1, <3>1, <3>3, ThreadedTail
    <3> QED BY <1>4, <1>6, <3>2, <3>4
  <2>4. CASE join_list_head[u] # t
    <3>1. /\ join_list_next' =
                [p \in Threads |->
                    IF p \in J /\ join_list_next[p] = t
                    THEN join_list_next[t] ELSE join_list_next[p]]
          /\ UNCHANGED join_list_head
      BY <2>1, <2>2, <2>4 DEF RemoveFromJoinList
    <3>2. \A p \in J : join_list_next'[p] =
                IF join_list_next[p] = t THEN join_list_next[t] ELSE join_list_next[p]
      BY <1>3, <3>1
    <3>3. Threaded(J \ {t}, join_list_head[u], join_list_next')
      BY <1>2, <1>3, <1>6, <2>1, <2>4, <3>2, ThreadedPast
    <3> QED BY <1>4, <1>6, <3>1, <3>3
  <2> QED BY <2>3, <2>4
<1> QED BY <1>5, <1>6

-----------------------------------------------------------------------------
(* What else a step of thread t does.                                       *)

\* The thread that t now joins or raises at was created.
Aims(t) ==
    At(t)' \in {"join", "raise"} =>
        \/ At(t) \in {"join", "raise"} /\ target'[t] = target[t]
        \/ target'[t] \in Threads /\ pc[target'[t]] # "unborn"

\* Nobody's interrupt is taken back, and who dies interrupts its joiners.
Interrupts(t) ==
    /\ \A s \in Threads \ {t} : "int" \in flag[s] => "int" \in flag'[s]
    /\ Joining(t)' =>
        /\ At(t) = "join" /\ target'[t] = target[t]
        /\ (Joining(t) /\ flag'[t] = flag[t]) \/ pc[target[t]] # "dead"
    /\ pc'[t] = "dead" => \A s \in Joiners(t) : "int" \in flag'[s]

Effect(t) ==
    /\ Others(t)
    /\ pc[t] # "dead" /\ pc'[t] \notin {"sigraise", "hang", "unborn"}
    /\ ret'[t] # "sigraise"
    /\ Aims(t)
    /\ Interrupts(t)
    /\ MainTold'
    /\ UNCHANGED <<timer, signalVars>>

ListStep(t) == Kept(t) \/ (\E u \in Threads : Entered(t, u)) \/ Left(t)

\* Whoever runs under the lock finds nobody between the end of a thread and
\* the waking of its joiners.
LEMMA KilledIsDead ==
    ASSUME CurrentIsHolder, LifeInv, NoHang, ~AbortOnException,
           NEW t \in Threads, gvl = t, pc[t] # "finwake", NEW u \in Threads
    PROVE  status[u] = "killed" <=> pc[u] = "dead"
<1>1. Life(u)
  BY DEF LifeInv
<1>2. pc[u] = "finwake" => u = t
  BY DEF CurrentIsHolder, VMSide
<1> QED BY <1>1, <1>2 DEF Life, StatusOf, NoHang

LEMMA JoinInvKept ==
    ASSUME TypeOK, JoinInv, NEW t \in Threads, Effect(t), ListStep(t)
    PROVE  JoinInv'
<1>1. ListsOK'
  BY KeptLists, EnteredLists, LeftLists DEF JoinInv, Effect, ListStep, Left
<1>2. TargetsOK'
  <2> SUFFICES ASSUME NEW s \in Threads, At(s)' \in {"join", "raise"}
               PROVE  target'[s] \in Threads /\ pc'[target'[s]] # "unborn"
    BY DEF TargetsOK
  <2>1. target'[s] \in Threads /\ pc[target'[s]] # "unborn"
    <3>1. CASE s = t
      BY <3>1 DEF JoinInv, TargetsOK, Effect, Aims
    <3>2. CASE s # t
      BY <3>2, OthersStay DEF JoinInv, TargetsOK, Effect
    <3> QED BY <3>1, <3>2
  <2>2. ASSUME NEW u \in Threads, pc[u] # "unborn" PROVE pc'[u] # "unborn"
    BY <2>2, OthersStay DEF Effect
  <2> QED BY <2>1, <2>2
<1>3. NoSignals'
  <2>1. ASSUME NEW s \in Threads PROVE pc'[s] # "sigraise" /\ ret'[s] # "sigraise"
    BY OthersStay DEF JoinInv, NoSignals, Effect, Others
  <2> QED BY <2>1 DEF JoinInv, NoSignals, Effect, signalVars
<1>4. NoHang'
  BY OthersStay DEF JoinInv, NoHang, Effect
<1> QED BY <1>1, <1>2, <1>3, <1>4 DEF JoinInv, Effect

LEMMA JoinersToldKept ==
    ASSUME TypeOK, JoinInv, JoinersTold, NEW t \in Threads, Effect(t)
    PROVE  JoinersTold'
<1> SUFFICES ASSUME NEW s \in Threads, Joining(s)', "int" \notin flag'[s]
             PROVE  pc'[target'[s]] # "dead"
  BY DEF JoinersTold
<1>1. /\ target'[s] = target[s]
      /\ (Joining(s) /\ "int" \notin flag[s]) \/ pc[target[s]] # "dead"
      /\ At(s) = "join"
  <2>1. CASE s = t
    <3>1. At(t)' = "join"
      BY <2>1 DEF Joining, At, Polling
    <3> QED BY <2>1, <3>1 DEF Effect, Interrupts, JoinersTold
  <2>2. CASE s # t
    <3>1. Joining(s)
      BY <2>2 DEF Effect, Others, Joining
    <3> QED BY <2>2, <3>1 DEF Effect, Others, Interrupts, Joining, At, Polling
  <2> QED BY <2>1, <2>2
<1>2. target[s] \in Threads /\ pc[target[s]] \notin {"dead", "unborn"}
  BY <1>1 DEF JoinersTold, JoinInv, TargetsOK
<1>3. CASE target[s] # t
  BY <1>1, <1>2, <1>3 DEF Effect, Others
<1>4. CASE target[s] = t
  <2>1. s \in Joiners(t)
    BY <1>1, <1>4 DEF Joiners
  <2> QED BY <1>1, <1>4, <2>1 DEF Effect, Interrupts
<1> QED BY <1>3, <1>4

-----------------------------------------------------------------------------
(* The actions.                                                             *)

LEMMA MovesOthers ==
    ASSUME TypeOK, NEW t \in Threads, NEW p, Moves(t, p),
           UNCHANGED ret \/ (\E r : ret' = [ret EXCEPT ![t] = r]),
           UNCHANGED target \/ (\E u : target' = [target EXCEPT ![t] = u])
    PROVE  Others(t) /\ pc'[t] = p
BY DEF TypeOK, Moves, Others

LEMMA StillTold ==
    ASSUME MainTold, NEW t \in Threads, Others(t),
           thrown'[Main] = thrown[Main],
           flag[Main] # {} => flag'[Main] # {},
           t = Main => pc[t] \notin Polling \/ pc'[t] \in Polling
    PROVE  MainTold'
BY OthersStay DEF MainTold

LEMMA InterruptAdds ==
    ASSUME NEW S, flag' = SetInterrupt(S)
    PROVE  \A s \in Threads : /\ flag[s] \subseteq flag'[s]
                              /\ s \in S => "int" \in flag'[s]
BY DEF SetInterrupt

\* Most calls: the thread was not in a join and goes on at p, not in one.
LEMMA CallEffect ==
    ASSUME TypeOK, JoinInv, NEW t \in Threads,
           NEW p \in {"user", "ints", "yield", "term", "sl_enter", "finwake", "exit"},
           Moves(t, p),
           pc[t] \in {"user", "raise", "term", "start", "finish"},
           \/ UNCHANGED ret /\ p \notin Polling
           \/ ret' = [ret EXCEPT ![t] = "user"]
           \/ ret' = [ret EXCEPT ![t] = "term"]
           \/ /\ ret' = [ret EXCEPT ![t] = "raise"]
              /\ pc[t] = "raise" /\ UNCHANGED target,
           UNCHANGED target \/ target' = [target EXCEPT ![t] = None],
           thrown'[Main] = thrown[Main],
           \A s \in Threads : flag[s] \subseteq flag'[s],
           UNCHANGED <<timer, signalVars, joinList>>
    PROVE  Effect(t) /\ Kept(t)
<1>1. Others(t) /\ pc'[t] = p
  BY MovesOthers
<1>2. At(t) = pc[t] /\ pc[t] # "join"
  BY DEF At, Polling
<1>3. /\ p \in Polling => ret'[t] \in {"user", "term", "raise"}
      /\ p \in Polling /\ ret'[t] = "raise" => At(t) = "raise" /\ target'[t] = target[t]
      /\ ret'[t] # "sigraise"
  BY <1>2 DEF TypeOK, JoinInv, NoSignals
<1>4. /\ At(t)' # "join" /\ ~Joining(t)'
      /\ At(t)' = "raise" => At(t) = "raise" /\ target'[t] = target[t]
  BY <1>1, <1>3 DEF At, Polling, Joining
<1>5. MainTold'
  BY <1>1, StillTold DEF JoinInv, Polling
<1>6. Interrupts(t)
  BY <1>1, <1>4 DEF Interrupts
<1> QED BY <1>1, <1>2, <1>3, <1>4, <1>5, <1>6 DEF Effect, Kept, Aims

\* A thread passes from one place inside RUBY_VM_CHECK_INTS(),
\* rb_thread_schedule or native_sleep to another.
LEMMA PollEffect ==
    ASSUME TypeOK, JoinInv, NEW t \in Threads,
           NEW p \in Polling \ {"sl_enter"}, Moves(t, p),
           pc[t] \in Polling, p = "sl_wait" => pc[t] = "sl_enter",
           UNCHANGED <<ret, target, thrown, flag, timer, signalVars, joinList>>
    PROVE  Effect(t) /\ Kept(t)
<1>1. Others(t) /\ pc'[t] = p
  BY MovesOthers
<1>2. At(t)' = At(t)
  BY <1>1 DEF At
<1>3. MainTold'
  BY <1>1, StillTold DEF JoinInv
<1>4. Joining(t)' => Joining(t) /\ At(t) = "join"
  BY <1>1 DEF Joining, At, Polling
<1>5. Interrupts(t)
  BY <1>1, <1>4 DEF Interrupts, Polling
<1> QED BY <1>1, <1>2, <1>3, <1>5 DEF Effect, Kept, Aims, Polling, JoinInv, NoSignals

LEMMA CreateEffect ==
    ASSUME TypeOK, JoinInv, NEW t \in Threads, NEW u \in Threads,
           thread_create_core(t, u)
    PROVE  Effect(t) /\ Kept(t)
<1>1. /\ pc[t] = "user" /\ pc[u] = "unborn" /\ u # t
      /\ UNCHANGED <<flag, thrown, timer, joinList, target, signalVars>>
  BY DEF thread_create_core, locals
<1>2. \/ /\ pc' = [pc EXCEPT ![t] = "ints", ![u] = "start"]
         /\ ret' = [ret EXCEPT ![t] = "user"]
      \/ pc' = [pc EXCEPT ![u] = "dead"] /\ UNCHANGED ret
  BY DEF thread_create_core
<1>3. Others(t) /\ (pc'[t] = "user" \/ (pc'[t] = "ints" /\ ret'[t] = "user"))
  BY <1>1, <1>2 DEF TypeOK, Others
<1>4. At(t) = "user" /\ At(t)' = "user" /\ ~Joining(t)'
  BY <1>1, <1>3 DEF At, Polling, Joining
<1>5. MainTold'
  BY <1>1, <1>3, StillTold DEF JoinInv, Polling
<1>6. ret'[t] # "sigraise"
  BY <1>2 DEF TypeOK, JoinInv, NoSignals
<1> QED BY <1>1, <1>3, <1>4, <1>5, <1>6 DEF Effect, Kept, Aims, Interrupts

LEMMA JoinEffect ==
    ASSUME TypeOK, CurrentIsHolder, LifeInv, JoinInv, ~AbortOnException,
           NEW t \in Threads, NEW u \in Threads, NEW l, thread_join(t, u, l)
    PROVE  Effect(t) /\ Entered(t, u)
<1>1. /\ pc[t] = "user" /\ gvl = t /\ pc[u] # "unborn" /\ Goto(t, "join")
      /\ target' = [target EXCEPT ![t] = u]
      /\ UNCHANGED <<ret, flag, thrown, timer, signalVars>>
  BY DEF thread_join, Holds, Created
<1>2. Others(t) /\ pc'[t] = "join" /\ target'[t] = u
  BY <1>1, GotoMoves, MovesOthers DEF TypeOK
<1>3. At(t) = "user" /\ At(t)' = "join" /\ ~Joining(t)'
  BY <1>1, <1>2 DEF At, Polling, Joining
<1>4. MainTold'
  BY <1>1, <1>2, StillTold DEF JoinInv, Polling
<1>5. status[u] = "killed" <=> pc[u] = "dead"
  BY <1>1, KilledIsDead DEF JoinInv
<1>6. Entered(t, u)
  BY <1>2, <1>3, <1>5 DEF thread_join, Entered
<1> QED
  BY <1>1, <1>2, <1>3, <1>4, <1>6
     DEF Effect, Aims, Interrupts, JoinInv, NoSignals

JoinStep == \E t \in Threads : Effect(t) /\ ListStep(t)

LEMMA JoinUser ==
    ASSUME TypeOK, CurrentIsHolder, LifeInv, JoinInv, ~AbortOnException,
           NEW t \in Threads, UserStep(t)
    PROVE  JoinStep
<1> USE DEF locals
<1> SUFFICES Effect(t) /\ ListStep(t)
  BY DEF JoinStep
<1>0. \A s \in Threads : flag[s] \subseteq flag[s]
  OBVIOUS
<1>1. ASSUME NEW u \in Threads, thread_create_core(t, u)
      PROVE  Effect(t) /\ ListStep(t)
  BY <1>1, CreateEffect DEF ListStep
<1>2. CASE Rescue(t) \/ UserRaise(t)
  <2>1. Moves(t, "user")
    BY <1>2, GotoMoves DEF Rescue, UserRaise, Raised, Moves
  <2> QED BY <1>0, <1>2, <2>1, CallEffect DEF Rescue, UserRaise, ListStep, Polling
<1>3. ASSUME NEW l \in BOOLEAN, Sleep(t, l) PROVE Effect(t) /\ ListStep(t)
  <2>1. Moves(t, "sl_enter")
    BY <1>3, GotoMoves DEF Sleep, native_sleep
  <2> QED BY <1>0, <1>3, <2>1, CallEffect DEF Sleep, native_sleep, ListStep
<1>4. CASE rb_thread_stop(t)
  <2>1. CASE /\ pc[t] = "user" /\ Raised(t)
             /\ UNCHANGED <<ret, flag, thrown, timer, joinList, target, signalVars>>
    <3>1. Moves(t, "user")
      BY <2>1, GotoMoves DEF Raised
    <3> QED BY <1>0, <2>1, <3>1, CallEffect DEF ListStep, Polling
  <2> QED BY <1>3, <1>4, <2>1 DEF rb_thread_stop
<1>5. CASE thread_s_pass(t)
  <2>1. /\ pc[t] = "user" /\ ret' = [ret EXCEPT ![t] = "user"]
        /\ Goto(t, "ints") \/ Goto(t, "yield")
        /\ UNCHANGED <<flag, thrown, timer, joinList, target, signalVars>>
    BY <1>5 DEF thread_s_pass, Schedule
  <2>2. PICK p \in {"ints", "yield"} : Moves(t, p)
    BY <2>1, GotoMoves
  <2> QED BY <1>0, <2>1, <2>2, CallEffect DEF ListStep
<1>6. ASSUME NEW u \in Threads, rb_thread_wakeup(t, u)
      PROVE  Effect(t) /\ ListStep(t)
  <2>1. pc[t] = "user" /\ UNCHANGED <<thrown, timer, joinList, target, signalVars>>
    BY <1>6 DEF rb_thread_wakeup
  <2>2. CASE Raised(t) /\ UNCHANGED <<ret, flag>>
    <3>1. Moves(t, "user")
      BY <2>2, GotoMoves DEF Raised
    <3> QED BY <1>0, <2>1, <2>2, <3>1, CallEffect DEF ListStep, Polling
  <2>3. CASE /\ flag' = SetInterrupt({u}) /\ ret' = [ret EXCEPT ![t] = "user"]
             /\ pc' = Woken({u}, [pc EXCEPT ![t] = "ints"])
    <3>1. Moves(t, "ints")
      BY <2>3, WokenMoves
    <3>2. \A s \in Threads : flag[s] \subseteq flag'[s]
      BY <2>3, InterruptAdds
    <3> QED BY <2>1, <2>3, <3>1, <3>2, CallEffect DEF ListStep
  <2> QED BY <1>6, <2>2, <2>3 DEF rb_thread_wakeup
<1>7. ASSUME NEW u \in Threads, rb_thread_run(t, u)
      PROVE  Effect(t) /\ ListStep(t)
  <2>1. CASE /\ pc[t] = "user" /\ UNCHANGED <<thrown, timer, joinList, target, signalVars>>
             /\ flag' = SetInterrupt({u}) /\ ret' = [ret EXCEPT ![t] = "user"]
             /\ pc' = Woken({u}, [pc EXCEPT ![t] = "yield"])
    <3>1. Moves(t, "yield")
      BY <2>1, WokenMoves
    <3>2. \A s \in Threads : flag[s] \subseteq flag'[s]
      BY <2>1, InterruptAdds
    <3> QED BY <2>1, <3>1, <3>2, CallEffect DEF ListStep
  <2> QED BY <1>6, <1>7, <2>1 DEF rb_thread_run
<1>8. ASSUME NEW u \in Threads, NEW l \in BOOLEAN, thread_join(t, u, l)
      PROVE  Effect(t) /\ ListStep(t)
  BY <1>8, JoinEffect DEF ListStep
<1>9. ASSUME NEW u \in Threads, thread_raise_m(t, u)
      PROVE  Effect(t) /\ ListStep(t)
  <2>1. /\ pc[t] = "user" /\ pc[u] # "unborn" /\ Goto(t, "raise")
        /\ target' = [target EXCEPT ![t] = u]
        /\ UNCHANGED <<ret, flag, thrown, timer, joinList, signalVars>>
    BY <1>9 DEF thread_raise_m, Created
  <2>2. Others(t) /\ pc'[t] = "raise" /\ target'[t] = u
    BY <2>1, GotoMoves, MovesOthers DEF TypeOK
  <2>3. At(t) = "user" /\ At(t)' = "raise" /\ ~Joining(t)'
    BY <2>1, <2>2 DEF At, Polling, Joining
  <2>4. MainTold'
    BY <2>1, <2>2, StillTold DEF JoinInv, Polling
  <2> QED
    BY <2>1, <2>2, <2>3, <2>4
       DEF Effect, Aims, Interrupts, JoinInv, NoSignals, ListStep, Kept
<1>10. ASSUME NEW u \in Threads, rb_thread_kill(t, u)
      PROVE  Effect(t) /\ ListStep(t)
  <2>1. pc[t] = "user" /\ UNCHANGED <<timer, joinList, signalVars>>
    BY <1>10 DEF rb_thread_kill
  <2>2. CASE Return(t) /\ UNCHANGED <<flag, thrown>>
    <3>1. Moves(t, "ints")
      BY <2>2, GotoMoves DEF Return
    <3> QED BY <1>0, <2>1, <2>2, <3>1, CallEffect DEF ListStep, Return
  <2>3. CASE Raised(t) /\ UNCHANGED <<ret, flag, thrown, target>>
    <3>1. Moves(t, "user")
      BY <2>3, GotoMoves DEF Raised
    <3> QED BY <1>0, <2>1, <2>3, <3>1, CallEffect DEF ListStep, Polling
  <2>4. CASE /\ u # Main /\ thrown' = [thrown EXCEPT ![u] = "kill"]
             /\ flag' = SetInterrupt({u}) /\ ret' = [ret EXCEPT ![t] = "user"]
             /\ pc' = Woken({u}, [pc EXCEPT ![t] = "ints"]) /\ UNCHANGED target
    <3>1. Moves(t, "ints")
      BY <2>4, WokenMoves
    <3>2. \A s \in Threads : flag[s] \subseteq flag'[s]
      BY <2>4, InterruptAdds
    <3>3. thrown'[Main] = thrown[Main]
      BY <2>4 DEF TypeOK
    <3> QED BY <2>1, <2>4, <3>1, <3>2, <3>3, CallEffect DEF ListStep
  <2> QED BY <1>10, <2>2, <2>3, <2>4 DEF rb_thread_kill
<1> QED
  BY <1>1, <1>2, <1>3, <1>4, <1>5, <1>6, <1>7, <1>8, <1>9, <1>10 DEF UserStep

LEMMA JoinPolls ==
    ASSUME TypeOK, JoinInv, NEW t \in Threads,
           GetsLock(t) \/ SleepStep(t) \/ SleepSpurious(t)
    PROVE  JoinStep
<1> USE DEF locals, threadVars
<1> SUFFICES Effect(t) /\ Kept(t)
  BY DEF JoinStep, ListStep
<1>1. CASE Start(t)
  <2>1. Moves(t, "user") /\ \A s \in Threads : flag[s] \subseteq flag'[s]
    BY <1>1, GotoMoves DEF Start
  <2> QED BY <1>1, <2>1, CallEffect DEF Start, Polling
<1>2. CASE Yielded(t)
  BY <1>2, GotoMoves, PollEffect DEF Yielded, Polling
<1>3. CASE SleepLeave(t)
  BY <1>3, GotoMoves, PollEffect DEF SleepLeave, RegainLock, Polling
<1>4. CASE SleepEnter(t)
  <2>1. PICK p \in {"sl_wait", "sl_status"} : Goto(t, p)
    BY <1>4 DEF SleepEnter, EnterWait
  <2> QED
    BY <1>4, <2>1, GotoMoves, PollEffect
       DEF SleepEnter, EnterWait, notAsleep, Polling
<1>5. CASE SleepTimeout(t) \/ SleepSpurious(t)
  BY <1>5, GotoMoves, PollEffect
     DEF SleepTimeout, SleepSpurious, EndWait, notAsleep, Polling
<1>6. CASE SleepRestore(t)
  BY <1>6, GotoMoves, PollEffect DEF SleepRestore, RestoreStatus, notAsleep, Polling
<1> QED BY <1>1, <1>2, <1>3, <1>4, <1>5, <1>6 DEF GetsLock, SleepStep

\* While another thread has the lock, the main thread is inside one of them.
LEMMA MainAway ==
    ASSUME TypeOK, CurrentIsHolder, LifeInv, NEW t \in Threads, gvl = t, t # Main
    PROVE  pc[Main] \in Polling
<1>1. pc[Main] \in PCs \ VMSide /\ pc[Main] \notin MainNever
  BY DEF TypeOK, CurrentIsHolder, LifeInv, MainOK
<1> QED BY <1>1 DEF PCs, VMSide, MainNever, Polling

\* A thread that leaves a join finds itself on the list, or its target dead.
LEMMA FoundOnList ==
    ASSUME TypeOK, CurrentIsHolder, LifeInv, JoinInv, ~AbortOnException,
           NEW t \in Threads, gvl = t, At(t) = "join"
    PROVE  /\ target[t] \in Threads
           /\ status[target[t]] = "killed" <=> pc[target[t]] = "dead"
           /\ ~RemoveHangs(t, target[t])
<1>1. target[t] \in Threads
  BY DEF JoinInv, TargetsOK
<1>2. pc[t] # "finwake"
  BY DEF At, Polling
<1>3. status[target[t]] = "killed" <=> pc[target[t]] = "dead"
  BY <1>1, <1>2, KilledIsDead DEF JoinInv
<1>4. ASSUME status[target[t]] # "killed" PROVE t \in JoinChain(target[t])
  <2>1. JoinChain(target[t]) = Joiners(target[t])
    BY <1>1, <1>3, <1>4, WalkMeetsJoiners DEF JoinInv
  <2> QED BY <2>1 DEF Joiners
<1> QED BY <1>1, <1>3, <1>4 DEF RemoveHangs

\* `exception from another thread'.
LEMMA ThrowEffect ==
    ASSUME TypeOK, CurrentIsHolder, LifeInv, JoinInv, ~AbortOnException,
           NEW t \in Threads, gvl = t, pc[t] = "ints",
           Throw(t, ret[t], target[t]), flag' = [flag EXCEPT ![t] = {}],
           UNCHANGED <<timer, signalVars>>
    PROVE  Effect(t) /\ ListStep(t)
<1>1. /\ ret[t] \in Labels /\ ret[t] \notin {"sigraise", "finraise"}
      /\ At(t) = ret[t]
  BY DEF TypeOK, JoinInv, NoSignals, LifeInv, Life, StatusOf, At, Polling
<1>2. PICK p \in {"term", "user"} : Goto(t, p)
  <2>1. ~(ret[t] = "join" /\ RemoveHangs(t, target[t]))
    BY <1>1, FoundOnList
  <2> QED BY <1>1, <2>1 DEF Throw, Unwind
<1>3. /\ ret' = [ret EXCEPT ![t] = "user"]
      /\ target' = [target EXCEPT ![t] = None]
  BY DEF Throw, Unwind
<1>4. Others(t) /\ pc'[t] = p /\ ret'[t] = "user"
  BY <1>2, <1>3, GotoMoves, MovesOthers DEF TypeOK
<1>5. At(t)' \in {"term", "user"} /\ ~Joining(t)'
  BY <1>4 DEF At, Polling, Joining
<1>6. MainTold'
  <2>1. CASE t = Main
    BY <2>1 DEF Throw, TypeOK, MainTold
  <2>2. CASE t # Main
    <3>1. thrown'[Main] = thrown[Main] /\ flag'[Main] = flag[Main]
      BY <2>2 DEF Throw, TypeOK
    <3> QED BY <1>4, <2>2, <3>1, StillTold DEF JoinInv
  <2> QED BY <2>1, <2>2
<1>7. Interrupts(t)
  BY <1>4, <1>5 DEF Interrupts, TypeOK
<1>8. Effect(t)
  BY <1>4, <1>5, <1>6, <1>7 DEF Effect, Aims
<1>9. CASE ret[t] = "join"
  <2>1. RemoveFromJoinList(t, target[t])
    BY <1>9 DEF Throw, Unwind
  <2>2. status[target[t]] = "killed" <=> pc[target[t]] = "dead"
    BY <1>1, <1>9, FoundOnList
  <2>3. Left(t)
    BY <1>1, <1>5, <1>9, <2>1, <2>2 DEF Left, RemoveFromJoinList
  <2> QED BY <1>8, <2>3 DEF ListStep
<1>10. CASE ret[t] # "join"
  <2>1. UNCHANGED joinList
    BY <1>10 DEF Throw, Unwind
  <2> QED BY <1>1, <1>5, <1>8, <1>10, <2>1 DEF ListStep, Kept
<1> QED BY <1>9, <1>10

\* thread_join goes on after thread_join_sleep.
LEMMA JoinsEffect ==
    ASSUME TypeOK, CurrentIsHolder, LifeInv, JoinInv, ~AbortOnException,
           NEW t \in Threads, JoinDone(t) \/ JoinTimeout(t)
    PROVE  Effect(t) /\ ListStep(t)
<1>1. /\ pc[t] = "join" /\ gvl = t
      /\ UNCHANGED <<flag, thrown, timer, signalVars>>
  BY DEF JoinDone, JoinTimeout, Holds
<1>2. At(t) = "join"
  BY <1>1 DEF At, Polling
<1>3. /\ status[target[t]] = "killed" <=> pc[target[t]] = "dead"
      /\ ~RemoveHangs(t, target[t])
  BY <1>1, <1>2, FoundOnList
<1>4. /\ \E p \in {"user", "ints"} : Goto(t, p)
      /\ ret' = [ret EXCEPT ![t] = "user"]
      /\ target' = [target EXCEPT ![t] = None]
  BY <1>3 DEF JoinDone, JoinTimeout, Return, Unwind
<1>5. PICK p \in {"user", "ints"} : Goto(t, p)
  BY <1>4
<1>6. Others(t) /\ pc'[t] = p /\ ret'[t] = "user"
  BY <1>4, <1>5, GotoMoves, MovesOthers DEF TypeOK
<1>7. At(t)' = "user" /\ ~Joining(t)'
  BY <1>6 DEF At, Polling, Joining
<1>8. MainTold'
  BY <1>1, <1>6, StillTold DEF JoinInv, Polling
<1>9. Effect(t)
  BY <1>1, <1>6, <1>7, <1>8 DEF Effect, Aims, Interrupts
<1>10. Left(t)
  <2>1. CASE JoinDone(t)
    <3>1. UNCHANGED joinList /\ pc[target[t]] = "dead"
      BY <1>3, <2>1 DEF JoinDone, Unwind
    <3> QED BY <1>2, <1>7, <3>1 DEF Left
  <2>2. CASE JoinTimeout(t)
    BY <1>2, <1>3, <1>7, <2>2 DEF JoinTimeout, Left
  <2> QED BY <2>1, <2>2
<1> QED BY <1>9, <1>10 DEF ListStep

LEMMA JoinSleepEffect ==
    ASSUME TypeOK, CurrentIsHolder, LifeInv, JoinInv, ~AbortOnException,
           NEW t \in Threads, JoinSleep(t)
    PROVE  Effect(t) /\ ListStep(t)
<1>1. /\ pc[t] = "join" /\ gvl = t /\ Goto(t, "sl_enter")
      /\ ret' = [ret EXCEPT ![t] = "join"] /\ status[target[t]] # "killed"
      /\ UNCHANGED <<target, flag, thrown, timer, joinList, signalVars>>
  BY DEF JoinSleep, native_sleep, GvlUnlock
<1>2. At(t) = "join"
  BY <1>1 DEF At, Polling
<1>3. pc[target[t]] # "dead"
  BY <1>1, <1>2, FoundOnList
<1>4. Others(t) /\ pc'[t] = "sl_enter" /\ ret'[t] = "join"
  BY <1>1, GotoMoves, MovesOthers DEF TypeOK
<1>5. At(t)' = "join"
  BY <1>4 DEF At, Polling
<1>6. MainTold'
  BY <1>1, <1>4, StillTold DEF JoinInv, Polling
<1> QED
  BY <1>1, <1>2, <1>3, <1>4, <1>5, <1>6
     DEF Effect, Aims, Interrupts, ListStep, Kept

\* A thread that is alone does not wait for what it was to take itself.
LEMMA RaiseEffect ==
    ASSUME TypeOK, CurrentIsHolder, LifeInv, JoinInv, ~AbortOnException,
           NEW t \in Threads, rb_thread_raise(t)
    PROVE  Effect(t) /\ ListStep(t)
<1> USE DEF locals
<1> DEFINE u == target[t]
<1>1. /\ pc[t] = "raise" /\ UNCHANGED <<timer, joinList, signalVars>>
      /\ gvl = t
  BY DEF rb_thread_raise, Holds, GvlUnlock, Schedule
<1>2. At(t) = "raise"
  BY <1>1 DEF At, Polling
<1>3. u \in Threads /\ pc[u] # "unborn"
  BY <1>2 DEF JoinInv, TargetsOK
<1>0. \A s \in Threads : flag[s] \subseteq flag[s]
  OBVIOUS
<1>4. CASE Return(t) /\ UNCHANGED <<flag, thrown>>
  <2>1. Moves(t, "ints")
    BY <1>4, GotoMoves DEF Return
  <2> QED BY <1>0, <1>1, <1>4, <2>1, CallEffect DEF ListStep, Return
<1>5. CASE /\ status[u] # "killed" /\ thrown[u] # "nil" /\ Schedule(t, "raise")
           /\ UNCHANGED <<flag, thrown, locals>>
  <2>1. ~rb_thread_alone
    <3> SUFFICES ASSUME rb_thread_alone PROVE FALSE
      OBVIOUS
    <3>1. t \in living /\ u \in living
      BY <1>1, <1>3, <1>5 DEF LifeInv, Life, StatusOf, JoinInv, NoHang
    <3>2. Main \in living
      BY DEF LifeInv, MainOK
    <3>3. IsFiniteSet(living)
      BY FS_Subset DEF TypeOK
    <3>4. PICK x : living = {x}
      BY <3>3, FS_Singleton DEF rb_thread_alone
    <3>5. t = Main /\ u = Main
      BY <3>1, <3>2, <3>4
    <3> QED BY <1>1, <1>5, <3>5 DEF JoinInv, MainTold, Polling
  <2>2. /\ Moves(t, "yield")
        /\ ret' = [ret EXCEPT ![t] = "raise"]
    BY <1>5, <2>1, GotoMoves DEF Schedule
  <2> QED BY <1>0, <1>1, <1>5, <2>2, CallEffect DEF ListStep
<1>6. CASE /\ thrown' = [thrown EXCEPT ![u] = "exc"]
           /\ flag' = SetInterrupt({u})
           /\ pc' = Woken({u}, [pc EXCEPT ![t] = "ints"])
           /\ ret' = [ret EXCEPT ![t] = "user"]
           /\ target' = [target EXCEPT ![t] = None]
  <2>1. Moves(t, "ints")
    BY <1>6, WokenMoves
  <2>2. Others(t) /\ pc'[t] = "ints" /\ ret'[t] = "user"
    BY <1>6, <2>1, MovesOthers DEF TypeOK
  <2>3. /\ \A s \in Threads : flag[s] \subseteq flag'[s]
        /\ "int" \in flag'[u]
    BY <1>3, <1>6, InterruptAdds
  <2>4. At(t)' = "user" /\ ~Joining(t)'
    BY <2>2 DEF At, Polling, Joining
  <2>5. MainTold'
    <3>1. CASE u = Main
      <4>1. pc'[Main] \in Polling
        BY <1>1, <2>2, MainAway, OthersStay DEF Polling
      <4> QED BY <2>3, <3>1, <4>1 DEF MainTold
    <3>2. CASE u # Main
      <4>1. thrown'[Main] = thrown[Main]
        BY <1>6, <3>2 DEF TypeOK
      <4> QED BY <1>1, <2>2, <2>3, <4>1, StillTold DEF JoinInv, Polling
    <3> QED BY <3>1, <3>2
  <2> QED
    BY <1>1, <1>2, <2>2, <2>3, <2>4, <2>5
       DEF Effect, Aims, Interrupts, ListStep, Kept
<1> QED BY <1>4, <1>5, <1>6 DEF rb_thread_raise

LEMMA FinishWakeEffect ==
    ASSUME TypeOK, LifeInv, JoinInv, NEW t \in Threads, FinishWake(t)
    PROVE  Effect(t) /\ ListStep(t)
<1> DEFINE S == JoinChain(t)
<1>1. /\ pc[t] = "finwake" /\ t # Main /\ flag' = SetInterrupt(S)
      /\ UNCHANGED <<ret, target, thrown, timer, joinList, signalVars>>
  BY DEF FinishWake, locals, LifeInv, MainOK, MainNever
<1>2. pc' = Woken(S, [pc EXCEPT ![t] = "dead"])
  BY <1>1, WalkEnds DEF FinishWake, JoinInv
<1>3. S = Joiners(t)
  BY <1>1, WalkMeetsJoiners DEF JoinInv
<1> HIDE DEF S
<1>4. Others(t) /\ pc'[t] = "dead"
  BY <1>1, <1>2, WokenMoves, MovesOthers
<1>5. \A s \in Threads : /\ flag[s] \subseteq flag'[s]
                         /\ s \in Joiners(t) => "int" \in flag'[s]
  BY <1>1, <1>3, InterruptAdds
<1>6. At(t) = "finwake" /\ At(t)' = "dead" /\ ~Joining(t)'
  BY <1>1, <1>4 DEF At, Polling, Joining
<1>7. MainTold'
  BY <1>1, <1>4, <1>5, StillTold DEF JoinInv
<1>8. \A s \in Joiners(t) : "int" \in flag'[s]
  BY <1>5 DEF Joiners
<1> QED
  BY <1>1, <1>4, <1>5, <1>6, <1>7, <1>8
     DEF Effect, Aims, Interrupts, ListStep, Kept, JoinInv, NoSignals

LEMMA JoinRuns ==
    ASSUME TypeOK, CurrentIsHolder, LifeInv, JoinInv, ~AbortOnException,
           NEW t \in Threads, RunsUnderLock(t) \/ Finish(t)
    PROVE  JoinStep
<1> USE DEF locals
<1> SUFFICES Effect(t) /\ ListStep(t)
  BY DEF JoinStep
<1>0. \A s \in Threads : flag[s] \subseteq flag[s]
  OBVIOUS
<1>1. CASE CheckInts(t)
  <2>1. Moves(t, "ints")
    BY <1>1, GotoMoves DEF CheckInts
  <2> QED BY <1>0, <1>1, <2>1, CallEffect DEF CheckInts, ListStep
<1>2. CASE JoinDone(t) \/ JoinTimeout(t)
  BY <1>2, JoinsEffect
<1>3. CASE JoinSleep(t)
  BY <1>3, JoinSleepEffect
<1>4. CASE rb_thread_raise(t)
  BY <1>4, RaiseEffect
<1>5. CASE IntsReturn(t)
  <2>1. /\ pc[t] = "ints" /\ flag[t] = {} /\ Goto(t, ret[t])
        /\ ret' = [ret EXCEPT ![t] = "user"]
        /\ UNCHANGED <<flag, thrown, timer, joinList, target, signalVars>>
    BY <1>5 DEF IntsReturn
  <2>2. ret[t] \in Labels \ {"sigraise"}
    BY DEF TypeOK, JoinInv, NoSignals
  <2>3. Others(t) /\ pc'[t] = ret[t] /\ ret'[t] = "user"
    BY <2>1, GotoMoves, MovesOthers DEF TypeOK
  <2>4. At(t)' = At(t) /\ ~Joining(t)'
    BY <2>1, <2>2, <2>3 DEF At, Polling, Joining, Labels
  <2>5. MainTold'
    <3>1. CASE t = Main
      BY <2>1, <3>1 DEF JoinInv, MainTold
    <3>2. CASE t # Main
      BY <2>1, <2>3, <3>2, StillTold DEF JoinInv
    <3> QED BY <3>1, <3>2
  <2>6. Interrupts(t)
    BY <2>1, <2>2, <2>3, <2>4 DEF Interrupts, Labels
  <2>7. Effect(t)
    BY <2>1, <2>2, <2>3, <2>4, <2>5, <2>6 DEF Effect, Aims, Labels
  <2> QED BY <2>1, <2>4, <2>7 DEF ListStep, Kept
<1>6. CASE IntsThrow(t)
  <2>1. ret[t] # "sigraise"
    BY DEF JoinInv, NoSignals
  <2> QED BY <1>6, <2>1, ThrowEffect DEF IntsThrow, Holds, signalVars
<1>7. CASE IntsPass(t)
  <2>1. /\ pc[t] = "ints" /\ thrown[t] = "nil" /\ flag' = [flag EXCEPT ![t] = {}]
        /\ UNCHANGED pc \/ Goto(t, "yield")
        /\ UNCHANGED <<ret, thrown, timer, joinList, target, signalVars>>
    BY <1>7 DEF IntsPass
  <2>2. PICK p \in {"ints", "yield"} : Moves(t, p)
    BY <2>1, GotoMoves DEF Moves
  <2>3. Others(t) /\ pc'[t] = p
    BY <2>1, <2>2, MovesOthers
  <2>4. At(t)' = At(t) /\ ~Joining(t)'
    BY <2>1, <2>3 DEF At, Polling, Joining
  <2>5. MainTold'
    <3>1. CASE t = Main
      BY <2>1, <3>1 DEF MainTold
    <3>2. CASE t # Main
      <4>1. flag'[Main] = flag[Main]
        BY <2>1, <3>2 DEF TypeOK
      <4> QED BY <2>1, <2>3, <3>2, <4>1, StillTold DEF JoinInv
    <3> QED BY <3>1, <3>2
  <2>6. Interrupts(t)
    BY <2>1, <2>3, <2>4 DEF Interrupts, TypeOK
  <2>7. Effect(t)
    BY <2>1, <2>3, <2>4, <2>5, <2>6 DEF Effect, Aims, JoinInv, NoSignals
  <2> QED BY <2>1, <2>4, <2>7 DEF ListStep, Kept
<1>8. CASE FinishRaise(t)
  BY <1>8 DEF FinishRaise, LifeInv, Life, StatusOf
<1>9. CASE FinishWake(t)
  BY <1>9, FinishWakeEffect
<1>10. CASE Finish(t)
  <2>1. Moves(t, "finwake")
    BY <1>10, GotoMoves DEF Finish
  <2> QED BY <1>0, <1>10, <2>1, CallEffect DEF Finish, ListStep, Polling
<1> QED
  BY <1>1, <1>2, <1>3, <1>4, <1>5, <1>6, <1>7, <1>8, <1>9, <1>10
     DEF RunsUnderLock

LEMMA JoinMain ==
    ASSUME TypeOK, LifeInv, JoinInv,
           MainStep \/ TrapReturn \/ TrapUnwind \/ rb_thread_terminate_all
    PROVE  JoinStep
<1> USE DEF locals
<1>0. \A s \in Threads : flag[s] \subseteq flag[s]
  OBVIOUS
<1>1. /\ ~signal_exec /\ ~rb_interrupt /\ ~rb_thread_signal_raise
      /\ ~TrapReturn /\ ~TrapUnwind
  BY DEF JoinInv, NoSignals, signal_exec, rb_interrupt, rb_thread_signal_raise,
         SignalTaken, TrapReturn, TrapUnwind
<1> SUFFICES Effect(Main) /\ Kept(Main)
  BY DEF JoinStep, ListStep
<1>2. CASE TerminateWait
  <2>1. Moves(Main, "yield") /\ ret' = [ret EXCEPT ![Main] = "term"]
    BY <1>2, GotoMoves DEF TerminateWait, Schedule
  <2> QED BY <1>0, <1>2, <2>1, CallEffect DEF TerminateWait
<1>3. CASE TerminateDone
  <2>1. Moves(Main, "exit")
    BY <1>3, GotoMoves DEF TerminateDone
  <2> QED BY <1>0, <1>3, <2>1, CallEffect DEF TerminateDone, Polling
<1>4. CASE rb_thread_terminate_all
  <2> DEFINE S == living \ {Main}
  <2>1. /\ pc[Main] = "user" /\ flag' = SetInterrupt(S)
        /\ pc' = Woken(S, [pc EXCEPT ![Main] = "term"])
        /\ UNCHANGED <<ret, timer, joinList, target, signalVars>>
        /\ thrown'[Main] = thrown[Main]
    BY <1>4 DEF rb_thread_terminate_all
  <2> HIDE DEF S
  <2>2. Moves(Main, "term")
    BY <2>1, WokenMoves
  <2>3. \A s \in Threads : flag[s] \subseteq flag'[s]
    BY <2>1, InterruptAdds
  <2> QED BY <2>1, <2>2, <2>3, CallEffect DEF Polling
<1> QED BY <1>1, <1>2, <1>3, <1>4 DEF MainStep

\* The timer thread, which only sets bits, and steps in which nothing happens.
TimerStep ==
    /\ UNCHANGED <<pc, ret, thrown, target, joinList, signalVars>>
    /\ flag[Main] # {} => flag'[Main] # {}

LEMMA JoinTimer ==
    ASSUME TypeOK, JoinInv, MaxSignals = 0, TimerTick \/ TimerSignal \/ sighandler
    PROVE  TimerStep /\ TimerTick
<1>1. ~TimerSignal
  BY DEF TimerSignal, JoinInv, NoSignals
<1>2. ~sighandler
  <2>1. signals.sent \in 0..0
    BY DEF TypeOK
  <2> QED BY <2>1 DEF sighandler
<1>3. CASE TimerTick
  <2>1. flag[Main] # {} => flag'[Main] # {}
    <3>1. CASE UNCHANGED flag
      BY <3>1
    <3>2. ASSUME NEW v \in Threads, NEW x, flag' = [flag EXCEPT ![v] = x \cup {"timer"}]
          PROVE  flag[Main] # {} => flag'[Main] # {}
      BY <3>2 DEF TypeOK
    <3>3. timer.victim # None => timer.victim \in Threads
      BY DEF TypeOK
    <3>4. current \in Threads
      BY DEF TypeOK
    <3> QED
      BY <1>3, <3>1, <3>2, <3>3, <3>4 DEF TimerTick, TimerLoad, RubyVmSetTimerInterrupt
  <2> QED BY <1>3, <2>1 DEF TimerTick, TimerStep, locals
<1> QED BY <1>1, <1>2, <1>3

LEMMA TimerKeepsJoins ==
    ASSUME JoinInv, TimerStep
    PROVE  JoinInv'
<1>1. ASSUME NEW u \in Threads PROVE Joiners(u)' = Joiners(u)
  BY DEF Joiners, At, TimerStep
<1>2. ListsOK'
  BY <1>1 DEF JoinInv, ListsOK, TimerStep, joinList
<1>3. TargetsOK'
  BY DEF JoinInv, TargetsOK, At, TimerStep
<1>4. NoSignals' /\ NoHang' /\ MainTold'
  BY DEF JoinInv, NoSignals, NoHang, MainTold, TimerStep, signalVars
<1> QED BY <1>2, <1>3, <1>4 DEF JoinInv

LEMMA EveryStep ==
    ASSUME TypeOK, CurrentIsHolder, LifeInv, JoinInv, ~AbortOnException,
           MaxSignals = 0, [Next]_vars
    PROVE  JoinStep \/ (TimerStep /\ (TimerTick \/ UNCHANGED vars))
<1>1. CASE UNCHANGED vars
  BY <1>1 DEF vars, coreVars, locals, signalVars, TimerStep
<1>2. CASE TimerTick \/ TimerSignal \/ sighandler
  BY <1>2, JoinTimer
<1>3. CASE Next /\ ~(TimerTick \/ TimerSignal \/ sighandler)
  BY <1>1, <1>3, JoinUser, JoinPolls, JoinRuns, JoinMain DEF Next, Exited
<1> QED BY <1>1, <1>2, <1>3

LEMMA JoinStarts == Init => JoinInv /\ JoinersTold
<1> SUFFICES ASSUME Init PROVE JoinInv /\ JoinersTold
  OBVIOUS
<1>1. /\ \A t \in Threads : /\ pc[t] \in {"user", "unborn"} /\ ret[t] = "user"
                            /\ thrown[t] = "nil" /\ join_list_head[t] = None
      /\ signals.buffered = 0 /\ ~exec_signal /\ frame = NoFrame
  BY DEF Init, CoreInit
<1>2. \A t \in Threads : At(t) \in {"user", "unborn"} /\ ~Joining(t)
  BY <1>1 DEF At, Polling, Joining
<1>3. \A u \in Threads : Joiners(u) = {}
  BY <1>2 DEF Joiners
<1>4. Threaded({}, None, join_list_next)
  BY DEF Threaded, Closed
<1>5. ListsOK
  BY <1>1, <1>3, <1>4 DEF ListsOK
<1> QED
  BY <1>1, <1>2, <1>5
     DEF JoinInv, NoSignals, MainTold, NoHang, TargetsOK, JoinersTold

LEMMA JoinNext ==
    ASSUME ~AbortOnException, MaxSignals = 0
    PROVE  TypeOK /\ CurrentIsHolder /\ LifeInv /\ JoinInv /\ [Next]_vars => JoinInv'
BY EveryStep, JoinInvKept, TimerKeepsJoins DEF JoinStep

LEMMA JoinInvariant ==
    ASSUME ~AbortOnException, MaxSignals = 0
    PROVE  Spec => [](TypeOK /\ CurrentIsHolder /\ LifeInv /\ JoinInv)
<1>1. Init => JoinInv
  BY JoinStarts
<1>2. TypeOK /\ CurrentIsHolder /\ LifeInv /\ JoinInv /\ [Next]_vars => JoinInv'
  BY JoinNext
<1> QED BY <1>1, <1>2, LifeInvariant, PTL DEF Spec

-----------------------------------------------------------------------------
\* No loop in C runs for ever with the lock in its hands: the walks along the
\* lists of joiners in thread_start_func_2 and remove_from_join_list come to
\* an end, and rb_thread_raise does not wait, alone, for its own thread.  With
\* a signal, or abort_on_exception, each of them may.
THEOREM NoThreadHangs ==
    ASSUME ~AbortOnException, MaxSignals = 0
    PROVE  Spec => []NoHang
<1>1. JoinInv => NoHang
  BY DEF JoinInv
<1> QED BY <1>1, JoinInvariant, PTL

\* With one access for the timer thread's `|=', JoinersTold is invariant too.
LEMMA ToldNext ==
    ASSUME ~AbortOnException, MaxSignals = 0, AtomicOr
    PROVE  /\ TypeOK /\ CurrentIsHolder /\ LifeInv /\ JoinInv
           /\ JoinersTold /\ timer = TimerIdle /\ [Next]_vars
           => JoinersTold' /\ (timer = TimerIdle)'
<1> SUFFICES ASSUME TypeOK, CurrentIsHolder, LifeInv, JoinInv, JoinersTold,
                    timer = TimerIdle, [Next]_vars
             PROVE  JoinersTold' /\ timer' = TimerIdle
  BY DEF TimerIdle
<1>1. CASE JoinStep
  BY <1>1, JoinersToldKept DEF JoinStep, Effect
<1>2. CASE UNCHANGED vars
  BY <1>2 DEF vars, coreVars, locals, JoinersTold, Joining
<1>3. CASE TimerStep /\ TimerTick
  <2>1. flag' = [flag EXCEPT ![current] = @ \cup {"timer"}] /\ UNCHANGED timer
    BY <1>3 DEF TimerTick, TimerLoad, RubyVmSetTimerInterrupt, TimerIdle
  <2>2. \A s \in Threads : "int" \in flag[s] => "int" \in flag'[s]
    BY <2>1 DEF TypeOK
  <2> QED BY <1>3, <2>1, <2>2 DEF TimerStep, JoinersTold, Joining
<1> QED BY <1>1, <1>2, <1>3, EveryStep

\* A thread asleep in join is interrupted already, or is on the list of a
\* thread that has yet to end and will wake everyone on it, whoever left the
\* list before, by a time limit, an exception or a kill.
THEOREM JoinersAreFound ==
    ASSUME ~AbortOnException, MaxSignals = 0, AtomicOr
    PROVE  Spec => []NoOrphanJoiner
<1>1. Init => JoinersTold /\ timer = TimerIdle
  BY JoinStarts DEF Init, CoreInit
<1>2. /\ TypeOK /\ CurrentIsHolder /\ LifeInv /\ JoinInv
      /\ JoinersTold /\ timer = TimerIdle /\ [Next]_vars
      => JoinersTold' /\ (timer = TimerIdle)'
  BY ToldNext
<1>3. JoinInv /\ JoinersTold => NoOrphanJoiner
  <2> SUFFICES ASSUME JoinInv, JoinersTold, NEW t \in Threads, Joining(t),
                      "int" \notin flag[t]
               PROVE  t \in JoinChain(target[t]) /\ pc[target[t]] # "dead"
    BY DEF NoOrphanJoiner
  <2>1. pc[target[t]] # "dead"
    BY DEF JoinersTold
  <2>2. At(t) = "join"
    BY DEF Joining, At, Polling
  <2>3. target[t] \in Threads /\ t \in Joiners(target[t])
    BY <2>2 DEF JoinInv, TargetsOK, Joiners
  <2>4. JoinChain(target[t]) = Joiners(target[t])
    BY <2>1, <2>3, WalkMeetsJoiners DEF JoinInv
  <2> QED BY <2>1, <2>3, <2>4
<1> QED BY <1>1, <1>2, <1>3, JoinInvariant, PTL DEF Spec
=============================================================================
