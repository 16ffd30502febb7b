---------------------------- MODULE RubyRequire -----------------------------
(***************************************************************************)
(* require among threads: rb_require_safe with load_lock and load_unlock   *)
(* (load.c) and the barriers of thread.c that they wait on.                *)
(*                                                                         *)
(* Everything between two polls is one step: search_required and load_lock *)
(* up to the sleep, and the end of a load with load_unlock.  Between them  *)
(* a file's body runs, which requires other files.                         *)
(*                                                                         *)
(* The loading table has an entry for a file if the file's barrier has an  *)
(* owner here.  When the entry goes, all that is left of the barrier is    *)
(* what the threads that wait on it will be told: that they own it         *)
(* ("chosen"), that they do not ("woken"), or nothing ever ("orphan").     *)
(***************************************************************************)
EXTENDS Naturals, Sequences, FiniteSets, SequencesExt

CONSTANTS
    Threads,
    Files,
    None,
    Deps,           \* the files that the body of a file requires, in order
    Exts,           \* the files that are extensions and not Ruby programs
    Failing,        \* the files whose body may raise
    Wakeable,       \* the threads that may be woken by Thread#wakeup
    Killable,       \* the threads that may be killed
    MaxEntries      \* bound: the entries of a list when a call begins

ASSUME RequireAssumption ==
    /\ None \notin Threads \cup Files
    /\ Deps \in [Files -> Seq(Files)]
    /\ Exts \subseteq Files /\ Failing \subseteq Files
    /\ Wakeable \subseteq Threads /\ Killable \subseteq Threads
    /\ MaxEntries \in Nat

VARIABLES
    features,       \* how often a file is in $"
    owner,          \* the owner of the barrier in vm->loading_table, or None
    waiting,        \* its list
    pc,             \* where each thread is
    want,           \* the file a waiting thread has asked for
    stack,          \* the loads a thread is in: each file and what it will require
    abandoned       \* history: the files whose load was given up with threads waiting

vars == <<features, owner, waiting, pc, want, stack, abandoned>>

Waits == {"sleep", "orphan", "woken", "chosen"}

Frame(f) == [file |-> f, todo |-> Deps[f]]

Init ==
    /\ features = [f \in Files |-> 0]
    /\ owner = [f \in Files |-> None]
    /\ waiting = [f \in Files |-> <<>>]
    /\ pc = [t \in Threads |-> "run"]
    /\ want = [t \in Threads |-> None]
    /\ stack = [t \in Threads |-> <<>>]
    /\ abandoned = {}

Goto(t, p) == pc' = [pc EXCEPT ![t] = p]

Loads(t, f) == \E i \in DOMAIN stack[t] : stack[t][i].file = f

\* The load a thread is in, and the thread's loads without it.
Top(t) == Last(stack[t])
Rest(t) == Front(stack[t])

(***************************************************************************)
(* load_lock, called by thread t whose loads are s.  The first thread that *)
(* asks for a file loads it; a thread that is loading it already goes on   *)
(* without it; another waits.  (rb_barrier_wait's case of an owner that is *)
(* dead does not occur: TableOwned.)                                       *)
(***************************************************************************)
StartLoad(t, f, s) == stack' = [stack EXCEPT ![t] = Append(s, Frame(f))]

\* Mutant: the table is not looked at.
LockUnseen(t, f, s) ==
    /\ owner' = [owner EXCEPT ![f] = t]
    /\ waiting' = [waiting EXCEPT ![f] = <<>>]
    /\ StartLoad(t, f, s)
    /\ UNCHANGED <<pc, want, abandoned>>

\* With a first load the file is as if it had never been given up, if nobody
\* is left of those who load it or wait for it since.
Afresh(f) ==
    IF \E u \in Threads : Loads(u, f) \/ want[u] = f THEN abandoned ELSE abandoned \ {f}

load_lock(t, f, s) ==
    \/ /\ owner[f] = None
       /\ owner' = [owner EXCEPT ![f] = t]
       /\ abandoned' = Afresh(f)
       /\ StartLoad(t, f, s)
       /\ UNCHANGED <<waiting, pc, want>>
    \/ /\ owner[f] = t
       /\ stack' = [stack EXCEPT ![t] = s]
       /\ UNCHANGED <<owner, waiting, pc, want, abandoned>>
    \/ /\ owner[f] \notin {None, t}
       /\ waiting' = [waiting EXCEPT ![f] = Append(@, t)]
       /\ Goto(t, "sleep")
       /\ want' = [want EXCEPT ![t] = f]
       /\ stack' = [stack EXCEPT ![t] = s]
       /\ UNCHANGED <<owner, abandoned>>

\* search_required gives no path for a file that is in $", nor, if it was
\* named without its suffix, for an extension that is being loaded.
search_required(f) == features[f] = 0 /\ (f \in Exts => owner[f] = None)

\* rb_require_safe up to the load: nothing is done without a path.
require(t, f, s) ==
    /\ \/ search_required(f) /\ load_lock(t, f, s)
       \/ /\ ~search_required(f)
          /\ stack' = [stack EXCEPT ![t] = s]
          /\ UNCHANGED <<owner, waiting, pc, want, abandoned>>
    /\ UNCHANGED features

\* The program requires a file, or the body of a file does.
Call(t, f) ==
    /\ pc[t] = "run" /\ stack[t] = <<>>
    /\ \A g \in Files : Len(waiting[g]) <= MaxEntries
    /\ require(t, f, <<>>)

Nested(t) ==
    /\ pc[t] = "run" /\ stack[t] # <<>>
    /\ Top(t).todo # <<>>
    /\ require(t, Head(Top(t).todo),
               Append(Rest(t), [Top(t) EXCEPT !.todo = Tail(@)]))

\* Mutant: the thread goes on, and still has the file it waited for.
StillWanted(t) ==
    /\ \/ pc[t] = "chosen" /\ StartLoad(t, want[t], stack[t])
       \/ pc[t] = "woken" /\ UNCHANGED stack
    /\ Goto(t, "run")
    /\ UNCHANGED <<features, owner, waiting, want, abandoned>>

\* rb_barrier_wait returns: the thread that was made the owner loads the file.
Resume(t) ==
    /\ \/ pc[t] = "chosen" /\ StartLoad(t, want[t], stack[t])
       \/ pc[t] = "woken" /\ UNCHANGED stack
    /\ Goto(t, "run")
    /\ want' = [want EXCEPT ![t] = None]
    /\ UNCHANGED <<features, owner, waiting, abandoned>>

(***************************************************************************)
(* thlist_signal wakes all on the list that are not dead, whatever they    *)
(* now sleep for, and makes the first of them the owner.                   *)
(***************************************************************************)
Alive(u) == pc[u] # "dead"

First(f, u) ==
    \E i \in DOMAIN waiting[f] :
        /\ waiting[f][i] = u /\ Alive(u)
        /\ \A j \in 1..(i - 1) : ~Alive(waiting[f][j])

\* Mutant: only the first is woken.
SignalOne(f) ==
    [u \in Threads |->
        IF First(f, u) /\ want[u] = f /\ pc[u] \in {"sleep", "woken"}
        THEN "chosen"
        ELSE pc[u]]

thlist_signal(f) ==
    [u \in Threads |->
        IF First(f, u) /\ want[u] = f /\ pc[u] \in {"sleep", "woken"}
        THEN "chosen"
        ELSE IF u \in ToSet(waiting[f]) /\ pc[u] \in {"sleep", "orphan"}
             THEN "woken"
             ELSE pc[u]]

\* Mutant: the entry is left.
EntryKept(t, f) ==
    /\ waiting' = [waiting EXCEPT ![f] = <<>>]
    /\ pc' = IF owner[f] = t THEN thlist_signal(f) ELSE pc
    /\ UNCHANGED owner

\* load_unlock: the entry of the file goes, whoever put it there, but only
\* the owner of its barrier can release that; another gets a ThreadError, and
\* who waits there is forgotten.
load_unlock(t, f) ==
    /\ owner' = [owner EXCEPT ![f] = None]
    /\ waiting' = [waiting EXCEPT ![f] = <<>>]
    /\ pc' = IF owner[f] = t THEN thlist_signal(f)
             ELSE [u \in Threads |->
                    IF pc[u] = "sleep" /\ want[u] = f THEN "orphan" ELSE pc[u]]

\* Mutant: the file is not entered into $".
NotProvided(t) ==
    /\ pc[t] = "run" /\ stack[t] # <<>>
    /\ Top(t).todo = <<>>
    /\ load_unlock(t, Top(t).file)
    /\ stack' = [stack EXCEPT ![t] = Rest(t)]
    /\ UNCHANGED <<features, want, abandoned>>

\* A load ends: rb_provide_feature, load_unlock.
Finish(t) ==
    /\ pc[t] = "run" /\ stack[t] # <<>>
    /\ Top(t).todo = <<>>
    /\ features' = [features EXCEPT ![Top(t).file] = @ + 1]
    /\ load_unlock(t, Top(t).file)
    /\ stack' = [stack EXCEPT ![t] = Rest(t)]
    /\ UNCHANGED <<want, abandoned>>

\* A load ends by an exception or a kill: load_unlock without the feature.
GiveUp(t) ==
    /\ load_unlock(t, Top(t).file)
    /\ stack' = [stack EXCEPT ![t] = Rest(t)]
    /\ abandoned' = abandoned \cup
                       {f \in {Top(t).file} : \E u \in ToSet(waiting[f]) : want[u] = f}

\* The body raises, and what requires the file rescues that or raises in turn.
Raise(t) ==
    /\ pc[t] = "run" /\ stack[t] # <<>>
    /\ Top(t).file \in Failing
    /\ GiveUp(t)
    /\ UNCHANGED <<features, want>>

\* Thread#wakeup of a thread that waits.
wakeup(t) ==
    /\ pc[t] \in {"sleep", "orphan"}
    /\ Goto(t, "woken")
    /\ UNCHANGED <<features, owner, waiting, want, stack, abandoned>>

\* Thread#kill, of a thread that loads, waits or does neither: it ends the
\* loads the thread is in before the thread.
kill(t) ==
    /\ pc[t] \notin {"dying", "dead"}
    /\ Goto(t, "dying")
    /\ want' = [want EXCEPT ![t] = None]
    /\ UNCHANGED <<features, owner, waiting, stack, abandoned>>

Unwind(t) ==
    /\ pc[t] = "dying"
    /\ IF stack[t] = <<>>
       THEN Goto(t, "dead") /\ UNCHANGED <<owner, waiting, stack, abandoned>>
       ELSE GiveUp(t)
    /\ UNCHANGED <<features, want>>

-----------------------------------------------------------------------------
Step(t) == Nested(t) \/ Resume(t) \/ Finish(t) \/ Unwind(t)

Next ==
    \/ \E t \in Threads :
        \/ \E f \in Files : Call(t, f)
        \/ Step(t)
        \/ Raise(t)
    \/ \E t \in Wakeable : wakeup(t)
    \/ \E t \in Killable : kill(t)

Spec == Init /\ [][Next]_vars

\* Threads run, and the bodies of files come to an end.
FairSpec == Spec /\ \A t \in Threads : WF_vars(Step(t))

-----------------------------------------------------------------------------
\* Every variable has its type, and a thread names a file just while it waits.
TypeOK ==
    /\ features \in [Files -> Nat]
    /\ owner \in [Files -> Threads \cup {None}]
    /\ waiting \in [Files -> Seq(Threads)]
    /\ pc \in [Threads -> Waits \cup {"run", "dying", "dead"}]
    /\ want \in [Threads -> Files \cup {None}]
    /\ \A t \in Threads : want[t] # None <=> pc[t] \in Waits
    /\ stack \in [Threads -> Seq([file : Files, todo : Seq(Files)])]
    /\ abandoned \subseteq Files

\* An entry of the loading table belongs to a thread that is loading that
\* file, so that whoever waits there waits for somebody.
TableOwned ==
    \A f \in Files :
        owner[f] # None => Loads(owner[f], f) /\ pc[owner[f]] # "dead"

\* Two threads never load a file at the same time, unless a load of it was given
\* up, by an exception or a kill, with other threads waiting for it.  (One of
\* these then loads it with no entry in the table, so that others may load it
\* too, until all of them are done.)
Serialized ==
    \A f \in Files \ abandoned, t, u \in Threads :
        Loads(t, f) /\ Loads(u, f) => t = u

\* The comment in load_lock, of every file.
AllSerialized ==
    \A f \in Files, t, u \in Threads : Loads(t, f) /\ Loads(u, f) => t = u

\* A thread that has waited for a file, and does not load it itself, finds it
\* in $", unless a load of it was given up with threads waiting, or another
\* thread's Thread#wakeup ended the wait.
WaiterFindsFeature ==
    [][\A t \in Threads \ Wakeable :
        (/\ pc[t] = "woken" /\ pc'[t] = "run"
         /\ want[t] \notin abandoned /\ stack'[t] = stack[t])
            => features[want[t]] > 0]_vars

\* Waiting for a file comes to an end, also when its load is then given up.
\* (Who begins to wait after that may be forgotten: AllSerialized is false.)
WaitEnds ==
    \A t \in Threads :
        pc[t] \in Waits /\ want[t] \notin abandoned ~> pc[t] \notin Waits

\* A file that is in $" is not loaded again.
LoadedOnce ==
    \A f \in Files : features[f] <= 1
=============================================================================
