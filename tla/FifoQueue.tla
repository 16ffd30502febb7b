----------------------------- MODULE FifoQueue ------------------------------
(***************************************************************************)
(* What lib/thread.rb promises of Queue and SizedQueue, as one object with *)
(* atomic operations: a call is made, takes effect in one step between its *)
(* beginning and its end, and returns.  An object is appended when there   *)
(* is room by the code's own measure, is handed out once, and in the order *)
(* in which the objects were appended; a call whose thread is killed       *)
(* takes effect once or not at all.  Only clear is not like that: a pop    *)
(* during which the queue was cleared may return nil.                      *)
(***************************************************************************)
EXTENDS Naturals, Sequences

CONSTANTS
    Threads,
    Items,          \* the objects that are pushed
    None,
    Maxes,          \* the arguments of max=
    Sized           \* SizedQueue or Queue

VARIABLES
    items,          \* the contents, oldest first
    max,            \* the number of objects that are not too many
    op,             \* <<what a thread's call is up to, its argument or value>>
    cleared         \* the threads in whose pop there was a clear

vars == <<items, max, op, cleared>>

Idle == <<"none", None>>

Popping == {"pop", "pop_nonblock"}

Init ==
    /\ items = <<>>
    /\ max \in Nat \ {0}
    /\ op = [t \in Threads |-> Idle]
    /\ cleared = {}

Becomes(t, o) == op' = [op EXCEPT ![t] = o]

Call(t) ==
    /\ op[t] = Idle
    /\ \/ \E v \in Items : Becomes(t, <<"push", v>>)
       \/ Becomes(t, <<"pop", None>>)
       \/ Becomes(t, <<"pop_nonblock", None>>)
       \/ Sized /\ \E n \in Maxes : Becomes(t, <<"max=", n>>)
    /\ UNCHANGED <<items, max, cleared>>

Enqueue(t) ==
    /\ op[t][1] = "push"
    /\ Sized => Len(items) <= max
    /\ items' = Append(items, op[t][2])
    /\ Becomes(t, <<"pushed", None>>)
    /\ UNCHANGED <<max, cleared>>

Dequeue(t) ==
    /\ op[t][1] \in Popping
    /\ items # <<>>
    /\ items' = Tail(items)
    /\ Becomes(t, <<"popped", Head(items)>>)
    /\ cleared' = cleared \ {t}
    /\ UNCHANGED max

\* nil, because of a clear.
DequeueNil(t) ==
    /\ op[t][1] \in Popping
    /\ t \in cleared
    /\ items = <<>>
    /\ Becomes(t, <<"popped", None>>)
    /\ cleared' = cleared \ {t}
    /\ UNCHANGED <<items, max>>

Clear ==
    /\ items' = <<>>
    /\ cleared' = cleared \cup {t \in Threads : op[t][1] \in Popping}
    /\ UNCHANGED <<max, op>>

\* ThreadError, `queue empty'.
Refuse(t) ==
    /\ op[t][1] = "pop_nonblock"
    /\ items = <<>>
    /\ Becomes(t, Idle)
    /\ cleared' = cleared \ {t}
    /\ UNCHANGED <<items, max>>

SetMax(t) ==
    /\ op[t][1] = "max="
    /\ max' = op[t][2]
    /\ Becomes(t, Idle)
    /\ UNCHANGED <<items, cleared>>

Return(t) ==
    /\ op[t][1] \in {"pushed", "popped"}
    /\ Becomes(t, Idle)
    /\ UNCHANGED <<items, max, cleared>>

Die(t) ==
    /\ Becomes(t, <<"dead", None>>)
    /\ cleared' = cleared \ {t}
    /\ UNCHANGED <<items, max>>

Next ==
    \/ \E t \in Threads :
        \/ Call(t) \/ Enqueue(t) \/ Dequeue(t) \/ DequeueNil(t) \/ Refuse(t)
        \/ SetMax(t) \/ Return(t) \/ Die(t)
    \/ Clear

Spec == Init /\ [][Next]_vars
=============================================================================
