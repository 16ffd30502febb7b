---------------------------- MODULE ZoneCollector ----------------------------
(***************************************************************************)
(* The concurrent collector of autozone: Zone::collect (AutoZone.cpp),     *)
(* the scanner it runs (AutoMemoryScanner.cpp, AutoCollector.cpp) and the  *)
(* operations of the mutator threads that it races with: allocation, the   *)
(* write barriers, retain and release, weak references.                    *)
(*                                                                         *)
(* The collector marks with the mutators running.  It suspends one thread  *)
(* at a time, to scan its stack, and never all of them: what a mutator     *)
(* stores in a place that was scanned already has to reach the enlivening  *)
(* queue, which is scanned last, with _enlivening_lock held.               *)
(*                                                                         *)
(* A mutator holds _enlivening_lock for straight-line code, so that such a *)
(* section is one step, taken while the collector does not hold the lock.  *)
(* The locks that ConditionBarrier's callers hold (the admin locks and     *)
(* _large_lock) are taken by set_needs_enlivening as well, and make their  *)
(* test of _needs_enlivening part of that step.  auto_read_weak_reference  *)
(* holds none of them.                                                     *)
(***************************************************************************)
EXTENDS Naturals, FiniteSets

CONSTANTS
    Blocks,         \* the memory of the zone: a block is allocated or free
    Large,          \* the blocks of Large size; the others lie in a Subzone
    Fields,         \* the words of a block
    Roots,          \* the locations given to add_root
    WeakRefs,       \* the locations given to auto_assign_weak_reference
    Mutators,       \* the registered threads
    Nil,            \* NULL, and no thread
    Modes,          \* the collections that run: TRUE is generational
    InitialAge,     \* collections a block survives before it is old
    MaxRetains      \* bounds a reference count

ASSUME ConstantsOK ==
    /\ Nil \notin Blocks \cup Mutators \cup WeakRefs
    /\ Large \subseteq Blocks
    /\ Roots \cap (Blocks \X Fields) = {}
    /\ Modes \subseteq BOOLEAN
    /\ InitialAge \in Nat /\ MaxRetains \in Nat

VARIABLES
    live,           \* the allocated blocks
    mem,            \* what each scanned location holds
    cards,          \* the fields whose write barrier card is marked
    age,            \* 0 is old
    refcount,
    weak,           \* what each weak location holds (it is registered for it)
    stack,          \* the blocks that the stack and registers of a thread name
    reading,        \* the weak location that auto_read_weak_reference is about to load
    missed,         \* history: the blocks this collection was not told of
    lost,           \* history: the blocks such a collection gave up
    needs,          \* _needs_enlivening
    queue,          \* _enlivening_queue
    locked,         \* does the collector hold _enlivening_lock?
    phase,          \* where Zone::collect is
    todo,           \* what the iteration of this phase has still to visit
    suspended,      \* the thread that is suspended, or Nil
    marked,
    gray,           \* the locations the scan stack (or pending bits) hold
    partial,        \* _is_partial
    retried,        \* _use_pending: the scan runs again after an overflow
    garbage         \* _garbage_list

races == <<reading, missed, lost>>
mutator == <<live, mem, cards, age, refcount, weak, stack, races>>
barrier == <<needs, queue, locked>>
scan == <<todo, suspended, marked, gray>>
mode == <<partial, retried>>
vars == <<mutator, barrier, phase, scan, mode, garbage>>

Phases == {"idle", "blocks", "roots", "stacks", "suspend", "closure",
           "barrier", "scavenged", "reclaiming"}

FieldsOf(b) == {b} \X Fields
Locations == Roots \cup (Blocks \X Fields)
Old(b) == age[b] = 0

TypeOK ==
    /\ live \subseteq Blocks
    /\ mem \in [Locations -> Blocks \cup {Nil}]
    /\ cards \subseteq Blocks \X Fields
    /\ age \in [Blocks -> 0..InitialAge]
    /\ refcount \in [Blocks -> 0..MaxRetains]
    /\ weak \in [WeakRefs -> Blocks \cup {Nil}]
    /\ stack \in [Mutators -> SUBSET Blocks]
    /\ reading \in [Mutators -> WeakRefs \cup {Nil}]
    /\ missed \subseteq Blocks /\ lost \subseteq Blocks
    /\ needs \in BOOLEAN /\ locked \in BOOLEAN
    /\ queue \subseteq Blocks
    /\ phase \in Phases
    /\ todo \subseteq Blocks \cup Roots \cup Mutators
    /\ suspended \in Mutators \cup {Nil}
    /\ marked \subseteq Blocks
    /\ gray \subseteq Locations
    /\ partial \in BOOLEAN /\ retried \in BOOLEAN
    /\ garbage \subseteq Blocks

Init ==
    /\ live = {}
    /\ mem = [l \in Locations |-> Nil]
    /\ cards = {}
    /\ age = [b \in Blocks |-> 0]
    /\ refcount = [b \in Blocks |-> 0]
    /\ weak = [w \in WeakRefs |-> Nil]
    /\ stack = [t \in Mutators |-> {}]
    /\ reading = [t \in Mutators |-> Nil] /\ missed = {} /\ lost = {}
    /\ needs = FALSE /\ queue = {} /\ locked = FALSE
    /\ phase = "idle" /\ todo = {} /\ suspended = Nil
    /\ marked = {} /\ gray = {}
    /\ partial = FALSE /\ retried = FALSE
    /\ garbage = {}

-----------------------------------------------------------------------------
(***************************************************************************)
(* What the collector is not told of.  There are three ways to hold a      *)
(* block behind its back: the barrier enlivens what is stored and not what *)
(* is overwritten, so that a thread that was scanned may be left with the  *)
(* only reference to a block it has loaded; a weak reference may be read   *)
(* with the flag found clear before the collection; and the first retain   *)
(* of a block in a Subzone is not enlivened.  The block is then missed,    *)
(* and with it what it leads to.                                           *)
(***************************************************************************)

\* S holds the blocks of M and, with the memory m, what its blocks lead to.
Encloses(S, M, m) ==
    /\ M \cap live \subseteq S
    /\ \A l \in S \X Fields : m[l] \in live => m[l] \in S

\* The blocks of M and what they lead to.
Led(M, m) == {b \in live : \A S \in SUBSET Blocks : Encloses(S, M, m) => b \in S}

\* The threads whose stack this collection has scanned for the last time.
ScannedThreads ==
    IF phase \in {"suspend", "closure", "barrier", "scavenged"}
    THEN Mutators \ todo ELSE {}

\* With these stacks, queue and memory, the blocks that a scanned thread names
\* and that nothing leads to of which the collector knows.
Overlooked(stacks, enlivened, m) ==
    {b \in live \ Led(marked \cup enlivened \cup missed, m) :
        \E t \in ScannedThreads : b \in stacks[t]}

\* What the iteration of this phase has not come to.
Unvisited == IF phase = "blocks" THEN todo ELSE {}
Unread == IF phase = "blocks" THEN Roots ELSE IF phase = "roots" THEN todo ELSE {}

-----------------------------------------------------------------------------
(* The mutators.                                                            *)

Runs(t) == suspended # t /\ reading[t] = Nil

\* The mutator takes _enlivening_lock, or finds _needs_enlivening clear.
Barrier == ~locked

\* Is v a block that the scan under way has neither marked nor will be told of?
Unseen(v) == needs /\ v # Nil /\ v \notin marked \cup queue

\* Mutant of Enliven: what is stored is not queued.
NotEnlivened(v) == queue' = queue

\* What a barrier adds to the enlivening queue for the value that is stored.
Enliven(v) ==
    queue' = IF needs /\ v # Nil /\ v \notin marked THEN queue \cup {v} ELSE queue

\* The fields of the blocks that t has pointers to.
Holds(t) == (stack[t] \cap live) \X Fields

\* Zone::block_allocate (AutoZone.cpp:461).  Admin::find_allocation and
\* allocate_large queue the new block before anyone can see it.  A block that is
\* allocated with a count of one (refcount_is_one) is this and a retain.
block_allocate(t, b) ==
    /\ Runs(t) /\ Barrier
    /\ b \notin live
    /\ live' = live \cup {b}
    /\ age' = [age EXCEPT ![b] = InitialAge]
    /\ refcount' = [refcount EXCEPT ![b] = 0]
    /\ queue' = IF needs THEN queue \cup {b} ELSE queue
    /\ stack' = [stack EXCEPT ![t] = @ \cup {b}]
    /\ lost' = lost \ {b}
    /\ UNCHANGED <<mem, cards, weak, reading, missed, needs, locked, phase, scan, mode, garbage>>

\* A plain load, from a root or from a field: there is no read barrier.
Load(t, l) ==
    /\ Runs(t)
    /\ l \in Roots \cup Holds(t)
    /\ mem[l] # Nil
    /\ stack' = [stack EXCEPT ![t] = @ \cup {mem[l]}]
    /\ UNCHANGED <<live, mem, cards, age, refcount, weak, races, barrier, phase, scan, mode, garbage>>

\* The thread forgets a pointer.
Drop(t, b) ==
    /\ Runs(t)
    /\ b \in stack[t]
    /\ stack' = [stack EXCEPT ![t] = @ \ {b}]
    /\ UNCHANGED <<live, mem, cards, age, refcount, weak, races, barrier, phase, scan, mode, garbage>>

\* Zone::set_write_barrier (AutoZone.cpp:957).  The value that is stored is
\* enlivened, the one that is overwritten is not.
set_write_barrier(t, l, v) ==
    /\ Runs(t) /\ Barrier
    /\ l \in Holds(t)
    /\ v \in stack[t] \cup {Nil}
    /\ mem[l] # v
    /\ Enliven(v)
    /\ mem' = [mem EXCEPT ![l] = v]
    /\ missed' = missed \cup (Led({mem[l]}, mem) \cap Overlooked(stack, queue', mem'))
    /\ cards' = cards \cup {l}
    /\ UNCHANGED <<live, age, refcount, weak, stack, reading, lost, needs, locked, phase, scan, mode, garbage>>

\* auto_zone_root_write_barrier (auto_zone.cpp:1370): NULL is stored without
\* the lock.
root_write_barrier(t, r, v) ==
    /\ Runs(t)
    /\ v # Nil => Barrier
    /\ v \in stack[t] \cup {Nil}
    /\ mem[r] # v
    /\ Enliven(v)
    /\ mem' = [mem EXCEPT ![r] = v]
    /\ UNCHANGED <<live, cards, age, refcount, weak, stack, races, needs, locked, phase, scan, mode, garbage>>

\* What Zone::inc_refcount_small_medium and the code for Large blocks return.
\* In a Subzone the counts 0 and 1 are returned as they were, not as they are.
Incremented(b) ==
    IF b \in Large \/ refcount[b] >= 2 THEN refcount[b] + 1 ELSE refcount[b]

\* Zone::block_increment_refcount (AutoZone.cpp:755).  The pointer is kept in
\* memory that is not scanned.  Without a barrier the lock is not taken.
block_increment_refcount(t, b) ==
    /\ Runs(t)
    /\ b \in stack[t] \cap live
    /\ refcount[b] < MaxRetains
    /\ \/ /\ Incremented(b) = 1 /\ Barrier
          /\ Enliven(b)
          /\ UNCHANGED missed
       \/ /\ Incremented(b) # 1
          /\ missed' = IF refcount[b] = 0 /\ Unseen(b) /\ b \notin Unvisited
                       THEN missed \cup {b} ELSE missed
          /\ UNCHANGED queue
    /\ refcount' = [refcount EXCEPT ![b] = @ + 1]
    /\ UNCHANGED <<live, mem, cards, age, weak, stack, reading, lost, needs, locked, phase, scan, mode, garbage>>

\* Mutant of block_decrement_refcount: a count of 0 is decremented too.
DecrementUnchecked(t, b) ==
    /\ Runs(t)
    /\ b \in live
    /\ refcount' = [refcount EXCEPT ![b] = @ - 1]
    /\ stack' = [stack EXCEPT ![t] = @ \cup {b}]
    /\ UNCHANGED <<live, mem, cards, age, weak, races, barrier, phase, scan, mode, garbage>>

\* Zone::block_decrement_refcount (AutoZone.cpp:787), by whoever kept the
\* pointer: it is on a stack once more when the call returns.
block_decrement_refcount(t, b) ==
    /\ Runs(t)
    /\ b \in live /\ refcount[b] > 0
    /\ refcount' = [refcount EXCEPT ![b] = @ - 1]
    /\ stack' = [stack EXCEPT ![t] = @ \cup {b}]
    /\ UNCHANGED <<live, mem, cards, age, weak, races, barrier, phase, scan, mode, garbage>>

\* auto_assign_weak_reference (auto_zone.cpp:1314) and weak_register.
assign_weak_reference(t, w, v) ==
    /\ Runs(t)
    /\ v \in stack[t] \cup {Nil}
    /\ weak[w] # v
    /\ weak' = [weak EXCEPT ![w] = v]
    /\ UNCHANGED <<live, mem, cards, age, refcount, stack, races, barrier, phase, scan, mode, garbage>>

\* Mutant of read_weak_reference: what is read is not enlivened.
ReadUnseen(t, w) ==
    /\ Runs(t) /\ Barrier /\ needs
    /\ weak[w] # Nil
    /\ stack' = [stack EXCEPT ![t] = @ \cup {weak[w]}]
    /\ UNCHANGED <<live, mem, cards, age, refcount, weak, races, barrier, phase, scan, mode, garbage>>

\* auto_read_weak_reference (auto_zone.cpp:1326) while a collection scans: the
\* read barrier.
read_weak_reference(t, w) ==
    /\ Runs(t) /\ Barrier /\ needs
    /\ weak[w] # Nil
    /\ Enliven(weak[w])
    /\ stack' = [stack EXCEPT ![t] = @ \cup {weak[w]}]
    /\ UNCHANGED <<live, mem, cards, age, refcount, weak, races, needs, locked, phase, scan, mode, garbage>>

\* It finds _needs_enlivening clear, and holds no lock that would keep it so.
ConditionClear(t, w) ==
    /\ Runs(t) /\ ~needs
    /\ weak[w] # Nil
    /\ reading' = [reading EXCEPT ![t] = w]
    /\ UNCHANGED <<live, mem, cards, age, refcount, weak, stack, missed, lost, barrier, phase, scan, mode, garbage>>

\* The load that follows, perhaps in the middle of a collection.
LoadWeak(t) ==
    /\ suspended # t /\ reading[t] # Nil
    /\ LET v == weak[reading[t]]
       IN  /\ stack' = [stack EXCEPT ![t] = @ \cup ({v} \ {Nil})]
           /\ missed' = missed \cup ({v} \cap Overlooked(stack', queue, mem))
    /\ reading' = [reading EXCEPT ![t] = Nil]
    /\ UNCHANGED <<live, mem, cards, age, refcount, weak, lost, barrier, phase, scan, mode, garbage>>

-----------------------------------------------------------------------------
(* The collector.                                                           *)

\* Zone::set_pending (AutoZone.cpp:830) on the blocks of S, when the scan stack
\* holds rest.
set_pending(S, rest) ==
    LET new == {b \in (S \cap live) \ marked : ~ (partial /\ Old(b))}
    IN  /\ marked' = marked \cup new
        /\ gray' = rest \cup (new \X Fields)

\* collect_begin and set_needs_enlivening (AutoZone.h:1186).  The iteration may
\* or may not meet a block that is allocated later: that block is queued, and so
\* it is left out of todo.
collect_begin ==
    /\ phase = "idle"
    /\ needs' = TRUE
    /\ phase' = "blocks"
    /\ todo' = live
    /\ partial' \in Modes
    /\ UNCHANGED <<mutator, queue, locked, suspended, marked, gray, retried, garbage>>

\* The visitors of scan_retained_blocks and, in a generational collection,
\* scan_retained_and_old_blocks (AutoMemoryScanner.cpp:430, :493).
scan_retained_and_old_blocks(b) ==
    /\ phase = "blocks" /\ b \in todo
    /\ todo' = todo \ {b}
    /\ IF partial /\ Old(b)
       THEN /\ marked' = marked \cup {b}
            /\ gray' = gray \cup (FieldsOf(b) \cap cards)
       ELSE IF refcount[b] > 0 THEN set_pending({b}, gray) ELSE UNCHANGED <<marked, gray>>
    /\ UNCHANGED <<mutator, barrier, phase, suspended, mode, garbage>>

\* copy_roots: the locations are copied, their contents are read later.
copy_roots ==
    /\ phase = "blocks" /\ todo = {}
    /\ phase' = "roots"
    /\ todo' = Roots
    /\ UNCHANGED <<mutator, barrier, suspended, marked, gray, mode, garbage>>

scan_root_ranges(r) ==
    /\ phase = "roots" /\ r \in todo
    /\ todo' = todo \ {r}
    /\ set_pending({mem[r]}, gray)
    /\ UNCHANGED <<mutator, barrier, phase, suspended, mode, garbage>>

\* Zone::threads_lock is taken: the list of threads stays as it is.
lock_threads ==
    /\ phase = "roots" /\ todo = {}
    /\ phase' = "stacks"
    /\ todo' = Mutators
    /\ UNCHANGED <<mutator, barrier, suspended, marked, gray, mode, garbage>>

\* A stack is read while its thread runs: any part of it may be seen.
scan_thread_without_suspend(t) ==
    /\ phase = "stacks" /\ t \in todo
    /\ todo' = todo \ {t}
    /\ \E S \in SUBSET stack[t] : set_pending(S, gray)
    /\ UNCHANGED <<mutator, barrier, phase, suspended, mode, garbage>>

\* One word of the loop of scan_pending_until_done (AutoMemoryScanner.cpp:673).
scan_pending(l) ==
    /\ phase = "stacks" => todo = {}
    /\ phase \in {"stacks", "closure", "barrier"}
    /\ l \in gray
    /\ set_pending({mem[l]}, gray \ {l})
    /\ UNCHANGED <<mutator, barrier, phase, todo, suspended, mode, garbage>>

Drained ==
    /\ phase = "stacks" /\ todo = {} /\ gray = {}
    /\ phase' = "suspend"
    /\ todo' = Mutators
    /\ UNCHANGED <<mutator, barrier, suspended, marked, gray, mode, garbage>>

\* Thread::scan_thread_with_suspend_and_closure (AutoThread.cpp:154).
suspend(t) ==
    /\ phase = "suspend" /\ t \in todo
    /\ phase' = "closure"
    /\ todo' = todo \ {t}
    /\ suspended' = t
    /\ set_pending(stack[t], gray)
    /\ UNCHANGED <<mutator, barrier, mode, garbage>>

resume ==
    /\ phase = "closure" /\ gray = {}
    /\ phase' = "suspend"
    /\ suspended' = Nil
    /\ UNCHANGED <<mutator, barrier, todo, marked, gray, mode, garbage>>

\* Collector::scan_barrier (AutoCollector.cpp:73): takes _enlivening_lock and
\* repends what is queued.
scan_barrier ==
    /\ phase = "suspend" /\ todo = {}
    /\ phase' = "barrier"
    /\ locked' = TRUE
    /\ queue' = {}
    /\ LET new == (queue \cap live) \ marked
       IN  /\ marked' = marked \cup new
           /\ gray' = gray \cup (new \X Fields)
    /\ UNCHANGED <<mutator, needs, todo, suspended, mode, garbage>>

\* The scan is over.
Scanned == phase = "barrier" /\ gray = {}

\* The scan stack overflowed: Zone::collect scans again, with pending bits
\* (AutoZone.cpp:1313).
reset_all_marks_and_pending ==
    /\ Scanned /\ ~retried
    /\ retried' = TRUE
    /\ marked' = {} /\ missed' = {}
    /\ locked' = FALSE
    /\ phase' = "blocks"
    /\ todo' = live
    /\ UNCHANGED <<live, mem, cards, age, refcount, weak, stack, reading, lost,
                   needs, queue, suspended, gray, partial, garbage>>

\* Zone::scavenge_blocks (AutoZone.cpp:1430).
scavenge_blocks ==
    /\ Scanned
    /\ phase' = "scavenged"
    /\ garbage' = live \ marked
    /\ age' = [b \in Blocks |-> IF b \in live /\ age[b] > 0 THEN age[b] - 1 ELSE age[b]]
    /\ UNCHANGED <<live, mem, cards, refcount, weak, stack, races, barrier, scan, mode>>

\* Mutant of weak_clear_references: the weak locations keep what they hold.
WeakKept ==
    /\ phase = "scavenged"
    /\ phase' = "reclaiming"
    /\ lost' = lost \cup (garbage \cap Led(missed, mem)) /\ missed' = {}
    /\ needs' = FALSE
    /\ locked' = FALSE
    /\ UNCHANGED <<live, mem, cards, age, refcount, weak, stack, reading, queue, scan, mode, garbage>>

\* weak_clear_references (auto_weak.c:306), then the lock is let go.  The
\* cards stay as they are: mark_cards_untouched assigns to a card the value
\* it compares it with, so that no card is ever untouched.
weak_clear_references ==
    /\ phase = "scavenged"
    /\ phase' = "reclaiming"
    /\ weak' = [w \in WeakRefs |-> IF weak[w] \in garbage THEN Nil ELSE weak[w]]
    /\ lost' = lost \cup (garbage \cap Led(missed, mem)) /\ missed' = {}
    /\ needs' = FALSE
    /\ locked' = FALSE
    /\ UNCHANGED <<live, mem, cards, age, refcount, stack, reading, queue, scan, mode, garbage>>

\* free_garbage (auto_zone.cpp:197): a block that is retained stays.  The side
\* data of one that is freed are cleared (AutoSubzone.h:651).
free_garbage(b) ==
    /\ phase = "reclaiming" /\ b \in garbage
    /\ garbage' = garbage \ {b}
    /\ IF refcount[b] = 0
       THEN /\ live' = live \ {b}
            /\ mem' = [l \in Locations |-> IF l \in FieldsOf(b) THEN Nil ELSE mem[l]]
            /\ age' = [age EXCEPT ![b] = 0]
            /\ UNCHANGED lost
       ELSE lost' = lost \ {b} /\ UNCHANGED <<live, mem, age>>
    /\ UNCHANGED <<cards, refcount, weak, stack, reading, missed, barrier, phase, scan, mode>>

\* collect_end (AutoZone.h:1221).
collect_end ==
    /\ phase = "reclaiming" /\ garbage = {}
    /\ phase' = "idle"
    /\ marked' = {}
    /\ partial' = FALSE
    /\ retried' = FALSE
    /\ UNCHANGED <<mutator, barrier, todo, suspended, gray, garbage>>

-----------------------------------------------------------------------------
Collect ==
    \/ collect_begin \/ copy_roots \/ lock_threads \/ Drained
    \/ resume \/ scan_barrier \/ reset_all_marks_and_pending \/ scavenge_blocks
    \/ weak_clear_references \/ collect_end
    \/ \E b \in Blocks : scan_retained_and_old_blocks(b) \/ free_garbage(b)
    \/ \E r \in Roots : scan_root_ranges(r)
    \/ \E t \in Mutators : scan_thread_without_suspend(t) \/ suspend(t)
    \/ \E l \in Locations : scan_pending(l)

Mutate(t) ==
    \/ \E b \in Blocks :
        \/ block_allocate(t, b) \/ Drop(t, b)
        \/ block_increment_refcount(t, b) \/ block_decrement_refcount(t, b)
    \/ \E l \in Locations : Load(t, l)
    \/ \E v \in Blocks \cup {Nil} :
        \/ \E l \in Blocks \X Fields : set_write_barrier(t, l, v)
        \/ \E r \in Roots : root_write_barrier(t, r, v)
        \/ \E w \in WeakRefs : assign_weak_reference(t, w, v)
    \/ \E w \in WeakRefs : read_weak_reference(t, w) \/ ConditionClear(t, w)
    \/ LoadWeak(t)

Next == Collect \/ \E t \in Mutators : Mutate(t)

Spec == Init /\ [][Next]_vars

-----------------------------------------------------------------------------
\* What the program can still get at: S is closed under the references that
\* live blocks hold.
Closed(S) ==
    /\ \A r \in Roots : mem[r] \in live => mem[r] \in S
    /\ \A t \in Mutators : stack[t] \cap live \subseteq S
    /\ \A b \in live : refcount[b] > 0 => b \in S
    /\ \A l \in S \X Fields : mem[l] \in live => mem[l] \in S

Reachable == {b \in live : \A S \in SUBSET live : Closed(S) => b \in S}

\* When the scan is over every block that the program can still reach, from
\* the roots, from a thread's stack or as a retained block, is marked,
\* whatever the mutators stored, read, retained or allocated meanwhile, but for
\* the blocks that this collection was not told of and what they lead to.
AllReachableMarked == Scanned => Reachable \subseteq marked \cup Led(missed, mem)

\* No thread, root, weak location or block in use names a block that was given
\* back to the allocator, in this collection or an earlier one, but for the
\* blocks that a collection gave up because it was not told of them.
NoDangling ==
    /\ \A t \in Mutators : stack[t] \subseteq live \cup lost
    /\ \A l \in Roots \cup ((live \ garbage) \X Fields) : mem[l] \in live \cup lost \cup {Nil}
    /\ \A w \in WeakRefs : weak[w] \in live \cup lost \cup {Nil}

\* When the scan is over no root and no marked block names a block that is not
\* marked, whatever the collector was not told of: what mutators take out of
\* the heap they have to store again, and that is enlivened.
HeapMarked ==
    Scanned => \A l \in Roots \cup (marked \X Fields) : mem[l] \in live => mem[l] \in marked

\* A block that is retained when the scan is over is marked: a retain that the
\* collector's pass over the retained blocks came too early for enlivens the
\* block (AutoZone.cpp:762: "0->1 transition.  Must read _needs_enlivening while
\* inside allocation lock.  Otherwise might miss transition and then collector
\* might have passed over this block while refcount was 0.").
RetainedMarked == Scanned => \A b \in live : refcount[b] > 0 => b \in marked

-----------------------------------------------------------------------------
(* The inductive invariant that HeapMarked and RetainedMarked rest on.       *)

Scanning == phase \in {"blocks", "roots", "stacks", "suspend", "closure", "barrier"}

\* v is marked, or will be when the enlivening queue is scanned.
Kept(v) == v \in live => v \in marked \cup queue

\* The flags follow the phases.
FlagsOK ==
    /\ locked <=> phase \in {"barrier", "scavenged"}
    /\ phase = "idle" => marked = {}
    /\ locked => queue = {} /\ todo = {}
    /\ phase = "scavenged" => gray = {}
    /\ needs <=> Scanning \/ phase = "scavenged"
    /\ missed # {} => needs

\* A reference was stored through the write barrier.
CardsOK == \A l \in Blocks \X Fields : mem[l] # Nil => l \in cards

\* A generational collection has marked the old blocks that it has come to.
OldKept == Scanning /\ partial => \A b \in live \ Unvisited : Old(b) => Kept(b)

\* Every place that was scanned holds what is kept.
HeapKept ==
    needs =>
        /\ \A l \in (marked \X Fields) \ gray : Kept(mem[l])
        /\ \A r \in Roots \ Unread : Kept(mem[r])

\* Every retained block that was come to is kept, or the collector not told.
RetainedKept ==
    needs => \A b \in live \ Unvisited : refcount[b] > 0 => Kept(b) \/ b \in missed

HeapInv == TypeOK /\ FlagsOK /\ CardsOK /\ OldKept /\ HeapKept

\* What a thread holds whose stack was scanned will be marked: it is marked or
\* queued, or what is marked or queued leads to it, unless it was missed.
StacksKept ==
    \A t \in ScannedThreads :
        stack[t] \cap live \subseteq Led(marked \cup queue \cup missed, mem)

\* The blocks that are not about to be freed, and the ones given up.
InUse == (live \ (IF phase = "reclaiming" THEN garbage ELSE {})) \cup lost

\* What a thread, a root, a block or a retain keeps is no garbage and not free.
GarbageApart ==
    /\ garbage \subseteq live
    /\ garbage # {} => phase \in {"scavenged", "reclaiming"}
    /\ phase = "scavenged" => garbage = live \ marked
    /\ lost \cap live \subseteq IF phase = "reclaiming" THEN garbage ELSE {}
    /\ \A t \in Mutators : stack[t] \subseteq InUse
    /\ \A l \in Roots \cup (InUse \X Fields) : mem[l] \in InUse \cup {Nil}
    /\ \A l \in (Blocks \ live) \X Fields : mem[l] = Nil
    /\ \A w \in WeakRefs : weak[w] \in InUse \cup {Nil}
    /\ \A b \in live : refcount[b] > 0 => b \in InUse

SafeInv == HeapInv /\ RetainedKept /\ StacksKept /\ GarbageApart
=============================================================================
