------------------------- MODULE ZoneCollectorProofs -------------------------
(***************************************************************************)
(* Theorems about the collector, for any number of blocks, fields, roots,  *)
(* weak references and mutator threads, and for full and generational      *)
(* collections in any order.                                               *)
(***************************************************************************)
EXTENDS ZoneCollector, TLAPS

-----------------------------------------------------------------------------
(* What the invariant says when the scan is over.                           *)

\* Roots and marked blocks name marked blocks: the queue is empty, and no
\* location waits to be scanned.
LEMMA HeapComplete ==
    ASSUME HeapInv, Scanned
    PROVE  HeapMarked
  BY DEF HeapInv, FlagsOK, HeapKept, Scanning, Unread, Kept, Scanned, HeapMarked

\* The blocks of M lead to themselves, and where they lead to is closed.
LEMMA LedBase ==
    ASSUME NEW M, NEW m
    PROVE  M \cap live \subseteq Led(M, m)
  BY DEF Led, Encloses

LEMMA LedClosed ==
    ASSUME NEW M, NEW m, NEW l \in Led(M, m) \X Fields, m[l] \in live
    PROVE  m[l] \in Led(M, m)
<1> SUFFICES ASSUME NEW S \in SUBSET Blocks, Encloses(S, M, m)
             PROVE  m[l] \in S
  BY DEF Led
<1>1. l \in S \X Fields
  BY DEF Led
<1> QED
  BY <1>1 DEF Encloses

\* When nothing waits to be scanned, the marked blocks and what the missed ones
\* lead to hold every block that can be reached.
LEMMA ScanComplete ==
    ASSUME HeapInv, RetainedKept, StacksKept, locked, gray = {}
    PROVE  /\ \A l \in Roots \cup (marked \X Fields) : mem[l] \in live => mem[l] \in marked
           /\ \A t \in Mutators : stack[t] \cap live \subseteq marked \cup Led(missed, mem)
           /\ \A b \in live : refcount[b] > 0 => b \in marked \cup Led(missed, mem)
<1>1. /\ phase \in {"barrier", "scavenged"} /\ needs
      /\ queue = {} /\ todo = {}
  BY DEF HeapInv, FlagsOK, Scanning
<1>2. \A l \in Roots \cup (marked \X Fields) : mem[l] \in live => mem[l] \in marked
  BY <1>1 DEF HeapInv, HeapKept, Unread, Kept
<1> DEFINE S == marked \cup Led(missed, mem)
<1>3. S \in SUBSET Blocks
  BY DEF HeapInv, TypeOK, Led
<1>4. Encloses(S, marked \cup queue \cup missed, mem)
  BY <1>1, <1>2, LedBase, LedClosed DEF Encloses
<1>5. \A t \in Mutators : stack[t] \cap live \subseteq S
  <2>1. \A t \in Mutators : stack[t] \cap live \subseteq Led(marked \cup queue \cup missed, mem)
    BY <1>1 DEF StacksKept, ScannedThreads
  <2> HIDE DEF S
  <2> QED BY <2>1, <1>3, <1>4 DEF Led
<1>6. \A b \in live : refcount[b] > 0 => b \in S
  <2>1. \A b \in live : refcount[b] > 0 => b \in marked \/ b \in missed
    BY <1>1 DEF RetainedKept, Unvisited, Kept
  <2> QED BY <2>1, LedBase
<1> QED
  BY <1>2, <1>5, <1>6

-----------------------------------------------------------------------------
(* Each part of the invariant is kept by every step.                        *)

\* Every step keeps every variable in its type.
LEMMA TypeStep ==
    ASSUME TypeOK, [Next]_vars
    PROVE  TypeOK'
<1>1. CASE collect_begin
  BY <1>1, ConstantsOK DEF collect_begin, races, mutator, TypeOK, Locations,
     Phases
<1>2. CASE copy_roots
  BY <1>2, ConstantsOK DEF copy_roots, races, mutator, barrier, mode, TypeOK,
     Locations, Phases
<1>3. CASE lock_threads
  BY <1>3, ConstantsOK DEF lock_threads, races, mutator, barrier, mode,
     TypeOK, Locations, Phases
<1>4. CASE Drained
  BY <1>4, ConstantsOK DEF Drained, races, mutator, barrier, mode, TypeOK,
     Locations, Phases
<1>5. CASE resume
  BY <1>5, ConstantsOK DEF resume, races, mutator, barrier, mode, TypeOK,
     Locations, Phases
<1>6. CASE scan_barrier
  BY <1>6, ConstantsOK DEF scan_barrier, races, mutator, barrier, mode,
     TypeOK, Locations, Phases
<1>7. CASE reset_all_marks_and_pending
  BY <1>7, ConstantsOK DEF reset_all_marks_and_pending, races, mutator,
     Scanned, TypeOK, Locations, Phases
<1>8. CASE scavenge_blocks
  BY <1>8, ConstantsOK DEF scavenge_blocks, races, barrier, scan, mode,
     Scanned, TypeOK, Locations, Phases
<1>9. CASE weak_clear_references
  BY <1>9, ConstantsOK DEF weak_clear_references, races, scan, mode, TypeOK,
     Locations, Phases
<1>10. CASE collect_end
  BY <1>10, ConstantsOK DEF collect_end, races, mutator, barrier, TypeOK,
     Locations, Phases
<1>11. ASSUME NEW b \in Blocks,
             scan_retained_and_old_blocks(b)
      PROVE  TypeOK'
  BY <1>11, ConstantsOK DEF scan_retained_and_old_blocks, races, mutator,
     barrier, mode, set_pending, Old, FieldsOf, TypeOK, Locations, Phases
<1>12. ASSUME NEW b \in Blocks,
             free_garbage(b)
      PROVE  TypeOK'
  BY <1>12, ConstantsOK DEF free_garbage, races, barrier, scan, mode,
     FieldsOf, TypeOK, Locations, Phases
<1>13. ASSUME NEW r \in Roots,
             scan_root_ranges(r)
      PROVE  TypeOK'
  BY <1>13, ConstantsOK DEF scan_root_ranges, races, mutator, barrier, mode,
     set_pending, TypeOK, Locations, Phases
<1>14. ASSUME NEW t \in Mutators,
             scan_thread_without_suspend(t)
      PROVE  TypeOK'
  BY <1>14, ConstantsOK DEF scan_thread_without_suspend, races, mutator,
     barrier, mode, set_pending, TypeOK, Locations, Phases
<1>15. ASSUME NEW t \in Mutators,
             suspend(t)
      PROVE  TypeOK'
  BY <1>15, ConstantsOK DEF suspend, races, mutator, barrier, mode,
     set_pending, TypeOK, Locations, Phases
<1>16. ASSUME NEW l \in Locations,
             scan_pending(l)
      PROVE  TypeOK'
  BY <1>16, ConstantsOK DEF scan_pending, races, mutator, barrier, mode,
     set_pending, TypeOK, Locations, Phases
<1>17. ASSUME NEW t \in Mutators, NEW b \in Blocks,
             block_allocate(t, b)
      PROVE  TypeOK'
  BY <1>17, ConstantsOK DEF block_allocate, races, scan, mode, Barrier, Runs,
     TypeOK, Locations, Phases
<1>18. ASSUME NEW t \in Mutators, NEW b \in Blocks,
             Drop(t, b)
      PROVE  TypeOK'
  BY <1>18, ConstantsOK DEF Drop, races, barrier, scan, mode, Runs, TypeOK,
     Locations, Phases
<1>19. ASSUME NEW t \in Mutators, NEW b \in Blocks,
             block_increment_refcount(t, b)
      PROVE  TypeOK'
  BY <1>19, ConstantsOK DEF block_increment_refcount, races, scan, mode,
     Barrier, Enliven, Incremented, Runs, TypeOK, Locations, Phases, Unseen, Unvisited
<1>20. ASSUME NEW t \in Mutators, NEW b \in Blocks,
             block_decrement_refcount(t, b)
      PROVE  TypeOK'
  BY <1>20, ConstantsOK DEF block_decrement_refcount, races, barrier, scan,
     mode, Runs, TypeOK, Locations, Phases
<1>21. ASSUME NEW t \in Mutators, NEW l \in Locations,
             Load(t, l)
      PROVE  TypeOK'
  BY <1>21, ConstantsOK DEF Load, races, barrier, scan, mode, Holds, Runs,
     TypeOK, Locations, Phases
<1>22. ASSUME NEW t \in Mutators, NEW l \in Blocks \X Fields, NEW v \in Blocks \cup {Nil},
             set_write_barrier(t, l, v)
      PROVE  TypeOK'
  BY <1>22, ConstantsOK DEF set_write_barrier, scan, mode, Barrier, Enliven,
     Holds, Runs, Unseen, TypeOK, Locations, Phases, Led, Overlooked, ScannedThreads
<1>23. ASSUME NEW t \in Mutators, NEW r \in Roots, NEW v \in Blocks \cup {Nil},
             root_write_barrier(t, r, v)
      PROVE  TypeOK'
  BY <1>23, ConstantsOK DEF root_write_barrier, races, scan, mode, Barrier,
     Enliven, Runs, TypeOK, Locations, Phases
<1>24. ASSUME NEW t \in Mutators, NEW w \in WeakRefs, NEW v \in Blocks \cup {Nil},
             assign_weak_reference(t, w, v)
      PROVE  TypeOK'
  BY <1>24, ConstantsOK DEF assign_weak_reference, races, barrier, scan, mode,
     Runs, TypeOK, Locations, Phases
<1>25. ASSUME NEW t \in Mutators, NEW w \in WeakRefs,
             read_weak_reference(t, w)
      PROVE  TypeOK'
  BY <1>25, ConstantsOK DEF read_weak_reference, races, scan, mode, Barrier,
     Enliven, Runs, TypeOK, Locations, Phases
<1>26. ASSUME NEW t \in Mutators, NEW w \in WeakRefs,
             ConditionClear(t, w)
      PROVE  TypeOK'
  BY <1>26, ConstantsOK DEF ConditionClear, barrier, scan, mode, Runs, TypeOK,
     Locations, Phases
<1>27. ASSUME NEW t \in Mutators,
             LoadWeak(t)
      PROVE  TypeOK'
  BY <1>27, ConstantsOK DEF LoadWeak, barrier, scan, mode, Unseen, TypeOK,
     Locations, Phases, Overlooked, ScannedThreads
<1>28. CASE UNCHANGED vars
  BY <1>28 DEF vars, races, mutator, barrier, scan, mode, TypeOK, Locations,
     Phases
<1> QED
  BY <1>1, <1>2, <1>3, <1>4, <1>5, <1>6, <1>7, <1>8, <1>9, <1>10, <1>11,
     <1>12, <1>13, <1>14, <1>15, <1>16, <1>17, <1>18, <1>19, <1>20, <1>21,
     <1>22, <1>23, <1>24, <1>25, <1>26, <1>27, <1>28 DEF Next, Collect, Mutate

\* The flags that the mutators read follow the phases of the collector.
LEMMA FlagsStep ==
    ASSUME TypeOK, FlagsOK, [Next]_vars
    PROVE  FlagsOK'
<1>1. CASE collect_begin
  BY <1>1, ConstantsOK DEF collect_begin, races, mutator, TypeOK, FlagsOK,
     Phases, Scanning
<1>2. CASE copy_roots
  BY <1>2, ConstantsOK DEF copy_roots, races, mutator, barrier, mode, TypeOK,
     FlagsOK, Phases, Scanning
<1>3. CASE lock_threads
  BY <1>3, ConstantsOK DEF lock_threads, races, mutator, barrier, mode,
     TypeOK, FlagsOK, Phases, Scanning
<1>4. CASE Drained
  BY <1>4, ConstantsOK DEF Drained, races, mutator, barrier, mode, TypeOK,
     FlagsOK, Phases, Scanning
<1>5. CASE resume
  BY <1>5, ConstantsOK DEF resume, races, mutator, barrier, mode, TypeOK,
     FlagsOK, Phases, Scanning
<1>6. CASE scan_barrier
  BY <1>6, ConstantsOK DEF scan_barrier, races, mutator, barrier, mode,
     TypeOK, FlagsOK, Phases, Scanning
<1>7. CASE reset_all_marks_and_pending
  BY <1>7, ConstantsOK DEF reset_all_marks_and_pending, races, mutator,
     Scanned, TypeOK, FlagsOK, Phases, Scanning
<1>8. CASE scavenge_blocks
  BY <1>8, ConstantsOK DEF scavenge_blocks, races, barrier, scan, mode,
     Scanned, TypeOK, FlagsOK, Phases, Scanning
<1>9. CASE weak_clear_references
  BY <1>9, ConstantsOK DEF weak_clear_references, races, scan, mode, TypeOK,
     FlagsOK, Phases, Scanning
<1>10. CASE collect_end
  BY <1>10, ConstantsOK DEF collect_end, races, mutator, barrier, TypeOK,
     FlagsOK, Phases, Scanning
<1>11. ASSUME NEW b \in Blocks,
             scan_retained_and_old_blocks(b)
      PROVE  FlagsOK'
  BY <1>11, ConstantsOK DEF scan_retained_and_old_blocks, races, mutator,
     barrier, mode, set_pending, Old, FieldsOf, TypeOK, FlagsOK, Phases,
     Scanning
<1>12. ASSUME NEW b \in Blocks,
             free_garbage(b)
      PROVE  FlagsOK'
  BY <1>12, ConstantsOK DEF free_garbage, races, barrier, scan, mode,
     FieldsOf, TypeOK, FlagsOK, Phases, Scanning
<1>13. ASSUME NEW r \in Roots,
             scan_root_ranges(r)
      PROVE  FlagsOK'
  BY <1>13, ConstantsOK DEF scan_root_ranges, races, mutator, barrier, mode,
     set_pending, TypeOK, FlagsOK, Phases, Scanning
<1>14. ASSUME NEW t \in Mutators,
             scan_thread_without_suspend(t)
      PROVE  FlagsOK'
  BY <1>14, ConstantsOK DEF scan_thread_without_suspend, races, mutator,
     barrier, mode, set_pending, TypeOK, FlagsOK, Phases, Scanning
<1>15. ASSUME NEW t \in Mutators,
             suspend(t)
      PROVE  FlagsOK'
  BY <1>15, ConstantsOK DEF suspend, races, mutator, barrier, mode,
     set_pending, TypeOK, FlagsOK, Phases, Scanning
<1>16. ASSUME NEW l \in Locations,
             scan_pending(l)
      PROVE  FlagsOK'
  BY <1>16, ConstantsOK DEF scan_pending, races, mutator, barrier, mode,
     set_pending, TypeOK, FlagsOK, Phases, Scanning
<1>17. ASSUME NEW t \in Mutators, NEW b \in Blocks,
             block_allocate(t, b)
      PROVE  FlagsOK'
  BY <1>17, ConstantsOK DEF block_allocate, races, scan, mode, Barrier, Runs,
     TypeOK, FlagsOK, Phases, Scanning
<1>18. ASSUME NEW t \in Mutators, NEW b \in Blocks,
             Drop(t, b)
      PROVE  FlagsOK'
  BY <1>18, ConstantsOK DEF Drop, races, barrier, scan, mode, Runs, TypeOK,
     FlagsOK, Phases, Scanning
<1>19. ASSUME NEW t \in Mutators, NEW b \in Blocks,
             block_increment_refcount(t, b)
      PROVE  FlagsOK'
  BY <1>19, ConstantsOK DEF block_increment_refcount, races, scan, mode,
     Barrier, Enliven, Incremented, Runs, TypeOK, FlagsOK, Phases, Scanning, Unseen, Unvisited
<1>20. ASSUME NEW t \in Mutators, NEW b \in Blocks,
             block_decrement_refcount(t, b)
      PROVE  FlagsOK'
  BY <1>20, ConstantsOK DEF block_decrement_refcount, races, barrier, scan,
     mode, Runs, TypeOK, FlagsOK, Phases, Scanning
<1>21. ASSUME NEW t \in Mutators, NEW l \in Locations,
             Load(t, l)
      PROVE  FlagsOK'
  BY <1>21, ConstantsOK DEF Load, races, barrier, scan, mode, Holds, Runs,
     TypeOK, FlagsOK, Phases, Scanning
<1>22. ASSUME NEW t \in Mutators, NEW l \in Blocks \X Fields, NEW v \in Blocks \cup {Nil},
             set_write_barrier(t, l, v)
      PROVE  FlagsOK'
  BY <1>22, ConstantsOK DEF set_write_barrier, scan, mode, Barrier, Enliven,
     Holds, Runs, Unseen, TypeOK, FlagsOK, Phases, Scanning, Led, Overlooked, ScannedThreads
<1>23. ASSUME NEW t \in Mutators, NEW r \in Roots, NEW v \in Blocks \cup {Nil},
             root_write_barrier(t, r, v)
      PROVE  FlagsOK'
  BY <1>23, ConstantsOK DEF root_write_barrier, races, scan, mode, Barrier,
     Enliven, Runs, TypeOK, FlagsOK, Phases, Scanning
<1>24. ASSUME NEW t \in Mutators, NEW w \in WeakRefs, NEW v \in Blocks \cup {Nil},
             assign_weak_reference(t, w, v)
      PROVE  FlagsOK'
  BY <1>24, ConstantsOK DEF assign_weak_reference, races, barrier, scan, mode,
     Runs, TypeOK, FlagsOK, Phases, Scanning
<1>25. ASSUME NEW t \in Mutators, NEW w \in WeakRefs,
             read_weak_reference(t, w)
      PROVE  FlagsOK'
  BY <1>25, ConstantsOK DEF read_weak_reference, races, scan, mode, Barrier,
     Enliven, Runs, TypeOK, FlagsOK, Phases, Scanning
<1>26. ASSUME NEW t \in Mutators, NEW w \in WeakRefs,
             ConditionClear(t, w)
      PROVE  FlagsOK'
  BY <1>26, ConstantsOK DEF ConditionClear, barrier, scan, mode, Runs, TypeOK,
     FlagsOK, Phases, Scanning
<1>27. ASSUME NEW t \in Mutators,
             LoadWeak(t)
      PROVE  FlagsOK'
  BY <1>27, ConstantsOK DEF LoadWeak, barrier, scan, mode, Unseen, TypeOK,
     FlagsOK, Phases, Scanning, Overlooked, ScannedThreads
<1>28. CASE UNCHANGED vars
  BY <1>28 DEF vars, races, mutator, barrier, scan, mode, TypeOK, FlagsOK,
     Phases, Scanning
<1> QED
  BY <1>1, <1>2, <1>3, <1>4, <1>5, <1>6, <1>7, <1>8, <1>9, <1>10, <1>11,
     <1>12, <1>13, <1>14, <1>15, <1>16, <1>17, <1>18, <1>19, <1>20, <1>21,
     <1>22, <1>23, <1>24, <1>25, <1>26, <1>27, <1>28 DEF Next, Collect, Mutate

\* Nothing but set_write_barrier fills a field, and it marks the card.
LEMMA CardsStep ==
    ASSUME TypeOK, CardsOK, [Next]_vars
    PROVE  CardsOK'
<1>1. CASE collect_begin
  BY <1>1, ConstantsOK DEF collect_begin, races, mutator, TypeOK, CardsOK,
     Locations
<1>2. CASE copy_roots
  BY <1>2, ConstantsOK DEF copy_roots, races, mutator, barrier, mode, TypeOK,
     CardsOK, Locations
<1>3. CASE lock_threads
  BY <1>3, ConstantsOK DEF lock_threads, races, mutator, barrier, mode,
     TypeOK, CardsOK, Locations
<1>4. CASE Drained
  BY <1>4, ConstantsOK DEF Drained, races, mutator, barrier, mode, TypeOK,
     CardsOK, Locations
<1>5. CASE resume
  BY <1>5, ConstantsOK DEF resume, races, mutator, barrier, mode, TypeOK,
     CardsOK, Locations
<1>6. CASE scan_barrier
  BY <1>6, ConstantsOK DEF scan_barrier, races, mutator, barrier, mode,
     TypeOK, CardsOK, Locations
<1>7. CASE reset_all_marks_and_pending
  BY <1>7, ConstantsOK DEF reset_all_marks_and_pending, races, mutator,
     Scanned, TypeOK, CardsOK, Locations
<1>8. CASE scavenge_blocks
  BY <1>8, ConstantsOK DEF scavenge_blocks, races, barrier, scan, mode,
     Scanned, TypeOK, CardsOK, Locations
<1>9. CASE weak_clear_references
  BY <1>9, ConstantsOK DEF weak_clear_references, races, scan, mode, TypeOK,
     CardsOK, Locations
<1>10. CASE collect_end
  BY <1>10, ConstantsOK DEF collect_end, races, mutator, barrier, TypeOK,
     CardsOK, Locations
<1>11. ASSUME NEW b \in Blocks,
             scan_retained_and_old_blocks(b)
      PROVE  CardsOK'
  BY <1>11, ConstantsOK DEF scan_retained_and_old_blocks, races, mutator,
     barrier, mode, set_pending, Old, FieldsOf, TypeOK, CardsOK, Locations
<1>12. ASSUME NEW b \in Blocks,
             free_garbage(b)
      PROVE  CardsOK'
  BY <1>12, ConstantsOK DEF free_garbage, races, barrier, scan, mode,
     FieldsOf, TypeOK, CardsOK, Locations
<1>13. ASSUME NEW r \in Roots,
             scan_root_ranges(r)
      PROVE  CardsOK'
  BY <1>13, ConstantsOK DEF scan_root_ranges, races, mutator, barrier, mode,
     set_pending, TypeOK, CardsOK, Locations
<1>14. ASSUME NEW t \in Mutators,
             scan_thread_without_suspend(t)
      PROVE  CardsOK'
  BY <1>14, ConstantsOK DEF scan_thread_without_suspend, races, mutator,
     barrier, mode, set_pending, TypeOK, CardsOK, Locations
<1>15. ASSUME NEW t \in Mutators,
             suspend(t)
      PROVE  CardsOK'
  BY <1>15, ConstantsOK DEF suspend, races, mutator, barrier, mode,
     set_pending, TypeOK, CardsOK, Locations
<1>16. ASSUME NEW l \in Locations,
             scan_pending(l)
      PROVE  CardsOK'
  BY <1>16, ConstantsOK DEF scan_pending, races, mutator, barrier, mode,
     set_pending, TypeOK, CardsOK, Locations
<1>17. ASSUME NEW t \in Mutators, NEW b \in Blocks,
             block_allocate(t, b)
      PROVE  CardsOK'
  BY <1>17, ConstantsOK DEF block_allocate, races, scan, mode, Barrier, Runs,
     TypeOK, CardsOK, Locations
<1>18. ASSUME NEW t \in Mutators, NEW b \in Blocks,
             Drop(t, b)
      PROVE  CardsOK'
  BY <1>18, ConstantsOK DEF Drop, races, barrier, scan, mode, Runs, TypeOK,
     CardsOK, Locations
<1>19. ASSUME NEW t \in Mutators, NEW b \in Blocks,
             block_increment_refcount(t, b)
      PROVE  CardsOK'
  BY <1>19, ConstantsOK DEF block_increment_refcount, races, scan, mode,
     Barrier, Enliven, Incremented, Runs, TypeOK, CardsOK, Locations, Unseen, Unvisited
<1>20. ASSUME NEW t \in Mutators, NEW b \in Blocks,
             block_decrement_refcount(t, b)
      PROVE  CardsOK'
  BY <1>20, ConstantsOK DEF block_decrement_refcount, races, barrier, scan,
     mode, Runs, TypeOK, CardsOK, Locations
<1>21. ASSUME NEW t \in Mutators, NEW l \in Locations,
             Load(t, l)
      PROVE  CardsOK'
  BY <1>21, ConstantsOK DEF Load, races, barrier, scan, mode, Holds, Runs,
     TypeOK, CardsOK, Locations
<1>22. ASSUME NEW t \in Mutators, NEW l \in Blocks \X Fields, NEW v \in Blocks \cup {Nil},
             set_write_barrier(t, l, v)
      PROVE  CardsOK'
  BY <1>22, ConstantsOK DEF set_write_barrier, scan, mode, Barrier, Enliven,
     Holds, Runs, Unseen, TypeOK, CardsOK, Locations
<1>23. ASSUME NEW t \in Mutators, NEW r \in Roots, NEW v \in Blocks \cup {Nil},
             root_write_barrier(t, r, v)
      PROVE  CardsOK'
  BY <1>23, ConstantsOK DEF root_write_barrier, races, scan, mode, Barrier,
     Enliven, Runs, TypeOK, CardsOK, Locations
<1>24. ASSUME NEW t \in Mutators, NEW w \in WeakRefs, NEW v \in Blocks \cup {Nil},
             assign_weak_reference(t, w, v)
      PROVE  CardsOK'
  BY <1>24, ConstantsOK DEF assign_weak_reference, races, barrier, scan, mode,
     Runs, TypeOK, CardsOK, Locations
<1>25. ASSUME NEW t \in Mutators, NEW w \in WeakRefs,
             read_weak_reference(t, w)
      PROVE  CardsOK'
  BY <1>25, ConstantsOK DEF read_weak_reference, races, scan, mode, Barrier,
     Enliven, Runs, TypeOK, CardsOK, Locations
<1>26. ASSUME NEW t \in Mutators, NEW w \in WeakRefs,
             ConditionClear(t, w)
      PROVE  CardsOK'
  BY <1>26, ConstantsOK DEF ConditionClear, barrier, scan, mode, Runs, TypeOK,
     CardsOK, Locations
<1>27. ASSUME NEW t \in Mutators,
             LoadWeak(t)
      PROVE  CardsOK'
  BY <1>27, ConstantsOK DEF LoadWeak, barrier, scan, mode, Unseen, TypeOK,
     CardsOK, Locations
<1>28. CASE UNCHANGED vars
  BY <1>28 DEF vars, races, mutator, barrier, scan, mode, TypeOK, CardsOK,
     Locations
<1> QED
  BY <1>1, <1>2, <1>3, <1>4, <1>5, <1>6, <1>7, <1>8, <1>9, <1>10, <1>11,
     <1>12, <1>13, <1>14, <1>15, <1>16, <1>17, <1>18, <1>19, <1>20, <1>21,
     <1>22, <1>23, <1>24, <1>25, <1>26, <1>27, <1>28 DEF Next, Collect, Mutate

\* A generational collection marks every old block that its first pass meets;
\* a block allocated later is queued.
LEMMA OldStep ==
    ASSUME TypeOK, FlagsOK, OldKept, [Next]_vars
    PROVE  OldKept'
<1>1. CASE collect_begin
  BY <1>1, ConstantsOK DEF collect_begin, races, mutator, TypeOK, FlagsOK,
     OldKept, Kept, Old, Scanning, Unvisited
<1>2. CASE copy_roots
  BY <1>2, ConstantsOK DEF copy_roots, races, mutator, barrier, mode, TypeOK,
     FlagsOK, OldKept, Kept, Old, Scanning, Unvisited
<1>3. CASE lock_threads
  BY <1>3, ConstantsOK DEF lock_threads, races, mutator, barrier, mode,
     TypeOK, FlagsOK, OldKept, Kept, Old, Scanning, Unvisited
<1>4. CASE Drained
  BY <1>4, ConstantsOK DEF Drained, races, mutator, barrier, mode, TypeOK,
     FlagsOK, OldKept, Kept, Old, Scanning, Unvisited
<1>5. CASE resume
  BY <1>5, ConstantsOK DEF resume, races, mutator, barrier, mode, TypeOK,
     FlagsOK, OldKept, Kept, Old, Scanning, Unvisited
<1>6. CASE scan_barrier
  BY <1>6, ConstantsOK DEF scan_barrier, races, mutator, barrier, mode,
     TypeOK, FlagsOK, OldKept, Kept, Old, Scanning, Unvisited
<1>7. CASE reset_all_marks_and_pending
  BY <1>7, ConstantsOK DEF reset_all_marks_and_pending, races, mutator,
     Scanned, TypeOK, FlagsOK, OldKept, Kept, Old, Scanning, Unvisited
<1>8. CASE scavenge_blocks
  BY <1>8, ConstantsOK DEF scavenge_blocks, races, barrier, scan, mode,
     Scanned, TypeOK, FlagsOK, OldKept, Kept, Old, Scanning, Unvisited
<1>9. CASE weak_clear_references
  BY <1>9, ConstantsOK DEF weak_clear_references, races, scan, mode, TypeOK,
     FlagsOK, OldKept, Kept, Old, Scanning, Unvisited
<1>10. CASE collect_end
  BY <1>10, ConstantsOK DEF collect_end, races, mutator, barrier, TypeOK,
     FlagsOK, OldKept, Kept, Old, Scanning, Unvisited
<1>11. ASSUME NEW b \in Blocks,
             scan_retained_and_old_blocks(b)
      PROVE  OldKept'
  BY <1>11, ConstantsOK DEF scan_retained_and_old_blocks, races, mutator,
     barrier, mode, set_pending, Old, FieldsOf, TypeOK, FlagsOK, OldKept,
     Kept, Scanning, Unvisited
<1>12. ASSUME NEW b \in Blocks,
             free_garbage(b)
      PROVE  OldKept'
  BY <1>12, ConstantsOK DEF free_garbage, races, barrier, scan, mode,
     FieldsOf, TypeOK, FlagsOK, OldKept, Kept, Old, Scanning, Unvisited
<1>13. ASSUME NEW r \in Roots,
             scan_root_ranges(r)
      PROVE  OldKept'
  BY <1>13, ConstantsOK DEF scan_root_ranges, races, mutator, barrier, mode,
     set_pending, TypeOK, FlagsOK, OldKept, Kept, Old, Scanning, Unvisited
<1>14. ASSUME NEW t \in Mutators,
             scan_thread_without_suspend(t)
      PROVE  OldKept'
  BY <1>14, ConstantsOK DEF scan_thread_without_suspend, races, mutator,
     barrier, mode, set_pending, TypeOK, FlagsOK, OldKept, Kept, Old,
     Scanning, Unvisited
<1>15. ASSUME NEW t \in Mutators,
             suspend(t)
      PROVE  OldKept'
  BY <1>15, ConstantsOK DEF suspend, races, mutator, barrier, mode,
     set_pending, TypeOK, FlagsOK, OldKept, Kept, Old, Scanning, Unvisited
<1>16. ASSUME NEW l \in Locations,
             scan_pending(l)
      PROVE  OldKept'
  BY <1>16, ConstantsOK DEF scan_pending, races, mutator, barrier, mode,
     set_pending, TypeOK, FlagsOK, OldKept, Kept, Old, Scanning, Unvisited
<1>17. ASSUME NEW t \in Mutators, NEW b \in Blocks,
             block_allocate(t, b)
      PROVE  OldKept'
  BY <1>17, ConstantsOK DEF block_allocate, races, scan, mode, Barrier, Runs,
     TypeOK, FlagsOK, OldKept, Kept, Old, Scanning, Unvisited
<1>18. ASSUME NEW t \in Mutators, NEW b \in Blocks,
             Drop(t, b)
      PROVE  OldKept'
  BY <1>18, ConstantsOK DEF Drop, races, barrier, scan, mode, Runs, TypeOK,
     FlagsOK, OldKept, Kept, Old, Scanning, Unvisited
<1>19. ASSUME NEW t \in Mutators, NEW b \in Blocks,
             block_increment_refcount(t, b)
      PROVE  OldKept'
  BY <1>19, ConstantsOK DEF block_increment_refcount, races, scan, mode,
     Barrier, Enliven, Incremented, Runs, TypeOK, FlagsOK, OldKept, Kept, Old,
     Scanning, Unvisited, Unseen
<1>20. ASSUME NEW t \in Mutators, NEW b \in Blocks,
             block_decrement_refcount(t, b)
      PROVE  OldKept'
  BY <1>20, ConstantsOK DEF block_decrement_refcount, races, barrier, scan,
     mode, Runs, TypeOK, FlagsOK, OldKept, Kept, Old, Scanning, Unvisited
<1>21. ASSUME NEW t \in Mutators, NEW l \in Locations,
             Load(t, l)
      PROVE  OldKept'
  BY <1>21, ConstantsOK DEF Load, races, barrier, scan, mode, Holds, Runs,
     TypeOK, FlagsOK, OldKept, Kept, Old, Scanning, Unvisited
<1>22. ASSUME NEW t \in Mutators, NEW l \in Blocks \X Fields, NEW v \in Blocks \cup {Nil},
             set_write_barrier(t, l, v)
      PROVE  OldKept'
  BY <1>22, ConstantsOK DEF set_write_barrier, scan, mode, Barrier, Enliven,
     Holds, Runs, Unseen, TypeOK, FlagsOK, OldKept, Kept, Old, Scanning,
     Unvisited
<1>23. ASSUME NEW t \in Mutators, NEW r \in Roots, NEW v \in Blocks \cup {Nil},
             root_write_barrier(t, r, v)
      PROVE  OldKept'
  BY <1>23, ConstantsOK DEF root_write_barrier, races, scan, mode, Barrier,
     Enliven, Runs, TypeOK, FlagsOK, OldKept, Kept, Old, Scanning, Unvisited
<1>24. ASSUME NEW t \in Mutators, NEW w \in WeakRefs, NEW v \in Blocks \cup {Nil},
             assign_weak_reference(t, w, v)
      PROVE  OldKept'
  BY <1>24, ConstantsOK DEF assign_weak_reference, races, barrier, scan, mode,
     Runs, TypeOK, FlagsOK, OldKept, Kept, Old, Scanning, Unvisited
<1>25. ASSUME NEW t \in Mutators, NEW w \in WeakRefs,
             read_weak_reference(t, w)
      PROVE  OldKept'
  BY <1>25, ConstantsOK DEF read_weak_reference, races, scan, mode, Barrier,
     Enliven, Runs, TypeOK, FlagsOK, OldKept, Kept, Old, Scanning, Unvisited
<1>26. ASSUME NEW t \in Mutators, NEW w \in WeakRefs,
             ConditionClear(t, w)
      PROVE  OldKept'
  BY <1>26, ConstantsOK DEF ConditionClear, barrier, scan, mode, Runs, TypeOK,
     FlagsOK, OldKept, Kept, Old, Scanning, Unvisited
<1>27. ASSUME NEW t \in Mutators,
             LoadWeak(t)
      PROVE  OldKept'
  BY <1>27, ConstantsOK DEF LoadWeak, barrier, scan, mode, Unseen, TypeOK,
     FlagsOK, OldKept, Kept, Old, Scanning, Unvisited
<1>28. CASE UNCHANGED vars
  BY <1>28 DEF vars, races, mutator, barrier, scan, mode, TypeOK, FlagsOK,
     OldKept, Kept, Old, Scanning, Unvisited
<1> QED
  BY <1>1, <1>2, <1>3, <1>4, <1>5, <1>6, <1>7, <1>8, <1>9, <1>10, <1>11,
     <1>12, <1>13, <1>14, <1>15, <1>16, <1>17, <1>18, <1>19, <1>20, <1>21,
     <1>22, <1>23, <1>24, <1>25, <1>26, <1>27, <1>28 DEF Next, Collect, Mutate

\* The barriers queue what is stored in a place that was scanned.
LEMMA HeapStep ==
    ASSUME HeapInv, [Next]_vars
    PROVE  HeapKept'
<1>1. CASE collect_begin
  BY <1>1, ConstantsOK DEF collect_begin, races, mutator, HeapInv, TypeOK,
     FlagsOK, CardsOK, OldKept, HeapKept, Kept, Old, Scanning, Unvisited,
     Unread, Locations
<1>2. CASE copy_roots
  BY <1>2, ConstantsOK DEF copy_roots, races, mutator, barrier, mode, HeapInv,
     TypeOK, FlagsOK, CardsOK, OldKept, HeapKept, Kept, Old, Scanning,
     Unvisited, Unread, Locations
<1>3. CASE lock_threads
  BY <1>3, ConstantsOK DEF lock_threads, races, mutator, barrier, mode,
     HeapInv, TypeOK, FlagsOK, CardsOK, OldKept, HeapKept, Kept, Old,
     Scanning, Unvisited, Unread, Locations
<1>4. CASE Drained
  BY <1>4, ConstantsOK DEF Drained, races, mutator, barrier, mode, HeapInv,
     TypeOK, FlagsOK, CardsOK, OldKept, HeapKept, Kept, Old, Scanning,
     Unvisited, Unread, Locations
<1>5. CASE resume
  BY <1>5, ConstantsOK DEF resume, races, mutator, barrier, mode, HeapInv,
     TypeOK, FlagsOK, CardsOK, OldKept, HeapKept, Kept, Old, Scanning,
     Unvisited, Unread, Locations
<1>6. CASE scan_barrier
  BY <1>6, ConstantsOK DEF scan_barrier, races, mutator, barrier, mode,
     HeapInv, TypeOK, FlagsOK, CardsOK, OldKept, HeapKept, Kept, Old,
     Scanning, Unvisited, Unread, Locations
<1>7. CASE reset_all_marks_and_pending
  BY <1>7, ConstantsOK DEF reset_all_marks_and_pending, races, mutator,
     Scanned, HeapInv, TypeOK, FlagsOK, CardsOK, OldKept, HeapKept, Kept, Old,
     Scanning, Unvisited, Unread, Locations
<1>8. CASE scavenge_blocks
  BY <1>8, ConstantsOK DEF scavenge_blocks, races, barrier, scan, mode,
     Scanned, HeapInv, TypeOK, FlagsOK, CardsOK, OldKept, HeapKept, Kept, Old,
     Scanning, Unvisited, Unread, Locations
<1>9. CASE weak_clear_references
  BY <1>9, ConstantsOK DEF weak_clear_references, races, scan, mode, HeapInv,
     TypeOK, FlagsOK, CardsOK, OldKept, HeapKept, Kept, Old, Scanning,
     Unvisited, Unread, Locations
<1>10. CASE collect_end
  BY <1>10, ConstantsOK DEF collect_end, races, mutator, barrier, HeapInv,
     TypeOK, FlagsOK, CardsOK, OldKept, HeapKept, Kept, Old, Scanning,
     Unvisited, Unread, Locations
<1>11. ASSUME NEW b \in Blocks,
             scan_retained_and_old_blocks(b)
      PROVE  HeapKept'
  BY <1>11, ConstantsOK DEF scan_retained_and_old_blocks, races, mutator,
     barrier, mode, set_pending, Old, FieldsOf, HeapInv, TypeOK, FlagsOK,
     CardsOK, OldKept, HeapKept, Kept, Scanning, Unvisited, Unread, Locations
<1>12. ASSUME NEW b \in Blocks,
             free_garbage(b)
      PROVE  HeapKept'
  BY <1>12, ConstantsOK DEF free_garbage, races, barrier, scan, mode,
     FieldsOf, HeapInv, TypeOK, FlagsOK, CardsOK, OldKept, HeapKept, Kept,
     Old, Scanning, Unvisited, Unread, Locations
<1>13. ASSUME NEW r \in Roots,
             scan_root_ranges(r)
      PROVE  HeapKept'
  BY <1>13, ConstantsOK DEF scan_root_ranges, races, mutator, barrier, mode,
     set_pending, HeapInv, TypeOK, FlagsOK, CardsOK, OldKept, HeapKept, Kept,
     Old, Scanning, Unvisited, Unread, Locations
<1>14. ASSUME NEW t \in Mutators,
             scan_thread_without_suspend(t)
      PROVE  HeapKept'
  BY <1>14, ConstantsOK DEF scan_thread_without_suspend, races, mutator,
     barrier, mode, set_pending, HeapInv, TypeOK, FlagsOK, CardsOK, OldKept,
     HeapKept, Kept, Old, Scanning, Unvisited, Unread, Locations
<1>15. ASSUME NEW t \in Mutators,
             suspend(t)
      PROVE  HeapKept'
  BY <1>15, ConstantsOK DEF suspend, races, mutator, barrier, mode,
     set_pending, HeapInv, TypeOK, FlagsOK, CardsOK, OldKept, HeapKept, Kept,
     Old, Scanning, Unvisited, Unread, Locations
<1>16. ASSUME NEW l \in Locations,
             scan_pending(l)
      PROVE  HeapKept'
  BY <1>16, ConstantsOK DEF scan_pending, races, mutator, barrier, mode,
     set_pending, HeapInv, TypeOK, FlagsOK, CardsOK, OldKept, HeapKept, Kept,
     Old, Scanning, Unvisited, Unread, Locations
<1>17. ASSUME NEW t \in Mutators, NEW b \in Blocks,
             block_allocate(t, b)
      PROVE  HeapKept'
  BY <1>17, ConstantsOK DEF block_allocate, races, scan, mode, Barrier, Runs,
     HeapInv, TypeOK, FlagsOK, CardsOK, OldKept, HeapKept, Kept, Old,
     Scanning, Unvisited, Unread, Locations
<1>18. ASSUME NEW t \in Mutators, NEW b \in Blocks,
             Drop(t, b)
      PROVE  HeapKept'
  BY <1>18, ConstantsOK DEF Drop, races, barrier, scan, mode, Runs, HeapInv,
     TypeOK, FlagsOK, CardsOK, OldKept, HeapKept, Kept, Old, Scanning,
     Unvisited, Unread, Locations
<1>19. ASSUME NEW t \in Mutators, NEW b \in Blocks,
             block_increment_refcount(t, b)
      PROVE  HeapKept'
  BY <1>19, ConstantsOK DEF block_increment_refcount, races, scan, mode,
     Barrier, Enliven, Incremented, Runs, HeapInv, TypeOK, FlagsOK, CardsOK,
     OldKept, HeapKept, Kept, Old, Scanning, Unvisited, Unread, Locations, Unseen
<1>20. ASSUME NEW t \in Mutators, NEW b \in Blocks,
             block_decrement_refcount(t, b)
      PROVE  HeapKept'
  BY <1>20, ConstantsOK DEF block_decrement_refcount, races, barrier, scan,
     mode, Runs, HeapInv, TypeOK, FlagsOK, CardsOK, OldKept, HeapKept, Kept,
     Old, Scanning, Unvisited, Unread, Locations
<1>21. ASSUME NEW t \in Mutators, NEW l \in Locations,
             Load(t, l)
      PROVE  HeapKept'
  BY <1>21, ConstantsOK DEF Load, races, barrier, scan, mode, Holds, Runs,
     HeapInv, TypeOK, FlagsOK, CardsOK, OldKept, HeapKept, Kept, Old,
     Scanning, Unvisited, Unread, Locations
<1>22. ASSUME NEW t \in Mutators, NEW l \in Blocks \X Fields, NEW v \in Blocks \cup {Nil},
             set_write_barrier(t, l, v)
      PROVE  HeapKept'
  BY <1>22, ConstantsOK DEF set_write_barrier, scan, mode, Barrier, Enliven,
     Holds, Runs, Unseen, HeapInv, TypeOK, FlagsOK, CardsOK, OldKept,
     HeapKept, Kept, Old, Scanning, Unvisited, Unread, Locations
<1>23. ASSUME NEW t \in Mutators, NEW r \in Roots, NEW v \in Blocks \cup {Nil},
             root_write_barrier(t, r, v)
      PROVE  HeapKept'
  BY <1>23, ConstantsOK DEF root_write_barrier, races, scan, mode, Barrier,
     Enliven, Runs, HeapInv, TypeOK, FlagsOK, CardsOK, OldKept, HeapKept,
     Kept, Old, Scanning, Unvisited, Unread, Locations
<1>24. ASSUME NEW t \in Mutators, NEW w \in WeakRefs, NEW v \in Blocks \cup {Nil},
             assign_weak_reference(t, w, v)
      PROVE  HeapKept'
  BY <1>24, ConstantsOK DEF assign_weak_reference, races, barrier, scan, mode,
     Runs, HeapInv, TypeOK, FlagsOK, CardsOK, OldKept, HeapKept, Kept, Old,
     Scanning, Unvisited, Unread, Locations
<1>25. ASSUME NEW t \in Mutators, NEW w \in WeakRefs,
             read_weak_reference(t, w)
      PROVE  HeapKept'
  BY <1>25, ConstantsOK DEF read_weak_reference, races, scan, mode, Barrier,
     Enliven, Runs, HeapInv, TypeOK, FlagsOK, CardsOK, OldKept, HeapKept,
     Kept, Old, Scanning, Unvisited, Unread, Locations
<1>26. ASSUME NEW t \in Mutators, NEW w \in WeakRefs,
             ConditionClear(t, w)
      PROVE  HeapKept'
  BY <1>26, ConstantsOK DEF ConditionClear, barrier, scan, mode, Runs,
     HeapInv, TypeOK, FlagsOK, CardsOK, OldKept, HeapKept, Kept, Old,
     Scanning, Unvisited, Unread, Locations
<1>27. ASSUME NEW t \in Mutators,
             LoadWeak(t)
      PROVE  HeapKept'
  BY <1>27, ConstantsOK DEF LoadWeak, barrier, scan, mode, Unseen, HeapInv,
     TypeOK, FlagsOK, CardsOK, OldKept, HeapKept, Kept, Old, Scanning,
     Unvisited, Unread, Locations
<1>28. CASE UNCHANGED vars
  BY <1>28 DEF vars, races, mutator, barrier, scan, mode, HeapInv, TypeOK,
     FlagsOK, CardsOK, OldKept, HeapKept, Kept, Old, Scanning, Unvisited,
     Unread, Locations
<1> QED
  BY <1>1, <1>2, <1>3, <1>4, <1>5, <1>6, <1>7, <1>8, <1>9, <1>10, <1>11,
     <1>12, <1>13, <1>14, <1>15, <1>16, <1>17, <1>18, <1>19, <1>20, <1>21,
     <1>22, <1>23, <1>24, <1>25, <1>26, <1>27, <1>28 DEF Next, Collect, Mutate

\* A retain of a Large block that the first pass has gone by queues it.
LEMMA RetainedStep ==
    ASSUME TypeOK, FlagsOK, RetainedKept, [Next]_vars
    PROVE  RetainedKept'
<1>1. CASE collect_begin
  BY <1>1, ConstantsOK DEF collect_begin, races, mutator, TypeOK, FlagsOK,
     RetainedKept, Kept, Scanning, Unvisited, Incremented
<1>2. CASE copy_roots
  BY <1>2, ConstantsOK DEF copy_roots, races, mutator, barrier, mode, TypeOK,
     FlagsOK, RetainedKept, Kept, Scanning, Unvisited, Incremented
<1>3. CASE lock_threads
  BY <1>3, ConstantsOK DEF lock_threads, races, mutator, barrier, mode,
     TypeOK, FlagsOK, RetainedKept, Kept, Scanning, Unvisited, Incremented
<1>4. CASE Drained
  BY <1>4, ConstantsOK DEF Drained, races, mutator, barrier, mode, TypeOK,
     FlagsOK, RetainedKept, Kept, Scanning, Unvisited, Incremented
<1>5. CASE resume
  BY <1>5, ConstantsOK DEF resume, races, mutator, barrier, mode, TypeOK,
     FlagsOK, RetainedKept, Kept, Scanning, Unvisited, Incremented
<1>6. CASE scan_barrier
  BY <1>6, ConstantsOK DEF scan_barrier, races, mutator, barrier, mode,
     TypeOK, FlagsOK, RetainedKept, Kept, Scanning, Unvisited, Incremented
<1>7. CASE reset_all_marks_and_pending
  BY <1>7, ConstantsOK DEF reset_all_marks_and_pending, races, mutator,
     Scanned, TypeOK, FlagsOK, RetainedKept, Kept, Scanning, Unvisited,
     Incremented
<1>8. CASE scavenge_blocks
  BY <1>8, ConstantsOK DEF scavenge_blocks, races, barrier, scan, mode,
     Scanned, TypeOK, FlagsOK, RetainedKept, Kept, Scanning, Unvisited,
     Incremented
<1>9. CASE weak_clear_references
  BY <1>9, ConstantsOK DEF weak_clear_references, races, scan, mode, TypeOK,
     FlagsOK, RetainedKept, Kept, Scanning, Unvisited, Incremented
<1>10. CASE collect_end
  BY <1>10, ConstantsOK DEF collect_end, races, mutator, barrier, TypeOK,
     FlagsOK, RetainedKept, Kept, Scanning, Unvisited, Incremented
<1>11. ASSUME NEW b \in Blocks,
             scan_retained_and_old_blocks(b)
      PROVE  RetainedKept'
  BY <1>11, ConstantsOK DEF scan_retained_and_old_blocks, races, mutator,
     barrier, mode, set_pending, Old, FieldsOf, TypeOK, FlagsOK, RetainedKept,
     Kept, Scanning, Unvisited, Incremented
<1>12. ASSUME NEW b \in Blocks,
             free_garbage(b)
      PROVE  RetainedKept'
  BY <1>12, ConstantsOK DEF free_garbage, races, barrier, scan, mode,
     FieldsOf, TypeOK, FlagsOK, RetainedKept, Kept, Scanning, Unvisited,
     Incremented
<1>13. ASSUME NEW r \in Roots,
             scan_root_ranges(r)
      PROVE  RetainedKept'
  BY <1>13, ConstantsOK DEF scan_root_ranges, races, mutator, barrier, mode,
     set_pending, TypeOK, FlagsOK, RetainedKept, Kept, Scanning, Unvisited,
     Incremented
<1>14. ASSUME NEW t \in Mutators,
             scan_thread_without_suspend(t)
      PROVE  RetainedKept'
  BY <1>14, ConstantsOK DEF scan_thread_without_suspend, races, mutator,
     barrier, mode, set_pending, TypeOK, FlagsOK, RetainedKept, Kept,
     Scanning, Unvisited, Incremented
<1>15. ASSUME NEW t \in Mutators,
             suspend(t)
      PROVE  RetainedKept'
  BY <1>15, ConstantsOK DEF suspend, races, mutator, barrier, mode,
     set_pending, TypeOK, FlagsOK, RetainedKept, Kept, Scanning, Unvisited,
     Incremented
<1>16. ASSUME NEW l \in Locations,
             scan_pending(l)
      PROVE  RetainedKept'
  BY <1>16, ConstantsOK DEF scan_pending, races, mutator, barrier, mode,
     set_pending, TypeOK, FlagsOK, RetainedKept, Kept, Scanning, Unvisited,
     Incremented
<1>17. ASSUME NEW t \in Mutators, NEW b \in Blocks,
             block_allocate(t, b)
      PROVE  RetainedKept'
  BY <1>17, ConstantsOK DEF block_allocate, races, scan, mode, Barrier, Runs,
     TypeOK, FlagsOK, RetainedKept, Kept, Scanning, Unvisited, Incremented
<1>18. ASSUME NEW t \in Mutators, NEW b \in Blocks,
             Drop(t, b)
      PROVE  RetainedKept'
  BY <1>18, ConstantsOK DEF Drop, races, barrier, scan, mode, Runs, TypeOK,
     FlagsOK, RetainedKept, Kept, Scanning, Unvisited, Incremented
<1>19. ASSUME NEW t \in Mutators, NEW b \in Blocks,
             block_increment_refcount(t, b)
      PROVE  RetainedKept'
  BY <1>19, ConstantsOK DEF block_increment_refcount, races, scan, mode,
     Barrier, Enliven, Incremented, Runs, TypeOK, FlagsOK, RetainedKept, Kept,
     Scanning, Unvisited, Unseen
<1>20. ASSUME NEW t \in Mutators, NEW b \in Blocks,
             block_decrement_refcount(t, b)
      PROVE  RetainedKept'
  BY <1>20, ConstantsOK DEF block_decrement_refcount, races, barrier, scan,
     mode, Runs, TypeOK, FlagsOK, RetainedKept, Kept, Scanning, Unvisited,
     Incremented
<1>21. ASSUME NEW t \in Mutators, NEW l \in Locations,
             Load(t, l)
      PROVE  RetainedKept'
  BY <1>21, ConstantsOK DEF Load, races, barrier, scan, mode, Holds, Runs,
     TypeOK, FlagsOK, RetainedKept, Kept, Scanning, Unvisited, Incremented
<1>22. ASSUME NEW t \in Mutators, NEW l \in Blocks \X Fields, NEW v \in Blocks \cup {Nil},
             set_write_barrier(t, l, v)
      PROVE  RetainedKept'
  BY <1>22, ConstantsOK DEF set_write_barrier, scan, mode, Barrier, Enliven,
     Holds, Runs, Unseen, TypeOK, FlagsOK, RetainedKept, Kept, Scanning,
     Unvisited, Incremented, Led, Overlooked
<1>23. ASSUME NEW t \in Mutators, NEW r \in Roots, NEW v \in Blocks \cup {Nil},
             root_write_barrier(t, r, v)
      PROVE  RetainedKept'
  BY <1>23, ConstantsOK DEF root_write_barrier, races, scan, mode, Barrier,
     Enliven, Runs, TypeOK, FlagsOK, RetainedKept, Kept, Scanning, Unvisited,
     Incremented
<1>24. ASSUME NEW t \in Mutators, NEW w \in WeakRefs, NEW v \in Blocks \cup {Nil},
             assign_weak_reference(t, w, v)
      PROVE  RetainedKept'
  BY <1>24, ConstantsOK DEF assign_weak_reference, races, barrier, scan, mode,
     Runs, TypeOK, FlagsOK, RetainedKept, Kept, Scanning, Unvisited,
     Incremented
<1>25. ASSUME NEW t \in Mutators, NEW w \in WeakRefs,
             read_weak_reference(t, w)
      PROVE  RetainedKept'
  BY <1>25, ConstantsOK DEF read_weak_reference, races, scan, mode, Barrier,
     Enliven, Runs, TypeOK, FlagsOK, RetainedKept, Kept, Scanning, Unvisited,
     Incremented
<1>26. ASSUME NEW t \in Mutators, NEW w \in WeakRefs,
             ConditionClear(t, w)
      PROVE  RetainedKept'
  BY <1>26, ConstantsOK DEF ConditionClear, barrier, scan, mode, Runs, TypeOK,
     FlagsOK, RetainedKept, Kept, Scanning, Unvisited, Incremented
<1>27. ASSUME NEW t \in Mutators,
             LoadWeak(t)
      PROVE  RetainedKept'
  BY <1>27, ConstantsOK DEF LoadWeak, barrier, scan, mode, Unseen, TypeOK,
     FlagsOK, RetainedKept, Kept, Scanning, Unvisited, Incremented
<1>28. CASE UNCHANGED vars
  BY <1>28 DEF vars, races, mutator, barrier, scan, mode, TypeOK, FlagsOK,
     RetainedKept, Kept, Scanning, Unvisited, Incremented
<1> QED
  BY <1>1, <1>2, <1>3, <1>4, <1>5, <1>6, <1>7, <1>8, <1>9, <1>10, <1>11,
     <1>12, <1>13, <1>14, <1>15, <1>16, <1>17, <1>18, <1>19, <1>20, <1>21,
     <1>22, <1>23, <1>24, <1>25, <1>26, <1>27, <1>28 DEF Next, Collect, Mutate

\* What a scanned thread loads comes from a place that leads to it, and goes
\* on leading to it unless a mutator races.
LEMMA StacksStep ==
    ASSUME HeapInv, RetainedKept, StacksKept, [Next]_vars
    PROVE  StacksKept'
<1>1. CASE collect_begin
  BY <1>1, ConstantsOK DEF collect_begin, races, mutator, HeapInv, TypeOK,
     FlagsOK, OldKept, HeapKept, Kept, Scanning, Unvisited, Unread,
     RetainedKept, StacksKept, Led, Encloses, ScannedThreads, Old, Locations
<1>2. CASE copy_roots
  BY <1>2, ConstantsOK DEF copy_roots, races, mutator, barrier, mode, HeapInv,
     TypeOK, FlagsOK, OldKept, HeapKept, Kept, Scanning, Unvisited, Unread,
     RetainedKept, StacksKept, Led, Encloses, ScannedThreads, Old, Locations
<1>3. CASE lock_threads
  BY <1>3, ConstantsOK DEF lock_threads, races, mutator, barrier, mode,
     HeapInv, TypeOK, FlagsOK, OldKept, HeapKept, Kept, Scanning, Unvisited,
     Unread, RetainedKept, StacksKept, Led, Encloses, ScannedThreads, Old, Locations
<1>4. CASE Drained
  BY <1>4, ConstantsOK DEF Drained, races, mutator, barrier, mode, HeapInv,
     TypeOK, FlagsOK, OldKept, HeapKept, Kept, Scanning, Unvisited, Unread,
     RetainedKept, StacksKept, Led, Encloses, ScannedThreads, Old, Locations
<1>5. CASE resume
  BY <1>5, ConstantsOK DEF resume, races, mutator, barrier, mode, HeapInv,
     TypeOK, FlagsOK, OldKept, HeapKept, Kept, Scanning, Unvisited, Unread,
     RetainedKept, StacksKept, Led, Encloses, ScannedThreads, Old, Locations
<1>6. CASE scan_barrier
  BY <1>6, ConstantsOK DEF scan_barrier, races, mutator, barrier, mode,
     HeapInv, TypeOK, FlagsOK, OldKept, HeapKept, Kept, Scanning, Unvisited,
     Unread, RetainedKept, StacksKept, Led, Encloses, ScannedThreads, Old, Locations
<1>7. CASE reset_all_marks_and_pending
  BY <1>7, ConstantsOK DEF reset_all_marks_and_pending, races, mutator,
     Scanned, HeapInv, TypeOK, FlagsOK, OldKept, HeapKept, Kept, Scanning,
     Unvisited, Unread, RetainedKept, StacksKept, Led, Encloses, ScannedThreads, Old, Locations
<1>8. CASE scavenge_blocks
  BY <1>8, ConstantsOK DEF scavenge_blocks, races, barrier, scan, mode,
     Scanned, HeapInv, TypeOK, FlagsOK, OldKept, HeapKept, Kept, Scanning,
     Unvisited, Unread, RetainedKept, StacksKept, Led, Encloses, ScannedThreads, Old, Locations
<1>9. CASE weak_clear_references
  BY <1>9, ConstantsOK DEF weak_clear_references, races, scan, mode, HeapInv,
     TypeOK, FlagsOK, OldKept, HeapKept, Kept, Scanning, Unvisited, Unread,
     RetainedKept, StacksKept, Led, Encloses, ScannedThreads, Old, Locations
<1>10. CASE collect_end
  BY <1>10, ConstantsOK DEF collect_end, races, mutator, barrier, HeapInv,
     TypeOK, FlagsOK, OldKept, HeapKept, Kept, Scanning, Unvisited, Unread,
     RetainedKept, StacksKept, Led, Encloses, ScannedThreads, Old, Locations
<1>11. ASSUME NEW b \in Blocks,
             scan_retained_and_old_blocks(b)
      PROVE  StacksKept'
  BY <1>11, ConstantsOK DEF scan_retained_and_old_blocks, races, mutator,
     barrier, mode, set_pending, Old, FieldsOf, HeapInv, TypeOK, FlagsOK,
     OldKept, HeapKept, Kept, Scanning, Unvisited, Unread, RetainedKept,
     StacksKept, Led, Encloses, ScannedThreads, Locations
<1>12. ASSUME NEW b \in Blocks,
             free_garbage(b)
      PROVE  StacksKept'
  BY <1>12, ConstantsOK DEF free_garbage, races, barrier, scan, mode,
     FieldsOf, HeapInv, TypeOK, FlagsOK, OldKept, HeapKept, Kept, Scanning,
     Unvisited, Unread, RetainedKept, StacksKept, Led, Encloses, ScannedThreads, Old, Locations
<1>13. ASSUME NEW r \in Roots,
             scan_root_ranges(r)
      PROVE  StacksKept'
  BY <1>13, ConstantsOK DEF scan_root_ranges, races, mutator, barrier, mode,
     set_pending, HeapInv, TypeOK, FlagsOK, OldKept, HeapKept, Kept, Scanning,
     Unvisited, Unread, RetainedKept, StacksKept, Led, Encloses, ScannedThreads, Old, Locations
<1>14. ASSUME NEW t \in Mutators,
             scan_thread_without_suspend(t)
      PROVE  StacksKept'
  BY <1>14, ConstantsOK DEF scan_thread_without_suspend, races, mutator,
     barrier, mode, set_pending, HeapInv, TypeOK, FlagsOK, OldKept, HeapKept,
     Kept, Scanning, Unvisited, Unread, RetainedKept, StacksKept, Led, Encloses, ScannedThreads, Old,
     Locations
<1>15. ASSUME NEW t \in Mutators,
             suspend(t)
      PROVE  StacksKept'
  BY <1>15, ConstantsOK DEF suspend, races, mutator, barrier, mode,
     set_pending, HeapInv, TypeOK, FlagsOK, OldKept, HeapKept, Kept, Scanning,
     Unvisited, Unread, RetainedKept, StacksKept, Led, Encloses, ScannedThreads, Old, Locations
<1>16. ASSUME NEW l \in Locations,
             scan_pending(l)
      PROVE  StacksKept'
  BY <1>16, ConstantsOK DEF scan_pending, races, mutator, barrier, mode,
     set_pending, HeapInv, TypeOK, FlagsOK, OldKept, HeapKept, Kept, Scanning,
     Unvisited, Unread, RetainedKept, StacksKept, Led, Encloses, ScannedThreads, Old, Locations
<1>17. ASSUME NEW t \in Mutators, NEW b \in Blocks,
             block_allocate(t, b)
      PROVE  StacksKept'
  BY <1>17, ConstantsOK DEF block_allocate, races, scan, mode, Barrier, Runs,
     HeapInv, TypeOK, FlagsOK, OldKept, HeapKept, Kept, Scanning, Unvisited,
     Unread, RetainedKept, StacksKept, Led, Encloses, ScannedThreads, Old, Locations
<1>18. ASSUME NEW t \in Mutators, NEW b \in Blocks,
             Drop(t, b)
      PROVE  StacksKept'
  BY <1>18, ConstantsOK DEF Drop, races, barrier, scan, mode, Runs, HeapInv,
     TypeOK, FlagsOK, OldKept, HeapKept, Kept, Scanning, Unvisited, Unread,
     RetainedKept, StacksKept, Led, Encloses, ScannedThreads, Old, Locations
<1>19. ASSUME NEW t \in Mutators, NEW b \in Blocks,
             block_increment_refcount(t, b)
      PROVE  StacksKept'
  BY <1>19, ConstantsOK DEF block_increment_refcount, races, scan, mode,
     Barrier, Enliven, Incremented, Runs, HeapInv, TypeOK, FlagsOK, OldKept,
     HeapKept, Kept, Scanning, Unvisited, Unread, RetainedKept, StacksKept,
     Led, Encloses, ScannedThreads, Old, Locations, Unseen
<1>20. ASSUME NEW t \in Mutators, NEW b \in Blocks,
             block_decrement_refcount(t, b)
      PROVE  StacksKept'
  BY <1>20, ConstantsOK DEF block_decrement_refcount, races, barrier, scan,
     mode, Runs, HeapInv, TypeOK, FlagsOK, OldKept, HeapKept, Kept, Scanning,
     Unvisited, Unread, RetainedKept, StacksKept, Led, Encloses, ScannedThreads, Old, Locations
<1>21. ASSUME NEW t \in Mutators, NEW l \in Locations,
             Load(t, l)
      PROVE  StacksKept'
  BY <1>21, ConstantsOK DEF Load, races, barrier, scan, mode, Holds, Runs,
     HeapInv, TypeOK, FlagsOK, OldKept, HeapKept, Kept, Scanning, Unvisited,
     Unread, RetainedKept, StacksKept, Led, Encloses, ScannedThreads, Old, Locations
<1>22. ASSUME NEW t \in Mutators, NEW l \in Blocks \X Fields, NEW v \in Blocks \cup {Nil},
             set_write_barrier(t, l, v)
      PROVE  StacksKept'
  <2>1. /\ UNCHANGED <<live, stack, marked, phase, todo>>
        /\ queue \subseteq queue' /\ missed \subseteq missed'
        /\ mem' = [mem EXCEPT ![l] = v]
        /\ mem \in [Locations -> Blocks \cup {Nil}] /\ l \in Locations
    BY <1>22 DEF set_write_barrier, Enliven, scan, HeapInv, TypeOK, Locations
  <2> SUFFICES ASSUME NEW u \in ScannedThreads, NEW b \in stack[u] \cap live
               PROVE  b \in Led(marked \cup queue' \cup missed', mem')
    BY <2>1 DEF StacksKept, Led, Encloses, ScannedThreads
  <2>2. CASE b \in missed'
    BY <2>2, LedBase
  <2>3. CASE b \notin Overlooked(stack, queue', mem')
    <3>1. b \in Led(marked \cup queue' \cup missed, mem')
      BY <2>3 DEF Overlooked
    <3> QED BY <3>1, <2>1 DEF Led, Encloses
  <2>4. CASE b \notin Led({mem[l]}, mem)
    <3> SUFFICES ASSUME NEW S \in SUBSET Blocks,
                        Encloses(S, marked \cup queue' \cup missed', mem')
                 PROVE  b \in S
      BY DEF Led
    <3> DEFINE T == S \cup Led({mem[l]}, mem)
    <3>1. T \in SUBSET Blocks
      BY DEF Led, HeapInv, TypeOK
    <3>2. (marked \cup queue \cup missed) \cap live \subseteq T
      BY <2>1 DEF Encloses
    <3>3. ASSUME NEW k \in T \X Fields, mem[k] \in live
          PROVE  mem[k] \in T
      <4>1. CASE k \in Led({mem[l]}, mem) \X Fields
        BY <4>1, <3>3, LedClosed
      <4>2. CASE k = l
        BY <4>2, <3>3, LedBase
      <4>3. CASE k \in S \X Fields /\ k # l
        <5>1. mem'[k] = mem[k]
          BY <4>3, <2>1 DEF Locations
        <5> QED BY <5>1, <4>3, <3>3 DEF Encloses
      <4> QED BY <4>1, <4>2, <4>3
    <3>4. Encloses(T, marked \cup queue \cup missed, mem)
      BY <3>2, <3>3 DEF Encloses
    <3>5. b \in Led(marked \cup queue \cup missed, mem)
      BY DEF StacksKept
    <3> HIDE DEF T
    <3>6. b \in T
      BY <3>1, <3>4, <3>5 DEF Led
    <3> QED BY <3>6, <2>4 DEF T
  <2> QED
    BY <1>22, <2>2, <2>3, <2>4 DEF set_write_barrier
<1>23. ASSUME NEW t \in Mutators, NEW r \in Roots, NEW v \in Blocks \cup {Nil},
             root_write_barrier(t, r, v)
      PROVE  StacksKept'
  BY <1>23, ConstantsOK DEF root_write_barrier, races, scan, mode, Barrier,
     Enliven, Runs, HeapInv, TypeOK, FlagsOK, OldKept, HeapKept, Kept,
     Scanning, Unvisited, Unread, RetainedKept, StacksKept, Led, Encloses, ScannedThreads, Old,
     Locations
<1>24. ASSUME NEW t \in Mutators, NEW w \in WeakRefs, NEW v \in Blocks \cup {Nil},
             assign_weak_reference(t, w, v)
      PROVE  StacksKept'
  BY <1>24, ConstantsOK DEF assign_weak_reference, races, barrier, scan, mode,
     Runs, HeapInv, TypeOK, FlagsOK, OldKept, HeapKept, Kept, Scanning,
     Unvisited, Unread, RetainedKept, StacksKept, Led, Encloses, ScannedThreads, Old, Locations
<1>25. ASSUME NEW t \in Mutators, NEW w \in WeakRefs,
             read_weak_reference(t, w)
      PROVE  StacksKept'
  BY <1>25, ConstantsOK DEF read_weak_reference, races, scan, mode, Barrier,
     Enliven, Runs, HeapInv, TypeOK, FlagsOK, OldKept, HeapKept, Kept,
     Scanning, Unvisited, Unread, RetainedKept, StacksKept, Led, Encloses, ScannedThreads, Old,
     Locations
<1>26. ASSUME NEW t \in Mutators, NEW w \in WeakRefs,
             ConditionClear(t, w)
      PROVE  StacksKept'
  BY <1>26, ConstantsOK DEF ConditionClear, barrier, scan, mode, Runs,
     HeapInv, TypeOK, FlagsOK, OldKept, HeapKept, Kept, Scanning, Unvisited,
     Unread, RetainedKept, StacksKept, Led, Encloses, ScannedThreads, Old, Locations
<1>27. ASSUME NEW t \in Mutators,
             LoadWeak(t)
      PROVE  StacksKept'
  <2> DEFINE v == weak[reading[t]]
  <2>1. /\ UNCHANGED <<live, queue, mem, marked, phase, todo>>
        /\ stack' = [stack EXCEPT ![t] = @ \cup ({v} \ {Nil})]
        /\ missed' = missed \cup ({v} \cap Overlooked(stack', queue, mem))
        /\ stack \in [Mutators -> SUBSET Blocks]
    BY <1>27 DEF LoadWeak, barrier, scan, HeapInv, TypeOK
  <2> HIDE DEF v
  <2> SUFFICES ASSUME NEW u \in ScannedThreads, NEW b \in stack'[u] \cap live
               PROVE  b \in Led(marked \cup queue \cup missed', mem)
    BY <2>1 DEF StacksKept, Led, Encloses, ScannedThreads
  <2>2. CASE b \in missed'
    BY <2>2, LedBase
  <2>3. CASE b \in Led(marked \cup queue \cup missed, mem)
    BY <2>3, <2>1 DEF Led, Encloses
  <2>4. u \in Mutators
    BY DEF ScannedThreads
  <2>5. CASE b \in stack[u]
    BY <2>5, <2>3 DEF StacksKept
  <2>6. CASE b \notin stack[u]
    <3>1. b = v
      BY <2>1, <2>4, <2>6
    <3>2. b \in Overlooked(stack', queue, mem) => b \in missed'
      BY <2>1, <3>1
    <3>3. b \notin Overlooked(stack', queue, mem) => b \in Led(marked \cup queue \cup missed, mem)
      BY DEF Overlooked
    <3> QED BY <3>2, <3>3, <2>2, <2>3
  <2> QED BY <2>5, <2>6
<1>28. CASE UNCHANGED vars
  BY <1>28 DEF vars, races, mutator, barrier, scan, mode, HeapInv, TypeOK,
     FlagsOK, OldKept, HeapKept, Kept, Scanning, Unvisited, Unread,
     RetainedKept, StacksKept, Led, Encloses, ScannedThreads, Old, Locations
<1> QED
  BY <1>1, <1>2, <1>3, <1>4, <1>5, <1>6, <1>7, <1>8, <1>9, <1>10, <1>11,
     <1>12, <1>13, <1>14, <1>15, <1>16, <1>17, <1>18, <1>19, <1>20, <1>21,
     <1>22, <1>23, <1>24, <1>25, <1>26, <1>27, <1>28 DEF Next, Collect, Mutate

\* Nobody finds a way to a block that is on the garbage list.
LEMMA GarbageStep ==
    ASSUME SafeInv, [Next]_vars
    PROVE  GarbageApart'
<1>1. CASE collect_begin
  BY <1>1, ConstantsOK DEF collect_begin, races, mutator, SafeInv, HeapInv,
     TypeOK, FlagsOK, Scanning, GarbageApart, InUse, Locations, Holds
<1>2. CASE copy_roots
  BY <1>2, ConstantsOK DEF copy_roots, races, mutator, barrier, mode, SafeInv,
     HeapInv, TypeOK, FlagsOK, Scanning, GarbageApart, InUse, Locations, Holds
<1>3. CASE lock_threads
  BY <1>3, ConstantsOK DEF lock_threads, races, mutator, barrier, mode,
     SafeInv, HeapInv, TypeOK, FlagsOK, Scanning, GarbageApart, InUse,
     Locations, Holds
<1>4. CASE Drained
  BY <1>4, ConstantsOK DEF Drained, races, mutator, barrier, mode, SafeInv,
     HeapInv, TypeOK, FlagsOK, Scanning, GarbageApart, InUse, Locations, Holds
<1>5. CASE resume
  BY <1>5, ConstantsOK DEF resume, races, mutator, barrier, mode, SafeInv,
     HeapInv, TypeOK, FlagsOK, Scanning, GarbageApart, InUse, Locations, Holds
<1>6. CASE scan_barrier
  BY <1>6, ConstantsOK DEF scan_barrier, races, mutator, barrier, mode,
     SafeInv, HeapInv, TypeOK, FlagsOK, Scanning, GarbageApart, InUse,
     Locations, Holds
<1>7. CASE reset_all_marks_and_pending
  BY <1>7, ConstantsOK DEF reset_all_marks_and_pending, races, mutator,
     Scanned, SafeInv, HeapInv, TypeOK, FlagsOK, Scanning, GarbageApart,
     InUse, Locations, Holds
<1>8. CASE scavenge_blocks
  BY <1>8, ConstantsOK DEF scavenge_blocks, Scanned, barrier, scan, mode, races,
     SafeInv, HeapInv, TypeOK, FlagsOK, Scanning, GarbageApart, InUse, Locations
<1>9. CASE weak_clear_references
  <2>1. /\ locked /\ gray = {} /\ garbage = live \ marked /\ lost \cap live = {}
        /\ missed \subseteq Blocks /\ live \subseteq Blocks /\ marked \subseteq Blocks
    BY <1>9 DEF weak_clear_references, SafeInv, HeapInv, TypeOK, FlagsOK, GarbageApart
  <2> DEFINE K == marked \cup Led(missed, mem)
  <2>2. /\ \A l \in Roots \cup (marked \X Fields) : mem[l] \in live => mem[l] \in marked
        /\ \A t \in Mutators : stack[t] \cap live \subseteq K
        /\ \A b \in live : refcount[b] > 0 => b \in K
    BY <2>1, ScanComplete DEF SafeInv
  <2>3. \A l \in Led(missed, mem) \X Fields : mem[l] \in live => mem[l] \in Led(missed, mem)
    BY LedClosed
  <2>4. Led(missed, mem) \subseteq live
    BY DEF Led
  <2>5. \A b \in live : b \in K => b \in InUse'
    BY <1>9, <2>1 DEF weak_clear_references, InUse
  <2>6. InUse' \cap live \subseteq K /\ lost \subseteq InUse'
    BY <1>9, <2>1 DEF weak_clear_references, InUse
  <2> HIDE DEF K
  <2>7. \A t \in Mutators : stack'[t] \subseteq InUse'
    BY <1>9, <2>2, <2>5, <2>6 DEF weak_clear_references, SafeInv, GarbageApart, InUse
  <2>8. \A l \in Roots \cup (InUse' \X Fields) : mem'[l] \in InUse' \cup {Nil}
    <3> SUFFICES ASSUME NEW l \in Roots \cup (InUse' \X Fields)
                 PROVE  mem[l] \in InUse' \cup {Nil}
      BY <1>9 DEF weak_clear_references
    <3>1. CASE mem[l] \in live
      <4>1. mem[l] \in K
        <5>1. CASE l \in Roots
          BY <5>1, <2>2, <3>1 DEF K
        <5>2. CASE l \in InUse' \X Fields
          <6>1. PICK b \in InUse', f \in Fields : l = <<b, f>>
            BY <5>2
          <6>2. b \in Blocks
            BY <1>9, <6>1, <2>1 DEF weak_clear_references, InUse, SafeInv, HeapInv, TypeOK
          <6>3. b \in live
            BY <6>1, <6>2, <2>1, <3>1, ConstantsOK DEF SafeInv, GarbageApart
          <6>4. b \in K
            BY <6>1, <6>3, <2>6
          <6> QED BY <6>1, <6>4, <2>2, <2>3, <3>1 DEF K
        <5> QED BY <5>1, <5>2
      <4> QED BY <4>1, <2>5, <3>1
    <3>2. CASE mem[l] \notin live
      <4>1. mem[l] \in lost \cup {Nil}
        BY <1>9, <3>2, <2>1 DEF weak_clear_references, SafeInv, HeapInv, TypeOK, Locations, GarbageApart, InUse
      <4> QED BY <4>1, <2>6
    <3> QED BY <3>1, <3>2
  <2>9. \A w \in WeakRefs : weak'[w] \in InUse' \cup {Nil}
    BY <1>9, <2>1, <2>6 DEF weak_clear_references, SafeInv, GarbageApart, InUse
  <2>10. \A b \in live' : refcount'[b] > 0 => b \in InUse'
    BY <1>9, <2>2, <2>5 DEF weak_clear_references
  <2> QED
    BY <1>9, <2>1, <2>7, <2>8, <2>9, <2>10
       DEF weak_clear_references, SafeInv, GarbageApart
<1>10. CASE collect_end
  BY <1>10, ConstantsOK DEF collect_end, races, mutator, barrier, SafeInv,
     HeapInv, TypeOK, FlagsOK, Scanning, GarbageApart, InUse, Locations, Holds
<1>11. ASSUME NEW b \in Blocks,
             scan_retained_and_old_blocks(b)
      PROVE  GarbageApart'
  BY <1>11, ConstantsOK DEF scan_retained_and_old_blocks, races, mutator,
     barrier, mode, set_pending, Old, FieldsOf, SafeInv, HeapInv, TypeOK,
     FlagsOK, Scanning, GarbageApart, InUse, Locations, Holds
<1>12. ASSUME NEW b \in Blocks,
             free_garbage(b)
      PROVE  GarbageApart'
  BY <1>12, ConstantsOK DEF free_garbage, races, barrier, scan, mode,
     FieldsOf, SafeInv, HeapInv, TypeOK, FlagsOK, Scanning, GarbageApart,
     InUse, Locations, Holds
<1>13. ASSUME NEW r \in Roots,
             scan_root_ranges(r)
      PROVE  GarbageApart'
  BY <1>13, ConstantsOK DEF scan_root_ranges, races, mutator, barrier, mode,
     set_pending, SafeInv, HeapInv, TypeOK, FlagsOK, Scanning, GarbageApart,
     InUse, Locations, Holds
<1>14. ASSUME NEW t \in Mutators,
             scan_thread_without_suspend(t)
      PROVE  GarbageApart'
  BY <1>14, ConstantsOK DEF scan_thread_without_suspend, races, mutator,
     barrier, mode, set_pending, SafeInv, HeapInv, TypeOK, FlagsOK, Scanning,
     GarbageApart, InUse, Locations, Holds
<1>15. ASSUME NEW t \in Mutators,
             suspend(t)
      PROVE  GarbageApart'
  BY <1>15, ConstantsOK DEF suspend, races, mutator, barrier, mode,
     set_pending, SafeInv, HeapInv, TypeOK, FlagsOK, Scanning, GarbageApart,
     InUse, Locations, Holds
<1>16. ASSUME NEW l \in Locations,
             scan_pending(l)
      PROVE  GarbageApart'
  BY <1>16, ConstantsOK DEF scan_pending, races, mutator, barrier, mode,
     set_pending, SafeInv, HeapInv, TypeOK, FlagsOK, Scanning, GarbageApart,
     InUse, Locations, Holds
<1>17. ASSUME NEW t \in Mutators, NEW b \in Blocks,
             block_allocate(t, b)
      PROVE  GarbageApart'
  BY <1>17, ConstantsOK DEF block_allocate, races, scan, mode, Barrier, Runs,
     SafeInv, HeapInv, TypeOK, FlagsOK, Scanning, GarbageApart, InUse,
     Locations, Holds
<1>18. ASSUME NEW t \in Mutators, NEW b \in Blocks,
             Drop(t, b)
      PROVE  GarbageApart'
  BY <1>18, ConstantsOK DEF Drop, races, barrier, scan, mode, Runs, SafeInv,
     HeapInv, TypeOK, FlagsOK, Scanning, GarbageApart, InUse, Locations, Holds
<1>19. ASSUME NEW t \in Mutators, NEW b \in Blocks,
             block_increment_refcount(t, b)
      PROVE  GarbageApart'
  BY <1>19, ConstantsOK DEF block_increment_refcount, races, scan, mode,
     Barrier, Enliven, Incremented, Runs, SafeInv, HeapInv, TypeOK, FlagsOK,
     Scanning, GarbageApart, InUse, Locations, Holds
<1>20. ASSUME NEW t \in Mutators, NEW b \in Blocks,
             block_decrement_refcount(t, b)
      PROVE  GarbageApart'
  BY <1>20, ConstantsOK DEF block_decrement_refcount, races, barrier, scan,
     mode, Runs, SafeInv, HeapInv, TypeOK, FlagsOK, Scanning, GarbageApart,
     InUse, Locations, Holds
<1>21. ASSUME NEW t \in Mutators, NEW l \in Locations,
             Load(t, l)
      PROVE  GarbageApart'
  BY <1>21, ConstantsOK DEF Load, races, barrier, scan, mode, Runs, SafeInv,
     HeapInv, TypeOK, FlagsOK, Scanning, GarbageApart, InUse, Locations, Holds
<1>22. ASSUME NEW t \in Mutators, NEW l \in Blocks \X Fields, NEW v \in Blocks \cup {Nil},
             set_write_barrier(t, l, v)
      PROVE  GarbageApart'
  BY <1>22, ConstantsOK DEF set_write_barrier, scan, mode, Barrier, Enliven,
     Runs, Unseen, SafeInv, HeapInv, TypeOK, FlagsOK, Scanning, GarbageApart,
     InUse, Locations, Holds
<1>23. ASSUME NEW t \in Mutators, NEW r \in Roots, NEW v \in Blocks \cup {Nil},
             root_write_barrier(t, r, v)
      PROVE  GarbageApart'
  BY <1>23, ConstantsOK DEF root_write_barrier, races, scan, mode, Barrier,
     Enliven, Runs, SafeInv, HeapInv, TypeOK, FlagsOK, Scanning, GarbageApart,
     InUse, Locations, Holds
<1>24. ASSUME NEW t \in Mutators, NEW w \in WeakRefs, NEW v \in Blocks \cup {Nil},
             assign_weak_reference(t, w, v)
      PROVE  GarbageApart'
  BY <1>24, ConstantsOK DEF assign_weak_reference, races, barrier, scan, mode,
     Runs, SafeInv, HeapInv, TypeOK, FlagsOK, Scanning, GarbageApart, InUse,
     Locations, Holds
<1>25. ASSUME NEW t \in Mutators, NEW w \in WeakRefs,
             read_weak_reference(t, w)
      PROVE  GarbageApart'
  BY <1>25, ConstantsOK DEF read_weak_reference, races, scan, mode, Barrier,
     Enliven, Runs, SafeInv, HeapInv, TypeOK, FlagsOK, Scanning, GarbageApart,
     InUse, Locations, Holds
<1>26. ASSUME NEW t \in Mutators, NEW w \in WeakRefs,
             ConditionClear(t, w)
      PROVE  GarbageApart'
  BY <1>26, ConstantsOK DEF ConditionClear, barrier, scan, mode, Runs,
     SafeInv, HeapInv, TypeOK, FlagsOK, Scanning, GarbageApart, InUse,
     Locations, Holds
<1>27. ASSUME NEW t \in Mutators,
             LoadWeak(t)
      PROVE  GarbageApart'
  BY <1>27, ConstantsOK DEF LoadWeak, barrier, scan, mode, Unseen, SafeInv,
     HeapInv, TypeOK, FlagsOK, Scanning, GarbageApart, InUse, Locations, Holds
<1>28. CASE UNCHANGED vars
  BY <1>28 DEF vars, races, mutator, barrier, scan, mode, SafeInv, HeapInv,
     TypeOK, FlagsOK, Scanning, GarbageApart, InUse, Locations, Holds
<1> QED
  BY <1>1, <1>2, <1>3, <1>4, <1>5, <1>6, <1>7, <1>8, <1>9, <1>10, <1>11,
     <1>12, <1>13, <1>14, <1>15, <1>16, <1>17, <1>18, <1>19, <1>20, <1>21,
     <1>22, <1>23, <1>24, <1>25, <1>26, <1>27, <1>28 DEF Next, Collect, Mutate

-----------------------------------------------------------------------------
(* The theorems.                                                            *)

\* The zone starts empty, with no collection running.
LEMMA InitTyped == Init => TypeOK
<1> SUFFICES ASSUME Init PROVE TypeOK
  OBVIOUS
<1>1. live \subseteq Blocks /\ cards \subseteq Blocks \X Fields /\ queue \subseteq Blocks
  BY DEF Init
<1>2. mem \in [Locations -> Blocks \cup {Nil}]
  BY DEF Init
<1>3. age \in [Blocks -> 0..InitialAge]
  BY ConstantsOK DEF Init
<1>4. refcount \in [Blocks -> 0..MaxRetains]
  BY ConstantsOK DEF Init
<1>5. weak \in [WeakRefs -> Blocks \cup {Nil}]
  BY DEF Init
<1>6. stack \in [Mutators -> SUBSET Blocks] /\ reading \in [Mutators -> WeakRefs \cup {Nil}] /\ missed \subseteq Blocks /\ lost \subseteq Blocks
  BY DEF Init
<1>7. needs \in BOOLEAN /\ locked \in BOOLEAN /\ partial \in BOOLEAN /\ retried \in BOOLEAN
  BY DEF Init
<1>8. phase \in Phases /\ suspended \in Mutators \cup {Nil}
  BY DEF Init, Phases
<1>9. todo \subseteq Blocks \cup Roots \cup Mutators /\ marked \subseteq Blocks /\ gray \subseteq Locations /\ garbage \subseteq Blocks
  BY DEF Init
<1> QED BY <1>1, <1>2, <1>3, <1>4, <1>5, <1>6, <1>7, <1>8, <1>9 DEF TypeOK

\* Every variable of the collector and of the mutators keeps its type.
THEOREM ZoneTyped == Spec => []TypeOK
<1>1. Init => TypeOK
  BY InitTyped
<1>2. TypeOK /\ [Next]_vars => TypeOK'
  BY TypeStep
<1> QED
  BY <1>1, <1>2, PTL DEF Spec

\* Whatever the mutators store, and over what, between the steps of the scan:
\* when it is over no root and no marked block names an unmarked block.
THEOREM HeapScanned == Spec => []HeapMarked
<1>1. Init => HeapInv
  BY InitTyped, ConstantsOK DEF Init, HeapInv, Locations, FlagsOK, CardsOK,
     OldKept, HeapKept, Scanning
<1>2. HeapInv /\ [Next]_vars => HeapInv'
  <2> SUFFICES ASSUME HeapInv, [Next]_vars
               PROVE  HeapInv'
    OBVIOUS
  <2>1. TypeOK' /\ FlagsOK' /\ CardsOK' /\ OldKept'
    BY TypeStep, FlagsStep, CardsStep, OldStep DEF HeapInv
  <2>2. HeapKept'
    BY HeapStep
  <2> QED
    BY <2>1, <2>2 DEF HeapInv
<1>3. HeapInv => HeapMarked
  BY HeapComplete DEF HeapMarked
<1> QED
  BY <1>1, <1>2, <1>3, PTL DEF Spec

\* The whole invariant is kept.
LEMMA SafeAlways ==
    Spec => []SafeInv
<1>1. Init => SafeInv
  BY InitTyped, ConstantsOK DEF Init, SafeInv, HeapInv, Locations, FlagsOK,
     CardsOK, OldKept, HeapKept, RetainedKept, StacksKept, ScannedThreads,
     GarbageApart, InUse, Scanning
<1>2. SafeInv /\ [Next]_vars => SafeInv'
  <2> SUFFICES ASSUME SafeInv, [Next]_vars
               PROVE  SafeInv'
    OBVIOUS
  <2>1. TypeOK' /\ FlagsOK' /\ CardsOK' /\ OldKept'
    BY TypeStep, FlagsStep, CardsStep, OldStep DEF SafeInv, HeapInv
  <2>2. HeapKept'
    BY HeapStep DEF SafeInv
  <2>3. RetainedKept'
    BY RetainedStep DEF SafeInv, HeapInv
  <2>4. StacksKept'
    BY StacksStep DEF SafeInv
  <2>5. GarbageApart'
    BY GarbageStep
  <2> QED
    BY <2>1, <2>2, <2>3, <2>4, <2>5 DEF SafeInv, HeapInv
<1> QED
  BY <1>1, <1>2, PTL DEF Spec

\* Every block that a root, a stack, a retain or a chain of references from them
\* reaches is marked when the scan is over, for blocks of every size, unless
\* this collection was not told of it or of a block that leads to it.
THEOREM ReachableScanned ==
    Spec => []AllReachableMarked
<1>1. SafeInv => AllReachableMarked
  <2> SUFFICES ASSUME SafeInv, Scanned
               PROVE  Reachable \subseteq marked \cup Led(missed, mem)
    BY DEF AllReachableMarked
  <2> DEFINE S == (marked \cup Led(missed, mem)) \cap live
  <2>1. locked /\ gray = {}
    BY DEF SafeInv, HeapInv, FlagsOK, Scanned
  <2>2. /\ \A l \in Roots \cup (marked \X Fields) : mem[l] \in live => mem[l] \in marked
        /\ \A t \in Mutators : stack[t] \cap live \subseteq marked \cup Led(missed, mem)
        /\ \A b \in live : refcount[b] > 0 => b \in marked \cup Led(missed, mem)
    BY <2>1, ScanComplete DEF SafeInv
  <2>3. \A l \in S \X Fields : mem[l] \in live => mem[l] \in S
    BY <2>2, LedClosed
  <2>4. Closed(S) /\ S \in SUBSET live
    BY <2>2, <2>3 DEF Closed
  <2> HIDE DEF S
  <2>5. Reachable \subseteq S
    BY <2>4 DEF Reachable
  <2> QED
    BY <2>5 DEF S
<1> QED
  BY <1>1, SafeAlways, PTL

\* No thread, root, weak location or block in use names a block that was given
\* back to the allocator, unless a collection that was not told of it gave it up.
THEOREM NothingDangles ==
    Spec => []NoDangling
<1>1. SafeInv => NoDangling
  BY DEF SafeInv, GarbageApart, InUse, NoDangling
<1> QED
  BY <1>1, SafeAlways, PTL
=============================================================================
