-------------------------------- MODULE Heap --------------------------------
(***************************************************************************)
(* What memory_island_malloc and memory_island_free promise                *)
(* (host/runtime/inc/alloc.h): an allocation gives an aligned range of     *)
(* bytes of the heap that no other allocation holds, or it gives nothing;  *)
(* a range is the caller's until it frees it.                              *)
(***************************************************************************)
EXTENDS Integers

CONSTANTS
    HeapStart,      \* __l2_heap_start
    HeapEnd,        \* __l2_heap_end
    Alignment,      \* ALLOC_ALIGNMENT
    Sizes           \* the sizes that are asked for

VARIABLE held       \* the ranges that callers hold, as [addr, size]

Range(r) == r.addr .. r.addr + r.size - 1

Init == held = {}

Allocate(r) ==
    /\ r.addr % Alignment = 0
    /\ r.addr + r.size <= HeapEnd
    /\ \A q \in held : Range(q) \cap Range(r) = {} /\ q.addr # r.addr
    /\ held' = held \cup {r}

Release(r) ==
    /\ r \in held
    /\ held' = held \ {r}

Next ==
    \/ \E a \in HeapStart .. HeapEnd, n \in Sizes : Allocate([addr |-> a, size |-> n])
    \/ \E r \in held : Release(r)

Spec == Init /\ [][Next]_held
=============================================================================
