------------------------------- MODULE Alloc -------------------------------
(***************************************************************************)
(* The memory island allocator (host/runtime/src/alloc.c): a first-fit     *)
(* free list in front of a bump pointer.  Each block starts with a         *)
(* MemoryBlock header; the free list is kept as the sequence of the blocks *)
(* that the next pointers link.  Only the host's one hart calls it, so     *)
(* that a call is one action.                                              *)
(***************************************************************************)
EXTENDS Integers, Sequences

CONSTANTS
    HeapStart,      \* __l2_heap_start
    HeapEnd,        \* __l2_heap_end
    Alignment,      \* ALLOC_ALIGNMENT
    Header,         \* sizeof(MemoryBlock)
    WordSize,       \* 2^32 or 2^64: size_t wraps around at it
    Sizes           \* the sizes that are asked for

ASSUME AllocAssumption ==
    /\ HeapStart \in Nat /\ HeapEnd \in Nat /\ HeapStart <= HeapEnd
    /\ Alignment \in Nat \ {0}
    /\ HeapStart % Alignment = 0
    /\ Header \in Nat \ {0} /\ Header % Alignment = 0
    /\ WordSize \in Nat \ {0} /\ HeapEnd < WordSize
    /\ Sizes \subseteq 0 .. WordSize - 1

(* No size is so large that adding it to an address wraps around.          *)
SizesFit == \A n \in Sizes : HeapEnd + Header + n + Alignment <= WordSize

VARIABLES
    ptr,        \* memory_island_heap_start, the bump pointer
    blocks,     \* the addresses of the blocks carved so far
    bsize,      \* the size field of each block's header
    freelist,   \* memory_island_freelist
    live        \* the blocks callers hold, and the size each asked for

allocVars == <<ptr, blocks, bsize, freelist, live>>

AllocInit ==
    /\ ptr = HeapStart
    /\ blocks = {}
    /\ bsize = [a \in {} |-> 0]
    /\ freelist = <<>>
    /\ live = {}

-----------------------------------------------------------------------------
(* Plausible bugs of the definitions below.                                *)

\* The size is not rounded up.
BugNoAlign(n) == n

\* The header of a free block is taken for room.
BugFits(a, n) == bsize[a] + Header >= n

\* The block is handed out and stays in the list.
BugNoUnlink(s, i) == s

\* The caller's pointer is linked, not the header in front of it.
BugFreePayload(h) ==
    /\ freelist' = <<h.block + Header>> \o freelist
    /\ live' = live \ {h}
    /\ UNCHANGED <<ptr, blocks, bsize>>

-----------------------------------------------------------------------------
\* ALLOC_ALIGN
AllocAlign(n) == (((n + Alignment - 1) % WordSize) \div Alignment) * Alignment

\* total_size
TotalSize(n) == AllocAlign((n + Header) % WordSize)

\* *ptr + total_size
BumpedBy(n) == (ptr + TotalSize(n)) % WordSize

\* curr->size >= size
Fits(a, n) == bsize[a] >= n

\* The list without its i-th block.
Unlink(s, i) == [j \in 1 .. Len(s) - 1 |-> IF j < i THEN s[j] ELSE s[j + 1]]

\* Callers hold block a, having asked for n bytes.
Holding(a, n) == [block |-> a, want |-> n]

-----------------------------------------------------------------------------
\* region_malloc: the first free block that is large enough is unlinked.
Reuse(n) ==
    \E i \in 1..Len(freelist) :
        /\ Fits(freelist[i], n)
        /\ \A j \in 1..i-1 : ~Fits(freelist[j], n)
        /\ freelist' = Unlink(freelist, i)
        /\ live' = live \cup {Holding(freelist[i], n)}
        /\ UNCHANGED <<ptr, blocks, bsize>>

\* region_malloc: none is, and a new block is carved at the bump pointer.
Bump(n) ==
    /\ \A i \in 1..Len(freelist) : ~Fits(freelist[i], n)
    /\ BumpedBy(n) <= HeapEnd
    /\ blocks' = blocks \cup {ptr}
    /\ bsize' = [a \in blocks \cup {ptr} |-> IF a = ptr THEN n ELSE bsize[a]]
    /\ live' = live \cup {Holding(ptr, n)}
    /\ ptr' = BumpedBy(n)
    /\ UNCHANGED freelist

\* region_malloc returns NULL.
MallocFails(n) ==
    /\ \A i \in 1..Len(freelist) : ~Fits(freelist[i], n)
    /\ BumpedBy(n) > HeapEnd
    /\ UNCHANGED allocVars

\* region_free of a pointer that a malloc gave and nobody freed since.
Free(h) ==
    /\ freelist' = <<h.block>> \o freelist
    /\ live' = live \ {h}
    /\ UNCHANGED <<ptr, blocks, bsize>>

AllocNext ==
    \/ \E n \in Sizes : Reuse(n) \/ Bump(n) \/ MallocFails(n)
    \/ \E h \in live : Free(h)

AllocSpec == AllocInit /\ [][AllocNext]_allocVars

-----------------------------------------------------------------------------
AllocTypeOK ==
    /\ ptr \in Nat
    /\ blocks \subseteq Nat
    /\ bsize \in [blocks -> Sizes]
    /\ freelist \in Seq(blocks)
    /\ live \subseteq [block : blocks, want : Sizes]

(* Every block is in exactly one place: the free list has no block twice   *)
(* and none that a caller holds, no block has two holders, none is lost.   *)
BlocksAccounted ==
    /\ \A i, j \in 1..Len(freelist) : freelist[i] = freelist[j] => i = j
    /\ \A h, g \in live : h.block = g.block => h = g
    /\ \A h \in live, i \in 1..Len(freelist) : freelist[i] # h.block
    /\ \A a \in blocks : \/ \E h \in live : h.block = a
                         \/ \E i \in 1..Len(freelist) : freelist[i] = a

(* A caller that stays within the bytes it asked for writes neither to the *)
(* header or the payload of another block, free or not, nor above the bump *)
(* pointer, which stays inside the heap.                                   *)
PayloadsPrivate ==
    /\ ptr <= HeapEnd
    /\ \A h \in live :
        /\ h.block + Header + h.want <= ptr
        /\ \A a \in blocks : a > h.block => h.block + Header + h.want <= a

(* The allocator implements the abstract heap; the pointer a caller gets   *)
(* is the one behind the header.                                           *)
Held == {[addr |-> h.block + Header, size |-> h.want] : h \in live}
H == INSTANCE Heap WITH held <- Held
ImplementsHeap == H!Spec
=============================================================================
