--------------------------- MODULE ClusterStartup ---------------------------
(***************************************************************************)
(* What a core of a Snitch cluster does before it runs application code,   *)
(* and where in the cluster's L1 it all ends up: the stacks that the host  *)
(* hands out (generate_snitchCluster_SPs), the stack and thread pointers   *)
(* that the trampoline derives from them, and snrt_init, in which every    *)
(* core fills its thread-local storage while the data-mover core loads the *)
(* cluster's data with the DMA engine, until all meet at the barrier.      *)
(*                                                                         *)
(* Addresses are the real ones.  What L1 contains is known per area: an    *)
(* area is the memory that some code uses (the linker script, the alias    *)
(* window or a pointer tell it where), and a store is the interval that    *)
(* the code above computes.  A store that covers an area fills it; one     *)
(* that touches another area on its way spoils that one.                   *)
(***************************************************************************)
EXTENDS Integers

CONSTANTS
    NumCores,       \* _chimera_numCores, the clusters are numbered from 0
    ClusterBase,    \* _chimera_clusterBase
    L1Alias,        \* __base_l1_alias
    L1Size,         \* LENGTH(l1_c<n>)
    ClsSize,        \* sizeof(cls_t)
    MinChunk,       \* MIN_CHUNK_SIZE
    Links,          \* the sizes of the sections of the binaries
    Stacks,         \* the stack arguments: distance of sp to the end of L1, sizes
    MaxOffloads     \* bound on the number of offloads

Clusters == DOMAIN NumCores
Cores == UNION {{k} \X (0 .. NumCores[k] - 1) : k \in Clusters}
Indices == UNION {0 .. NumCores[k] - 1 : k \in Clusters}
CoresOf(k) == {h \in Cores : h[1] = k}

\* The sections whose ends the linker script aligns, ALIGN(32).
Sections == {"tdata", "tbss", "cdata", "cbss", "l1"}
Aligned32 == {n \in 0..L1Size : n % 32 = 0}

ASSUME StartupAssumption ==
    /\ NumCores \in [Clusters -> Nat \ {0}]
    /\ ClusterBase \in [Clusters -> Nat] /\ L1Alias \in Nat /\ L1Size \in Nat
    /\ \A j, k \in Clusters : j # k =>
          ClusterBase[j] + L1Size <= ClusterBase[k] \/ ClusterBase[k] + L1Size <= ClusterBase[j]
    /\ {ClsSize, MinChunk} \subseteq Nat \ {0}
    /\ Links \subseteq [Sections -> Aligned32]
    /\ Stacks \subseteq [below : 0..L1Size, size : [Indices -> Nat]]
    /\ MaxOffloads \in Nat

VARIABLES
    link,       \* the binary
    pc,         \* where each core is
    size,       \* the stack sizes of the cluster's offload, by core
    stack,      \* shared_data.trampoline_stack of each core
    end,        \* what generate_snitchCluster_SPs returned
    sp, tp,     \* the cores' stack and thread pointers
    dma,        \* the transfers under way in each cluster
    alloc,      \* the L1 allocator of each cluster, and its data mover's _cls_ptr
    mem,        \* what the areas contain
    offloads    \* number of offloads so far

hostVars == <<size, stack, end, offloads>>
vars == <<link, pc, sp, tp, dma, alloc, mem, hostVars>>

-----------------------------------------------------------------------------
(* The memory of the clusters.                                             *)

ALIGN_UP(addr, n) == ((addr + n - 1) \div n) * n

\* The linker script: cdata and cbss in the alias window and, at the start
\* of every L1, room for them before the cluster's own data and the heap.
cdata_start == L1Alias
cbss_start == cdata_start + link["cdata"]
L1Start(k) == ClusterBase[k] + link["cdata"] + link["cbss"]
HeapStart(k) == L1Start(k) + link["l1"]

\* External: what a core of cluster k reaches through the alias window.
Aliased(k, addr) == ClusterBase[k] + (addr - L1Alias)

\* An area is <<name, cluster, core>>; core is 0 when the cluster shares it.
SharedAreas(k) == {"cdata", "cbss", "l1", "cls", "mutex"} \X {k} \X {0}
OwnAreas(h) == {"tls", "stack"} \X {h[1]} \X {h[2]}
AreasOf(k) == SharedAreas(k) \cup UNION {OwnAreas(h) : h \in CoresOf(k)}
Areas == UNION {AreasOf(k) : k \in Clusters}

\* The areas as the application uses them, from an address to another.
Extent(a) ==
    LET k == a[2]
        h == <<a[2], a[3]>>
        Sized(from, len) == <<from, from + len>>
    IN CASE a[1] = "cdata" -> Sized(Aliased(k, cdata_start), link["cdata"])
         [] a[1] = "cbss"  -> Sized(Aliased(k, cbss_start), link["cbss"])
         [] a[1] = "l1"    -> Sized(L1Start(k), link["l1"])
         [] a[1] = "cls"   -> Sized(HeapStart(k), ClsSize)
         [] a[1] = "mutex" -> Sized(alloc[k].base, 4)
         [] a[1] = "tls"   -> Sized(tp[h], link["tdata"] + link["tbss"])
         [] a[1] = "stack" -> <<stack[h] - size[k][h[2]], sp[h]>>

Overlap(e, f) ==
    /\ e[1] < e[2] /\ f[1] < f[2]
    /\ e[1] < f[2] /\ f[1] < e[2]

\* Memory m after a store to the interval e that is meant for area a.
Store(m, a, e) ==
    [b \in Areas |-> CASE ~Overlap(Extent(b), e) -> m[b]
                       [] Overlap(Extent(b), e) /\ b = a /\ Extent(b) = e -> "init"
                       [] OTHER -> "spoiled"]

Init ==
    /\ link \in Links
    /\ pc = [h \in Cores |-> "parked"]
    /\ size = [k \in Clusters |-> [i \in Indices |-> 0]]
    /\ stack = [h \in Cores |-> 0]
    /\ end = [k \in Clusters |-> 0]
    /\ sp = [h \in Cores |-> 0]
    /\ tp = [h \in Cores |-> 0]
    /\ dma = [k \in Clusters |-> {}]
    /\ alloc = [k \in Clusters |-> [cls |-> 0, base |-> 0, end |-> 0, next |-> 0]]
    /\ mem = [a \in Areas |-> "left"]
    /\ offloads = 0

-----------------------------------------------------------------------------
(* The host.                                                               *)

BugAlign16(x) == x      \* a plausible bug: the pointers are not aligned
Align16(x) == x - (x % 16)

\* Aligned stack pointers from sp downwards, for sizes by core.
generate_snitchCluster_SPs(k, sp0, sizes) ==
    LET next[i \in 0 .. NumCores[k]] ==
            IF i = 0 THEN sp0 ELSE Align16(next[i - 1]) - sizes[i - 1]
    IN [ptr |-> [i \in 0 .. NumCores[k] - 1 |-> Align16(next[i])],
        end |-> next[NumCores[k]]]

generate_snitchCluster_SPs_uniform(k, sp0, n) ==
    generate_snitchCluster_SPs(k, sp0, [i \in Indices |-> n])

\* The cores of an idle cluster are started on the stacks sps.  What earlier
\* work left in L1 is still there.
Start(k, sizes, sps) ==
    /\ offloads < MaxOffloads
    /\ \A h \in CoresOf(k) : pc[h] = "parked"
    /\ size' = [size EXCEPT ![k] = sizes]
    /\ stack' = [h \in Cores |-> IF h[1] = k THEN sps.ptr[h[2]] ELSE stack[h]]
    /\ end' = [end EXCEPT ![k] = sps.end]
    /\ pc' = [h \in Cores |-> IF h[1] = k THEN "trampoline" ELSE pc[h]]
    /\ mem' = [a \in Areas |-> IF a[2] = k THEN "left" ELSE mem[a]]
    /\ offloads' = offloads + 1
    /\ UNCHANGED <<link, sp, tp, dma, alloc>>

\* The host offloads a function that calls snrt_init, with either kind of stacks.
Offload(k, s) ==
    LET top == ClusterBase[k] + L1Size - s.below IN
    \/ Start(k, s.size, generate_snitchCluster_SPs(k, top, s.size))
    \/ Start(k, [i \in Indices |-> s.size[0]],
             generate_snitchCluster_SPs_uniform(k, top, s.size[0]))

-----------------------------------------------------------------------------
(* The cores.                                                              *)

CoreGoto(h, from, to) ==
    /\ pc[h] = from
    /\ pc' = [pc EXCEPT ![h] = to]

\* andi sp, sp, -0xF: clears bits 1, 2 and 3.
AndMinus0xF(x) == x - (x % 16) + (x % 2)

\* The loads and subtractions; the loads' interleaving is Offload's matter.
trampoline(h) ==
    /\ CoreGoto(h, "trampoline", "tls")
    /\ tp' = [tp EXCEPT ![h] = stack[h] - link["tdata"] - link["tbss"]]
    /\ sp' = [sp EXCEPT ![h] = AndMinus0xF(tp'[h])]
    /\ UNCHANGED <<link, dma, alloc, mem, hostVars>>

\* External: the last core of a cluster moves its data.
snrt_is_dm_core(h) == h[2] = NumCores[h[1]] - 1

(* The compiler's code pushes frames onto the stack, as many as it was     *)
(* made for; snrt_init copies tdata to tp, clears tbss after it and goes   *)
(* on at next.                                                             *)
InitTls(h, next) ==
    LET frames == <<"stack", h[1], h[2]>>
        tls == <<"tls", h[1], h[2]>>
        tbss_off == link["tdata"]
    IN /\ CoreGoto(h, "tls", next)
       /\ mem' = Store(Store(mem, frames, Extent(frames)), tls,
                       <<tp[h], tp[h] + tbss_off + link["tbss"]>>)
       /\ UNCHANGED <<link, sp, tp, dma, alloc, hostVars>>

\* A plausible bug: the barrier is inside of the if.
BugThreadInit(h) == InitTls(h, IF snrt_is_dm_core(h) THEN "load" ELSE "main")

ThreadInit(h) == InitTls(h, IF snrt_is_dm_core(h) THEN "load" ELSE "barrier")

\* A plausible bug: the address is that of the first cluster.
BugLocal(k, addr) == addr - L1Alias + ClusterBase[0]

\* __cdata_local_start and __cbss_local_start
Local(k, addr) == addr - L1Alias + ClusterBase[k]

(* snrt_dma_start_1d for l1, cdata and cbss, for each unless it is empty.  *)
(* The transfers are asynchronous, so the calls are one step.              *)
LoadCluster(h) ==
    LET k == h[1]
        to == [l1    |-> L1Start(k),
               cdata |-> Local(k, cdata_start),
               cbss  |-> Local(k, cbss_start)]
    IN /\ CoreGoto(h, "load", "cls")
       /\ dma' = [dma EXCEPT ![k] =
                     {[name |-> n, to |-> to[n]] : n \in {n \in DOMAIN to : link[n] > 0}}]
       /\ UNCHANGED <<link, sp, tp, alloc, mem, hostVars>>

\* Cluster-local storage, with the L1 allocator in it, at the heap's start.
\* The data mover alone sets _cls_ptr, and reaches the allocator through it.
InitCls(h) ==
    LET k == h[1]
        base == ALIGN_UP(HeapStart(k) + ClsSize, MinChunk)
    IN /\ CoreGoto(h, "cls", "wait")
       /\ alloc' = [alloc EXCEPT ![k] =
                       [cls |-> HeapStart(k), base |-> base,
                        end |-> ClusterBase[k] + L1Size, next |-> base]]
       /\ mem' = Store(mem, <<"cls", k, 0>>, <<HeapStart(k), HeapStart(k) + ClsSize>>)
       /\ UNCHANGED <<link, sp, tp, dma, hostVars>>

\* snrt_dma_wait_all
WaitAll(h) ==
    /\ dma[h[1]] = {}
    /\ CoreGoto(h, "wait", "printf")
    /\ UNCHANGED <<link, sp, tp, dma, alloc, mem, hostVars>>

\* A word of the heap is taken for the mutex and cleared.
snrt_printf_init(h) ==
    /\ CoreGoto(h, "printf", "barrier")
    /\ mem' = Store(mem, <<"mutex", h[1], 0>>, <<alloc[h[1]].next, alloc[h[1]].next + 4>>)
    /\ alloc' = [alloc EXCEPT ![h[1]].next = @ + ALIGN_UP(4, MinChunk)]
    /\ UNCHANGED <<link, sp, tp, dma, hostVars>>

\* The application returns; the core's registers are gone.
Return(h) ==
    /\ CoreGoto(h, "main", "parked")
    /\ sp' = [sp EXCEPT ![h] = 0]
    /\ tp' = [tp EXCEPT ![h] = 0]
    /\ UNCHANGED <<link, dma, alloc, mem, hostVars>>

\* External: the DMA engine completes a transfer; the code relies on no order.
CompleteDma(k) ==
    \E t \in dma[k] :
        /\ dma' = [dma EXCEPT ![k] = @ \ {t}]
        /\ mem' = Store(mem, <<t.name, k, 0>>, <<t.to, t.to + link[t.name]>>)
        /\ UNCHANGED <<link, pc, sp, tp, alloc, hostVars>>

\* External: snrt_cluster_hw_barrier releases the cores when all have arrived.
Barrier(k) ==
    /\ \A h \in CoresOf(k) : pc[h] = "barrier"
    /\ pc' = [h \in Cores |-> IF h[1] = k THEN "main" ELSE pc[h]]
    /\ UNCHANGED <<link, sp, tp, dma, alloc, mem, hostVars>>

-----------------------------------------------------------------------------
CoreStep(h) ==
    \/ trampoline(h)
    \/ ThreadInit(h)
    \/ LoadCluster(h)
    \/ InitCls(h)
    \/ WaitAll(h)
    \/ snrt_printf_init(h)

ClusterStep(k) == CompleteDma(k) \/ Barrier(k)

Next ==
    \/ \E k \in Clusters, s \in Stacks : Offload(k, s)
    \/ \E h \in Cores : CoreStep(h) \/ Return(h)
    \/ \E k \in Clusters : ClusterStep(k)

\* Cores and the DMA engine keep running; the application may stay in main.
Fairness ==
    /\ \A h \in Cores : WF_vars(CoreStep(h))
    /\ \A k \in Clusters : WF_vars(ClusterStep(k))

Spec == Init /\ [][Next]_vars /\ Fairness

-----------------------------------------------------------------------------
(* The stacks of cluster k leave the loaded data, the cluster-local        *)
(* storage and the mutex alone and have room for the thread-local storage. *)
(* Nothing in the code checks it: the host applications ignore what        *)
(* generate_snitchCluster_SPs returns.                                     *)
Fits(k) ==
    /\ end[k] >= ALIGN_UP(HeapStart(k) + ClsSize, MinChunk) + 4
    /\ \A h \in CoresOf(k) : size[k][h[2]] >= link["tdata"] + link["tbss"]

(* No application code runs in a cluster before everything it uses is      *)
(* there, in the cluster's own L1: its core's stack and thread-local       *)
(* storage, the cluster's data, cleared cluster-local variables, the       *)
(* allocator and the mutex; on a second offload too, whichever core and    *)
(* DMA transfer comes last.  Nothing that another core, the DMA engine or  *)
(* another cluster does touches it after.  The data mover, the only core   *)
(* that sets _cls_ptr, has it point to its own cluster's local storage.    *)
ReadyInMain ==
    \A h \in Cores : pc[h] = "main" /\ Fits(h[1]) =>
        /\ \A a \in OwnAreas(h) \cup SharedAreas(h[1]) :
              LET e == Extent(a) IN e[1] < e[2] =>
                  /\ mem[a] = "init"
                  /\ ClusterBase[h[1]] <= e[1] /\ e[2] <= ClusterBase[h[1]] + L1Size
        /\ snrt_is_dm_core(h) => alloc[h[1]].cls = Extent(<<"cls", h[1], 0>>)[1]

(* Compiled code runs on stacks of 16-byte alignment, as the ABI asks for, *)
(* whatever address and sizes the host was given: the mask in the          *)
(* trampoline, which keeps bit 0, is not needed for it.                    *)
StacksAligned == \A h \in Cores : sp[h] % 16 = 0

(* Every core that is started gets to the application.                     *)
CoresReachMain == \A h \in Cores : pc[h] = "trampoline" ~> pc[h] = "main"
=============================================================================
