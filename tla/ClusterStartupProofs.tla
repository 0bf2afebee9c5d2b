------------------------ MODULE ClusterStartupProofs ------------------------
(***************************************************************************)
(* Proofs about ClusterStartup, for any number of clusters and of cores in *)
(* each of them, any binaries, stacks and number of offloads.              *)
(***************************************************************************)
EXTENDS ClusterStartup, WellFoundedInduction, TLAPS

-----------------------------------------------------------------------------
(* The stack pointers.  Induction over the cores is done by looking at the *)
(* smallest counterexample.                                                *)

\* Every non-empty set of natural numbers has a least element.
LEMMA LeastElement ==
    ASSUME NEW S \in SUBSET Nat, S # {}
    PROVE  \E n \in S : \A m \in S : n <= m
<1> DEFINE R == {p \in Nat \X Nat : p[1] < p[2]}
<1>1. IsWellFoundedOn(R, Nat)
  BY NatLessThanWellFounded, Zenon DEF OpToRel
<1>2. PICK n \in S : \A m \in S : <<m, n>> \notin R
  <2> HIDE DEF R
  <2> QED BY <1>1, WFMin, Zenon
<1>3. ASSUME NEW m \in S PROVE ~(m < n)
  <2>1. m \in Nat /\ n \in Nat /\ <<m, n>> \in Nat \X Nat /\ <<m, n>>[1] = m /\ <<m, n>>[2] = n
    OBVIOUS
  <2> QED BY <1>2, <2>1, Zenon
<1> QED BY <1>3, SMT

\* f goes down from top as the loop of generate_snitchCluster_SPs does, n times.
Descends(f, top, sizes, n) ==
    \A i \in 0 .. n : f[i] = IF i = 0 THEN top ELSE Align16(f[i - 1]) - sizes[i - 1]

LEMMA Align16Type ==
    ASSUME NEW x \in Int
    PROVE  Align16(x) \in Int /\ Align16(x) % 16 = 0 /\ Align16(x) <= x
BY SMT DEF Align16

LEMMA DescentExists ==
    ASSUME NEW top \in Int, NEW sizes \in [Indices -> Nat], NEW N \in Nat,
           0 .. N - 1 \subseteq Indices
    PROVE  \E f \in [0 .. N -> Int] : Descends(f, top, sizes, N)
<1> DEFINE Bad == {n \in 0 .. N : ~ \E f \in [0..n -> Int] : Descends(f, top, sizes, n)}
<1>1. SUFFICES Bad = {}
  <2>1. N \in 0 .. N
    OBVIOUS
  <2> QED BY <1>1, <2>1, Zenon
<1>2. SUFFICES ASSUME Bad # {} PROVE FALSE
  OBVIOUS
<1>3. PICK n \in Bad : \A m \in Bad : n <= m
  <2>1. Bad \in SUBSET Nat
    OBVIOUS
  <2> HIDE DEF Bad
  <2> QED BY <2>1, <1>2, LeastElement
<1>4. n \in 0 .. N /\ n \in Nat /\ n <= N
  OBVIOUS
<1>5. CASE n = 0
  <2> DEFINE f == [i \in 0..0 |-> top]
  <2>1. f \in [0..0 -> Int] /\ Descends(f, top, sizes, 0)
    BY SMT DEF Descends
  <2> QED BY <1>5, <2>1, Zenon
<1>6. CASE n # 0
  <2>1. n - 1 \in 0 .. N /\ n - 1 \in Nat /\ ~(n <= n - 1) /\ n - 1 \in Indices
    BY <1>4, <1>6, SMT
  <2>2. PICK g \in [0 .. n - 1 -> Int] : Descends(g, top, sizes, n - 1)
    BY <1>3, <2>1, Zenon
  <2> DEFINE f == [i \in 0 .. n |-> IF i = n THEN Align16(g[n - 1]) - sizes[n - 1] ELSE g[i]]
  <2>3. f \in [0 .. n -> Int]
    <3>1. g[n - 1] \in Int /\ sizes[n - 1] \in Nat
      BY <1>4, <1>6, <2>1
    <3>2. Align16(g[n - 1]) \in Int
      BY <3>1, Align16Type
    <3>3. \A i \in 0 .. n : i # n => i \in 0 .. n - 1
      BY <1>4
    <3> QED BY <3>1, <3>2, <3>3
  <2>4. Descends(f, top, sizes, n)
    <3>1. \A i \in 0 .. n - 1 : f[i] = g[i]
      BY <1>4, <1>6
    <3>2. f[n] = Align16(f[n - 1]) - sizes[n - 1]
      BY <1>4, <1>6, <3>1
    <3>3. ASSUME NEW i \in 0 .. n - 1
          PROVE  f[i] = IF i = 0 THEN top ELSE Align16(f[i - 1]) - sizes[i - 1]
      <4>1. i = 0 \/ i - 1 \in 0 .. n - 1
        BY <1>4, <1>6
      <4>2. g[i] = IF i = 0 THEN top ELSE Align16(g[i - 1]) - sizes[i - 1]
        BY <2>2 DEF Descends
      <4> HIDE DEF f
      <4> QED BY <3>1, <4>1, <4>2
    <3> HIDE DEF f
    <3> QED BY <1>4, <1>6, <3>2, <3>3 DEF Descends
  <2> QED BY <2>3, <2>4, Zenon
<1> QED BY <1>4, <1>5, <1>6

LEMMA DescentUnique ==
    ASSUME NEW top, NEW sizes, NEW N \in Nat, NEW f, NEW g,
           Descends(f, top, sizes, N), Descends(g, top, sizes, N)
    PROVE  \A i \in 0 .. N : f[i] = g[i]
<1> DEFINE Bad == {i \in 0 .. N : f[i] # g[i]}
<1>1. SUFFICES ASSUME Bad # {} PROVE FALSE
  OBVIOUS
<1>2. PICK n \in Bad : \A m \in Bad : n <= m
  <2>1. Bad \in SUBSET Nat
    OBVIOUS
  <2> HIDE DEF Bad
  <2> QED BY <2>1, <1>1, LeastElement
<1>3. n = 0 \/ f[n - 1] = g[n - 1]
  BY <1>2
<1> QED BY <1>3 DEF Descends

\* Each stack lies below the ones before it.
LEMMA DescentBounds ==
    ASSUME NEW top \in Int, NEW sizes \in [Indices -> Nat], NEW N \in Nat,
           0 .. N - 1 \subseteq Indices,
           NEW f \in [0 .. N -> Int], Descends(f, top, sizes, N)
    PROVE  /\ \A i \in 0 .. N : f[i] <= top
           /\ \A i \in 0 .. N - 1, j \in 0 .. N : i < j => f[j] <= Align16(f[i]) - sizes[i]
<1>0. ASSUME NEW i \in 0 .. N - 1
      PROVE  /\ f[i] \in Int /\ f[i + 1] \in Int /\ sizes[i] \in Nat /\ Align16(f[i]) \in Int
             /\ Align16(f[i]) <= f[i] /\ f[i + 1] = Align16(f[i]) - sizes[i] /\ f[i + 1] <= f[i]
  <2>1. i + 1 \in 0 .. N /\ i \in 0 .. N /\ i + 1 # 0 /\ (i + 1) - 1 = i
    OBVIOUS
  <2>2. f[i] \in Int /\ f[i + 1] \in Int /\ sizes[i] \in Nat
    BY <2>1
  <2>3. Align16(f[i]) \in Int /\ Align16(f[i]) <= f[i]
    BY <2>2, Align16Type
  <2>4. f[i + 1] = Align16(f[i]) - sizes[i]
    BY <2>1 DEF Descends
  <2> QED BY <2>2, <2>3, <2>4, SMT
<1>1. \A i \in 0 .. N : f[i] <= top
  <2> DEFINE Bad == {n \in 0 .. N : ~(f[n] <= top)}
  <2>1. SUFFICES ASSUME Bad # {} PROVE FALSE
    OBVIOUS
  <2>2. PICK n \in Bad : \A m \in Bad : n <= m
    <3>1. Bad \in SUBSET Nat
      OBVIOUS
    <3> HIDE DEF Bad
    <3> QED BY <2>1, <3>1, LeastElement
  <2>3. f[0] = top
    BY SMT DEF Descends
  <2>4. n # 0 /\ n - 1 \in 0 .. N - 1 /\ f[n - 1] <= top
    BY <2>2, <2>3
  <2>5. n - 1 + 1 = n
    OBVIOUS
  <2>6. f[n] \in Int /\ f[n - 1] \in Int /\ f[n] <= f[n - 1]
    BY <1>0, <2>4, <2>5
  <2> QED BY <2>4, <2>6
<1>2. ASSUME NEW i \in 0 .. N - 1 PROVE \A j \in 0 .. N : i < j => f[j] <= Align16(f[i]) - sizes[i]
  <2> DEFINE Bad == {n \in 0 .. N : i < n /\ ~(f[n] <= Align16(f[i]) - sizes[i])}
  <2>1. SUFFICES ASSUME Bad # {} PROVE FALSE
    OBVIOUS
  <2>2. PICK n \in Bad : \A m \in Bad : n <= m
    <3>1. Bad \in SUBSET Nat
      OBVIOUS
    <3> HIDE DEF Bad
    <3> QED BY <2>1, <3>1, LeastElement
  <2>3. n # i + 1
    BY <1>0
  <2>4. n - 1 \in 0 .. N - 1 /\ i < n - 1 /\ n - 1 + 1 = n
    BY <2>3
  <2>5. f[n - 1] <= Align16(f[i]) - sizes[i]
    BY <2>2, <2>4
  <2>6. f[n] \in Int /\ f[n - 1] \in Int /\ f[n] <= f[n - 1]
    BY <1>0, <2>4
  <2>7. Align16(f[i]) \in Int /\ sizes[i] \in Nat
    BY <1>0
  <2> QED BY <2>5, <2>6, <2>7
<1> QED BY <1>1, <1>2

\* What the host gets: aligned pointers below top, each with its size free
\* above all that follow it.
SPsOf(sps, k, top, sizes) ==
    /\ sps.end \in Int
    /\ \A i \in 0 .. NumCores[k] - 1 :
          /\ sps.ptr[i] \in Int /\ sps.ptr[i] % 16 = 0 /\ sps.ptr[i] <= top
          /\ sps.end <= sps.ptr[i] - sizes[i]
          /\ \A j \in 0 .. NumCores[k] - 1 : i < j => sps.ptr[j] <= sps.ptr[i] - sizes[i]

LEMMA StackPointers ==
    ASSUME NEW k \in Clusters, NEW top \in Int, NEW sizes \in [Indices -> Nat]
    PROVE  SPsOf(generate_snitchCluster_SPs(k, top, sizes), k, top, sizes)
<1> DEFINE N == NumCores[k]
<1>0. N \in Nat /\ N # 0 /\ 0 .. N - 1 \subseteq Indices
  BY StartupAssumption DEF Indices
<1> DEFINE D(f) == [i \in 0 .. NumCores[k] |->
                       IF i = 0 THEN top ELSE Align16(f[i - 1]) - sizes[i - 1]]
           next == CHOOSE f : f = D(f)
<1>1. PICK g \in [0 .. N -> Int] : Descends(g, top, sizes, N)
  <2> HIDE DEF N
  <2> QED BY <1>0, DescentExists
<1>2. g = D(g)
  BY <1>0, <1>1 DEF Descends
<1>3. next = D(next)
  <2> HIDE DEF D
  <2> QED BY <1>2, Zenon
<1>4. generate_snitchCluster_SPs(k, top, sizes) =
        [ptr |-> [i \in 0 .. NumCores[k] - 1 |-> Align16(next[i])], end |-> next[NumCores[k]]]
  BY DEF generate_snitchCluster_SPs
<1>5. next = [i \in 0 .. NumCores[k] |-> next[i]] /\ Descends(next, top, sizes, N)
  <2> HIDE DEF next
  <2> QED BY <1>3 DEF Descends
<1>6. \A i \in 0 .. N : next[i] = g[i]
  <2>1. N \in Nat /\ Descends(next, top, sizes, N) /\ Descends(g, top, sizes, N)
    BY <1>0, <1>1, <1>5
  <2> HIDE DEF next, N
  <2> QED BY <2>1, DescentUnique
<1>7. next \in [0 .. N -> Int]
  <2> HIDE DEF next
  <2> QED BY <1>1, <1>5, <1>6
<1>8. /\ \A i \in 0 .. N : next[i] <= top
      /\ \A i \in 0 .. N - 1, j \in 0 .. N : i < j => next[j] <= Align16(next[i]) - sizes[i]
  <2> HIDE DEF next, N
  <2> QED BY <1>0, <1>5, <1>7, DescentBounds
<1> HIDE DEF next
<1>9. ASSUME NEW i \in 0 .. NumCores[k] - 1, NEW ptr, ptr = Align16(next[i])
      PROVE  /\ ptr \in Int /\ ptr % 16 = 0 /\ ptr <= top
             /\ next[N] <= ptr - sizes[i]
             /\ \A j \in 0 .. NumCores[k] - 1 : i < j => Align16(next[j]) <= ptr - sizes[i]
  <2>1. i \in 0 .. N /\ N \in 0 .. N /\ i < N /\ next[i] \in Int /\ next[N] \in Int /\ sizes[i] \in Nat
    BY <1>0, <1>7
  <2>2. ptr \in Int /\ ptr % 16 = 0 /\ ptr <= next[i]
    BY <1>9, <2>1, Align16Type
  <2>3. ptr <= top
    BY <1>8, <2>1, <2>2
  <2>4. next[N] <= ptr - sizes[i]
    BY <1>8, <1>9, <2>1
  <2>5. ASSUME NEW j \in 0 .. NumCores[k] - 1, i < j PROVE Align16(next[j]) <= ptr - sizes[i]
    <3>1. j \in 0 .. N /\ next[j] \in Int
      BY <1>0, <1>7
    <3>2. Align16(next[j]) \in Int /\ Align16(next[j]) <= next[j]
      BY <3>1, Align16Type
    <3>3. next[j] <= ptr - sizes[i]
      BY <1>8, <1>9, <2>5, <3>1
    <3>4. ptr - sizes[i] \in Int
      BY <2>1, <2>2
    <3>5. \A x, y, z \in Int : x <= y /\ y <= z => x <= z
      OBVIOUS
    <3> QED BY <3>1, <3>2, <3>3, <3>4, <3>5, Zenon
  <2> QED BY <2>2, <2>3, <2>4, <2>5
<1>10. next[N] \in Int
  BY <1>0, <1>7
<1> DEFINE sps == generate_snitchCluster_SPs(k, top, sizes)
           ptr == [i \in 0 .. NumCores[k] - 1 |-> Align16(next[i])]
<1>a. sps = [ptr |-> ptr, end |-> next[N]]
  BY <1>4
<1>b. \A i \in 0 .. NumCores[k] - 1 : ptr[i] = Align16(next[i])
  OBVIOUS
<1> HIDE DEF sps, ptr
<1>c. sps.end = next[N] /\ sps.ptr = ptr
  BY <1>a
<1>11. sps.end = next[N] /\ \A i \in 0 .. NumCores[k] - 1 : sps.ptr[i] = Align16(next[i])
  BY <1>b, <1>c
<1>12. SPsOf(sps, k, top, sizes)
  BY <1>9, <1>10, <1>11 DEF SPsOf
<1> QED BY <1>12 DEF sps

-----------------------------------------------------------------------------
(* The inductive invariant.                                                *)

PCs == {"parked", "trampoline", "tls", "load", "cls", "wait", "printf", "barrier", "main"}

\* The core that moves cluster k's data, and whether k has work.
Mover(k) == <<k, NumCores[k] - 1>>
Awake(k) == \E h \in CoresOf(k) : pc[h] # "parked"

\* Cluster k's data mover is in one of the places, or its application runs.
Stage(k, places) == pc[Mover(k)] \in places \/ \E h \in CoresOf(k) : pc[h] = "main"

HeapBase(k) == ALIGN_UP(HeapStart(k) + ClsSize, MinChunk)
TlsSize == link["tdata"] + link["tbss"]

\* Where the transfers of cluster k go, and which ones there are.
Loaded == {"cdata", "cbss", "l1"}
Destination(k, n) ==
    IF n = "cdata" THEN ClusterBase[k]
    ELSE IF n = "cbss" THEN ClusterBase[k] + link["cdata"]
    ELSE L1Start(k)

Types ==
    /\ link \in Links
    /\ pc \in [Cores -> PCs]
    /\ size \in [Clusters -> [Indices -> Nat]]
    /\ stack \in [Cores -> Int] /\ sp \in [Cores -> Int] /\ tp \in [Cores -> Int]
    /\ end \in [Clusters -> Int]
    /\ dma = [k \in Clusters |-> dma[k]]
    /\ alloc \in [Clusters -> [cls : Int, base : Int, end : Int, next : Int]]
    /\ mem = [a \in Areas |-> mem[a]]

\* The stacks of a cluster that has work are those that the host computed.
StackInv(k) ==
    Awake(k) => \A h \in CoresOf(k) :
        /\ stack[h] % 16 = 0 /\ stack[h] <= ClusterBase[k] + L1Size
        /\ end[k] <= stack[h] - size[k][h[2]]
        /\ \A g \in CoresOf(k) : h[2] < g[2] => stack[g] <= stack[h] - size[k][h[2]]

\* The pointers that the trampoline derived from them.
RegInv(k) ==
    \A h \in CoresOf(k) :
        /\ sp[h] % 16 = 0
        /\ pc[h] \notin {"parked", "trampoline"} =>
              tp[h] = stack[h] - TlsSize /\ sp[h] = AndMinus0xF(tp[h])

\* Who can be where: the data mover loads, its transfers are under way only
\* until it has waited for them, and the application runs in all cores or none.
PlaceInv(k) ==
    /\ \A h \in CoresOf(k) :
          /\ pc[h] \in {"load", "cls", "wait", "printf"} => h = Mover(k)
          /\ pc[h] = "main" => \A g \in CoresOf(k) : pc[g] \in {"main", "parked"}
    /\ dma[k] # {} => pc[Mover(k)] \in {"cls", "wait"}
    /\ \A t \in dma[k] : t.name \in Loaded /\ t.to = Destination(k, t.name) /\ t = [name |-> t.name, to |-> t.to]

\* The allocator, from the moment that it is set up.
AllocInv(k) ==
    /\ Stage(k, {"wait", "printf", "barrier"}) =>
          alloc[k].base = HeapBase(k) /\ alloc[k].cls = HeapStart(k)
    /\ pc[Mover(k)] \in {"wait", "printf"} => alloc[k].next = HeapBase(k)

ControlInv(k) == StackInv(k) /\ RegInv(k) /\ PlaceInv(k) /\ AllocInv(k)

-----------------------------------------------------------------------------
(* The constants, and the operators on addresses.                          *)

LEMMA CoreFacts ==
    /\ \A h \in Cores : /\ h = <<h[1], h[2]>> /\ h[1] \in Clusters /\ h[2] \in 0 .. NumCores[h[1]] - 1
                        /\ h[2] \in Indices /\ h[2] \in Nat /\ h \in CoresOf(h[1])
                        /\ snrt_is_dm_core(h) <=> h = Mover(h[1])
    /\ \A k \in Clusters : Mover(k) \in Cores /\ Mover(k) \in CoresOf(k) /\ Mover(k)[1] = k
    /\ \A k \in Clusters : \A h \in CoresOf(k) : h \in Cores /\ h[1] = k
    /\ \A k \in Clusters : \A i \in 0 .. NumCores[k] - 1 : <<k, i>> \in Cores /\ i \in Indices
<1>1. \A k \in Clusters : NumCores[k] \in Nat /\ NumCores[k] # 0
  BY StartupAssumption
<1>2. ASSUME NEW h \in Cores
      PROVE  /\ h = <<h[1], h[2]>> /\ h[1] \in Clusters /\ h[2] \in 0 .. NumCores[h[1]] - 1
             /\ h[2] \in Indices /\ h[2] \in Nat /\ h \in CoresOf(h[1])
             /\ snrt_is_dm_core(h) <=> h = Mover(h[1])
  <2>1. PICK k \in Clusters : h \in {k} \X (0 .. NumCores[k] - 1)
    BY DEF Cores
  <2>2. h = <<h[1], h[2]>> /\ h[1] = k /\ h[2] \in 0 .. NumCores[k] - 1
    BY <2>1
  <2>3. h[2] \in Indices /\ h[2] \in Nat
    BY <2>2, <1>1 DEF Indices
  <2> QED BY <2>2, <2>3 DEF CoresOf, snrt_is_dm_core, Mover
<1>3. ASSUME NEW k \in Clusters, NEW i \in 0 .. NumCores[k] - 1 PROVE <<k, i>> \in Cores /\ i \in Indices
  BY DEF Cores, Indices
<1>4. \A k \in Clusters : NumCores[k] - 1 \in 0 .. NumCores[k] - 1
  BY <1>1
<1>5. \A k \in Clusters : Mover(k) \in Cores /\ Mover(k)[1] = k
  BY <1>3, <1>4 DEF Mover
<1> QED BY <1>2, <1>3, <1>5 DEF CoresOf

LEMMA LinkFacts ==
    ASSUME link \in Links
    PROVE  \A s \in Sections : link[s] \in Nat /\ link[s] % 32 = 0
BY StartupAssumption DEF Aligned32

LEMMA AlignUp ==
    ASSUME NEW x \in Nat, NEW n \in Nat \ {0}
    PROVE  ALIGN_UP(x, n) \in Nat /\ x <= ALIGN_UP(x, n)
<1> DEFINE y == x + n - 1
<1>1. y \in Nat
  OBVIOUS
<1> HIDE DEF y
<1>2. y \div n \in Nat /\ y % n \in 0 .. n - 1 /\ y % n = y - (y \div n) * n
  BY <1>1
<1>3. (y \div n) * n \in Nat
  BY <1>2
<1> DEFINE q == (y \div n) * n
           r == y % n
<1>4. q \in Nat /\ r \in 0 .. n - 1 /\ r = y - q
  BY <1>2, <1>3
<1>5. q = ALIGN_UP(x, n)
  BY DEF ALIGN_UP, y
<1>6. y = x + n - 1
  BY DEF y
<1> HIDE DEF q, r
<1>7. x <= q
  BY <1>1, <1>4, <1>6
<1> QED BY <1>4, <1>5, <1>7

\* The stack pointer stays in the stack, on a multiple of 16.
LEMMA Mask ==
    ASSUME NEW x \in Int
    PROVE  /\ AndMinus0xF(x) \in Int /\ AndMinus0xF(x) <= x
           /\ x % 16 = 0 => AndMinus0xF(x) = x
BY SMT DEF AndMinus0xF

-----------------------------------------------------------------------------
(* The control and the addresses.                                          *)

\* A step leaves all but the memory of cluster k alone.
Same(k) ==
    /\ size'[k] = size[k] /\ end'[k] = end[k] /\ dma'[k] = dma[k] /\ alloc'[k] = alloc[k]
    /\ \A h \in CoresOf(k) : /\ pc'[h] = pc[h] /\ stack'[h] = stack[h]
                             /\ sp'[h] = sp[h] /\ tp'[h] = tp[h]

LEMMA SameKeeps ==
    ASSUME NEW k \in Clusters, ControlInv(k), link' = link, Same(k)
    PROVE  ControlInv(k)'
<1>1. Mover(k) \in CoresOf(k)
  BY CoreFacts
<1>2. StackInv(k)'
  BY DEF ControlInv, Same, StackInv, Awake
<1>3. RegInv(k)'
  BY DEF ControlInv, Same, RegInv, TlsSize
<1>4. PlaceInv(k)'
  BY <1>1 DEF ControlInv, Same, PlaceInv, Destination, L1Start
<1>5. AllocInv(k)'
  BY <1>1 DEF ControlInv, Same, AllocInv, Stage, HeapBase, HeapStart, L1Start
<1> QED BY <1>2, <1>3, <1>4, <1>5 DEF ControlInv

LEMMA ControlInit == Init => Types /\ \A k \in Clusters : ControlInv(k)
<1> SUFFICES ASSUME Init PROVE Types /\ \A k \in Clusters : ControlInv(k)
  OBVIOUS
<1>1. \A h \in Cores : pc[h] = "parked" /\ sp[h] = 0
  BY DEF Init
<1>2. Types
  BY DEF Init, Types, PCs
<1>3. ASSUME NEW k \in Clusters PROVE ControlInv(k)
  <2>1. dma[k] = {}
    BY DEF Init
  <2> QED BY <1>1, <2>1, CoreFacts DEF ControlInv, StackInv, Awake, RegInv, PlaceInv, AllocInv, Stage
<1> QED BY <1>2, <1>3

LEMMA StartControl ==
    ASSUME NEW k \in Clusters, NEW sizes \in [Indices -> Nat], NEW sps, NEW top \in Int,
           top <= ClusterBase[k] + L1Size, SPsOf(sps, k, top, sizes),
           Types, \A j \in Clusters : ControlInv(j), Start(k, sizes, sps)
    PROVE  Types' /\ \A j \in Clusters : ControlInv(j)'
<1>1. /\ \A h \in CoresOf(k) : pc[h] = "parked"
      /\ size' = [size EXCEPT ![k] = sizes]
      /\ stack' = [h \in Cores |-> IF h[1] = k THEN sps.ptr[h[2]] ELSE stack[h]]
      /\ end' = [end EXCEPT ![k] = sps.end]
      /\ pc' = [h \in Cores |-> IF h[1] = k THEN "trampoline" ELSE pc[h]]
      /\ mem' = [a \in Areas |-> IF a[2] = k THEN "left" ELSE mem[a]]
      /\ UNCHANGED <<link, sp, tp, dma, alloc>>
  BY DEF Start
<1>2. /\ sps.end \in Int
      /\ \A i \in 0 .. NumCores[k] - 1 : sps.ptr[i] \in Int
  BY DEF SPsOf
<1>3. Types'
  <2>0. \A h \in Cores : h[1] = k => h[2] \in 0 .. NumCores[k] - 1
    BY CoreFacts
  <2>1. stack' \in [Cores -> Int]
    BY <1>1, <1>2, <2>0 DEF Types
  <2>2. size' \in [Clusters -> [Indices -> Nat]] /\ end' \in [Clusters -> Int]
    BY <1>1, <1>2 DEF Types
  <2>3. pc' \in [Cores -> PCs] /\ mem' = [a \in Areas |-> mem'[a]]
    BY <1>1 DEF Types, PCs
  <2> QED BY <1>1, <2>1, <2>2, <2>3 DEF Types
<1>4. ASSUME NEW j \in Clusters, j # k PROVE ControlInv(j)'
  <2>1. Same(j)
    BY <1>1, <1>4, CoreFacts DEF Same, Types
  <2> QED BY <1>1, <2>1, SameKeeps
<1>5. ControlInv(k)'
  <2>1. \A h \in CoresOf(k) : /\ pc'[h] = "trampoline" /\ stack'[h] = sps.ptr[h[2]]
                              /\ h[2] \in 0 .. NumCores[k] - 1
    BY <1>1, CoreFacts
  <2>2. size'[k] = sizes /\ end'[k] = sps.end /\ dma'[k] = dma[k]
    BY <1>1 DEF Types
  <2>3. StackInv(k)'
    <3>1. ASSUME NEW h \in CoresOf(k)
          PROVE  /\ stack'[h] % 16 = 0 /\ stack'[h] <= ClusterBase[k] + L1Size
                 /\ end'[k] <= stack'[h] - size'[k][h[2]]
                 /\ \A g \in CoresOf(k) : h[2] < g[2] => stack'[g] <= stack'[h] - size'[k][h[2]]
      <4>1. sps.ptr[h[2]] \in Int /\ sps.ptr[h[2]] <= top /\ sps.ptr[h[2]] % 16 = 0
        BY <2>1 DEF SPsOf
      <4>2. stack'[h] <= ClusterBase[k] + L1Size
        BY <2>1, <4>1, StartupAssumption
      <4> QED BY <2>1, <2>2, <4>1, <4>2 DEF SPsOf
    <3> QED BY <3>1 DEF StackInv
  <2>4. RegInv(k)'
    BY <1>1, <2>1 DEF ControlInv, RegInv
  <2>5. dma[k] = {}
    BY <1>1, CoreFacts DEF ControlInv, PlaceInv
  <2>6. PlaceInv(k)' /\ AllocInv(k)'
    BY <2>1, <2>2, <2>5, CoreFacts DEF PlaceInv, AllocInv, Stage
  <2> QED BY <2>3, <2>4, <2>6 DEF ControlInv
<1> QED BY <1>3, <1>4, <1>5

LEMMA OffloadStarts ==
    ASSUME NEW k \in Clusters, NEW s \in Stacks, Offload(k, s)
    PROVE  \E sizes \in [Indices -> Nat], top \in Int : \E sps :
              top <= ClusterBase[k] + L1Size /\ SPsOf(sps, k, top, sizes) /\ Start(k, sizes, sps)
<1> DEFINE top == ClusterBase[k] + L1Size - s.below
           uniform == [i \in Indices |-> s.size[0]]
<1>1. s.below \in Nat /\ s.size \in [Indices -> Nat]
  BY StartupAssumption
<1>2. top \in Int /\ top <= ClusterBase[k] + L1Size
  BY <1>1, StartupAssumption
<1>3. 0 \in Indices
  <2>1. 0 \in 0 .. NumCores[k] - 1
    BY StartupAssumption
  <2> QED BY <2>1, CoreFacts
<1>4. uniform \in [Indices -> Nat]
  BY <1>1, <1>3
<1>5. /\ SPsOf(generate_snitchCluster_SPs(k, top, s.size), k, top, s.size)
      /\ SPsOf(generate_snitchCluster_SPs(k, top, uniform), k, top, uniform)
  <2> HIDE DEF top, uniform
  <2> QED BY <1>1, <1>2, <1>4, StackPointers
<1>6. \/ Start(k, s.size, generate_snitchCluster_SPs(k, top, s.size))
      \/ Start(k, uniform, generate_snitchCluster_SPs(k, top, uniform))
  BY DEF Offload, generate_snitchCluster_SPs_uniform
<1> HIDE DEF top, uniform
<1> QED BY <1>1, <1>2, <1>4, <1>5, <1>6, Zenon

\* Core h goes to another place; of what is not its cluster's, nothing changes.
CoreMoves(h, to) ==
    /\ pc' = [pc EXCEPT ![h] = to]
    /\ UNCHANGED <<link, size, stack, end>>
    /\ \A g \in Cores : g # h => sp'[g] = sp[g] /\ tp'[g] = tp[g]
    /\ \A j \in Clusters : j # h[1] => dma'[j] = dma[j] /\ alloc'[j] = alloc[j]

LEMMA Moves ==
    ASSUME NEW h \in Cores, NEW to \in PCs, CoreMoves(h, to), pc[h] # "parked",
           Types, \A k \in Clusters : ControlInv(k)
    PROVE  /\ pc' \in [Cores -> PCs] /\ h[1] \in Clusters /\ h \in CoresOf(h[1])
           /\ pc'[h] = to /\ \A g \in CoresOf(h[1]) : g # h => pc'[g] = pc[g]
           /\ \A g \in CoresOf(h[1]) : g # h => sp'[g] = sp[g] /\ tp'[g] = tp[g]
           /\ ControlInv(h[1])
           /\ StackInv(h[1])'
           /\ \A j \in Clusters : j # h[1] => ControlInv(j)'
           /\ HeapStart(h[1])' = HeapStart(h[1]) /\ HeapBase(h[1])' = HeapBase(h[1]) /\ TlsSize' = TlsSize
           /\ \A n : Destination(h[1], n)' = Destination(h[1], n)
<1>1. h[1] \in Clusters /\ h \in CoresOf(h[1])
  BY CoreFacts
<1>2. pc' \in [Cores -> PCs] /\ pc'[h] = to /\ \A g \in Cores : g # h => pc'[g] = pc[g]
  BY DEF CoreMoves, Types
<1>3. ASSUME NEW j \in Clusters, j # h[1] PROVE ControlInv(j)'
  <2>1. \A g \in CoresOf(j) : g # h /\ g \in Cores
    BY <1>3, CoreFacts
  <2>2. Same(j)
    BY <1>2, <1>3, <2>1 DEF Same, CoreMoves
  <2> QED BY <2>2, SameKeeps DEF CoreMoves
<1>4. StackInv(h[1])'
  BY <1>1 DEF ControlInv, StackInv, Awake, CoreMoves
<1>5. link' = link
  BY DEF CoreMoves
<1>6. /\ HeapStart(h[1])' = HeapStart(h[1]) /\ HeapBase(h[1])' = HeapBase(h[1]) /\ TlsSize' = TlsSize
      /\ \A n : Destination(h[1], n)' = Destination(h[1], n)
  BY <1>5 DEF HeapBase, HeapStart, L1Start, TlsSize, Destination
<1>7. \A g \in CoresOf(h[1]) : g \in Cores
  BY <1>1, CoreFacts
<1>8. \A g \in CoresOf(h[1]) : g # h => pc'[g] = pc[g] /\ sp'[g] = sp[g] /\ tp'[g] = tp[g]
  BY <1>2, <1>7 DEF CoreMoves
<1> QED BY <1>1, <1>2, <1>3, <1>4, <1>6, <1>8

\* A step that leaves the pointers alone keeps what is known of them.
LEMMA RegKept ==
    ASSUME NEW h \in Cores, NEW to \in PCs, CoreMoves(h, to), pc[h] \notin {"parked", "trampoline"},
           sp' = sp, tp' = tp, Types, \A k \in Clusters : ControlInv(k)
    PROVE  RegInv(h[1])'
<1>1. /\ \A g \in CoresOf(h[1]) : g # h => pc'[g] = pc[g]
      /\ RegInv(h[1]) /\ TlsSize' = TlsSize
  BY Moves DEF ControlInv
<1>2. stack' = stack
  BY DEF CoreMoves
<1> QED BY <1>1, <1>2 DEF RegInv

LEMMA TrampolineControl ==
    ASSUME NEW h \in Cores, trampoline(h), Types, \A k \in Clusters : ControlInv(k)
    PROVE  Types' /\ \A k \in Clusters : ControlInv(k)'
<1> DEFINE k == h[1]
<1>1. /\ pc[h] = "trampoline" /\ CoreMoves(h, "tls")
      /\ tp' = [tp EXCEPT ![h] = stack[h] - link["tdata"] - link["tbss"]]
      /\ sp' = [sp EXCEPT ![h] = AndMinus0xF(tp'[h])]
      /\ UNCHANGED <<link, dma, alloc, mem, stack>>
  BY CoreFacts DEF trampoline, CoreGoto, CoreMoves, hostVars, Types
<1>2. "tls" \in PCs
  BY DEF PCs
<1> USE <1>1, <1>2, Moves
<1>3. /\ stack[h] \in Int /\ stack[h] % 16 = 0
  BY DEF ControlInv, StackInv, Awake, Types
<1>4. link["tdata"] \in Nat /\ link["tbss"] \in Nat /\ link["tdata"] % 32 = 0 /\ link["tbss"] % 32 = 0
  BY LinkFacts DEF Types, Sections
<1>5. tp'[h] = stack[h] - TlsSize /\ tp'[h] \in Int /\ tp'[h] % 16 = 0
  <2>1. tp'[h] = stack[h] - link["tdata"] - link["tbss"]
    BY DEF Types
  <2> HIDE <1>1, Moves
  <2>2. \A x \in Int, m, n \in Nat : x % 16 = 0 /\ m % 32 = 0 /\ n % 32 = 0 =>
           (x - m - n) % 16 = 0 /\ x - m - n = x - (m + n)
    OBVIOUS
  <2> QED BY <1>3, <1>4, <2>1, <2>2 DEF TlsSize
<1>6. sp'[h] = tp'[h] /\ sp'[h] = AndMinus0xF(tp'[h])
  BY <1>5, Mask DEF Types
<1>7. Types'
  <2>1. tp' \in [Cores -> Int] /\ sp' \in [Cores -> Int]
    BY <1>3, <1>4, <1>5, <1>6 DEF Types
  <2> QED BY <2>1 DEF Types, CoreMoves
<1>8. RegInv(k)'
  BY <1>5, <1>6 DEF ControlInv, RegInv
<1>9. PlaceInv(k)' /\ AllocInv(k)'
  <2>1. Mover(k) \in CoresOf(k)
    BY CoreFacts
  <2>2. /\ pc'[h] = "tls" /\ \A g \in CoresOf(k) : g # h => pc'[g] = pc[g]
        /\ \A n : Destination(k, n)' = Destination(k, n)
        /\ HeapStart(k)' = HeapStart(k) /\ HeapBase(k)' = HeapBase(k)
        /\ h \in CoresOf(k) /\ dma' = dma /\ alloc' = alloc
        /\ PlaceInv(k) /\ AllocInv(k) /\ pc[h] = "trampoline"
    BY DEF ControlInv
  <2> HIDE <1>1, <1>2, Moves
  <2>3. PlaceInv(k)'
    BY <2>1, <2>2 DEF PlaceInv
  <2>4. \A g \in CoresOf(k) : pc[g] # "main" /\ pc'[g] # "main"
    BY <2>2 DEF PlaceInv
  <2> QED BY <2>1, <2>2, <2>3, <2>4 DEF AllocInv, Stage
<1>10. ControlInv(k)'
  BY <1>8, <1>9 DEF ControlInv
<1> QED BY <1>7, <1>10

LEMMA StoreType ==
    ASSUME NEW m, NEW a, NEW e
    PROVE  Store(m, a, e) = [b \in Areas |-> Store(m, a, e)[b]]
BY DEF Store

LEMMA ThreadInitControl ==
    ASSUME NEW h \in Cores, ThreadInit(h), Types, \A k \in Clusters : ControlInv(k)
    PROVE  Types' /\ \A k \in Clusters : ControlInv(k)'
<1> DEFINE k == h[1]
           to == IF snrt_is_dm_core(h) THEN "load" ELSE "barrier"
<1>1. /\ pc[h] = "tls" /\ CoreMoves(h, to)
      /\ mem' = [b \in Areas |-> mem'[b]]
      /\ UNCHANGED <<link, sp, tp, dma, alloc>>
  BY StoreType DEF ThreadInit, InitTls, CoreGoto, CoreMoves, hostVars
<1>2. to \in PCs /\ to \in {"load", "barrier"} /\ (h = Mover(k) <=> to = "load")
  BY CoreFacts DEF PCs
<1> HIDE DEF to
<1> USE <1>1, <1>2, Moves
<1>3. Types'
  BY DEF Types, CoreMoves
<1>4. RegInv(k)'
  BY RegKept
<1>5. Mover(k) \in CoresOf(k)
  BY CoreFacts
<1>6. PlaceInv(k)'
  BY <1>5 DEF ControlInv, PlaceInv
<1>7. AllocInv(k)'
  BY <1>5 DEF ControlInv, AllocInv, PlaceInv, Stage
<1>8. ControlInv(k)'
  BY <1>4, <1>6, <1>7 DEF ControlInv
<1> QED BY <1>3, <1>8

\* The transfers that LoadCluster starts.
LEMMA Transfers ==
    ASSUME NEW h \in Cores, LoadCluster(h), Types
    PROVE  dma' = [dma EXCEPT ![h[1]] =
                      {[name |-> n, to |-> Destination(h[1], n)] : n \in {n \in Loaded : link[n] > 0}}]
<1> DEFINE k == h[1]
           to == [l1    |-> L1Start(k),
                  cdata |-> Local(k, cdata_start),
                  cbss  |-> Local(k, cbss_start)]
<1>1. dma' = [dma EXCEPT ![k] = {[name |-> n, to |-> to[n]] : n \in {n \in DOMAIN to : link[n] > 0}}]
  BY DEF LoadCluster
<1>2. h[1] \in Clusters /\ ClusterBase[k] \in Nat /\ L1Alias \in Nat /\ link["cdata"] \in Nat
  BY CoreFacts, StartupAssumption, LinkFacts DEF Types, Sections
<1>3. \A n \in Loaded : to[n] = Destination(k, n)
  BY <1>2 DEF Loaded, Destination, Local, cdata_start, cbss_start
<1>4. DOMAIN to = Loaded
  BY DEF Loaded
<1> HIDE DEF to
<1>5. {[name |-> n, to |-> to[n]] : n \in {n \in DOMAIN to : link[n] > 0}} =
      {[name |-> n, to |-> Destination(k, n)] : n \in {n \in Loaded : link[n] > 0}}
  BY <1>3, <1>4
<1> QED BY <1>1, <1>5

LEMMA LoadControl ==
    ASSUME NEW h \in Cores, LoadCluster(h), Types, \A k \in Clusters : ControlInv(k)
    PROVE  Types' /\ \A k \in Clusters : ControlInv(k)'
<1> DEFINE k == h[1]
<1>1. /\ pc[h] = "load" /\ CoreMoves(h, "cls")
      /\ UNCHANGED <<link, sp, tp, alloc, mem>>
      /\ dma' = [j \in Clusters |-> dma'[j]]
  BY DEF LoadCluster, CoreGoto, CoreMoves, hostVars, Types
<1>2. "cls" \in PCs
  BY DEF PCs
<1>a. dma'[k] = {[name |-> n, to |-> Destination(k, n)] : n \in {n \in Loaded : link[n] > 0}}
  <2> DEFINE T == {[name |-> n, to |-> Destination(k, n)] : n \in {n \in Loaded : link[n] > 0}}
  <2>1. dma' = [dma EXCEPT ![k] = T]
    BY Transfers
  <2>2. k \in DOMAIN dma
    BY CoreFacts DEF Types
  <2> HIDE DEF T
  <2>3. dma'[k] = T
    BY <2>1, <2>2
  <2> QED BY <2>3 DEF T
<1> USE <1>1, <1>2, Moves
<1>3. Types'
  BY DEF Types, CoreMoves
<1>4. RegInv(k)'
  BY RegKept
<1>5. h = Mover(k)
  BY DEF ControlInv, PlaceInv
<1>6. \A t \in dma'[k] : t.name \in Loaded /\ t.to = Destination(k, t.name) /\ t = [name |-> t.name, to |-> t.to]
  BY <1>a
<1>7. PlaceInv(k)'
  <2>1. /\ pc'[h] = "cls" /\ \A g \in CoresOf(k) : g # h => pc'[g] = pc[g]
        /\ \A n : Destination(k, n)' = Destination(k, n)
        /\ PlaceInv(k) /\ pc[h] = "load" /\ h \in CoresOf(k)
    BY DEF ControlInv
  <2> HIDE <1>1, <1>2, Moves
  <2> QED BY <1>5, <1>6, <2>1 DEF PlaceInv
<1>8. AllocInv(k)'
  BY <1>5 DEF ControlInv, AllocInv, PlaceInv, Stage
<1>9. ControlInv(k)'
  BY <1>4, <1>7, <1>8 DEF ControlInv
<1> QED BY <1>3, <1>9

\* The heap is above the cluster's data and its local storage.
LEMMA HeapFacts ==
    ASSUME NEW k \in Clusters, link \in Links
    PROVE  /\ ClusterBase[k] \in Nat /\ HeapStart(k) \in Nat /\ L1Start(k) \in Nat
           /\ HeapBase(k) \in Nat /\ HeapStart(k) + ClsSize <= HeapBase(k)
           /\ L1Start(k) = ClusterBase[k] + link["cdata"] + link["cbss"]
           /\ HeapStart(k) = L1Start(k) + link["l1"]
           /\ \A s \in Sections : link[s] \in Nat
           /\ ClsSize \in Nat \ {0}
<1>1. \A s \in Sections : link[s] \in Nat
  BY LinkFacts
<1>2. link["cdata"] \in Nat /\ link["cbss"] \in Nat /\ link["l1"] \in Nat
  BY <1>1 DEF Sections
<1>3. ClusterBase[k] \in Nat /\ ClsSize \in Nat \ {0} /\ MinChunk \in Nat \ {0}
  BY StartupAssumption
<1>4. L1Start(k) \in Nat /\ HeapStart(k) \in Nat /\ HeapStart(k) + ClsSize \in Nat
  BY <1>2, <1>3 DEF L1Start, HeapStart
<1>5. HeapBase(k) \in Nat /\ HeapStart(k) + ClsSize <= HeapBase(k)
  BY <1>3, <1>4, AlignUp DEF HeapBase
<1> QED BY <1>1, <1>3, <1>4, <1>5 DEF L1Start, HeapStart

LEMMA ClsControl ==
    ASSUME NEW h \in Cores, InitCls(h), Types, \A k \in Clusters : ControlInv(k)
    PROVE  Types' /\ \A k \in Clusters : ControlInv(k)'
<1> DEFINE k == h[1]
<1>1. /\ pc[h] = "cls" /\ CoreMoves(h, "wait")
      /\ UNCHANGED <<link, sp, tp, dma>>
      /\ alloc' = [alloc EXCEPT ![k] = [cls |-> HeapStart(k), base |-> HeapBase(k),
                                        end |-> ClusterBase[k] + L1Size, next |-> HeapBase(k)]]
      /\ mem' = [b \in Areas |-> mem'[b]]
  <2>1. alloc' = [alloc EXCEPT ![k] = [cls |-> HeapStart(k), base |-> HeapBase(k),
                                       end |-> ClusterBase[k] + L1Size, next |-> HeapBase(k)]]
    BY DEF InitCls, HeapBase
  <2>2. \A j \in Clusters : j # k => alloc'[j] = alloc[j]
    BY <2>1 DEF Types
  <2>3. mem' = [b \in Areas |-> mem'[b]]
    BY StoreType DEF InitCls
  <2>4. pc[h] = "cls" /\ pc' = [pc EXCEPT ![h] = "wait"] /\ UNCHANGED <<link, sp, tp, dma, hostVars>>
    BY DEF InitCls, CoreGoto
  <2> QED BY <2>1, <2>2, <2>3, <2>4 DEF CoreMoves, hostVars
<1>b. k \in Clusters /\ HeapStart(k) \in Nat /\ HeapBase(k) \in Nat /\ ClusterBase[k] + L1Size \in Int
  BY CoreFacts, HeapFacts, StartupAssumption DEF Types
<1>2. "wait" \in PCs
  BY DEF PCs
<1> USE <1>1, <1>2, Moves
<1>3. Types'
  <2>1. alloc' \in [Clusters -> [cls : Int, base : Int, end : Int, next : Int]]
    BY <1>b DEF Types
  <2> QED BY <2>1 DEF Types, CoreMoves
<1>4. RegInv(k)'
  BY RegKept
<1>5. h = Mover(k)
  BY DEF ControlInv, PlaceInv
<1>6. PlaceInv(k)'
  <2>1. /\ pc'[h] = "wait" /\ \A g \in CoresOf(k) : g # h => pc'[g] = pc[g]
        /\ \A n : Destination(k, n)' = Destination(k, n)
        /\ PlaceInv(k) /\ pc[h] = "cls" /\ h \in CoresOf(k) /\ dma' = dma
    BY DEF ControlInv
  <2> HIDE <1>1, <1>2, Moves
  <2> QED BY <1>5, <2>1 DEF PlaceInv
<1>7. alloc'[k].cls = HeapStart(k) /\ alloc'[k].base = HeapBase(k) /\ alloc'[k].next = HeapBase(k)
  BY DEF Types
<1>8. AllocInv(k)'
  BY <1>5, <1>7 DEF AllocInv
<1>9. ControlInv(k)'
  BY <1>4, <1>6, <1>8 DEF ControlInv
<1> QED BY <1>3, <1>9

LEMMA WaitControl ==
    ASSUME NEW h \in Cores, WaitAll(h), Types, \A k \in Clusters : ControlInv(k)
    PROVE  Types' /\ \A k \in Clusters : ControlInv(k)'
<1> DEFINE k == h[1]
<1>1. /\ pc[h] = "wait" /\ CoreMoves(h, "printf") /\ dma[k] = {}
      /\ UNCHANGED <<link, sp, tp, dma, alloc, mem>>
  BY DEF WaitAll, CoreGoto, CoreMoves, hostVars
<1>2. "printf" \in PCs
  BY DEF PCs
<1> USE <1>1, <1>2, Moves
<1>3. Types'
  BY DEF Types, CoreMoves
<1>4. RegInv(k)'
  BY RegKept
<1>5. h = Mover(k)
  BY DEF ControlInv, PlaceInv
<1>6. PlaceInv(k)' /\ AllocInv(k)'
  BY <1>5 DEF ControlInv, PlaceInv, AllocInv, Stage
<1>7. ControlInv(k)'
  BY <1>4, <1>6 DEF ControlInv
<1> QED BY <1>3, <1>7

LEMMA PrintfControl ==
    ASSUME NEW h \in Cores, snrt_printf_init(h), Types, \A k \in Clusters : ControlInv(k)
    PROVE  Types' /\ \A k \in Clusters : ControlInv(k)'
<1> DEFINE k == h[1]
<1>1. /\ pc[h] = "printf" /\ CoreMoves(h, "barrier")
      /\ UNCHANGED <<link, sp, tp, dma>>
      /\ alloc' = [alloc EXCEPT ![k].next = @ + ALIGN_UP(4, MinChunk)]
      /\ mem' = [b \in Areas |-> mem'[b]]
  <2>1. alloc' = [alloc EXCEPT ![k].next = @ + ALIGN_UP(4, MinChunk)]
    BY DEF snrt_printf_init
  <2>2. \A j \in Clusters : j # k => alloc'[j] = alloc[j]
    BY <2>1 DEF Types
  <2>3. mem' = [b \in Areas |-> mem'[b]]
    BY StoreType DEF snrt_printf_init
  <2>4. pc[h] = "printf" /\ pc' = [pc EXCEPT ![h] = "barrier"] /\ UNCHANGED <<link, sp, tp, dma, hostVars>>
    BY DEF snrt_printf_init, CoreGoto
  <2> QED BY <2>1, <2>2, <2>3, <2>4 DEF CoreMoves, hostVars
<1>a. ALIGN_UP(4, MinChunk) \in Nat
  BY AlignUp, StartupAssumption
<1>b. alloc' \in [Clusters -> [cls : Int, base : Int, end : Int, next : Int]] /\ alloc'[k].base = alloc[k].base
      /\ alloc'[k].cls = alloc[k].cls
  <2> DEFINE R == [cls : Int, base : Int, end : Int, next : Int]
             r == [alloc[k] EXCEPT !.next = @ + ALIGN_UP(4, MinChunk)]
  <2>1. k \in Clusters /\ alloc \in [Clusters -> R] /\ alloc[k] \in R
    BY CoreFacts DEF Types
  <2>2. r \in R /\ r.base = alloc[k].base /\ r.cls = alloc[k].cls
    BY <1>a, <2>1
  <2>3. alloc' = [alloc EXCEPT ![k] = r]
    BY <1>1
  <2> HIDE DEF r, R
  <2>4. alloc' \in [Clusters -> R] /\ alloc'[k] = r
    BY <2>1, <2>2, <2>3
  <2> QED BY <2>2, <2>4 DEF R
<1>2. "barrier" \in PCs
  BY DEF PCs
<1> USE <1>1, <1>2, Moves
<1>5. Types'
  BY <1>b DEF Types, CoreMoves
<1>6. RegInv(k)'
  BY RegKept
<1>7. h = Mover(k)
  BY DEF ControlInv, PlaceInv
<1>8. PlaceInv(k)' /\ AllocInv(k)'
  BY <1>b, <1>7 DEF ControlInv, PlaceInv, AllocInv, Stage
<1>9. ControlInv(k)'
  BY <1>6, <1>8 DEF ControlInv
<1> QED BY <1>5, <1>9

LEMMA ReturnControl ==
    ASSUME NEW h \in Cores, Return(h), Types, \A k \in Clusters : ControlInv(k)
    PROVE  Types' /\ \A k \in Clusters : ControlInv(k)'
<1> DEFINE k == h[1]
<1>1. /\ pc[h] = "main" /\ CoreMoves(h, "parked")
      /\ UNCHANGED <<link, dma, alloc, mem>>
      /\ sp' = [sp EXCEPT ![h] = 0] /\ tp' = [tp EXCEPT ![h] = 0]
  BY DEF Return, CoreGoto, CoreMoves, hostVars, Types
<1>2. "parked" \in PCs
  BY DEF PCs
<1> USE <1>1, <1>2, Moves
<1>3. Types'
  BY DEF Types, CoreMoves
<1>4. RegInv(k)'
  <2>1. sp'[h] = 0 /\ stack' = stack
    BY DEF Types, CoreMoves
  <2> QED BY <2>1 DEF ControlInv, RegInv
<1>5. Mover(k) \in CoresOf(k)
  BY CoreFacts
<1>6. PlaceInv(k)' /\ AllocInv(k)'
  BY <1>5 DEF ControlInv, PlaceInv, AllocInv, Stage
<1>7. ControlInv(k)'
  BY <1>4, <1>6 DEF ControlInv
<1> QED BY <1>3, <1>7

LEMMA DmaControl ==
    ASSUME NEW k \in Clusters, CompleteDma(k), Types, \A j \in Clusters : ControlInv(j)
    PROVE  Types' /\ \A j \in Clusters : ControlInv(j)'
<1>1. PICK t \in dma[k] : dma' = [dma EXCEPT ![k] = @ \ {t}]
  BY DEF CompleteDma
<1>2. UNCHANGED <<link, pc, sp, tp, alloc, size, stack, end>> /\ mem' = [b \in Areas |-> mem'[b]]
  BY StoreType DEF CompleteDma, hostVars
<1>3. dma' = [j \in Clusters |-> dma'[j]] /\ dma'[k] \subseteq dma[k]
      /\ \A j \in Clusters : j # k => dma'[j] = dma[j]
  BY <1>1 DEF Types
<1>4. Types'
  BY <1>2, <1>3 DEF Types
<1>5. ASSUME NEW j \in Clusters, j # k PROVE ControlInv(j)'
  <2>1. Same(j)
    BY <1>2, <1>3, <1>5 DEF Same
  <2> QED BY <1>2, <2>1, SameKeeps
<1>6. StackInv(k)' /\ RegInv(k)' /\ AllocInv(k)'
  BY <1>2 DEF ControlInv, StackInv, Awake, RegInv, TlsSize, AllocInv, Stage, HeapBase, HeapStart, L1Start
<1>7. PlaceInv(k)'
  <2>1. PlaceInv(k)
    BY DEF ControlInv
  <2> QED BY <1>2, <1>3, <2>1 DEF PlaceInv, Destination, L1Start
<1>8. ControlInv(k)'
  BY <1>6, <1>7 DEF ControlInv
<1> QED BY <1>4, <1>5, <1>8

LEMMA BarrierControl ==
    ASSUME NEW k \in Clusters, Barrier(k), Types, \A j \in Clusters : ControlInv(j)
    PROVE  Types' /\ \A j \in Clusters : ControlInv(j)'
<1>1. /\ \A h \in CoresOf(k) : pc[h] = "barrier"
      /\ pc' = [h \in Cores |-> IF h[1] = k THEN "main" ELSE pc[h]]
      /\ UNCHANGED <<link, sp, tp, dma, alloc, mem, size, stack, end>>
  BY DEF Barrier, hostVars
<1>2. Types'
  BY <1>1 DEF Types, PCs
<1>3. ASSUME NEW j \in Clusters, j # k PROVE ControlInv(j)'
  <2>1. Same(j)
    BY <1>1, <1>3, CoreFacts DEF Same
  <2> QED BY <1>1, <2>1, SameKeeps
<1>4. Mover(k) \in CoresOf(k) /\ \A h \in CoresOf(k) : pc'[h] = "main"
  BY <1>1, CoreFacts
<1>5. ControlInv(k)
  OBVIOUS
<1>6. StackInv(k)' /\ RegInv(k)'
  BY <1>1, <1>4, <1>5 DEF ControlInv, StackInv, Awake, RegInv, TlsSize
<1>7. PlaceInv(k)'
  BY <1>1, <1>4, <1>5 DEF ControlInv, PlaceInv
<1>8. AllocInv(k)'
  BY <1>1, <1>4, <1>5 DEF ControlInv, AllocInv, Stage, HeapBase, HeapStart, L1Start
<1>9. ControlInv(k)'
  BY <1>6, <1>7, <1>8 DEF ControlInv
<1> QED BY <1>2, <1>3, <1>9

LEMMA ControlStep ==
    ASSUME Types, \A k \in Clusters : ControlInv(k), [Next]_vars
    PROVE  Types' /\ \A k \in Clusters : ControlInv(k)'
<1>1. ASSUME NEW k \in Clusters, NEW s \in Stacks, Offload(k, s)
      PROVE  Types' /\ \A j \in Clusters : ControlInv(j)'
  <2>1. PICK sizes \in [Indices -> Nat], top \in Int : \E sps :
           top <= ClusterBase[k] + L1Size /\ SPsOf(sps, k, top, sizes) /\ Start(k, sizes, sps)
    BY <1>1, OffloadStarts
  <2>2. PICK sps : top <= ClusterBase[k] + L1Size /\ SPsOf(sps, k, top, sizes) /\ Start(k, sizes, sps)
    BY <2>1
  <2> QED BY <2>2, StartControl
<1>2. ASSUME NEW h \in Cores, CoreStep(h) \/ Return(h)
      PROVE  Types' /\ \A j \in Clusters : ControlInv(j)'
  BY <1>2, TrampolineControl, ThreadInitControl, LoadControl, ClsControl, WaitControl,
     PrintfControl, ReturnControl DEF CoreStep
<1>3. ASSUME NEW k \in Clusters, ClusterStep(k)
      PROVE  Types' /\ \A j \in Clusters : ControlInv(j)'
  BY <1>3, DmaControl, BarrierControl DEF ClusterStep
<1>4. CASE UNCHANGED vars
  <2>1. Types'
    BY <1>4 DEF Types, vars, hostVars
  <2>2. link' = link /\ \A k \in Clusters : Same(k)
    BY <1>4 DEF Same, vars, hostVars
  <2> QED BY <2>1, <2>2, SameKeeps
<1> QED BY <1>1, <1>2, <1>3, <1>4 DEF Next

\* The invariant so far needs nothing of what the stores do.
Controlled == Types /\ \A k \in Clusters : ControlInv(k)

LEMMA Control == Spec => []Controlled
<1>1. Init => Controlled
  BY ControlInit DEF Controlled
<1>2. Controlled /\ [Next]_vars => Controlled'
  BY ControlStep DEF Controlled
<1> QED BY <1>1, <1>2, PTL DEF Spec

(* Whatever sizes and addresses the host is given, and in whatever order   *)
(* the cores of any number of clusters start, every core runs compiled     *)
(* code on a stack pointer that is a multiple of 16.                       *)
THEOREM StacksStayAligned == Spec => []StacksAligned
<1>1. Controlled => StacksAligned
  BY CoreFacts DEF Controlled, ControlInv, RegInv, StacksAligned
<1> QED BY <1>1, Control, PTL

-----------------------------------------------------------------------------
(* The areas.                                                              *)

\* The places of a core that has its stack and its thread-local storage.
Inited == {"load", "cls", "wait", "printf", "barrier", "main"}
Own == {"tls", "stack"}
Shared == Loaded \cup {"cls", "mutex"}
CoreOf(b) == <<b[2], b[3]>>

NonEmpty(b) == Extent(b)[1] < Extent(b)[2]

\* The code that fills area b has run.
Due(b) ==
    /\ b[1] \in Loaded => /\ Stage(b[2], {"cls", "wait", "printf", "barrier"})
                          /\ \A t \in dma[b[2]] : t.name # b[1]
    /\ b[1] = "cls" => Stage(b[2], {"wait", "printf", "barrier"})
    /\ b[1] = "mutex" => Stage(b[2], {"barrier"})
    /\ b[1] \in Own => pc[CoreOf(b)] \in Inited

\* Area b is where it will be until the cluster has done its work.
Placed(b) ==
    /\ Awake(b[2])
    /\ b[1] = "mutex" => alloc[b[2]].base = HeapBase(b[2])
    /\ b[1] \in Own => pc[CoreOf(b)] \notin {"parked", "trampoline"}

(* A cluster whose stacks do not fit spoils its own L1 only: what is below *)
(* it and above it can be another cluster's.                               *)
Contained ==
    \A k \in Clusters : Awake(k) /\ ~Fits(k) =>
        /\ HeapBase(k) + 4 <= ClusterBase[k] + L1Size
        /\ \A h \in CoresOf(k) : /\ ClusterBase[k] <= stack[h] - size[k][h[2]]
                                 /\ ClusterBase[k] <= stack[h] - TlsSize

\* What is due in a cluster whose stacks fit is there, and is not spoiled.
MemInv == \A b \in Areas : Due(b) /\ NonEmpty(b) /\ Fits(b[2]) => mem[b] = "init"

LEMMA AreaFacts ==
    /\ \A b \in Areas : /\ b = <<b[1], b[2], b[3]>> /\ b[2] \in Clusters
                        /\ \/ b[1] \in Shared /\ b[3] = 0
                           \/ b[1] \in Own /\ CoreOf(b) \in Cores /\ CoreOf(b) \in CoresOf(b[2])
    /\ \A k \in Clusters, n \in Shared : <<n, k, 0>> \in Areas
    /\ \A h \in Cores, n \in Own : <<n, h[1], h[2]>> \in Areas /\ CoreOf(<<n, h[1], h[2]>>) = h
<1>1. ASSUME NEW b \in Areas
      PROVE  /\ b = <<b[1], b[2], b[3]>> /\ b[2] \in Clusters
             /\ \/ b[1] \in Shared /\ b[3] = 0
                \/ b[1] \in Own /\ CoreOf(b) \in Cores /\ CoreOf(b) \in CoresOf(b[2])
  <2>1. PICK k \in Clusters : b \in AreasOf(k)
    BY DEF Areas
  <2>2. CASE b \in SharedAreas(k)
    BY <2>2 DEF SharedAreas, Shared, Loaded
  <2>3. CASE b \in UNION {OwnAreas(h) : h \in CoresOf(k)}
    <3>1. PICK h \in CoresOf(k) : b \in {"tls", "stack"} \X {h[1]} \X {h[2]}
      BY <2>3 DEF OwnAreas
    <3>2. b = <<b[1], h[1], h[2]>> /\ b[1] \in Own
      BY <3>1 DEF Own
    <3>3. h \in Cores /\ h[1] = k /\ h = <<h[1], h[2]>> /\ b[2] = h[1] /\ b[3] = h[2]
      BY <3>2, CoreFacts
    <3> QED BY <3>2, <3>3 DEF CoreOf
  <2> QED BY <2>1, <2>2, <2>3 DEF AreasOf
<1>2. ASSUME NEW k \in Clusters, NEW n \in Shared PROVE <<n, k, 0>> \in Areas
  BY DEF Areas, AreasOf, SharedAreas, Shared, Loaded
<1>3. ASSUME NEW h \in Cores, NEW n \in Own
      PROVE  <<n, h[1], h[2]>> \in Areas /\ CoreOf(<<n, h[1], h[2]>>) = h
  <2>1. h[1] \in Clusters /\ h \in CoresOf(h[1]) /\ h = <<h[1], h[2]>>
    BY CoreFacts
  <2>2. <<n, h[1], h[2]>> \in OwnAreas(h)
    BY DEF OwnAreas, Own
  <2>3. <<n, h[1], h[2]>> \in AreasOf(h[1])
    BY <2>1, <2>2 DEF AreasOf
  <2> QED BY <2>1, <2>3 DEF Areas, CoreOf
<1> QED BY <1>1, <1>2, <1>3

LEMMA DuePlaced ==
    ASSUME Controlled, NEW b \in Areas, Due(b)
    PROVE  Placed(b)
<1> DEFINE k == b[2]
<1>1. k \in Clusters /\ ControlInv(k) /\ Mover(k) \in CoresOf(k)
  BY AreaFacts, CoreFacts DEF Controlled
<1>2. CASE b[1] \in Shared
  <2>1. Stage(k, {"cls", "wait", "printf", "barrier"})
    BY <1>2 DEF Due, Shared, Stage
  <2>2. Awake(k)
    BY <1>1, <2>1 DEF Stage, Awake
  <2>3. b[1] = "mutex" => alloc[k].base = HeapBase(k)
    BY <1>1 DEF Due, ControlInv, AllocInv, Stage
  <2>4. b[1] \notin Own
    BY <1>2 DEF Shared, Loaded, Own
  <2> QED BY <2>2, <2>3, <2>4 DEF Placed
<1>3. CASE b[1] \in Own /\ CoreOf(b) \in CoresOf(k)
  BY <1>3 DEF Due, Own, Inited, Placed, Awake
<1> QED BY <1>2, <1>3, AreaFacts

\* Where the areas are.
LEMMA Extents ==
    ASSUME Controlled, NEW b \in Areas, Placed(b)
    PROVE  LET k == b[2]
               h == CoreOf(b)
           IN /\ b[1] = "cdata" => Extent(b) = <<ClusterBase[k], ClusterBase[k] + link["cdata"]>>
              /\ b[1] = "cbss" => Extent(b) = <<ClusterBase[k] + link["cdata"], L1Start(k)>>
              /\ b[1] = "l1" => Extent(b) = <<L1Start(k), HeapStart(k)>>
              /\ b[1] = "cls" => Extent(b) = <<HeapStart(k), HeapStart(k) + ClsSize>>
              /\ b[1] = "mutex" => Extent(b) = <<HeapBase(k), HeapBase(k) + 4>>
              /\ b[1] = "tls" => Extent(b) = <<stack[h] - TlsSize, stack[h]>>
              /\ b[1] = "stack" => Extent(b) = <<stack[h] - size[k][h[2]], sp[h]>>
              /\ b[1] \in Own => sp[h] <= stack[h] - TlsSize
<1> DEFINE k == b[2]
           h == CoreOf(b)
<1>1. k \in Clusters /\ ControlInv(k) /\ link \in Links
  BY AreaFacts DEF Controlled, Types
<1>2. /\ ClusterBase[k] \in Nat /\ L1Alias \in Nat
      /\ link["cdata"] \in Nat /\ link["cbss"] \in Nat /\ link["l1"] \in Nat
      /\ link["tdata"] \in Nat /\ link["tbss"] \in Nat
  BY <1>1, HeapFacts, StartupAssumption DEF Sections
<1>3. b[1] = "cdata" => Extent(b) = <<ClusterBase[k], ClusterBase[k] + link["cdata"]>>
  BY <1>2 DEF Extent, Aliased, cdata_start
<1>4. b[1] = "cbss" => Extent(b) = <<ClusterBase[k] + link["cdata"], L1Start(k)>>
  BY <1>2 DEF Extent, Aliased, cdata_start, cbss_start, L1Start
<1>5. b[1] = "l1" => Extent(b) = <<L1Start(k), HeapStart(k)>>
  BY DEF Extent, HeapStart
<1>6. b[1] = "cls" => Extent(b) = <<HeapStart(k), HeapStart(k) + ClsSize>>
  BY DEF Extent
<1>7. b[1] = "mutex" => Extent(b) = <<HeapBase(k), HeapBase(k) + 4>>
  BY DEF Extent, Placed
<1>8. ASSUME b[1] \in Own
      PROVE  /\ stack[h] \in Int /\ tp[h] = stack[h] - TlsSize /\ sp[h] <= stack[h] - TlsSize
             /\ b[1] = "tls" => Extent(b) = <<stack[h] - TlsSize, stack[h]>>
             /\ b[1] = "stack" => Extent(b) = <<stack[h] - size[k][h[2]], sp[h]>>
  <2>1. h \in Cores /\ h \in CoresOf(k) /\ h[2] = b[3] /\ h = <<b[2], b[3]>>
    BY <1>8, AreaFacts DEF CoreOf, Own, Shared, Loaded
  <2>2. tp[h] = stack[h] - TlsSize /\ sp[h] = AndMinus0xF(tp[h])
    BY <1>1, <1>8, <2>1 DEF ControlInv, RegInv, Placed
  <2>3. stack[h] \in Int /\ tp[h] \in Int /\ TlsSize \in Nat
    BY <1>2, <2>1 DEF Controlled, Types, TlsSize
  <2>4. sp[h] <= tp[h]
    BY <2>2, <2>3, Mask
  <2>5. tp[h] + TlsSize = stack[h]
    BY <2>2, <2>3
  <2>6. b[1] = "tls" => Extent(b) = <<tp[h], tp[h] + TlsSize>>
    BY <2>1 DEF Extent, TlsSize
  <2>7. b[1] = "stack" => Extent(b) = <<stack[h] - size[k][h[2]], sp[h]>>
    BY <2>1 DEF Extent
  <2> QED BY <2>2, <2>3, <2>4, <2>5, <2>6, <2>7
<1> QED BY <1>3, <1>4, <1>5, <1>6, <1>7, <1>8 DEF Own

\* A shared area is in the cluster's data, an own one in its core's stack.
LEMMA Spans ==
    ASSUME Controlled, NEW b \in Areas, Placed(b), NonEmpty(b)
    PROVE  LET k == b[2]
               h == CoreOf(b)
               e == Extent(b)
           IN /\ e[1] \in Int /\ e[2] \in Int /\ e[1] < e[2]
              /\ b[1] \in Shared => ClusterBase[k] <= e[1] /\ e[2] <= HeapBase(k) + 4
              /\ b[1] \in Own =>
                    /\ h \in CoresOf(k) /\ stack[h] \in Int /\ size[k][h[2]] \in Nat /\ TlsSize \in Nat
                    /\ e[2] <= stack[h]
                    /\ \/ e[1] = stack[h] - size[k][h[2]]
                       \/ e[1] = stack[h] - TlsSize
<1> DEFINE k == b[2]
           h == CoreOf(b)
           e == Extent(b)
<1>1. k \in Clusters /\ ControlInv(k) /\ link \in Links
  BY AreaFacts DEF Controlled, Types
<1>2. /\ ClusterBase[k] \in Nat /\ HeapBase(k) \in Nat /\ HeapStart(k) + ClsSize <= HeapBase(k)
      /\ L1Start(k) = ClusterBase[k] + link["cdata"] + link["cbss"]
      /\ HeapStart(k) = L1Start(k) + link["l1"]
      /\ L1Start(k) \in Nat /\ HeapStart(k) \in Nat
      /\ link["cdata"] \in Nat /\ link["cbss"] \in Nat /\ link["l1"] \in Nat
      /\ link["tdata"] \in Nat /\ link["tbss"] \in Nat /\ ClsSize \in Nat
  BY <1>1, HeapFacts DEF Sections
<1>3. CASE b[1] \in Shared
  <2>1. /\ b[1] = "cdata" => e[1] = ClusterBase[k] /\ e[2] = ClusterBase[k] + link["cdata"]
        /\ b[1] = "cbss" => e[1] = ClusterBase[k] + link["cdata"] /\ e[2] = L1Start(k)
        /\ b[1] = "l1" => e[1] = L1Start(k) /\ e[2] = HeapStart(k)
        /\ b[1] = "cls" => e[1] = HeapStart(k) /\ e[2] = HeapStart(k) + ClsSize
        /\ b[1] = "mutex" => e[1] = HeapBase(k) /\ e[2] = HeapBase(k) + 4
    BY Extents
  <2>2. b[1] \in {"cdata", "cbss", "l1", "cls", "mutex"} /\ b[1] \notin Own
    BY <1>3 DEF Shared, Loaded, Own
  <2>3. e[1] < e[2]
    BY DEF NonEmpty
  <2> HIDE DEF e
  <2>4. e[1] \in Int /\ e[2] \in Int /\ ClusterBase[k] <= e[1] /\ e[2] <= HeapBase(k) + 4
    BY <1>2, <2>1, <2>2, <2>3
  <2> QED BY <2>2, <2>3, <2>4 DEF e
<1>4. CASE b[1] \in Own
  <2>1. h \in CoresOf(k) /\ h \in Cores /\ h[2] \in Indices
    BY <1>4, AreaFacts, CoreFacts DEF Own, Shared, Loaded
  <2>2. stack[h] \in Int /\ size[k][h[2]] \in Nat /\ sp[h] \in Int /\ TlsSize \in Nat
    BY <1>1, <1>2, <2>1 DEF Controlled, Types, TlsSize
  <2>3. /\ b[1] = "tls" => e[1] = stack[h] - TlsSize /\ e[2] = stack[h]
        /\ b[1] = "stack" => e[1] = stack[h] - size[k][h[2]] /\ e[2] = sp[h]
        /\ sp[h] <= stack[h] - TlsSize
    BY <1>4, Extents
  <2>4. b[1] \in {"tls", "stack"} /\ b[1] \notin Shared
    BY <1>4 DEF Own, Shared, Loaded
  <2>5. e[1] < e[2]
    BY DEF NonEmpty
  <2> HIDE DEF e, h
  <2>6. /\ e[1] \in Int /\ e[2] \in Int /\ e[2] <= stack[h]
        /\ e[1] = stack[h] - size[k][h[2]] \/ e[1] = stack[h] - TlsSize
    BY <2>2, <2>3, <2>4
  <2> QED BY <2>1, <2>2, <2>4, <2>5, <2>6 DEF e, h
<1> QED BY <1>3, <1>4, AreaFacts

\* What Fits says in terms of one core's stack.
LEMMA FitsFacts ==
    ASSUME Controlled, NEW k \in Clusters, Fits(k), Awake(k), NEW h \in CoresOf(k)
    PROVE  /\ HeapBase(k) + 4 <= stack[h] - size[k][h[2]] /\ TlsSize <= size[k][h[2]]
           /\ stack[h] <= ClusterBase[k] + L1Size
           /\ \A g \in CoresOf(k) : h[2] < g[2] => stack[g] <= stack[h] - size[k][h[2]]
<1>1. StackInv(k) /\ h \in Cores /\ h[2] \in Indices
  BY CoreFacts DEF Controlled, ControlInv
<1>2. end[k] \in Int /\ stack[h] \in Int /\ size[k][h[2]] \in Nat /\ HeapBase(k) \in Nat
  BY <1>1, HeapFacts DEF Controlled, Types
<1>3. HeapBase(k) + 4 <= end[k] /\ TlsSize <= size[k][h[2]]
  <2>1. end[k] >= HeapBase(k) + 4 /\ size[k][h[2]] >= TlsSize
    BY DEF Fits, HeapBase, TlsSize
  <2>2. TlsSize \in Nat
    BY HeapFacts DEF Controlled, Types, TlsSize, Sections
  <2> QED BY <1>2, <2>1, <2>2
<1>4. /\ end[k] <= stack[h] - size[k][h[2]] /\ stack[h] <= ClusterBase[k] + L1Size
      /\ \A g \in CoresOf(k) : h[2] < g[2] => stack[g] <= stack[h] - size[k][h[2]]
  BY <1>1 DEF StackInv
<1>5. HeapBase(k) + 4 <= stack[h] - size[k][h[2]]
  BY <1>2, <1>3, <1>4
<1> QED BY <1>3, <1>4, <1>5

\* Every area is in the L1 of its cluster.
LEMMA Window ==
    ASSUME Controlled, Contained, NEW b \in Areas, Placed(b), NonEmpty(b)
    PROVE  /\ ClusterBase[b[2]] <= Extent(b)[1]
           /\ Extent(b)[2] <= ClusterBase[b[2]] + L1Size
<1> DEFINE k == b[2]
           h == CoreOf(b)
           e == Extent(b)
<1>1. k \in Clusters /\ Awake(k) /\ link \in Links
  BY AreaFacts DEF Placed, Controlled, Types
<1>2. ClusterBase[k] \in Nat /\ HeapBase(k) \in Nat /\ ClusterBase[k] <= HeapBase(k) /\ L1Size \in Nat
  <2>1. /\ ClusterBase[k] \in Nat /\ HeapBase(k) \in Nat /\ HeapStart(k) + ClsSize <= HeapBase(k)
        /\ HeapStart(k) = ClusterBase[k] + link["cdata"] + link["cbss"] + link["l1"]
        /\ link["cdata"] \in Nat /\ link["cbss"] \in Nat /\ link["l1"] \in Nat /\ ClsSize \in Nat
    BY <1>1, HeapFacts DEF Sections
  <2> QED BY <2>1, StartupAssumption
<1>3. /\ e[1] \in Int /\ e[2] \in Int
      /\ b[1] \in Shared => ClusterBase[k] <= e[1] /\ e[2] <= HeapBase(k) + 4
      /\ b[1] \in Own => /\ h \in CoresOf(k) /\ stack[h] \in Int /\ size[k][h[2]] \in Nat /\ TlsSize \in Nat
                         /\ e[2] <= stack[h]
                         /\ e[1] = stack[h] - size[k][h[2]] \/ e[1] = stack[h] - TlsSize
  BY Spans
<1>4. PICK g \in CoresOf(k) : g \in Cores /\ stack[g] \in Int /\ size[k][g[2]] \in Nat
  BY <1>1, CoreFacts DEF Controlled, Types
<1>5. b[1] \in Shared \/ b[1] \in Own
  BY AreaFacts
<1> HIDE DEF e
<1>6. CASE Fits(k)
  <2>1. HeapBase(k) + 4 <= stack[g] - size[k][g[2]] /\ stack[g] <= ClusterBase[k] + L1Size
    BY <1>1, <1>4, <1>6, FitsFacts
  <2>2. HeapBase(k) + 4 <= ClusterBase[k] + L1Size
    BY <1>2, <1>4, <2>1
  <2>3. b[1] \in Own => /\ HeapBase(k) + 4 <= stack[h] - size[k][h[2]] /\ TlsSize <= size[k][h[2]]
                        /\ stack[h] <= ClusterBase[k] + L1Size
    BY <1>1, <1>3, <1>6, FitsFacts
  <2>4. b[1] \in Shared => ClusterBase[k] <= e[1] /\ e[2] <= ClusterBase[k] + L1Size
    BY <1>2, <1>3, <2>2
  <2>5. b[1] \in Own => ClusterBase[k] <= e[1] /\ e[2] <= ClusterBase[k] + L1Size
    BY <1>2, <1>3, <2>3
  <2> QED BY <1>5, <2>4, <2>5 DEF e
<1>7. CASE ~Fits(k)
  <2>1. HeapBase(k) + 4 <= ClusterBase[k] + L1Size
    BY <1>1, <1>7 DEF Contained
  <2>2. b[1] \in Own => ClusterBase[k] <= stack[h] - size[k][h[2]] /\ ClusterBase[k] <= stack[h] - TlsSize
    BY <1>1, <1>3, <1>7 DEF Contained
  <2>3. b[1] \in Own => stack[h] <= ClusterBase[k] + L1Size
    BY <1>1, <1>3 DEF Controlled, ControlInv, StackInv
  <2>4. b[1] \in Shared => ClusterBase[k] <= e[1] /\ e[2] <= ClusterBase[k] + L1Size
    BY <1>2, <1>3, <2>1
  <2>5. b[1] \in Own => ClusterBase[k] <= e[1] /\ e[2] <= ClusterBase[k] + L1Size
    BY <1>2, <1>3, <2>2, <2>3
  <2> QED BY <1>5, <2>4, <2>5 DEF e
<1> QED BY <1>6, <1>7

\* No two areas of a cluster whose stacks fit share an address.
LEMMA Apart ==
    ASSUME Controlled, NEW a \in Areas, NEW b \in Areas, a # b, a[2] = b[2], Fits(b[2]),
           Placed(a), Placed(b), NonEmpty(a), NonEmpty(b)
    PROVE  Extent(a)[2] <= Extent(b)[1] \/ Extent(b)[2] <= Extent(a)[1]
<1> DEFINE k == b[2]
           h == CoreOf(b)
           g == CoreOf(a)
           e == Extent(b)
           f == Extent(a)
<1>1. k \in Clusters /\ Awake(k) /\ link \in Links
  BY AreaFacts DEF Placed, Controlled, Types
<1>2. /\ e[1] \in Int /\ e[2] \in Int
      /\ b[1] \in Shared => e[2] <= HeapBase(k) + 4
      /\ b[1] \in Own => /\ h \in CoresOf(k) /\ stack[h] \in Int /\ size[k][h[2]] \in Nat /\ TlsSize \in Nat
                         /\ e[2] <= stack[h]
                         /\ e[1] = stack[h] - size[k][h[2]] \/ e[1] = stack[h] - TlsSize
  BY Spans
<1>3. /\ f[1] \in Int /\ f[2] \in Int
      /\ a[1] \in Shared => f[2] <= HeapBase(k) + 4
      /\ a[1] \in Own => /\ g \in CoresOf(k) /\ stack[g] \in Int /\ size[k][g[2]] \in Nat
                         /\ f[2] <= stack[g]
                         /\ f[1] = stack[g] - size[k][g[2]] \/ f[1] = stack[g] - TlsSize
  BY Spans
<1>4. /\ HeapBase(k) \in Nat /\ HeapStart(k) + ClsSize <= HeapBase(k)
      /\ ClusterBase[k] \in Nat /\ L1Start(k) \in Nat /\ HeapStart(k) \in Nat /\ ClsSize \in Nat
      /\ L1Start(k) = ClusterBase[k] + link["cdata"] + link["cbss"]
      /\ HeapStart(k) = L1Start(k) + link["l1"]
      /\ link["cdata"] \in Nat /\ link["cbss"] \in Nat /\ link["l1"] \in Nat
  BY <1>1, HeapFacts DEF Sections
<1>5. CASE a[1] \in Shared /\ b[1] \in Shared
  <2>1. a[1] # b[1]
    BY <1>5, AreaFacts DEF Shared, Loaded, Own
  <2>2. /\ b[1] = "cdata" => e[1] = ClusterBase[k] /\ e[2] = ClusterBase[k] + link["cdata"]
        /\ b[1] = "cbss" => e[1] = ClusterBase[k] + link["cdata"] /\ e[2] = L1Start(k)
        /\ b[1] = "l1" => e[1] = L1Start(k) /\ e[2] = HeapStart(k)
        /\ b[1] = "cls" => e[1] = HeapStart(k) /\ e[2] = HeapStart(k) + ClsSize
        /\ b[1] = "mutex" => e[1] = HeapBase(k) /\ e[2] = HeapBase(k) + 4
    BY Extents
  <2>3. /\ a[1] = "cdata" => f[1] = ClusterBase[k] /\ f[2] = ClusterBase[k] + link["cdata"]
        /\ a[1] = "cbss" => f[1] = ClusterBase[k] + link["cdata"] /\ f[2] = L1Start(k)
        /\ a[1] = "l1" => f[1] = L1Start(k) /\ f[2] = HeapStart(k)
        /\ a[1] = "cls" => f[1] = HeapStart(k) /\ f[2] = HeapStart(k) + ClsSize
        /\ a[1] = "mutex" => f[1] = HeapBase(k) /\ f[2] = HeapBase(k) + 4
    BY Extents
  <2>4. /\ a[1] \in {"cdata", "cbss", "l1", "cls", "mutex"}
        /\ b[1] \in {"cdata", "cbss", "l1", "cls", "mutex"}
    BY <1>5 DEF Shared, Loaded
  <2> HIDE DEF e, f
  <2>5. f[2] <= e[1] \/ e[2] <= f[1]
    BY <1>4, <2>1, <2>2, <2>3, <2>4
  <2> QED BY <2>5 DEF e, f
<1>6. ASSUME b[1] \in Own
      PROVE  /\ HeapBase(k) + 4 <= stack[h] - size[k][h[2]] /\ TlsSize <= size[k][h[2]]
             /\ HeapBase(k) + 4 <= e[1] /\ stack[h] - size[k][h[2]] <= e[1] /\ e[2] <= stack[h]
             /\ \A x \in CoresOf(k) : h[2] < x[2] => stack[x] <= stack[h] - size[k][h[2]]
  <2>1. /\ HeapBase(k) + 4 <= stack[h] - size[k][h[2]] /\ TlsSize <= size[k][h[2]]
        /\ \A x \in CoresOf(k) : h[2] < x[2] => stack[x] <= stack[h] - size[k][h[2]]
    BY <1>1, <1>2, <1>6, FitsFacts
  <2> HIDE DEF e, h
  <2> QED BY <1>2, <1>4, <1>6, <2>1
<1>7. ASSUME a[1] \in Own
      PROVE  /\ HeapBase(k) + 4 <= stack[g] - size[k][g[2]] /\ TlsSize <= size[k][g[2]]
             /\ HeapBase(k) + 4 <= f[1] /\ stack[g] - size[k][g[2]] <= f[1] /\ f[2] <= stack[g]
             /\ \A x \in CoresOf(k) : g[2] < x[2] => stack[x] <= stack[g] - size[k][g[2]]
  <2>0. TlsSize \in Nat
    BY <1>1, HeapFacts DEF TlsSize, Sections
  <2>1. /\ HeapBase(k) + 4 <= stack[g] - size[k][g[2]] /\ TlsSize <= size[k][g[2]]
        /\ \A x \in CoresOf(k) : g[2] < x[2] => stack[x] <= stack[g] - size[k][g[2]]
    BY <1>1, <1>3, <1>7, FitsFacts
  <2> HIDE DEF f, g
  <2> QED BY <1>3, <1>4, <1>7, <2>0, <2>1
<1>8. CASE a[1] \in Shared /\ b[1] \in Own
  <2> HIDE DEF e, f, h
  <2>1. f[2] <= e[1]
    BY <1>2, <1>3, <1>4, <1>6, <1>8
  <2> QED BY <2>1 DEF e, f
<1>9. CASE a[1] \in Own /\ b[1] \in Shared
  <2> HIDE DEF e, f, g
  <2>1. e[2] <= f[1]
    BY <1>2, <1>3, <1>4, <1>7, <1>9
  <2> QED BY <2>1 DEF e, f
<1>10. CASE a[1] \in Own /\ b[1] \in Own /\ g # h
  <2>1. g[2] \in Nat /\ h[2] \in Nat /\ g[2] # h[2]
    BY <1>1, <1>2, <1>3, <1>10, CoreFacts
  <2> HIDE DEF e, f, g, h
  <2>2. CASE g[2] < h[2]
    <3>1. stack[h] <= stack[g] - size[k][g[2]]
      BY <1>2, <1>7, <1>10, <2>2
    <3>2. e[2] <= f[1]
      BY <1>2, <1>3, <1>6, <1>7, <1>10, <3>1
    <3> QED BY <3>2 DEF e, f
  <2>3. CASE h[2] < g[2]
    <3>1. stack[g] <= stack[h] - size[k][h[2]]
      BY <1>3, <1>6, <1>10, <2>3
    <3>2. f[2] <= e[1]
      BY <1>2, <1>3, <1>6, <1>7, <1>10, <3>1
    <3> QED BY <3>2 DEF e, f
  <2> QED BY <2>1, <2>2, <2>3
<1>11. CASE a[1] \in Own /\ b[1] \in Own /\ g = h
  <2>1. a[1] # b[1]
    BY <1>11, AreaFacts DEF CoreOf
  <2>2. b[1] = "tls" => e[1] = stack[h] - TlsSize
    BY Extents
  <2>3. b[1] = "stack" => e[2] = sp[h]
    BY Extents
  <2>4. a[1] = "tls" => f[1] = stack[h] - TlsSize
    BY <1>11, Extents
  <2>5. a[1] = "stack" => f[2] = sp[h]
    BY <1>11, Extents
  <2>6. sp[h] <= stack[h] - TlsSize
    BY <1>11, Extents
  <2> HIDE DEF e, f, g, h
  <2>7. f[2] <= e[1] \/ e[2] <= f[1]
    BY <1>11, <2>1, <2>2, <2>3, <2>4, <2>5, <2>6 DEF Own
  <2> QED BY <2>7 DEF e, f
<1>12. (a[1] \in Shared \/ a[1] \in Own) /\ (b[1] \in Shared \/ b[1] \in Own)
  BY AreaFacts
<1> QED BY <1>5, <1>8, <1>9, <1>10, <1>11, <1>12

\* A store fills its area and leaves every other one alone, if their
\* clusters' stacks fit.
LEMMA StoreEffect ==
    ASSUME Controlled, Contained, NEW m, NEW a \in Areas, Placed(a),
           NEW b \in Areas, Placed(b), NonEmpty(b), Fits(b[2])
    PROVE  Store(m, a, Extent(a))[b] = IF b = a THEN "init" ELSE m[b]
<1> DEFINE e == Extent(b)
           f == Extent(a)
<1>1. e[1] \in Int /\ e[2] \in Int /\ e[1] < e[2]
  BY Spans
<1>2. CASE b = a
  <2>1. Overlap(e, f)
    BY <1>1, <1>2 DEF Overlap
  <2> QED BY <1>2, <2>1 DEF Store
<1>3. CASE b # a
  <2>1. ~Overlap(e, f)
    <3>1. CASE ~NonEmpty(a)
      BY <3>1 DEF Overlap, NonEmpty
    <3>2. CASE NonEmpty(a)
      <4>1. f[1] \in Int /\ f[2] \in Int
        BY <3>2, Spans
      <4>2. CASE a[2] = b[2]
        <5>1. f[2] <= e[1] \/ e[2] <= f[1]
          BY <1>3, <3>2, <4>2, Apart
        <5> HIDE DEF e, f
        <5> QED BY <1>1, <4>1, <5>1 DEF Overlap
      <4>3. CASE a[2] # b[2]
        <5>1. /\ ClusterBase[a[2]] <= f[1] /\ f[2] <= ClusterBase[a[2]] + L1Size
              /\ ClusterBase[b[2]] <= e[1] /\ e[2] <= ClusterBase[b[2]] + L1Size
          BY <3>2, Window
        <5>2. a[2] \in Clusters /\ b[2] \in Clusters
          BY AreaFacts
        <5>3. /\ ClusterBase[a[2]] \in Nat /\ ClusterBase[b[2]] \in Nat /\ L1Size \in Nat
              /\ \/ ClusterBase[a[2]] + L1Size <= ClusterBase[b[2]]
                 \/ ClusterBase[b[2]] + L1Size <= ClusterBase[a[2]]
          BY <4>3, <5>2, StartupAssumption
        <5> HIDE DEF e, f
        <5> QED BY <1>1, <4>1, <5>1, <5>3 DEF Overlap
      <4> QED BY <4>2, <4>3
    <3> QED BY <3>1, <3>2
  <2> QED BY <1>3, <2>1 DEF Store
<1> QED BY <1>2, <1>3

-----------------------------------------------------------------------------
(* The contents of the areas.                                              *)

\* Every area that is due after a step was due before it, or is one of X.
Carries(X) ==
    \A b \in Areas : Due(b)' /\ NonEmpty(b)' /\ Fits(b[2])' =>
        NonEmpty(b) /\ Fits(b[2]) /\ (Due(b) \/ b \in X)

LEMMA Unstored ==
    ASSUME MemInv, Carries({}), mem' = mem
    PROVE  MemInv'
BY DEF MemInv, Carries

LEMMA Stored ==
    ASSUME Controlled, Contained, MemInv, NEW a \in Areas, Placed(a), Carries({a}),
           mem' = Store(mem, a, Extent(a))
    PROVE  MemInv'
<1> SUFFICES ASSUME NEW b \in Areas, Due(b)', NonEmpty(b)', Fits(b[2])' PROVE mem'[b] = "init"
  BY DEF MemInv
<1>1. NonEmpty(b) /\ Fits(b[2]) /\ (Due(b) \/ b = a)
  BY DEF Carries
<1>2. Placed(b)
  BY <1>1, DuePlaced
<1>3. mem'[b] = IF b = a THEN "init" ELSE mem[b]
  BY <1>1, <1>2, StoreEffect
<1> QED BY <1>1, <1>3 DEF MemInv

LEMMA StoredTwice ==
    ASSUME Controlled, Contained, MemInv, NEW a \in Areas, Placed(a), NEW c \in Areas, Placed(c),
           Carries({a, c}), mem' = Store(Store(mem, a, Extent(a)), c, Extent(c))
    PROVE  MemInv'
<1> SUFFICES ASSUME NEW b \in Areas, Due(b)', NonEmpty(b)', Fits(b[2])' PROVE mem'[b] = "init"
  BY DEF MemInv
<1>1. NonEmpty(b) /\ Fits(b[2]) /\ (Due(b) \/ b = a \/ b = c)
  BY DEF Carries
<1>2. Placed(b)
  BY <1>1, DuePlaced
<1> DEFINE m == Store(mem, a, Extent(a))
<1>3. m[b] = IF b = a THEN "init" ELSE mem[b]
  BY <1>1, <1>2, StoreEffect
<1>4. mem' = Store(m, c, Extent(c))
  OBVIOUS
<1> HIDE DEF m
<1>5. mem'[b] = IF b = c THEN "init" ELSE m[b]
  BY <1>1, <1>2, <1>4, StoreEffect
<1> QED BY <1>1, <1>3, <1>5 DEF MemInv

\* What the place of area b depends on.
Fixed(b) ==
    /\ b[1] = "mutex" => alloc'[b[2]].base = alloc[b[2]].base
    /\ b[1] \in Own => sp'[CoreOf(b)] = sp[CoreOf(b)] /\ tp'[CoreOf(b)] = tp[CoreOf(b)]

LEMMA ExtentKept ==
    ASSUME NEW b \in Areas, UNCHANGED <<link, size, stack>>, Fixed(b)
    PROVE  Extent(b)' = Extent(b)
<1>1. b[1] \in {"cdata", "cbss", "l1", "cls", "mutex", "tls", "stack"}
  BY AreaFacts DEF Shared, Loaded, Own
<1>2. CASE b[1] \in {"cdata", "cbss", "l1", "cls"}
  BY <1>2 DEF Extent, Aliased, cdata_start, cbss_start, L1Start, HeapStart
<1>3. CASE b[1] = "mutex"
  BY <1>3 DEF Extent, Fixed
<1>4. CASE b[1] = "tls"
  <2>1. tp'[<<b[2], b[3]>>] = tp[<<b[2], b[3]>>]
    BY <1>4 DEF Fixed, Own, CoreOf
  <2> QED BY <1>4, <2>1 DEF Extent
<1>5. CASE b[1] = "stack"
  <2>1. sp'[<<b[2], b[3]>>] = sp[<<b[2], b[3]>>]
    BY <1>5 DEF Fixed, Own, CoreOf
  <2> QED BY <1>5, <2>1 DEF Extent
<1> QED BY <1>1, <1>2, <1>3, <1>4, <1>5

LEMMA FitsKept ==
    ASSUME NEW k \in Clusters, link' = link, size'[k] = size[k], end'[k] = end[k]
    PROVE  Fits(k)' <=> Fits(k)
BY DEF Fits, HeapStart, L1Start

\* In a cluster that a step leaves alone, the same is due as before.
LEMMA DueKept ==
    ASSUME NEW b \in Areas, Same(b[2])
    PROVE  (Due(b)' <=> Due(b)) /\ Fixed(b)
<1>1. b[2] \in Clusters /\ (b[1] \in Own => CoreOf(b) \in CoresOf(b[2]))
  BY AreaFacts DEF Shared, Loaded, Own
<1>2. Mover(b[2]) \in CoresOf(b[2])
  BY <1>1, CoreFacts
<1>3. \A places : Stage(b[2], places)' <=> Stage(b[2], places)
  BY <1>2 DEF Stage, Same
<1> QED BY <1>1, <1>3 DEF Due, Same, Fixed

LEMMA MovesCarry ==
    ASSUME NEW h \in Cores, NEW to \in PCs, CoreMoves(h, to), pc[h] # "parked",
           Controlled, NEW X,
           \A b \in Areas : b[2] = h[1] /\ Due(b)' /\ NonEmpty(b)' => Fixed(b) /\ (Due(b) \/ b \in X)
    PROVE  Carries(X)
<1> SUFFICES ASSUME NEW b \in Areas, Due(b)', NonEmpty(b)', Fits(b[2])'
             PROVE  NonEmpty(b) /\ Fits(b[2]) /\ (Due(b) \/ b \in X)
  BY DEF Carries
<1>1. b[2] \in Clusters /\ UNCHANGED <<link, size, stack, end>>
  BY AreaFacts DEF CoreMoves
<1>2. Fits(b[2])
  BY <1>1, FitsKept
<1>3. Fixed(b) /\ (Due(b) \/ b \in X)
  <2>1. CASE b[2] = h[1]
    BY <2>1
  <2>2. CASE b[2] # h[1]
    <3>1. \A g \in CoresOf(b[2]) : g # h /\ g \in Cores
      BY <1>1, <2>2, CoreFacts
    <3>2. \A g \in Cores : g # h => pc'[g] = pc[g]
      BY DEF CoreMoves, Controlled, Types
    <3>3. Same(b[2])
      BY <1>1, <2>2, <3>1, <3>2 DEF Same, CoreMoves
    <3> QED BY <3>3, DueKept
  <2> QED BY <2>1, <2>2
<1>4. NonEmpty(b)
  BY <1>1, <1>3, ExtentKept DEF NonEmpty
<1> QED BY <1>2, <1>3, <1>4

\* The cores of cluster h[1] while core h is between the trampoline and the
\* barrier: none is in the application, before its step or after it.
LEMMA NoneInMain ==
    ASSUME Controlled, NEW h \in Cores, NEW to \in PCs, CoreMoves(h, to),
           pc[h] \notin {"parked", "main"}, to # "main"
    PROVE  /\ h[1] \in Clusters /\ ControlInv(h[1]) /\ Awake(h[1]) /\ pc'[h] = to
           /\ Mover(h[1]) \in CoresOf(h[1]) /\ h \in CoresOf(h[1])
           /\ \A g \in CoresOf(h[1]) : g # h => pc'[g] = pc[g]
           /\ \A places : Stage(h[1], places) <=> pc[Mover(h[1])] \in places
           /\ \A places : Stage(h[1], places)' <=> pc'[Mover(h[1])] \in places
<1>1. h[1] \in Clusters /\ ControlInv(h[1]) /\ Mover(h[1]) \in CoresOf(h[1]) /\ h \in CoresOf(h[1])
  BY CoreFacts DEF Controlled
<1>2. pc'[h] = to /\ \A g \in Cores : g # h => pc'[g] = pc[g]
  BY DEF CoreMoves, Controlled, Types
<1>3. \A g \in CoresOf(h[1]) : g \in Cores /\ (g # h => pc'[g] = pc[g])
  BY <1>1, <1>2, CoreFacts
<1>4. \A g \in CoresOf(h[1]) : pc[g] # "main"
  BY <1>1 DEF ControlInv, PlaceInv
<1>5. \A g \in CoresOf(h[1]) : pc'[g] # "main"
  BY <1>2, <1>3, <1>4
<1> QED BY <1>1, <1>2, <1>3, <1>4, <1>5 DEF Stage, Awake

LEMMA TrampolineMem ==
    ASSUME NEW h \in Cores, trampoline(h), Controlled, MemInv
    PROVE  MemInv'
<1> DEFINE k == h[1]
<1>1. /\ pc[h] = "trampoline" /\ CoreMoves(h, "tls")
      /\ UNCHANGED <<link, dma, alloc, mem, stack>>
      /\ \A g \in Cores : g # h => sp'[g] = sp[g] /\ tp'[g] = tp[g]
  BY CoreFacts DEF trampoline, CoreGoto, CoreMoves, hostVars, Controlled, Types
<1>2. "tls" \in PCs
  BY DEF PCs
<1>3. ASSUME NEW b \in Areas, b[2] = k, Due(b)' PROVE Fixed(b) /\ Due(b)
  <2>0. Mover(k) # h => pc'[Mover(k)] = pc[Mover(k)]
    BY <1>1, <1>2, NoneInMain
  <2>1. CASE b[1] \in Own
    <3>1. CoreOf(b) \in CoresOf(k) /\ CoreOf(b) \in Cores
      BY <1>3, <2>1, AreaFacts DEF Shared, Loaded, Own
    <3>2. pc'[CoreOf(b)] \in Inited
      BY <1>3, <2>1 DEF Due
    <3>3. CoreOf(b) # h /\ pc'[CoreOf(b)] = pc[CoreOf(b)]
      BY <1>1, <1>2, <3>1, <3>2, NoneInMain DEF Inited
    <3> QED BY <1>1, <2>1, <3>1, <3>2, <3>3 DEF Due, Fixed, Own, Loaded
  <2>2. CASE b[1] \in Shared
    <3>1. Mover(k) # h
      BY <1>1, <1>2, <1>3, <2>2, NoneInMain DEF Due, Shared
    <3>2. \A places : Stage(k, places)' <=> Stage(k, places)
      BY <1>1, <1>2, <2>0, <3>1, NoneInMain
    <3>3. b[1] \notin Own
      BY <2>2 DEF Shared, Loaded, Own
    <3> QED BY <1>1, <1>3, <3>2, <3>3 DEF Due, Fixed
  <2> QED BY <2>1, <2>2, AreaFacts
<1>4. Carries({})
  BY <1>1, <1>2, <1>3, MovesCarry
<1> QED BY <1>1, <1>4, Unstored

LEMMA ThreadInitMem ==
    ASSUME NEW h \in Cores, ThreadInit(h), Controlled, Contained, MemInv
    PROVE  MemInv'
<1> DEFINE k == h[1]
           to == IF snrt_is_dm_core(h) THEN "load" ELSE "barrier"
           frames == <<"stack", h[1], h[2]>>
           tls == <<"tls", h[1], h[2]>>
<1>1. /\ pc[h] = "tls" /\ CoreMoves(h, to)
      /\ UNCHANGED <<link, sp, tp, dma, alloc>>
  BY DEF ThreadInit, InitTls, CoreGoto, CoreMoves, hostVars
<1>2. to \in PCs /\ to \in {"load", "barrier"} /\ (h = Mover(k) => to = "load")
  BY CoreFacts DEF PCs
<1>3. /\ frames \in Areas /\ tls \in Areas /\ CoreOf(frames) = h /\ CoreOf(tls) = h
  BY AreaFacts DEF Own
<1>4. Placed(frames) /\ Placed(tls)
  <2>1. Awake(k)
    BY <1>1, CoreFacts DEF Awake
  <2> QED BY <1>1, <1>3, <2>1 DEF Placed
<1>5. mem' = Store(Store(mem, frames, Extent(frames)), tls, Extent(tls))
  <2>1. mem' = Store(Store(mem, frames, Extent(frames)), tls,
                     <<tp[h], tp[h] + link["tdata"] + link["tbss"]>>)
    BY DEF ThreadInit, InitTls
  <2>2. Extent(tls) = <<tp[h], tp[h] + (link["tdata"] + link["tbss"])>>
    <3>1. h = <<h[1], h[2]>>
      BY CoreFacts
    <3> QED BY <3>1 DEF Extent
  <2>3. tp[h] \in Int /\ link["tdata"] \in Nat /\ link["tbss"] \in Nat
    BY LinkFacts DEF Controlled, Types, Sections
  <2>4. tp[h] + (link["tdata"] + link["tbss"]) = tp[h] + link["tdata"] + link["tbss"]
    BY <2>3
  <2> QED BY <2>1, <2>2, <2>4
<1> HIDE DEF to
<1>6. ASSUME NEW b \in Areas, b[2] = k, Due(b)' PROVE Fixed(b) /\ (Due(b) \/ b \in {frames, tls})
  <2>1. CASE b[1] \in Own
    <3>1. CoreOf(b) \in CoresOf(k) /\ b = <<b[1], b[2], b[3]>>
      BY <1>6, <2>1, AreaFacts DEF Shared, Loaded, Own
    <3>2. CASE CoreOf(b) = h
      <4>1. b[3] = h[2]
        BY <3>2 DEF CoreOf
      <4> QED BY <1>1, <1>6, <2>1, <3>1, <4>1 DEF Own, Fixed
    <3>3. CASE CoreOf(b) # h
      <4>1. pc'[CoreOf(b)] = pc[CoreOf(b)]
        BY <1>1, <1>2, <3>1, <3>3, NoneInMain
      <4> QED BY <1>1, <1>6, <2>1, <4>1 DEF Due, Fixed, Own, Loaded
    <3> QED BY <3>2, <3>3
  <2>2. CASE b[1] \in Shared
    <3>1. Mover(k) # h
      BY <1>1, <1>2, <1>6, <2>2, NoneInMain DEF Due, Shared
    <3>2. pc'[Mover(k)] = pc[Mover(k)]
      BY <1>1, <1>2, <3>1, NoneInMain
    <3> QED BY <1>1, <1>2, <1>6, <2>2, <3>2, NoneInMain DEF Due, Fixed, Shared, Loaded, Own
  <2> QED BY <2>1, <2>2, AreaFacts
<1>7. Carries({frames, tls})
  BY <1>1, <1>2, <1>6, MovesCarry
<1> QED BY <1>3, <1>4, <1>5, <1>7, StoredTwice

LEMMA LoadMem ==
    ASSUME NEW h \in Cores, LoadCluster(h), Controlled, MemInv
    PROVE  MemInv'
<1> DEFINE k == h[1]
           T == {[name |-> n, to |-> Destination(k, n)] : n \in {n \in Loaded : link[n] > 0}}
<1>1. /\ pc[h] = "load"
      /\ UNCHANGED <<link, sp, tp, alloc, mem, size, stack, end>>
      /\ pc' = [pc EXCEPT ![h] = "cls"]
  BY DEF LoadCluster, CoreGoto, hostVars
<1>a. dma' = [dma EXCEPT ![k] = T]
  BY Transfers DEF Controlled
<1>b. k \in Clusters /\ k \in DOMAIN dma /\ DOMAIN dma = Clusters
  BY CoreFacts DEF Controlled, Types
<1>2. "cls" \in PCs
  BY DEF PCs
<1>3. CoreMoves(h, "cls") /\ dma'[k] = T
  <2> HIDE DEF T
  <2> QED BY <1>1, <1>a, <1>b DEF CoreMoves
<1>4. h = Mover(k)
  BY <1>1, <1>b, CoreFacts DEF Controlled, ControlInv, PlaceInv
<1>5. ASSUME NEW b \in Areas, b[2] = k, Due(b)', NonEmpty(b)' PROVE Fixed(b) /\ Due(b)
  <2>1. Fixed(b)
    BY <1>1 DEF Fixed
  <2>2. CASE b[1] \in Own
    <3>1. CoreOf(b) \in CoresOf(k)
      BY <1>5, <2>2, AreaFacts DEF Shared, Loaded, Own
    <3>2. CoreOf(b) # h => pc'[CoreOf(b)] = pc[CoreOf(b)]
      BY <1>1, <1>2, <1>3, <3>1, NoneInMain
    <3> QED BY <1>1, <1>5, <2>1, <2>2, <3>2 DEF Due, Own, Loaded, Inited
  <2>3. CASE b[1] \in {"cls", "mutex"}
    BY <1>1, <1>2, <1>3, <1>4, <1>5, <2>3, NoneInMain DEF Due
  <2>4. CASE b[1] \in Loaded
    <3>1. \A t \in T : t.name # b[1]
      BY <1>3, <1>5, <2>4 DEF Due
    <3>2. ~(link[b[1]] > 0)
      <4>1. SUFFICES ASSUME link[b[1]] > 0 PROVE FALSE
        OBVIOUS
      <4>2. [name |-> b[1], to |-> Destination(k, b[1])] \in T
        BY <2>4, <4>1
      <4> QED BY <3>1, <4>2
    <3>3. NonEmpty(b)
      BY <1>1, <1>5, <2>1, ExtentKept DEF NonEmpty
    <3>4. Placed(b)
      <4>1. Awake(k)
        BY <1>1, <1>2, <1>3, NoneInMain
      <4> QED BY <1>5, <2>4, <4>1 DEF Placed, Loaded, Own
    <3>5. /\ b[1] = "cdata" => Extent(b) = <<ClusterBase[k], ClusterBase[k] + link["cdata"]>>
          /\ b[1] = "cbss" => Extent(b) = <<ClusterBase[k] + link["cdata"], L1Start(k)>>
          /\ b[1] = "l1" => Extent(b) = <<L1Start(k), HeapStart(k)>>
      BY <1>5, <3>4, Extents
    <3>6. link \in Links
      BY DEF Controlled, Types
    <3>7. /\ ClusterBase[k] \in Nat /\ link["cdata"] \in Nat /\ link["cbss"] \in Nat /\ link["l1"] \in Nat
          /\ L1Start(k) = ClusterBase[k] + link["cdata"] + link["cbss"] /\ HeapStart(k) = L1Start(k) + link["l1"]
          /\ L1Start(k) \in Nat
      BY <1>b, <3>6, HeapFacts DEF Sections
    <3> QED BY <2>4, <3>2, <3>3, <3>5, <3>7 DEF NonEmpty, Loaded
  <2> QED BY <2>2, <2>3, <2>4, AreaFacts DEF Shared
<1>6. Carries({})
  BY <1>1, <1>2, <1>3, <1>5, MovesCarry
<1> QED BY <1>1, <1>6, Unstored

\* The steps of the data mover after that: only shared areas become due.
LEMMA MoverCarries ==
    ASSUME NEW h \in Cores, NEW to \in {"wait", "printf", "barrier"}, CoreMoves(h, to),
           pc[h] \in {"cls", "wait", "printf"}, UNCHANGED <<sp, tp, dma>>, Controlled, NEW X,
           \A b \in Areas : b[2] = h[1] /\ b[1] \in Shared /\ Due(b)' => Fixed(b) /\ (Due(b) \/ b \in X)
    PROVE  Carries(X)
<1> DEFINE k == h[1]
<1>1. to \in PCs
  BY DEF PCs
<1>2. ASSUME NEW b \in Areas, b[2] = k, b[1] \in Own, Due(b)' PROVE Fixed(b) /\ Due(b)
  <2>1. CoreOf(b) \in CoresOf(k)
    BY <1>2, AreaFacts DEF Shared, Loaded, Own
  <2>2. CoreOf(b) # h => pc'[CoreOf(b)] = pc[CoreOf(b)]
    BY <1>1, <2>1, NoneInMain
  <2> QED BY <1>2, <2>2 DEF Due, Fixed, Own, Loaded, Inited
<1>3. \A b \in Areas : b[2] = k /\ Due(b)' => Fixed(b) /\ (Due(b) \/ b \in X)
  BY <1>2, AreaFacts
<1> QED BY <1>1, <1>3, MovesCarry

LEMMA ClsMem ==
    ASSUME NEW h \in Cores, InitCls(h), Controlled, Contained, MemInv
    PROVE  MemInv'
<1> DEFINE k == h[1]
           a == <<"cls", k, 0>>
<1>1. pc[h] = "cls" /\ CoreMoves(h, "wait") /\ UNCHANGED <<link, sp, tp, dma>>
  <2>1. \A j \in Clusters : j # k => alloc'[j] = alloc[j]
    BY DEF InitCls, Controlled, Types
  <2>2. pc[h] = "cls" /\ pc' = [pc EXCEPT ![h] = "wait"] /\ UNCHANGED <<link, sp, tp, dma, hostVars>>
    BY DEF InitCls, CoreGoto
  <2> QED BY <2>1, <2>2 DEF CoreMoves, hostVars
<1>2. "wait" \in PCs
  BY DEF PCs
<1>3. a \in Areas
  BY CoreFacts, AreaFacts DEF Shared
<1>4. k \in Clusters /\ ControlInv(k) /\ Awake(k)
  BY <1>1, <1>2, NoneInMain
<1>5. Placed(a) /\ Extent(a) = <<HeapStart(k), HeapStart(k) + ClsSize>>
  BY <1>4 DEF Placed, Own, Extent
<1>6. mem' = Store(mem, a, Extent(a))
  BY <1>5 DEF InitCls
<1>7. h = Mover(k) /\ pc'[h] = "wait"
  BY <1>1, <1>2, <1>4, NoneInMain DEF ControlInv, PlaceInv
<1>8. /\ Stage(k, {"cls", "wait", "printf", "barrier"})
      /\ ~Stage(k, {"barrier"})'
  BY <1>1, <1>2, <1>7, NoneInMain
<1>9. ASSUME NEW b \in Areas, b[2] = k, b[1] \in Shared, Due(b)' PROVE Fixed(b) /\ (Due(b) \/ b \in {a})
  <2>1. b[1] # "mutex" /\ b[3] = 0 /\ b = <<b[1], b[2], b[3]>> /\ b[1] \notin Own
    BY <1>8, <1>9, AreaFacts DEF Due, Shared, Loaded, Own
  <2>2. CASE b[1] = "cls"
    BY <1>9, <2>1, <2>2 DEF Fixed
  <2>3. CASE b[1] \in Loaded
    BY <1>1, <1>8, <1>9, <2>1, <2>3 DEF Fixed, Due, Loaded
  <2> QED BY <1>9, <2>1, <2>2, <2>3 DEF Shared
<1>10. Carries({a})
  <2> HIDE DEF a
  <2> QED BY <1>1, <1>9, MoverCarries
<1> QED BY <1>3, <1>5, <1>6, <1>10, Stored

LEMMA WaitMem ==
    ASSUME NEW h \in Cores, WaitAll(h), Controlled, MemInv
    PROVE  MemInv'
<1> DEFINE k == h[1]
<1>1. pc[h] = "wait" /\ CoreMoves(h, "printf") /\ UNCHANGED <<link, sp, tp, dma, alloc, mem>>
  BY DEF WaitAll, CoreGoto, CoreMoves, hostVars
<1>2. "printf" \in PCs
  BY DEF PCs
<1>3. h = Mover(k) /\ pc'[h] = "printf"
  BY <1>1, <1>2, NoneInMain DEF ControlInv, PlaceInv
<1>4. /\ Stage(k, {"cls", "wait", "printf", "barrier"}) /\ Stage(k, {"wait", "printf", "barrier"})
      /\ ~Stage(k, {"barrier"})'
  BY <1>1, <1>2, <1>3, NoneInMain
<1>5. ASSUME NEW b \in Areas, b[2] = k, b[1] \in Shared, Due(b)' PROVE Fixed(b) /\ (Due(b) \/ b \in {})
  BY <1>1, <1>4, <1>5 DEF Fixed, Due, Shared, Loaded, Own
<1>6. Carries({})
  BY <1>1, <1>5, MoverCarries
<1> QED BY <1>1, <1>6, Unstored

LEMMA PrintfMem ==
    ASSUME NEW h \in Cores, snrt_printf_init(h), Controlled, Contained, MemInv
    PROVE  MemInv'
<1> DEFINE k == h[1]
           a == <<"mutex", k, 0>>
<1>1. pc[h] = "printf" /\ CoreMoves(h, "barrier") /\ UNCHANGED <<link, sp, tp, dma>>
      /\ alloc'[k].base = alloc[k].base
  <2>0. k \in Clusters /\ alloc[k] \in [cls : Int, base : Int, end : Int, next : Int]
    BY CoreFacts DEF Controlled, Types
  <2> DEFINE r == [alloc[k] EXCEPT !.next = @ + ALIGN_UP(4, MinChunk)]
  <2>a. alloc' = [alloc EXCEPT ![k] = r] /\ k \in DOMAIN alloc /\ DOMAIN alloc = Clusters
    BY <2>0 DEF snrt_printf_init, Controlled, Types
  <2>b. r.base = alloc[k].base
    BY <2>0
  <2> HIDE DEF r
  <2>1. (\A j \in Clusters : j # k => alloc'[j] = alloc[j]) /\ alloc'[k] = r
    BY <2>a
  <2>2. pc[h] = "printf" /\ pc' = [pc EXCEPT ![h] = "barrier"] /\ UNCHANGED <<link, sp, tp, dma, hostVars>>
    BY DEF snrt_printf_init, CoreGoto
  <2> QED BY <2>1, <2>2, <2>b DEF CoreMoves, hostVars
<1>2. "barrier" \in PCs
  BY DEF PCs
<1>3. a \in Areas
  BY CoreFacts, AreaFacts DEF Shared
<1>4. k \in Clusters /\ ControlInv(k) /\ Awake(k)
  BY <1>1, <1>2, NoneInMain
<1>7. h = Mover(k) /\ pc'[h] = "barrier"
  BY <1>1, <1>2, <1>4, NoneInMain DEF ControlInv, PlaceInv
<1>8. /\ Stage(k, {"cls", "wait", "printf", "barrier"}) /\ Stage(k, {"wait", "printf", "barrier"})
  BY <1>1, <1>2, <1>7, NoneInMain
<1>a. alloc[k].base = HeapBase(k) /\ alloc[k].next = HeapBase(k)
  BY <1>1, <1>4, <1>7, <1>8 DEF ControlInv, AllocInv
<1>5. Placed(a) /\ Extent(a) = <<alloc[k].base, alloc[k].base + 4>>
  BY <1>4, <1>a DEF Placed, Own, Extent
<1>6. mem' = Store(mem, a, Extent(a))
  BY <1>5, <1>a DEF snrt_printf_init
<1>9. ASSUME NEW b \in Areas, b[2] = k, b[1] \in Shared, Due(b)' PROVE Fixed(b) /\ (Due(b) \/ b \in {a})
  <2>1. b[3] = 0 /\ b = <<b[1], b[2], b[3]>> /\ b[1] \notin Own
    BY <1>9, AreaFacts DEF Shared, Loaded, Own
  <2>2. Fixed(b)
    BY <1>1, <1>9, <2>1 DEF Fixed
  <2>3. CASE b[1] = "mutex"
    BY <1>9, <2>1, <2>2, <2>3
  <2>4. CASE b[1] # "mutex"
    BY <1>1, <1>8, <1>9, <2>1, <2>2, <2>4 DEF Due, Shared, Loaded
  <2> QED BY <2>3, <2>4
<1>10. Carries({a})
  <2> HIDE DEF a
  <2> QED BY <1>1, <1>9, MoverCarries
<1> QED BY <1>3, <1>5, <1>6, <1>10, Stored

LEMMA ReturnMem ==
    ASSUME NEW h \in Cores, Return(h), Controlled, MemInv
    PROVE  MemInv'
<1> DEFINE k == h[1]
<1>1. /\ pc[h] = "main" /\ CoreMoves(h, "parked") /\ UNCHANGED <<link, dma, alloc, mem>>
      /\ pc'[h] = "parked" /\ \A g \in Cores : g # h => pc'[g] = pc[g] /\ sp'[g] = sp[g] /\ tp'[g] = tp[g]
  BY DEF Return, CoreGoto, CoreMoves, hostVars, Controlled, Types
<1>2. "parked" \in PCs
  BY DEF PCs
<1>3. \A places : Stage(k, places)
  BY <1>1, CoreFacts DEF Stage
<1>4. ASSUME NEW b \in Areas, b[2] = k, Due(b)' PROVE Fixed(b) /\ Due(b)
  <2>1. CASE b[1] \in Own
    <3>1. CoreOf(b) \in Cores
      BY <2>1, AreaFacts DEF Shared, Loaded, Own
    <3>2. CoreOf(b) # h
      BY <1>1, <1>4, <2>1 DEF Due, Inited
    <3> QED BY <1>1, <1>4, <2>1, <3>1, <3>2 DEF Due, Fixed, Own, Loaded
  <2>2. CASE b[1] \in Shared
    BY <1>1, <1>3, <1>4, <2>2 DEF Due, Fixed, Shared, Loaded, Own
  <2> QED BY <2>1, <2>2, AreaFacts
<1>5. Carries({})
  BY <1>1, <1>2, <1>4, MovesCarry
<1> QED BY <1>1, <1>5, Unstored

LEMMA DmaMem ==
    ASSUME NEW k \in Clusters, CompleteDma(k), Controlled, Contained, MemInv
    PROVE  MemInv'
<1>1. PICK t \in dma[k] : /\ dma' = [dma EXCEPT ![k] = @ \ {t}]
                          /\ mem' = Store(mem, <<t.name, k, 0>>, <<t.to, t.to + link[t.name]>>)
  BY DEF CompleteDma
<1> DEFINE a == <<t.name, k, 0>>
<1>2. UNCHANGED <<link, pc, sp, tp, alloc, size, stack, end>>
  BY DEF CompleteDma, hostVars
<1>3. dma'[k] = dma[k] \ {t} /\ \A j \in Clusters : j # k => dma'[j] = dma[j]
  BY <1>1 DEF Controlled, Types
<1>4. /\ ControlInv(k) /\ t.name \in Loaded /\ t.to = Destination(k, t.name)
      /\ \A u \in dma[k] : u.name = t.name => u = t
  BY DEF Controlled, ControlInv, PlaceInv
<1>5. a \in Areas
  BY <1>4, AreaFacts DEF Shared
<1>6. Awake(k)
  BY CoreFacts DEF Controlled, ControlInv, PlaceInv, Awake
<1>7. Placed(a)
  BY <1>4, <1>6 DEF Placed, Loaded, Own
<1>8. Extent(a) = <<t.to, t.to + link[t.name]>>
  <2>1. link \in Links
    BY DEF Controlled, Types
  <2>2. /\ ClusterBase[k] \in Nat /\ link["cdata"] \in Nat /\ link["cbss"] \in Nat /\ link["l1"] \in Nat
        /\ L1Start(k) = ClusterBase[k] + link["cdata"] + link["cbss"] /\ HeapStart(k) = L1Start(k) + link["l1"]
        /\ L1Start(k) \in Nat
    BY <2>1, HeapFacts DEF Sections
  <2>3. /\ a[1] = "cdata" => Extent(a) = <<ClusterBase[k], ClusterBase[k] + link["cdata"]>>
        /\ a[1] = "cbss" => Extent(a) = <<ClusterBase[k] + link["cdata"], L1Start(k)>>
        /\ a[1] = "l1" => Extent(a) = <<L1Start(k), HeapStart(k)>>
    <3>1. a[2] = k
      OBVIOUS
    <3> HIDE DEF a
    <3> QED BY <1>5, <1>7, <3>1, Extents
  <2>4. a[1] = t.name
    OBVIOUS
  <2>5. t.name \in {"cdata", "cbss", "l1"}
    BY <1>4 DEF Loaded
  <2> HIDE DEF a
  <2>6. CASE t.name = "cdata"
    BY <1>4, <2>3, <2>4, <2>6 DEF Destination
  <2>7. CASE t.name = "cbss"
    BY <1>4, <2>2, <2>3, <2>4, <2>7 DEF Destination
  <2>8. CASE t.name = "l1"
    BY <1>4, <2>2, <2>3, <2>4, <2>8 DEF Destination
  <2> QED BY <2>5, <2>6, <2>7, <2>8
<1>9. mem' = Store(mem, a, Extent(a))
  BY <1>1, <1>8
<1>10. ASSUME NEW b \in Areas, Due(b)', NonEmpty(b)', Fits(b[2])'
       PROVE  NonEmpty(b) /\ Fits(b[2]) /\ (Due(b) \/ b \in {a})
  <2>1. b[2] \in Clusters /\ Fixed(b)
    BY <1>2, AreaFacts DEF Fixed
  <2>2. NonEmpty(b) /\ Fits(b[2])
    BY <1>2, <1>10, <2>1, ExtentKept, FitsKept DEF NonEmpty
  <2>3. \A places : Stage(b[2], places)' <=> Stage(b[2], places)
    BY <1>2 DEF Stage
  <2>4. CASE b[2] # k \/ b[1] \notin Loaded
    BY <1>2, <1>3, <1>10, <2>1, <2>2, <2>3, <2>4 DEF Due
  <2>5. CASE b[2] = k /\ b[1] \in Loaded /\ b[1] = t.name
    <3>1. b = a
      BY <2>5, AreaFacts DEF Shared, Loaded, Own
    <3> QED BY <2>2, <3>1
  <2>6. CASE b[2] = k /\ b[1] \in Loaded /\ b[1] # t.name
    <3>1. Stage(k, {"cls", "wait", "printf", "barrier"}) /\ \A u \in dma[k] : u.name # b[1]
      BY <1>3, <1>10, <2>3, <2>6 DEF Due
    <3> QED BY <2>2, <2>6, <3>1 DEF Due, Loaded, Own
  <2> QED BY <2>4, <2>5, <2>6
<1>11. Carries({a})
  BY <1>10 DEF Carries
<1> QED BY <1>5, <1>7, <1>9, <1>11, Stored

LEMMA BarrierMem ==
    ASSUME NEW k \in Clusters, Barrier(k), Controlled, MemInv
    PROVE  MemInv'
<1>1. /\ \A h \in CoresOf(k) : pc[h] = "barrier"
      /\ pc' = [h \in Cores |-> IF h[1] = k THEN "main" ELSE pc[h]]
      /\ UNCHANGED <<link, sp, tp, dma, alloc, mem, size, stack, end>>
  BY DEF Barrier, hostVars
<1>2. Mover(k) \in CoresOf(k)
  BY CoreFacts
<1>3. ASSUME NEW b \in Areas, Due(b)', NonEmpty(b)', Fits(b[2])'
      PROVE  NonEmpty(b) /\ Fits(b[2]) /\ Due(b)
  <2>1. b[2] \in Clusters /\ Fixed(b)
    BY <1>1, AreaFacts DEF Fixed
  <2>2. NonEmpty(b) /\ Fits(b[2])
    BY <1>1, <1>3, <2>1, ExtentKept, FitsKept DEF NonEmpty
  <2>3. CASE b[2] # k
    <3>1. Same(b[2])
      BY <1>1, <2>1, <2>3, CoreFacts DEF Same
    <3> QED BY <1>3, <2>2, <3>1, DueKept
  <2>4. CASE b[2] = k /\ b[1] \in Shared
    BY <1>1, <1>2, <1>3, <2>2, <2>4 DEF Due, Stage, Shared, Loaded, Own
  <2>5. CASE b[2] = k /\ b[1] \in Own
    <3>1. CoreOf(b) \in CoresOf(k)
      BY <2>5, AreaFacts DEF Shared, Loaded, Own
    <3> QED BY <1>1, <2>2, <2>5, <3>1 DEF Due, Inited, Own, Loaded
  <2> QED BY <2>3, <2>4, <2>5, AreaFacts
<1>4. Carries({})
  BY <1>3 DEF Carries
<1> QED BY <1>1, <1>4, Unstored

LEMMA StartMem ==
    ASSUME NEW k \in Clusters, NEW sizes, NEW sps, Start(k, sizes, sps), Controlled, MemInv
    PROVE  MemInv'
<1>1. /\ size' = [size EXCEPT ![k] = sizes]
      /\ stack' = [h \in Cores |-> IF h[1] = k THEN sps.ptr[h[2]] ELSE stack[h]]
      /\ end' = [end EXCEPT ![k] = sps.end]
      /\ pc' = [h \in Cores |-> IF h[1] = k THEN "trampoline" ELSE pc[h]]
      /\ mem' = [a \in Areas |-> IF a[2] = k THEN "left" ELSE mem[a]]
      /\ UNCHANGED <<link, sp, tp, dma, alloc>>
  BY DEF Start
<1> SUFFICES ASSUME NEW b \in Areas, Due(b)', NonEmpty(b)', Fits(b[2])' PROVE mem'[b] = "init"
  BY DEF MemInv
<1>2. b[2] \in Clusters
  BY AreaFacts
<1>3. b[2] # k
  <2>1. \A h \in CoresOf(k) : pc'[h] = "trampoline"
    BY <1>1, CoreFacts
  <2>2. Mover(k) \in CoresOf(k)
    BY CoreFacts
  <2>3. b[1] \in Own => CoreOf(b) \in CoresOf(b[2])
    BY AreaFacts DEF Shared, Loaded, Own
  <2> QED BY <2>1, <2>2, <2>3, AreaFacts DEF Due, Stage, Shared, Inited
<1>4. Same(b[2])
  BY <1>1, <1>2, <1>3, CoreFacts DEF Same, Controlled, Types
<1>5. Due(b) /\ Fits(b[2]) /\ Fixed(b)
  BY <1>1, <1>2, <1>4, DueKept, FitsKept DEF Same
<1>6. NonEmpty(b)
  <2>1. Extent(b)' = Extent(b)
    <3>1. b[1] \in Own => stack'[CoreOf(b)] = stack[CoreOf(b)] /\ size'[b[2]] = size[b[2]]
      BY <1>4, AreaFacts DEF Same, Shared, Loaded, Own
    <3>2. b[1] \in {"cdata", "cbss", "l1", "cls", "mutex", "tls", "stack"}
      BY AreaFacts DEF Shared, Loaded, Own
    <3>3. CASE b[1] \in {"cdata", "cbss", "l1", "cls", "mutex"}
      BY <1>1, <3>3 DEF Extent, Aliased, cdata_start, cbss_start, L1Start, HeapStart
    <3>4. CASE b[1] = "tls"
      BY <1>1, <3>4 DEF Extent
    <3>5. CASE b[1] = "stack"
      <4>1. stack'[<<b[2], b[3]>>] = stack[<<b[2], b[3]>>] /\ size'[b[2]] = size[b[2]]
        BY <3>1, <3>5 DEF Own, CoreOf
      <4> QED BY <1>1, <3>5, <4>1 DEF Extent
    <3> QED BY <3>2, <3>3, <3>4, <3>5
  <2> QED BY <2>1 DEF NonEmpty
<1>7. mem'[b] = mem[b]
  BY <1>1, <1>3
<1> QED BY <1>5, <1>6, <1>7 DEF MemInv

LEMMA MemInit == Init => MemInv
<1> SUFFICES ASSUME Init, NEW b \in Areas PROVE ~Due(b)
  BY DEF MemInv
<1>1. \A h \in Cores : pc[h] = "parked"
  BY DEF Init
<1>2. /\ b[2] \in Clusters /\ Mover(b[2]) \in Cores /\ \A h \in CoresOf(b[2]) : h \in Cores
      /\ b[1] \in Shared \/ (b[1] \in Own /\ CoreOf(b) \in Cores)
  BY AreaFacts, CoreFacts
<1> QED BY <1>1, <1>2 DEF Due, Stage, Shared, Inited

LEMMA MemStep ==
    ASSUME Controlled, Contained, MemInv, [Next]_vars
    PROVE  MemInv'
<1>1. ASSUME NEW k \in Clusters, NEW s \in Stacks, Offload(k, s) PROVE MemInv'
  <2>1. PICK sizes \in [Indices -> Nat], top \in Int : \E sps :
           top <= ClusterBase[k] + L1Size /\ SPsOf(sps, k, top, sizes) /\ Start(k, sizes, sps)
    BY <1>1, OffloadStarts
  <2>2. PICK sps : Start(k, sizes, sps)
    BY <2>1
  <2> QED BY <2>2, StartMem
<1>2. ASSUME NEW h \in Cores, CoreStep(h) \/ Return(h) PROVE MemInv'
  BY <1>2, TrampolineMem, ThreadInitMem, LoadMem, ClsMem, WaitMem, PrintfMem, ReturnMem DEF CoreStep
<1>3. ASSUME NEW k \in Clusters, ClusterStep(k) PROVE MemInv'
  BY <1>3, DmaMem, BarrierMem DEF ClusterStep
<1>4. CASE UNCHANGED vars
  <2>1. UNCHANGED <<link, pc, size, stack, end, sp, tp, dma, alloc, mem>>
    BY <1>4 DEF vars, hostVars
  <2>2. ASSUME NEW b \in Areas, Due(b)', NonEmpty(b)', Fits(b[2])'
        PROVE  NonEmpty(b) /\ Fits(b[2]) /\ Due(b)
    <3>1. b[2] \in Clusters /\ Same(b[2])
      BY <2>1, AreaFacts DEF Same
    <3>2. Due(b) /\ Fixed(b)
      BY <2>2, <3>1, DueKept
    <3> QED BY <2>1, <2>2, <3>1, <3>2, ExtentKept, FitsKept DEF NonEmpty
  <2>3. Carries({})
    BY <2>2 DEF Carries
  <2> QED BY <2>1, <2>3, Unstored
<1> QED BY <1>1, <1>2, <1>3, <1>4 DEF Next

\* When a core is in the application, all that it uses is due.
LEMMA DueInMain ==
    ASSUME Controlled, NEW h \in Cores, pc[h] = "main", NEW a \in OwnAreas(h) \cup SharedAreas(h[1])
    PROVE  a \in Areas /\ a[2] = h[1] /\ Due(a)
<1> DEFINE k == h[1]
<1>1. k \in Clusters /\ ControlInv(k) /\ h \in CoresOf(k) /\ h = <<h[1], h[2]>> /\ Mover(k) \in CoresOf(k)
  BY CoreFacts DEF Controlled
<1>2. \A places : Stage(k, places)
  BY <1>1 DEF Stage
<1>3. dma[k] = {}
  BY <1>1 DEF ControlInv, PlaceInv
<1>4. CASE a \in OwnAreas(h)
  <2>1. a = <<a[1], h[1], h[2]>> /\ a[1] \in Own
    BY <1>4 DEF OwnAreas, Own
  <2>2. a \in Areas /\ CoreOf(a) = h
    BY <2>1, AreaFacts
  <2>3. a[1] \notin Shared
    BY <2>1 DEF Own, Shared, Loaded
  <2> QED BY <2>1, <2>2, <2>3 DEF Due, Inited, Shared
<1>5. CASE a \in SharedAreas(k)
  <2>1. a = <<a[1], k, 0>> /\ a[1] \in Shared
    BY <1>5 DEF SharedAreas, Shared, Loaded
  <2>2. a \in Areas
    BY <1>1, <2>1, AreaFacts
  <2>3. a[1] \notin Own
    BY <2>1 DEF Own, Shared, Loaded
  <2> QED BY <1>2, <1>3, <2>1, <2>2, <2>3 DEF Due
<1> QED BY <1>4, <1>5

(* snrt_init: whichever core and DMA transfer of whichever cluster comes   *)
(* last, and on every later offload too, no application code runs in a     *)
(* cluster whose stacks fit before its core's stack and thread-local       *)
(* storage, the cluster's data, cleared variables, local storage and mutex *)
(* are in place, in the cluster's own L1, and nothing spoils them after;   *)
(* the data mover's _cls_ptr points to its own cluster's local storage.    *)
(* The code does not check that stacks fit, and a stack that runs out of   *)
(* its cluster's L1 can reach another cluster's: the theorem is about      *)
(* behaviours in which a cluster with too large stacks hits its own L1.    *)
THEOREM StartsReady == Spec /\ []Contained => []ReadyInMain
<1>1. Init => MemInv
  BY MemInit
<1>2. Controlled /\ Contained /\ MemInv /\ [Next]_vars => MemInv'
  BY MemStep
<1>3. Controlled /\ Contained /\ MemInv => ReadyInMain
  <2> SUFFICES ASSUME Controlled, Contained, MemInv,
                      NEW h \in Cores, pc[h] = "main", Fits(h[1])
               PROVE  /\ \A a \in OwnAreas(h) \cup SharedAreas(h[1]) : Extent(a)[1] < Extent(a)[2] =>
                            /\ mem[a] = "init"
                            /\ ClusterBase[h[1]] <= Extent(a)[1]
                            /\ Extent(a)[2] <= ClusterBase[h[1]] + L1Size
                      /\ alloc[h[1]].cls = Extent(<<"cls", h[1], 0>>)[1]
    BY DEF ReadyInMain
  <2>1. ASSUME NEW a \in OwnAreas(h) \cup SharedAreas(h[1]), Extent(a)[1] < Extent(a)[2]
        PROVE  /\ mem[a] = "init"
               /\ ClusterBase[h[1]] <= Extent(a)[1] /\ Extent(a)[2] <= ClusterBase[h[1]] + L1Size
    <3>1. a \in Areas /\ a[2] = h[1] /\ Due(a)
      BY <2>1, DueInMain
    <3>2. Placed(a) /\ NonEmpty(a)
      BY <2>1, <3>1, DuePlaced DEF NonEmpty
    <3> QED BY <3>1, <3>2, Window DEF MemInv
  <2>2. alloc[h[1]].cls = HeapStart(h[1])
    BY CoreFacts DEF Controlled, ControlInv, AllocInv, Stage
  <2>3. Extent(<<"cls", h[1], 0>>)[1] = HeapStart(h[1])
    BY DEF Extent
  <2> QED BY <2>1, <2>2, <2>3
<1> QED BY <1>1, <1>2, <1>3, Control, PTL DEF Spec
=============================================================================
