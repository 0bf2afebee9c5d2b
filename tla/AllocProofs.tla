---------------------------- MODULE AllocProofs ----------------------------
(***************************************************************************)
(* Proofs about Alloc, for any heap, alignment, header and set of sizes,   *)
(* when no size is so large that an address wraps around.                  *)
(***************************************************************************)
EXTENDS TLAPS, Alloc

-----------------------------------------------------------------------------
(* The inductive invariant: the blocks lie one behind another below the    *)
(* bump pointer, each with room for its header and for what its size field *)
(* says, and a holder's share is no larger than that field.                *)
Layout ==
    /\ ptr \in HeapStart .. HeapEnd /\ ptr % Alignment = 0
    /\ \A a \in blocks :
        /\ a >= HeapStart /\ a % Alignment = 0
        /\ a + TotalSize(bsize[a]) <= ptr
    /\ \A a, b \in blocks : a < b => a + TotalSize(bsize[a]) <= b
    /\ \A h \in live : h.want <= bsize[h.block]

IInv == AllocTypeOK /\ BlocksAccounted /\ Layout

-----------------------------------------------------------------------------
(* Multiples of the alignment.                                             *)

\* A product is a multiple of its second factor.
LEMMA ProductAligned ==
    ASSUME NEW m \in Nat, NEW A \in Nat \ {0}
    PROVE  (m * A) % A = 0
  OBVIOUS

\* A number without remainder is the product of its quotient.
LEMMA AlignedProduct ==
    ASSUME NEW x \in Nat, NEW A \in Nat \ {0}, x % A = 0
    PROVE  \E k \in Nat : x = k * A
  <1>1. x = (x \div A) * A /\ x \div A \in Nat
    OBVIOUS
  <1> QED  BY <1>1

\* The sum of two multiples is one, which keeps the bump pointer aligned.
LEMMA SumAligned ==
    ASSUME NEW x \in Nat, NEW y \in Nat, NEW A \in Nat \ {0},
           x % A = 0, y % A = 0
    PROVE  (x + y) % A = 0
  <1>1. PICK k \in Nat : x = k * A
    BY AlignedProduct
  <1>2. PICK l \in Nat : y = l * A
    BY AlignedProduct
  <1>3. x + y = (k + l) * A /\ k + l \in Nat
    BY <1>1, <1>2
  <1> QED  BY <1>3, ProductAligned

\* Rounding up gives the next multiple.
LEMMA RoundUp ==
    ASSUME NEW x \in Nat, NEW A \in Nat \ {0}
    PROVE  LET r == ((x + A - 1) \div A) * A
           IN r \in Nat /\ x <= r /\ r < x + A /\ r % A = 0
  <1>1. (x + A - 1) \div A \in Nat
    OBVIOUS
  <1>2. ((x + A - 1) \div A) * A >= x
    OBVIOUS
  <1>3. ((x + A - 1) \div A) * A < x + A
    OBVIOUS
  <1>4. (((x + A - 1) \div A) * A) % A = 0
    BY <1>1, ProductAligned
  <1> QED  BY <1>1, <1>2, <1>3, <1>4

\* A number below the word size is not changed by wrapping around.
LEMMA NoWrap ==
    ASSUME NEW x \in Nat, x < WordSize
    PROVE  x % WordSize = x
  BY AllocAssumption DEF AllocAssumption

\* A size is a natural number.
LEMMA SizesNat == Sizes \subseteq Nat
  BY AllocAssumption DEF AllocAssumption

(* total_size has room for the header and the payload, is aligned, and     *)
(* added to an address of the heap it does not wrap around.                *)
LEMMA TotalSizeFacts ==
    ASSUME SizesFit, NEW n \in Sizes
    PROVE  /\ TotalSize(n) \in Nat
           /\ n + Header <= TotalSize(n)
           /\ TotalSize(n) % Alignment = 0
           /\ HeapEnd + TotalSize(n) < WordSize
  <1>1. /\ n \in Nat /\ Header \in Nat /\ HeapEnd \in Nat
        /\ Alignment \in Nat \ {0} /\ WordSize \in Nat
        /\ HeapEnd + Header + n + Alignment <= WordSize
    BY AllocAssumption DEF AllocAssumption, SizesFit
  <1>2. (n + Header) % WordSize = n + Header
    BY <1>1, NoWrap
  <1>3. (n + Header + Alignment - 1) % WordSize = n + Header + Alignment - 1
    BY <1>1, NoWrap
  <1>4. TotalSize(n) = ((n + Header + Alignment - 1) \div Alignment) * Alignment
    BY <1>2, <1>3 DEF TotalSize, AllocAlign
  <1>5. /\ TotalSize(n) \in Nat /\ n + Header <= TotalSize(n)
        /\ TotalSize(n) < n + Header + Alignment /\ TotalSize(n) % Alignment = 0
    <2> DEFINE x == n + Header
    <2>1. x \in Nat
      BY <1>1
    <2>2. LET r == ((x + Alignment - 1) \div Alignment) * Alignment
          IN r \in Nat /\ x <= r /\ r < x + Alignment /\ r % Alignment = 0
      <3> HIDE DEF x
      <3> QED  BY <2>1, <1>1, RoundUp
    <2> QED  BY <1>4, <2>2
  <1> QED  BY <1>1, <1>5

-----------------------------------------------------------------------------
(* The free list.                                                          *)

\* Unlink drops the i-th block and keeps the others.
LEMMA UnlinkFacts ==
    ASSUME NEW S, NEW s \in Seq(S), NEW i \in 1..Len(s)
    PROVE  /\ Unlink(s, i) \in Seq(S)
           /\ Len(Unlink(s, i)) = Len(s) - 1
           /\ \A j \in 1..Len(s)-1 :
                Unlink(s, i)[j] = IF j < i THEN s[j] ELSE s[j + 1]
           /\ \A j \in 1..Len(s) : j # i =>
                \E k \in 1..Len(s)-1 : Unlink(s, i)[k] = s[j]
  <1>1. Len(s) - 1 \in Nat
    OBVIOUS
  <1>2. \A j \in 1..Len(s)-1 : (IF j < i THEN s[j] ELSE s[j + 1]) \in S
    OBVIOUS
  <1>3. Unlink(s, i) \in [1..Len(s)-1 -> S]
    BY <1>2 DEF Unlink
  <1>4. Unlink(s, i) \in Seq(S) /\ Len(Unlink(s, i)) = Len(s) - 1
    BY <1>1, <1>3
  <1>5. \A j \in 1..Len(s)-1 : Unlink(s, i)[j] = IF j < i THEN s[j] ELSE s[j + 1]
    BY DEF Unlink
  <1>6. ASSUME NEW j \in 1..Len(s), j # i
        PROVE  \E k \in 1..Len(s)-1 : Unlink(s, i)[k] = s[j]
    <2>1. CASE j < i
      <3>1. j \in 1..Len(s)-1 /\ Unlink(s, i)[j] = s[j]
        BY <2>1, <1>5
      <3> QED  BY <3>1
    <2>2. CASE j > i
      <3>1. j - 1 \in 1..Len(s)-1 /\ ~(j - 1 < i) /\ (j - 1) + 1 = j
        BY <2>2
      <3>2. Unlink(s, i)[j - 1] = s[j]
        BY <3>1, <1>5
      <3> QED  BY <3>1, <3>2
    <2> QED  BY <1>6, <2>1, <2>2
  <1> QED  BY <1>4, <1>5, <1>6

\* If no block is twice in the list, none is after Unlink, and the i-th is gone.
LEMMA UnlinkDistinct ==
    ASSUME NEW S, NEW s \in Seq(S), NEW i \in 1..Len(s),
           \A j, k \in 1..Len(s) : s[j] = s[k] => j = k
    PROVE  /\ \A j, k \in 1..Len(s)-1 : Unlink(s, i)[j] = Unlink(s, i)[k] => j = k
           /\ \A j \in 1..Len(s)-1 : Unlink(s, i)[j] # s[i]
  <1> DEFINE at(j) == IF j < i THEN j ELSE j + 1
  <1>1. \A j \in 1..Len(s)-1 : /\ at(j) \in 1..Len(s) /\ at(j) # i
                               /\ Unlink(s, i)[j] = s[at(j)]
    BY DEF Unlink
  <1>2. \A j, k \in 1..Len(s)-1 : at(j) = at(k) => j = k
    OBVIOUS
  <1> HIDE DEF at
  <1> QED  BY <1>1, <1>2

\* A block put in front of the list.
LEMMA PrependFacts ==
    ASSUME NEW S, NEW s \in Seq(S), NEW a \in S
    PROVE  /\ <<a>> \o s \in Seq(S)
           /\ Len(<<a>> \o s) = Len(s) + 1
           /\ (<<a>> \o s)[1] = a
           /\ \A j \in 2..Len(s)+1 : (<<a>> \o s)[j] = s[j - 1]
           /\ \A j \in 1..Len(s) : (<<a>> \o s)[j + 1] = s[j]
  OBVIOUS

-----------------------------------------------------------------------------
(* The invariant holds from the start.                                     *)
LEMMA InitIInv == AllocInit => IInv
  <1> SUFFICES ASSUME AllocInit PROVE IInv
    OBVIOUS
  <1>1. AllocTypeOK
    BY AllocAssumption DEF AllocAssumption, AllocInit, AllocTypeOK
  <1>2. BlocksAccounted
    BY DEF AllocInit, BlocksAccounted
  <1>3. Layout
    BY AllocAssumption DEF AllocAssumption, AllocInit, Layout
  <1> QED  BY <1>1, <1>2, <1>3 DEF IInv

(* A block from the free list: only the list and the holders change.       *)
LEMMA ReuseIInv ==
    ASSUME IInv, NEW n \in Sizes, Reuse(n)
    PROVE  IInv'
  <1> USE DEF IInv
  <1>1. PICK i \in 1..Len(freelist) :
            /\ Fits(freelist[i], n)
            /\ freelist' = Unlink(freelist, i)
            /\ live' = live \cup {Holding(freelist[i], n)}
            /\ UNCHANGED <<ptr, blocks, bsize>>
    BY DEF Reuse
  <1>2. freelist \in Seq(blocks) /\ freelist[i] \in blocks
    BY DEF AllocTypeOK
  <1> DEFINE a == freelist[i]
             u == Unlink(freelist, i)
  <1>3. /\ u \in Seq(blocks) /\ Len(u) = Len(freelist) - 1
        /\ \A j \in 1..Len(freelist)-1 :
             u[j] = IF j < i THEN freelist[j] ELSE freelist[j + 1]
        /\ \A j \in 1..Len(freelist) : j # i =>
             \E k \in 1..Len(freelist)-1 : u[k] = freelist[j]
    BY <1>2, UnlinkFacts
  <1>4. Holding(a, n) \in [block : blocks, want : Sizes]
        /\ Holding(a, n).block = a /\ Holding(a, n).want = n
    BY <1>2 DEF Holding
  <1> HIDE DEF a, u
  <1>5. AllocTypeOK'
    BY <1>1, <1>3, <1>4 DEF AllocTypeOK, a, u
  <1>6. BlocksAccounted'
    <2>1. /\ \A j, k \in 1..Len(u) : u[j] = u[k] => j = k
          /\ \A j \in 1..Len(u) : u[j] # a
      <3>1. \A j, k \in 1..Len(freelist) : freelist[j] = freelist[k] => j = k
        BY DEF BlocksAccounted
      <3>2. /\ \A j, k \in 1..Len(freelist)-1 : u[j] = u[k] => j = k
            /\ \A j \in 1..Len(freelist)-1 : u[j] # a
        BY <1>2, <3>1, UnlinkDistinct DEF u, a
      <3> QED  BY <1>3, <3>2
    <2>2. \A h \in live : h.block # a
      BY DEF BlocksAccounted, a
    <2>3. \A h, g \in live' : h.block = g.block => h = g
      BY <1>1, <1>4, <2>2 DEF BlocksAccounted, a
    <2>5. \A h \in live, j \in 1..Len(u) : u[j] # h.block
      BY <1>2, <1>3 DEF BlocksAccounted
    <2>6. \A h \in live', j \in 1..Len(u) : u[j] # h.block
      BY <1>1, <1>4, <2>1, <2>5 DEF a
    <2>7. ASSUME NEW b \in blocks
          PROVE  \/ \E h \in live' : h.block = b
                 \/ \E j \in 1..Len(u) : u[j] = b
      <3>1. CASE \E h \in live : h.block = b
        BY <3>1, <1>1
      <3>2. CASE \E j \in 1..Len(freelist) : freelist[j] = b
        <4>1. PICK j \in 1..Len(freelist) : freelist[j] = b
          BY <3>2
        <4>2. CASE j = i
          BY <4>1, <4>2, <1>1, <1>4 DEF a
        <4>3. CASE j # i
          BY <4>1, <4>3, <1>3
        <4> QED  BY <4>2, <4>3
      <3> QED  BY <3>1, <3>2 DEF BlocksAccounted
    <2> QED  BY <1>1, <2>1, <2>3, <2>6, <2>7 DEF BlocksAccounted, u
  <1>7. Layout'
    <2>1. bsize[a] >= n
      BY <1>1 DEF Fits, a
    <2>2. n <= bsize[a]
      BY <2>1, <1>2, AllocAssumption DEF AllocAssumption, AllocTypeOK, a
    <2>3. \A h \in live' : h.want <= bsize[h.block]
      BY <1>1, <1>4, <2>2 DEF Layout, a
    <2> QED  BY <1>1, <2>3 DEF Layout, TotalSize, AllocAlign
  <1> QED  BY <1>5, <1>6, <1>7

(* A new block at the bump pointer: it lies behind all others, and the     *)
(* pointer moves by its total size.                                        *)
LEMMA BumpIInv ==
    ASSUME SizesFit, IInv, NEW n \in Sizes, Bump(n)
    PROVE  IInv'
  <1> USE DEF IInv
  <1> DEFINE h == Holding(ptr, n)
  <1>1. /\ TotalSize(n) \in Nat /\ n + Header <= TotalSize(n)
        /\ TotalSize(n) % Alignment = 0 /\ HeapEnd + TotalSize(n) < WordSize
    BY TotalSizeFacts
  <1>2. /\ ptr \in Nat /\ ptr <= HeapEnd /\ HeapStart <= ptr /\ ptr % Alignment = 0
        /\ HeapEnd \in Nat /\ HeapStart \in Nat /\ WordSize \in Nat
        /\ Header \in Nat \ {0} /\ Alignment \in Nat \ {0} /\ n \in Nat
    BY AllocAssumption DEF AllocAssumption, Layout
  <1>3. BumpedBy(n) = ptr + TotalSize(n)
    BY <1>1, <1>2, NoWrap, ptr + TotalSize(n) \in Nat DEF BumpedBy
  <1>4. /\ ptr' = ptr + TotalSize(n) /\ ptr' <= HeapEnd
        /\ blocks' = blocks \cup {ptr} /\ live' = live \cup {h}
        /\ freelist' = freelist
        /\ bsize' = [a \in blocks \cup {ptr} |-> IF a = ptr THEN n ELSE bsize[a]]
    BY <1>3 DEF Bump
  <1>5. /\ h \in [block : blocks', want : Sizes] /\ h.block = ptr /\ h.want = n
    BY <1>4 DEF Holding
  <1> HIDE DEF h
  <1>6. \A a \in blocks : /\ a \in Nat /\ bsize[a] \in Sizes
                          /\ TotalSize(bsize[a]) \in Nat
                          /\ bsize[a] + Header <= TotalSize(bsize[a])
    BY TotalSizeFacts DEF AllocTypeOK
  <1>7. \A a \in blocks : a + TotalSize(bsize[a]) <= ptr /\ a < ptr
    <2> TAKE a \in blocks
    <2>1. a + TotalSize(bsize[a]) <= ptr
      BY DEF Layout
    <2>2. bsize[a] \in Nat
      BY <1>6, SizesNat
    <2>3. /\ a \in Nat /\ TotalSize(bsize[a]) \in Nat
          /\ bsize[a] + Header <= TotalSize(bsize[a])
      BY <1>6
    <2> QED  BY <1>2, <2>1, <2>2, <2>3
  <1>8. bsize'[ptr] = n /\ \A a \in blocks : bsize'[a] = bsize[a]
    <2>1. \A a \in blocks : a # ptr
      BY <1>2, <1>6, <1>7
    <2> QED  BY <1>4, <2>1
  <1>9. AllocTypeOK'
    <2>1. ptr' \in Nat
      BY <1>1, <1>2, <1>4
    <2>2. blocks' \subseteq Nat
      BY <1>2, <1>4 DEF AllocTypeOK
    <2>3. bsize' \in [blocks' -> Sizes]
      BY <1>4 DEF AllocTypeOK
    <2>4. freelist' \in Seq(blocks')
      BY <1>4 DEF AllocTypeOK
    <2>5. live' \subseteq [block : blocks', want : Sizes]
      BY <1>4, <1>5 DEF AllocTypeOK
    <2> QED  BY <2>1, <2>2, <2>3, <2>4, <2>5 DEF AllocTypeOK
  <1>10. BlocksAccounted'
    <2>1. \A g \in live : g.block # ptr
      BY <1>7 DEF AllocTypeOK
    <2>2. \A j \in 1..Len(freelist) : freelist[j] # ptr
      BY <1>7 DEF AllocTypeOK
    <2>3. \A f, g \in live' : f.block = g.block => f = g
      BY <1>4, <1>5, <2>1 DEF BlocksAccounted
    <2>4. \A g \in live', j \in 1..Len(freelist) : freelist[j] # g.block
      BY <1>4, <1>5, <2>2 DEF BlocksAccounted
    <2>5. \A a \in blocks' : \/ \E g \in live' : g.block = a
                             \/ \E j \in 1..Len(freelist) : freelist[j] = a
      BY <1>4, <1>5 DEF BlocksAccounted
    <2> QED  BY <1>4, <2>3, <2>4, <2>5 DEF BlocksAccounted
  <1>11. Layout'
    <2>1. ptr' \in HeapStart .. HeapEnd /\ ptr' % Alignment = 0
      <3>1. (ptr + TotalSize(n)) % Alignment = 0
        BY <1>1, <1>2, SumAligned
      <3>2. ptr + TotalSize(n) \in HeapStart .. HeapEnd
        BY <1>1, <1>2, <1>4
      <3> QED  BY <1>4, <3>1, <3>2
    <2>2. \A a \in blocks' : /\ a >= HeapStart /\ a % Alignment = 0
                             /\ a + TotalSize(bsize'[a]) <= ptr'
      BY <1>1, <1>2, <1>4, <1>6, <1>7, <1>8 DEF Layout
    <2>3. \A a, b \in blocks' : a < b => a + TotalSize(bsize'[a]) <= b
      BY <1>2, <1>4, <1>6, <1>7, <1>8 DEF Layout
    <2>4. \A g \in live : g.block \in blocks
      BY DEF AllocTypeOK
    <2>5. \A g \in live' : g.want <= bsize'[g.block]
      BY <1>2, <1>4, <1>5, <1>8, <2>4 DEF Layout
    <2> QED  BY <2>1, <2>2, <2>3, <2>5 DEF Layout, TotalSize, AllocAlign
  <1> QED  BY <1>9, <1>10, <1>11

(* A block is given back: it moves from its holder to the free list.       *)
LEMMA FreeIInv ==
    ASSUME IInv, NEW h \in live, Free(h)
    PROVE  IInv'
  <1> USE DEF IInv
  <1> DEFINE f == <<h.block>> \o freelist
  <1>1. /\ freelist' = f /\ live' = live \ {h}
        /\ ptr' = ptr /\ blocks' = blocks /\ bsize' = bsize
    BY DEF Free
  <1>2. h.block \in blocks /\ freelist \in Seq(blocks)
    BY DEF AllocTypeOK
  <1>3. /\ f \in Seq(blocks) /\ Len(f) = Len(freelist) + 1 /\ f[1] = h.block
        /\ \A j \in 2..Len(freelist)+1 : f[j] = freelist[j - 1]
        /\ \A j \in 1..Len(freelist) : f[j + 1] = freelist[j]
    BY <1>2, PrependFacts
  <1>4. Len(freelist) \in Nat
    BY <1>2
  <1> HIDE DEF f
  <1>5. AllocTypeOK'
    BY <1>1, <1>3 DEF AllocTypeOK
  <1>6. BlocksAccounted'
    <2>1. \A j, k \in 1..Len(f) : f[j] = f[k] => j = k
      <3> TAKE j, k \in 1..Len(f)
      <3>1. j = 1 \/ (j \in 2..Len(freelist)+1 /\ j - 1 \in 1..Len(freelist))
        BY <1>3, <1>4
      <3>2. k = 1 \/ (k \in 2..Len(freelist)+1 /\ k - 1 \in 1..Len(freelist))
        BY <1>3, <1>4
      <3>3. \A i \in 1..Len(freelist) : freelist[i] # h.block
        BY DEF BlocksAccounted
      <3>4. j - 1 \in 1..Len(freelist) /\ k - 1 \in 1..Len(freelist)
              /\ freelist[j - 1] = freelist[k - 1] => j - 1 = k - 1
        BY DEF BlocksAccounted
      <3> QED  BY <1>3, <3>1, <3>2, <3>3, <3>4
    <2>2. \A g, e \in live' : g.block = e.block => g = e
      BY <1>1 DEF BlocksAccounted
    <2>3. \A g \in live', j \in 1..Len(f) : f[j] # g.block
      <3> TAKE g \in live', j \in 1..Len(f)
      <3>1. j = 1 \/ (j \in 2..Len(freelist)+1 /\ j - 1 \in 1..Len(freelist))
        BY <1>3, <1>4
      <3>2. g \in live /\ g # h
        BY <1>1
      <3>3. g.block # h.block /\ \A i \in 1..Len(freelist) : freelist[i] # g.block
        BY <3>2 DEF BlocksAccounted
      <3> QED  BY <1>3, <3>1, <3>3
    <2>4. \A a \in blocks : \/ \E g \in live' : g.block = a
                            \/ \E j \in 1..Len(f) : f[j] = a
      <3> TAKE a \in blocks
      <3>1. CASE \E g \in live : g.block = a
        <4>1. PICK g \in live : g.block = a
          BY <3>1
        <4>2. CASE g = h
          BY <4>1, <4>2, <1>3, <1>4, 1 \in 1..Len(f)
        <4>3. CASE g # h
          BY <4>1, <4>3, <1>1
        <4> QED  BY <4>2, <4>3
      <3>2. CASE \E j \in 1..Len(freelist) : freelist[j] = a
        <4>1. PICK j \in 1..Len(freelist) : freelist[j] = a
          BY <3>2
        <4>2. j + 1 \in 1..Len(f) /\ f[j + 1] = a
          BY <4>1, <1>3, <1>4
        <4> QED  BY <4>2
      <3> QED  BY <3>1, <3>2 DEF BlocksAccounted
    <2> QED  BY <1>1, <2>1, <2>2, <2>3, <2>4 DEF BlocksAccounted
  <1>7. Layout'
    BY <1>1 DEF Layout, TotalSize, AllocAlign
  <1> QED  BY <1>5, <1>6, <1>7

-----------------------------------------------------------------------------
(* Every step keeps the invariant.                                         *)
LEMMA NextIInv ==
    ASSUME SizesFit, IInv, [AllocNext]_allocVars
    PROVE  IInv'
  <1>1. CASE \E n \in Sizes : Reuse(n)
    BY <1>1, ReuseIInv
  <1>2. CASE \E n \in Sizes : Bump(n)
    BY <1>2, BumpIInv
  <1>3. CASE UNCHANGED allocVars
    BY <1>3 DEF allocVars, IInv, AllocTypeOK, BlocksAccounted, Layout, TotalSize, AllocAlign
  <1>4. CASE \E n \in Sizes : MallocFails(n)
    BY <1>3, <1>4 DEF MallocFails
  <1>5. CASE \E h \in live : Free(h)
    BY <1>5, FreeIInv
  <1> QED  BY <1>1, <1>2, <1>3, <1>4, <1>5 DEF AllocNext

(* IInv is an invariant of the allocator.                                  *)
THEOREM AllocInvariance ==
    ASSUME SizesFit
    PROVE  AllocSpec => []IInv
  <1>1. AllocInit => IInv
    BY InitIInv
  <1>2. IInv /\ [AllocNext]_allocVars => IInv'
    BY NextIInv
  <1> QED  BY <1>1, <1>2, PTL DEF AllocSpec

\* What the layout says of one holder.
LEMMA HolderFacts ==
    ASSUME SizesFit, AllocTypeOK, Layout, NEW a \in blocks, NEW w \in Sizes, w <= bsize[a]
    PROVE  /\ a \in Nat /\ w \in Nat /\ ptr \in Nat /\ ptr <= HeapEnd
           /\ HeapStart <= a /\ a % Alignment = 0
           /\ a + Header + w <= ptr
           /\ \A b \in blocks : b > a => a + Header + w <= b
  <1>1. /\ a \in Nat /\ w \in Nat /\ ptr \in Nat /\ Header \in Nat /\ HeapEnd \in Nat
        /\ HeapStart \in Nat /\ bsize[a] \in Sizes /\ bsize[a] \in Nat /\ blocks \subseteq Nat
    BY SizesNat, AllocAssumption DEF AllocAssumption, AllocTypeOK
  <1>2. TotalSize(bsize[a]) \in Nat /\ bsize[a] + Header <= TotalSize(bsize[a])
    BY <1>1, TotalSizeFacts
  <1>3. /\ ptr <= HeapEnd /\ HeapStart <= a /\ a % Alignment = 0
        /\ a + TotalSize(bsize[a]) <= ptr
        /\ \A b \in blocks : a < b => a + TotalSize(bsize[a]) <= b
    BY <1>1 DEF Layout
  <1>4. a + Header + w <= a + TotalSize(bsize[a])
    BY <1>1, <1>2
  <1>5. ASSUME NEW b \in blocks, b > a PROVE a + Header + w <= b
    BY <1>1, <1>2, <1>3, <1>4, <1>5
  <1> QED  BY <1>1, <1>2, <1>3, <1>4, <1>5

(* memory_island_malloc and memory_island_free lose no block and give none *)
(* to two callers, and what a caller writes within the bytes it asked for  *)
(* reaches no other block's header or payload.                             *)
THEOREM AllocSafety ==
    ASSUME SizesFit
    PROVE  AllocSpec => [](AllocTypeOK /\ BlocksAccounted /\ PayloadsPrivate)
  <1>1. IInv => AllocTypeOK /\ BlocksAccounted /\ PayloadsPrivate
    <2> SUFFICES ASSUME IInv PROVE PayloadsPrivate
      BY DEF IInv
    <2>1. ptr <= HeapEnd
      BY AllocAssumption DEF AllocAssumption, IInv, Layout
    <2>2. ASSUME NEW h \in live
          PROVE  /\ h.block + Header + h.want <= ptr
                 /\ \A a \in blocks : a > h.block => h.block + Header + h.want <= a
      <3>1. h.block \in blocks /\ h.want \in Sizes
        BY DEF IInv, AllocTypeOK
      <3>2. h.want <= bsize[h.block]
        BY DEF IInv, Layout
      <3> QED  BY <3>1, <3>2, HolderFacts DEF IInv
    <2> QED  BY <2>1, <2>2 DEF PayloadsPrivate
  <1>2. AllocSpec => []IInv
    BY AllocInvariance
  <1> QED  BY <1>1, <1>2, PTL

-----------------------------------------------------------------------------
(* The refinement of Heap.                                                 *)

\* A block that was free or is new gives a range that nobody holds.
LEMMA HandsOutFresh ==
    ASSUME SizesFit, IInv, NEW a \in Nat, NEW n \in Sizes,
           \A h \in live : h.block # a,
           HeapStart <= a, a % Alignment = 0, a + Header + n <= HeapEnd,
           \A h \in live : h.block < a => h.block + Header + h.want <= a,
           \A h \in live : h.block > a => a + Header + n <= h.block,
           live' = live \cup {Holding(a, n)}
    PROVE  H!Next
  <1> DEFINE r == [addr |-> a + Header, size |-> n]
  <1>1. /\ Header \in Nat \ {0} /\ Alignment \in Nat \ {0} /\ HeapStart \in Nat
        /\ HeapEnd \in Nat /\ n \in Nat /\ Header % Alignment = 0
    BY SizesNat, AllocAssumption DEF AllocAssumption
  <1>2. Held' = Held \cup {r}
    <2> DEFINE rec(h) == [addr |-> h.block + Header, size |-> h.want]
    <2>1. rec(Holding(a, n)) = r
      BY DEF Holding
    <2>2. Held' = {rec(h) : h \in live'} /\ Held = {rec(h) : h \in live}
      BY DEF Held
    <2> HIDE DEF rec, r
    <2> QED  BY <2>1, <2>2
  <1>3. r.addr = a + Header /\ r.size = n /\ r = [addr |-> a + Header, size |-> n]
    OBVIOUS
  <1>4. (a + Header) % Alignment = 0
    BY <1>1, SumAligned
  <1>5. a + Header \in HeapStart .. HeapEnd
    BY <1>1
  <1>6. ASSUME NEW h \in live
        PROVE  /\ h.block + Header # a + Header
               /\ (h.block + Header .. h.block + Header + h.want - 1)
                    \cap (a + Header .. a + Header + n - 1) = {}
    <2>1. h.block \in Nat /\ h.want \in Nat /\ h.block # a
      BY SizesNat DEF IInv, AllocTypeOK
    <2>2. CASE h.block < a
      <3>1. h.block + Header + h.want <= a
        BY <2>2
      <3> QED  BY <2>1, <3>1, <1>1
    <2>3. CASE h.block > a
      <3>1. a + Header + n <= h.block
        BY <2>3
      <3> QED  BY <2>1, <3>1, <1>1
    <2> QED  BY <2>1, <2>2, <2>3
  <1>7. \A q \in Held : H!Range(q) \cap H!Range(r) = {} /\ q.addr # r.addr
    <2> TAKE q \in Held
    <2>1. PICK h \in live : q = [addr |-> h.block + Header, size |-> h.want]
      BY DEF Held
    <2>2. q.addr = h.block + Header /\ q.size = h.want
      BY <2>1
    <2> QED  BY <2>2, <1>3, <1>6 DEF H!Range
  <1> HIDE DEF r
  <1>8. H!Allocate(r)
    <2>1. r.addr % Alignment = 0 /\ r.addr + r.size <= HeapEnd
      BY <1>3, <1>4
    <2> QED  BY <1>2, <1>7, <2>1 DEF H!Allocate
  <1> QED  BY <1>3, <1>5, <1>8 DEF H!Next

\* A step of the allocator is a step of the abstract heap or changes nothing.
LEMMA StepRefines ==
    ASSUME SizesFit, IInv, [AllocNext]_allocVars
    PROVE  [H!Next]_Held
  <1> USE DEF IInv
  <1>1. ASSUME NEW n \in Sizes, Reuse(n) PROVE H!Next
    <2>1. PICK i \in 1..Len(freelist) :
              /\ Fits(freelist[i], n)
              /\ live' = live \cup {Holding(freelist[i], n)}
      BY <1>1 DEF Reuse
    <2> DEFINE a == freelist[i]
    <2>2. a \in blocks
      BY DEF AllocTypeOK
    <2>3. \A h \in live : h.block # a
      BY DEF BlocksAccounted
    <2>4. live' = live \cup {Holding(a, n)} /\ bsize[a] >= n
      BY <2>1 DEF Fits
    <2> HIDE DEF a
    <2>5. n <= bsize[a]
      BY <2>2, <2>4, SizesNat DEF AllocTypeOK
    <2>6. /\ a \in Nat /\ n \in Nat /\ ptr \in Nat /\ ptr <= HeapEnd
          /\ HeapStart <= a /\ a % Alignment = 0
          /\ a + Header + n <= ptr
          /\ \A b \in blocks : b > a => a + Header + n <= b
      BY <2>2, <2>5, HolderFacts
    <2>7. a + Header + n <= HeapEnd
      BY <2>6, AllocAssumption DEF AllocAssumption
    <2>8. ASSUME NEW h \in live
          PROVE  /\ h.block < a => h.block + Header + h.want <= a
                 /\ h.block > a => a + Header + n <= h.block
      <3>1. h.block \in blocks /\ h.want \in Sizes /\ h.want <= bsize[h.block]
        BY DEF AllocTypeOK, Layout
      <3>2. \A b \in blocks : b > h.block => h.block + Header + h.want <= b
        BY <3>1, HolderFacts
      <3>3. h.block \in Nat
        BY <3>1 DEF AllocTypeOK
      <3> QED  BY <2>2, <2>6, <3>1, <3>2, <3>3
    <2> QED  BY <2>3, <2>4, <2>6, <2>7, <2>8, HandsOutFresh
  <1>2. ASSUME NEW n \in Sizes, Bump(n) PROVE H!Next
    <2>1. /\ ptr \in Nat /\ HeapStart <= ptr /\ ptr <= HeapEnd /\ ptr % Alignment = 0
          /\ Header \in Nat \ {0} /\ n \in Nat /\ HeapEnd \in Nat /\ WordSize \in Nat
      BY SizesNat, AllocAssumption DEF AllocAssumption, Layout
    <2>2. /\ TotalSize(n) \in Nat /\ n + Header <= TotalSize(n)
          /\ HeapEnd + TotalSize(n) < WordSize
      BY TotalSizeFacts
    <2>3. BumpedBy(n) = ptr + TotalSize(n)
      BY <2>1, <2>2, NoWrap, ptr + TotalSize(n) \in Nat DEF BumpedBy
    <2>4. ptr + TotalSize(n) <= HeapEnd /\ live' = live \cup {Holding(ptr, n)}
      BY <1>2, <2>3 DEF Bump
    <2>5. ptr + Header + n <= HeapEnd
      BY <2>1, <2>2, <2>4
    <2>6. ASSUME NEW h \in live
          PROVE  h.block # ptr /\ h.block + Header + h.want <= ptr /\ ~(h.block > ptr)
      <3>1. h.block \in blocks /\ h.want \in Sizes /\ h.want <= bsize[h.block]
        BY DEF AllocTypeOK, Layout
      <3>2. h.block \in Nat /\ h.want \in Nat /\ h.block + Header + h.want <= ptr
        BY <3>1, HolderFacts
      <3> QED  BY <2>1, <3>2
    <2> QED  BY <2>1, <2>4, <2>5, <2>6, HandsOutFresh
  <1>3. ASSUME NEW h \in live, Free(h) PROVE H!Next
    <2> DEFINE rec(g) == [addr |-> g.block + Header, size |-> g.want]
    <2>1. live' = live \ {h}
      BY <1>3 DEF Free
    <2>2. ASSUME NEW g \in live, rec(g) = rec(h) PROVE g = h
      <3>1. g.block + Header = h.block + Header
        BY <2>2
      <3>2. g.block \in Nat /\ h.block \in Nat /\ Header \in Nat
        BY AllocAssumption DEF AllocAssumption, AllocTypeOK
      <3>3. g.block = h.block
        BY <3>1, <3>2
      <3> QED  BY <3>3 DEF BlocksAccounted
    <2>3. Held' = {rec(g) : g \in live'} /\ Held = {rec(g) : g \in live}
      BY DEF Held
    <2> HIDE DEF rec
    <2>4. Held' = Held \ {rec(h)} /\ rec(h) \in Held
      BY <2>1, <2>2, <2>3
    <2> QED  BY <2>4 DEF H!Next, H!Release
  <1>4. CASE UNCHANGED allocVars
    BY <1>4 DEF allocVars, Held
  <1>5. ASSUME NEW n \in Sizes, MallocFails(n) PROVE UNCHANGED Held
    BY <1>5 DEF MallocFails, allocVars, Held
  <1> QED  BY <1>1, <1>2, <1>3, <1>4, <1>5 DEF AllocNext

(* The allocator implements the abstract heap: every pointer it gives is   *)
(* aligned and its range lies inside the heap and overlaps no range that a *)
(* caller holds.                                                           *)
THEOREM AllocRefinement ==
    ASSUME SizesFit
    PROVE  AllocSpec => ImplementsHeap
  <1>1. AllocInit => H!Init
    BY DEF AllocInit, H!Init, Held
  <1>2. IInv /\ [AllocNext]_allocVars => [H!Next]_Held
    BY StepRefines
  <1>3. AllocSpec => []IInv
    BY AllocInvariance
  <1> QED  BY <1>1, <1>2, <1>3, PTL DEF AllocSpec, ImplementsHeap, H!Spec
=============================================================================
