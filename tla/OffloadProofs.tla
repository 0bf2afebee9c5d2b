--------------------------- MODULE OffloadProofs ---------------------------
(***************************************************************************)
(* Proofs about Offload, for any number of clusters, of cores in each of   *)
(* them and of offloads.                                                   *)
(***************************************************************************)
EXTENDS Offload, FiniteSetTheorems, WellFoundedInduction, TLAPS

-----------------------------------------------------------------------------
(* The numbers of the harts.  Induction over the clusters is done by       *)
(* looking at the smallest counterexample.                                 *)

\* Every non-empty set of natural numbers has a smallest element.
LEMMA Smallest ==
    ASSUME NEW S \in SUBSET Nat, S # {}
    PROVE  \E n \in S : \A m \in S : n <= m
<1> DEFINE R == {p \in Nat \X Nat : p[1] < p[2]}
<1>1. IsWellFoundedOn(R, Nat)
  BY NatLessThanWellFounded, Zenon DEF OpToRel
<1>2. PICK n \in S : \A m \in S : <<m, n>> \notin R
  <2> HIDE DEF R
  <2> QED BY <1>1, WFMin, Zenon
<1>3. ASSUME NEW m \in S PROVE ~(m < n)
  <2>1. m \in Nat /\ n \in Nat /\ <<m, n>> \in Nat \X Nat /\ <<m, n>>[1] = m /\ <<m, n>>[2] = n
    OBVIOUS
  <2> QED BY <1>2, <2>1, Zenon
<1> QED BY <1>3, SMT

\* f adds up the numbers of cores from start on, up to cluster n.
SumsUpTo(f, start, n) ==
    \A k \in 0 .. n : f[k] = IF k = 0 THEN start ELSE f[k - 1] + NumCores[k - 1]

LEMMA SumsExist ==
    ASSUME NEW start \in Nat
    PROVE  \E f \in [Clusters -> Nat] : SumsUpTo(f, start, NumClusters - 1)
<1> USE OffloadAssumption
<1> DEFINE Bad == {n \in Clusters : ~ \E f \in [0..n -> Nat] : SumsUpTo(f, start, n)}
<1>1. SUFFICES Bad = {}
  <2>1. NumClusters - 1 \in Clusters
    BY SMT DEF Clusters
  <2> QED BY <1>1, <2>1, Zenon DEF Clusters
<1>2. SUFFICES ASSUME Bad # {} PROVE FALSE
  OBVIOUS
<1>3. PICK n \in Bad : \A m \in Bad : n <= m
  <2>1. Bad \in SUBSET Nat
    BY SMT DEF Clusters
  <2> HIDE DEF Bad
  <2> QED BY <2>1, <1>2, Smallest
<1>4. n \in Clusters /\ n \in Nat /\ n <= NumClusters - 1
  BY SMT DEF Clusters
<1>5. CASE n = 0
  <2> DEFINE f == [k \in 0..0 |-> start]
  <2>1. f \in [0..0 -> Nat] /\ SumsUpTo(f, start, 0)
    BY SMT DEF SumsUpTo
  <2> QED BY <1>5, <2>1, Zenon
<1>6. CASE n # 0
  <2>1. n - 1 \in Clusters /\ n - 1 \in Nat /\ ~(n <= n - 1)
    BY <1>4, <1>6, SMT DEF Clusters
  <2>2. PICK g \in [0 .. n - 1 -> Nat] : SumsUpTo(g, start, n - 1)
    BY <1>3, <2>1, Zenon
  <2> DEFINE f == [k \in 0 .. n |-> IF k = n THEN g[n - 1] + NumCores[n - 1] ELSE g[k]]
  <2>3. f \in [0 .. n -> Nat]
    BY <1>4, <1>6, <2>1, SMT DEF Clusters
  <2>4. SumsUpTo(f, start, n)
    <3>1. \A k \in 0 .. n - 1 : f[k] = g[k]
      BY <1>4, <1>6
    <3>2. f[n] = f[n - 1] + NumCores[n - 1]
      BY <1>4, <1>6, <3>1
    <3>3. ASSUME NEW k \in 0 .. n - 1
          PROVE  f[k] = IF k = 0 THEN start ELSE f[k - 1] + NumCores[k - 1]
      <4>1. k = 0 \/ k - 1 \in 0 .. n - 1
        BY <1>4, <1>6
      <4>2. g[k] = IF k = 0 THEN start ELSE g[k - 1] + NumCores[k - 1]
        BY <2>2 DEF SumsUpTo
      <4> HIDE DEF f
      <4> QED BY <3>1, <4>1, <4>2
    <3> HIDE DEF f
    <3> QED BY <1>4, <1>6, <3>2, <3>3 DEF SumsUpTo
  <2> QED BY <2>3, <2>4, Zenon
<1> QED BY <1>4, <1>5, <1>6

\* There is no other such function.
LEMMA SumsUnique ==
    ASSUME NEW start, NEW f, NEW g,
           SumsUpTo(f, start, NumClusters - 1), SumsUpTo(g, start, NumClusters - 1)
    PROVE  \A k \in Clusters : f[k] = g[k]
<1> USE OffloadAssumption
<1> DEFINE Bad == {k \in Clusters : f[k] # g[k]}
<1>1. SUFFICES ASSUME Bad # {} PROVE FALSE
  OBVIOUS
<1>2. PICK n \in Bad : \A m \in Bad : n <= m
  <2>1. Bad \in SUBSET Nat
    BY SMT DEF Clusters
  <2> HIDE DEF Bad
  <2> QED BY <2>1, <1>1, Smallest
<1>3. n = 0 \/ f[n - 1] = g[n - 1]
  BY <1>2, SMT DEF Clusters
<1> QED BY <1>3, SMT DEF SumsUpTo, Clusters

\* HartBase and CoresBelow are what their definitions say.
LEMMA HartBaseSums ==
    HartBase \in [Clusters -> Nat] /\ SumsUpTo(HartBase, HostCores, NumClusters - 1)
<1> DEFINE D(f) == [k \in Clusters |-> IF k = 0 THEN HostCores ELSE f[k - 1] + NumCores[k - 1]]
<1>1. PICK f \in [Clusters -> Nat] : SumsUpTo(f, HostCores, NumClusters - 1)
  <2>1. HostCores \in Nat BY OffloadAssumption
  <2> QED BY <2>1, SumsExist
<1>2. f = D(f)
  BY <1>1 DEF SumsUpTo, Clusters
<1>3. HartBase = D(HartBase)
  <2>1. HartBase = CHOOSE g : g = D(g)
    BY DEF HartBase
  <2> HIDE DEF D
  <2> QED BY <1>2, <2>1, Zenon
<1>4. SumsUpTo(HartBase, HostCores, NumClusters - 1)
  BY <1>3 DEF SumsUpTo, Clusters
<1>5. \A k \in Clusters : HartBase[k] = f[k]
  <2> HIDE DEF D
  <2> QED BY <1>1, <1>4, SumsUnique
<1>6. HartBase = [k \in Clusters |-> HartBase[k]]
  BY <1>3
<1> HIDE DEF D
<1> QED BY <1>1, <1>4, <1>5, <1>6

LEMMA CoresBelowSums ==
    CoresBelow \in [Clusters -> Nat] /\ SumsUpTo(CoresBelow, 0, NumClusters - 1)
<1> DEFINE D(f) == [k \in Clusters |-> IF k = 0 THEN 0 ELSE f[k - 1] + NumCores[k - 1]]
<1>1. PICK f \in [Clusters -> Nat] : SumsUpTo(f, 0, NumClusters - 1)
  <2>1. 0 \in Nat OBVIOUS
  <2> QED BY <2>1, SumsExist
<1>2. f = D(f)
  BY <1>1 DEF SumsUpTo, Clusters
<1>3. CoresBelow = D(CoresBelow)
  <2>1. CoresBelow = CHOOSE g : g = D(g)
    BY DEF CoresBelow
  <2> HIDE DEF D
  <2> QED BY <1>2, <2>1, Zenon
<1>4. SumsUpTo(CoresBelow, 0, NumClusters - 1)
  BY <1>3 DEF SumsUpTo, Clusters
<1>5. \A k \in Clusters : CoresBelow[k] = f[k]
  <2> HIDE DEF D
  <2> QED BY <1>1, <1>4, SumsUnique
<1>6. CoresBelow = [k \in Clusters |-> CoresBelow[k]]
  BY <1>3
<1> HIDE DEF D
<1> QED BY <1>1, <1>4, <1>5, <1>6

\* The threshold of a cluster is its first hart.
LEMMA ThresholdIsBase == \A k \in Clusters : Threshold[k] = HartBase[k]
<1>1. Threshold = [k \in Clusters |-> HostCores + CoresBelow[k]]
  BY DEF Threshold
<1>2. SumsUpTo(Threshold, HostCores, NumClusters - 1)
  <2>1. ASSUME NEW k \in Clusters
        PROVE  Threshold[k] = IF k = 0 THEN HostCores ELSE Threshold[k - 1] + NumCores[k - 1]
    <3>1. k = 0 \/ k - 1 \in Clusters
      BY OffloadAssumption DEF Clusters
    <3>2. CoresBelow[k] = IF k = 0 THEN 0 ELSE CoresBelow[k - 1] + NumCores[k - 1]
      BY CoresBelowSums DEF SumsUpTo, Clusters
    <3>3. HostCores \in Nat /\ \A j \in Clusters : CoresBelow[j] \in Nat /\ NumCores[j] \in Nat
      BY CoresBelowSums, OffloadAssumption
    <3> QED BY <1>1, <3>1, <3>2, <3>3
  <2> QED BY <2>1 DEF SumsUpTo, Clusters
<1> QED BY <1>2, HartBaseSums, SumsUnique

\* A cluster's harts come before the next one's first hart.
LEMMA HartBaseAscends ==
    ASSUME NEW j \in Clusters, NEW k \in Clusters, j < k
    PROVE  HartBase[j] + NumCores[j] <= HartBase[k]
<1> USE OffloadAssumption, HartBaseSums
<1> DEFINE Bad == {n \in Clusters : j < n /\ ~(HartBase[j] + NumCores[j] <= HartBase[n])}
<1>1. SUFFICES ASSUME Bad # {} PROVE FALSE
  OBVIOUS
<1>2. PICK n \in Bad : \A m \in Bad : n <= m
  <2>1. Bad \in SUBSET Nat
    BY SMT DEF Clusters
  <2> HIDE DEF Bad
  <2> QED BY <2>1, <1>1, Smallest
<1>3. n \in Clusters /\ n # 0 /\ n - 1 \in Clusters /\ HartBase[n] = HartBase[n - 1] + NumCores[n - 1]
  <2>1. n \in Clusters /\ n # 0 /\ n - 1 \in Clusters
    BY SMT DEF Clusters
  <2> HIDE DEF Bad
  <2> QED BY <2>1 DEF SumsUpTo, Clusters
<1>4. n - 1 = j \/ HartBase[j] + NumCores[j] <= HartBase[n - 1]
  BY <1>2, <1>3, SMT DEF Clusters
<1>5. HartBase[j] \in Nat /\ NumCores[j] \in Nat /\ HartBase[n - 1] \in Nat /\ NumCores[n - 1] \in Nat
  BY <1>3
<1> QED BY <1>3, <1>4, <1>5, SMT

\* What __CLUSTER_ID_ASM computes from a hart's number is its cluster.
LEMMA HartNumbering ==
    /\ \A k \in Clusters : HartsOf[k] \subseteq Harts
    /\ \A h \in Harts : ClusterId[h] \in Clusters /\ h \in HartsOf[ClusterId[h]]
    /\ \A k \in Clusters : \A h \in HartsOf[k] : ClusterId[h] = k
    /\ \A k \in Clusters : \A i \in 0 .. NumCores[k] - 1 : HartId(k, i) \in HartsOf[k]
    /\ \A k \in Clusters : \A i, j \in 0 .. NumCores[k] - 1 :
          HartId(k, i) = HartId(k, j) => i = j
<1> USE OffloadAssumption
<1>1. \A k \in Clusters : HartsOf[k] = {HartBase[k] + i : i \in 0 .. NumCores[k] - 1}
  BY DEF HartsOf, HartId
<1>2. Harts = UNION {HartsOf[k] : k \in Clusters}
  BY DEF Harts
<1>3. ASSUME NEW k \in Clusters, NEW h \in HartsOf[k] PROVE ClusterId[h] = k
  <2>1. h \in Harts
    BY <1>2
  <2>2. PICK i \in 0 .. NumCores[k] - 1 : h = HartBase[k] + i
    BY <1>1
  <2>0. k \in Nat /\ h \in Nat /\ HartBase[k] \in Nat /\ NumCores[k] \in Nat
    BY <2>2, HartBaseSums, SMT DEF Clusters
  <2>3. ASSUME NEW j \in Clusters, j > k PROVE h < HartBase[j]
    <3>1. HartBase[k] + NumCores[k] <= HartBase[j]
      <4>1. k < j
        BY <2>3, SMT DEF Clusters
      <4> QED BY <4>1, HartBaseAscends
    <3>2. HartBase[j] \in Nat
      BY HartBaseSums
    <3> QED BY <2>2, <2>0, <3>1, <3>2, SMT
  <2>4. ASSUME NEW j \in Clusters, j <= k PROVE h >= HartBase[j]
    <3>1. HartBase[j] \in Nat /\ NumCores[j] \in Nat
      BY HartBaseSums
    <3>2. CASE j = k
      BY <3>2, <2>2, <2>0, SMT
    <3>3. CASE j < k
      BY <3>3, <2>2, <2>0, <3>1, HartBaseAscends, SMT
    <3> QED BY <2>4, <3>2, <3>3, SMT DEF Clusters
  <2>5. {j \in Clusters \ {0} : h >= Threshold[j]} = 1 .. k
    <3>1. \A j \in Clusters : j <= k <=> h >= Threshold[j]
      <4>1. \A j \in Clusters : j \in Nat /\ HartBase[j] \in Nat
        BY HartBaseSums, SMT DEF Clusters
      <4> QED BY <2>0, <2>3, <2>4, <4>1, ThresholdIsBase, SMT
    <3> QED BY <3>1, <2>0, SMT DEF Clusters
  <2>6. Cardinality(1 .. k) = k
    <3>1. k \in Nat
      BY SMT DEF Clusters
    <3>2. k \in Int /\ 1 \in Int /\ (IF 1 > k THEN 0 ELSE k - 1 + 1) = k
      BY <3>1
    <3> QED BY <3>2, FS_Interval
  <2> QED BY <2>1, <2>5, <2>6 DEF ClusterId
<1>4. \A h \in Harts : ClusterId[h] \in Clusters /\ h \in HartsOf[ClusterId[h]]
  BY <1>2, <1>3
<1>5. \A k \in Clusters : \A i \in 0 .. NumCores[k] - 1 : HartId(k, i) \in HartsOf[k]
  BY <1>1 DEF HartId
<1>6. \A k \in Clusters : \A i, j \in 0 .. NumCores[k] - 1 : HartId(k, i) = HartId(k, j) => i = j
  BY HartBaseSums, SMT DEF HartId
<1> QED BY <1>2, <1>3, <1>4, <1>5, <1>6

-----------------------------------------------------------------------------
(* The inductive invariant.                                                *)

\* The host's places in an offload, and the ones after the wait for the cluster.
Offloading == hpc \in {"wait", "nops", "function", "args", "stack", "boot", "msip", "delay"}
Early == \/ hpc \in {"wait", "nops"}
         \/ op.kind = "core" /\ hpc \in {"function", "args", "stack", "boot"}
Late == Offloading /\ ~Early

\* Core j of op's cluster is yet to be interrupted.
Unsent(j) == j = op.i \/ (op.kind = "all" /\ j > op.i)

\* A core that was interrupted and has not returned to the ROM yet.
Passed == {"ack", "jump", "stack", "function", "args", "run"}
Engaged(h) == msip[h] \/ cpc[h] \in {"handler"} \cup Passed

\* A cluster's active cores are its own.
ActiveInv == \A k \in Clusters : active[k] \subseteq HartsOf[k]

\* The host's control, whatever the application is.
HostInv ==
    /\ hpc = "app" => op = NoOp
    /\ hpc \in {"spin", "read", "clear"} => op.kind = "none" /\ due[op.k] # NoOp
    /\ Offloading => /\ op.kind \in app.kinds /\ op.kind # "none"
                     /\ op.job = jobs /\ jobs > 0
                     /\ power[op.k] = "up"
    /\ hpc \in {"wait", "nops"} /\ op.kind = "all" => op.i = 0
    /\ hpc = "delay" => op.kind = "all"

\* The trampoline words written so far, and the harts interrupted so far.
SetupInv ==
    /\ hpc \in {"args", "stack", "boot", "msip"} => word[Target]["function"] = op.job
    /\ hpc \in {"stack", "boot", "msip"} => word[Target]["args"] = op.job
    /\ hpc \in {"boot", "msip"} => word[Target]["stack"] = op.job
    /\ hpc \in {"wait", "nops"} /\ op.kind = "core" => \A w \in Words : word[Target][w] = op.job
    /\ \A h \in Harts : sent[h] <= jobs
    /\ Offloading /\ hpc # "delay" =>
          \A j \in 0 .. NumCores[op.k] - 1 : Unsent(j) => sent[HartId(op.k, j)] < op.job
    /\ Late /\ op.kind = "all" =>
          \A j \in 0 .. NumCores[op.k] - 1 : ~Unsent(j) \/ hpc = "delay" => sent[HartId(op.k, j)] = op.job

\* The host leaves the words of a core at work alone.
EngagedInv ==
    \A h \in Harts : Engaged(h) =>
        h \in active[ClusterId[h]] /\ \A w \in Words : word[h][w] = sent[h]

\* What a core has loaded, and that only the last one of a cluster reports.
LoadedInv ==
    \A h \in Harts :
        /\ cpc[h] \in Passed \ {"ack"} => ~msip[h]
        /\ cpc[h] \in {"function", "args", "run"} => got[h]["stack"] = sent[h]
        /\ cpc[h] \in {"args", "run"} => got[h]["function"] = sent[h] /\ ran[h] = sent[h]
        /\ cpc[h] = "run" => got[h]["args"] = sent[h]
        /\ cpc[h] \in {"last", "return"} => active[ClusterId[h]] = {}

\* The cores that the host is about to interrupt are ready for it.
ReadyInv ==
    /\ Early /\ (op.kind = "core" \/ hpc = "nops") => active[op.k] = {}
    /\ Late /\ hpc # "delay" => \A j \in 0 .. NumCores[op.k] - 1 : Unsent(j) =>
          HartId(op.k, j) \in active[op.k] /\ ~Engaged(HartId(op.k, j))

\* Nothing goes on in cluster k.
Quiet(k) ==
    /\ active[k] = {} /\ ~busy[k] /\ ret[k] = 0
    /\ \A h \in Harts : ClusterId[h] = k => cpc[h] = "park"

\* An application that fetches every result: a cluster without an offload,
\* or with one that has not got past the wait, is quiet;
QuietInv ==
    \A k \in Clusters : due[k] = NoOp \/ (Early /\ op.k = k) => Quiet(k)

\* the offload whose result is due is the one the host is in;
DueInv ==
    /\ \A k \in Clusters : due[k] # NoOp =>
          /\ power[k] = "up"
          /\ due[k].k = k /\ due[k].kind # "none" /\ due[k].i < NumCores[k]
    /\ Offloading => /\ due[op.k].job = op.job /\ due[op.k].kind = op.kind
                     /\ op.kind = "core" => due[op.k].i = op.i

\* an addressed core is active or has executed it, a core at work is at it;
WorkInv ==
    /\ \A k \in Clusters : due[k] # NoOp /\ ~(Early /\ op.k = k) =>
          /\ active[k] \subseteq Addressed(due[k])
          /\ \A h \in Addressed(due[k]) : h \in active[k] \/ ran[h] = due[k].job
    /\ \A h \in Harts : Engaged(h) => sent[h] = due[ClusterId[h]].job

\* one core reports, with the busy flag cleared and everyone else parked;
ReportInv ==
    /\ \A k \in Clusters : ret[k] # 0 =>
          /\ ret[k] = due[k].job
          /\ active[k] = {} /\ ~busy[k]
          /\ \A h \in Harts : ClusterId[h] = k => cpc[h] = "park"
    /\ \A h \in Harts : cpc[h] \in {"last", "return"} =>
          /\ got[h]["function"] = due[ClusterId[h]].job
          /\ cpc[h] = "return" => ~busy[ClusterId[h]]
          /\ \A g \in Harts : ClusterId[g] = ClusterId[h] /\ cpc[g] \in {"last", "return"} => g = h

\* and the value stays until the host has read it.
WaitInv ==
    /\ hpc \in {"read", "clear"} => ret[op.k] # 0
    /\ hpc = "clear" => result = ret[op.k]

CollectInv == QuietInv /\ DueInv /\ WorkInv /\ ReportInv /\ WaitInv

IInv ==
    /\ TypeOK
    /\ ActiveInv
    /\ HostInv
    /\ SetupInv
    /\ app.collects => EngagedInv /\ LoadedInv /\ ReadyInv /\ CollectInv

-----------------------------------------------------------------------------
\* The facts about harts that the steps below use.
HartFacts ==
    /\ \A k \in Clusters : NumCores[k] \in Nat \ {0}
    /\ \A h \in Harts : ClusterId[h] \in Clusters
    /\ \A k \in Clusters : HartsOf[k] \subseteq Harts
    /\ \A k \in Clusters : \A h \in Harts : h \in HartsOf[k] <=> ClusterId[h] = k
    /\ \A k \in Clusters : \A i \in 0 .. NumCores[k] - 1 :
          HartId(k, i) \in Harts /\ ClusterId[HartId(k, i)] = k
    /\ \A h \in Harts : \E i \in 0 .. NumCores[ClusterId[h]] - 1 : h = HartId(ClusterId[h], i)
    /\ \A k \in Clusters : \A i, j \in 0 .. NumCores[k] - 1 :
          HartId(k, i) = HartId(k, j) => i = j

LEMMA HartFactsHold == HartFacts
<1>1. \A k \in Clusters : NumCores[k] \in Nat \ {0}
  BY OffloadAssumption
<1>2. \A h \in Harts : \E i \in 0 .. NumCores[ClusterId[h]] - 1 : h = HartId(ClusterId[h], i)
  <2>1. \A k \in Clusters : HartsOf[k] = {HartId(k, i) : i \in 0 .. NumCores[k] - 1}
    BY DEF HartsOf
  <2>2. \A h \in Harts : ClusterId[h] \in Clusters /\ h \in HartsOf[ClusterId[h]]
    BY HartNumbering
  <2> QED BY <2>1, <2>2
<1> QED BY <1>1, <1>2, HartNumbering DEF HartFacts

\* The cluster and the core of the host's call.
LEMMA CallFacts ==
    ASSUME TypeOK
    PROVE  /\ op.kind \in {"none", "all", "core"} /\ op.k \in Clusters /\ op.job \in 0..MaxJobs
           /\ op.i \in Nat /\ op.i < NumCores[op.k] /\ op.i \in 0 .. NumCores[op.k] - 1
           /\ Target \in Harts /\ ClusterId[Target] = op.k
           /\ Addressed(op) \subseteq HartsOf[op.k]
           /\ HartsOf[op.k] \subseteq Harts
           /\ 0 \in Clusters /\ NoOp \in Ops
<1>1. op.kind \in {"none", "all", "core"} /\ op.k \in Clusters /\ op.i \in Nat /\ op.job \in 0..MaxJobs
  BY DEF TypeOK, Ops
<1>2. op.i < NumCores[op.k]
  BY DEF TypeOK
<1>3. NumCores[op.k] \in Nat \ {0}
  BY <1>1, HartFactsHold DEF HartFacts
<1>4. op.i \in 0 .. NumCores[op.k] - 1
  BY <1>1, <1>2, <1>3
<1>5. Target \in Harts /\ ClusterId[Target] = op.k
  BY <1>1, <1>4, HartFactsHold DEF HartFacts, Target
<1>6. Addressed(op) \subseteq HartsOf[op.k] /\ HartsOf[op.k] \subseteq Harts
  BY <1>1, <1>5, HartFactsHold DEF HartFacts, Target, Addressed
<1>7. 0 \in Clusters
  BY OffloadAssumption, SMT DEF Clusters
<1>8. NoOp \in Ops
  BY <1>7, OffloadAssumption, SMT DEF NoOp, Ops
<1> QED BY <1>1, <1>2, <1>4, <1>5, <1>6, <1>7, <1>8

\* The loop of offload_snitchCluster goes on to the next core.
LEMMA NextCore ==
    ASSUME TypeOK
    PROVE  [op EXCEPT !.i = @ + 1] = [kind |-> op.kind, k |-> op.k, i |-> op.i + 1, job |-> op.job]
<1>1. op \in [kind : {"none", "all", "core"}, k : Clusters, i : Nat, job : 0..MaxJobs]
  BY DEF TypeOK, Ops
<1> QED BY <1>1

\* Types.
LEMMA TypeStep == TypeOK /\ [Next]_vars => TypeOK'
<1> SUFFICES ASSUME TypeOK, [Next]_vars PROVE TypeOK'
  OBVIOUS
<1> USE HartFactsHold, CallFacts
<1>1. CASE SetupInterruptHandler
  BY <1>1 DEF SetupInterruptHandler, coreVars, hostVars, TypeOK
<1>2. ASSUME NEW k \in Clusters, NEW from, NEW to \in Powers, Switch(k, from, to),
             got' = got, active' = active, ran' = ran, cpc' \in [Harts -> CPCs]
      PROVE  TypeOK'
  BY <1>2 DEF Switch, hostVars, TypeOK
<1>3. CASE \E k \in Clusters : UngateClock(k) \/ AssertReset(k) \/ ReleaseReset(k) \/ GateClock(k)
  <2>1. PICK k \in Clusters : UngateClock(k) \/ AssertReset(k) \/ ReleaseReset(k) \/ GateClock(k)
    BY <1>3
  <2>2. got' = got /\ active' = active /\ ran' = ran
    BY <2>1 DEF UngateClock, AssertReset, ReleaseReset, GateClock, coreVars
  <2>3. cpc' \in [Harts -> CPCs]
    <3>1. CASE AssertReset(k)
      BY <3>1 DEF AssertReset, TypeOK, CPCs
    <3>2. CASE cpc' = cpc
      BY <3>2 DEF TypeOK
    <3> QED BY <2>1, <3>1, <3>2 DEF UngateClock, ReleaseReset, GateClock, coreVars
  <2>4. \E from : \E to \in Powers : Switch(k, from, to)
    BY <2>1, Zenon DEF UngateClock, AssertReset, ReleaseReset, GateClock, Powers
  <2> QED BY <1>2, <2>2, <2>3, <2>4
<1>4. CASE \E kind \in app.kinds, k \in Clusters :
             \E i \in 0 .. NumCores[k] - 1 : CallOffload(kind, k, i)
  <2>0. PICK kind \in app.kinds, k \in Clusters : \E i \in 0 .. NumCores[k] - 1 : CallOffload(kind, k, i)
    BY <1>4
  <2>1. PICK i \in 0 .. NumCores[k] - 1 : CallOffload(kind, k, i)
    BY <2>0
  <2>2. app.kinds \subseteq {"all", "core"} /\ app.jobs \in 0..MaxJobs
    BY OffloadAssumption DEF TypeOK, AppTypes
  <2>3. kind \in {"all", "core"}
    BY <2>2
  <2>4. NumCores[k] \in Nat /\ i \in Nat /\ i < NumCores[k]
    BY DEF HartFacts
  <2>5. jobs + 1 \in 0..MaxJobs
    BY <2>1, <2>2, OffloadAssumption DEF CallOffload, TypeOK
  <2>6. op' = [kind |-> kind, k |-> k, i |-> i, job |-> jobs + 1] /\ op' \in Ops
    BY <2>1, <2>3, <2>4, <2>5 DEF CallOffload, Ops
  <2>7. due' \in [Clusters -> Ops] /\ jobs' \in 0..MaxJobs /\ hpc' \in HPCs
    BY <2>1, <2>5, <2>6 DEF CallOffload, HostGoto, HPCs, TypeOK
  <2>8. op'.i < NumCores[op'.k]
    BY <2>4, <2>6
  <2>9. UNCHANGED <<app, word, regVars, coreVars, result, sent>>
    BY <2>1 DEF CallOffload
  <2> QED BY <2>6, <2>7, <2>8, <2>9 DEF regVars, coreVars, TypeOK
<1>5. CASE \E k \in Clusters : CallWaitReturn(k)
  <2>1. PICK k \in Clusters : CallWaitReturn(k)
    BY <1>5
  <2>2. op' = [kind |-> "none", k |-> k, i |-> 0, job |-> 0]
    BY <2>1 DEF CallWaitReturn, NoOp
  <2>3. op' \in Ops /\ op'.i < NumCores[op'.k]
    BY <2>2, OffloadAssumption DEF Ops, HartFacts
  <2> QED BY <2>1, <2>3 DEF CallWaitReturn, HostGoto, HPCs, regVars, coreVars, TypeOK
<1>6. CASE WaitBusy
  BY <1>6 DEF WaitBusy, HostGoto, HPCs, regVars, coreVars, TypeOK
<1>7. CASE Nops
  BY <1>7 DEF Nops, HostGoto, HPCs, regVars, TypeOK
<1>8. CASE \E w \in Words : SetupTrampoline(w)
  BY <1>8 DEF SetupTrampoline, HPCs, Words, regVars, coreVars, TypeOK
<1>9. CASE WriteBootAddr
  BY <1>9 DEF WriteBootAddr, HostGoto, HPCs, coreVars, TypeOK
<1>10. CASE SendInterrupt
  <2>1. hpc' \in HPCs
    BY <1>10 DEF SendInterrupt, HPCs
  <2>2. op' \in Ops /\ op'.i < NumCores[op'.k]
    <3>1. CASE op.kind = "all" /\ op.i < NumCores[op.k] - 1 /\ op' = [op EXCEPT !.i = @ + 1]
      <4>1. op'.i = op.i + 1 /\ op'.k = op.k /\ op' \in Ops
        BY <3>1, NextCore DEF Ops
      <4> QED BY <3>1, <4>1 DEF HartFacts
    <3>2. CASE op' = op
      BY <3>2 DEF TypeOK
    <3>3. CASE op' = NoOp
      BY <3>3 DEF NoOp, HartFacts
    <3> QED BY <1>10, <3>1, <3>2, <3>3 DEF SendInterrupt
  <2>3. msip' \in [Harts -> BOOLEAN]
    BY <1>10, Zenon DEF SendInterrupt, TypeOK
  <2>4. sent' \in [Harts -> 0..MaxJobs]
    BY <1>10 DEF SendInterrupt, TypeOK
  <2>5. UNCHANGED <<app, word, intr, boot, busy, ret, power, coreVars, jobs, result, due>>
    BY <1>10 DEF SendInterrupt
  <2> QED BY <2>1, <2>2, <2>3, <2>4, <2>5 DEF coreVars, TypeOK
<1>11. CASE FinalDelay
  <2>1. op' = NoOp /\ op'.i < NumCores[op'.k]
    BY <1>11 DEF FinalDelay, NoOp, HartFacts
  <2> QED BY <1>11, <2>1 DEF FinalDelay, HostGoto, HPCs, regVars, coreVars, TypeOK
<1>12. CASE SpinReturn \/ ReadReturn
  <2>1. CASE SpinReturn
    BY <2>1 DEF SpinReturn, HostGoto, HPCs, regVars, coreVars, TypeOK
  <2>2. CASE ReadReturn
    BY <2>2 DEF ReadReturn, HostGoto, HPCs, regVars, coreVars, TypeOK
  <2> QED BY <1>12, <2>1, <2>2
<1>13. CASE ClearReturn
  <2>1. op' = NoOp /\ op'.i < NumCores[op'.k]
    BY <1>13 DEF ClearReturn, NoOp, HartFacts
  <2> QED BY <1>13, <2>1, OffloadAssumption DEF ClearReturn, HostGoto, HPCs, coreVars, TypeOK
<1>14. ASSUME NEW h \in Harts, CoreStep(h) PROVE TypeOK'
  <2>1. UNCHANGED <<app, hostVars, word, intr, boot, power>>
    BY <1>14 DEF CoreStep, TakeInterrupt, SetClusterBusy, ClearInterrupt, JumpToTrampoline,
                 LoadWord, ReturnToRom, RomClearBusy, RomWriteReturn, regVars
  <2>2. ClusterId[h] \in Clusters
    BY DEF HartFacts
  <2>3. cpc' \in [Harts -> CPCs]
    <3>1. CASE \E w \in Words : LoadWord(h, w)
      BY <3>1 DEF LoadWord, CoreGoto, CPCs, Words, TypeOK
    <3>2. CASE ReturnToRom(h)
      BY <3>2 DEF ReturnToRom, CoreGoto, CPCs, TypeOK
    <3>3. CASE TakeInterrupt(h) \/ SetClusterBusy(h) \/ ClearInterrupt(h) \/ JumpToTrampoline(h)
      BY <3>3 DEF TakeInterrupt, SetClusterBusy, ClearInterrupt, JumpToTrampoline, CoreGoto, CPCs, TypeOK
    <3>4. CASE RomClearBusy(h) \/ RomWriteReturn(h)
      BY <3>4 DEF RomClearBusy, RomWriteReturn, CoreGoto, CPCs, TypeOK
    <3> QED BY <1>14, <3>1, <3>2, <3>3, <3>4 DEF CoreStep
  <2>4. msip' \in [Harts -> BOOLEAN]
    <3>1. CASE ClearInterrupt(h)
      BY <3>1, Zenon DEF ClearInterrupt, TypeOK
    <3>2. ~ClearInterrupt(h) => msip' = msip
      BY <1>14 DEF CoreStep, TakeInterrupt, SetClusterBusy, JumpToTrampoline,
                   LoadWord, ReturnToRom, RomClearBusy, RomWriteReturn, regVars
    <3> QED BY <3>1, <3>2 DEF TypeOK
  <2>5. busy' \in [Clusters -> BOOLEAN]
    <3>1. CASE SetClusterBusy(h)
      BY <2>2, <3>1, Zenon DEF SetClusterBusy, TypeOK
    <3>2. CASE RomClearBusy(h)
      BY <2>2, <3>2, Zenon DEF RomClearBusy, TypeOK
    <3>3. ~SetClusterBusy(h) /\ ~RomClearBusy(h) => busy' = busy
      BY <1>14 DEF CoreStep, TakeInterrupt, ClearInterrupt, JumpToTrampoline,
                   LoadWord, ReturnToRom, RomWriteReturn, regVars
    <3> QED BY <3>1, <3>2, <3>3 DEF TypeOK
  <2>6. got' \in [Harts -> [Words -> 0..MaxJobs]] /\ ran' \in [Harts -> 0..MaxJobs]
    <3>1. CASE \E w \in Words : LoadWord(h, w)
      BY <3>1 DEF LoadWord, TypeOK
    <3>2. CASE UNCHANGED <<got, ran>>
      BY <3>2 DEF TypeOK
    <3> QED BY <1>14, <3>1, <3>2 DEF CoreStep, TakeInterrupt, SetClusterBusy, ClearInterrupt, JumpToTrampoline,
                 ReturnToRom, RomClearBusy, RomWriteReturn
  <2>7. active' \in [Clusters -> SUBSET Harts]
    <3>1. CASE ReturnToRom(h)
      BY <2>2, <3>1 DEF ReturnToRom, TypeOK
    <3>2. ~ReturnToRom(h) => active' = active
      BY <1>14 DEF CoreStep, TakeInterrupt, SetClusterBusy, ClearInterrupt, JumpToTrampoline,
                   LoadWord, RomClearBusy, RomWriteReturn
    <3> QED BY <3>1, <3>2 DEF TypeOK
  <2>8. ret' \in [Clusters -> 0..MaxJobs]
    <3>1. got[h]["function"] \in 0..MaxJobs
      BY DEF TypeOK, Words
    <3>2. CASE RomWriteReturn(h)
      BY <2>2, <3>1, <3>2 DEF RomWriteReturn, TypeOK
    <3>3. ~RomWriteReturn(h) => ret' = ret
      BY <1>14 DEF CoreStep, TakeInterrupt, SetClusterBusy, ClearInterrupt, JumpToTrampoline,
                   LoadWord, ReturnToRom, RomClearBusy, regVars
    <3> QED BY <3>2, <3>3 DEF TypeOK
  <2> QED BY <2>1, <2>3, <2>4, <2>5, <2>6, <2>7, <2>8 DEF hostVars, TypeOK
<1>15. CASE UNCHANGED vars
  BY <1>15 DEF vars, regVars, coreVars, hostVars, TypeOK
<1> QED BY <1>1, <1>3, <1>4, <1>5, <1>6, <1>7, <1>8, <1>9, <1>10, <1>11, <1>12, <1>13, <1>14, <1>15
        DEF Next, AppStep, DriverStep

LEMMA ActiveStep == TypeOK /\ ActiveInv /\ [Next]_vars => ActiveInv'
<1> SUFFICES ASSUME TypeOK, ActiveInv, [Next]_vars PROVE ActiveInv'
  OBVIOUS
<1>1. CASE Nops
  BY <1>1, CallFacts DEF Nops, ActiveInv, TypeOK
<1>2. ASSUME NEW h \in Harts, CoreStep(h) PROVE ActiveInv'
  BY <1>2, HartFactsHold DEF CoreStep, TakeInterrupt, SetClusterBusy, ClearInterrupt, JumpToTrampoline,
           LoadWord, ReturnToRom, RomClearBusy, RomWriteReturn, ActiveInv, TypeOK, HartFacts
<1>3. CASE active' = active
  BY <1>3 DEF ActiveInv
<1> QED BY <1>1, <1>2, <1>3 DEF Next, AppStep, DriverStep, vars, coreVars,
        SetupInterruptHandler, UngateClock, AssertReset, ReleaseReset, GateClock, CallOffload,
        CallWaitReturn, WaitBusy, SetupTrampoline, WriteBootAddr, SendInterrupt, FinalDelay,
        SpinReturn, ReadReturn, ClearReturn

\* A core leaves the host's state and the trampoline words alone.
LEMMA CoreFrame ==
    ASSUME NEW h \in Harts, CoreStep(h)
    PROVE  UNCHANGED <<app, word, intr, boot, power, hpc, op, jobs, result, sent, due>>
BY DEF CoreStep, TakeInterrupt, SetClusterBusy, ClearInterrupt, JumpToTrampoline,
       LoadWord, ReturnToRom, RomClearBusy, RomWriteReturn, regVars, hostVars

\* The host's control.
LEMMA HostStep == TypeOK /\ HostInv /\ [Next]_vars => HostInv'
<1> SUFFICES ASSUME TypeOK, HostInv, [Next]_vars PROVE HostInv'
  OBVIOUS
<1> USE CallFacts
<1>1. CASE UNCHANGED <<app, hpc, op, due, jobs, power>>
  BY <1>1 DEF HostInv, Offloading
<1>2. CASE \E k \in Clusters : UngateClock(k) \/ AssertReset(k) \/ ReleaseReset(k) \/ GateClock(k)
  BY <1>2 DEF HostInv, Offloading, UngateClock, AssertReset, ReleaseReset, GateClock, Switch, hostVars
<1>3. CASE \E kind \in app.kinds, k \in Clusters :
             \E i \in 0 .. NumCores[k] - 1 : CallOffload(kind, k, i)
  <2>1. PICK kind \in app.kinds, k \in Clusters : \E i \in 0 .. NumCores[k] - 1 : CallOffload(kind, k, i)
    BY <1>3
  <2>2. PICK i \in 0 .. NumCores[k] - 1 : CallOffload(kind, k, i)
    BY <2>1
  <2>3. kind \in {"all", "core"}
    BY OffloadAssumption DEF TypeOK, AppTypes
  <2> QED BY <2>2, <2>3 DEF HostInv, Offloading, CallOffload, HostGoto, regVars, TypeOK
<1>4. CASE \E k \in Clusters : CallWaitReturn(k)
  <2>1. PICK k \in Clusters : CallWaitReturn(k)
    BY <1>4
  <2>2. op'.kind = "none" /\ op'.k = k
    BY <2>1 DEF CallWaitReturn, NoOp
  <2> QED BY <2>1, <2>2 DEF HostInv, Offloading, CallWaitReturn, HostGoto
<1>5. CASE WaitBusy \/ Nops \/ WriteBootAddr
  BY <1>5 DEF HostInv, Offloading, WaitBusy, Nops, WriteBootAddr, HostGoto, regVars, TypeOK
<1>6. CASE \E w \in Words : SetupTrampoline(w)
  BY <1>6 DEF HostInv, Offloading, SetupTrampoline, Words, regVars
<1>7. CASE SendInterrupt
  BY <1>7, NextCore DEF HostInv, Offloading, SendInterrupt
<1>8. CASE FinalDelay \/ ClearReturn
  BY <1>8 DEF HostInv, Offloading, FinalDelay, ClearReturn, HostGoto, regVars
<1>9. CASE SpinReturn \/ ReadReturn
  BY <1>9 DEF HostInv, Offloading, SpinReturn, ReadReturn, HostGoto, regVars
<1> QED BY <1>1, <1>2, <1>3, <1>4, <1>5, <1>6, <1>7, <1>8, <1>9, CoreFrame
        DEF Next, AppStep, DriverStep, SetupInterruptHandler, vars, hostVars, regVars

\* What the host has set up and sent.
LEMMA SetupStep == TypeOK /\ HostInv /\ SetupInv /\ [Next]_vars => SetupInv'
<1> SUFFICES ASSUME TypeOK, HostInv, SetupInv, [Next]_vars PROVE SetupInv'
  OBVIOUS
<1> USE CallFacts
<1>0. /\ jobs \in Nat /\ sent \in [Harts -> Nat] /\ \A h \in Harts : sent[h] <= jobs
      /\ word \in [Harts -> [Words -> Nat]] /\ Words = {"function", "args", "stack"}
  BY OffloadAssumption DEF TypeOK, SetupInv, Words
<1>1. CASE UNCHANGED <<word, sent, hpc, op, jobs>>
  BY <1>1 DEF SetupInv, Offloading, Late, Early, Unsent, Target
<1>2. CASE hpc' \in {"app", "spin", "read", "clear"} /\ UNCHANGED <<sent, jobs>>
  BY <1>2 DEF SetupInv, Offloading, Late
<1>3. CASE \E kind \in app.kinds, k \in Clusters :
             \E i \in 0 .. NumCores[k] - 1 : CallOffload(kind, k, i)
  <2>1. PICK kind \in app.kinds, k \in Clusters : \E i \in 0 .. NumCores[k] - 1 : CallOffload(kind, k, i)
    BY <1>3
  <2>2. PICK i \in 0 .. NumCores[k] - 1 : CallOffload(kind, k, i)
    BY <2>1
  <2>3. kind \in {"all", "core"}
    BY OffloadAssumption DEF TypeOK, AppTypes
  <2>4. /\ op'.kind = kind /\ op'.k = k /\ op'.job = jobs + 1 /\ jobs' = jobs + 1 /\ sent' = sent
        /\ hpc' = IF kind = "all" THEN "wait" ELSE "function"
    BY <2>2 DEF CallOffload, HostGoto
  <2>5. \A j \in 0 .. NumCores[k] - 1 : sent[HartId(k, j)] < jobs + 1
    BY <1>0, HartFactsHold DEF HartFacts
  <2>6. ~Late'
    BY <2>3, <2>4 DEF Late, Early
  <2> QED BY <1>0, <2>3, <2>4, <2>5, <2>6 DEF SetupInv, Offloading
<1>4. CASE WaitBusy \/ Nops \/ WriteBootAddr
  <2>1. /\ UNCHANGED <<word, sent, op, jobs, Target>>
        /\ \/ hpc = "wait" /\ hpc' = "nops"
           \/ hpc = "nops" /\ op.kind = "all" /\ hpc' = "function"
           \/ hpc = "nops" /\ op.kind = "core" /\ hpc' = "msip"
           \/ hpc = "boot" /\ op.kind = "all" /\ hpc' = "msip"
           \/ hpc = "boot" /\ op.kind = "core" /\ hpc' = "wait"
    BY <1>4 DEF WaitBusy, Nops, WriteBootAddr, HostGoto, Target, HostInv, Offloading
  <2>2. hpc = "nops" /\ op.kind = "all" => \A j \in 0 .. NumCores[op.k] - 1 : Unsent(j)
    BY HartFactsHold DEF HostInv, Unsent, HartFacts
  <2> QED BY <1>0, <2>1, <2>2 DEF SetupInv, Offloading, Late, Early, Unsent
<1>5. CASE \E w \in Words : SetupTrampoline(w)
  <2>1. PICK w \in Words : SetupTrampoline(w)
    BY <1>5
  <2>2. /\ hpc = w /\ UNCHANGED <<sent, op, jobs, Target>>
        /\ hpc' = IF w = "function" THEN "args" ELSE IF w = "args" THEN "stack" ELSE "boot"
    BY <2>1, <1>0 DEF SetupTrampoline, Target
  <2>3. \A v \in Words : word'[Target][v] = IF v = w THEN op.job ELSE word[Target][v]
    BY <2>1, <1>0 DEF SetupTrampoline
  <2> QED BY <1>0, <2>1, <2>2, <2>3 DEF SetupInv, Offloading, Late, Early, Unsent
<1>6. CASE SendInterrupt
  <2>1. hpc = "msip" /\ op.job = jobs /\ jobs' = jobs /\ op.kind # "none"
    BY <1>6 DEF SendInterrupt, HostInv, Offloading
  <2>2. \A h \in Harts : sent'[h] = IF h = Target THEN op.job ELSE sent[h]
    BY <1>6, <1>0 DEF SendInterrupt
  <2>3. \A j \in 0 .. NumCores[op.k] - 1 :
          sent'[HartId(op.k, j)] = IF j = op.i THEN op.job ELSE sent[HartId(op.k, j)]
    BY <2>2, HartFactsHold DEF HartFacts, Target
  <2>4. \A h \in Harts : sent'[h] <= jobs
    BY <1>0, <2>1, <2>2
  <2>5. CASE op.kind = "core"
    BY <1>6, <2>1, <2>4, <2>5 DEF SendInterrupt, SetupInv, Offloading, Late
  <2>6. CASE op.kind = "all" /\ op.i < NumCores[op.k] - 1
    <3>1. hpc' = "function" /\ op'.kind = "all" /\ op'.k = op.k /\ op'.i = op.i + 1 /\ op'.job = op.job
      BY <1>6, <2>6, NextCore DEF SendInterrupt
    <3>2. \A j \in 0 .. NumCores[op.k] - 1 : Unsent(j)' <=> j > op.i
      BY <3>1 DEF Unsent
    <3>3. \A j \in 0 .. NumCores[op.k] - 1 : Unsent(j) <=> j >= op.i
      BY <2>6 DEF Unsent
    <3>4. \A j \in 0 .. NumCores[op.k] - 1 : j >= op.i => sent[HartId(op.k, j)] < op.job
      BY <2>1, <3>3 DEF SetupInv, Offloading
    <3>5. \A j \in 0 .. NumCores[op.k] - 1 : j < op.i => sent[HartId(op.k, j)] = op.job
      BY <2>1, <2>6, <3>3 DEF SetupInv, Offloading, Late, Early
    <3>6. \A j \in 0 .. NumCores[op.k] - 1 : Unsent(j)' => sent'[HartId(op.k, j)] < op.job
      BY <2>3, <3>2, <3>4
    <3>7. \A j \in 0 .. NumCores[op.k] - 1 : ~Unsent(j)' => sent'[HartId(op.k, j)] = op.job
      BY <2>3, <3>2, <3>5
    <3> QED BY <2>1, <2>4, <3>1, <3>6, <3>7 DEF SetupInv, Offloading
  <2>7. CASE op.kind = "all" /\ op.i = NumCores[op.k] - 1
    <3>1. hpc' = "delay" /\ op' = op
      BY <1>6, <2>7 DEF SendInterrupt
    <3>2. \A j \in 0 .. NumCores[op.k] - 1 : j # op.i => sent[HartId(op.k, j)] = op.job
      BY <2>1, <2>7 DEF SetupInv, Offloading, Late, Early, Unsent
    <3>3. \A j \in 0 .. NumCores[op.k] - 1 : sent'[HartId(op.k, j)] = op.job
      BY <2>3, <3>2
    <3> QED BY <2>1, <2>4, <3>1, <3>3 DEF SetupInv, Offloading
  <2> QED BY <1>6, <2>5, <2>6, <2>7 DEF SendInterrupt
<1> QED BY <1>1, <1>2, <1>3, <1>4, <1>5, <1>6, CoreFrame
        DEF Next, AppStep, DriverStep, SetupInterruptHandler, UngateClock, AssertReset, ReleaseReset,
            GateClock, Switch, CallWaitReturn, FinalDelay, SpinReturn, ReadReturn, ClearReturn,
            HostGoto, vars, hostVars

-----------------------------------------------------------------------------
(* The cores, under an application that is safe.                           *)

\* What a step of core h does to the others.
OthersKept(h) ==
    /\ \A g \in Harts : g # h =>
          cpc'[g] = cpc[g] /\ msip'[g] = msip[g] /\ got'[g] = got[g] /\ ran'[g] = ran[g]
    /\ \A k \in Clusters : k # ClusterId[h] => active'[k] = active[k] /\ busy'[k] = busy[k] /\ ret'[k] = ret[k]
    /\ cpc[h] # "run" => active' = active
    /\ msip'[h] => msip[h]

LEMMA CoreEffect == TypeOK => \A h \in Harts : CoreStep(h) => OthersKept(h)
<1> SUFFICES ASSUME TypeOK, NEW h \in Harts, CoreStep(h) PROVE OthersKept(h)
  OBVIOUS
<1> USE DEF CoreStep, TakeInterrupt, SetClusterBusy, ClearInterrupt, JumpToTrampoline, LoadWord,
        ReturnToRom, RomClearBusy, RomWriteReturn, CoreGoto, regVars, TypeOK
<1>1. \A g \in Harts : g # h => cpc'[g] = cpc[g]
  OBVIOUS
<1>2. \A g \in Harts : g # h => msip'[g] = msip[g]
  OBVIOUS
<1>3. \A g \in Harts : g # h => got'[g] = got[g] /\ ran'[g] = ran[g]
  OBVIOUS
<1>4. \A k \in Clusters : k # ClusterId[h] => active'[k] = active[k]
  OBVIOUS
<1>5. \A k \in Clusters : k # ClusterId[h] => busy'[k] = busy[k] /\ ret'[k] = ret[k]
  OBVIOUS
<1>6. cpc[h] # "run" => active' = active
  BY DEF Words
<1>7. msip'[h] => msip[h]
  OBVIOUS
<1> QED BY <1>1, <1>2, <1>3, <1>4, <1>5, <1>6, <1>7 DEF OthersKept

\* The walk of a core from the interrupt to the ROM.
Walks(h) ==
    \/ cpc[h] = "park" /\ cpc'[h] = "handler" /\ msip[h] /\ UNCHANGED <<msip, busy, ret, got, ran>>
    \/ cpc[h] = "handler" /\ cpc'[h] = "ack" /\ busy'[ClusterId[h]] = TRUE /\ UNCHANGED <<msip, ret, got, ran>>
    \/ cpc[h] = "ack" /\ cpc'[h] = "jump" /\ msip'[h] = FALSE /\ UNCHANGED <<busy, ret, got, ran>>
    \/ cpc[h] = "jump" /\ cpc'[h] = "stack" /\ UNCHANGED <<msip, busy, ret, got, ran>>
    \/ /\ cpc[h] = "stack" /\ cpc'[h] = "function" /\ UNCHANGED <<msip, busy, ret, ran>>
       /\ got'[h]["stack"] = word[h]["stack"]
    \/ /\ cpc[h] = "function" /\ cpc'[h] = "args" /\ UNCHANGED <<msip, busy, ret>>
       /\ got'[h]["function"] = word[h]["function"] /\ got'[h]["stack"] = got[h]["stack"]
       /\ ran'[h] = word[h]["function"]
    \/ /\ cpc[h] = "args" /\ cpc'[h] = "run" /\ UNCHANGED <<msip, busy, ret, ran>>
       /\ got'[h]["args"] = word[h]["args"] /\ got'[h]["stack"] = got[h]["stack"]
       /\ got'[h]["function"] = got[h]["function"]
    \/ /\ cpc[h] = "run" /\ active'[ClusterId[h]] = active[ClusterId[h]] \ {h}
       /\ cpc'[h] = IF active'[ClusterId[h]] = {} THEN "last" ELSE "park"
       /\ UNCHANGED <<msip, busy, ret, got, ran>>
    \/ cpc[h] = "last" /\ cpc'[h] = "return" /\ busy'[ClusterId[h]] = FALSE /\ UNCHANGED <<msip, ret, got, ran>>
    \/ /\ cpc[h] = "return" /\ cpc'[h] = "park" /\ ret'[ClusterId[h]] = got[h]["function"]
       /\ UNCHANGED <<msip, busy, got, ran>>

LEMMA CoreWalk == TypeOK => \A h \in Harts : CoreStep(h) => Walks(h)
<1> SUFFICES ASSUME TypeOK, NEW h \in Harts, CoreStep(h) PROVE Walks(h)
  OBVIOUS
<1> USE HartFactsHold DEF CoreGoto, regVars, TypeOK, HartFacts, Walks
<1>1. CASE TakeInterrupt(h) \/ SetClusterBusy(h) \/ ClearInterrupt(h) \/ JumpToTrampoline(h)
  BY <1>1 DEF TakeInterrupt, SetClusterBusy, ClearInterrupt, JumpToTrampoline
<1>2. CASE \E w \in Words : LoadWord(h, w)
  <2>1. PICK w \in Words : LoadWord(h, w)
    BY <1>2
  <2>2. \A v \in Words : got'[h][v] = IF v = w THEN word[h][v] ELSE got[h][v]
    BY <2>1 DEF LoadWord
  <2>3. ran' = [ran EXCEPT ![h] = IF w = "function" THEN word[h][w] ELSE @]
    BY <2>1 DEF LoadWord
  <2>4. w # "function" => ran' = ran
    BY <2>3
  <2> QED BY <2>1, <2>2, <2>3, <2>4 DEF LoadWord, Words
<1>3. CASE ReturnToRom(h)
  BY <1>3 DEF ReturnToRom
<1>4. CASE RomClearBusy(h) \/ RomWriteReturn(h)
  BY <1>4 DEF RomClearBusy, RomWriteReturn
<1> QED BY <1>1, <1>2, <1>3, <1>4 DEF CoreStep

\* A step of a core keeps what holds of the cores.
LEMMA CoreKeepsCore ==
    ASSUME TypeOK, HostInv, EngagedInv, LoadedInv, ReadyInv, NEW h \in Harts, CoreStep(h)
    PROVE  EngagedInv' /\ LoadedInv' /\ ReadyInv'
<1> USE CoreFrame, HartFactsHold, CallFacts
<1>a. OthersKept(h) /\ Walks(h)
  BY CoreEffect, CoreWalk
<1>0. ClusterId[h] \in Clusters /\ active \in [Clusters -> SUBSET Harts] /\ "function" \in Words
      /\ "stack" \in Words /\ "args" \in Words
  BY DEF HartFacts, TypeOK, Words
<1>1. \A g \in Harts : g # h => (Engaged(g)' <=> Engaged(g))
  BY <1>a DEF Engaged, OthersKept, Walks
<1>2. Engaged(h)' => Engaged(h) /\ cpc[h] # "run"
  BY <1>a DEF Engaged, Passed, LoadedInv, OthersKept, Walks
<1>3. \A g \in Harts : g # h /\ g \in active[ClusterId[g]] => g \in active'[ClusterId[g]]
  BY <1>a DEF HartFacts, OthersKept, Walks
<1>4. EngagedInv'
  BY <1>1, <1>2, <1>3, <1>a DEF EngagedInv, OthersKept, Walks
<1>5. \A g \in Harts : active[ClusterId[g]] = {} => active'[ClusterId[g]] = {}
  BY <1>a DEF HartFacts, OthersKept, Walks
<1>6. LoadedInv'
  <2>1. ASSUME NEW g \in Harts, g # h PROVE LoadedInv!(g)'
    BY <2>1, <1>5, <1>a DEF LoadedInv, OthersKept, Walks
  <2>2. LoadedInv!(h)'
    <3>1. cpc[h] \in {"stack", "function", "args"} => \A w \in Words : word[h][w] = sent[h]
      BY DEF EngagedInv, Engaged, Passed
    <3> QED BY <1>0, <1>5, <3>1, <1>a DEF LoadedInv, Passed, OthersKept, Walks
  <2> QED BY <2>1, <2>2 DEF LoadedInv
<1>7. ReadyInv'
  <2>1. UNCHANGED <<Early, Late, op, hpc>>
    BY DEF Early, Late, Offloading
  <2>2. \A j \in 0 .. NumCores[op.k] - 1 : HartId(op.k, j) \in Harts /\ ClusterId[HartId(op.k, j)] = op.k
    BY DEF HartFacts
  <2>3. active[op.k] = {} => active'[op.k] = {}
    BY <1>a DEF OthersKept, Walks
  <2>4. \A g \in Harts : ~Engaged(g) /\ g = h => cpc[h] \in {"park", "last", "return"} /\ ~msip[h]
    BY DEF Engaged, Passed, TypeOK, CPCs
  <2>5. \A g \in Harts : ~Engaged(g) /\ g = h => active' = active
    BY <2>4, <1>a DEF OthersKept, Walks
  <2>6. \A g \in Harts : g \in active[ClusterId[g]] /\ ~Engaged(g) =>
            g \in active'[ClusterId[g]] /\ ~Engaged(g)'
    BY <1>1, <1>2, <1>3, <2>5
  <2>7. \A j : Unsent(j)' <=> Unsent(j)
    BY DEF Unsent
  <2> QED BY <2>1, <2>2, <2>3, <2>6, <2>7 DEF ReadyInv
<1> QED BY <1>4, <1>6, <1>7

\* Steps of the host keep what holds of the cores.
LEMMA HostKeepsCore ==
    ASSUME IInv, app.collects, AppStep \/ DriverStep \/ UNCHANGED vars
    PROVE  EngagedInv' /\ LoadedInv' /\ ReadyInv'
<1> USE HartFactsHold, CallFacts
<1>0. TypeOK /\ ActiveInv /\ HostInv /\ SetupInv /\ EngagedInv /\ LoadedInv /\ ReadyInv
  BY DEF IInv
<1>a. /\ active \in [Clusters -> SUBSET Harts] /\ word \in [Harts -> [Words -> 0..MaxJobs]]
      /\ sent \in [Harts -> 0..MaxJobs] /\ Words = {"function", "args", "stack"}
      /\ \A j \in 0 .. NumCores[op.k] - 1 : HartId(op.k, j) \in Harts /\ ClusterId[HartId(op.k, j)] = op.k
  BY <1>0 DEF TypeOK, Words, HartFacts
\* Only the host has moved.
<1>1. ASSUME UNCHANGED <<msip, cpc, active, word, sent, got, ran>>
      PROVE  EngagedInv' /\ LoadedInv' /\ \A h : Engaged(h)' <=> Engaged(h)
  BY <1>0, <1>1 DEF EngagedInv, LoadedInv, Engaged
<1>2. CASE UNCHANGED <<msip, cpc, active, word, sent, got, ran, hpc, op>>
  BY <1>0, <1>1, <1>2 DEF ReadyInv, Early, Late, Offloading, Unsent
<1>3. CASE UNCHANGED <<msip, cpc, active, word, sent, got, ran>> /\ hpc' \in {"app", "spin", "read", "clear"}
            /\ op'.kind = "none"
  BY <1>1, <1>3 DEF ReadyInv, Early, Late, Offloading
<1>4. CASE \E k \in Clusters : AssertReset(k)
  <2>1. PICK k \in Clusters : AssertReset(k)
    BY <1>4
  <2>2. /\ UNCHANGED <<msip, active, word, sent, got, ran, hpc, op>> /\ hpc = "app"
        /\ \A h \in Harts : cpc'[h] = IF h \in HartsOf[k] THEN "park" ELSE cpc[h]
    BY <2>1 DEF AssertReset, Switch, hostVars
  <2>3. \A h \in Harts : Engaged(h)' => Engaged(h)
    BY <2>2 DEF Engaged, Passed
  <2>4. EngagedInv'
    BY <1>0, <2>2, <2>3 DEF EngagedInv
  <2>5. LoadedInv'
    BY <1>0, <2>2 DEF LoadedInv, Passed
  <2>6. op.kind = "none"
    BY <1>0, <2>2 DEF HostInv, NoOp
  <2> QED BY <2>2, <2>4, <2>5, <2>6 DEF ReadyInv, Early, Late, Offloading
<1>5. CASE \E kind \in app.kinds, k \in Clusters :
             \E i \in 0 .. NumCores[k] - 1 : CallOffload(kind, k, i)
  <2>1. PICK kind \in app.kinds, k \in Clusters : \E i \in 0 .. NumCores[k] - 1 : CallOffload(kind, k, i)
    BY <1>5
  <2>2. PICK i \in 0 .. NumCores[k] - 1 : CallOffload(kind, k, i)
    BY <2>1
  <2>3. kind \in {"all", "core"}
    BY <1>0, OffloadAssumption DEF TypeOK, AppTypes
  <2>4. /\ op'.kind = kind /\ op'.k = k /\ UNCHANGED <<msip, cpc, active, word, sent, got, ran>>
        /\ hpc' = IF kind = "all" THEN "wait" ELSE "function"
    BY <2>2 DEF CallOffload, HostGoto, regVars, coreVars
  <2>5. kind = "core" => active[k] = {}
    <3>1. due[k] = NoOp
      BY <2>2 DEF CallOffload
    <3>2. Quiet(k)
      BY <3>1 DEF IInv, CollectInv, QuietInv
    <3> QED BY <3>2 DEF Quiet
  <2> QED BY <1>1, <2>3, <2>4, <2>5 DEF ReadyInv, Early, Late, Offloading
<1>6. CASE WaitBusy
  <2>1. hpc = "wait" /\ hpc' = "nops" /\ ~busy[op.k] /\ UNCHANGED <<msip, cpc, active, word, sent, got, ran, op>>
    BY <1>6 DEF WaitBusy, HostGoto, regVars, coreVars
  <2>2. active[op.k] = {}
    <3>1. Quiet(op.k)
      BY <2>1, <1>0 DEF IInv, CollectInv, QuietInv, Early
    <3> QED BY <3>1 DEF Quiet
  <2> QED BY <1>1, <2>1, <2>2 DEF ReadyInv, Early, Late
<1>7. CASE Nops
  <2>1. /\ hpc = "nops" /\ hpc' = (IF op.kind = "all" THEN "function" ELSE "msip")
        /\ UNCHANGED <<msip, cpc, word, sent, got, ran, op>>
    BY <1>7 DEF Nops, HostGoto, regVars
  <2>2. active' = [active EXCEPT ![op.k] = Addressed(op)]
    <3>1. active[op.k] = {}
      BY <1>0, <2>1 DEF ReadyInv, Early
    <3> QED BY <1>7, <3>1 DEF Nops
  <2>3. op.kind \in {"all", "core"}
    BY <1>0, <2>1 DEF HostInv, Offloading
  <2>4. \A h \in Harts : ClusterId[h] = op.k => ~Engaged(h)
    BY <1>0, <2>1 DEF EngagedInv, ReadyInv, Early
  <2>5. \A h \in Harts : Engaged(h)' <=> Engaged(h)
    BY <2>1 DEF Engaged
  <2>6. EngagedInv'
    BY <1>0, <1>a, <2>1, <2>2, <2>4, <2>5 DEF EngagedInv, HartFacts
  <2>7. \A h \in Harts : ClusterId[h] = op.k => cpc[h] \notin {"last", "return"}
    <3>1. Quiet(op.k)
      BY <2>1, <1>0 DEF IInv, CollectInv, QuietInv, Early
    <3> QED BY <3>1 DEF Quiet
  <2>8. LoadedInv'
    BY <1>0, <1>a, <2>1, <2>2, <2>7 DEF LoadedInv, HartFacts
  <2>9. ReadyInv'
    <3>1. ~Early'
      BY <2>1, <2>3 DEF Early
    <3>2. \A j \in 0 .. NumCores[op.k] - 1 : Unsent(j) => HartId(op.k, j) \in Addressed(op)
      BY <1>0, <2>3 DEF Unsent, Addressed, HartFacts
    <3>3. \A j : Unsent(j)' <=> Unsent(j)
      BY <2>1 DEF Unsent
    <3>4. active'[op.k] = Addressed(op)
      BY <1>0, <1>a, <2>2
    <3> QED BY <1>a, <2>1, <2>4, <2>5, <3>1, <3>2, <3>3, <3>4 DEF ReadyInv
  <2> QED BY <2>6, <2>8, <2>9
<1>8. CASE \E w \in Words : SetupTrampoline(w)
  <2>1. PICK w \in Words : SetupTrampoline(w)
    BY <1>8
  <2>2. /\ hpc = w /\ UNCHANGED <<msip, cpc, active, sent, got, ran, op>>
        /\ hpc' = IF w = "function" THEN "args" ELSE IF w = "args" THEN "stack" ELSE "boot"
    BY <2>1, <1>a DEF SetupTrampoline, regVars, coreVars
  <2>3. \A h \in Harts : h # Target => word'[h] = word[h]
    BY <2>1, <1>a DEF SetupTrampoline
  <2>4. ~Engaged(Target)
    <3>1. op.kind \in {"all", "core"}
      BY <1>0, <1>a, <2>2 DEF HostInv, Offloading
    <3>2. CASE op.kind = "core"
      BY <1>0, <1>a, <2>2, <3>2 DEF EngagedInv, ReadyInv, Early
    <3>3. CASE op.kind = "all"
      BY <1>0, <1>a, <2>2, <3>3 DEF ReadyInv, Early, Late, Offloading, Unsent, Target
    <3> QED BY <3>1, <3>2, <3>3
  <2>5. \A h : Engaged(h)' <=> Engaged(h)
    BY <2>2 DEF Engaged
  <2>6. EngagedInv'
    BY <1>0, <2>2, <2>3, <2>4, <2>5 DEF EngagedInv
  <2>7. LoadedInv'
    BY <1>0, <2>2 DEF LoadedInv
  <2>8. ReadyInv'
    BY <1>0, <1>a, <2>2, <2>5 DEF ReadyInv, Early, Late, Offloading, Unsent
  <2> QED BY <2>6, <2>7, <2>8
<1>9. CASE WriteBootAddr
  <2>1. /\ hpc = "boot" /\ hpc' = (IF op.kind = "all" THEN "msip" ELSE "wait")
        /\ UNCHANGED <<msip, cpc, active, word, sent, got, ran, op>>
    BY <1>9 DEF WriteBootAddr, HostGoto, coreVars
  <2>2. op.kind \in {"all", "core"}
    BY <1>0, <2>1 DEF HostInv, Offloading
  <2> QED BY <1>0, <1>1, <2>1, <2>2 DEF ReadyInv, Early, Late, Offloading, Unsent
<1>10. CASE SendInterrupt
  <2>1. hpc = "msip" /\ UNCHANGED <<cpc, active, word, got, ran>>
    BY <1>10 DEF SendInterrupt, coreVars
  <2>2. op.kind \in {"all", "core"} /\ Late /\ Unsent(op.i)
    BY <1>0, <2>1 DEF HostInv, Offloading, Late, Early, Unsent
  <2>3. Target \in active[op.k] /\ ~Engaged(Target)
    BY <1>0, <2>1, <2>2 DEF ReadyInv, Target
  <2>4. \A h \in Harts : msip'[h] = IF h = Target THEN TRUE ELSE msip[h]
    BY <1>0, <1>10 DEF SendInterrupt, TypeOK
  <2>5. \A h \in Harts : sent'[h] = IF h = Target THEN op.job ELSE sent[h]
    BY <1>0, <1>10 DEF SendInterrupt, TypeOK
  <2>6. \A h \in Harts : h # Target => (Engaged(h)' <=> Engaged(h))
    BY <2>1, <2>4 DEF Engaged
  <2>7. \A w \in Words : word[Target][w] = op.job
    BY <1>0, <1>a, <2>1 DEF SetupInv
  <2>8. EngagedInv'
    BY <1>0, <2>1, <2>3, <2>5, <2>6, <2>7 DEF EngagedInv
  <2>9. LoadedInv'
    <3>1. cpc[Target] \notin Passed
      BY <2>3 DEF Engaged
    <3>2. UNCHANGED <<cpc, got, ran, active>>
      BY <2>1
    <3>3. ASSUME NEW h \in Harts, h # Target PROVE msip'[h] = msip[h] /\ sent'[h] = sent[h]
      BY <2>4, <2>5, <3>3
    <3>4. LoadedInv
      BY <1>0
    <3> QED BY <3>1, <3>2, <3>3, <3>4 DEF LoadedInv, Passed
  <2>10. ReadyInv'
    <3>1. CASE op.kind = "core" \/ op.i = NumCores[op.k] - 1
      <4>1. hpc' \in {"delay", "app"} /\ op'.kind # "core"
        BY <1>0, <1>10, <2>2, <3>1 DEF SendInterrupt, NoOp
      <4> QED BY <4>1 DEF ReadyInv, Early, Late, Offloading
    <3>2. CASE op.kind = "all" /\ op.i # NumCores[op.k] - 1
      <4>1. hpc' = "function" /\ op'.kind = "all" /\ op'.k = op.k /\ op'.i = op.i + 1
        BY <1>0, <1>10, <3>2, NextCore DEF SendInterrupt
      <4>2. \A j \in 0 .. NumCores[op.k] - 1 : Unsent(j)' => Unsent(j) /\ j # op.i
        BY <1>0, <3>2, <4>1 DEF Unsent
      <4>3. \A j \in 0 .. NumCores[op.k] - 1 : j # op.i => HartId(op.k, j) # Target
        BY <1>0 DEF HartFacts, Target
      <4> QED BY <1>0, <1>a, <2>1, <2>2, <2>6, <4>1, <4>2, <4>3 DEF ReadyInv, Early
    <3> QED BY <2>2, <3>1, <3>2
  <2> QED BY <2>8, <2>9, <2>10
<1>11. CASE (\E k \in Clusters : CallWaitReturn(k)) \/ FinalDelay \/ SpinReturn \/ ReadReturn \/ ClearReturn
  <2>1. /\ UNCHANGED <<msip, cpc, active, word, sent, got, ran>>
        /\ hpc' \in {"app", "spin", "read", "clear"} /\ op'.kind = "none"
    BY <1>0, <1>11 DEF CallWaitReturn, FinalDelay, SpinReturn, ReadReturn, ClearReturn, HostGoto,
       regVars, coreVars, NoOp, HostInv
  <2> QED BY <1>3, <2>1
<1>12. CASE SetupInterruptHandler \/ UNCHANGED vars
            \/ \E k \in Clusters : UngateClock(k) \/ ReleaseReset(k) \/ GateClock(k)
  BY <1>2, <1>12 DEF SetupInterruptHandler, UngateClock, ReleaseReset, GateClock, Switch,
     vars, regVars, coreVars, hostVars
<1> QED BY <1>4, <1>5, <1>6, <1>7, <1>8, <1>9, <1>10, <1>11, <1>12 DEF AppStep, DriverStep

-----------------------------------------------------------------------------
(* An application that fetches every result.                               *)

LEMMA CoreKeepsCollect ==
    ASSUME IInv, app.collects, NEW h \in Harts, CoreStep(h)
    PROVE  CollectInv'
<1> USE HartFactsHold, CallFacts
<1>0. TypeOK /\ ActiveInv /\ HostInv /\ EngagedInv /\ LoadedInv
      /\ QuietInv /\ DueInv /\ WorkInv /\ ReportInv /\ WaitInv
  BY DEF IInv, CollectInv
<1> DEFINE k == ClusterId[h]
<1>1. OthersKept(h) /\ Walks(h) /\ k \in Clusters
      /\ UNCHANGED <<hpc, op, sent, due, power, result>> /\ (Early' <=> Early) /\ (Offloading' <=> Offloading)
  BY <1>0, CoreEffect, CoreWalk, CoreFrame DEF HartFacts, Early, Offloading
<1>2. Engaged(h) \/ cpc[h] \in {"last", "return"}
  BY <1>1 DEF Walks, Engaged, Passed
<1>3. Engaged(h) => h \in active[k]
  BY <1>0 DEF EngagedInv
<1>4. cpc[h] \in {"last", "return"} => active[k] = {}
  BY <1>0 DEF LoadedInv
<1>5. due[k] # NoOp /\ ~(Early /\ op.k = k) /\ ret[k] = 0
  <2>1. ~Quiet(k)
    BY <1>1, <1>2, <1>3 DEF Quiet
  <2>2. ret[k] = 0
    BY <1>0, <1>1, <1>2, <1>3 DEF ReportInv
  <2> QED BY <1>0, <1>1, <2>1, <2>2 DEF QuietInv
<1>6. \A j \in Clusters : j # k => UNCHANGED <<active[j], busy[j], ret[j]>>
  BY <1>1 DEF OthersKept
<1>7. \A g \in Harts : ClusterId[g] # k => cpc'[g] = cpc[g] /\ ran'[g] = ran[g]
  BY <1>1 DEF OthersKept
<1>8. QuietInv'
  BY <1>0, <1>1, <1>5, <1>6, <1>7 DEF QuietInv, Quiet
<1>9. DueInv'
  BY <1>0, <1>1 DEF DueInv
<1>10. WorkInv'
  <2>1. \A g \in Harts : Engaged(g)' => Engaged(g)
    BY <1>0, <1>1 DEF OthersKept, Walks, Engaged, Passed, LoadedInv
  <2>2. active'[k] \subseteq active[k]
    BY <1>1 DEF OthersKept, Walks
  <2>3. Addressed(due[k]) \subseteq HartsOf[k]
    <3>1. due[k].k = k /\ due[k].i \in 0 .. NumCores[k] - 1
      BY <1>0, <1>1, <1>5 DEF DueInv, TypeOK, Ops, HartFacts
    <3> QED BY <1>1, <3>1 DEF Addressed, HartFacts
  <2>4. ASSUME NEW g \in Addressed(due[k]) PROVE g \in active'[k] \/ ran'[g] = due[k].job
    <3>1. g \in active[k] \/ ran[g] = due[k].job
      BY <1>0, <1>1, <1>5 DEF WorkInv
    <3>2. g \in Harts
      BY <1>1, <2>3 DEF HartFacts
    <3>3. CASE g # h
      BY <1>1, <3>1, <3>2, <3>3 DEF OthersKept, Walks
    <3>4. CASE g = h /\ cpc[h] = "run"
      <4>1. ran[h] = sent[h] /\ sent[h] = due[k].job
        BY <1>0, <3>4 DEF LoadedInv, WorkInv, Engaged, Passed
      <4>2. ran' = ran
        BY <1>1, <3>4 DEF Walks
      <4> QED BY <3>4, <4>1, <4>2
    <3>5. CASE g = h /\ cpc[h] \in {"last", "return"}
      BY <1>1, <1>4, <3>1, <3>5 DEF OthersKept, Walks
    <3>6. CASE g = h /\ Engaged(h) /\ cpc[h] # "run"
      BY <1>1, <1>3, <3>6 DEF OthersKept
    <3> QED BY <1>2, <3>3, <3>4, <3>5, <3>6
  <2>5. active'[k] \subseteq Addressed(due[k])
    BY <1>0, <1>1, <1>5, <2>2 DEF WorkInv
  <2>6. \A j \in Clusters : j # k /\ due[j] # NoOp => Addressed(due[j]) \subseteq HartsOf[j]
    <3>1. \A j \in Clusters : due[j] # NoOp => due[j].k = j /\ due[j].i \in 0 .. NumCores[j] - 1
      BY <1>0 DEF DueInv, TypeOK, Ops, HartFacts
    <3> QED BY <3>1 DEF Addressed, HartFacts
  <2>7. \A j \in Clusters : j # k /\ due[j] # NoOp /\ ~(Early /\ op.k = j) =>
          /\ active'[j] \subseteq Addressed(due[j])
          /\ \A g \in Addressed(due[j]) : g \in active'[j] \/ ran'[g] = due[j].job
    BY <1>0, <1>6, <1>7, <2>6 DEF WorkInv, HartFacts
  <2>8. \A g \in Harts : Engaged(g)' => sent[g] = due[ClusterId[g]].job
    BY <1>0, <2>1 DEF WorkInv
  <2> QED BY <1>1, <2>4, <2>5, <2>7, <2>8 DEF WorkInv
<1>11. ReportInv'
  <2>1. ASSUME NEW g \in Harts, cpc'[g] \in {"last", "return"}, ClusterId[g] = k, g # h
        PROVE  FALSE
    <3>1. cpc[g] \in {"last", "return"}
      BY <1>1, <2>1 DEF OthersKept
    <3>2. active[k] = {}
      BY <1>0, <2>1, <3>1 DEF LoadedInv
    <3>3. cpc[h] \in {"last", "return"}
      BY <1>2, <1>3, <3>2
    <3> QED BY <1>0, <2>1, <3>1, <3>3 DEF ReportInv
  <2>2. ASSUME ret'[k] # 0
        PROVE  /\ ret'[k] = due[k].job /\ active'[k] = {} /\ ~busy'[k]
               /\ \A g \in Harts : ClusterId[g] = k => cpc'[g] = "park"
    <3>1. cpc[h] = "return" /\ cpc'[h] = "park" /\ ret'[k] = got[h]["function"] /\ busy' = busy /\ active' = active
      BY <1>1, <1>5, <2>2 DEF Walks, OthersKept
    <3>2. ret'[k] = due[k].job /\ ~busy'[k] /\ active'[k] = {}
      BY <1>0, <1>4, <3>1 DEF ReportInv
    <3>3. ASSUME NEW g \in Harts, ClusterId[g] = k, g # h PROVE cpc'[g] = "park"
      <4>1. ~Engaged(g)
        BY <1>0, <3>1, <3>2, <3>3 DEF EngagedInv
      <4>2. cpc'[g] \notin {"last", "return"} /\ cpc'[g] = cpc[g]
        BY <1>1, <2>1, <3>3 DEF OthersKept
      <4> QED BY <1>0, <4>1, <4>2 DEF Engaged, Passed, TypeOK, CPCs
    <3> QED BY <3>1, <3>2, <3>3
  <2>3. cpc'[h] \in {"last", "return"} => got'[h]["function"] = due[k].job
    BY <1>0, <1>1 DEF Walks, LoadedInv, WorkInv, ReportInv, Engaged, Passed
  <2>4. cpc'[h] = "return" => ~busy'[k]
    BY <1>1 DEF Walks
  <2>5. \A g \in Harts : ClusterId[g] # k => cpc'[g] = cpc[g] /\ got'[g] = got[g] /\ ClusterId[g] \in Clusters
    BY <1>1 DEF OthersKept, HartFacts
  <2>6. \A g \in Harts : cpc'[g] \in {"last", "return"} =>
          /\ got'[g]["function"] = due[ClusterId[g]].job
          /\ cpc'[g] = "return" => ~busy'[ClusterId[g]]
          /\ \A f \in Harts : ClusterId[f] = ClusterId[g] /\ cpc'[f] \in {"last", "return"} => f = g
    <3>1. ASSUME NEW g \in Harts, ClusterId[g] = k, cpc'[g] \in {"last", "return"}
          PROVE  /\ got'[g]["function"] = due[ClusterId[g]].job
                 /\ cpc'[g] = "return" => ~busy'[ClusterId[g]]
                 /\ \A f \in Harts : ClusterId[f] = ClusterId[g] /\ cpc'[f] \in {"last", "return"} => f = g
      BY <2>1, <2>3, <2>4, <3>1
    <3>2. ASSUME NEW g \in Harts, ClusterId[g] # k, cpc'[g] \in {"last", "return"}
          PROVE  /\ got'[g]["function"] = due[ClusterId[g]].job
                 /\ cpc'[g] = "return" => ~busy'[ClusterId[g]]
                 /\ \A f \in Harts : ClusterId[f] = ClusterId[g] /\ cpc'[f] \in {"last", "return"} => f = g
      BY <1>0, <1>6, <2>5, <3>2 DEF ReportInv
    <3> QED BY <3>1, <3>2
  <2>7. \A j \in Clusters : j # k /\ ret'[j] # 0 =>
          /\ ret'[j] = due[j].job /\ active'[j] = {} /\ ~busy'[j]
          /\ \A g \in Harts : ClusterId[g] = j => cpc'[g] = "park"
    BY <1>0, <1>6, <1>7 DEF ReportInv
  <2> QED BY <1>1, <2>2, <2>6, <2>7 DEF ReportInv
<1>12. WaitInv'
  BY <1>0, <1>1, <1>5, <1>6 DEF WaitInv
<1> QED BY <1>8, <1>9, <1>10, <1>11, <1>12 DEF CollectInv

LEMMA HostKeepsCollect ==
    ASSUME IInv, app.collects, AppStep \/ DriverStep \/ UNCHANGED vars
    PROVE  CollectInv'
<1> USE HartFactsHold, CallFacts
<1>0. TypeOK /\ ActiveInv /\ HostInv /\ SetupInv /\ EngagedInv /\ LoadedInv /\ ReadyInv
      /\ QuietInv /\ DueInv /\ WorkInv /\ ReportInv /\ WaitInv
  BY DEF IInv, CollectInv
<1>a. /\ active \in [Clusters -> SUBSET Harts] /\ due \in [Clusters -> Ops] /\ ret \in [Clusters -> 0..MaxJobs]
      /\ power \in [Clusters -> Powers]
      /\ \A h \in Harts : ClusterId[h] \in Clusters
      /\ \A k \in Clusters : due[k] # NoOp => Addressed(due[k]) \subseteq Harts
  <2>1. \A k \in Clusters : due[k] # NoOp => due[k].k = k /\ due[k].i \in 0 .. NumCores[k] - 1
    BY <1>0 DEF DueInv, TypeOK, Ops, HartFacts
  <2> QED BY <1>0, <2>1 DEF TypeOK, HartFacts, Addressed
<1>b. \A k \in Clusters : Quiet(k) => \A h \in Harts : ClusterId[h] = k => ~Engaged(h)
  BY <1>0 DEF Quiet, EngagedInv
<1>c. hpc = "app" => op.kind = "none" /\ ~Early /\ ~Offloading
  BY <1>0 DEF HostInv, NoOp, Early, Offloading
<1>d. hpc' \in {"app", "spin", "read", "clear"} /\ op'.kind = "none" => ~Early' /\ ~Offloading'
  BY DEF Early, Offloading
<1>e. Offloading => due[op.k] # NoOp
  BY <1>0 DEF DueInv, HostInv, NoOp
\* Only the host has moved.
<1>1. ASSUME UNCHANGED <<msip, cpc, active, busy, ret, got, ran, sent, due>>,
             Early' => Early /\ op'.k = op.k, Early /\ ~Early' => ~Offloading'
      PROVE  QuietInv' /\ ReportInv'
  BY <1>0, <1>1 DEF QuietInv, Quiet, ReportInv
<1>2. ASSUME UNCHANGED <<msip, cpc, active, ran, sent, due>>,
             \A k \in Clusters : due[k] # NoOp /\ Early /\ op.k = k => Early' /\ op'.k = k
      PROVE  WorkInv'
  BY <1>0, <1>2 DEF WorkInv, Engaged
<1>3. CASE UNCHANGED <<msip, cpc, active, busy, ret, got, ran, sent, due, power, hpc, op, result>>
  BY <1>0, <1>1, <1>2, <1>3 DEF DueInv, WaitInv, CollectInv, Early, Offloading
\* The clock and the reset of a cluster.
<1>4. CASE \E k \in Clusters : UngateClock(k) \/ AssertReset(k) \/ ReleaseReset(k) \/ GateClock(k)
  <2>1. PICK k \in Clusters : UngateClock(k) \/ AssertReset(k) \/ ReleaseReset(k) \/ GateClock(k)
    BY <1>4
  <2>2. /\ hpc = "app" /\ UNCHANGED <<msip, active, busy, ret, got, ran, sent, due, hpc, op, result>>
        /\ \A j \in Clusters : j # k => power'[j] = power[j]
        /\ \A h \in Harts : cpc'[h] = cpc[h] \/ cpc'[h] = "park"
    BY <1>a, <2>1 DEF UngateClock, AssertReset, ReleaseReset, GateClock, Switch, coreVars, hostVars
  <2>3. due[k] = NoOp
    <3>1. power[k] # "up" \/ due[k] = NoOp
      BY <2>1 DEF UngateClock, AssertReset, ReleaseReset, GateClock, Switch
    <3> QED BY <1>0, <3>1 DEF DueInv
  <2>4. UNCHANGED <<Early, Offloading>>
    BY <2>2 DEF Early, Offloading
  <2>5. QuietInv'
    BY <1>0, <2>2, <2>4 DEF QuietInv, Quiet
  <2>6. DueInv'
    BY <1>0, <2>2, <2>3, <2>4 DEF DueInv
  <2>7. \A h \in Harts : Engaged(h)' => Engaged(h)
    BY <2>2 DEF Engaged, Passed
  <2>8. WorkInv'
    BY <1>0, <2>2, <2>4, <2>7 DEF WorkInv
  <2>9. ReportInv'
    BY <1>0, <2>2 DEF ReportInv
  <2>10. WaitInv'
    BY <1>0, <2>2 DEF WaitInv
  <2> QED BY <2>5, <2>6, <2>8, <2>9, <2>10 DEF CollectInv
<1>5. CASE \E kind \in app.kinds, k \in Clusters :
             \E i \in 0 .. NumCores[k] - 1 : CallOffload(kind, k, i)
  <2>1. PICK kind \in app.kinds, k \in Clusters : \E i \in 0 .. NumCores[k] - 1 : CallOffload(kind, k, i)
    BY <1>5
  <2>2. PICK i \in 0 .. NumCores[k] - 1 : CallOffload(kind, k, i)
    BY <2>1
  <2>3. kind \in {"all", "core"} /\ NumCores[k] \in Nat /\ i < NumCores[k]
    <3>1. kind \in {"all", "core"}
      BY <1>0, OffloadAssumption DEF TypeOK, AppTypes
    <3> QED BY <3>1, OffloadAssumption
  <2>4. /\ op' = [kind |-> kind, k |-> k, i |-> i, job |-> jobs + 1]
        /\ hpc = "app" /\ hpc' = IF kind = "all" THEN "wait" ELSE "function"
        /\ UNCHANGED <<msip, cpc, active, busy, ret, power, got, ran, sent>>
        /\ due' = [due EXCEPT ![k] = op'] /\ due[k] = NoOp /\ power[k] = "up"
    BY <2>2 DEF CallOffload, HostGoto, regVars, coreVars
  <2>5. op'.kind = kind /\ op'.k = k /\ op'.i = i /\ op'.job = jobs + 1 /\ op' # NoOp
    BY <2>3, <2>4 DEF NoOp
  <2>6. due'[k] = op' /\ \A j \in Clusters : j # k => due'[j] = due[j]
    BY <1>a, <2>4
  <2>7. Early' /\ Offloading' /\ ~Early
    BY <1>c, <2>3, <2>4, <2>5 DEF Early, Offloading
  <2>8. Quiet(k) /\ \A j \in Clusters : Quiet(j)' <=> Quiet(j)
    BY <1>0, <2>4 DEF QuietInv, Quiet
  <2>9. QuietInv'
    BY <1>0, <2>5, <2>6, <2>7, <2>8 DEF QuietInv
  <2>10. DueInv'
    BY <1>0, <2>3, <2>4, <2>5, <2>6, <2>7 DEF DueInv
  <2>11. \A h \in Harts : (Engaged(h)' <=> Engaged(h)) /\ (Engaged(h) => ClusterId[h] # k)
    BY <1>b, <2>4, <2>8 DEF Engaged
  <2>12. WorkInv'
    BY <1>0, <1>a, <2>4, <2>5, <2>6, <2>7, <2>11 DEF WorkInv
  <2>13. ret[k] = 0 /\ \A h \in Harts : ClusterId[h] = k => cpc[h] = "park"
    BY <2>8 DEF Quiet
  <2>14. ReportInv'
    BY <1>0, <1>a, <2>4, <2>6, <2>13 DEF ReportInv
  <2>15. WaitInv'
    BY <2>4 DEF WaitInv
  <2> QED BY <2>9, <2>10, <2>12, <2>14, <2>15 DEF CollectInv
<1>6. CASE WaitBusy \/ WriteBootAddr \/ \E w \in Words : SetupTrampoline(w)
  <2>1. UNCHANGED <<msip, cpc, active, busy, ret, power, got, ran, sent, due, op>>
    BY <1>6 DEF WaitBusy, WriteBootAddr, SetupTrampoline, regVars, coreVars
  <2>2. Offloading /\ Offloading' /\ hpc' \notin {"read", "clear"}
    BY <1>6 DEF WaitBusy, WriteBootAddr, SetupTrampoline, HostGoto, Offloading, Words
  <2>3. Early' <=> Early
    <3>1. op.kind \in {"all", "core"}
      BY <1>0, <2>2 DEF HostInv
    <3>2. CASE WaitBusy
      BY <2>1, <3>2 DEF WaitBusy, HostGoto, Early
    <3>3. CASE WriteBootAddr
      BY <2>1, <3>1, <3>3 DEF WriteBootAddr, HostGoto, Early
    <3>4. CASE \E w \in Words : SetupTrampoline(w)
      BY <2>1, <3>1, <3>4 DEF SetupTrampoline, Early, Words
    <3> QED BY <1>6, <3>2, <3>3, <3>4
  <2>4. DueInv' /\ WaitInv'
    BY <1>0, <2>1, <2>2 DEF DueInv, WaitInv
  <2> QED BY <1>1, <1>2, <2>1, <2>3, <2>4 DEF CollectInv
<1>7. CASE Nops
  <2>1. /\ hpc = "nops" /\ hpc' = (IF op.kind = "all" THEN "function" ELSE "msip")
        /\ UNCHANGED <<msip, cpc, busy, ret, power, got, ran, sent, due, op>>
        /\ active' = [active EXCEPT ![op.k] = @ \cup Addressed(op)]
    BY <1>7 DEF Nops, HostGoto, regVars
  <2>2. Early /\ Offloading /\ Offloading' /\ op.kind \in {"all", "core"}
    BY <1>0, <2>1 DEF Early, Offloading, HostInv
  <2>3. ~Early'
    BY <2>1, <2>2 DEF Early
  <2>4. Quiet(op.k) /\ due[op.k] # NoOp
    BY <1>0, <1>e, <2>2 DEF QuietInv
  <2>5. Addressed(due[op.k]) = Addressed(op)
    BY <1>0, <2>2, <2>4 DEF DueInv, Addressed
  <2>6. active'[op.k] = Addressed(op) /\ \A k \in Clusters : k # op.k => active'[k] = active[k]
    BY <1>0, <1>a, <2>1, <2>4 DEF Quiet
  <2>7. QuietInv'
    BY <1>0, <2>1, <2>3, <2>4, <2>6 DEF QuietInv, Quiet
  <2>8. DueInv' /\ WaitInv'
    BY <1>0, <2>1, <2>2 DEF DueInv, WaitInv
  <2>9. WorkInv'
    BY <1>0, <2>1, <2>3, <2>5, <2>6 DEF WorkInv, Engaged
  <2>10. ReportInv'
    BY <1>0, <1>a, <2>1, <2>4, <2>6 DEF ReportInv, Quiet
  <2> QED BY <2>7, <2>8, <2>9, <2>10 DEF CollectInv
<1>8. CASE SendInterrupt
  <2>1. hpc = "msip" /\ UNCHANGED <<cpc, active, busy, ret, power, got, ran, due>>
    BY <1>8 DEF SendInterrupt, coreVars
  <2>2. Offloading /\ ~Early /\ op.kind \in {"all", "core"}
    BY <1>0, <2>1 DEF Early, Offloading, HostInv
  <2>3. hpc' \in {"function", "delay", "app"} /\ ~Early'
        /\ (Offloading' => op'.kind = op.kind /\ op'.k = op.k /\ op'.job = op.job /\ op'.kind = "all")
    BY <1>0, <1>8, <2>2, NextCore DEF SendInterrupt, Early, Offloading, NoOp
  <2>4. \A h \in Harts : h # Target => msip'[h] = msip[h] /\ sent'[h] = sent[h]
    BY <1>0, <1>8 DEF SendInterrupt, TypeOK
  <2>5. sent'[Target] = op.job /\ op.job = due[op.k].job
    BY <1>0, <1>8, <2>2 DEF SendInterrupt, TypeOK, DueInv
  <2>6. QuietInv'
    BY <1>0, <2>1, <2>3 DEF QuietInv, Quiet
  <2>7. DueInv' /\ WaitInv'
    BY <1>0, <2>1, <2>2, <2>3 DEF DueInv, WaitInv
  <2>8. \A h \in Harts : Engaged(h)' => sent'[h] = due[ClusterId[h]].job
    BY <1>0, <2>1, <2>4, <2>5 DEF WorkInv, Engaged
  <2>9. WorkInv'
    BY <1>0, <2>1, <2>2, <2>8 DEF WorkInv
  <2>10. ReportInv'
    BY <1>0, <2>1 DEF ReportInv
  <2> QED BY <2>6, <2>7, <2>9, <2>10 DEF CollectInv
<1>9. CASE FinalDelay \/ (\E k \in Clusters : CallWaitReturn(k)) \/ SpinReturn \/ ReadReturn
  <2>1. UNCHANGED <<msip, cpc, active, busy, ret, power, got, ran, sent, due>>
    BY <1>9 DEF FinalDelay, CallWaitReturn, SpinReturn, ReadReturn, regVars, coreVars
  <2>2. ~Early
    BY <1>0, <1>9 DEF FinalDelay, CallWaitReturn, SpinReturn, ReadReturn, HostGoto, Early, HostInv, NoOp
  <2>3. ~Early' /\ ~Offloading'
    BY <1>0, <1>9, <1>d DEF FinalDelay, CallWaitReturn, SpinReturn, ReadReturn, HostGoto, HostInv, NoOp
  <2>4. DueInv'
    BY <1>0, <2>1, <2>3 DEF DueInv
  <2>5. WaitInv'
    BY <1>0, <1>9, <2>1 DEF FinalDelay, CallWaitReturn, SpinReturn, ReadReturn, HostGoto, WaitInv
  <2> QED BY <1>1, <1>2, <2>1, <2>2, <2>3, <2>4, <2>5 DEF CollectInv
<1>10. CASE ClearReturn
  <2>1. /\ hpc = "clear" /\ hpc' = "app" /\ op' = NoOp
        /\ UNCHANGED <<msip, cpc, active, busy, power, got, ran, sent>>
        /\ ret' = [ret EXCEPT ![op.k] = 0] /\ due' = [due EXCEPT ![op.k] = NoOp]
    BY <1>10 DEF ClearReturn, HostGoto, coreVars
  <2>2. ~Early' /\ ~Offloading' /\ ~Early
    BY <1>0, <1>d, <2>1 DEF NoOp, HostInv, Early
  <2>3. ret'[op.k] = 0 /\ due'[op.k] = NoOp
        /\ \A k \in Clusters : k # op.k => ret'[k] = ret[k] /\ due'[k] = due[k]
    BY <1>0, <1>a, <2>1
  <2>4. active[op.k] = {} /\ ~busy[op.k] /\ \A h \in Harts : ClusterId[h] = op.k => cpc[h] = "park"
    BY <1>0, <2>1 DEF WaitInv, ReportInv
  <2>5. \A h \in Harts : (Engaged(h)' <=> Engaged(h)) /\ (Engaged(h) => ClusterId[h] # op.k)
    BY <1>0, <2>1, <2>4 DEF Engaged, EngagedInv
  <2>6. QuietInv'
    BY <1>0, <2>1, <2>2, <2>3, <2>4 DEF QuietInv, Quiet
  <2>7. DueInv' /\ WaitInv'
    BY <1>0, <2>1, <2>2, <2>3 DEF DueInv, WaitInv
  <2>8. WorkInv'
    BY <1>0, <1>a, <2>1, <2>2, <2>3, <2>5 DEF WorkInv
  <2>9. ReportInv'
    BY <1>0, <1>a, <2>1, <2>3, <2>4 DEF ReportInv
  <2> QED BY <2>6, <2>7, <2>8, <2>9 DEF CollectInv
<1>11. CASE SetupInterruptHandler \/ UNCHANGED vars
  BY <1>3, <1>11 DEF SetupInterruptHandler, vars, regVars, coreVars, hostVars
<1> QED BY <1>4, <1>5, <1>6, <1>7, <1>8, <1>9, <1>10, <1>11 DEF AppStep, DriverStep

-----------------------------------------------------------------------------
LEMMA InitInv == Init => IInv
<1> SUFFICES ASSUME Init PROVE IInv
  OBVIOUS
<1>1. 0 \in Clusters /\ NoOp \in Ops /\ 0 \in 0..MaxJobs
  BY OffloadAssumption, SMT DEF Clusters, NoOp, Ops
<1>2. op.kind = "none" /\ op.k = 0 /\ op.i = 0 /\ NumCores[0] \in Nat \ {0}
  BY <1>1, HartFactsHold DEF Init, NoOp, HartFacts
<1>3. msip \in [Harts -> BOOLEAN] /\ busy \in [Clusters -> BOOLEAN]
  BY Zenon DEF Init
<1>4. TypeOK
  <2>1. word \in [Harts -> [Words -> 0..MaxJobs]] /\ got \in [Harts -> [Words -> 0..MaxJobs]]
    BY <1>1 DEF Init
  <2>2. sent \in [Harts -> 0..MaxJobs] /\ ran \in [Harts -> 0..MaxJobs] /\ ret \in [Clusters -> 0..MaxJobs]
    BY <1>1 DEF Init
  <2>3. power \in [Clusters -> Powers] /\ cpc \in [Harts -> CPCs] /\ active \in [Clusters -> SUBSET Harts]
    BY DEF Init, Powers, CPCs
  <2>4. op \in Ops /\ op.i < NumCores[op.k] /\ due \in [Clusters -> Ops]
    BY <1>1, <1>2 DEF Init
  <2>5. app \in Apps /\ intr \in BOOLEAN /\ boot \in BOOLEAN /\ hpc \in HPCs /\ jobs = 0 /\ result = 0
    BY DEF Init, HPCs
  <2> QED BY <1>1, <1>3, <2>1, <2>2, <2>3, <2>4, <2>5 DEF TypeOK
<1>5. ~Early /\ ~Late /\ ~Offloading
  BY <1>2 DEF Init, Early, Late, Offloading
<1>6. \A h \in Harts : ~Engaged(h)
  BY DEF Init, Engaged, Passed
<1>7. ActiveInv /\ HostInv /\ SetupInv
  BY <1>5 DEF Init, ActiveInv, HostInv, SetupInv
<1>8. EngagedInv /\ LoadedInv /\ ReadyInv
  BY <1>5, <1>6 DEF Init, EngagedInv, LoadedInv, ReadyInv, Passed
<1>9. CollectInv
  BY <1>5, <1>6, HartFactsHold DEF Init, CollectInv, QuietInv, Quiet, DueInv, WorkInv, ReportInv, WaitInv, HartFacts
<1> QED BY <1>4, <1>7, <1>8, <1>9 DEF IInv

LEMMA NextInv == IInv /\ [Next]_vars => IInv'
<1> SUFFICES ASSUME IInv, [Next]_vars PROVE IInv'
  OBVIOUS
<1>1. TypeOK' /\ ActiveInv' /\ HostInv' /\ SetupInv'
  BY TypeStep, ActiveStep, HostStep, SetupStep DEF IInv
<1>2. app' = app
  BY CoreFrame DEF Next, AppStep, DriverStep, vars, hostVars, SetupInterruptHandler, UngateClock,
     AssertReset, ReleaseReset, GateClock, Switch, CallOffload, CallWaitReturn, WaitBusy, Nops,
     SetupTrampoline, WriteBootAddr, SendInterrupt, FinalDelay, SpinReturn, ReadReturn, ClearReturn
<1>3. app.collects => EngagedInv' /\ LoadedInv' /\ ReadyInv'
  BY CoreKeepsCore, HostKeepsCore DEF Next, IInv
<1>4. app.collects => CollectInv'
  BY CoreKeepsCollect, HostKeepsCollect DEF Next
<1> QED BY <1>1, <1>2, <1>3, <1>4 DEF IInv

\* IInv is an inductive invariant of Offload.
THEOREM OffloadInvariance == Spec => []IInv
<1>1. Init => IInv
  BY InitInv
<1>2. IInv /\ [Next]_vars => IInv'
  BY NextInv
<1> QED BY <1>1, <1>2, PTL DEF Spec

(* Whatever applications there are, the driver, the cores and the boot ROM *)
(* stay within their types; in particular the loop over the cores of a     *)
(* cluster ends at the last one, and __CLUSTER_ID_ASM names a cluster.     *)
THEOREM OffloadTypes == Spec => []TypeOK
<1>1. IInv => TypeOK
  BY DEF IInv
<1> QED BY <1>1, OffloadInvariance, PTL

(* With an application that fetches every result, each core runs the       *)
(* function, the argument and the stack of the offload that interrupted it *)
(* last; the application gets the result of the offload it waits for,      *)
(* executed by every core it addressed, and never stops or resets a        *)
(* cluster at work.  All of it however long the driver's delays last.      *)
THEOREM CollectingIsSafe == Spec => [](RunsItsJob /\ ResultOfJob /\ NoWorkInGatedCluster)
<1>0. IInv => RunsItsJob
  BY DEF IInv, TypeOK, RunsItsJob, LoadedInv, Words
<1>1. ASSUME IInv PROVE ResultOfJob
  <2> SUFFICES ASSUME app.collects, hpc = "clear"
               PROVE  /\ result = due[op.k].job
                      /\ \A h \in Addressed(due[op.k]) : ran[h] = result
                      /\ \A h \in HartsOf[op.k] : cpc[h] = "park" /\ ~msip[h]
    BY DEF ResultOfJob
  <2>1. /\ TypeOK /\ HostInv /\ EngagedInv /\ WorkInv /\ ReportInv /\ WaitInv
    BY <1>1 DEF IInv, CollectInv
  <2>2. op.k \in Clusters /\ due[op.k] # NoOp /\ ~Early
    BY <2>1, CallFacts DEF HostInv, Early
  <2>3. ret[op.k] # 0 /\ result = ret[op.k]
    BY <2>1 DEF WaitInv
  <2>4. /\ ret[op.k] = due[op.k].job /\ active[op.k] = {}
        /\ \A h \in Harts : ClusterId[h] = op.k => cpc[h] = "park"
    BY <2>1, <2>2, <2>3 DEF ReportInv
  <2>5. \A h \in Addressed(due[op.k]) : ran[h] = due[op.k].job
    BY <2>1, <2>2, <2>4 DEF WorkInv
  <2>6. \A h \in HartsOf[op.k] : h \in Harts /\ ClusterId[h] = op.k
    BY <2>2, HartFactsHold DEF HartFacts
  <2>7. \A h \in HartsOf[op.k] : ~msip[h]
    BY <2>1, <2>4, <2>6 DEF EngagedInv, Engaged
  <2> QED BY <2>3, <2>4, <2>5, <2>6, <2>7
<1>2. ASSUME IInv PROVE NoWorkInGatedCluster
  <2> SUFFICES ASSUME app.collects, NEW k \in Clusters, power[k] \in {"gated", "reset"}
               PROVE  ~busy[k] /\ \A h \in HartsOf[k] : cpc[h] = "park" /\ ~msip[h]
    BY DEF NoWorkInGatedCluster
  <2>1. EngagedInv /\ QuietInv /\ DueInv
    BY <1>2 DEF IInv, CollectInv
  <2>2. Quiet(k)
    BY <2>1 DEF DueInv, QuietInv
  <2> QED BY <2>1, <2>2, HartFactsHold DEF Quiet, EngagedInv, Engaged, HartFacts
<1> QED BY <1>0, <1>1, <1>2, OffloadInvariance, PTL
=============================================================================
