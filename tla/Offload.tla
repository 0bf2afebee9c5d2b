------------------------------ MODULE Offload ------------------------------
(***************************************************************************)
(* Offloading functions to the Snitch clusters: the host driver            *)
(* (host/drivers/cluster/offload_snitchCluster.c), the interrupt handler   *)
(* and the trampoline that the woken cores run, and the order in which the *)
(* host applications of tests/ call them.  Host and cores run in parallel  *)
(* and meet in the trampoline words of shared_data, the SOC_CTRL registers *)
(* and the software interrupt bits; one action is one access to these.     *)
(*                                                                         *)
(* The cluster's boot ROM (where a parked core waits, and what happens     *)
(* after the offloaded function returned) is hardware outside of the       *)
(* repository, modelled from what the driver expects of it: the last of    *)
(* the cores an offload addresses clears the busy flag and then writes a   *)
(* non-zero return value.                                                  *)
(***************************************************************************)
EXTENDS Integers, FiniteSets

CONSTANTS
    NumClusters,    \* NUM_CLUSTERS
    NumCores,       \* _chimera_numCores
    HostCores,      \* HOST_NUMCORES, the first hart of cluster 0
    Apps,           \* the applications, see below
    MaxJobs         \* bound: number of offloads of any application

Clusters == 0 .. NumClusters - 1

(* An application is described by the calls it makes, "all" for            *)
(* offload_snitchCluster and "core" for offload_snitchCluster_core; by     *)
(* whether it fetches the result of a cluster before it offloads there     *)
(* again; and by how many offloads it makes.                               *)
AppTypes ==
    [kinds : SUBSET {"all", "core"}, collects : BOOLEAN, jobs : 0..MaxJobs]

ASSUME OffloadAssumption ==
    /\ NumClusters \in Nat \ {0}
    /\ NumCores \in [Clusters -> Nat \ {0}]
    /\ HostCores \in Nat
    /\ Apps \subseteq AppTypes
    /\ MaxJobs \in Nat

\* _chimera_hartBase: CLUSTER_n_HART_BASE, each from the one before.
HartBase[k \in Clusters] ==
    IF k = 0 THEN HostCores ELSE HartBase[k - 1] + NumCores[k - 1]

\* _get_hart_id
HartId(k, i) == HartBase[k] + i

HartsOf == [k \in Clusters |-> {HartId(k, i) : i \in 0 .. NumCores[k] - 1}]
Harts == UNION {HartsOf[k] : k \in Clusters}

\* CLUSTER_0_NUMCORES + ... + CLUSTER_<k-1>_NUMCORES
CoresBelow[k \in Clusters] ==
    IF k = 0 THEN 0 ELSE CoresBelow[k - 1] + NumCores[k - 1]

\* The threshold operands of _SET_CLUSTER_BUSY.
Threshold == [k \in Clusters |-> HostCores + CoresBelow[k]]

\* __CLUSTER_ID_ASM: a core counts the thresholds that its id reaches.
ClusterId ==
    [h \in Harts |-> Cardinality({k \in Clusters \ {0} : h >= Threshold[k]})]

VARIABLES
    app,        \* the application
    word,       \* shared_data.trampoline_function, _args, _stack of each hart
    intr,       \* the interrupt handler register is written
    boot,       \* the boot address register is written
    msip,       \* the cores' software interrupt bits in the CLINT
    busy,       \* the clusters' busy registers
    ret,        \* the clusters' return registers; 0 when empty
    power,      \* the clusters' clock gate and soft reset registers
    cpc,        \* where each core is
    got,        \* the words each core loaded in the trampoline
    active,     \* boot ROM: the addressed cores that have not returned yet
    hpc,        \* where the host is
    op,         \* the arguments of the driver call it is in
    jobs,       \* number of offloads so far; an offload's number is its job
    result,     \* retVal of wait_snitchCluster_return
    sent,       \* the job for which a hart was interrupted last
    ran,        \* the job a hart executed last
    due         \* the offload whose result is due from each cluster, or NoOp

regVars  == <<intr, boot, msip, busy, ret, power>>
coreVars == <<cpc, got, active, ran>>
hostVars == <<hpc, op, jobs, result, sent, due>>
vars == <<app, word, regVars, coreVars, hostVars>>

Words == {"function", "args", "stack"}
Ops == [kind : {"none", "all", "core"}, k : Clusters, i : Nat, job : 0..MaxJobs]
NoOp == [kind |-> "none", k |-> 0, i |-> 0, job |-> 0]
CPCs == {"park", "handler", "ack", "jump", "stack", "function", "args", "run",
         "last", "return"}
Powers == {"gated", "clocked", "reset", "up"}
HPCs == {"app", "wait", "nops", "function", "args", "stack", "boot", "msip",
         "delay", "spin", "read", "clear"}

Init ==
    /\ app \in Apps
    /\ word = [h \in Harts |-> [w \in Words |-> 0]]
    /\ intr = FALSE
    /\ boot = FALSE
    /\ msip = [h \in Harts |-> FALSE]
    /\ busy = [k \in Clusters |-> FALSE]
    /\ ret = [k \in Clusters |-> 0]
    /\ power = [k \in Clusters |-> "gated"]
    /\ cpc = [h \in Harts |-> "park"]
    /\ got = [h \in Harts |-> [w \in Words |-> 0]]
    /\ active = [k \in Clusters |-> {}]
    /\ hpc = "app"
    /\ op = NoOp
    /\ jobs = 0
    /\ result = 0
    /\ sent = [h \in Harts |-> 0]
    /\ ran = [h \in Harts |-> 0]
    /\ due = [k \in Clusters |-> NoOp]

HostGoto(from, to) == hpc = from /\ hpc' = to
CoreGoto(h, from, to) ==
    /\ cpc[h] = from
    /\ cpc' = [cpc EXCEPT ![h] = to]

\* The hart that the host's current call is about.
Target == HartId(op.k, op.i)

\* The cores that an offload interrupts.
Addressed(o) == IF o.kind = "all" THEN HartsOf[o.k] ELSE {HartId(o.k, o.i)}

\* The clock gate or the soft reset of cluster k is written.
Switch(k, from, to) ==
    /\ power[k] = from
    /\ power' = [power EXCEPT ![k] = to]
    /\ UNCHANGED <<app, word, intr, boot, msip, busy, ret, hostVars>>

-----------------------------------------------------------------------------
(* Plausible bugs of the actions below.                                    *)

\* The words of every core go to the slot of the first one.
BugSameSlot(w) ==
    /\ hpc = w
    /\ word' = [word EXCEPT ![HartId(op.k, 0)][w] = op.job]
    /\ hpc' = CASE w = "function" -> "args" [] w = "args" -> "stack" [] w = "stack" -> "boot"
    /\ UNCHANGED <<app, regVars, coreVars, op, jobs, result, sent, due>>

\* The loop over the cores ends at core n.
LoopUntil(n) ==
    /\ hpc = "msip"
    /\ msip' = [msip EXCEPT ![Target] = TRUE]
    /\ sent' = [sent EXCEPT ![Target] = op.job]
    /\ IF op.kind = "all" /\ op.i < n
       THEN hpc' = "function" /\ op' = [op EXCEPT !.i = @ + 1]
       ELSE hpc' = "app" /\ op' = NoOp
    /\ UNCHANGED <<app, word, intr, boot, busy, ret, power, coreVars, jobs, result, due>>

BugLoopOneShort == LoopUntil(NumCores[op.k] - 2)
BugLoopOneOver == LoopUntil(NumCores[op.k])

\* The return register is not cleared.
BugReturnKept ==
    /\ HostGoto("clear", "app")
    /\ op' = NoOp
    /\ due' = [due EXCEPT ![op.k] = NoOp]
    /\ UNCHANGED <<app, word, regVars, coreVars, jobs, result, sent>>

\* The clock is gated as soon as the busy flag falls.
BugGateOnIdle(k) ==
    /\ hpc = "app"
    /\ ~busy[k]
    /\ Switch(k, "up", "gated")
    /\ UNCHANGED coreVars

-----------------------------------------------------------------------------
\* setup_snitchCluster_interruptHandler, the first call of an application.
SetupInterruptHandler ==
    /\ hpc = "app" /\ ~intr
    /\ intr' = TRUE
    /\ UNCHANGED <<app, word, boot, msip, busy, ret, power, coreVars, hostVars>>

(* The application brings a cluster up: clock on, into reset, out of it.   *)
(* Reset sends the cores back to the ROM, where they park.                 *)
UngateClock(k) ==
    /\ hpc = "app" /\ intr
    /\ Switch(k, "gated", "clocked")
    /\ UNCHANGED coreVars

AssertReset(k) ==
    /\ hpc = "app"
    /\ Switch(k, "clocked", "reset")
    /\ cpc' = [h \in Harts |-> IF h \in HartsOf[k] THEN "park" ELSE cpc[h]]
    /\ UNCHANGED <<got, active, ran>>

ReleaseReset(k) ==
    /\ hpc = "app"
    /\ Switch(k, "reset", "up")
    /\ UNCHANGED coreVars

\* The application stops the clock of a cluster whose result it has.
GateClock(k) ==
    /\ hpc = "app"
    /\ due[k] = NoOp
    /\ Switch(k, "up", "gated")
    /\ UNCHANGED coreVars

(* The application calls offload_snitchCluster, or                         *)
(* offload_snitchCluster_core for core i, which sets the core up before it *)
(* waits for the cluster.                                                  *)
CallOffload(kind, k, i) ==
    /\ jobs < app.jobs
    /\ power[k] = "up"
    /\ app.collects => due[k] = NoOp
    /\ kind = "all" => i = 0
    /\ HostGoto("app", IF kind = "all" THEN "wait" ELSE "function")
    /\ jobs' = jobs + 1
    /\ op' = [kind |-> kind, k |-> k, i |-> i, job |-> jobs + 1]
    /\ due' = [due EXCEPT ![k] = op']
    /\ UNCHANGED <<app, word, regVars, coreVars, result, sent>>

\* wait_snitchCluster_busy: while (snitchCluster_busy(clusterId) == 1);
WaitBusy ==
    /\ ~busy[op.k]
    /\ HostGoto("wait", "nops")
    /\ UNCHANGED <<app, word, regVars, coreVars, op, jobs, result, sent, due>>

(* The 5000 NOPs.  They look at nothing: the cores may do any number of    *)
(* steps meanwhile, or none.  From here on the ROM counts the cores that   *)
(* the offload addresses.                                                  *)
Nops ==
    /\ HostGoto("nops", IF op.kind = "all" THEN "function" ELSE "msip")
    /\ active' = [active EXCEPT ![op.k] = @ \cup Addressed(op)]
    /\ UNCHANGED <<app, word, regVars, cpc, got, ran, op, jobs, result, sent, due>>

\* _setup_trampoline, one store for each of the three words.
SetupTrampoline(w) ==
    /\ hpc = w
    /\ word' = [word EXCEPT ![Target][w] = op.job]
    /\ hpc' = CASE w = "function" -> "args" [] w = "args" -> "stack" [] w = "stack" -> "boot"
    /\ UNCHANGED <<app, regVars, coreVars, op, jobs, result, sent, due>>

WriteBootAddr ==
    /\ HostGoto("boot", IF op.kind = "all" THEN "msip" ELSE "wait")
    /\ boot' = TRUE
    /\ UNCHANGED <<app, word, intr, msip, busy, ret, power, coreVars, op, jobs, result, sent, due>>

\* The interrupt to the core, and the loop over the cores of the cluster.
SendInterrupt ==
    /\ hpc = "msip"
    /\ msip' = [msip EXCEPT ![Target] = TRUE]
    /\ sent' = [sent EXCEPT ![Target] = op.job]
    /\ \/ /\ op.kind = "all" /\ op.i < NumCores[op.k] - 1
          /\ hpc' = "function" /\ op' = [op EXCEPT !.i = @ + 1]
       \/ /\ op.kind = "all" /\ op.i = NumCores[op.k] - 1
          /\ hpc' = "delay" /\ op' = op
       \/ /\ op.kind = "core"
          /\ hpc' = "app" /\ op' = NoOp
    /\ UNCHANGED <<app, word, intr, boot, busy, ret, power, coreVars, jobs, result, due>>

\* The delay loop at the end of offload_snitchCluster, which looks at nothing.
FinalDelay ==
    /\ HostGoto("delay", "app")
    /\ op' = NoOp
    /\ UNCHANGED <<app, word, regVars, coreVars, jobs, result, sent, due>>

\* wait_snitchCluster_return: spin until non-zero, read again, clear.
CallWaitReturn(k) ==
    /\ due[k] # NoOp
    /\ HostGoto("app", "spin")
    /\ op' = [NoOp EXCEPT !.k = k]
    /\ UNCHANGED <<app, word, regVars, coreVars, jobs, result, sent, due>>

SpinReturn ==
    /\ ret[op.k] # 0
    /\ HostGoto("spin", "read")
    /\ UNCHANGED <<app, word, regVars, coreVars, op, jobs, result, sent, due>>

ReadReturn ==
    /\ HostGoto("read", "clear")
    /\ result' = ret[op.k]
    /\ UNCHANGED <<app, word, regVars, coreVars, op, jobs, sent, due>>

ClearReturn ==
    /\ HostGoto("clear", "app")
    /\ ret' = [ret EXCEPT ![op.k] = 0]
    /\ op' = NoOp
    /\ due' = [due EXCEPT ![op.k] = NoOp]
    /\ UNCHANGED <<app, word, intr, boot, msip, busy, power, coreVars, jobs, result, sent>>

-----------------------------------------------------------------------------
\* The cores of a cluster run while its clock does and it is not in reset.
Runs(h) == power[ClusterId[h]] \in {"clocked", "up"}

\* External: a parked core takes its software interrupt and calls the handler.
TakeInterrupt(h) ==
    /\ Runs(h) /\ msip[h] /\ intr
    /\ CoreGoto(h, "park", "handler")
    /\ UNCHANGED <<app, word, regVars, got, active, ran, hostVars>>

\* clusterInterruptHandler: _SET_CLUSTER_BUSY, then clear this hart's interrupt.
SetClusterBusy(h) ==
    /\ Runs(h)
    /\ CoreGoto(h, "handler", "ack")
    /\ busy' = [busy EXCEPT ![ClusterId[h]] = TRUE]
    /\ UNCHANGED <<app, word, intr, boot, msip, ret, power, got, active, ran, hostVars>>

ClearInterrupt(h) ==
    /\ Runs(h)
    /\ CoreGoto(h, "ack", "jump")
    /\ msip' = [msip EXCEPT ![h] = FALSE]
    /\ UNCHANGED <<app, word, intr, boot, busy, ret, power, got, active, ran, hostVars>>

\* External: the ROM jumps to the boot address, if there is one.
JumpToTrampoline(h) ==
    /\ Runs(h) /\ boot
    /\ CoreGoto(h, "jump", "stack")
    /\ UNCHANGED <<app, word, regVars, got, active, ran, hostVars>>

\* trampoline: the loads of the stack, the function and its argument.
LoadWord(h, w) ==
    /\ Runs(h)
    /\ CoreGoto(h, w, CASE w = "stack" -> "function" [] w = "function" -> "args"
                         [] w = "args" -> "run")
    /\ got' = [got EXCEPT ![h][w] = word[h][w]]
    /\ ran' = [ran EXCEPT ![h] = IF w = "function" THEN word[h][w] ELSE @]
    /\ UNCHANGED <<app, word, regVars, active, hostVars>>

(* External: the offloaded function returns to the ROM; the last addressed *)
(* core to do so goes on to report, the others park.                       *)
ReturnToRom(h) ==
    /\ Runs(h)
    /\ LET k == ClusterId[h] IN
       /\ active' = [active EXCEPT ![k] = @ \ {h}]
       /\ CoreGoto(h, "run", IF active'[k] = {} THEN "last" ELSE "park")
    /\ UNCHANGED <<app, word, regVars, got, ran, hostVars>>

RomClearBusy(h) ==
    /\ Runs(h)
    /\ CoreGoto(h, "last", "return")
    /\ busy' = [busy EXCEPT ![ClusterId[h]] = FALSE]
    /\ UNCHANGED <<app, word, intr, boot, msip, ret, power, got, active, ran, hostVars>>

RomWriteReturn(h) ==
    /\ Runs(h)
    /\ CoreGoto(h, "return", "park")
    /\ ret' = [ret EXCEPT ![ClusterId[h]] = got[h]["function"]]
    /\ UNCHANGED <<app, word, intr, boot, msip, busy, power, got, active, ran, hostVars>>

-----------------------------------------------------------------------------
AppStep ==
    \/ SetupInterruptHandler
    \/ \E k \in Clusters :
          UngateClock(k) \/ AssertReset(k) \/ ReleaseReset(k) \/ GateClock(k)
    \/ \E kind \in app.kinds, k \in Clusters :
          \E i \in 0 .. NumCores[k] - 1 : CallOffload(kind, k, i)
    \/ \E k \in Clusters : CallWaitReturn(k)

DriverStep ==
    \/ WaitBusy
    \/ Nops
    \/ \E w \in Words : SetupTrampoline(w)
    \/ WriteBootAddr
    \/ SendInterrupt
    \/ FinalDelay
    \/ SpinReturn
    \/ ReadReturn
    \/ ClearReturn

CoreStep(h) ==
    \/ TakeInterrupt(h)
    \/ SetClusterBusy(h)
    \/ ClearInterrupt(h)
    \/ JumpToTrampoline(h)
    \/ \E w \in Words : LoadWord(h, w)
    \/ ReturnToRom(h)
    \/ RomClearBusy(h)
    \/ RomWriteReturn(h)

Next ==
    \/ AppStep
    \/ DriverStep
    \/ \E h \in Harts : CoreStep(h)

(* The harts keep executing and an offloaded function returns; the         *)
(* application may stop between two calls.                                 *)
Fairness == WF_vars(DriverStep) /\ \A h \in Harts : WF_vars(CoreStep(h))

Spec == Init /\ [][Next]_vars
FairSpec == Spec /\ Fairness

-----------------------------------------------------------------------------
TypeOK ==
    /\ app \in Apps
    /\ word \in [Harts -> [Words -> 0..MaxJobs]]
    /\ intr \in BOOLEAN
    /\ boot \in BOOLEAN
    /\ msip \in [Harts -> BOOLEAN]
    /\ busy \in [Clusters -> BOOLEAN]
    /\ ret \in [Clusters -> 0..MaxJobs]
    /\ power \in [Clusters -> Powers]
    /\ cpc \in [Harts -> CPCs]
    /\ got \in [Harts -> [Words -> 0..MaxJobs]]
    /\ active \in [Clusters -> SUBSET Harts]
    /\ hpc \in HPCs
    /\ op \in Ops /\ op.i < NumCores[op.k]
    /\ jobs \in 0..MaxJobs
    /\ result \in 0..MaxJobs
    /\ sent \in [Harts -> 0..MaxJobs]
    /\ ran \in [Harts -> 0..MaxJobs]
    /\ due \in [Clusters -> Ops]

(* For an application that fetches every result, a core that runs the      *)
(* offloaded function runs it with the function, the argument and the      *)
(* stack of one and the same offload, the last one that interrupted it,    *)
(* whatever the host has been writing meanwhile.                           *)
RunsItsJob ==
    app.collects => \A h \in Harts :
        cpc[h] = "run" => \A w \in Words : got[h][w] = sent[h]

(* The value that wait_snitchCluster_return gives such an application is   *)
(* the one of the offload it waits for, and by then every core that was    *)
(* addressed has executed it and the whole cluster is back in the ROM.     *)
ResultOfJob ==
    app.collects /\ hpc = "clear" =>
        /\ result = due[op.k].job
        /\ \A h \in Addressed(due[op.k]) : ran[h] = result
        /\ \A h \in HartsOf[op.k] : cpc[h] = "park" /\ ~msip[h]

(* Such an application never stops the clock of, or resets, a cluster that *)
(* is still at work, and what it sends is only sent to a running one.      *)
NoWorkInGatedCluster ==
    app.collects => \A k \in Clusters : power[k] \in {"gated", "reset"} =>
        /\ ~busy[k]
        /\ \A h \in HartsOf[k] : cpc[h] = "park" /\ ~msip[h]

(* wait_snitchCluster_return ends: the value it waits for is written.      *)
WaitReturnReturns == hpc = "spin" ~> hpc = "app"
=============================================================================
