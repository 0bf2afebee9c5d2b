---------------------------- MODULE TestCluster ----------------------------
(***************************************************************************)
(* The test driver of the chimera-convolve target                          *)
(* (targets/chimera-convolve/host/src/test.c, test_cluster): it configures *)
(* the clock, brings the clusters up, offloads the kernel to them, serves  *)
(* their mailbox under a deadline, collects their results, and may start   *)
(* over.  The clusters print through the device half of module Putc.       *)
(*                                                                         *)
(* offload_snitchCluster and wait_snitchCluster_return are one action each *)
(* here: module Offload shows what they do in detail.  That the busy flag  *)
(* is up when the offload returns is what its final delay is for, and is   *)
(* assumed here.                                                           *)
(***************************************************************************)
EXTENDS Putc

CONSTANTS
    Ids,        \* test_cfg->clusterIds[0 .. clusters-1]
    Modes,      \* the test modes: "automatic", "dutctl", "interactive"
    Freqs,      \* the kinds of target frequency: "skip", "range", "ok"
    Errors,     \* the error counts a kernel may return
    MaxRounds   \* bound: how often the user starts a round

ASSUME TestClusterAssumption ==
    /\ Ids \in Seq(Clusters) /\ Len(Ids) > 0
    /\ \A i, j \in 1..Len(Ids) : Ids[i] = Ids[j] => i = j
    /\ Modes \subseteq {"automatic", "dutctl", "interactive"}
    /\ Freqs \subseteq {"skip", "range", "ok"}
    /\ Errors \subseteq Nat
    /\ MaxRounds \in Nat \ {0}

VARIABLES
    hpc,        \* where the host is in test_cluster
    mode,       \* test_cfg->mode
    freq,       \* the kind of target_freq_mhz
    clock,      \* the clock source: "bypass" or "fll"
    clkFailed,  \* history: the last change of the clock reported an error
    id,         \* the index of the loop the host is in, from 1
    done,       \* done
    late,       \* mtime has passed the deadline
    timedOut,   \* timed_out
    addr,       \* syscall_addr
    retVal,     \* retVal
    rounds,     \* bound: rounds started
    clk,        \* the clusters' clocks run
    busy,       \* the clusters' busy registers
    ret,        \* the clusters' return registers
    rom,        \* where the clusters' boot ROMs are
    errs        \* the error count that each cluster returned in this round

clockVars == <<clock, clkFailed>>
hostVars == <<hpc, mode, freq, clockVars, id, done, timedOut, addr, retVal, rounds>>
socVars  == <<late, clk, busy, ret, rom, errs>>
vars == <<putcVars, hostVars, socVars>>

(* test_cluster restores the default clock before its loop, ignoring an    *)
(* error, which leaves the clock as it was.                                *)
Init ==
    /\ PutcInit
    /\ hpc = "config"
    /\ mode \in Modes
    /\ freq \in Freqs
    /\ clock \in {"bypass", "fll"}
    /\ clkFailed \in BOOLEAN
    /\ clock = "fll" => clkFailed
    /\ id = 1
    /\ done = 0
    /\ late = FALSE
    /\ timedOut = FALSE
    /\ addr = NULL
    /\ retVal = 0
    /\ rounds = 0
    /\ clk = [k \in Clusters |-> FALSE]
    /\ busy = [k \in Clusters |-> FALSE]
    /\ ret = [k \in Clusters |-> 0]
    /\ rom = [k \in Clusters |-> "park"]
    /\ errs = [k \in Clusters |-> 0]

HostGoto(from, to) == hpc = from /\ hpc' = to

\* A loop over the clusters under test: the step for index id, then the next.
LoopGoto(from, to) ==
    /\ hpc = from
    /\ IF id < Len(Ids) THEN hpc' = from /\ id' = id + 1 ELSE hpc' = to /\ id' = 1

\* return -1
Fail ==
    /\ hpc' = "returned"
    /\ retVal' = -1

-----------------------------------------------------------------------------
(* Plausible bugs of the actions below.                                    *)

\* The deadline is looked at but not acted on.
BugNoTimeout ==
    /\ HostGoto("clock", "check")
    /\ UNCHANGED <<mode, freq, clockVars, id, done, timedOut, addr, retVal, rounds,
                   socVars, putcVars>>

\* A cluster that timed out is left running.
BugNoGateOnTimeout ==
    /\ LoopGoto("collect", "restore")
    /\ LET k == Ids[id] IN
       \/ /\ timedOut
          /\ retVal' = 0
          /\ UNCHANGED <<ret, clk>>
       \/ /\ ~timedOut
          /\ ret[k] # 0
          /\ retVal' = ret[k] \div 2
          /\ ret' = [ret EXCEPT ![k] = 0]
          /\ clk' = [clk EXCEPT ![k] = FALSE]
    /\ UNCHANGED <<mode, freq, clockVars, done, timedOut, addr, rounds, late, busy, rom,
                   errs, putcVars>>

\* The return register is not cleared.
BugReturnKept ==
    /\ LoopGoto("collect", "restore")
    /\ ~timedOut => ret[Ids[id]] # 0
    /\ retVal' = IF timedOut THEN 0 ELSE ret[Ids[id]] \div 2
    /\ clk' = [clk EXCEPT ![Ids[id]] = FALSE]
    /\ UNCHANGED <<mode, freq, clockVars, done, timedOut, addr, rounds, late, busy, ret,
                   rom, errs, putcVars>>

\* Another round although the last one timed out.
BugAgainAfterTimeout ==
    /\ hpc = "again"
    /\ \/ /\ mode = "interactive" /\ rounds < MaxRounds
          /\ hpc' = "config"
          /\ timedOut' = FALSE
          /\ done' = 0
       \/ hpc' = "returned" /\ UNCHANGED <<timedOut, done>>
    /\ UNCHANGED <<mode, freq, clockVars, id, addr, retVal, rounds, socVars, putcVars>>

-----------------------------------------------------------------------------
(* Repetitions and frequency: typed in, or those of the configuration.     *)
(* Reading from stdin may fail.                                            *)
ReadConfig ==
    /\ hpc = "config"
    /\ \/ /\ mode = "interactive"
          /\ freq' \in IF rounds < MaxRounds - 1 THEN Freqs ELSE Freqs \ {"range"}
          /\ hpc' = "fll"
          /\ rounds' = rounds + 1
          /\ UNCHANGED retVal
       \/ /\ mode = "interactive"
          /\ Fail
          /\ UNCHANGED <<freq, rounds>>
       \/ /\ mode # "interactive"
          /\ hpc' = "fll"
          /\ UNCHANGED <<freq, retVal, rounds>>
    /\ UNCHANGED <<mode, clockVars, id, done, timedOut, addr, socVars, putcVars>>

(* An out-of-range frequency starts the loop over.  configure_fll may fail *)
(* before it has touched the clock, in the bypass, or after the switch.    *)
ConfigureFll ==
    /\ hpc = "fll"
    /\ \/ freq = "skip" /\ hpc' = "setup" /\ UNCHANGED <<clockVars, retVal>>
       \/ freq = "range" /\ hpc' = "config" /\ UNCHANGED <<clockVars, retVal>>
       \/ /\ freq = "ok"
          /\ hpc' = "setup"
          /\ clock' = "fll" /\ clkFailed' = FALSE
          /\ UNCHANGED retVal
       \/ /\ freq = "ok"
          /\ Fail
          /\ clock' \in {clock, "bypass", "fll"} /\ clkFailed' = TRUE
    /\ UNCHANGED <<mode, freq, id, done, timedOut, addr, rounds, socVars, putcVars>>

\* Clock on, reset: the cluster's cores are back in the ROM.
SetupCluster ==
    /\ LoopGoto("setup", "deadline")
    /\ LET k == Ids[id] IN
       /\ clk' = [clk EXCEPT ![k] = TRUE]
       /\ rom' = [rom EXCEPT ![k] = "park"]
       /\ pc' = [c \in Cores |-> IF ClusterOf[c] = k THEN "init" ELSE pc[c]]
    /\ UNCHANGED <<mode, freq, clockVars, done, timedOut, addr, retVal, rounds, late, busy,
                   ret, errs, data, size, sysLen, acq, budget, lockVars, mailVars>>

SetDeadline ==
    /\ HostGoto("deadline", "offload")
    /\ late' = FALSE
    /\ UNCHANGED <<mode, freq, clockVars, id, done, timedOut, addr, retVal, rounds, clk, busy,
                   ret, rom, errs, putcVars>>

\* offload_snitchCluster, which waits for the busy flag to fall first.
OffloadId ==
    /\ LoopGoto("offload", "loop")
    /\ LET k == Ids[id] IN
       /\ ~busy[k]
       /\ busy' = [busy EXCEPT ![k] = TRUE]
       /\ rom' = [rom EXCEPT ![k] = "run"]
    /\ UNCHANGED <<mode, freq, clockVars, done, timedOut, addr, retVal, rounds, late, clk, ret,
                   errs, putcVars>>

\* while (done != test_cfg->clusters && !timed_out) { done = 0;
LoopTest ==
    /\ hpc = "loop"
    /\ IF done # Len(Ids) /\ ~timedOut
       THEN hpc' = "scan" /\ done' = 0
       ELSE hpc' = "collect" /\ done' = done
    /\ UNCHANGED <<mode, freq, clockVars, id, timedOut, addr, retVal, rounds, socVars, putcVars>>

ScanBusy ==
    /\ LoopGoto("scan", "clock")
    /\ done' = IF busy[Ids[id]] THEN done ELSE done + 1
    /\ UNCHANGED <<mode, freq, clockVars, timedOut, addr, retVal, rounds, socVars, putcVars>>

\* clint_mtime_less_than(deadline, current_time): break.
CheckDeadline ==
    /\ HostGoto("clock", IF late THEN "collect" ELSE "check")
    /\ timedOut' = late
    /\ UNCHANGED <<mode, freq, clockVars, id, done, addr, retVal, rounds, socVars, putcVars>>

CheckMailbox ==
    /\ HostGoto("check", IF d2h # NULL THEN "load" ELSE "sleep")
    /\ UNCHANGED <<mode, freq, clockVars, id, done, timedOut, addr, retVal, rounds, socVars,
                   putcVars>>

LoadRequest ==
    /\ HostGoto("load", "ack")
    /\ addr' = d2h
    /\ UNCHANGED <<mode, freq, clockVars, id, done, timedOut, retVal, rounds, socVars, putcVars>>

AckRequest ==
    /\ HostGoto("ack", "serve")
    /\ d2h' = NULL
    /\ UNCHANGED <<mode, freq, clockVars, id, done, timedOut, addr, retVal, rounds, socVars,
                   coreVars, lockVars, h2d, msip>>

ServeWrite ==
    /\ HostGoto("serve", "notify")
    /\ UNCHANGED <<mode, freq, clockVars, id, done, timedOut, addr, retVal, rounds, socVars,
                   putcVars>>

\* shared_data.device_to_host = syscall_addr;
NotifyCluster ==
    /\ HostGoto("notify", "sleep")
    /\ d2h' = addr
    /\ UNCHANGED <<mode, freq, clockVars, id, done, timedOut, addr, retVal, rounds, socVars,
                   coreVars, lockVars, h2d, msip>>

SleepTicks ==
    /\ HostGoto("sleep", "loop")
    /\ msip' \in {msip, FALSE}
    /\ UNCHANGED <<mode, freq, clockVars, id, done, timedOut, addr, retVal, rounds, socVars,
                   coreVars, lockVars, d2h, h2d>>

\* wait_snitchCluster_return unless timed out; gate the cluster's clock.
Collect ==
    /\ LoopGoto("collect", "restore")
    /\ LET k == Ids[id] IN
       /\ \/ timedOut /\ retVal' = 0 /\ UNCHANGED ret
          \/ /\ ~timedOut
             /\ ret[k] # 0
             /\ retVal' = ret[k] \div 2
             /\ ret' = [ret EXCEPT ![k] = 0]
       /\ clk' = [clk EXCEPT ![k] = FALSE]
    /\ UNCHANGED <<mode, freq, clockVars, done, timedOut, addr, rounds, late, busy, rom,
                   errs, putcVars>>

(* restore_default_freq, if the FLL was configured.  It may fail before or *)
(* after it has switched the clock; nobody looks at its result.            *)
RestoreFreq ==
    /\ HostGoto("restore", "again")
    /\ \/ freq # "ok" /\ UNCHANGED clockVars
       \/ freq = "ok" /\ clock' = "bypass" /\ clkFailed' = FALSE
       \/ freq = "ok" /\ clock' \in {clock, "bypass"} /\ clkFailed' = TRUE
    /\ UNCHANGED <<mode, freq, id, done, timedOut, addr, retVal, rounds, socVars, putcVars>>

\* Run again?  Only then is timed_out looked at.
Again ==
    /\ hpc = "again"
    /\ \/ /\ mode = "interactive" /\ ~timedOut /\ rounds < MaxRounds
          /\ hpc' = "config"
          /\ done' = 0
          /\ UNCHANGED retVal
       \/ mode = "interactive" /\ timedOut /\ Fail /\ UNCHANGED done
       \/ hpc' = "returned" /\ UNCHANGED <<done, retVal>>
    /\ UNCHANGED <<mode, freq, clockVars, id, timedOut, addr, rounds, socVars, putcVars>>

-----------------------------------------------------------------------------
\* A cluster's step: it was offloaded to and its clock runs.
PrintfInit(k) ==
    /\ clk[k] /\ rom[k] = "run"
    /\ SnrtPrintfInit(k)
    /\ UNCHANGED <<hostVars, socVars>>

KernelStep(c) ==
    /\ clk[ClusterOf[c]] /\ rom[ClusterOf[c]] = "run"
    /\ CoreStep(c)
    /\ UNCHANGED <<hostVars, socVars>>

(* The boot ROM: the last core that is back clears the busy flag, then the *)
(* return value is written with its lowest bit set, so that it is not 0.   *)
RomClearBusy(k) ==
    /\ clk[k] /\ rom[k] = "run"
    /\ \A c \in Cores : ClusterOf[c] = k => pc[c] = "done"
    /\ rom' = [rom EXCEPT ![k] = "report"]
    /\ busy' = [busy EXCEPT ![k] = FALSE]
    /\ UNCHANGED <<putcVars, hostVars, late, clk, ret, errs>>

RomWriteReturn(k) ==
    /\ clk[k] /\ rom[k] = "report"
    /\ rom' = [rom EXCEPT ![k] = "park"]
    /\ \E e \in Errors :
          errs' = [errs EXCEPT ![k] = e] /\ ret' = [ret EXCEPT ![k] = 2 * e + 1]
    /\ UNCHANGED <<putcVars, hostVars, late, clk, busy>>

\* mtime passes the deadline.
DeadlinePasses ==
    /\ ~late
    /\ late' = TRUE
    /\ UNCHANGED <<putcVars, hostVars, clk, busy, ret, rom, errs>>

HostStep ==
    \/ ReadConfig \/ ConfigureFll \/ SetupCluster \/ SetDeadline \/ OffloadId
    \/ LoopTest \/ ScanBusy \/ CheckDeadline
    \/ CheckMailbox \/ LoadRequest \/ AckRequest \/ ServeWrite \/ NotifyCluster
    \/ SleepTicks
    \/ Collect \/ RestoreFreq \/ Again

RomStep(k) == RomClearBusy(k) \/ RomWriteReturn(k)

Next ==
    \/ HostStep
    \/ \E k \in Clusters : PrintfInit(k) \/ RomStep(k)
    \/ \E c \in Cores : KernelStep(c)
    \/ DeadlinePasses

(* Every hart keeps executing, a kernel prints finitely often and returns, *)
(* and time goes on.  That clint_sleep_ticks and the fgets of the prompts  *)
(* return is an assumption (module Clint shows when a sleep does not).     *)
Fairness ==
    /\ WF_vars(HostStep)
    /\ \A k \in Clusters : WF_vars(PrintfInit(k)) /\ WF_vars(RomStep(k))
    /\ \A c \in Cores : WF_vars(KernelStep(c))
    /\ WF_vars(DeadlinePasses)

Spec == Init /\ [][Next]_vars
FairSpec == Spec /\ Fairness

-----------------------------------------------------------------------------
(* No offload has to wait for a cluster that can no longer answer: after a *)
(* timeout the clock of the cluster is gated with its busy flag still set, *)
(* and test_cluster must not come back to it.                              *)
OffloadNeverWaits ==
    hpc = "offload" => \A i \in id..Len(Ids) : ~busy[Ids[i]] /\ rom[Ids[i]] = "park"

(* The results collected are those of the clusters' functions of this very *)
(* round, and no return value stays in a register for the next one.        *)
CollectsThisRound ==
    hpc = "restore" /\ ~timedOut =>
        /\ retVal = errs[Ids[Len(Ids)]]
        /\ \A k \in Clusters : ret[k] = 0 /\ ~busy[k] /\ rom[k] = "park"

(* However test_cluster ends, no cluster is left with its clock running,   *)
(* and the chip runs on the FLL only if the last configure_fll or          *)
(* restore_default_freq reported an error.                                 *)
LeavesChipQuiet ==
    hpc = "returned" =>
        /\ \A k \in Clusters : ~clk[k]
        /\ clock = "fll" => clkFailed

(* A cluster that hangs does not hang the host: test_cluster returns, with *)
(* a user or a configured frequency that is not out of range.              *)
TestEnds ==
    mode = "interactive" \/ freq # "range" => <>(hpc = "returned")

(* In the modes without a user the test runs once and returns, whatever    *)
(* the frequency it is given.                                              *)
RunsOnce == <>(hpc = "returned")

(* A timeout is reported to the caller as a failure.                       *)
TimeoutReported == hpc = "returned" /\ timedOut => retVal # 0
=============================================================================
