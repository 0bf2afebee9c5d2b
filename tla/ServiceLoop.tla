---------------------------- MODULE ServiceLoop ----------------------------
(***************************************************************************)
(* The host half of the cluster's character output, composed with the      *)
(* device half: the loop with which a host application serves the mailbox  *)
(* for as long as the cluster it offloaded to is busy                      *)
(* (tests/snitchCluster/snrt/src_host/test_host.c, and the same loop in    *)
(* tests/snitchCluster/matmul).                                            *)
(*                                                                         *)
(* The loop starts after offload_snitchCluster; that the busy flag is      *)
(* already set by then is what the delay at the end of that function is    *)
(* for, and is assumed here.                                               *)
(***************************************************************************)
EXTENDS Putc

CONSTANT Polled     \* the cluster whose busy flag the host polls

ASSUME PolledAssumption == Polled \in Clusters

VARIABLES
    hpc,        \* where the host is in the loop
    addr,       \* syscall_addr
    busy,       \* the busy register of cluster Polled
    console     \* what the host wrote to stdout: one text per system call

hostVars == <<hpc, addr, busy, console>>
vars == <<putcVars, hostVars>>

HPCs == {"poll", "check", "load", "ack", "serve", "reply", "sleep", "left"}

Init ==
    /\ PutcInit
    /\ hpc = "poll"
    /\ addr = NULL
    /\ busy = TRUE
    /\ console = <<>>

HostGoto(from, to) == hpc = from /\ hpc' = to

-----------------------------------------------------------------------------
(* Plausible bugs of the actions below.                                    *)

\* The request is not acknowledged.
BugNoAck ==
    /\ HostGoto("ack", "serve")
    /\ UNCHANGED <<addr, busy, console, putcVars>>

\* The answer is read from the request word, which is cleared by then.
BugReplyFromRequestWord ==
    /\ HostGoto("reply", "sleep")
    /\ h2d' = d2h
    /\ UNCHANGED <<addr, busy, console, coreVars, lockVars, d2h, msip>>

\* The first core that is back clears the flag, not the last one.
BugFirstCoreClearsBusy ==
    /\ busy
    /\ \E c \in Cores : ClusterOf[c] = Polled /\ pc[c] = "done"
    /\ busy' = FALSE
    /\ UNCHANGED <<hpc, addr, console, putcVars>>

-----------------------------------------------------------------------------
\* while (snitchCluster_busy(CLUSTER1))
PollBusy ==
    /\ HostGoto("poll", IF busy THEN "check" ELSE "left")
    /\ UNCHANGED <<addr, busy, console, putcVars>>

\* if (shared_data.device_to_host != 0)
CheckMailbox ==
    /\ HostGoto("check", IF d2h # NULL THEN "load" ELSE "sleep")
    /\ UNCHANGED <<addr, busy, console, putcVars>>

LoadRequest ==
    /\ HostGoto("load", "ack")
    /\ addr' = d2h
    /\ UNCHANGED <<busy, console, putcVars>>

AckRequest ==
    /\ HostGoto("ack", "serve")
    /\ d2h' = NULL
    /\ UNCHANGED <<addr, busy, console, coreVars, lockVars, h2d, msip>>

\* fwrite and fflush of the text that the descriptor at addr describes.
ServeWrite ==
    /\ HostGoto("serve", "reply")
    /\ console' = Append(console, [core |-> addr, text |-> Text(addr, sysLen[addr])])
    /\ UNCHANGED <<addr, busy, putcVars>>

Reply ==
    /\ HostGoto("reply", "sleep")
    /\ h2d' = addr
    /\ UNCHANGED <<addr, busy, console, coreVars, lockVars, d2h, msip>>

(* clint_sleep_ticks(0, 10).  The host's trap handler clears a pending     *)
(* software interrupt when the timer interrupt of the sleep is taken; no   *)
(* interrupt is taken when the wake-up time has passed already.            *)
SleepTicks ==
    /\ HostGoto("sleep", "poll")
    /\ msip' \in {msip, FALSE}
    /\ UNCHANGED <<addr, busy, console, coreVars, lockVars, d2h, h2d>>

(* The cluster's boot ROM, to which the offloaded function returns: the    *)
(* busy flag falls when the last core is back.                             *)
RomClearBusy ==
    /\ busy
    /\ \A c \in Cores : ClusterOf[c] = Polled => pc[c] = "done"
    /\ busy' = FALSE
    /\ UNCHANGED <<hpc, addr, console, putcVars>>

HostStep ==
    \/ PollBusy
    \/ CheckMailbox
    \/ LoadRequest
    \/ AckRequest
    \/ ServeWrite
    \/ Reply
    \/ SleepTicks

Next ==
    \/ (DeviceNext /\ UNCHANGED hostVars)
    \/ HostStep
    \/ RomClearBusy

(* Every hart keeps executing, a core prints finitely often, and the       *)
(* host's clint_sleep_ticks returns, which is an assumption: module Clint  *)
(* shows the race in which it does not.  The mutex is not assumed to be    *)
(* fair: the swap may lose every single race.                              *)
Fairness ==
    /\ \A k \in Clusters : WF_vars(SnrtPrintfInit(k) /\ UNCHANGED hostVars)
    /\ \A c \in Cores : WF_vars(CoreStep(c) /\ UNCHANGED hostVars)
    /\ WF_vars(HostStep)
    /\ WF_vars(RomClearBusy)

Spec == Init /\ [][Next]_vars
FairSpec == Spec /\ Fairness

-----------------------------------------------------------------------------
TypeOK ==
    /\ PutcTypeOK
    /\ hpc \in HPCs
    /\ addr \in Cores \cup {NULL}
    /\ busy \in BOOLEAN
    /\ console \in Seq([core : Cores, text : Seq(Chars)])

(* The TTAS mutex of snrt_putchar serialises the flushes: no two cores are *)
(* between the acquire and the release (putc.c, header comment).           *)
FlushesSerialised ==
    \A c, d \in Cores : pc[c] \in Critical /\ pc[d] \in Critical => c = d

(* The store of snrt_putchar stays inside the core's buffer, whatever the  *)
(* memory held at the start: hdr.size is a valid index whenever a          *)
(* character may be written.                                               *)
StoresInBounds ==
    \A c \in Cores : pc[c] = "run" => size[c] < BufLen

(* What the flush test, an equality, does guarantee: where every hdr.size  *)
(* is a valid index when the clusters start, it is one at every store.     *)
SizesInBounds == InitSizes \subseteq 0..BufLen-1

BoundsKept == SizesInBounds => StoresInBounds

(* From the moment the host takes a request until it answers it, the core  *)
(* it came from is waiting and its descriptor still matches its buffer:    *)
(* the fwrite never reads a text that is being changed.                    *)
HostReadsStableText ==
    hpc \in {"ack", "serve"} =>
        /\ addr # NULL
        /\ pc[addr] \in {"ring", "spin"}
        /\ sysLen[addr] = size[addr]
        /\ size[addr] \in 1..BufLen

(* An answer in host_to_device is for the one core that waits for it, and  *)
(* no new request can be in device_to_host before it is consumed.          *)
ReplyReachesRequester ==
    h2d # NULL => /\ pc[h2d] \in {"ring", "spin", "clear"}
                  /\ d2h = NULL

(* A request in the mailbox is only ever taken by the host; no core        *)
(* overwrites another core's request.                                      *)
RequestNotOverwritten ==
    [][d2h # NULL => d2h' \in {d2h, NULL}]_vars

(* When the host leaves the loop nothing is left in flight: no request is  *)
(* unanswered, no answer unread, and no core holds a complete text.        *)
LeavesNothingBehind ==
    hpc = "left" =>
        /\ d2h = NULL /\ h2d = NULL
        /\ \A c \in Cores : pc[c] = "done" /\ size[c] < BufLen

(* A core that has to flush gets its text printed and returns, although    *)
(* the spin lock is not fair.                                              *)
FlushCompletes ==
    \A c \in Cores : pc[c] = "fill" ~> pc[c] = "run"

(* The host's loop ends and the host goes on to collect the result.        *)
HostLeaves == <>(hpc = "left")

(* The text of c that the console does not show yet: the buffer is emptied *)
(* only after the answer, but the text is out once the host has written it.*)
Served(c) ==
    \/ pc[c] \in {"clear", "reset"}
    \/ h2d = c
    \/ hpc = "reply" /\ addr = c

Pending == [c \in Cores |-> IF Served(c) THEN <<>> ELSE Text(c, size[c])]

\* The cores that have to flush and whose text is not out.
CompleteCores ==
    {c \in Cores : /\ pc[c] \in {"fill", "test", "swap", "post", "ring", "spin"}
                   /\ ~Served(c)}

(* Device and host together implement the line printer: each complete text *)
(* is printed exactly once, whole, and before its core goes on.            *)
LP == INSTANCE LinePrinter WITH pending <- Pending, complete <- CompleteCores
ImplementsLinePrinter == LP!Spec

=============================================================================
