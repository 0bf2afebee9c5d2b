-------------------------------- MODULE Putc --------------------------------
(***************************************************************************)
(* The device half of the character output of the Snitch clusters          *)
(* (devices/snitch_cluster/runtime/putc.c): the cores' line buffers, the   *)
(* printf mutex and the two mailbox words of shared_data, through which a  *)
(* core hands a full buffer to the host and waits for the answer.          *)
(*                                                                         *)
(* One action is one access to memory that another hart can see; accesses  *)
(* to memory private to the core are merged with the next one.  Memory is  *)
(* sequentially consistent (the shared words are uncached on these SoCs).  *)
(* The host half is in the modules that extend this one.                   *)
(***************************************************************************)
EXTENDS Integers, Sequences

CONSTANTS
    Cores,      \* the cores that print; a core's id is its buffer's address
    Clusters,   \* the clusters that run the binary
    ClusterOf,  \* the cluster of each core
    Chars,      \* the characters printed
    NL,         \* the newline character
    BufLen,     \* PUTC_BUFFER_LEN
    InitSizes,  \* what hdr.size may hold when the cluster starts
    MaxChars,   \* bound: how many characters a core prints
    NULL        \* the mailbox value 0

ASSUME PutcAssumption ==
    /\ ClusterOf \in [Cores -> Clusters]
    /\ NL \in Chars
    /\ BufLen \in Nat \ {0}
    /\ InitSizes \subseteq Nat
    /\ MaxChars \in Nat
    /\ NULL \notin Cores
    /\ NULL \notin Clusters

VARIABLES
    data,       \* putc_buffer[c].data
    size,       \* putc_buffer[c].hdr.size
    sysLen,     \* putc_buffer[c].hdr.syscall_mem[3]
    pc,         \* where core c is in snrt_putchar
    acq,        \* the mutex pointer core c passed to the acquire
    budget,     \* bound: characters core c may still print
    mutexPtr,   \* _snrt_printf_mutex_ptr, one word for all clusters
    mutex,      \* the mutex word each cluster allocated in its L1
    d2h,        \* shared_data.device_to_host
    h2d,        \* shared_data.host_to_device
    msip        \* the host's software interrupt bit in the CLINT

coreVars == <<data, size, sysLen, pc, acq, budget>>
lockVars == <<mutexPtr, mutex>>
mailVars == <<d2h, h2d, msip>>
putcVars == <<coreVars, lockVars, mailVars>>

PCs == {"init", "run", "fill", "test", "swap", "post", "ring", "spin",
        "clear", "reset", "release", "done"}

\* The steps between a successful acquire and the release.
Critical == {"post", "ring", "spin", "clear", "reset", "release"}

\* The first n elements of an array (indexed from 0), as a sequence.
Prefix(f, n) == [i \in 1..n |-> f[i - 1]]

\* The first n characters of c's buffer.
Text(c, n) == Prefix(data[c], n)

(* putc_buffer is in .noinit: buffer and hdr.size hold whatever the memory *)
(* held, and nothing sets them before the first character.                 *)
PutcInit ==
    /\ data \in [Cores -> [0..BufLen-1 -> Chars]]
    /\ size \in [Cores -> InitSizes]
    /\ sysLen = [c \in Cores |-> 0]
    /\ pc = [c \in Cores |-> "init"]
    /\ acq = [c \in Cores |-> NULL]
    /\ budget = [c \in Cores |-> MaxChars]
    /\ mutexPtr = NULL
    /\ mutex = [k \in Clusters |-> 0]
    /\ d2h = NULL
    /\ h2d = NULL
    /\ msip = FALSE

Goto(c, from, to) ==
    /\ pc[c] = from
    /\ pc' = [pc EXCEPT ![c] = to]

-----------------------------------------------------------------------------
(* Plausible bugs of the actions below, each named for the action it       *)
(* replaces in a mutation run.                                             *)

\* The swap's old value is not looked at.
BugSwapIgnoresOld(c) ==
    /\ Goto(c, "swap", "post")
    /\ mutex' = [mutex EXCEPT ![acq[c]] = 1]
    /\ UNCHANGED <<data, size, sysLen, acq, budget, mutexPtr, mailVars>>

\* An atomic add in the place of the swap.
BugSwapAdds(c) ==
    /\ Goto(c, "swap", IF mutex[acq[c]] = 0 THEN "post" ELSE "test")
    /\ mutex' = [mutex EXCEPT ![acq[c]] = @ + 1]
    /\ UNCHANGED <<data, size, sysLen, acq, budget, mutexPtr, mailVars>>

\* The core does not wait for the answer.
BugSpinSkipped(c) ==
    /\ Goto(c, "spin", "clear")
    /\ UNCHANGED <<data, size, sysLen, acq, budget, lockVars, mailVars>>

\* The answer stays in the mailbox.
BugReplyNotCleared(c) ==
    /\ Goto(c, "clear", "reset")
    /\ UNCHANGED <<data, size, sysLen, acq, budget, lockVars, mailVars>>

\* The buffer is not emptied after the flush.
BugSizeNotReset(c) ==
    /\ Goto(c, "reset", "release")
    /\ UNCHANGED <<data, size, sysLen, acq, budget, lockVars, mailVars>>

\* The mutex is never given back.
BugNoRelease(c) ==
    /\ Goto(c, "release", "run")
    /\ UNCHANGED <<data, size, sysLen, acq, budget, lockVars, mailVars>>

-----------------------------------------------------------------------------
(* The end of snrt_init: the DM core of cluster k runs snrt_printf_init,   *)
(* then the hardware barrier lets the cores of k go on together.           *)
SnrtPrintfInit(k) ==
    /\ \E c \in Cores : ClusterOf[c] = k
    /\ \A c \in Cores : ClusterOf[c] = k => pc[c] = "init"
    /\ mutexPtr' = k
    /\ mutex' = [mutex EXCEPT ![k] = 0]
    /\ pc' = [c \in Cores |-> IF ClusterOf[c] = k THEN "run" ELSE pc[c]]
    /\ UNCHANGED <<data, size, sysLen, acq, budget, mailVars>>

(* snrt_putchar: buf->data[buf->hdr.size++] = c, and the test whether to   *)
(* flush.  A store past the end of the array lands outside this buffer.    *)
Putchar(c, ch) ==
    /\ budget[c] > 0
    /\ Goto(c, "run", IF size[c] + 1 = BufLen \/ ch = NL THEN "fill" ELSE "run")
    /\ data' = IF size[c] < BufLen THEN [data EXCEPT ![c][size[c]] = ch] ELSE data
    /\ size' = [size EXCEPT ![c] = @ + 1]
    /\ budget' = [budget EXCEPT ![c] = @ - 1]
    /\ UNCHANGED <<sysLen, acq, lockVars, mailVars>>

(* The system call's descriptor; the mutex pointer is read for the call of *)
(* the acquire.                                                            *)
FillSyscall(c) ==
    /\ Goto(c, "fill", "test")
    /\ sysLen' = [sysLen EXCEPT ![c] = size[c]]
    /\ acq' = [acq EXCEPT ![c] = mutexPtr]
    /\ UNCHANGED <<data, size, budget, lockVars, mailVars>>

(* snrt_mutex_ttas_acquire: spin on a plain load, then an atomic swap;     *)
(* back to the spin when the swap finds the mutex taken.                   *)
TestMutex(c) ==
    /\ Goto(c, "test", "swap")
    /\ mutex[acq[c]] = 0
    /\ UNCHANGED <<data, size, sysLen, acq, budget, lockVars, mailVars>>

SwapMutex(c) ==
    /\ Goto(c, "swap", IF mutex[acq[c]] = 0 THEN "post" ELSE "test")
    /\ mutex' = [mutex EXCEPT ![acq[c]] = 1]
    /\ UNCHANGED <<data, size, sysLen, acq, budget, mutexPtr, mailVars>>

PostRequest(c) ==
    /\ Goto(c, "post", "ring")
    /\ d2h' = c
    /\ UNCHANGED <<data, size, sysLen, acq, budget, lockVars, h2d, msip>>

RingHost(c) ==
    /\ Goto(c, "ring", "spin")
    /\ msip' = TRUE
    /\ UNCHANGED <<data, size, sysLen, acq, budget, lockVars, d2h, h2d>>

\* while (shared_data.host_to_device == 0);
SpinOnReply(c) ==
    /\ h2d # NULL
    /\ Goto(c, "spin", "clear")
    /\ UNCHANGED <<data, size, sysLen, acq, budget, lockVars, mailVars>>

ClearReply(c) ==
    /\ Goto(c, "clear", "reset")
    /\ h2d' = NULL
    /\ UNCHANGED <<data, size, sysLen, acq, budget, lockVars, d2h, msip>>

ResetSize(c) ==
    /\ Goto(c, "reset", "release")
    /\ size' = [size EXCEPT ![c] = 0]
    /\ UNCHANGED <<data, sysLen, acq, budget, lockVars, mailVars>>

\* The pointer is read again for the release.
ReleaseMutex(c) ==
    /\ Goto(c, "release", "run")
    /\ mutex' = [mutex EXCEPT ![mutexPtr] = 0]
    /\ UNCHANGED <<data, size, sysLen, acq, budget, mutexPtr, mailVars>>

\* The offloaded function returns on core c.
ReturnFromTask(c) ==
    /\ Goto(c, "run", "done")
    /\ UNCHANGED <<data, size, sysLen, acq, budget, lockVars, mailVars>>

SnrtPutchar(c) ==
    \/ \E ch \in Chars : Putchar(c, ch)
    \/ FillSyscall(c)
    \/ TestMutex(c)
    \/ SwapMutex(c)
    \/ PostRequest(c)
    \/ RingHost(c)
    \/ SpinOnReply(c)
    \/ ClearReply(c)
    \/ ResetSize(c)
    \/ ReleaseMutex(c)

CoreStep(c) == SnrtPutchar(c) \/ ReturnFromTask(c)

DeviceNext ==
    \/ \E k \in Clusters : SnrtPrintfInit(k)
    \/ \E c \in Cores : CoreStep(c)

-----------------------------------------------------------------------------
PutcTypeOK ==
    /\ data \in [Cores -> [0..BufLen-1 -> Chars]]
    /\ size \in [Cores -> Nat]
    /\ sysLen \in [Cores -> Nat]
    /\ pc \in [Cores -> PCs]
    /\ acq \in [Cores -> Clusters \cup {NULL}]
    /\ budget \in [Cores -> 0..MaxChars]
    /\ mutexPtr \in Clusters \cup {NULL}
    /\ mutex \in [Clusters -> {0, 1}]
    /\ d2h \in Cores \cup {NULL}
    /\ h2d \in Cores \cup {NULL}
    /\ msip \in BOOLEAN
=============================================================================
