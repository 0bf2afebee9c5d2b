------------------------- MODULE ServiceLoopProofs -------------------------
(***************************************************************************)
(* Proofs about ServiceLoop, for any number of cores, any buffer length,   *)
(* any alphabet and any content of the buffers at the start.  The mailbox  *)
(* protocol is proved for cores that belong to the one cluster the host    *)
(* polls, and with what .noinit gives hdr.size inside of the buffer.       *)
(***************************************************************************)
EXTENDS TLAPS, ServiceLoop

OneCluster == \A c \in Cores : ClusterOf[c] = Polled

-----------------------------------------------------------------------------
(* The inductive invariant.                                                *)

\* The core owns a text that it has begun to flush.
Flushing == {"test", "swap", "post", "ring", "spin", "clear", "reset"}

LockInv ==
    /\ \A c \in Cores : pc[c] # "init" => mutexPtr = Polled
    /\ \A c \in Cores : pc[c] \in {"test", "swap"} => acq[c] = Polled
    /\ \A c \in Cores : pc[c] \in Critical => mutex[Polled] = 1
    /\ FlushesSerialised

BufferInv ==
    \A c \in Cores :
        /\ size[c] <= BufLen
        /\ pc[c] \in {"init", "run", "release", "done"} => size[c] < BufLen
        /\ pc[c] \in Flushing => size[c] > 0 /\ sysLen[c] = size[c]
        /\ pc[c] = "fill" => size[c] > 0

MailInv ==
    /\ d2h # NULL => /\ pc[d2h] \in {"ring", "spin"}
                     /\ h2d = NULL
                     /\ hpc \notin {"serve", "reply"}
    /\ hpc = "load" => d2h # NULL
    /\ hpc = "ack" => d2h # NULL /\ addr = d2h
    /\ hpc \in {"serve", "reply"} => /\ addr # NULL
                                     /\ pc[addr] \in {"ring", "spin"}
                                     /\ h2d = NULL
    /\ h2d # NULL => pc[h2d] \in {"ring", "spin", "clear"}
    /\ \A c \in Cores : pc[c] = "clear" => h2d = c

LeaveInv ==
    /\ ~busy => \A c \in Cores : pc[c] = "done"
    /\ hpc = "left" => ~busy

IInv == TypeOK /\ LockInv /\ BufferInv /\ MailInv /\ LeaveInv

-----------------------------------------------------------------------------
Array == [0..BufLen-1 -> Chars]

(* The first n characters of a buffer are a text of length n.              *)
LEMMA PrefixFacts ==
    ASSUME NEW f \in Array, NEW n \in 0..BufLen
    PROVE  /\ Prefix(f, n) \in Seq(Chars)
           /\ Len(Prefix(f, n)) = n
           /\ n = 0 => Prefix(f, n) = <<>>
<1> USE PutcAssumption DEF Array
<1>1. \A i \in 1..n : i - 1 \in 0..BufLen-1
  OBVIOUS
<1>2. Prefix(f, n) \in [1..n -> Chars]
  BY <1>1 DEF Prefix
<1>3. Prefix(f, n) \in Seq(Chars)
  BY <1>2
<1>4. Len(Prefix(f, n)) = n
  BY <1>2, <1>3
<1>5. n = 0 => Prefix(f, n) = <<>>
  BY <1>3, <1>4
<1> QED
  BY <1>3, <1>4, <1>5

(* Storing a character behind the first n appends it to their text.        *)
LEMMA PrefixAppend ==
    ASSUME NEW f \in Array, NEW n \in 0..BufLen-1, NEW ch \in Chars
    PROVE  Prefix([f EXCEPT ![n] = ch], n + 1) = Append(Prefix(f, n), ch)
<1> DEFINE g == [f EXCEPT ![n] = ch]
<1>1. g \in Array /\ n + 1 \in 0..BufLen /\ n \in 0..BufLen
  BY PutcAssumption DEF Array
<1>2. \A i \in 1..n+1 : g[i - 1] = IF i = n + 1 THEN ch ELSE f[i - 1]
  BY PutcAssumption DEF Array
<1>3. /\ Prefix(f, n) \in Seq(Chars) /\ Len(Prefix(f, n)) = n
      /\ Prefix(g, n + 1) \in Seq(Chars) /\ Len(Prefix(g, n + 1)) = n + 1
  BY <1>1, PrefixFacts
<1>4. \A i \in 1..n+1 : Prefix(g, n + 1)[i] = g[i - 1]
  BY DEF Prefix
<1>5. \A i \in 1..n+1 : Append(Prefix(f, n), ch)[i] = IF i = n + 1 THEN ch ELSE f[i - 1]
  BY <1>3 DEF Prefix
<1> HIDE DEF g
<1>6. \A i \in 1..n+1 : Prefix(g, n + 1)[i] = Append(Prefix(f, n), ch)[i]
  BY <1>2, <1>4, <1>5
<1>7. Append(Prefix(f, n), ch) \in Seq(Chars) /\ Len(Append(Prefix(f, n), ch)) = n + 1
  BY <1>3
<1>8. Prefix(g, n + 1) = Append(Prefix(f, n), ch)
  BY <1>3, <1>6, <1>7
<1> QED
  BY <1>8 DEF g

(* What .noinit may give hdr.size, when it is in the buffer.               *)
LEMMA InitialSizes ==
    ASSUME SizesInBounds, Init
    PROVE  /\ size \in [Cores -> Nat]
           /\ \A c \in Cores : size[c] \in 0..BufLen /\ size[c] < BufLen
<1>1. size \in [Cores -> InitSizes]
  BY DEF Init, PutcInit
<1>2. BufLen \in Nat /\ \A n \in InitSizes : n \in Nat /\ n \in 0..BufLen-1
  BY PutcAssumption DEF SizesInBounds
<1>3. \A n \in InitSizes : n \in Nat /\ n \in 0..BufLen /\ n < BufLen
  BY <1>2
<1> QED
  BY <1>1, <1>3

LEMMA InitIInv ==
    ASSUME OneCluster, SizesInBounds, Init
    PROVE  IInv
<1>0. size \in [Cores -> Nat] /\ \A c \in Cores : size[c] < BufLen
  BY InitialSizes
<1>1. TypeOK
  <2>1. data \in [Cores -> [0..BufLen-1 -> Chars]]
    BY PutcAssumption DEF Init, PutcInit
  <2>2. console \in Seq([core : Cores, text : Seq(Chars)])
    BY DEF Init
  <2>3. msip \in BOOLEAN /\ busy \in BOOLEAN
    BY DEF Init, PutcInit
  <2>4. /\ size \in [Cores -> Nat]
        /\ sysLen \in [Cores -> Nat]
        /\ pc \in [Cores -> PCs]
        /\ acq \in [Cores -> Clusters \cup {NULL}]
        /\ budget \in [Cores -> 0..MaxChars]
        /\ mutex \in [Clusters -> {0, 1}]
    BY <1>0, PutcAssumption DEF Init, PutcInit, PCs
  <2> QED
    BY <2>1, <2>2, <2>3, <2>4 DEF Init, PutcInit, TypeOK, PutcTypeOK, HPCs
<1>2. LockInv
  BY DEF Init, PutcInit, LockInv, FlushesSerialised, Critical
<1>3. BufferInv
  <2>1. \A c \in Cores : pc[c] = "init" /\ size[c] \in Nat /\ size[c] < BufLen
    BY <1>0, PutcAssumption DEF Init, PutcInit
  <2>2. BufLen \in Nat
    BY PutcAssumption
  <2> QED
    BY <2>1, <2>2 DEF BufferInv, Flushing
<1>4. MailInv
  BY DEF Init, PutcInit, MailInv
<1>5. LeaveInv
  BY DEF Init, LeaveInv
<1> QED
  BY <1>1, <1>2, <1>3, <1>4, <1>5 DEF IInv

-----------------------------------------------------------------------------
(* One lemma per action: each preserves the invariant.                     *)

LEMMA SnrtPrintfInitIInv ==
    ASSUME OneCluster, IInv, NEW k \in Clusters, SnrtPrintfInit(k), UNCHANGED hostVars
    PROVE  IInv'
<1> USE PutcAssumption, PolledAssumption DEF SnrtPrintfInit, hostVars, mailVars, OneCluster
<1>0. k = Polled /\ \A c \in Cores : pc[c] = "init" /\ pc'[c] = "run"
  BY DEF IInv, TypeOK, PutcTypeOK
<1>1. TypeOK'
  BY <1>0 DEF IInv, TypeOK, PutcTypeOK, PCs
<1>2. LockInv'
  BY <1>0 DEF IInv, LockInv, FlushesSerialised, Critical
<1>3. BufferInv'
  BY <1>0 DEF IInv, BufferInv, Flushing
<1>4. MailInv'
  BY <1>0 DEF IInv, MailInv, TypeOK, PutcTypeOK
<1>5. LeaveInv'
  BY <1>0 DEF IInv, LeaveInv
<1> QED
  BY <1>1, <1>2, <1>3, <1>4, <1>5 DEF IInv

LEMMA PutcharIInv ==
    ASSUME OneCluster, IInv, NEW c \in Cores, NEW ch \in Chars, Putchar(c, ch), UNCHANGED hostVars
    PROVE  IInv'
<1> USE PutcAssumption, PolledAssumption
<1>1. TypeOK'
  <2>1. data' \in [Cores -> [0..BufLen-1 -> Chars]]
    <3>1. CASE size[c] < BufLen
      <4>1. size[c] \in 0..BufLen-1
        BY <3>1 DEF IInv, TypeOK, PutcTypeOK
      <4>2. [data[c] EXCEPT ![size[c]] = ch] \in [0..BufLen-1 -> Chars]
        BY <4>1 DEF IInv, TypeOK, PutcTypeOK
      <4> QED
        BY <3>1, <4>2 DEF IInv, TypeOK, PutcTypeOK, Putchar
    <3> QED
      BY <3>1 DEF IInv, TypeOK, PutcTypeOK, Putchar
  <2>2. /\ budget[c] > 0
        /\ budget' = [budget EXCEPT ![c] = @ - 1]
        /\ size' = [size EXCEPT ![c] = @ + 1]
    BY DEF Putchar
  <2>3. size' \in [Cores -> Nat] /\ budget' \in [Cores -> 0..MaxChars]
    BY <2>2 DEF IInv, TypeOK, PutcTypeOK
  <2>4. pc' \in [Cores -> PCs]
    BY DEF IInv, TypeOK, PutcTypeOK, PCs, Putchar, Goto
  <2> QED
    BY <2>1, <2>3, <2>4 DEF IInv, TypeOK, PutcTypeOK, Putchar, hostVars, lockVars, mailVars
<1>2. BufferInv'
  <2>1. pc[c] = "run" /\ size[c] \in 0..BufLen-1
    BY DEF IInv, TypeOK, PutcTypeOK, BufferInv, Putchar, Goto
  <2>2. size'[c] = size[c] + 1
    BY <2>1 DEF IInv, TypeOK, PutcTypeOK, Putchar
  <2>3. pc'[c] = IF size'[c] = BufLen \/ ch = NL THEN "fill" ELSE "run"
    BY <2>2 DEF IInv, TypeOK, PutcTypeOK, Putchar, Goto
  <2>4. \A d \in Cores \ {c} : pc'[d] = pc[d] /\ size'[d] = size[d]
    BY DEF IInv, TypeOK, PutcTypeOK, Putchar, Goto
  <2> QED
    BY <2>1, <2>2, <2>3, <2>4 DEF IInv, BufferInv, Flushing, Putchar
<1>3. LockInv'
  <2>1. /\ UNCHANGED <<acq, mutexPtr, mutex>>
        /\ pc[c] = "run" /\ pc'[c] \in {"run", "fill"}
        /\ \A d \in Cores \ {c} : pc'[d] = pc[d]
    BY DEF IInv, TypeOK, PutcTypeOK, Putchar, Goto, lockVars
  <2> QED
    BY <2>1 DEF IInv, LockInv, FlushesSerialised, Critical
<1> USE DEF Putchar, Goto, hostVars, lockVars, mailVars
<1>4. MailInv'
  BY DEF IInv, TypeOK, PutcTypeOK, MailInv, LockInv, FlushesSerialised, Critical
<1>5. LeaveInv'
  BY DEF IInv, TypeOK, PutcTypeOK, LeaveInv
<1> QED
  BY <1>1, <1>2, <1>3, <1>4, <1>5 DEF IInv

LEMMA FillSyscallIInv ==
    ASSUME OneCluster, IInv, NEW c \in Cores, FillSyscall(c), UNCHANGED hostVars
    PROVE  IInv'
<1> USE PutcAssumption, PolledAssumption DEF FillSyscall, Goto, hostVars, lockVars, mailVars
<1>1. TypeOK'
  BY DEF IInv, TypeOK, PutcTypeOK, PCs, LockInv
<1>2. LockInv'
  BY DEF IInv, TypeOK, PutcTypeOK, LockInv, FlushesSerialised, Critical
<1>3. BufferInv'
  BY DEF IInv, TypeOK, PutcTypeOK, BufferInv, Flushing
<1>4. MailInv'
  BY DEF IInv, TypeOK, PutcTypeOK, MailInv, LockInv, FlushesSerialised, Critical
<1>5. LeaveInv'
  BY DEF IInv, TypeOK, PutcTypeOK, LeaveInv
<1> QED
  BY <1>1, <1>2, <1>3, <1>4, <1>5 DEF IInv

LEMMA TestMutexIInv ==
    ASSUME OneCluster, IInv, NEW c \in Cores, TestMutex(c), UNCHANGED hostVars
    PROVE  IInv'
<1> USE PutcAssumption, PolledAssumption DEF TestMutex, Goto, hostVars, lockVars, mailVars
<1>1. TypeOK'
  BY DEF IInv, TypeOK, PutcTypeOK, PCs, LockInv
<1>2. LockInv'
  BY DEF IInv, TypeOK, PutcTypeOK, LockInv, FlushesSerialised, Critical
<1>3. BufferInv'
  BY DEF IInv, TypeOK, PutcTypeOK, BufferInv, Flushing
<1>4. MailInv'
  BY DEF IInv, TypeOK, PutcTypeOK, MailInv, LockInv, FlushesSerialised, Critical
<1>5. LeaveInv'
  BY DEF IInv, TypeOK, PutcTypeOK, LeaveInv
<1> QED
  BY <1>1, <1>2, <1>3, <1>4, <1>5 DEF IInv

LEMMA SwapMutexIInv ==
    ASSUME OneCluster, IInv, NEW c \in Cores, SwapMutex(c), UNCHANGED hostVars
    PROVE  IInv'
<1> USE PutcAssumption, PolledAssumption DEF SwapMutex, Goto, hostVars, lockVars, mailVars
<1>1. TypeOK'
  BY DEF IInv, TypeOK, PutcTypeOK, PCs, LockInv
<1>2. LockInv'
  <2>1. /\ UNCHANGED <<acq, mutexPtr>> /\ mutex' = [mutex EXCEPT ![Polled] = 1]
        /\ pc[c] = "swap" /\ pc'[c] = IF mutex[Polled] = 0 THEN "post" ELSE "test"
        /\ \A d \in Cores \ {c} : pc'[d] = pc[d]
    BY DEF IInv, TypeOK, PutcTypeOK, LockInv
  <2>2. mutex'[Polled] = 1
    BY <2>1 DEF IInv, TypeOK, PutcTypeOK
  <2>3. FlushesSerialised'
    BY <2>1 DEF IInv, LockInv, FlushesSerialised, Critical
  <2> QED
    BY <2>1, <2>2, <2>3 DEF IInv, LockInv
<1>3. BufferInv'
  BY DEF IInv, TypeOK, PutcTypeOK, BufferInv, Flushing
<1>4. MailInv'
  BY DEF IInv, TypeOK, PutcTypeOK, MailInv, LockInv, FlushesSerialised, Critical
<1>5. LeaveInv'
  BY DEF IInv, TypeOK, PutcTypeOK, LeaveInv
<1> QED
  BY <1>1, <1>2, <1>3, <1>4, <1>5 DEF IInv

LEMMA PostRequestIInv ==
    ASSUME OneCluster, IInv, NEW c \in Cores, PostRequest(c), UNCHANGED hostVars
    PROVE  IInv'
<1> USE PutcAssumption, PolledAssumption DEF PostRequest, Goto, hostVars, lockVars, mailVars
<1>1. TypeOK'
  BY DEF IInv, TypeOK, PutcTypeOK, PCs, LockInv
<1>2. LockInv'
  BY DEF IInv, TypeOK, PutcTypeOK, LockInv, FlushesSerialised, Critical
<1>3. BufferInv'
  BY DEF IInv, TypeOK, PutcTypeOK, BufferInv, Flushing
<1>4. MailInv'
  BY DEF IInv, TypeOK, PutcTypeOK, MailInv, LockInv, FlushesSerialised, Critical
<1>5. LeaveInv'
  BY DEF IInv, TypeOK, PutcTypeOK, LeaveInv
<1> QED
  BY <1>1, <1>2, <1>3, <1>4, <1>5 DEF IInv

LEMMA RingHostIInv ==
    ASSUME OneCluster, IInv, NEW c \in Cores, RingHost(c), UNCHANGED hostVars
    PROVE  IInv'
<1> USE PutcAssumption, PolledAssumption DEF RingHost, Goto, hostVars, lockVars, mailVars
<1>1. TypeOK'
  BY DEF IInv, TypeOK, PutcTypeOK, PCs, LockInv
<1>2. LockInv'
  BY DEF IInv, TypeOK, PutcTypeOK, LockInv, FlushesSerialised, Critical
<1>3. BufferInv'
  BY DEF IInv, TypeOK, PutcTypeOK, BufferInv, Flushing
<1>4. MailInv'
  BY DEF IInv, TypeOK, PutcTypeOK, MailInv, LockInv, FlushesSerialised, Critical
<1>5. LeaveInv'
  BY DEF IInv, TypeOK, PutcTypeOK, LeaveInv
<1> QED
  BY <1>1, <1>2, <1>3, <1>4, <1>5 DEF IInv

LEMMA SpinOnReplyIInv ==
    ASSUME OneCluster, IInv, NEW c \in Cores, SpinOnReply(c), UNCHANGED hostVars
    PROVE  IInv'
<1> USE PutcAssumption, PolledAssumption DEF SpinOnReply, Goto, hostVars, lockVars, mailVars
<1>1. TypeOK'
  BY DEF IInv, TypeOK, PutcTypeOK, PCs, LockInv
<1>2. LockInv'
  BY DEF IInv, TypeOK, PutcTypeOK, LockInv, FlushesSerialised, Critical
<1>3. BufferInv'
  BY DEF IInv, TypeOK, PutcTypeOK, BufferInv, Flushing
<1>4. MailInv'
  BY DEF IInv, TypeOK, PutcTypeOK, MailInv, LockInv, FlushesSerialised, Critical
<1>5. LeaveInv'
  BY DEF IInv, TypeOK, PutcTypeOK, LeaveInv
<1> QED
  BY <1>1, <1>2, <1>3, <1>4, <1>5 DEF IInv

LEMMA ClearReplyIInv ==
    ASSUME OneCluster, IInv, NEW c \in Cores, ClearReply(c), UNCHANGED hostVars
    PROVE  IInv'
<1> USE PutcAssumption, PolledAssumption DEF ClearReply, Goto, hostVars, lockVars, mailVars
<1>1. TypeOK'
  BY DEF IInv, TypeOK, PutcTypeOK, PCs, LockInv
<1>2. LockInv'
  BY DEF IInv, TypeOK, PutcTypeOK, LockInv, FlushesSerialised, Critical
<1>3. BufferInv'
  BY DEF IInv, TypeOK, PutcTypeOK, BufferInv, Flushing
<1>4. MailInv'
  BY DEF IInv, TypeOK, PutcTypeOK, MailInv, LockInv, FlushesSerialised, Critical
<1>5. LeaveInv'
  BY DEF IInv, TypeOK, PutcTypeOK, LeaveInv
<1> QED
  BY <1>1, <1>2, <1>3, <1>4, <1>5 DEF IInv

LEMMA ResetSizeIInv ==
    ASSUME OneCluster, IInv, NEW c \in Cores, ResetSize(c), UNCHANGED hostVars
    PROVE  IInv'
<1> USE PutcAssumption, PolledAssumption DEF ResetSize, Goto, hostVars, lockVars, mailVars
<1>1. TypeOK'
  BY DEF IInv, TypeOK, PutcTypeOK, PCs, LockInv
<1>2. LockInv'
  BY DEF IInv, TypeOK, PutcTypeOK, LockInv, FlushesSerialised, Critical
<1>3. BufferInv'
  BY DEF IInv, TypeOK, PutcTypeOK, BufferInv, Flushing
<1>4. MailInv'
  BY DEF IInv, TypeOK, PutcTypeOK, MailInv, LockInv, FlushesSerialised, Critical
<1>5. LeaveInv'
  BY DEF IInv, TypeOK, PutcTypeOK, LeaveInv
<1> QED
  BY <1>1, <1>2, <1>3, <1>4, <1>5 DEF IInv

LEMMA ReleaseMutexIInv ==
    ASSUME OneCluster, IInv, NEW c \in Cores, ReleaseMutex(c), UNCHANGED hostVars
    PROVE  IInv'
<1> USE PutcAssumption, PolledAssumption DEF ReleaseMutex, Goto, hostVars, lockVars, mailVars
<1>1. TypeOK'
  BY DEF IInv, TypeOK, PutcTypeOK, PCs, LockInv
<1>2. LockInv'
  BY DEF IInv, TypeOK, PutcTypeOK, LockInv, FlushesSerialised, Critical
<1>3. BufferInv'
  BY DEF IInv, TypeOK, PutcTypeOK, BufferInv, Flushing
<1>4. MailInv'
  BY DEF IInv, TypeOK, PutcTypeOK, MailInv, LockInv, FlushesSerialised, Critical
<1>5. LeaveInv'
  BY DEF IInv, TypeOK, PutcTypeOK, LeaveInv
<1> QED
  BY <1>1, <1>2, <1>3, <1>4, <1>5 DEF IInv

LEMMA ReturnFromTaskIInv ==
    ASSUME OneCluster, IInv, NEW c \in Cores, ReturnFromTask(c), UNCHANGED hostVars
    PROVE  IInv'
<1> USE PutcAssumption, PolledAssumption DEF ReturnFromTask, Goto, hostVars, lockVars, mailVars
<1>1. TypeOK'
  BY DEF IInv, TypeOK, PutcTypeOK, PCs, LockInv
<1>2. LockInv'
  BY DEF IInv, TypeOK, PutcTypeOK, LockInv, FlushesSerialised, Critical
<1>3. BufferInv'
  BY DEF IInv, TypeOK, PutcTypeOK, BufferInv, Flushing
<1>4. MailInv'
  BY DEF IInv, TypeOK, PutcTypeOK, MailInv, LockInv, FlushesSerialised, Critical
<1>5. LeaveInv'
  BY DEF IInv, TypeOK, PutcTypeOK, LeaveInv
<1> QED
  BY <1>1, <1>2, <1>3, <1>4, <1>5 DEF IInv

LEMMA PollBusyIInv ==
    ASSUME OneCluster, IInv, PollBusy
    PROVE  IInv'
<1> USE PutcAssumption, PolledAssumption DEF PollBusy, HostGoto, putcVars, coreVars, lockVars, mailVars
<1>1. TypeOK'
  BY DEF IInv, TypeOK, PutcTypeOK, HPCs
<1>2. LockInv'
  BY DEF IInv, LockInv, FlushesSerialised
<1>3. BufferInv'
  BY DEF IInv, BufferInv
<1>4. MailInv'
  BY DEF IInv, TypeOK, PutcTypeOK, MailInv, LockInv, FlushesSerialised, Critical
<1>5. LeaveInv'
  BY DEF IInv, LeaveInv, OneCluster
<1> QED
  BY <1>1, <1>2, <1>3, <1>4, <1>5 DEF IInv

LEMMA CheckMailboxIInv ==
    ASSUME OneCluster, IInv, CheckMailbox
    PROVE  IInv'
<1> USE PutcAssumption, PolledAssumption DEF CheckMailbox, HostGoto, putcVars, coreVars, lockVars, mailVars
<1>1. TypeOK'
  BY DEF IInv, TypeOK, PutcTypeOK, HPCs
<1>2. LockInv'
  BY DEF IInv, LockInv, FlushesSerialised
<1>3. BufferInv'
  BY DEF IInv, BufferInv
<1>4. MailInv'
  BY DEF IInv, TypeOK, PutcTypeOK, MailInv, LockInv, FlushesSerialised, Critical
<1>5. LeaveInv'
  BY DEF IInv, LeaveInv, OneCluster
<1> QED
  BY <1>1, <1>2, <1>3, <1>4, <1>5 DEF IInv

LEMMA LoadRequestIInv ==
    ASSUME OneCluster, IInv, LoadRequest
    PROVE  IInv'
<1> USE PutcAssumption, PolledAssumption DEF LoadRequest, HostGoto, putcVars, coreVars, lockVars, mailVars
<1>1. TypeOK'
  BY DEF IInv, TypeOK, PutcTypeOK, HPCs
<1>2. LockInv'
  BY DEF IInv, LockInv, FlushesSerialised
<1>3. BufferInv'
  BY DEF IInv, BufferInv
<1>4. MailInv'
  BY DEF IInv, TypeOK, PutcTypeOK, MailInv, LockInv, FlushesSerialised, Critical
<1>5. LeaveInv'
  BY DEF IInv, LeaveInv, OneCluster
<1> QED
  BY <1>1, <1>2, <1>3, <1>4, <1>5 DEF IInv

LEMMA AckRequestIInv ==
    ASSUME OneCluster, IInv, AckRequest
    PROVE  IInv'
<1> USE PutcAssumption, PolledAssumption DEF AckRequest, HostGoto, putcVars, coreVars, lockVars, mailVars
<1>1. TypeOK'
  BY DEF IInv, TypeOK, PutcTypeOK, HPCs
<1>2. LockInv'
  BY DEF IInv, LockInv, FlushesSerialised
<1>3. BufferInv'
  BY DEF IInv, BufferInv
<1>4. MailInv'
  BY DEF IInv, TypeOK, PutcTypeOK, MailInv, LockInv, FlushesSerialised, Critical
<1>5. LeaveInv'
  BY DEF IInv, LeaveInv, OneCluster
<1> QED
  BY <1>1, <1>2, <1>3, <1>4, <1>5 DEF IInv

LEMMA ServeWriteIInv ==
    ASSUME OneCluster, IInv, ServeWrite
    PROVE  IInv'
<1> USE PutcAssumption, PolledAssumption DEF ServeWrite, HostGoto, putcVars, coreVars, lockVars, mailVars
<1>1. TypeOK'
  <2>1. addr \in Cores /\ sysLen[addr] \in 0..BufLen
    BY DEF IInv, TypeOK, PutcTypeOK, MailInv, BufferInv, Flushing
  <2>2. Text(addr, sysLen[addr]) \in Seq(Chars)
    BY <2>1, PrefixFacts DEF IInv, TypeOK, PutcTypeOK, Text, Array
  <2>3. console' \in Seq([core : Cores, text : Seq(Chars)])
    BY <2>1, <2>2 DEF IInv, TypeOK
  <2> QED
    BY <2>3 DEF IInv, TypeOK, PutcTypeOK, HPCs
<1>2. LockInv'
  BY DEF IInv, LockInv, FlushesSerialised
<1>3. BufferInv'
  BY DEF IInv, BufferInv
<1>4. MailInv'
  BY DEF IInv, TypeOK, PutcTypeOK, MailInv, LockInv, FlushesSerialised, Critical
<1>5. LeaveInv'
  BY DEF IInv, LeaveInv, OneCluster
<1> QED
  BY <1>1, <1>2, <1>3, <1>4, <1>5 DEF IInv

LEMMA ReplyIInv ==
    ASSUME OneCluster, IInv, Reply
    PROVE  IInv'
<1> USE PutcAssumption, PolledAssumption DEF Reply, HostGoto, putcVars, coreVars, lockVars, mailVars
<1>1. TypeOK'
  BY DEF IInv, TypeOK, PutcTypeOK, HPCs
<1>2. LockInv'
  BY DEF IInv, LockInv, FlushesSerialised
<1>3. BufferInv'
  BY DEF IInv, BufferInv
<1>4. MailInv'
  BY DEF IInv, TypeOK, PutcTypeOK, MailInv, LockInv, FlushesSerialised, Critical
<1>5. LeaveInv'
  BY DEF IInv, LeaveInv, OneCluster
<1> QED
  BY <1>1, <1>2, <1>3, <1>4, <1>5 DEF IInv

LEMMA SleepTicksIInv ==
    ASSUME OneCluster, IInv, SleepTicks
    PROVE  IInv'
<1> USE PutcAssumption, PolledAssumption DEF SleepTicks, HostGoto, putcVars, coreVars, lockVars, mailVars
<1>1. TypeOK'
  BY DEF IInv, TypeOK, PutcTypeOK, HPCs
<1>2. LockInv'
  BY DEF IInv, LockInv, FlushesSerialised
<1>3. BufferInv'
  BY DEF IInv, BufferInv
<1>4. MailInv'
  BY DEF IInv, TypeOK, PutcTypeOK, MailInv, LockInv, FlushesSerialised, Critical
<1>5. LeaveInv'
  BY DEF IInv, LeaveInv, OneCluster
<1> QED
  BY <1>1, <1>2, <1>3, <1>4, <1>5 DEF IInv

LEMMA RomClearBusyIInv ==
    ASSUME OneCluster, IInv, RomClearBusy
    PROVE  IInv'
<1> USE PutcAssumption, PolledAssumption DEF RomClearBusy, putcVars, coreVars, lockVars, mailVars
<1>1. TypeOK'
  BY DEF IInv, TypeOK, PutcTypeOK, HPCs
<1>2. LockInv'
  BY DEF IInv, LockInv, FlushesSerialised
<1>3. BufferInv'
  BY DEF IInv, BufferInv
<1>4. MailInv'
  BY DEF IInv, TypeOK, PutcTypeOK, MailInv, LockInv, FlushesSerialised, Critical
<1>5. LeaveInv'
  BY DEF IInv, LeaveInv, OneCluster
<1> QED
  BY <1>1, <1>2, <1>3, <1>4, <1>5 DEF IInv

-----------------------------------------------------------------------------
(* Device and host together keep the mailbox protocol's invariant.         *)
THEOREM Invariance ==
    ASSUME OneCluster, SizesInBounds
    PROVE  Spec => []IInv
<1>1. Init => IInv
  BY InitIInv
<1>2. IInv /\ [Next]_vars => IInv'
  <2> SUFFICES ASSUME IInv, [Next]_vars
               PROVE  IInv'
    OBVIOUS
  <2>1. ASSUME NEW k \in Clusters, SnrtPrintfInit(k), UNCHANGED hostVars
        PROVE  IInv'
    BY <2>1, SnrtPrintfInitIInv
  <2>2. ASSUME NEW c \in Cores, CoreStep(c), UNCHANGED hostVars
        PROVE  IInv'
    BY <2>2, PutcharIInv, FillSyscallIInv, TestMutexIInv, SwapMutexIInv,
       PostRequestIInv, RingHostIInv, SpinOnReplyIInv, ClearReplyIInv,
       ResetSizeIInv, ReleaseMutexIInv, ReturnFromTaskIInv
       DEF CoreStep, SnrtPutchar
  <2>3. CASE HostStep
    BY <2>3, PollBusyIInv, CheckMailboxIInv, LoadRequestIInv, AckRequestIInv,
       ServeWriteIInv, ReplyIInv, SleepTicksIInv DEF HostStep
  <2>4. CASE RomClearBusy
    BY <2>4, RomClearBusyIInv
  <2>5. CASE UNCHANGED vars
    <3> USE <2>5 DEF vars, putcVars, coreVars, lockVars, mailVars, hostVars
    <3>1. TypeOK'
      BY DEF IInv, TypeOK, PutcTypeOK
    <3>2. LockInv' /\ BufferInv' /\ MailInv' /\ LeaveInv'
      BY DEF IInv, LockInv, FlushesSerialised, BufferInv, MailInv, LeaveInv
    <3> QED
      BY <3>1, <3>2 DEF IInv
  <2> QED
    BY <2>1, <2>2, <2>3, <2>4, <2>5 DEF Next, DeviceNext
<1> QED
  BY <1>1, <1>2, PTL DEF Spec

(* Four safety invariants that the model checker checks on two cores, for  *)
(* any number of cores and any text in the buffers at the start: flushes   *)
(* are serialised, the host reads stable texts, an answer reaches the core *)
(* that waits for it, and nothing is in flight when the host leaves its    *)
(* loop.                                                                   *)
THEOREM Safety ==
    ASSUME OneCluster, SizesInBounds
    PROVE  Spec =>
        [](/\ TypeOK
           /\ FlushesSerialised
           /\ HostReadsStableText
           /\ ReplyReachesRequester
           /\ LeavesNothingBehind)
<1>1. IInv => TypeOK /\ FlushesSerialised
  BY DEF IInv, LockInv
<1>3. IInv => HostReadsStableText
  BY PutcAssumption DEF IInv, TypeOK, PutcTypeOK, BufferInv, MailInv,
     Flushing, HostReadsStableText
<1>4. IInv => ReplyReachesRequester
  BY DEF IInv, MailInv, ReplyReachesRequester
<1>5. IInv => LeavesNothingBehind
  BY DEF IInv, TypeOK, PutcTypeOK, BufferInv, MailInv, LeaveInv, LeavesNothingBehind
<1> QED
  BY <1>1, <1>3, <1>4, <1>5, Invariance, PTL

-----------------------------------------------------------------------------
(* The refinement of the line printer.                                     *)

\* The core has to flush, or is flushing and waits for the answer.
Waiting == {"fill", "test", "swap", "post", "ring", "spin"}

(* A step that moves no text between buffer and console is a stutter.      *)
LEMMA QuietStep ==
    ASSUME UNCHANGED <<data, size>>,
           \A d \in Cores : Served(d)' <=> Served(d),
           \A d \in Cores : ~Served(d) => (pc'[d] \in Waiting <=> pc[d] \in Waiting)
    PROVE  UNCHANGED <<Pending, CompleteCores>>
<1>1. Pending' = Pending
  BY DEF Pending, Text
<1>2. CompleteCores' = CompleteCores
  BY DEF CompleteCores, Waiting
<1> QED
  BY <1>1, <1>2

LEMMA InitRefines ==
    ASSUME OneCluster, SizesInBounds, Init
    PROVE  LP!Init
<1>1. \A c \in Cores : ~Served(c)
  BY PutcAssumption DEF Init, PutcInit, Served
<1>2. \A c \in Cores : size[c] \in 0..BufLen /\ size[c] < BufLen
  BY InitialSizes
<1>3. \A c \in Cores : data[c] \in Array
  BY InitIInv DEF IInv, TypeOK, PutcTypeOK, Array
<1>4. \A c \in Cores : Text(c, size[c]) \in Seq(Chars) /\ Len(Text(c, size[c])) = size[c]
  BY <1>2, <1>3, PrefixFacts DEF Text
<1>5. /\ Pending \in [Cores -> Seq(Chars)]
      /\ \A c \in Cores : Len(Pending[c]) < BufLen
  BY <1>1, <1>2, <1>4 DEF Pending
<1>6. CompleteCores = {}
  BY DEF Init, PutcInit, CompleteCores
<1> QED
  BY <1>5, <1>6 DEF Init, LP!Init

(* Storing a character extends the core's pending text, which was not      *)
(* complete, and the core goes to flush just when it is complete now.      *)
LEMMA PutcharRefines ==
    ASSUME IInv, NEW c \in Cores, NEW ch \in Chars,
           Putchar(c, ch), UNCHANGED hostVars
    PROVE  LP!Put(c, ch)
<1>0. PICK n \in 0..BufLen-1 : size[c] = n
  BY PutcAssumption DEF IInv, TypeOK, PutcTypeOK, BufferInv, Putchar, Goto
<1>1. /\ pc[c] = "run"
      /\ n \in 0..BufLen
      /\ data[c] \in Array
  BY <1>0, PutcAssumption DEF IInv, TypeOK, PutcTypeOK, Putchar, Goto, Array
<1>2. /\ size' = [size EXCEPT ![c] = n + 1]
      /\ data' = [data EXCEPT ![c] = [data[c] EXCEPT ![n] = ch]]
      /\ UNCHANGED <<h2d, hpc, addr, console>>
  BY <1>0, PutcAssumption DEF IInv, TypeOK, PutcTypeOK, Putchar, mailVars, hostVars
<1>3. /\ pc'[c] = IF n + 1 = BufLen \/ ch = NL THEN "fill" ELSE "run"
      /\ \A d \in Cores \ {c} : pc'[d] = pc[d]
  BY <1>0 DEF IInv, TypeOK, PutcTypeOK, Putchar, Goto
<1>4. ~Served(c) /\ ~Served(c)'
  BY <1>1, <1>2, <1>3, PutcAssumption DEF IInv, TypeOK, PutcTypeOK, MailInv, Served
<1>5. Pending[c] = Prefix(data[c], n)
  BY <1>0, <1>4 DEF Pending, Text
<1>6. c \notin CompleteCores /\ Len(Pending[c]) = n
  BY <1>1, <1>5, PrefixFacts DEF CompleteCores
<1>7. Pending'[c] = Append(Pending[c], ch)
  <2>1. data'[c] = [data[c] EXCEPT ![n] = ch] /\ size'[c] = n + 1
    BY <1>2 DEF IInv, TypeOK, PutcTypeOK
  <2>2. Pending'[c] = Prefix([data[c] EXCEPT ![n] = ch], n + 1)
    BY <1>4, <2>1 DEF Pending, Text
  <2> QED
    BY <1>1, <1>5, <2>2, PrefixAppend
<1>8. ASSUME NEW d \in Cores \ {c}
      PROVE  /\ Pending'[d] = Pending[d]
             /\ d \in CompleteCores' <=> d \in CompleteCores
  <2>1. Served(d)' <=> Served(d)
    BY <1>2, <1>3 DEF Served
  <2>3. d \in CompleteCores' <=> d \in CompleteCores
    BY <1>3, <2>1 DEF CompleteCores
  <2>2. data'[d] = data[d] /\ size'[d] = size[d]
    BY <1>2 DEF IInv, TypeOK, PutcTypeOK
  <2> QED
    BY <2>1, <2>2, <2>3 DEF Pending, Text
<1>9. Pending' = [Pending EXCEPT ![c] = Append(@, ch)]
  BY <1>7, <1>8 DEF Pending
<1>10. c \in CompleteCores' <=> (n + 1 = BufLen \/ ch = NL)
  BY <1>3, <1>4 DEF CompleteCores
<1>11. CompleteCores \subseteq Cores /\ CompleteCores' \subseteq Cores
  BY DEF CompleteCores
<1>12. CompleteCores' = IF Len(Pending[c]) + 1 = BufLen \/ ch = NL
                        THEN CompleteCores \cup {c} ELSE CompleteCores
  <2>1. \A d : d \in CompleteCores' <=>
                 d \in CompleteCores \/ (d = c /\ (n + 1 = BufLen \/ ch = NL))
    BY <1>6, <1>8, <1>10, <1>11, Zenon
  <2>2. CASE n + 1 = BufLen \/ ch = NL
    <3>1. CompleteCores' = CompleteCores \cup {c}
      BY <2>1, <2>2, Zenon
    <3> QED
      BY <1>6, <2>2, <3>1
  <2>3. CASE ~(n + 1 = BufLen \/ ch = NL)
    <3>1. CompleteCores' = CompleteCores
      BY <2>1, <2>3, Zenon
    <3> QED
      BY <1>6, <2>3, <3>1
  <2> QED
    BY <2>2, <2>3
<1> QED
  BY <1>2, <1>6, <1>9, <1>12 DEF LP!Put

(* The host's fwrite puts the pending text of the requesting core on the   *)
(* console.                                                                *)
LEMMA ServeWriteRefines ==
    ASSUME IInv, ServeWrite
    PROVE  \E c \in Cores : LP!Emit(c)
<1>0. PICK c \in Cores : addr = c
  BY DEF IInv, TypeOK, MailInv, ServeWrite, HostGoto
<1>1. PICK n \in 0..BufLen : size[c] = n
  BY PutcAssumption DEF IInv, TypeOK, PutcTypeOK, BufferInv
<1>2. /\ pc[c] \in {"ring", "spin"}
      /\ h2d = NULL
      /\ sysLen[c] = n
      /\ n > 0
      /\ data[c] \in Array
  BY <1>0, <1>1 DEF IInv, TypeOK, PutcTypeOK, MailInv, BufferInv, Flushing,
     ServeWrite, HostGoto, Array
<1>3. ~Served(c) /\ Served(c)'
  BY <1>0, <1>2, PutcAssumption DEF Served, ServeWrite, HostGoto
<1>4. Pending[c] = Prefix(data[c], n)
  BY <1>1, <1>3 DEF Pending, Text
<1>5. c \in CompleteCores /\ c \notin CompleteCores'
  BY <1>2, <1>3 DEF CompleteCores
<1>6. console' = Append(console, [core |-> c, text |-> Pending[c]])
  BY <1>0, <1>2, <1>4 DEF ServeWrite, Text
<1>7. ASSUME NEW d \in Cores \ {c}
      PROVE  /\ Pending'[d] = Pending[d]
             /\ d \in CompleteCores' <=> d \in CompleteCores
  <2>1. Served(d)' <=> Served(d)
    BY <1>0 DEF Served, ServeWrite, HostGoto, putcVars, coreVars, mailVars
  <2>3. d \in CompleteCores' <=> d \in CompleteCores
    BY <2>1 DEF CompleteCores, ServeWrite, putcVars, coreVars
  <2>2. Text(d, size[d])' = Text(d, size[d])
    BY DEF Text, ServeWrite, putcVars, coreVars
  <2> QED
    BY <2>1, <2>2, <2>3 DEF Pending
<1>8. Pending'[c] = <<>>
  BY <1>3 DEF Pending
<1>9. Pending' = [Pending EXCEPT ![c] = <<>>]
  BY <1>7, <1>8 DEF Pending
<1>10. CompleteCores' = CompleteCores \ {c}
  BY <1>5, <1>7 DEF CompleteCores
<1> QED
  BY <1>5, <1>6, <1>9, <1>10 DEF LP!Emit

(* The core's other steps leave every pending text as it is.               *)
LEMMA CoreStepRefines ==
    ASSUME IInv, NEW c \in Cores, UNCHANGED hostVars,
           \/ FillSyscall(c) \/ TestMutex(c) \/ SwapMutex(c) \/ PostRequest(c)
           \/ RingHost(c) \/ SpinOnReply(c) \/ ClearReply(c) \/ ReleaseMutex(c)
           \/ ReturnFromTask(c)
    PROVE  UNCHANGED <<Pending, CompleteCores, console>>
<1> USE PutcAssumption DEF Goto, lockVars, mailVars, hostVars
<1>1. UNCHANGED <<data, size, hpc, addr, console>>
  BY DEF FillSyscall, TestMutex, SwapMutex, PostRequest, RingHost, SpinOnReply,
         ClearReply, ReleaseMutex, ReturnFromTask
<1>2. ASSUME NEW d \in Cores
      PROVE  Served(d)' <=> Served(d)
  <2>1. CASE SpinOnReply(c)
    BY <1>1, <2>1 DEF SpinOnReply, Served, IInv, TypeOK, PutcTypeOK, MailInv,
       LockInv, FlushesSerialised, Critical
  <2>2. CASE ClearReply(c)
    BY <1>1, <2>2 DEF ClearReply, Served, IInv, TypeOK, PutcTypeOK, MailInv,
       LockInv, FlushesSerialised, Critical
  <2>3. CASE ~SpinOnReply(c) /\ ~ClearReply(c)
    BY <1>1, <2>3 DEF FillSyscall, TestMutex, SwapMutex, PostRequest, RingHost,
       ReleaseMutex, ReturnFromTask, Served, IInv, TypeOK, PutcTypeOK
  <2> QED
    BY <2>1, <2>2, <2>3
<1>3. ASSUME NEW d \in Cores, ~Served(d)
      PROVE  pc'[d] \in Waiting <=> pc[d] \in Waiting
  <2>1. d # c => pc'[d] = pc[d]
    BY DEF FillSyscall, TestMutex, SwapMutex, PostRequest, RingHost, SpinOnReply,
       ClearReply, ReleaseMutex, ReturnFromTask, IInv, TypeOK, PutcTypeOK
  <2>2. CASE SpinOnReply(c)
    BY <1>3, <2>1, <2>2 DEF SpinOnReply, Served, Waiting, IInv, TypeOK, PutcTypeOK, MailInv,
       LockInv, FlushesSerialised, Critical
  <2>3. CASE ClearReply(c)
    BY <2>1, <2>3 DEF ClearReply, Waiting, IInv, TypeOK, PutcTypeOK
  <2>4. CASE ~SpinOnReply(c) /\ ~ClearReply(c)
    BY <2>1, <2>4 DEF FillSyscall, TestMutex, SwapMutex, PostRequest, RingHost,
       ReleaseMutex, ReturnFromTask, Waiting, IInv, TypeOK, PutcTypeOK
  <2> QED
    BY <2>2, <2>3, <2>4
<1>4. UNCHANGED <<Pending, CompleteCores>>
  BY <1>1, <1>2, <1>3, QuietStep
<1> QED
  BY <1>1, <1>4

(* The buffer is emptied after its text was printed.                       *)
LEMMA ResetSizeRefines ==
    ASSUME IInv, NEW c \in Cores, ResetSize(c), UNCHANGED hostVars
    PROVE  UNCHANGED <<Pending, CompleteCores, console>>
<1> USE PutcAssumption DEF ResetSize, Goto, lockVars, mailVars, hostVars
<1>1. Served(c) /\ data[c] \in Array /\ UNCHANGED <<data, console>>
  BY DEF Served, IInv, TypeOK, PutcTypeOK, Array
<1>2. size'[c] = 0
  BY DEF IInv, TypeOK, PutcTypeOK
<1>3. Text(c, size[c])' = <<>>
  BY <1>1, <1>2, PrefixFacts DEF Text
<1>4. Pending'[c] = Pending[c]
  BY <1>1, <1>3 DEF Pending
<1>5. ASSUME NEW d \in Cores \ {c}
      PROVE  Pending'[d] = Pending[d]
  <2>1. Served(d)' <=> Served(d)
    BY DEF Served, IInv, TypeOK, PutcTypeOK
  <2>2. data'[d] = data[d] /\ size'[d] = size[d]
    BY DEF IInv, TypeOK, PutcTypeOK
  <2> QED
    BY <2>1, <2>2 DEF Pending, Text
<1>6. \A d \in Cores : Pending'[d] = Pending[d]
  BY <1>4, <1>5
<1>7. Pending' = Pending
  BY <1>6 DEF Pending
<1>8. ASSUME NEW d \in Cores
      PROVE  d \in CompleteCores' <=> d \in CompleteCores
  BY DEF CompleteCores, Served, IInv, TypeOK, PutcTypeOK
<1>9. CompleteCores' = CompleteCores
  BY <1>8 DEF CompleteCores
<1> QED
  BY <1>1, <1>7, <1>9

(* So do the start of the cluster, the boot ROM and the host's other steps.*)
LEMMA OtherStepRefines ==
    ASSUME IInv, OneCluster,
           \/ UNCHANGED hostVars /\ \E k \in Clusters : SnrtPrintfInit(k)
           \/ PollBusy \/ CheckMailbox \/ LoadRequest \/ AckRequest
           \/ Reply \/ SleepTicks \/ RomClearBusy
    PROVE  UNCHANGED <<Pending, CompleteCores, console>>
<1> USE PutcAssumption DEF HostGoto, putcVars, coreVars, lockVars, mailVars, hostVars
<1>1. UNCHANGED <<data, size, console>>
  BY DEF SnrtPrintfInit, PollBusy, CheckMailbox, LoadRequest, AckRequest, Reply,
         SleepTicks, RomClearBusy
<1>2. ASSUME NEW d \in Cores
      PROVE  Served(d)' <=> Served(d)
  <2>1. CASE UNCHANGED hostVars /\ \E k \in Clusters : SnrtPrintfInit(k)
    <3>1. PICK k \in Clusters : SnrtPrintfInit(k)
      BY <2>1
    <3>2. UNCHANGED <<h2d, hpc, addr>>
      BY <2>1, <3>1 DEF SnrtPrintfInit
    <3>3. pc[d] \in {"clear", "reset"} <=> pc'[d] \in {"clear", "reset"}
      BY <3>1 DEF SnrtPrintfInit
    <3> QED
      BY <3>2, <3>3 DEF Served
  <2>2. CASE Reply
    BY <2>2 DEF Reply, Served, IInv, TypeOK, PutcTypeOK, MailInv
  <2>3. CASE \/ PollBusy \/ CheckMailbox \/ LoadRequest \/ AckRequest
             \/ SleepTicks \/ RomClearBusy
    BY <2>3 DEF PollBusy, CheckMailbox, LoadRequest, AckRequest, SleepTicks,
       RomClearBusy, Served
  <2> QED
    BY <2>1, <2>2, <2>3
<1>3. ASSUME NEW d \in Cores
      PROVE  pc'[d] \in Waiting <=> pc[d] \in Waiting
  <2>1. ASSUME NEW k \in Clusters, SnrtPrintfInit(k)
        PROVE  pc'[d] \in Waiting <=> pc[d] \in Waiting
    BY <2>1 DEF SnrtPrintfInit, Waiting
  <2>2. CASE \/ PollBusy \/ CheckMailbox \/ LoadRequest \/ AckRequest
             \/ Reply \/ SleepTicks \/ RomClearBusy
    <3>1. pc' = pc
      BY <2>2 DEF PollBusy, CheckMailbox, LoadRequest, AckRequest, Reply, SleepTicks,
         RomClearBusy
    <3> QED
      BY <3>1
  <2> QED
    BY <2>1, <2>2
<1>4. UNCHANGED <<Pending, CompleteCores>>
  BY <1>1, <1>2, <1>3, QuietStep
<1> QED
  BY <1>1, <1>4

(* Device and host implement the line printer, for any number of cores:    *)
(* every complete text reaches the console exactly once, whole, before its *)
(* core goes on, and nothing else is printed.                              *)
THEOREM Refinement ==
    ASSUME OneCluster, SizesInBounds
    PROVE  Spec => ImplementsLinePrinter
<1>1. Init => LP!Init
  BY InitRefines
<1>2. IInv /\ [Next]_vars => [LP!Next]_<<Pending, CompleteCores, console>>
  <2> SUFFICES ASSUME IInv, [Next]_vars
               PROVE  LP!Next \/ UNCHANGED <<Pending, CompleteCores, console>>
    OBVIOUS
  <2>1. ASSUME NEW c \in Cores, CoreStep(c), UNCHANGED hostVars
        PROVE  LP!Next \/ UNCHANGED <<Pending, CompleteCores, console>>
    BY <2>1, PutcharRefines, CoreStepRefines, ResetSizeRefines
       DEF CoreStep, SnrtPutchar, LP!Next
  <2>2. CASE UNCHANGED hostVars /\ \E k \in Clusters : SnrtPrintfInit(k)
    BY <2>2, OtherStepRefines
  <2>3. CASE HostStep
    BY <2>3, ServeWriteRefines, OtherStepRefines DEF HostStep, LP!Next
  <2>4. CASE RomClearBusy
    BY <2>4, OtherStepRefines
  <2>5. CASE UNCHANGED vars
    BY <2>5 DEF vars, putcVars, coreVars, mailVars, hostVars, Pending, CompleteCores,
       Served, Text
  <2> QED
    BY <2>1, <2>2, <2>3, <2>4, <2>5 DEF Next, DeviceNext
<1> QED
  BY <1>1, <1>2, Invariance, PTL DEF Spec, ImplementsLinePrinter, LP!Spec

(* No core overwrites another core's request in the mailbox.               *)
THEOREM RequestsKept ==
    ASSUME OneCluster, SizesInBounds
    PROVE  Spec => RequestNotOverwritten
<1>1. IInv /\ [Next]_vars => [d2h # NULL => d2h' \in {d2h, NULL}]_vars
  <2> SUFFICES ASSUME IInv, Next, d2h # NULL
               PROVE  d2h' \in {d2h, NULL}
    OBVIOUS
  <2>1. ASSUME NEW c \in Cores, PostRequest(c)
        PROVE  FALSE
    BY <2>1 DEF PostRequest, Goto, IInv, TypeOK, PutcTypeOK, MailInv, LockInv,
       FlushesSerialised, Critical
  <2>2. ASSUME NEW c \in Cores, CoreStep(c), ~PostRequest(c)
        PROVE  d2h' = d2h
    BY <2>2 DEF CoreStep, SnrtPutchar, Putchar, FillSyscall, TestMutex, SwapMutex,
       RingHost, SpinOnReply, ClearReply, ResetSize, ReleaseMutex, ReturnFromTask, mailVars
  <2>3. ASSUME NEW k \in Clusters, SnrtPrintfInit(k)
        PROVE  d2h' = d2h
    BY <2>3 DEF SnrtPrintfInit, mailVars
  <2>4. CASE HostStep \/ RomClearBusy
    BY <2>4 DEF HostStep, PollBusy, CheckMailbox, LoadRequest, AckRequest, ServeWrite,
       Reply, SleepTicks, RomClearBusy, putcVars, mailVars
  <2> QED
    BY <2>1, <2>2, <2>3, <2>4 DEF Next, DeviceNext
<1> QED
  BY <1>1, Invariance, PTL DEF Spec, RequestNotOverwritten

-----------------------------------------------------------------------------
(* The bounds of the buffers, for any number of clusters.                  *)

\* Where a core may store next, or go on to, its index is in the buffer.
IndexInv ==
    /\ pc \in [Cores -> PCs]
    /\ size \in [Cores -> Nat]
    /\ \A c \in Cores : pc[c] \in {"init", "run", "release", "done"} => size[c] < BufLen

(* No store of snrt_putchar leaves the core's buffer, if no hdr.size was   *)
(* out of it when the clusters started: nothing else is needed, neither of *)
(* the mutex nor of the host.  (Without it the stores do leave the buffer: *)
(* putc.c tests hdr.size for equality.)                                    *)
THEOREM StoresKept == Spec => []BoundsKept
<1>1. SUFFICES ASSUME SizesInBounds PROVE Spec => []StoresInBounds
  <2>1. CASE SizesInBounds
    <3>1. Spec => []StoresInBounds
      BY <1>1, <2>1
    <3>2. StoresInBounds => BoundsKept
      BY DEF BoundsKept
    <3> QED
      BY <3>1, <3>2, PTL
  <2>2. CASE ~SizesInBounds
    <3>1. BoundsKept
      BY <2>2 DEF BoundsKept
    <3> QED
      BY <3>1, PTL
  <2> QED
    BY <2>1, <2>2
<1>2. Init => IndexInv
  BY <1>1, InitialSizes DEF Init, PutcInit, IndexInv, PCs
<1>3. IndexInv /\ [Next]_vars => IndexInv'
  <2> SUFFICES ASSUME IndexInv, [Next]_vars
               PROVE  IndexInv'
    OBVIOUS
  <2> USE PutcAssumption DEF IndexInv, PCs, Goto
  <2>1. ASSUME NEW k \in Clusters, SnrtPrintfInit(k) PROVE IndexInv'
    BY <2>1 DEF SnrtPrintfInit
  <2>2. ASSUME NEW c \in Cores, NEW ch \in Chars, Putchar(c, ch) PROVE IndexInv'
    BY <2>2 DEF Putchar
  <2>3. ASSUME NEW c \in Cores, ResetSize(c) PROVE IndexInv'
    BY <2>3 DEF ResetSize
  <2>4. ASSUME NEW c \in Cores,
               \/ FillSyscall(c) \/ TestMutex(c) \/ SwapMutex(c) \/ PostRequest(c)
               \/ RingHost(c) \/ SpinOnReply(c) \/ ClearReply(c)
        PROVE  IndexInv'
    BY <2>4 DEF FillSyscall, TestMutex, SwapMutex, PostRequest, RingHost, SpinOnReply,
       ClearReply
  <2>5. ASSUME NEW c \in Cores, ReleaseMutex(c) \/ ReturnFromTask(c) PROVE IndexInv'
    BY <2>5 DEF ReleaseMutex, ReturnFromTask
  <2>6. CASE HostStep \/ RomClearBusy \/ UNCHANGED vars
    BY <2>6 DEF HostStep, PollBusy, CheckMailbox, LoadRequest, AckRequest, ServeWrite,
       Reply, SleepTicks, RomClearBusy, vars, putcVars, coreVars
  <2> QED
    BY <2>1, <2>2, <2>3, <2>4, <2>5, <2>6
       DEF Next, DeviceNext, CoreStep, SnrtPutchar
<1>4. IndexInv => StoresInBounds
  BY DEF IndexInv, StoresInBounds
<1> QED
  BY <1>2, <1>3, <1>4, PTL DEF Spec
=============================================================================
