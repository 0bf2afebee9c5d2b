-------------------------- MODULE TestClusterProofs --------------------------
(***************************************************************************)
(* Proofs about TestCluster: the rounds of the test driver, for any number *)
(* of clusters, cores and rounds, and any moment at which a deadline       *)
(* passes.                                                                 *)
(***************************************************************************)
EXTENDS TestCluster, TLAPS

Index == 1 .. Len(Ids)

\* A cluster that has nothing to do and nothing to say.
Quiet(k) == ~busy[k] /\ rom[k] = "park" /\ ret[k] = 0

\* A cluster that works, is about to report or has reported this round.
Live(k) ==
    \/ busy[k] /\ rom[k] = "run" /\ ret[k] = 0
    \/ ~busy[k] /\ rom[k] = "report" /\ ret[k] = 0
    \/ ~busy[k] /\ rom[k] = "park" /\ ret[k] = 2 * errs[k] + 1

Reported(k) == Live(k) /\ ~busy[k]

\* The phases of a round.
Before == {"config", "fll", "setup", "deadline"}
Serving == {"loop", "scan", "clock", "check", "load", "ack", "serve", "notify", "sleep"}
After == {"restore", "again"}

Types ==
    /\ hpc \in Before \cup {"offload"} \cup Serving \cup {"collect"} \cup After \cup {"returned"}
    /\ id \in Index /\ (hpc \notin {"setup", "offload", "scan", "collect"} => id = 1)
    /\ done \in Nat /\ timedOut \in BOOLEAN /\ late \in BOOLEAN
    /\ clk \in [Clusters -> BOOLEAN] /\ busy \in [Clusters -> BOOLEAN]
    /\ rom \in [Clusters -> {"park", "run", "report"}]
    /\ ret \in [Clusters -> Nat] /\ errs \in [Clusters -> Nat]

\* The clusters that are not under test.
OthersInv ==
    \A k \in Clusters : (\A i \in Index : Ids[i] # k) => ~clk[k] /\ Quiet(k)

\* Until the loop, no cluster has anything left of an earlier round.
StartInv ==
    /\ hpc \in {"config", "fll"} => \A i \in Index : ~clk[Ids[i]]
    /\ hpc \in Before => ~timedOut /\ done = 0 /\ \A i \in Index : Quiet(Ids[i])
    /\ hpc = "offload" =>
          /\ ~timedOut /\ done = 0
          /\ \A i \in Index : IF i < id THEN Live(Ids[i]) ELSE Quiet(Ids[i])

\* In the loop, done is the number of the clusters only if none is busy.
LoopInv ==
    /\ hpc \in Serving => ~timedOut /\ \A i \in Index : Live(Ids[i])
    /\ hpc = "scan" =>
          done < id /\ (done = id - 1 => \A i \in 1 .. id - 1 : ~busy[Ids[i]])
    /\ hpc \in Serving \ {"scan"} =>
          done <= Len(Ids) /\ (done = Len(Ids) => \A i \in Index : ~busy[Ids[i]])

\* After the loop, clusters are collected one by one and their clocks stopped.
EndInv ==
    /\ hpc = "collect" =>
          /\ \A i \in Index : i < id => ~clk[Ids[i]]
          /\ ~timedOut =>
                /\ \A i \in Index : IF i < id THEN Quiet(Ids[i]) ELSE Reported(Ids[i])
                /\ id > 1 => retVal = errs[Ids[id - 1]]
    /\ hpc \in After =>
          /\ \A i \in Index : ~clk[Ids[i]]
          /\ ~timedOut =>
                /\ \A i \in Index : Quiet(Ids[i])
                /\ retVal = errs[Ids[Len(Ids)]]
    /\ hpc = "returned" => \A i \in Index : ~clk[Ids[i]]

\* Between configure_fll and restore_default_freq the chip runs on the FLL;
\* elsewhere it does only after an error.
FllInv ==
    clock = "fll" => \/ clkFailed
                     \/ freq = "ok" /\ hpc \notin {"config", "fll", "again", "returned"}

IInv ==
    /\ Types
    /\ OthersInv
    /\ StartInv
    /\ LoopInv
    /\ EndInv
    /\ FllInv

-----------------------------------------------------------------------------

LEMMA IdsFacts ==
    /\ Len(Ids) \in Nat \ {0}
    /\ \A i \in Index : i \in Nat /\ 1 <= i /\ i <= Len(Ids)
    /\ \A i \in Index : Ids[i] \in Clusters
    /\ \A i, j \in Index : Ids[i] = Ids[j] => i = j
BY TestClusterAssumption DEF Index

LEMMA InitInv == Init => IInv
<1> SUFFICES ASSUME Init PROVE IInv
  OBVIOUS
<1>1. Types
  <2>1. id \in Index /\ id = 1
    BY IdsFacts DEF Init, Index
  <2>2. /\ clk \in [Clusters -> BOOLEAN] /\ busy \in [Clusters -> BOOLEAN]
        /\ timedOut \in BOOLEAN /\ late \in BOOLEAN
    BY Zenon DEF Init
  <2> QED
    BY <2>1, <2>2 DEF Init, Types, Before
<1>2. OthersInv /\ StartInv
  BY IdsFacts DEF Init, OthersInv, StartInv, Quiet, Before
<1>3. LoopInv /\ EndInv /\ FllInv
  BY DEF Init, LoopInv, EndInv, FllInv, Serving, After
<1> QED
  BY <1>1, <1>2, <1>3 DEF IInv

(* The host's steps that leave the clusters alone.                         *)
LEMMA HostAlone ==
    /\ IInv
    /\ \/ ReadConfig \/ ConfigureFll \/ SetDeadline \/ LoopTest \/ CheckDeadline
       \/ CheckMailbox \/ LoadRequest \/ AckRequest \/ ServeWrite \/ NotifyCluster
       \/ SleepTicks \/ RestoreFreq \/ Again
    => IInv'
<1> SUFFICES ASSUME IInv,
                    \/ ReadConfig \/ ConfigureFll \/ SetDeadline \/ LoopTest \/ CheckDeadline
                    \/ CheckMailbox \/ LoadRequest \/ AckRequest \/ ServeWrite \/ NotifyCluster
                    \/ SleepTicks \/ RestoreFreq \/ Again
             PROVE  IInv'
  OBVIOUS
<1>1. <<clk, busy, rom, ret, errs, id>>' = <<clk, busy, rom, ret, errs, id>>
  BY DEF ReadConfig, ConfigureFll, SetDeadline, LoopTest, CheckDeadline, CheckMailbox,
         LoadRequest, AckRequest, ServeWrite, NotifyCluster, SleepTicks, RestoreFreq, Again,
         socVars
<1>2. OthersInv'
  BY <1>1 DEF IInv, OthersInv, Quiet
<1> USE IdsFacts DEF IInv, Types, StartInv, LoopInv, EndInv, FllInv, Quiet, Live, Reported,
                     Before, Serving, After, HostGoto, Fail, clockVars
<1>3. CASE ReadConfig
  BY <1>1, <1>2, <1>3 DEF ReadConfig, socVars
<1>4. CASE ConfigureFll
  BY <1>1, <1>2, <1>4 DEF ConfigureFll, socVars
<1>5. CASE SetDeadline
  <2>1. late' \in BOOLEAN /\ timedOut' \in BOOLEAN /\ ~timedOut'
    BY <1>5, Zenon DEF SetDeadline, IInv, Types, StartInv, Before, HostGoto
  <2> QED
    BY <1>1, <1>2, <1>5, <2>1 DEF SetDeadline
<1>6. CASE LoopTest
  BY <1>1, <1>2, <1>6 DEF LoopTest, socVars
<1>7. CASE CheckDeadline
  BY <1>1, <1>2, <1>7 DEF CheckDeadline, socVars
<1>8. CASE CheckMailbox
  BY <1>1, <1>2, <1>8 DEF CheckMailbox, socVars
<1>9. CASE LoadRequest
  BY <1>1, <1>2, <1>9 DEF LoadRequest, socVars
<1>10. CASE AckRequest
  BY <1>1, <1>2, <1>10 DEF AckRequest, socVars
<1>11. CASE ServeWrite
  BY <1>1, <1>2, <1>11 DEF ServeWrite, socVars
<1>12. CASE NotifyCluster
  BY <1>1, <1>2, <1>12 DEF NotifyCluster, socVars
<1>13. CASE SleepTicks
  BY <1>1, <1>2, <1>13 DEF SleepTicks, socVars
<1>14. CASE RestoreFreq
  BY <1>1, <1>2, <1>14 DEF RestoreFreq, socVars
<1>15. CASE Again
  BY <1>1, <1>2, <1>15 DEF Again, socVars
<1> QED
  BY <1>3, <1>4, <1>5, <1>6, <1>7, <1>8, <1>9, <1>10, <1>11, <1>12, <1>13, <1>14, <1>15

-----------------------------------------------------------------------------
(* The host's steps for one cluster.                                       *)

LEMMA SetupStep == IInv /\ SetupCluster => IInv'
<1> SUFFICES ASSUME IInv, SetupCluster PROVE IInv'
  OBVIOUS
<1>1. /\ hpc = "setup" /\ id \in Index /\ Ids[id] \in Clusters
      /\ \/ id < Len(Ids) /\ hpc' = "setup" /\ id' = id + 1
         \/ ~(id < Len(Ids)) /\ hpc' = "deadline" /\ id' = 1
      /\ clk' = [clk EXCEPT ![Ids[id]] = TRUE]
      /\ rom' = [rom EXCEPT ![Ids[id]] = "park"]
      /\ UNCHANGED <<freq, clock, clkFailed, done, timedOut, late, retVal, busy, ret, errs>>
  BY IdsFacts DEF IInv, Types, SetupCluster, LoopGoto, clockVars
<1>2. Types'
  <2>1. id' \in Index
    BY <1>1, IdsFacts DEF Index
  <2>2. clk' \in [Clusters -> BOOLEAN]
    BY <1>1, Zenon DEF IInv, Types
  <2> QED
    BY <1>1, <2>1, <2>2 DEF IInv, Types, Before
<1>3. OthersInv'
  BY <1>1 DEF IInv, OthersInv, Types, Quiet
<1>4. StartInv'
  BY <1>1, IdsFacts DEF IInv, StartInv, Types, Quiet, Before
<1>5. LoopInv' /\ EndInv' /\ FllInv'
  BY <1>1 DEF IInv, LoopInv, EndInv, FllInv, Serving, After
<1> QED
  BY <1>2, <1>3, <1>4, <1>5 DEF IInv

LEMMA OffloadStep == IInv /\ OffloadId => IInv'
<1> SUFFICES ASSUME IInv, OffloadId PROVE IInv'
  OBVIOUS
<1>1. /\ hpc = "offload" /\ id \in Index /\ Ids[id] \in Clusters
      /\ \/ id < Len(Ids) /\ hpc' = "offload" /\ id' = id + 1
         \/ ~(id < Len(Ids)) /\ hpc' = "loop" /\ id' = 1
      /\ busy' = [busy EXCEPT ![Ids[id]] = TRUE]
      /\ rom' = [rom EXCEPT ![Ids[id]] = "run"]
      /\ UNCHANGED <<freq, clock, clkFailed, done, timedOut, late, retVal, clk, ret, errs>>
  BY IdsFacts DEF IInv, Types, OffloadId, LoopGoto, clockVars
<1>2. Types'
  <2>1. id' \in Index
    BY <1>1, IdsFacts DEF Index
  <2>2. busy' \in [Clusters -> BOOLEAN]
    BY <1>1, Zenon DEF IInv, Types
  <2> QED
    BY <1>1, <2>1, <2>2 DEF IInv, Types, Serving
<1>3. OthersInv'
  BY <1>1 DEF IInv, OthersInv, Types, Quiet
<1>4. ASSUME NEW i \in Index
      PROVE  IF i <= id THEN Live(Ids[i])' ELSE Quiet(Ids[i])'
  <2>1. i # id => Ids[i] # Ids[id]
    BY <1>1, IdsFacts
  <2> QED
    BY <1>1, <2>1, IdsFacts DEF IInv, Types, StartInv, Quiet, Live
<1>5. StartInv'
  BY <1>1, <1>4, IdsFacts DEF IInv, StartInv, Before
<1>6. LoopInv'
  BY <1>1, <1>4, IdsFacts DEF IInv, StartInv, LoopInv, Serving
<1>7. EndInv' /\ FllInv'
  BY <1>1 DEF IInv, EndInv, FllInv, After
<1> QED
  BY <1>2, <1>3, <1>5, <1>6, <1>7 DEF IInv

LEMMA ScanStep == IInv /\ ScanBusy => IInv'
<1> SUFFICES ASSUME IInv, ScanBusy PROVE IInv'
  OBVIOUS
<1>1. /\ hpc = "scan" /\ id \in Index /\ Ids[id] \in Clusters
      /\ \/ id < Len(Ids) /\ hpc' = "scan" /\ id' = id + 1
         \/ ~(id < Len(Ids)) /\ hpc' = "clock" /\ id' = 1
      /\ done' = IF busy[Ids[id]] THEN done ELSE done + 1
      /\ UNCHANGED <<freq, clock, clkFailed, timedOut, late, retVal, clk, busy, rom, ret, errs>>
  BY IdsFacts DEF IInv, Types, ScanBusy, LoopGoto, clockVars, socVars
<1>2. Types'
  <2>1. id' \in Index
    BY <1>1, IdsFacts DEF Index
  <2> QED
    BY <1>1, <2>1 DEF IInv, Types, Serving
<1>3. OthersInv'
  BY <1>1 DEF IInv, OthersInv, Quiet
<1>4. done' <= id /\ (done' = id => \A i \in 1..id : ~busy[Ids[i]])
  BY <1>1, IdsFacts DEF IInv, Types, LoopInv
<1>5. LoopInv'
  <2>1. hpc' \in Serving => ~timedOut' /\ \A i \in Index : Live(Ids[i])'
    BY <1>1 DEF IInv, LoopInv, Serving, Live
  <2>2. hpc' = "scan" => done' < id' /\ (done' = id' - 1 => \A i \in 1 .. id' - 1 : ~busy'[Ids[i]])
    BY <1>1, <1>2, <1>4, IdsFacts DEF Types
  <2>3. hpc' # "scan" => id = Len(Ids) /\ Index = 1..id
    BY <1>1, IdsFacts DEF Index
  <2> QED
    BY <1>1, <1>2, <1>4, <2>1, <2>2, <2>3, IdsFacts DEF LoopInv, Types
<1>6. StartInv' /\ EndInv' /\ FllInv'
  BY <1>1 DEF IInv, StartInv, EndInv, FllInv, Before, After
<1> QED
  BY <1>2, <1>3, <1>5, <1>6 DEF IInv

LEMMA CollectStep == IInv /\ Collect => IInv'
<1> SUFFICES ASSUME IInv, Collect PROVE IInv'
  OBVIOUS
<1> DEFINE k == Ids[id]
<1>1. /\ hpc = "collect" /\ id \in Index /\ k \in Clusters
      /\ \/ id < Len(Ids) /\ hpc' = "collect" /\ id' = id + 1
         \/ ~(id < Len(Ids)) /\ hpc' = "restore" /\ id' = 1
      /\ clk' = [clk EXCEPT ![k] = FALSE]
      /\ UNCHANGED <<freq, clock, clkFailed, done, timedOut, late, busy, rom, errs>>
  BY IdsFacts DEF IInv, Types, Collect, LoopGoto, clockVars
<1>2. \/ timedOut /\ ret' = ret /\ retVal' = 0
      \/ /\ ~timedOut /\ ret[k] # 0 /\ ret' = [ret EXCEPT ![k] = 0]
         /\ retVal' = ret[k] \div 2
  BY DEF Collect
<1>3. ~timedOut => Reported(k) /\ ret[k] = 2 * errs[k] + 1 /\ rom[k] = "park" /\ ~busy[k]
  BY <1>1, <1>2, IdsFacts DEF IInv, Types, EndInv, Reported, Live
<1>4. ~timedOut => retVal' = errs[k]
  <2>1. errs[k] \in Nat
    BY <1>1 DEF IInv, Types
  <2>2. \A e \in Nat : (2 * e + 1) \div 2 = e
    OBVIOUS
  <2> QED
    BY <1>2, <1>3, <2>1, <2>2
<1>5. Types'
  <2>1. id' \in Index
    BY <1>1, IdsFacts DEF Index
  <2>2. clk' \in [Clusters -> BOOLEAN]
    BY <1>1, Zenon DEF IInv, Types
  <2> QED
    BY <1>1, <1>2, <2>1, <2>2 DEF IInv, Types, After
<1>6. OthersInv'
  BY <1>1, <1>2 DEF IInv, OthersInv, Types, Quiet
<1>7. ASSUME NEW i \in Index
      PROVE  /\ i <= id => ~clk'[Ids[i]]
             /\ ~timedOut => IF i <= id THEN Quiet(Ids[i])' ELSE Reported(Ids[i])'
  <2>1. i # id => Ids[i] # k
    BY <1>1, IdsFacts
  <2>2. i <= id => ~clk'[Ids[i]]
    BY <1>1, <2>1, IdsFacts DEF IInv, Types, EndInv
  <2>3. ~timedOut /\ i <= id => Quiet(Ids[i])'
    <3> SUFFICES ASSUME ~timedOut, i <= id PROVE Quiet(Ids[i])'
      OBVIOUS
    <3>1. CASE i = id
      BY <1>1, <1>2, <1>3, <3>1, IdsFacts DEF IInv, Types, Quiet
    <3>2. CASE i # id
      <4>1. Quiet(Ids[i])
        BY <1>1, <3>2, IdsFacts DEF IInv, EndInv
      <4>2. Ids[i] # k /\ ret'[Ids[i]] = ret[Ids[i]]
        BY <1>1, <1>2, <2>1, <3>2, IdsFacts DEF IInv, Types
      <4> QED BY <1>1, <4>1, <4>2 DEF Quiet
    <3> QED BY <3>1, <3>2
  <2>4. ~timedOut /\ ~(i <= id) => Reported(Ids[i])'
    <3> SUFFICES ASSUME ~timedOut, ~(i <= id) PROVE Reported(Ids[i])'
      OBVIOUS
    <3>1. Reported(Ids[i])
      BY <1>1, IdsFacts DEF IInv, EndInv
    <3>2. Ids[i] # k /\ Ids[i] \in Clusters
      BY <1>1, <2>1, IdsFacts
    <3>3. ret'[Ids[i]] = ret[Ids[i]] /\ clk'[Ids[i]] = clk[Ids[i]]
      BY <1>1, <1>2, <3>2 DEF IInv, Types
    <3> QED
      BY <1>1, <3>1, <3>3 DEF Reported, Live
  <2> QED
    BY <2>2, <2>3, <2>4
<1>8. EndInv'
  <2>1. CASE id < Len(Ids)
    BY <1>1, <1>4, <1>7, <2>1, IdsFacts DEF EndInv, After
  <2>2. CASE ~(id < Len(Ids))
    <3>1. id = Len(Ids) /\ \A i \in Index : i <= id
      BY <1>1, <2>2, IdsFacts
    <3> QED
      BY <1>1, <1>4, <1>7, <2>2, <3>1 DEF EndInv, After
  <2> QED
    BY <2>1, <2>2
<1>9. StartInv' /\ LoopInv' /\ FllInv'
  BY <1>1 DEF IInv, StartInv, LoopInv, FllInv, Before, Serving
<1> QED
  BY <1>5, <1>6, <1>8, <1>9 DEF IInv

-----------------------------------------------------------------------------
(* The clusters.                                                           *)

\* A cluster whose clock runs is under test, and in a round.
LEMMA Running ==
    ASSUME IInv, NEW k \in Clusters, clk[k]
    PROVE  /\ \E j \in Index : Ids[j] = k
           /\ hpc \notin {"config", "fll", "returned"} \cup After
           /\ hpc = "collect" => \A j \in Index : Ids[j] = k => ~(j < id)
<1>1. PICK j \in Index : Ids[j] = k
  BY DEF IInv, OthersInv
<1> QED
  BY <1>1, IdsFacts DEF IInv, StartInv, EndInv

LEMMA ClearBusyStep == ASSUME NEW k \in Clusters, IInv, RomClearBusy(k) PROVE IInv'
<1>1. /\ clk[k] /\ rom[k] = "run"
      /\ rom' = [rom EXCEPT ![k] = "report"]
      /\ busy' = [busy EXCEPT ![k] = FALSE]
      /\ UNCHANGED <<hostVars, late, clk, ret, errs>>
  BY DEF RomClearBusy
<1>2. PICK j \in Index : Ids[j] = k
  BY <1>1, Running
<1>3. /\ hpc \notin {"config", "fll", "returned"} \cup After
      /\ hpc = "collect" => ~(j < id)
  BY <1>1, <1>2, Running
<1> USE IdsFacts DEF IInv, hostVars, clockVars
<1>4. Types'
  <2>1. busy' \in [Clusters -> BOOLEAN]
    BY <1>1, Zenon DEF Types
  <2> QED
    BY <1>1, <2>1 DEF Types
<1>5. OthersInv'
  BY <1>1, <1>2 DEF OthersInv, Types, Quiet
<1>6. hpc \notin Before /\ (hpc = "collect" => timedOut)
  BY <1>1, <1>2, <1>3 DEF Types, StartInv, EndInv, Quiet, Reported, Live
<1>7. ASSUME NEW i \in Index
      PROVE  /\ Live(Ids[i]) => Live(Ids[i])'
             /\ Quiet(Ids[i]) => Quiet(Ids[i])'
             /\ ~busy[Ids[i]] => ~busy'[Ids[i]]
  BY <1>1, <1>2 DEF Types, Live, Quiet
<1>8. StartInv'
  BY <1>1, <1>3, <1>6, <1>7 DEF StartInv, Before
<1>9. LoopInv'
  <2>1. 1 .. id - 1 \subseteq Index
    BY DEF Types, Index
  <2> QED
    BY <1>1, <1>7, <2>1 DEF LoopInv, Serving
<1>10. EndInv' /\ FllInv'
  BY <1>1, <1>3, <1>6 DEF EndInv, FllInv
<1> QED
  BY <1>4, <1>5, <1>8, <1>9, <1>10

LEMMA WriteReturnStep == ASSUME NEW k \in Clusters, IInv, RomWriteReturn(k) PROVE IInv'
<1>1. PICK e \in Errors :
         errs' = [errs EXCEPT ![k] = e] /\ ret' = [ret EXCEPT ![k] = 2 * e + 1]
  BY DEF RomWriteReturn
<1>2. /\ clk[k] /\ rom[k] = "report" /\ e \in Nat
      /\ rom' = [rom EXCEPT ![k] = "park"]
      /\ UNCHANGED <<hostVars, late, clk, busy>>
  BY TestClusterAssumption DEF RomWriteReturn
<1>3. PICK j \in Index : Ids[j] = k
  BY <1>2, Running
<1>4. /\ hpc \notin {"config", "fll", "returned"} \cup After
      /\ hpc = "collect" => ~(j < id)
  BY <1>2, <1>3, Running
<1> USE IdsFacts DEF IInv, hostVars, clockVars
<1>5. Types'
  BY <1>1, <1>2 DEF Types
<1>6. OthersInv'
  BY <1>1, <1>2, <1>3 DEF OthersInv, Types, Quiet
<1>7. hpc \notin Before
  BY <1>2, <1>3 DEF Types, StartInv, Quiet
<1>8. ASSUME NEW i \in Index
      PROVE  /\ Live(Ids[i]) => Live(Ids[i])'
             /\ Reported(Ids[i]) => Reported(Ids[i])'
             /\ Quiet(Ids[i]) => Quiet(Ids[i])' /\ errs'[Ids[i]] = errs[Ids[i]]
  BY <1>1, <1>2, <1>3 DEF Types, Live, Reported, Quiet
<1>9. StartInv'
  BY <1>2, <1>4, <1>7, <1>8 DEF StartInv, Before
<1>10. LoopInv'
  BY <1>2, <1>8 DEF LoopInv, Serving
<1>11. EndInv'
  <2>1. id > 1 => id - 1 \in Index /\ id - 1 < id
    BY DEF Types, Index
  <2> QED
    BY <1>2, <1>4, <1>8, <2>1 DEF EndInv
<1>12. FllInv'
  BY <1>2 DEF FllInv
<1> QED
  BY <1>5, <1>6, <1>9, <1>10, <1>11, <1>12

LEMMA OtherStep ==
    ASSUME IInv, UNCHANGED <<hostVars, clk, busy, ret, rom, errs>>, late' \in BOOLEAN
    PROVE  IInv'
BY DEF IInv, Types, OthersInv, StartInv, LoopInv, EndInv, FllInv, Quiet, Live, Reported,
       hostVars, clockVars

-----------------------------------------------------------------------------

(* What a round leaves for the next one, whatever the clusters print and   *)
(* however late they are.                                                  *)
THEOREM TestInvariance == Spec => []IInv
<1>1. IInv /\ [Next]_vars => IInv'
  <2> SUFFICES ASSUME IInv, [Next]_vars PROVE IInv'
    OBVIOUS
  <2>1. CASE HostStep
    BY <2>1, HostAlone, SetupStep, OffloadStep, ScanStep, CollectStep DEF HostStep
  <2>2. CASE \E k \in Clusters : RomStep(k)
    BY <2>2, ClearBusyStep, WriteReturnStep DEF RomStep
  <2>3. CASE (\E k \in Clusters : PrintfInit(k)) \/ (\E c \in Cores : KernelStep(c))
    <3>1. UNCHANGED <<hostVars, socVars>>
      BY <2>3 DEF PrintfInit, KernelStep
    <3> QED
      BY <3>1, OtherStep DEF socVars, IInv, Types
  <2>4. CASE DeadlinePasses
    <3>1. late' \in BOOLEAN
      BY <2>4, Zenon DEF DeadlinePasses
    <3> QED
      BY <2>4, <3>1, OtherStep DEF DeadlinePasses
  <2>5. CASE UNCHANGED vars
    BY <2>5, OtherStep DEF vars, socVars, IInv, Types
  <2> QED
    BY <2>1, <2>2, <2>3, <2>4, <2>5 DEF Next
<1> QED
  BY <1>1, InitInv, PTL DEF Spec

(* No offload waits for a cluster that timed out, the results collected    *)
(* are those of the round, and test_cluster leaves no cluster's clock      *)
(* running, nor, unless an error was reported, the chip on the FLL.        *)
THEOREM TestSafety == Spec => [](OffloadNeverWaits /\ CollectsThisRound /\ LeavesChipQuiet)
<1>1. IInv => OffloadNeverWaits
  <2> SUFFICES ASSUME IInv, hpc = "offload", NEW i \in id..Len(Ids)
               PROVE  ~busy[Ids[i]] /\ rom[Ids[i]] = "park"
    BY DEF OffloadNeverWaits
  <2>1. i \in Index /\ ~(i < id)
    BY DEF IInv, Types, Index
  <2> QED
    BY <2>1 DEF IInv, StartInv, Quiet
<1>2. IInv => CollectsThisRound
  BY DEF IInv, OthersInv, EndInv, Quiet, After, CollectsThisRound
<1>3. IInv => LeavesChipQuiet
  BY DEF IInv, OthersInv, EndInv, FllInv, LeavesChipQuiet
<1> QED
  BY <1>1, <1>2, <1>3, TestInvariance, PTL
=============================================================================
