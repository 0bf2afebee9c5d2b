----------------------------- MODULE MCOffload -----------------------------
(* Small instances of Offload for TLC.                                     *)
EXTENDS Offload

\* Unequal clusters, like the ones of chimera-convolve.
MCNumCores == [k \in 0..NumClusters-1 |-> IF k = NumClusters - 1 THEN 2 ELSE 1]

\* It makes both calls and fetches every result.
Collecting == [kinds |-> {"all", "core"}, collects |-> TRUE, jobs |-> 3]

\* It offloads to whole clusters without fetching results.
Repeating == [kinds |-> {"all"}, collects |-> FALSE, jobs |-> 2]

MCApps == {Collecting, Repeating}
=============================================================================
