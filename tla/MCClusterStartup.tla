-------------------------- MODULE MCClusterStartup --------------------------
(* The first two clusters of the address map.                              *)
EXTENDS ClusterStartup

MCNumCores == [k \in 0..1 |-> 2]
MCClusterBase == [k \in 0..1 |-> 1073741824 + k * 2097152]
MCL1Alias == 402653184

\* A binary with all sections, and one with cleared data only.
MCLinks ==
    {[tdata |-> 32, tbss |-> 64, cdata |-> 96, cbss |-> 32, l1 |-> 4096],
     [tdata |-> 0, tbss |-> 32, cdata |-> 0, cbss |-> 64, l1 |-> 0]}

(* The stacks of the tests, or of unequal and odd sizes; and the same with *)
(* one that reaches down into the data.                                    *)
MCStacks ==
    {[below |-> 1, size |-> [i \in 0..1 |-> IF i = 0 THEN 8192 ELSE 1001]],
     [below |-> 24, size |-> [i \in 0..1 |-> IF i = 0 THEN 999 ELSE 130000]]}
=============================================================================
