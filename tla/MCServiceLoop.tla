--------------------------- MODULE MCServiceLoop ---------------------------
(* Small instances of ServiceLoop for TLC.                                 *)
EXTENDS ServiceLoop, TLC

CONSTANTS c1, c2, k1, k2, x, nl

MCOneCluster  == [c \in Cores |-> k1]
MCTwoClusters == (c1 :> k1) @@ (c2 :> k2)
=============================================================================
