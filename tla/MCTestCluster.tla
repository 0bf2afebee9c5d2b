--------------------------- MODULE MCTestCluster ---------------------------
(* Small instances of TestCluster for TLC.                                 *)
EXTENDS TestCluster, TLC

CONSTANTS c1, c2, k1, k2, nl

MCClusterOf == (c1 :> k1) @@ (c2 :> k2)
MCIds == <<k1, k2>>
=============================================================================
