------------------------ MODULE MCClusterMembership ------------------------
(* ClusterMembership for TLC: nodes are model values. *)
EXTENDS ClusterMembership, TLC

CrashesOrBreaks == {{"crash"}, {"break", "unreachable"}}
Crashes == {{"crash"}}
=============================================================================
