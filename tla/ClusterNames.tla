---------------------------- MODULE ClusterNames ----------------------------
(* What the clusters page (ClusterConsole) and the tabs of a cluster's details *)
(* (ClusterTabs) have in common: both know clusters by their names and send    *)
(* requests that may fail.                                                    *)
EXTENDS Naturals, FiniteSets

CONSTANTS Clusters,   \* the names of clusters
          None,       \* a path of the store that is not set
          Error,      \* the answer of a request that failed
          MaxFlight,  \* bound: requests under way when another is sent
          MaxFails    \* bound: requests that fail
=============================================================================
