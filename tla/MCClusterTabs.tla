---------------------------- MODULE MCClusterTabs ----------------------------
(* Instances of ClusterTabs, one use of the details each: which tab is used,  *)
(* which clusters, and what DescribeCluster says of them meanwhile.  The       *)
(* filter changes where one cluster is used.                                  *)
EXTENDS ClusterTabs

CONSTANTS a, b, j1, j2, f1, f2, Uses

Use(tab, clusters, jobs, infos, failures) ==
  [tab |-> tab, clusters |-> clusters, jobs |-> jobs, infos |-> infos,
   failures |-> failures]

SomeUses ==
  {Use("scheduling", {a, b}, {j1}, {"running"}, 0),
   Use("scheduling", {a}, {j1}, {"creating", "running"}, 1),
   Use("scheduling", {a}, {j1, j2}, {"running"}, 0),
   Use("accounting", {a, b}, {j1}, {"running"}, 0),
   Use("accounting", {a}, {j1, j2}, {"running"}, 0),
   Use("accounting", {a}, {j1}, {"creating", "running"}, 1),
   Use("instances", {a, b}, {}, {"stopped"}, 0), Use("instances", {a}, {}, {"stopped"}, 1),
   Use("events", {a, b}, {}, {"started", "running"}, 1)}

VARIABLE use

MCInit == /\ Init /\ use \in Uses
          /\ \A c \in Clusters : info[c] \in use.infos
          /\ search.filter = f1
MCNext ==
  /\ Next
  /\ view'.tab \in {use.tab, "details"}
  /\ view'.cluster \in use.clusters \cup {None}
  /\ \A c \in Clusters : info'[c] = info[c] \/ (info'[c] \in use.infos /\ c \in use.clusters)
  /\ \A f \in flight' : f.job \in Jobs => f.job \in use.jobs
  /\ fails' <= use.failures
  /\ Cardinality(use.clusters) > 1 => search'.filter = f1
  /\ UNCHANGED use
MCSpec == MCInit /\ [][MCNext]_<<vars, use>>
=============================================================================
