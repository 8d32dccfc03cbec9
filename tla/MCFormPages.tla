---------------------------- MODULE MCFormPages ----------------------------
(* Instances of the queues page and of the pages before it.  A behaviour uses  *)
(* one of the two, some of its controls, and few items.                       *)
EXTENDS QueuesPage, ClusterPages, TLC

VARIABLE use

-----------------------------------------------------------------------------
(* Queues: how many queues and compute resources, which instance types,       *)
(* versions and controls.                                                    *)

CONSTANTS plain, efa, hpc

Before33 == {"memory_based_scheduling"}
Since33 == Before33 \cup {"queues_multiple_instance_types"}
Since34 == Since33 \cup {"multi_az"}
Since37 == Since34 \cup {"memory_based_scheduling_with_multiple_instance_types"}
FlagSets == {Before33, Since33, Since34, Since37}
TypedCounts == {-1, 0, 1, 2}
NodesBound == -1..6

Loaded == [name |-> 1, subnets |-> {"s1"}, group |-> FALSE, block |-> FALSE,
           strategy |-> FALSE, script |-> TRUE, args |-> FALSE, ami |-> TRUE,
           crs |-> <<[suffix |-> 1, types |-> {plain}, efa |-> FALSE, noHT |-> FALSE,
                      target |-> NoTarget,
                      nodes |-> [min |-> Nil, max |-> 1, given |-> 1, lost |-> FALSE]],
                     [suffix |-> 2, types |-> {efa}, efa |-> TRUE, noHT |-> FALSE,
                      target |-> NoTarget,
                      nodes |-> [min |-> 1, max |-> 2, given |-> 1, lost |-> FALSE]]>>]
QueueTemplates == {<<Loaded>>}
SlurmTemplates == [memory : BOOLEAN, idle : {"unset", "negative"}]

QueuesUse(controls, versions, size, types) ==
  [page |-> "queues", controls |-> controls, versions |-> versions, size |-> size, types |-> types]
QueuesUses ==
  {QueuesUse({"networks", "types"}, {Before33, Since34}, <<1, 2>>, {plain, efa}),
   QueuesUse({"networks", "types", "capacities"}, {Before33, Since34}, <<1, 1>>, {plain, efa, hpc}),
   QueuesUse({"reservations", "types", "shape"}, {Since33}, <<1, 2>>, {plain}),
   QueuesUse({"slurm", "types", "shape"}, {Before33, Since34, Since37}, <<2, 1>>, {plain, efa}),
   QueuesUse({"scripts", "shape"}, {Since37}, <<2, 1>>, {plain}),
   QueuesUse({"counts"}, {Since37}, <<1, 2>>, {plain, efa}),
   QueuesUse({"names", "shape"}, {Since37}, <<2, 2>>, {plain}),
   QueuesUse({"names", "shape", "types"}, {Before33}, <<1, 2>>, {plain, efa}),
   QueuesUse({"listing", "shape", "types"}, {Before33, Since33}, <<1, 2>>, {plain, efa}),
   QueuesUse({"reservations", "shape"}, {Since34}, <<2, 1>>, {plain}),
   QueuesUse({"reservations", "types", "networks"}, {Since33}, <<1, 1>>, {plain, efa})}

QueuesSteps ==
  /\ \/ "networks" \in use.controls /\ Networks
     \/ "types" \in use.controls /\ TypeChoices
     \/ "capacities" \in use.controls /\ Capacities
     \/ "reservations" \in use.controls /\ ReservationsSet
     \/ "slurm" \in use.controls /\ SlurmSettings
     \/ "scripts" \in use.controls /\ Scripts
     \/ "counts" \in use.controls /\ NodeCounts
     \/ "names" \in use.controls /\ Names
     \/ "shape" \in use.controls /\ Shape
     \/ "listing" \in use.controls /\ TypesListed
     \/ Wizard
  /\ "slurm" \in use.controls \/ slurm' = NewSlurm
  /\ listed' \subseteq use.types /\ Len(queues') <= use.size[1]
  /\ \A i \in DOMAIN queues' :
       /\ Len(queues'[i].crs) <= use.size[2]
       /\ \A j \in DOMAIN queues'[i].crs : /\ queues'[i].crs[j].types \subseteq use.types
                                           /\ queues'[i].crs[j].nodes.max \in NodesBound

-----------------------------------------------------------------------------
(* Cluster and head node: three Regions, one with two VPCs and two key pairs,   *)
(* one with neither; clusters and templates whose key pair is not the first, is *)
(* none, or was deleted.                                                     *)

CONSTANTS home, away, empty, v1, v2, v3, k1, k2, k3, gone

RegionsOfVpcs == v1 :> home @@ v2 :> home @@ v3 :> away
Networked == "s1" :> v1 @@ "s2" :> v2 @@ "s3" :> v3
Keys == home :> <<k1, k2>> @@ away :> <<k3>> @@ empty :> <<>>
Configured(region, subnet, key, all) ==
  [region |-> region, subnet |-> subnet, key |-> key, ssm |-> all, dcv |-> all,
   ami |-> all, directory |-> all]
Plain == Configured(home, "s2", k2, FALSE)
Orphan == Configured(home, "s2", gone, FALSE)
Full == Configured(home, "s1", Unset, TRUE)
Far == Configured(away, "s3", gone, FALSE)
Configs == {Plain, Orphan, Full, Far}

PagesUse(controls, drafts) == [page |-> "cluster", controls |-> controls, drafts |-> drafts]
PagesUses ==
  {PagesUse({"places", "resources"}, {Plain}), PagesUse({"places", "resources"}, {Far}),
   PagesUse({"resources"}, {Plain, Far}),
   PagesUse({"boxes", "texts"}, {Full}), PagesUse({"access"}, {Full, Plain, Orphan})}
PagesSteps ==
  \/ CreateNew \/ CloseWizard \/ GoElsewhere \/ Turns
  \/ \E t \in use.drafts : Edit(t) \/ CreateFrom(t) \/ Upload(t)
  \/ "places" \in use.controls /\ Places
  \/ "resources" \in use.controls /\ Resources
  \/ "boxes" \in use.controls /\ Boxes
  \/ "texts" \in use.controls /\ TextFields
  \/ "access" \in use.controls /\ Access

-----------------------------------------------------------------------------

MCInit ==
  /\ QueuesInit /\ PagesInit /\ use \in QueuesUses \cup PagesUses
  /\ flags \in IF use.page = "queues" THEN use.versions ELSE {Since37}
  /\ listed \in IF use.page = "cluster" THEN {InstanceTypes}
               ELSE IF "listing" \in use.controls THEN SUBSET use.types ELSE {use.types}
MCNext ==
  /\ \/ use.page = "queues" /\ QueuesSteps /\ UNCHANGED pagesVars
     \/ use.page = "cluster" /\ PagesSteps /\ UNCHANGED queuesVars
  /\ UNCHANGED use
MCSpec == MCInit /\ [][MCNext]_<<use, queuesVars, pagesVars>>
=============================================================================
