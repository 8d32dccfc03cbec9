--------------------------- MODULE MCStoragePage ---------------------------
(* Instances of StoragePage with small quotas.  The storages of a behaviour *)
(* are of two of the four types, and its versions are those that make a     *)
(* difference to these; a position of the page holds few errors at a time.  *)
EXTENDS StoragePage, TLC

CONSTANTS old, new, bad, MaxErrors

Both == "Ebs" :> 1 @@ "Efs" :> 1 @@ "FsxLustre" :> 1 @@ "FsxOntap" :> 1
Creatable == [Both EXCEPT !["FsxOntap"] = 0]
Total == "Ebs" :> 1 @@ "Efs" :> 2 @@ "FsxLustre" :> 2 @@ "FsxOntap" :> 1
Flags == old :> {} @@ new :> {"fsx_ontap", "lustre_persistent2", "dynamic_fs_mount"}

Existing(t, n) == [type |-> t, name |-> n, settings |-> Identified]
Volume(n) == [type |-> "Ebs", name |-> n,
              settings |-> [NoSettings EXCEPT !.amount = "ok", !.snapshot = TRUE]]
\* Sections of existing clusters; the second one's name is the one the page
\* would make for a second volume.
Sections == {<<>>, <<Existing("Efs", <<"Efs", 1>>)>>,
             <<Existing("Efs", <<"Efs", 0>>), Volume(<<"Ebs", 1>>)>>}
Bad == {bad}

Uses == {[types |-> {"Ebs", "Efs"}, versions |-> {old}],
         [types |-> {"FsxLustre", "FsxOntap"}, versions |-> {old, new}]}

VARIABLE use  \* the types and versions of the behaviour

MCInit == Init /\ use \in Uses
MCNext ==
  /\ Next
  /\ \A i \in DOMAIN storages' : storages'[i].type \in use.types
  /\ version' \in use.versions \cup {None}
  /\ \A i \in Positions : Cardinality(errors'[i]) <= MaxErrors
  /\ UNCHANGED use
MCSpec == MCInit /\ [][MCNext]_<<vars, use>>
=============================================================================
