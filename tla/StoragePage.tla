----------------------------- MODULE StoragePage -----------------------------
(***************************************************************************)
(* The storage page of the cluster wizard                                  *)
(* (frontend/src/old-pages/Configure/Storage.tsx and Storage/).  The       *)
(* storages of the draft are one array of the store, SharedStorage; the    *)
(* answer to "use an existing one?" is kept for each of them in another,   *)
(* app.wizard.storage.ui, and the validation errors in a third place, all  *)
(* three by position.  Storages are added in batches, removed, switched    *)
(* between managed and existing and edited; drafts are abandoned and       *)
(* loaded meanwhile, and these do not treat the three places alike.        *)
(*                                                                         *)
(* Of a storage's settings a record keeps what the controls depend on: id  *)
(* says whether an existing one was chosen; mode is the EFS throughput     *)
(* mode or the Lustre deployment type; amount is the EBS size, the EFS     *)
(* throughput or the Lustre throughput per unit ("p1" and "p2" for one     *)
(* PERSISTENT_1 or PERSISTENT_2 offers); snapshot, whether an EBS          *)
(* SnapshotId is set.  A generated name is the type and the index it was   *)
(* made from.  Positions are counted from 1, the code's indices from 0.    *)
(*                                                                         *)
(* A definition named Bug... is a plausible mistake in the definition that *)
(* follows it; no behaviour of Spec uses it.                               *)
(***************************************************************************)
EXTENDS Naturals, SequencesExt

CONSTANTS Types,       \* the storage types of STORAGE_TYPE_PROPS
          MaxToCreate, MaxExistingToAttach, StorageMaxes,  \* by type
          Versions, FeaturesOf,  \* the versions and their feature flags
          Templates,   \* the SharedStorage sections that may be loaded
          TypedNames, BadNames,  \* names a user types; those not valid
          MaxStorages, MaxUi, MaxBatch,  \* bounds on storages, ui and one batch
          None

ManagedForms == {"Ebs", "Efs", "FsxLustre"}
NoSettings == [id |-> FALSE, mode |-> None, amount |-> None, snapshot |-> FALSE]
Identified == [NoSettings EXCEPT !.id = TRUE]
Modes == {"bursting", "provisioned", "SCRATCH_2", "PERSISTENT_1", "PERSISTENT_2"}
Amounts == {"ok", "bad", "p1", "p2"}
Settings == [id : BOOLEAN, snapshot : BOOLEAN,
             mode : Modes \cup {None}, amount : Amounts \cup {None}]
\* The settings g are settings of a storage of type t.
Fits(t, g) ==
  \/ g \in {NoSettings, Identified}
  \/ /\ t = "Ebs" /\ ~g.id
     /\ g.mode = None /\ g.amount \in {None, "ok", "bad"}
  \/ /\ t = "Efs" /\ ~g.id /\ ~g.snapshot
     /\ IF g.mode = "provisioned" THEN g.amount \in {"ok", "bad"}
        ELSE g.mode \in {None, "bursting"} /\ g.amount = None
  \/ /\ t = "FsxLustre" /\ ~g.id /\ ~g.snapshot
     /\ g.mode \in {None, "SCRATCH_2", "PERSISTENT_1", "PERSISTENT_2"}
     /\ g.amount \in {None, "p1", "p2"}

Name == (Types \X Nat) \cup TypedNames
Storage == {x \in [type : Types, name : Name, settings : Settings] :
              Fits(x.type, x.settings)}
Field == ({"id", "amount"} \X Types) \cup {<<"name", None>>}

ASSUME StorageAssumption ==
  /\ MaxToCreate \in [Types -> Nat]
  /\ MaxExistingToAttach \in [Types -> Nat]
  /\ StorageMaxes \in [Types -> Nat]
  /\ \A t \in Types : t \in ManagedForms <=> MaxToCreate[t] > 0
  /\ \A t \in Types \cap ManagedForms :
       StorageMaxes[t] <= MaxToCreate[t] + MaxExistingToAttach[t]
  /\ FeaturesOf \in [Versions -> SUBSET {"fsx_ontap", "lustre_persistent2", "dynamic_fs_mount"}]
  /\ \A s \in Templates :
       s \in Seq(Storage) /\ Len(s) <= MaxStorages /\ Len(s) <= MaxUi
  /\ BadNames \subseteq TypedNames
  /\ MaxStorages \in Nat /\ MaxUi \in Nat /\ MaxBatch \in Nat
  /\ None \notin Versions \cup Modes \cup Amounts

VARIABLES version, editing,  \* of the draft
          shown,             \* whether the storage page is mounted
          storages, ui, errors, validated,
          visible,  \* local state of the mounted EBS forms: snapshotVisible
          aligned,  \* history: ui was empty or loaded when the draft began
          named,    \* history: names were typed or loaded since all were made
          shifted   \* history: a removal moved storages between mounted forms

vars == <<version, editing, shown, storages, ui, errors, validated, visible,
          aligned, named, shifted>>

Positions == 1..MaxStorages
NoErrors == [i \in Positions |-> {}]
Hidden == [i \in Positions |-> FALSE]
Features(v) == IF v = None THEN {} ELSE FeaturesOf[v]

-----------------------------------------------------------------------------
(* What the page computes from the two arrays.                             *)

UseExisting(s, u, i) == u[i] \/ MaxToCreate[s[i].type] = 0
\* The storages of type t that ui says exist already, or not.
OfType(s, u, t, existing) ==
  {i \in DOMAIN s : s[i].type = t /\ u[i] = existing}
CountOf(s, u, t, existing) == Cardinality(OfType(s, u, t, existing))

BugCanCreateStorage(t, s, u) == CountOf(s, u, t, FALSE) <= MaxToCreate[t]
CanCreateStorage(t, s, u) == CountOf(s, u, t, FALSE) < MaxToCreate[t]
CanAttachExistingStorage(t, s, u) ==
  CountOf(s, u, t, TRUE) < MaxExistingToAttach[t]

CanToggle(i) ==
  LET t == storages[i].type
  IN  /\ MaxToCreate[t] > 0
      /\ IF UseExisting(storages, ui, i)
           THEN CanCreateStorage(t, storages, ui)
           ELSE CanAttachExistingStorage(t, storages, ui)

\* useDynamicStorage
CanEditFilesystems == ~editing \/ "dynamic_fs_mount" \in Features(version)

\* defaultCounts: the count of a type that is not here is NaN, which is not
\* at least any maximum.
DefaultCounts == {"FsxLustre", "Efs", "Ebs"}
Supported == {t \in Types : t # "FsxOntap" \/ "fsx_ontap" \in Features(version)}
Offered == {t \in Supported :
              t \in DefaultCounts =>
                Cardinality({i \in DOMAIN storages : storages[i].type = t}) < StorageMaxes[t]}

\* A storage of each selected type: managed, or existing when its type has
\* its managed ones already.
BuildStorageEntries(s, u, sel) ==
  [new |-> [k \in DOMAIN sel |->
              [type |-> sel[k], name |-> <<sel[k], Len(s) + k - 1>>,
               settings |-> NoSettings]],
   ui |-> [k \in DOMAIN sel |-> ~CanCreateStorage(sel[k], s, u)]]

Renamed(s) == [i \in DOMAIN s |-> [s[i] EXCEPT !.name = <<s[i].type, i - 1>>]]

MapStorageToUiSettings(s) == [i \in DOMAIN s |-> s[i].settings.id]

-----------------------------------------------------------------------------
(* The forms of the managed storages fill in defaults when they render.    *)

DefaultThroughput(m) == CASE m = "PERSISTENT_1" -> "p1"
                          [] m = "PERSISTENT_2" -> "p2"
                          [] OTHER -> None
DefaultLustreType ==
  IF "lustre_persistent2" \in Features(version) THEN "PERSISTENT_2" ELSE "PERSISTENT_1"

FilledEbs(g) == IF g.amount = None THEN [g EXCEPT !.amount = "ok"] ELSE g
FilledEfs(g) == IF g.mode = None THEN [g EXCEPT !.mode = "bursting"] ELSE g
FilledLustre(g) ==
  LET m == IF g.mode = None THEN DefaultLustreType ELSE g.mode
  IN  [g EXCEPT !.mode = m,
                !.amount = IF @ = None THEN DefaultThroughput(m) ELSE @]
Filled(x) == [x EXCEPT !.settings = CASE x.type = "Ebs" -> FilledEbs(@)
                                      [] x.type = "Efs" -> FilledEfs(@)
                                      [] x.type = "FsxLustre" -> FilledLustre(@)
                                      [] OTHER -> @]

HasForm(s, u, i) == i \in DOMAIN s /\ ~UseExisting(s, u, i)
HasEbsForm(s, u, i) == HasForm(s, u, i) /\ s[i].type = "Ebs"

\* The page renders s and u: the effects of the forms run until they settle.
\* A form that stays at its position keeps its local state, whatever storage
\* it shows now; vis is that state.
Renders(s, u, vis) ==
  /\ shown' = TRUE
  /\ storages' = [i \in DOMAIN s |-> IF HasForm(s, u, i) THEN Filled(s[i]) ELSE s[i]]
  /\ ui' = u
  /\ visible' = [i \in Positions |->
                   /\ HasEbsForm(s, u, i)
                   /\ IF shown /\ HasEbsForm(storages, ui, i)
                        THEN vis[i] ELSE s[i].settings.snapshot]

\* The page shows s, without any of its forms having moved.
Sets(s) == Renders(s, ui, visible)
SetSettings(i, g) == Sets([storages EXCEPT ![i].settings = g])
Unmounted == shown' = FALSE /\ visible' = Hidden

-----------------------------------------------------------------------------
(* Validation.                                                             *)

Checked(s, u, i) ==
  {<<"name", None>>}
  \cup (IF UseExisting(s, u, i) THEN {<<"id", s[i].type>>}
        ELSE IF s[i].type \in {"Ebs", "Efs"} THEN {<<"amount", s[i].type>>} ELSE {})

\* validateExternalFileSystem, validateEbs, validateEfs, validateStorageName
Wrong(x, f) == CASE f[1] = "id" -> ~x.settings.id
                 [] f[1] = "amount" /\ f[2] = "Ebs" -> x.settings.amount # "ok"
                 [] f[1] = "amount" /\ f[2] = "Efs" ->
                      x.settings.mode = "provisioned" /\ x.settings.amount # "ok"
                 [] f[1] = "name" -> x.name \in BadNames
                 [] OTHER -> FALSE
Invalid(s, u, i) == {f \in Checked(s, u, i) : Wrong(s[i], f)}

BugStorageErrors(s, u) ==
  [i \in Positions |-> IF i \in DOMAIN s THEN errors[i] \cup Invalid(s, u, i)
                       ELSE errors[i]]
\* storageValidate replaces the errors it looked for and keeps the others.
StorageErrors(s, u) ==
  [i \in Positions |->
     IF i \in DOMAIN s THEN (errors[i] \ Checked(s, u, i)) \cup Invalid(s, u, i)
     ELSE errors[i]]
StorageValid(s, u) == \A i \in DOMAIN s : Invalid(s, u, i) = {}

-----------------------------------------------------------------------------
(* The page's own operations.                                              *)

Show ==
  /\ ~shown
  /\ Renders(storages, ui, visible)
  /\ shifted' = FALSE
  /\ UNCHANGED <<version, editing, errors, validated, aligned, named>>

Batches == {sel \in UNION {[1..n -> Offered] : n \in 1..MaxBatch} : IsInjective(sel)}

OnAddStorageSubmit(sel) ==
  LET entries == BuildStorageEntries(storages, ui, sel)
  IN  /\ shown /\ CanEditFilesystems
      /\ Len(storages) + Len(sel) <= MaxStorages /\ Len(ui) + Len(sel) <= MaxUi
      /\ Renders(storages \o entries.new, ui \o entries.ui, visible)
      /\ UNCHANGED <<version, editing, errors, validated, aligned, named, shifted>>

RemoveStorage(i) ==
  LET last == Len(storages) = 1
      s == IF last THEN <<>> ELSE Renamed(RemoveAt(storages, i))
      u == IF last THEN <<>> ELSE RemoveAt(ui, i)
  IN  /\ shown /\ CanEditFilesystems
      /\ Renders(s, u, visible)
      /\ aligned' = (aligned \/ last)
      /\ named' = FALSE
      /\ shifted' = (shifted \/ i < Len(storages))
      /\ UNCHANGED <<version, editing, errors, validated>>

BugToggleUseExisting(i) ==
  /\ shown /\ CanToggle(i)
  /\ Renders(storages, [ui EXCEPT ![i] = ~UseExisting(storages, ui, i)], visible)
  /\ UNCHANGED <<version, editing, errors, validated, aligned, named, shifted>>
ToggleUseExisting(i) ==
  /\ shown /\ CanToggle(i)
  /\ Renders([storages EXCEPT ![i].settings = NoSettings],
             [ui EXCEPT ![i] = ~UseExisting(storages, ui, i)], visible)
  /\ UNCHANGED <<version, editing, errors, validated, aligned, named, shifted>>

UpdateStorageName(i, n) ==
  /\ shown
  /\ Sets([storages EXCEPT ![i].name = n])
  /\ named' = TRUE
  /\ UNCHANGED <<version, editing, errors, validated, aligned, shifted>>

\* Only the text field of an EBS volume can be emptied again.
ChooseExisting(i, given) ==
  /\ shown /\ UseExisting(storages, ui, i)
  /\ given \/ storages[i].type = "Ebs"
  /\ SetSettings(i, [storages[i].settings EXCEPT !.id = given])
  /\ UNCHANGED <<version, editing, errors, validated, aligned, named, shifted>>

\* The size is validated at once after the first validation of the page.
SetVolumeSize(i, a) ==
  LET s == [storages EXCEPT ![i].settings.amount = a]
  IN  /\ shown /\ HasEbsForm(storages, ui, i)
      /\ Sets(s)
      /\ errors' = IF validated THEN StorageErrors(s, ui) ELSE errors
      /\ UNCHANGED <<version, editing, validated, aligned, named, shifted>>

BugUnsnapshot(g) == g
Unsnapshot(g) == [g EXCEPT !.snapshot = FALSE]
ToggleSnapshotVisibility(i) ==
  /\ shown /\ HasEbsForm(storages, ui, i)
  /\ Renders([storages EXCEPT ![i].settings = Unsnapshot(@)], ui,
             [visible EXCEPT ![i] = ~@])
  /\ UNCHANGED <<version, editing, errors, validated, aligned, named, shifted>>

SetSnapshotId(i) ==
  /\ shown /\ HasEbsForm(storages, ui, i) /\ visible[i]
  /\ SetSettings(i, [storages[i].settings EXCEPT !.snapshot = TRUE])
  /\ UNCHANGED <<version, editing, errors, validated, aligned, named, shifted>>

BugToggledThroughput(g) ==
  IF g.mode = "bursting" THEN [g EXCEPT !.mode = "provisioned", !.amount = "ok"]
  ELSE [g EXCEPT !.mode = "bursting"]
ToggledThroughput(g) ==
  IF g.mode = "bursting" THEN [g EXCEPT !.mode = "provisioned", !.amount = "ok"]
  ELSE [g EXCEPT !.mode = "bursting", !.amount = None]
ToggleThroughputMode(i) ==
  /\ shown /\ HasForm(storages, ui, i) /\ storages[i].type = "Efs"
  /\ SetSettings(i, ToggledThroughput(storages[i].settings))
  /\ UNCHANGED <<version, editing, errors, validated, aligned, named, shifted>>

\* Clearing the field makes the throughput NaN.
SetProvisionedThroughput(i, a) ==
  /\ shown /\ HasForm(storages, ui, i) /\ storages[i].type = "Efs"
  /\ storages[i].settings.mode = "provisioned"
  /\ SetSettings(i, [storages[i].settings EXCEPT !.amount = a])
  /\ UNCHANGED <<version, editing, errors, validated, aligned, named, shifted>>

\* SCRATCH_1 is treated as SCRATCH_2 is.
LustreTypes == {"PERSISTENT_1", "SCRATCH_2"}
  \cup (IF "lustre_persistent2" \in Features(version) THEN {"PERSISTENT_2"} ELSE {})
WithLustreType(g, m) == [g EXCEPT !.mode = m, !.amount = DefaultThroughput(m)]
SelectLustreType(i, m) ==
  /\ shown /\ HasForm(storages, ui, i) /\ storages[i].type = "FsxLustre"
  /\ SetSettings(i, WithLustreType(storages[i].settings, m))
  /\ UNCHANGED <<version, editing, errors, validated, aligned, named, shifted>>

-----------------------------------------------------------------------------
(* The wizard around the page.                                             *)

HandleNext ==
  /\ shown
  /\ errors' = StorageErrors(storages, ui)
  /\ validated' = TRUE
  /\ IF StorageValid(storages, ui) THEN Unmounted ELSE UNCHANGED <<shown, visible>>
  /\ UNCHANGED <<version, editing, storages, ui, aligned, named, shifted>>

HandlePrev ==
  /\ shown
  /\ errors' = NoErrors /\ validated' = FALSE
  /\ Unmounted
  /\ UNCHANGED <<version, editing, storages, ui, aligned, named, shifted>>

\* A step back in the list of steps, or the browser's back button.
StepBack ==
  /\ shown
  /\ Unmounted
  /\ UNCHANGED <<version, editing, storages, ui, errors, validated, aligned, named, shifted>>

\* clearWizardState clears the configuration and the errors, not ui.
Cancel ==
  /\ storages' = <<>> /\ version' = None
  /\ errors' = NoErrors /\ validated' = FALSE
  /\ Unmounted
  /\ aligned' = (ui = <<>>) /\ named' = FALSE
  /\ UNCHANGED <<editing, ui, shifted>>

\* wizardShow clears the configuration of a draft that was an edit, not ui.
WizardShow ==
  /\ ~shown /\ editing
  /\ storages' = <<>> /\ editing' = FALSE
  /\ aligned' = (ui = <<>>) /\ named' = FALSE
  /\ UNCHANGED <<version, shown, ui, errors, validated, visible, shifted>>

VersionSelected(v) ==
  /\ ~shown /\ ~editing
  /\ version' = v
  /\ UNCHANGED <<editing, shown, storages, ui, errors, validated, visible,
                 aligned, named, shifted>>

\* RegionSelect keeps of the draft only its page, name, source and errors.
SelectRegion ==
  /\ ~shown
  /\ version' = None /\ editing' = FALSE
  /\ storages' = <<>> /\ ui' = <<>>
  /\ aligned' = TRUE /\ named' = FALSE
  /\ UNCHANGED <<shown, errors, validated, visible, shifted>>

EditConfiguration(v) ==
  /\ ~shown
  /\ editing' = TRUE /\ version' = v
  /\ UNCHANGED <<shown, storages, ui, errors, validated, visible, aligned,
                 named, shifted>>

\* A template arrives, of a file (the version stays) or of a cluster, and the
\* wizard goes to its first page.
LoadTemplate(s, v) ==
  /\ storages' = s /\ ui' = MapStorageToUiSettings(s)
  /\ version' = v
  /\ Unmounted
  /\ aligned' = TRUE /\ named' = TRUE
  /\ UNCHANGED <<editing, errors, validated, shifted>>

-----------------------------------------------------------------------------
Init ==
  /\ version = None /\ editing = FALSE /\ shown = FALSE
  /\ storages = <<>> /\ ui = <<>>
  /\ errors = NoErrors /\ validated = FALSE
  /\ visible = Hidden
  /\ aligned = TRUE /\ named = FALSE /\ shifted = FALSE

EditOf(i) ==
  \/ RemoveStorage(i)
  \/ ToggleUseExisting(i)
  \/ \E n \in TypedNames : UpdateStorageName(i, n)
  \/ \E given \in BOOLEAN : ChooseExisting(i, given)
  \/ \E a \in {"ok", "bad"} : SetVolumeSize(i, a) \/ SetProvisionedThroughput(i, a)
  \/ ToggleSnapshotVisibility(i)
  \/ SetSnapshotId(i)
  \/ ToggleThroughputMode(i)
  \/ \E m \in LustreTypes : SelectLustreType(i, m)

Next ==
  \/ Show \/ HandleNext \/ HandlePrev \/ StepBack \/ Cancel
  \/ WizardShow \/ SelectRegion
  \/ \E v \in Versions : VersionSelected(v) \/ EditConfiguration(v)
  \/ \E s \in Templates, v \in Versions \cup {version} : LoadTemplate(s, v)
  \/ \E sel \in Batches : OnAddStorageSubmit(sel)
  \/ \E i \in DOMAIN storages : EditOf(i)

Spec == Init /\ [][Next]_vars

-----------------------------------------------------------------------------
\* The state is well-formed; in particular the settings of a storage are
\* settings of its type that go together (an EFS file system has a throughput
\* if and only if it is provisioned), whatever was toggled before.
TypeOK ==
  /\ version \in Versions \cup {None}
  /\ editing \in BOOLEAN /\ shown \in BOOLEAN /\ validated \in BOOLEAN
  /\ storages \in Seq(Storage) /\ Len(storages) <= MaxStorages
  /\ ui \in Seq(BOOLEAN) /\ Len(ui) <= MaxUi
  /\ errors \in [Positions -> SUBSET Field]
  /\ visible \in [Positions -> BOOLEAN]
  /\ aligned \in BOOLEAN /\ named \in BOOLEAN /\ shifted \in BOOLEAN

\* Every storage has an entry in ui (canCreateStorage and its sibling
\* dereference it), although the two arrays are cleared at different times;
\* in a draft that began with them in step they have the same length.
UiCoversStorages ==
  /\ Len(storages) <= Len(ui)
  /\ aligned => Len(storages) = Len(ui)

\* In such a draft the storages of a type never exceed what ParallelCluster
\* lets a cluster create and attach, however they were added in batches,
\* removed and switched.  A type the counts leave out can be attached without
\* a limit.
WithinQuotas ==
  aligned =>
    \A t \in Types :
      /\ t \in ManagedForms => CountOf(storages, ui, t, FALSE) <= MaxToCreate[t]
      /\ t \in DefaultCounts => CountOf(storages, ui, t, TRUE) <= MaxExistingToAttach[t]

MatchesKind(s, u, i) ==
  IF UseExisting(s, u, i) THEN s[i].settings \in {NoSettings, Identified}
  ELSE ~s[i].settings.id
\* A storage that exists already carries no settings for a new one, and a
\* managed one no identifier: even where ui lags behind, adding, removing and
\* switching never mix the settings of two kinds, or of two storages.
SettingsMatchKind ==
  \A i \in DOMAIN storages : MatchesKind(storages, ui, i)

AllDistinct(s) == \A i, j \in DOMAIN s : i # j => s[i].name # s[j].name
\* Names that the page made are distinct, whatever was added and removed.
MadeNamesDistinct == ~named => AllDistinct(storages)

\* A snapshot that will be submitted is shown on its volume's form, unless a
\* removal gave the volume a form that stood for another one.
SnapshotShown ==
  shown /\ ~shifted =>
    \A i \in DOMAIN storages :
      HasEbsForm(storages, ui, i) /\ storages[i].settings.snapshot => visible[i]

\* A managed Lustre file system on the page has a throughput of its own
\* deployment type, and none if that type has none.
LustreThroughputFits ==
  shown =>
    \A i \in DOMAIN storages :
      HasForm(storages, ui, i) /\ storages[i].type = "FsxLustre" =>
        storages[i].settings.amount = DefaultThroughput(storages[i].settings.mode)

\* SharedStorage, storage.ui and the names the page makes stay in step, though each
\* is cleared, shifted and filled at another time.
StoragesInStep == UiCoversStorages /\ SettingsMatchKind /\ MadeNamesDistinct

\* The forms show what they will submit: effects and local state kept by index
\* leave no snapshot hidden and no throughput of another deployment type.
FormsFit == SnapshotShown /\ LustreThroughputFits

\* The errors a form shows at position i: others may be kept out of sight.
ShownErrors(i) == errors[i] \cap Checked(storages, ui, i)
ErrorsShownAreTrue ==
  \A i \in DOMAIN storages : ShownErrors(i) = Invalid(storages, ui, i)
\* After every attempt to go on, the errors on the forms are those of the
\* storages they show now, though errors stay at their position when storages
\* are removed or switched; and the page is left if and only if there are none.
ValidationIsCurrent ==
  [][HandleNext => /\ ErrorsShownAreTrue'
                   /\ shown' = (\E i \in DOMAIN storages : ShownErrors(i)' # {})]_vars

\* What a test says of the names the page makes
\* (Storage/__tests__/buildStorageEntries.test.ts): that they are unique.
NamesAreUnique ==
  [][\A sel \in Batches :
       OnAddStorageSubmit(sel) /\ AllDistinct(storages) => AllDistinct(storages')]_vars
=============================================================================
