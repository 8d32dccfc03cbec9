------------------------ MODULE WizardSession_proofs ------------------------
(***************************************************************************)
(* Theorems about WizardSession, for any clusters, templates, pages and     *)
(* numbers of loads and submissions under way at once.                      *)
(*                                                                         *)
(* The draft is a record that every handler rewrites in part, so the proofs *)
(* come in two layers: what each handler's function makes of each field of   *)
(* a draft, and, from that alone, what each action does to the invariant.    *)
(***************************************************************************)
EXTENDS WizardSession, TLAPS

-----------------------------------------------------------------------------
(* The handlers' functions, field by field.                                *)

LEMMA Pages == Version = 1 /\ Cluster = 2 /\ Create \in Nat /\ Create >= 3 /\ Create = LastPage
  BY WizardAssumption DEF Version, Cluster, Create

LEMMA ConfigOfFields ==
  ASSUME NEW s \in Clusters \cup Templates
  PROVE  ConfigOf(s) \in Config /\ ConfigOf(s).region # None /\ ConfigOf(s).src = s
  BY WizardAssumption DEF ConfigOf, Config

LEMMA NoDraftFields ==
  /\ NoDraft \in Draft /\ NoConfig \in Config /\ NoConfig.src = None
  /\ NoDraft.version = None /\ ~NoDraft.editing /\ NoDraft.page = 1 /\ ~NoDraft.loading /\ ~NoDraft.submitting
  BY WizardAssumption DEF NoDraft, Draft, NoConfig, Config, MaybeName, Version

\* What a mounted page leaves alone: all but the version of a draft that is not an
\* edit, and a configuration that is not there yet.
MountKeeps(d, m) ==
  /\ m \in Draft
  /\ m.name = d.name /\ m.editing = d.editing /\ m.yaml = d.yaml /\ m.page = d.page
  /\ m.loading = d.loading /\ m.submitting = d.submitting /\ m.force = d.force
  /\ d.editing => m.version = d.version
  /\ m.config = d.config \/ (d.config = NoConfig /\ d.page = 2 /\ m.config.region # None)

LEMMA VersionMountedFields ==
  ASSUME NEW d \in Draft
  PROVE  MountKeeps(d, VersionMounted(d)) /\ VersionMounted(d).config = d.config
  BY DEF VersionMounted, Draft, MountKeeps

LEMMA MountedFields ==
  ASSUME NEW d \in Draft, selectedRegion \in Regions
  PROVE  MountKeeps(d, Mounted(d))
  <1>1. CASE d.page = Version
    BY <1>1, VersionMountedFields, Pages DEF Mounted
  <1>2. CASE d.page = Cluster
    <2>1. selectedRegion # None
      BY WizardAssumption
    <2> DEFINE c == IF d.config # NoConfig THEN d.config
                    ELSE [src |-> "default", touched |-> FALSE, region |-> selectedRegion]
               m == [d EXCEPT !.loaded = TRUE, !.config = c]
    <2>2. c \in Config /\ (c = d.config \/ (d.config = NoConfig /\ c.region # None))
      BY <2>1 DEF Draft, Config
    <2>3. Mounted(d) \in {d, m}
      BY <1>2, Pages DEF Mounted, ClusterMounted
    <2> HIDE DEF c
    <2>4. MountKeeps(d, d)
      BY DEF MountKeeps
    <2>5. MountKeeps(d, m)
      BY <1>2, <2>2, Pages DEF MountKeeps, Draft
    <2> QED BY <2>3, <2>4, <2>5
  <1>3. CASE d.page \notin {Version, Cluster}
    BY <1>3 DEF Mounted, MountKeeps
  <1> QED BY <1>1, <1>2, <1>3

LEMMA SetPageFields ==
  ASSUME NEW d \in Draft, NEW p \in 1..LastPage
  PROVE  LET m == SetPage(d, p) IN
         /\ m \in Draft /\ m.page = p /\ m.yaml = IF p = Create THEN d.config ELSE d.yaml
         /\ m.name = d.name /\ m.editing = d.editing /\ m.version = d.version
         /\ m.config = d.config
         /\ m.loading = d.loading /\ m.submitting = d.submitting /\ m.force = d.force
  BY DEF SetPage, Draft

\* wizardShow and what it mounts: never an edit, and past the first pages only the
\* draft that was there.
LEMMA WizardShowFields ==
  ASSUME NEW d \in Draft, selectedRegion \in Regions
  PROVE  LET s == WizardShow(d)
             m == Mounted(s) IN
         /\ m \in Draft /\ ~m.editing /\ m.loading = d.loading
         /\ m.submitting = d.submitting /\ s.page = m.page
         /\ m.page >= 3 => m.page = d.page /\ m.config = d.config /\ m.yaml = d.yaml
  <1> DEFINE s == WizardShow(d)
  <1>1. CASE d.editing
    <2>1. /\ s \in Draft /\ ~s.editing /\ s.loading = d.loading
          /\ s.submitting = d.submitting /\ s.page = 1
      BY <1>1, NoDraftFields, Pages DEF WizardShow, Draft
    <2> HIDE DEF s
    <2>2. MountKeeps(s, Mounted(s))
      BY <2>1, MountedFields
    <2> QED BY <2>1, <2>2 DEF MountKeeps, s
  <1>2. CASE ~d.editing
    <2>1. s = d
      BY <1>2 DEF WizardShow
    <2>2. MountKeeps(d, Mounted(d))
      BY MountedFields
    <2> QED BY <1>2, <2>1, <2>2 DEF MountKeeps
  <1> QED BY <1>1, <1>2

LEMMA ClearFields ==
  ASSUME NEW d \in Draft
  PROVE  LET m == ClearWizardState(d) IN
         /\ m \in Draft /\ m.page = 1 /\ m.version = None /\ ~m.loading
         /\ m.submitting = d.submitting /\ m.editing = d.editing
  <1>1. d.editing \in BOOLEAN /\ d.submitting \in BOOLEAN /\ d.force \in BOOLEAN
    BY DEF Draft
  <1>2. ClearWizardState(d) \in Draft
    BY <1>1, NoDraftFields DEF ClearWizardState, Draft
  <1>3. LET m == ClearWizardState(d) IN
        /\ m.page = 1 /\ m.version = None /\ ~m.loading
        /\ m.submitting = d.submitting /\ m.editing = d.editing
    BY <1>1, NoDraftFields DEF ClearWizardState, Draft
  <1> QED BY <1>2, <1>3

LEMMA LoadTemplateFields ==
  ASSUME NEW d \in Draft, NEW c \in Config
  PROVE  LET m == LoadTemplateLazy(d, c) IN
         /\ m \in Draft /\ m.page = 1 /\ ~m.loading /\ m.config = c
         /\ m.name = d.name /\ m.editing = d.editing /\ m.version = d.version
         /\ m.submitting = d.submitting
  <1>1. Version \in 1..LastPage /\ Version = 1
    BY Pages
  <1>2. LoadTemplateLazy(d, c) \in Draft
    BY <1>1 DEF LoadTemplateLazy, Draft
  <1>3. LET m == LoadTemplateLazy(d, c) IN
        /\ m.page = 1 /\ ~m.loading /\ m.config = c
        /\ m.name = d.name /\ m.editing = d.editing /\ m.version = d.version
        /\ m.submitting = d.submitting
    BY <1>1 DEF LoadTemplateLazy, Draft
  <1> QED BY <1>2, <1>3

LEMMA LandedFields ==
  ASSUME NEW d \in Draft
  PROVE  MountKeeps(d, Landed(d)) /\ Landed(d).config = d.config
  BY VersionMountedFields DEF Landed, MountKeeps

LEMMA BeginEditFields ==
  ASSUME w \in Draft, NEW c \in Clusters
  PROVE  LET d == BeginEdit(c) IN
         /\ d \in Draft /\ d.name = c /\ d.editing /\ d.version = VersionOf[c] /\ d.page = 1
         /\ d.loading /\ d.submitting = w.submitting /\ d.config = w.config
  <1>1. /\ Version \in 1..LastPage /\ Version = 1 /\ VersionOf[c] \in Versions
        /\ c \in MaybeName
    BY Pages, WizardAssumption DEF MaybeName
  <1>2. BeginEdit(c) \in Draft
    BY <1>1 DEF BeginEdit, Draft
  <1>3. LET d == BeginEdit(c) IN
        /\ d.name = c /\ d.editing /\ d.version = VersionOf[c] /\ d.page = 1
        /\ d.loading /\ d.submitting = w.submitting /\ d.config = w.config
    BY <1>1 DEF BeginEdit, Draft
  <1> QED BY <1>2, <1>3

-----------------------------------------------------------------------------
(* The invariant.                                                          *)

\* The loads that were asked for the draft there is.
Live == {s \in LoadSlots : loads[s] # Idle /\ ~loads[s].stale}

\* The first two stages of a load are about a cluster.
LoadsOfClusters ==
  \A s \in LoadSlots : loads[s].stage \in {"describe", "config"} => loads[s].src \in Clusters

\* Past the cluster page, now or by the steps seen, a region was chosen.
RegionSet ==
  /\ w.page >= 3 \/ (view = "wizard" /\ seen >= 3) => w.config.region # None
  /\ \A s \in SubmitSlots : UnderWay(s) => subs[s].draft.region # None

\* submit.loading is set while a submission is under way, unless it was dropped.
Submitted ==
  /\ ~dropped => \A s \in SubmitSlots : UnderWay(s) => w.submitting
  /\ OneSubmission
  /\ w.submitting => (\E s \in SubmitSlots : UnderWay(s)) \/ "submitting" \in stuck

\* At most one load is the draft's own, and the wizard waits for it.
Awaited ==
  /\ LoadsOfClusters
  /\ \A s, u \in Live : s = u
  /\ Live # {} /\ ~mixed => w.loading
  /\ w.loading => Loading # {} \/ "loading" \in stuck

\* An edit past the version page has a version, so its dry run is one.
Edited ==
  /\ w.editing /\ (w.page >= 2 \/ (view = "wizard" /\ seen >= 2)) => w.version # None
  /\ DryRunNeverEdits

\* An edit into which no other answer landed is of the cluster it names, and so
\* is the load that will fill it; it leaves the version page when that has come.
OfOneCluster ==
  /\ w.editing /\ ~mixed /\ w.version # None =>
       /\ w.name \in Clusters /\ w.version = VersionOf[w.name]
       /\ w.loading \/ w.config.src = w.name
  /\ w.editing /\ ~mixed => \A s \in Live : loads[s].src = w.name
  /\ w.editing /\ ~mixed /\ w.page >= 2 => ~w.loading
  /\ UpdateIsOfOneCluster

WizardInv == /\ TypeOK /\ RegionSet /\ YamlIsCurrent /\ Submitted /\ Awaited /\ Edited
             /\ OfOneCluster

-----------------------------------------------------------------------------
(* The loads.                                                              *)

LoadTyped == loads \in [LoadSlots -> Load \cup {Idle}]

LEMMA IdleFields == Idle \notin Load /\ Idle.stage = "idle"
  BY DEF Idle, Load

LEMMA OutdateLoads ==
  ASSUME LoadTyped, LoadsOfClusters, Outdate
  PROVE  LoadTyped' /\ LoadsOfClusters' /\ Live' = {} /\ Loading' = Loading
  <1>1. ASSUME NEW s \in LoadSlots, loads[s] # Idle
        PROVE  /\ loads'[s] \in Load /\ loads'[s].stale /\ loads'[s] # Idle
               /\ loads'[s].stage = loads[s].stage /\ loads'[s].src = loads[s].src
    <2>1. loads[s] \in Load /\ loads'[s] = [loads[s] EXCEPT !.stale = TRUE]
      BY <1>1 DEF LoadTyped, Outdate
    <2>2. /\ loads'[s] \in Load /\ loads'[s].stale
          /\ loads'[s].stage = loads[s].stage /\ loads'[s].src = loads[s].src
      BY <2>1 DEF Load
    <2> QED BY <2>2, IdleFields
  <1>2. \A s \in LoadSlots : loads[s] = Idle => loads'[s] = Idle
    BY DEF Outdate
  <1>3. LoadTyped'
    BY <1>1, <1>2 DEF LoadTyped, Outdate
  <1>4. LoadsOfClusters'
    BY <1>1, <1>2, IdleFields DEF LoadsOfClusters
  <1> QED BY <1>1, <1>2, <1>3, <1>4 DEF Live, Loading

LEMMA StartLoad ==
  ASSUME LoadTyped, LoadsOfClusters, NEW l \in Load, ~l.stale,
         l.stage = "aws" \/ l.src \in Clusters, OutdateAndStart(l)
  PROVE  /\ LoadTyped' /\ LoadsOfClusters' /\ Loading' # {}
         /\ \A u \in Live' : loads'[u].src = l.src
         /\ \A u, v \in Live' : u = v
  <1>1. PICK s \in LoadSlots :
          loads' = [u \in LoadSlots |-> IF u = s THEN l ELSE IF loads[u] = Idle THEN Idle
                                        ELSE [loads[u] EXCEPT !.stale = TRUE]]
    BY DEF OutdateAndStart
  <1>2. loads'[s] = l /\ l # Idle
    BY <1>1, IdleFields
  <1>3. ASSUME NEW u \in LoadSlots, u # s, loads[u] # Idle
        PROVE  /\ loads'[u] \in Load /\ loads'[u].stale
               /\ loads'[u].stage = loads[u].stage /\ loads'[u].src = loads[u].src
    <2>1. loads[u] \in Load /\ loads'[u] = [loads[u] EXCEPT !.stale = TRUE]
      BY <1>1, <1>3 DEF LoadTyped
    <2> QED BY <2>1 DEF Load
  <1>4. \A u \in LoadSlots : u # s /\ loads[u] = Idle => loads'[u] = Idle
    BY <1>1
  <1>5. LoadTyped'
    BY <1>1, <1>2, <1>3, <1>4 DEF LoadTyped
  <1>6. LoadsOfClusters'
    BY <1>2, <1>3, <1>4, IdleFields DEF LoadsOfClusters
  <1>7. \A u \in Live' : u = s
    BY <1>3, <1>4 DEF Live
  <1>8. s \in Loading'
    BY <1>2 DEF Loading
  <1> QED BY <1>2, <1>5, <1>6, <1>7, <1>8

LEMMA AdvanceLoad ==
  ASSUME LoadTyped, LoadsOfClusters, NEW s \in LoadSlots, loads[s] # Idle,
         NEW stage \in {"config", "aws"}, NEW reg \in Regions,
         stage = "aws" \/ loads[s].src \in Clusters, Advance(s, stage, reg)
  PROVE  /\ LoadTyped' /\ LoadsOfClusters' /\ Live' = Live /\ Loading' = Loading
         /\ \A u \in LoadSlots : loads[u] # Idle => loads'[u].src = loads[u].src
  <1>1. loads[s] \in Load /\ loads'[s] = [loads[s] EXCEPT !.stage = stage, !.reg = reg]
    BY DEF Advance, LoadTyped
  <1>2. /\ loads'[s] \in Load /\ loads'[s].stage = stage /\ loads'[s].src = loads[s].src
        /\ loads'[s].stale = loads[s].stale
    BY <1>1 DEF Load
  <1>3. loads'[s] # Idle
    BY <1>2, IdleFields
  <1>4. \A u \in LoadSlots : u # s => loads'[u] = loads[u]
    BY DEF Advance, LoadTyped
  <1>5. LoadTyped'
    BY <1>2, <1>4 DEF LoadTyped, Advance
  <1>6. LoadsOfClusters'
    BY <1>2, <1>4 DEF LoadsOfClusters
  <1> QED BY <1>2, <1>3, <1>4, <1>5, <1>6 DEF Live, Loading

LEMMA EndLoad ==
  ASSUME LoadTyped, LoadsOfClusters, NEW s \in LoadSlots,
         loads' = [loads EXCEPT ![s] = Idle]
  PROVE  /\ LoadTyped' /\ LoadsOfClusters' /\ Live' = Live \ {s} /\ Loading' = Loading \ {s}
         /\ \A u \in Live' : loads'[u].src = loads[u].src
  <1>1. loads'[s] = Idle /\ \A u \in LoadSlots : u # s => loads'[u] = loads[u]
    BY DEF LoadTyped
  <1>2. LoadTyped'
    BY DEF LoadTyped
  <1>3. LoadsOfClusters'
    BY <1>1, IdleFields DEF LoadsOfClusters
  <1> QED BY <1>1, <1>2, <1>3 DEF Live, Loading

-----------------------------------------------------------------------------
(* The cluster list.                                                       *)

LEMMA InvTypes ==
  WizardInv => /\ w \in Draft /\ selectedRegion \in Regions /\ seen \in 1..LastPage
               /\ LoadTyped /\ LoadsOfClusters
  BY DEF WizardInv, TypeOK, LoadTyped, Awaited

LEMMA EditConfigurationStep ==
  ASSUME WizardInv, NEW c \in Clusters, EditConfiguration(c)
  PROVE  WizardInv'
  <1>1. /\ OutdateAndStart([stage |-> "describe", src |-> c, reg |-> selectedRegion,
                            stale |-> FALSE])
        /\ view' = "wizard" /\ w' = Mounted(BeginEdit(c)) /\ seen' = BeginEdit(c).page
        /\ mixed' = FALSE /\ UNCHANGED <<selectedRegion, subs, stuck, dropped>>
    BY DEF EditConfiguration, Enter
  <1>2. /\ w' \in Draft /\ w'.name = c /\ w'.editing /\ w'.version = VersionOf[c]
        /\ w'.page = 1 /\ w'.loading /\ w'.submitting = w.submitting /\ seen' = 1
    BY <1>1, InvTypes, BeginEditFields, MountedFields DEF MountKeeps
  <1>3. /\ LoadTyped' /\ LoadsOfClusters' /\ Loading' # {}
        /\ \A u \in Live' : loads'[u].src = c
        /\ \A u, v \in Live' : u = v
    <2> DEFINE l == [stage |-> "describe", src |-> c, reg |-> selectedRegion, stale |-> FALSE]
    <2>1. l \in Load /\ ~l.stale /\ l.src = c
      BY InvTypes DEF Load
    <2> HIDE DEF l
    <2>2. OutdateAndStart(l)
      BY <1>1 DEF l
    <2> QED BY InvTypes, <2>1, <2>2, StartLoad
  <1>4. TypeOK'
    <2>1. seen' \in 1..LastPage
      BY <1>1, <1>2, <1>3, Pages DEF WizardInv, TypeOK
    <2>2. /\ view' \in {"list", "wizard"} /\ mixed' \in BOOLEAN /\ selectedRegion' \in Regions
          /\ subs' \in [SubmitSlots -> Submission \cup {Idle}]
          /\ stuck' \subseteq {"loading", "submitting"} /\ dropped' \in BOOLEAN
      BY <1>1, <1>2, <1>3 DEF WizardInv, TypeOK
    <2>3. w' \in Draft /\ loads' \in [LoadSlots -> Load \cup {Idle}]
      BY <1>1, <1>2, <1>3 DEF LoadTyped, WizardInv, TypeOK
    <2> QED BY <2>1, <2>2, <2>3 DEF TypeOK
  <1>5. RegionSet' /\ YamlIsCurrent' /\ Edited' /\ OfOneCluster'
    BY <1>1, <1>2, <1>3, Pages
       DEF WizardInv, RegionSet, YamlIsCurrent, Edited, OfOneCluster, UnderWay,
           DryRunNeverEdits, UpdateIsOfOneCluster, TypeOK
  <1>6. Submitted' /\ Awaited'
    BY <1>1, <1>2, <1>3 DEF WizardInv, Submitted, Awaited, UnderWay, OneSubmission
  <1> QED BY <1>4, <1>5, <1>6 DEF WizardInv

LEMMA CreateByWizardStep ==
  ASSUME WizardInv, CreateByWizard
  PROVE  WizardInv'
  <1>1. /\ w' = Mounted(WizardShow(w)) /\ seen' = WizardShow(w).page /\ view' = "wizard"
        /\ UNCHANGED <<selectedRegion, loads, subs, mixed, stuck, dropped>>
    BY DEF CreateByWizard, Enter
  <1>2. /\ w' \in Draft /\ ~w'.editing /\ w'.submitting = w.submitting /\ seen' = w'.page
        /\ w'.loading = w.loading
        /\ w'.page >= 3 => w'.page = w.page /\ w'.config = w.config /\ w'.yaml = w.yaml
    BY <1>1, InvTypes, WizardShowFields
  <1>3. Live' = Live /\ Loading' = Loading /\ LoadsOfClusters' = LoadsOfClusters
    BY <1>1 DEF Live, Loading, LoadsOfClusters
  <1>4. w'.page \in 1..LastPage
    BY <1>2 DEF Draft
  <1>5. TypeOK'
    BY <1>1, <1>2, <1>3, <1>4, Pages DEF WizardInv, TypeOK, LoadTyped
  <1>6. RegionSet' /\ YamlIsCurrent' /\ Edited' /\ OfOneCluster'
    BY <1>1, <1>2, <1>3, <1>4, Pages
       DEF WizardInv, RegionSet, YamlIsCurrent, Edited, OfOneCluster, UnderWay,
           DryRunNeverEdits, UpdateIsOfOneCluster, TypeOK
  <1>7. Submitted' /\ Awaited'
    BY <1>1, <1>2, <1>3, <1>4 DEF WizardInv, Submitted, Awaited, UnderWay, OneSubmission
  <1> QED BY <1>5, <1>6, <1>7 DEF WizardInv

LEMMA CreateFromClusterStep ==
  ASSUME WizardInv, NEW c \in Clusters, CreateFromCluster(c)
  PROVE  WizardInv'
  <1> DEFINE d == [w EXCEPT !.loading = TRUE]
  <1>1. /\ w' = Mounted(WizardShow(d)) /\ seen' = WizardShow(d).page /\ view' = "wizard"
        /\ OutdateAndStart([stage |-> "describe", src |-> c, reg |-> selectedRegion,
                            stale |-> FALSE])
        /\ mixed' = FALSE /\ UNCHANGED <<selectedRegion, subs, stuck, dropped>>
    BY DEF CreateFromCluster, Enter
  <1>2. /\ d \in Draft /\ d.loading /\ d.submitting = w.submitting /\ d.page = w.page
        /\ d.config = w.config /\ d.yaml = w.yaml
    BY InvTypes DEF Draft
  <1> HIDE DEF d
  <1>3. /\ w' \in Draft /\ ~w'.editing /\ w'.submitting = w.submitting /\ seen' = w'.page
        /\ w'.loading
        /\ w'.page >= 3 => w'.page = w.page /\ w'.config = w.config
    BY <1>1, <1>2, InvTypes, WizardShowFields
  <1>4. /\ LoadTyped' /\ LoadsOfClusters' /\ Loading' # {}
        /\ \A u, v \in Live' : u = v
    <2> DEFINE l == [stage |-> "describe", src |-> c, reg |-> selectedRegion, stale |-> FALSE]
    <2>1. l \in Load /\ ~l.stale /\ l.src = c
      BY InvTypes DEF Load
    <2> HIDE DEF l
    <2>2. OutdateAndStart(l)
      BY <1>1 DEF l
    <2> QED BY InvTypes, <2>1, <2>2, StartLoad
  <1>5. w'.page \in 1..LastPage
    BY <1>3 DEF Draft
  <1>6. TypeOK'
    <2>1. seen' \in 1..LastPage
      BY <1>1, <1>3, <1>4, <1>5, Pages DEF WizardInv, TypeOK
    <2>2. /\ view' \in {"list", "wizard"} /\ mixed' \in BOOLEAN /\ selectedRegion' \in Regions
          /\ subs' \in [SubmitSlots -> Submission \cup {Idle}]
          /\ stuck' \subseteq {"loading", "submitting"} /\ dropped' \in BOOLEAN
      BY <1>1, <1>3, <1>4, <1>5 DEF WizardInv, TypeOK
    <2>3. w' \in Draft /\ loads' \in [LoadSlots -> Load \cup {Idle}]
      BY <1>1, <1>3, <1>4, <1>5 DEF LoadTyped, WizardInv, TypeOK
    <2> QED BY <2>1, <2>2, <2>3 DEF TypeOK
  <1>7. RegionSet' /\ YamlIsCurrent' /\ Edited' /\ OfOneCluster'
    BY <1>1, <1>3, <1>4, <1>5, Pages
       DEF WizardInv, RegionSet, YamlIsCurrent, Edited, OfOneCluster, UnderWay,
           DryRunNeverEdits, UpdateIsOfOneCluster, TypeOK
  <1>8. Submitted' /\ Awaited'
    BY <1>1, <1>3, <1>4, <1>5 DEF WizardInv, Submitted, Awaited, UnderWay, OneSubmission
  <1> QED BY <1>6, <1>7, <1>8 DEF WizardInv

\* A template of the region that is selected: it is there at once.
LEMMA TemplateHereStep ==
  ASSUME WizardInv, NEW t \in Templates, mixed' = FALSE,
         Enter(WizardShow(LoadTemplateLazy(w, ConfigOf(t)))), Outdate,
         UNCHANGED <<selectedRegion, subs, stuck, dropped>>
  PROVE  WizardInv'
  <1> DEFINE d == LoadTemplateLazy(w, ConfigOf(t))
  <1>1. /\ w' = Mounted(WizardShow(d)) /\ seen' = WizardShow(d).page /\ view' = "wizard"
        /\ mixed' = FALSE /\ UNCHANGED <<selectedRegion, subs, stuck, dropped>>
    BY DEF Enter
  <1>2. d \in Draft /\ ~d.loading /\ d.submitting = w.submitting /\ d.page = 1
    BY InvTypes, ConfigOfFields, LoadTemplateFields
  <1> HIDE DEF d
  <1>3. /\ w' \in Draft /\ ~w'.editing /\ w'.submitting = w.submitting /\ seen' = w'.page
        /\ ~w'.loading
        /\ w'.page >= 3 => w'.page = 1
    BY <1>1, <1>2, InvTypes, WizardShowFields
  <1>4. LoadTyped' /\ LoadsOfClusters' /\ Live' = {} /\ Loading' = Loading
    BY InvTypes, OutdateLoads
  <1>5. w'.page \in 1..LastPage /\ w'.page < 3
    BY <1>3 DEF Draft
  <1>6. TypeOK'
    <2>1. seen' \in 1..LastPage
      BY <1>1, <1>3, <1>4, <1>5, Pages DEF WizardInv, TypeOK
    <2>2. /\ view' \in {"list", "wizard"} /\ mixed' \in BOOLEAN /\ selectedRegion' \in Regions
          /\ subs' \in [SubmitSlots -> Submission \cup {Idle}]
          /\ stuck' \subseteq {"loading", "submitting"} /\ dropped' \in BOOLEAN
      BY <1>1, <1>3, <1>4, <1>5 DEF WizardInv, TypeOK
    <2>3. w' \in Draft /\ loads' \in [LoadSlots -> Load \cup {Idle}]
      BY <1>1, <1>3, <1>4, <1>5 DEF LoadTyped, WizardInv, TypeOK
    <2> QED BY <2>1, <2>2, <2>3 DEF TypeOK
  <1>7. RegionSet' /\ YamlIsCurrent' /\ Edited' /\ OfOneCluster'
    BY <1>1, <1>3, <1>4, <1>5, Pages
       DEF WizardInv, RegionSet, YamlIsCurrent, Edited, OfOneCluster, UnderWay,
           DryRunNeverEdits, UpdateIsOfOneCluster, TypeOK
  <1>8. Submitted' /\ Awaited'
    BY <1>1, <1>3, <1>4, <1>5 DEF WizardInv, Submitted, Awaited, UnderWay, OneSubmission
  <1> QED BY <1>6, <1>7, <1>8 DEF WizardInv

\* A template of another region waits for that region's resources.
LEMMA TemplateElsewhereStep ==
  ASSUME WizardInv, NEW t \in Templates, mixed' = FALSE,
         Enter(WizardShow([w EXCEPT !.loading = TRUE, !.config.region = TemplateRegion[t]])),
         OutdateAndStart([stage |-> "aws", src |-> t, stale |-> FALSE,
                          reg |-> TemplateRegion[t]]),
         UNCHANGED <<selectedRegion, subs, stuck, dropped>>
  PROVE  WizardInv'
  <1> DEFINE d == [w EXCEPT !.loading = TRUE, !.config.region = TemplateRegion[t]]
  <1>1. /\ w' = Mounted(WizardShow(d)) /\ seen' = WizardShow(d).page /\ view' = "wizard"
        /\ mixed' = FALSE /\ UNCHANGED <<selectedRegion, subs, stuck, dropped>>
    BY DEF Enter
  <1>2. TemplateRegion[t] \in Regions /\ TemplateRegion[t] # None
    BY WizardAssumption
  <1>3. /\ d \in Draft /\ d.loading /\ d.submitting = w.submitting
        /\ d.config.region = TemplateRegion[t]
    <2>1. w.config \in Config
      BY InvTypes DEF Draft
    <2>2. [w.config EXCEPT !.region = TemplateRegion[t]] \in Config
      BY <2>1, <1>2 DEF Config
    <2>3. d = [w EXCEPT !.loading = TRUE,
                        !.config = [w.config EXCEPT !.region = TemplateRegion[t]]]
      BY InvTypes DEF Draft
    <2>4. [w.config EXCEPT !.region = TemplateRegion[t]].region = TemplateRegion[t]
      BY <2>1 DEF Config
    <2> QED BY <2>2, <2>3, <2>4, InvTypes DEF Draft
  <1> HIDE DEF d
  <1>4. /\ w' \in Draft /\ ~w'.editing /\ w'.submitting = w.submitting /\ seen' = w'.page
        /\ w'.loading
        /\ w'.page >= 3 => w'.config.region # None
    BY <1>1, <1>2, <1>3, InvTypes, WizardShowFields
  <1>5. /\ LoadTyped' /\ LoadsOfClusters' /\ Loading' # {}
        /\ \A u, v \in Live' : u = v
    <2> DEFINE l == [stage |-> "aws", src |-> t, stale |-> FALSE, reg |-> TemplateRegion[t]]
    <2>1. l \in Load /\ ~l.stale /\ l.stage = "aws"
      BY <1>2 DEF Load
    <2> HIDE DEF l
    <2>2. OutdateAndStart(l)
      BY DEF l
    <2> QED BY InvTypes, <2>1, <2>2, StartLoad
  <1>6. w'.page \in 1..LastPage
    BY <1>4 DEF Draft
  <1>7. TypeOK'
    <2>1. seen' \in 1..LastPage
      BY <1>1, <1>4, <1>5, <1>6, Pages DEF WizardInv, TypeOK
    <2>2. /\ view' \in {"list", "wizard"} /\ mixed' \in BOOLEAN /\ selectedRegion' \in Regions
          /\ subs' \in [SubmitSlots -> Submission \cup {Idle}]
          /\ stuck' \subseteq {"loading", "submitting"} /\ dropped' \in BOOLEAN
      BY <1>1, <1>4, <1>5, <1>6 DEF WizardInv, TypeOK
    <2>3. w' \in Draft /\ loads' \in [LoadSlots -> Load \cup {Idle}]
      BY <1>1, <1>4, <1>5, <1>6 DEF LoadTyped, WizardInv, TypeOK
    <2> QED BY <2>1, <2>2, <2>3 DEF TypeOK
  <1>8. RegionSet' /\ YamlIsCurrent' /\ Edited' /\ OfOneCluster'
    BY <1>1, <1>4, <1>5, <1>6, Pages
       DEF WizardInv, RegionSet, YamlIsCurrent, Edited, OfOneCluster, UnderWay,
           DryRunNeverEdits, UpdateIsOfOneCluster, TypeOK
  <1>9. Submitted' /\ Awaited'
    BY <1>1, <1>4, <1>5, <1>6 DEF WizardInv, Submitted, Awaited, UnderWay, OneSubmission
  <1> QED BY <1>7, <1>8, <1>9 DEF WizardInv

LEMMA ReturnStep ==
  ASSUME WizardInv, ReturnToWizard
  PROVE  WizardInv'
  <1>1. /\ w' = Mounted(w) /\ seen' = w.page /\ view' = "wizard"
        /\ UNCHANGED <<selectedRegion, loads, subs, mixed, stuck, dropped>>
    BY DEF ReturnToWizard, Enter
  <1>2. MountKeeps(w, w')
    BY <1>1, InvTypes, MountedFields
  <1>3. Live' = Live /\ Loading' = Loading /\ LoadsOfClusters' = LoadsOfClusters
    BY <1>1 DEF Live, Loading, LoadsOfClusters
  <1>4. w.page \in 1..LastPage
    BY InvTypes DEF Draft
  <1>5. NoConfig.src \notin Clusters
    BY NoDraftFields, WizardAssumption
  <1>6. TypeOK'
    BY <1>1, <1>2, <1>4 DEF WizardInv, TypeOK, MountKeeps
  <1>7. RegionSet' /\ YamlIsCurrent' /\ Edited' /\ OfOneCluster'
    BY <1>1, <1>2, <1>3, <1>4, <1>5, Pages
       DEF MountKeeps, WizardInv, RegionSet, YamlIsCurrent, Edited, OfOneCluster, UnderWay,
           DryRunNeverEdits, UpdateIsOfOneCluster, TypeOK
  <1>8. Submitted' /\ Awaited'
    BY <1>1, <1>2, <1>3, <1>4, <1>5 DEF MountKeeps, WizardInv, Submitted, Awaited, UnderWay, OneSubmission
  <1> QED BY <1>6, <1>7, <1>8 DEF WizardInv

LEMMA SelectRegionStep ==
  ASSUME WizardInv, NEW r \in Regions, SelectRegion(r)
  PROVE  WizardInv'
  <1>1. /\ w' = NoDraft /\ view = "list" /\ selectedRegion' = r
        /\ UNCHANGED <<view, seen, subs, mixed, stuck>>
        /\ dropped' = (dropped \/ \E s \in SubmitSlots : UnderWay(s))
    BY DEF SelectRegion, DropSubmission
  <1>2. /\ w' \in Draft /\ ~w'.editing /\ w'.page = 1 /\ ~w'.loading /\ ~w'.submitting
    BY <1>1, NoDraftFields
  <1>3. LoadTyped' /\ LoadsOfClusters' /\ Live' = {} /\ Loading' = Loading
    BY InvTypes, OutdateLoads DEF SelectRegion
  <1>4. TypeOK'
    <2>1. seen' \in 1..LastPage
      BY <1>1, <1>2, <1>3, Pages DEF WizardInv, TypeOK
    <2>2. /\ view' \in {"list", "wizard"} /\ mixed' \in BOOLEAN /\ selectedRegion' \in Regions
          /\ subs' \in [SubmitSlots -> Submission \cup {Idle}]
          /\ stuck' \subseteq {"loading", "submitting"} /\ dropped' \in BOOLEAN
      BY <1>1, <1>2, <1>3 DEF WizardInv, TypeOK
    <2>3. w' \in Draft /\ loads' \in [LoadSlots -> Load \cup {Idle}]
      BY <1>1, <1>2, <1>3 DEF LoadTyped, WizardInv, TypeOK
    <2> QED BY <2>1, <2>2, <2>3 DEF TypeOK
  <1>5. RegionSet' /\ YamlIsCurrent' /\ Edited' /\ OfOneCluster'
    BY <1>1, <1>2, <1>3, Pages
       DEF WizardInv, RegionSet, YamlIsCurrent, Edited, OfOneCluster, UnderWay,
           DryRunNeverEdits, UpdateIsOfOneCluster, TypeOK
  <1>6. Submitted' /\ Awaited'
    BY <1>1, <1>2, <1>3 DEF WizardInv, Submitted, Awaited, UnderWay, OneSubmission
  <1> QED BY <1>4, <1>5, <1>6 DEF WizardInv

-----------------------------------------------------------------------------
(* The wizard's pages.                                                     *)

\* Every way from page to page of the wizard, under what its guard gives.
LEMMA GoToStep ==
  ASSUME WizardInv, view = "wizard", NEW p \in 1..LastPage, p # w.page, GoTo(p),
         p >= 3 => w.config.region # None,
         p >= 2 => /\ w.editing => w.version # None
                   /\ w.page >= 2 \/ ~w.loading
  PROVE  WizardInv'
  <1> DEFINE d == SetPage(w, p)
  <1>1. /\ w' = Mounted(d) /\ seen' \in {seen, p} /\ seen' = IF p > seen THEN p ELSE seen
        /\ UNCHANGED <<view, selectedRegion, loads, subs, mixed, stuck, dropped>>
    BY DEF GoTo, Shows
  <1>2. /\ d \in Draft /\ d.page = p /\ d.yaml = IF p = Create THEN w.config ELSE w.yaml
        /\ d.name = w.name /\ d.editing = w.editing /\ d.version = w.version
        /\ d.config = w.config /\ d.loading = w.loading /\ d.submitting = w.submitting
    BY InvTypes, SetPageFields
  <1> HIDE DEF d
  <1>3. Live' = Live /\ Loading' = Loading /\ LoadsOfClusters' = LoadsOfClusters
    BY <1>1 DEF Live, Loading, LoadsOfClusters
  <1>4. MountKeeps(d, w')
    BY <1>1, <1>2, InvTypes, MountedFields
  <1>5. w.page \in 1..LastPage /\ seen \in 1..LastPage /\ LastPage \in Nat
    BY InvTypes, Pages DEF Draft
  <1>6. NoConfig.src \notin Clusters
    BY NoDraftFields, WizardAssumption
  <1>7. TypeOK'
    BY <1>1, <1>4, <1>5 DEF WizardInv, TypeOK, MountKeeps
  <1>8. RegionSet' /\ YamlIsCurrent' /\ Edited' /\ OfOneCluster'
    BY <1>1, <1>2, <1>3, <1>4, <1>5, <1>6, Pages
       DEF MountKeeps, WizardInv, RegionSet, YamlIsCurrent, Edited, OfOneCluster, UnderWay,
           DryRunNeverEdits, UpdateIsOfOneCluster, TypeOK
  <1>9. Submitted' /\ Awaited'
    BY <1>1, <1>2, <1>3, <1>4, <1>5, <1>6 DEF MountKeeps, WizardInv, Submitted, Awaited, UnderWay, OneSubmission
  <1> QED BY <1>7, <1>8, <1>9 DEF WizardInv

LEMMA NavigateStep ==
  ASSUME WizardInv, \/ HandleNext \/ HandlePrev \/ \E p \in 1..LastPage : HandleStep(p)
  PROVE  WizardInv'
  <1>1. w.page \in 1..LastPage /\ seen \in 1..LastPage /\ LastPage \in Nat
    BY InvTypes, Pages DEF Draft
  <1>2. w.page >= 3 \/ (view = "wizard" /\ seen >= 3) => w.config.region # None
    BY DEF WizardInv, RegionSet
  <1>3. w.editing /\ (w.page >= 2 \/ (view = "wizard" /\ seen >= 2)) => w.version # None
    BY DEF WizardInv, Edited
  <1>4. CASE HandleNext
    <2>1. /\ view = "wizard" /\ w.page # Create /\ ~w.loading /\ GoTo(w.page + 1)
          /\ w.page = 1 => w.version # None
          /\ w.page = 2 => w.config.region # None
      BY <1>4, Pages
         DEF HandleNext, NextDisabled, Validate, VersionValidate, ClusterValidate
    <2>2. w.page + 1 \in 1..LastPage /\ w.page + 1 # w.page
      BY <1>1, <2>1, Pages
    <2>3. w.page + 1 >= 3 => w.config.region # None
      BY <1>1, <1>2, <2>1
    <2>4. w.editing => w.version # None
      BY <1>1, <1>3, <2>1
    <2> QED BY <2>1, <2>2, <2>3, <2>4, GoToStep
  <1>5. CASE HandlePrev
    <2>1. view = "wizard" /\ w.page # 1 /\ GoTo(w.page - 1)
      BY <1>5, Pages DEF HandlePrev
    <2>2. w.page - 1 \in 1..LastPage /\ w.page - 1 # w.page /\ w.page >= 2
      BY <1>1, <2>1
    <2>3. w.page - 1 >= 3 => w.config.region # None
      BY <1>1, <1>2
    <2> QED BY <1>3, <2>1, <2>2, <2>3, GoToStep
  <1>6. ASSUME NEW p \in 1..LastPage, HandleStep(p) PROVE WizardInv'
    <2>1. view = "wizard" /\ p # w.page /\ p <= seen /\ ~w.loading /\ GoTo(p)
      BY <1>6 DEF HandleStep, NextDisabled
    <2>2. p >= 3 => w.config.region # None
      BY <1>1, <1>2, <2>1
    <2>3. p >= 2 /\ w.editing => w.version # None
      BY <1>1, <1>3, <2>1
    <2> QED BY <2>1, <2>2, <2>3, GoToStep
  <1> QED BY <1>4, <1>5, <1>6

\* What the pages edit: of an edit neither name nor version, and no
\* configuration on the create page.
LEMMA EditsStep ==
  ASSUME WizardInv, NEW d \in Draft, Edits(d), UNCHANGED dropped,
         /\ d.page = w.page /\ d.editing = w.editing /\ d.loading = w.loading
         /\ d.submitting = w.submitting /\ d.yaml = w.yaml
         /\ d.config.src = w.config.src /\ d.config.region = w.config.region
         /\ w.editing => d.name = w.name /\ d.version = w.version
         /\ w.page = Create => d.config = w.config
  PROVE  WizardInv'
  <1>1. /\ w' = d /\ UNCHANGED <<view, seen, selectedRegion, loads, subs, mixed, stuck>>
    BY DEF Edits
  <1>2. w' \in Draft
    BY <1>1
  <1>3. Live' = Live /\ Loading' = Loading /\ LoadsOfClusters' = LoadsOfClusters
    BY <1>1 DEF Live, Loading, LoadsOfClusters
  <1>4. TypeOK'
    BY <1>1, <1>2, <1>3, Pages DEF WizardInv, TypeOK, LoadTyped
  <1>5. RegionSet' /\ YamlIsCurrent' /\ Edited' /\ OfOneCluster'
    BY <1>1, <1>2, <1>3, Pages
       DEF WizardInv, RegionSet, YamlIsCurrent, Edited, OfOneCluster, UnderWay,
           DryRunNeverEdits, UpdateIsOfOneCluster, TypeOK
  <1>6. Submitted' /\ Awaited'
    BY <1>1, <1>2, <1>3 DEF WizardInv, Submitted, Awaited, UnderWay, OneSubmission
  <1> QED BY <1>4, <1>5, <1>6 DEF WizardInv

LEMMA ChangeStep ==
  ASSUME WizardInv,
         \/ \E v \in Versions : ChooseVersion(v)
         \/ \E n \in Names : TypeName(n)
         \/ EditConfig \/ ToggleForce
  PROVE  WizardInv'
  <1>1. ASSUME NEW v \in Versions, ChooseVersion(v) PROVE WizardInv'
    <2> DEFINE d == [w EXCEPT !.version = v]
    <2>1. /\ d \in Draft /\ d.page = w.page /\ d.editing = w.editing /\ d.loading = w.loading
          /\ d.submitting = w.submitting /\ d.yaml = w.yaml /\ d.config = w.config
      BY InvTypes DEF Draft
    <2>2. ~w.editing /\ Edits(d) /\ UNCHANGED dropped
      BY <1>1 DEF ChooseVersion
    <2> HIDE DEF d
    <2> QED BY <2>1, <2>2, EditsStep
  <1>2. ASSUME NEW n \in Names, TypeName(n) PROVE WizardInv'
    <2> DEFINE d == [w EXCEPT !.name = n]
    <2>1. /\ d \in Draft /\ d.page = w.page /\ d.editing = w.editing /\ d.loading = w.loading
          /\ d.submitting = w.submitting /\ d.yaml = w.yaml /\ d.config = w.config
      BY InvTypes DEF Draft, MaybeName
    <2>2. ~w.editing /\ Edits(d) /\ UNCHANGED dropped
      BY <1>2 DEF TypeName
    <2> HIDE DEF d
    <2> QED BY <2>1, <2>2, EditsStep
  <1>3. CASE EditConfig
    <2> DEFINE c == [w.config EXCEPT !.touched = TRUE]
               d == [w EXCEPT !.config = c]
    <2>1. c \in Config /\ c.src = w.config.src /\ c.region = w.config.region
      BY InvTypes DEF Draft, Config
    <2> HIDE DEF c
    <2>2. /\ d \in Draft /\ d.page = w.page /\ d.editing = w.editing /\ d.loading = w.loading
          /\ d.submitting = w.submitting /\ d.yaml = w.yaml /\ d.config = c
          /\ d.name = w.name /\ d.version = w.version
      BY InvTypes, <2>1 DEF Draft
    <2>3. /\ [w EXCEPT !.config.touched = TRUE] = d
      BY InvTypes DEF Draft, c
    <2>4. Edits(d) /\ UNCHANGED dropped
      BY <1>3, <2>3 DEF EditConfig
    <2>5. w.page # Create
      BY <1>3, Pages DEF EditConfig
    <2> HIDE DEF d
    <2> QED BY <2>1, <2>2, <2>4, <2>5, EditsStep
  <1>4. CASE ToggleForce
    <2> DEFINE d == [w EXCEPT !.force = ~@]
    <2>1. /\ d \in Draft /\ d.page = w.page /\ d.editing = w.editing /\ d.loading = w.loading
          /\ d.submitting = w.submitting /\ d.yaml = w.yaml /\ d.config = w.config
          /\ d.name = w.name /\ d.version = w.version
      BY InvTypes DEF Draft
    <2>2. Edits(d) /\ UNCHANGED dropped
      BY <1>4 DEF ToggleForce
    <2> HIDE DEF d
    <2> QED BY <2>1, <2>2, EditsStep
  <1> QED BY <1>1, <1>2, <1>3, <1>4

LEMMA ChooseRegionStep ==
  ASSUME WizardInv, NEW r \in Regions, ChooseRegion(r)
  PROVE  WizardInv'
  <1>1. /\ w' = RegionChosen(r) /\ view = "wizard" /\ w.page = 2 /\ ~w.editing /\ ~w.loading
        /\ UNCHANGED <<view, seen, selectedRegion, loads, subs, mixed, stuck>>
        /\ dropped' = (dropped \/ \E s \in SubmitSlots : UnderWay(s))
    BY Pages DEF ChooseRegion, Edits, DropSubmission
  <1>2. /\ w' \in Draft /\ w'.page = 2 /\ ~w'.editing /\ ~w'.loading /\ ~w'.submitting
        /\ w'.config.region = r
    <2> DEFINE c == [src |-> "default", region |-> r, touched |-> FALSE]
    <2>1. c \in Config /\ c.region = r
      BY DEF Config
    <2> HIDE DEF c
    <2>2. w' = [NoDraft EXCEPT !.page = w.page, !.name = w.name, !.loading = w.loading,
                               !.loaded = TRUE, !.config = c]
      BY <1>1 DEF RegionChosen, c
    <2>3. w.page \in 1..LastPage /\ w.name \in MaybeName /\ w.loading = FALSE
      BY <1>1, InvTypes DEF Draft
    <2>4. w' \in Draft
      BY <2>1, <2>2, <2>3, NoDraftFields DEF Draft
    <2>5. /\ w'.page = w.page /\ w'.editing = NoDraft.editing /\ w'.loading = FALSE
          /\ w'.submitting = NoDraft.submitting /\ w'.config = c
      BY <2>2, <2>3, NoDraftFields DEF Draft
    <2> QED BY <1>1, <2>1, <2>4, <2>5, NoDraftFields
  <1>3. Live' = Live /\ Loading' = Loading /\ LoadsOfClusters' = LoadsOfClusters
    BY <1>1 DEF Live, Loading, LoadsOfClusters
  <1>4. r # None
    BY WizardAssumption
  <1>5. TypeOK'
    <2>1. seen' \in 1..LastPage
      BY <1>1, <1>2, <1>3, Pages DEF WizardInv, TypeOK
    <2>2. /\ view' \in {"list", "wizard"} /\ mixed' \in BOOLEAN /\ selectedRegion' \in Regions
          /\ subs' \in [SubmitSlots -> Submission \cup {Idle}]
          /\ stuck' \subseteq {"loading", "submitting"} /\ dropped' \in BOOLEAN
      BY <1>1, <1>2, <1>3 DEF WizardInv, TypeOK
    <2>3. w' \in Draft /\ loads' \in [LoadSlots -> Load \cup {Idle}]
      BY <1>1, <1>2, <1>3 DEF LoadTyped, WizardInv, TypeOK
    <2> QED BY <2>1, <2>2, <2>3 DEF TypeOK
  <1>6. RegionSet' /\ YamlIsCurrent' /\ Edited' /\ OfOneCluster'
    BY <1>1, <1>2, <1>3, <1>4, Pages
       DEF WizardInv, RegionSet, YamlIsCurrent, Edited, OfOneCluster, UnderWay,
           DryRunNeverEdits, UpdateIsOfOneCluster, TypeOK
  <1>7. Submitted' /\ Awaited'
    BY <1>1, <1>2, <1>3, <1>4 DEF WizardInv, Submitted, Awaited, UnderWay, OneSubmission
  <1> QED BY <1>5, <1>6, <1>7 DEF WizardInv

LEMMA CancelStep ==
  ASSUME WizardInv, ClearStateAndCloseWizard
  PROVE  WizardInv'
  <1>1. /\ w' = ClearWizardState(w) /\ view' = "list"
        /\ UNCHANGED <<seen, selectedRegion, subs, mixed, stuck, dropped>>
    BY DEF ClearStateAndCloseWizard
  <1>2. /\ w' \in Draft /\ w'.page = 1 /\ w'.version = None /\ ~w'.loading
        /\ w'.submitting = w.submitting /\ w'.editing = w.editing
    BY <1>1, InvTypes, ClearFields
  <1>3. LoadTyped' /\ LoadsOfClusters' /\ Live' = {} /\ Loading' = Loading
    BY InvTypes, OutdateLoads DEF ClearStateAndCloseWizard
  <1>4. TypeOK'
    <2>1. seen' \in 1..LastPage
      BY <1>1, <1>2, <1>3, Pages DEF WizardInv, TypeOK
    <2>2. /\ view' \in {"list", "wizard"} /\ mixed' \in BOOLEAN /\ selectedRegion' \in Regions
          /\ subs' \in [SubmitSlots -> Submission \cup {Idle}]
          /\ stuck' \subseteq {"loading", "submitting"} /\ dropped' \in BOOLEAN
      BY <1>1, <1>2, <1>3 DEF WizardInv, TypeOK
    <2>3. w' \in Draft /\ loads' \in [LoadSlots -> Load \cup {Idle}]
      BY <1>1, <1>2, <1>3 DEF LoadTyped, WizardInv, TypeOK
    <2> QED BY <2>1, <2>2, <2>3 DEF TypeOK
  <1>5. RegionSet' /\ YamlIsCurrent' /\ Edited' /\ OfOneCluster'
    BY <1>1, <1>2, <1>3, Pages
       DEF WizardInv, RegionSet, YamlIsCurrent, Edited, OfOneCluster, UnderWay,
           DryRunNeverEdits, UpdateIsOfOneCluster, TypeOK
  <1>6. Submitted' /\ Awaited'
    BY <1>1, <1>2, <1>3 DEF WizardInv, Submitted, Awaited, UnderWay, OneSubmission
  <1> QED BY <1>4, <1>5, <1>6 DEF WizardInv

LEMMA LeaveStep ==
  ASSUME WizardInv, LeaveWizard
  PROVE  WizardInv'
  <1>1. /\ view' = "list"
        /\ UNCHANGED <<w, seen, selectedRegion, loads, subs, mixed, stuck, dropped>>
    BY DEF LeaveWizard
  <1>2. w' \in Draft /\ w' = w
    BY <1>1, InvTypes
  <1>3. Live' = Live /\ Loading' = Loading /\ LoadsOfClusters' = LoadsOfClusters
    BY <1>1 DEF Live, Loading, LoadsOfClusters
  <1>4. TypeOK'
    BY <1>1, <1>2, <1>3, Pages DEF WizardInv, TypeOK, LoadTyped
  <1>5. RegionSet' /\ YamlIsCurrent' /\ Edited' /\ OfOneCluster'
    BY <1>1, <1>2, <1>3, Pages
       DEF WizardInv, RegionSet, YamlIsCurrent, Edited, OfOneCluster, UnderWay,
           DryRunNeverEdits, UpdateIsOfOneCluster, TypeOK
  <1>6. Submitted' /\ Awaited'
    BY <1>1, <1>2, <1>3 DEF WizardInv, Submitted, Awaited, UnderWay, OneSubmission
  <1> QED BY <1>4, <1>5, <1>6 DEF WizardInv

-----------------------------------------------------------------------------
(* Submissions.                                                            *)

\* What is sent is the create page's: the draft has a region, and an edit is of one
\* cluster by now.
LEMMA SendStep ==
  ASSUME WizardInv, NEW intent \in {"submit", "dry"}, NEW request \in Request,
         Send(intent, request), ~w.submitting, intent = "dry" => request.dryrun,
         request.op = "update" =>
           w.editing /\ request.name = w.name /\ request.config = w.yaml
  PROVE  WizardInv'
  <1> DEFINE n == [stage |-> "sent", intent |-> intent, request |-> request,
                   mixed |-> mixed, draft |-> [version |-> w.version, force |-> w.force,
                                               region |-> w.config.region]]
  <1>1. PICK s \in SubmitSlots : subs[s] = Idle /\ subs' = [subs EXCEPT ![s] = n]
    BY DEF Send
  <1>2. /\ view = "wizard" /\ w.page = Create /\ w' = [w EXCEPT !.submitting = TRUE]
        /\ UNCHANGED <<view, seen, selectedRegion, loads, mixed, stuck, dropped>>
    BY DEF Send
  <1>3. n \in Submission
    <2>1. /\ w.version \in Versions \cup {None} /\ w.force \in BOOLEAN
          /\ w.config.region \in Regions \cup {None} /\ mixed \in BOOLEAN
      BY InvTypes DEF Draft, Config, WizardInv, TypeOK
    <2>2. [version |-> w.version, force |-> w.force, region |-> w.config.region] \in Wish
      BY <2>1 DEF Wish
    <2> QED BY <2>1, <2>2 DEF Submission
  <1>4. /\ n.intent = intent /\ n.request = request /\ n.mixed = mixed /\ n # Idle
        /\ n.draft.region = w.config.region /\ n.draft.version = w.version
    BY DEF Idle
  <1> HIDE DEF n
  <1>5. subs'[s] = n /\ \A u \in SubmitSlots : u # s => subs'[u] = subs[u]
    BY <1>1 DEF WizardInv, TypeOK
  <1>6. subs' \in [SubmitSlots -> Submission \cup {Idle}]
    BY <1>1, <1>3 DEF WizardInv, TypeOK
  <1>7. /\ w' \in Draft /\ w'.submitting /\ w'.page = w.page /\ w'.editing = w.editing
        /\ w'.name = w.name /\ w'.version = w.version /\ w'.config = w.config
        /\ w'.yaml = w.yaml /\ w'.loading = w.loading
    BY <1>2, InvTypes DEF Draft
  <1>8. Live' = Live /\ Loading' = Loading /\ LoadsOfClusters' = LoadsOfClusters
    BY <1>2 DEF Live, Loading, LoadsOfClusters
  <1>9. w.config.region # None
    BY <1>2, Pages DEF WizardInv, RegionSet
  <1>10. request.op = "update" /\ ~mixed =>
           /\ request.name \in Clusters /\ request.config.src = request.name
           /\ w.version = VersionOf[request.name]
    <2> SUFFICES ASSUME request.op = "update", ~mixed
                 PROVE  /\ request.name \in Clusters /\ request.config.src = request.name
                        /\ w.version = VersionOf[request.name]
      OBVIOUS
    <2>1. w.page >= 2 /\ w.editing
      BY <1>2, Pages
    <2>2. w.version # None /\ ~w.loading
      BY <2>1 DEF WizardInv, Edited, OfOneCluster
    <2>3. /\ w.name \in Clusters /\ w.version = VersionOf[w.name]
          /\ w.config.src = w.name
      BY <2>1, <2>2 DEF WizardInv, OfOneCluster
    <2>4. w.yaml = w.config
      BY <1>2, <2>2 DEF WizardInv, YamlIsCurrent
    <2> QED BY <2>3, <2>4
  <1>11. TypeOK'
    BY <1>2, <1>6, <1>7 DEF WizardInv, TypeOK
  <1>12. RegionSet' /\ YamlIsCurrent' /\ Edited' /\ OfOneCluster'
    BY <1>2, <1>4, <1>5, <1>7, <1>8, <1>9, <1>10, Pages
       DEF WizardInv, RegionSet, YamlIsCurrent, Edited, OfOneCluster, UnderWay,
           DryRunNeverEdits, UpdateIsOfOneCluster, TypeOK
  <1>13. Submitted' /\ Awaited'
    BY <1>2, <1>4, <1>5, <1>7, <1>8, <1>9, <1>10 DEF WizardInv, Submitted, Awaited, UnderWay, OneSubmission
  <1> QED BY <1>11, <1>12, <1>13 DEF WizardInv

LEMMA SubmitStep ==
  ASSUME WizardInv, HandleCreate \/ HandleDryRun
  PROVE  WizardInv'
  <1>1. /\ w.name \in MaybeName /\ w.yaml \in Config /\ w.version \in Versions \cup {None}
        /\ w.force \in BOOLEAN /\ w.editing \in BOOLEAN
    BY InvTypes DEF Draft
  <1>2. CASE HandleCreate
    <2>1. Send("submit", SubmitRequest) /\ ~w.submitting
      BY <1>2 DEF HandleCreate, NextDisabled
    <2>2. /\ SubmitRequest \in Request
          /\ SubmitRequest.op = "update" => /\ w.editing /\ SubmitRequest.name = w.name
                                            /\ SubmitRequest.config = w.yaml
      BY <1>1 DEF SubmitRequest, UpdateCluster, CreateCluster, Request
    <2> QED BY <2>1, <2>2, SendStep
  <1>3. CASE HandleDryRun
    <2>1. Send("dry", DryRunRequest) /\ ~w.submitting /\ w.page = Create
      BY <1>3 DEF HandleDryRun, Send
    <2>2. w.editing => w.version # None
      BY <2>1, Pages DEF WizardInv, Edited
    <2>3. /\ DryRunRequest \in Request /\ DryRunRequest.dryrun
          /\ DryRunRequest.op = "update" => /\ w.editing /\ DryRunRequest.name = w.name
                                            /\ DryRunRequest.config = w.yaml
      BY <1>1, <2>2 DEF DryRunRequest, UpdateCluster, CreateCluster, Request, VersionAsFlag,
                        FlagAsVersion
    <2> QED BY <2>1, <2>3, SendStep
  <1> QED BY <1>2, <1>3

LEMMA EndSubmission ==
  ASSUME WizardInv, NEW s \in SubmitSlots, subs' = [subs EXCEPT ![s] = Idle]
  PROVE  /\ subs' \in [SubmitSlots -> Submission \cup {Idle}] /\ subs'[s] = Idle
         /\ \A u \in SubmitSlots : u # s => subs'[u] = subs[u]
  BY DEF WizardInv, TypeOK

LEMMA AcceptedStep ==
  ASSUME WizardInv, NEW s \in SubmitSlots, SubmitAccepted(s)
  PROVE  WizardInv'
  <1> DEFINE d == [w EXCEPT !.submitting = FALSE]
  <1>1. /\ w' = ClearWizardState(d) /\ view' = "list" /\ selectedRegion' = subs[s].draft.region
        /\ subs[s] # Idle /\ subs' = [subs EXCEPT ![s] = Idle]
        /\ UNCHANGED <<seen, mixed, stuck, dropped>>
    BY DEF SubmitAccepted
  <1>2. /\ d \in Draft /\ d.submitting = FALSE
    BY InvTypes DEF Draft
  <1> HIDE DEF d
  <1>3. /\ w' \in Draft /\ w'.page = 1 /\ w'.version = None /\ ~w'.loading /\ ~w'.submitting
    BY <1>1, <1>2, ClearFields
  <1>4. LoadTyped' /\ LoadsOfClusters' /\ Live' = {} /\ Loading' = Loading
    BY InvTypes, OutdateLoads DEF SubmitAccepted
  <1>5. /\ subs' \in [SubmitSlots -> Submission \cup {Idle}] /\ subs'[s] = Idle
        /\ \A u \in SubmitSlots : u # s => subs'[u] = subs[u]
    BY <1>1, EndSubmission
  <1>6. selectedRegion' \in Regions
    <2>1. subs[s] \in Submission /\ subs[s].draft.region # None
      BY <1>1 DEF WizardInv, TypeOK, RegionSet, UnderWay
    <2> QED BY <1>1, <2>1 DEF Submission, Wish
  <1>7. TypeOK'
    <2>1. seen' \in 1..LastPage
      BY <1>1, <1>3, <1>4, <1>5, <1>6, Pages DEF WizardInv, TypeOK
    <2>2. /\ view' \in {"list", "wizard"} /\ mixed' \in BOOLEAN /\ selectedRegion' \in Regions
          /\ subs' \in [SubmitSlots -> Submission \cup {Idle}]
          /\ stuck' \subseteq {"loading", "submitting"} /\ dropped' \in BOOLEAN
      BY <1>1, <1>3, <1>4, <1>5, <1>6 DEF WizardInv, TypeOK
    <2>3. w' \in Draft /\ loads' \in [LoadSlots -> Load \cup {Idle}]
      BY <1>1, <1>3, <1>4, <1>5, <1>6 DEF LoadTyped, WizardInv, TypeOK
    <2> QED BY <2>1, <2>2, <2>3 DEF TypeOK
  <1>8. RegionSet' /\ YamlIsCurrent' /\ Edited' /\ OfOneCluster'
    BY <1>1, <1>3, <1>4, <1>5, <1>6, Pages
       DEF WizardInv, RegionSet, YamlIsCurrent, Edited, OfOneCluster, UnderWay,
           DryRunNeverEdits, UpdateIsOfOneCluster, TypeOK
  <1>9. Submitted' /\ Awaited'
    BY <1>1, <1>3, <1>4, <1>5, <1>6 DEF WizardInv, Submitted, Awaited, UnderWay, OneSubmission
  <1> QED BY <1>7, <1>8, <1>9 DEF WizardInv

LEMMA AnsweredStep ==
  ASSUME WizardInv, NEW s \in SubmitSlots, SubmitAnswered(s)
  PROVE  WizardInv'
  <1>1. /\ w' = [w EXCEPT !.submitting = FALSE]
        /\ subs[s] # Idle /\ subs' = [subs EXCEPT ![s] = Idle]
        /\ UNCHANGED <<view, seen, selectedRegion, loads, mixed, stuck, dropped>>
    BY DEF SubmitAnswered
  <1>2. /\ w' \in Draft /\ ~w'.submitting /\ w'.page = w.page /\ w'.editing = w.editing
        /\ w'.name = w.name /\ w'.version = w.version /\ w'.config = w.config
        /\ w'.yaml = w.yaml /\ w'.loading = w.loading
    BY <1>1, InvTypes DEF Draft
  <1>3. Live' = Live /\ Loading' = Loading /\ LoadsOfClusters' = LoadsOfClusters
    BY <1>1 DEF Live, Loading, LoadsOfClusters
  <1>4. /\ subs' \in [SubmitSlots -> Submission \cup {Idle}] /\ subs'[s] = Idle
        /\ \A u \in SubmitSlots : u # s => subs'[u] = subs[u]
    BY <1>1, EndSubmission
  <1>5. TypeOK'
    BY <1>1, <1>2, <1>3, <1>4, Pages DEF WizardInv, TypeOK, LoadTyped
  <1>6. RegionSet' /\ YamlIsCurrent' /\ Edited' /\ OfOneCluster'
    BY <1>1, <1>2, <1>3, <1>4, Pages
       DEF WizardInv, RegionSet, YamlIsCurrent, Edited, OfOneCluster, UnderWay,
           DryRunNeverEdits, UpdateIsOfOneCluster, TypeOK
  <1>7. Submitted' /\ Awaited'
    BY <1>1, <1>2, <1>3, <1>4 DEF WizardInv, Submitted, Awaited, UnderWay, OneSubmission
  <1> QED BY <1>5, <1>6, <1>7 DEF WizardInv

LEMMA LostStep ==
  ASSUME WizardInv, NEW s \in SubmitSlots, SubmitLost(s)
  PROVE  WizardInv'
  <1>1. /\ subs' = [subs EXCEPT ![s] = Idle] /\ stuck' = stuck \cup {"submitting"}
        /\ UNCHANGED <<w, view, seen, selectedRegion, loads, mixed, dropped>>
    BY DEF SubmitLost
  <1>2. w' \in Draft /\ w' = w
    BY <1>1, InvTypes
  <1>3. Live' = Live /\ Loading' = Loading /\ LoadsOfClusters' = LoadsOfClusters
    BY <1>1 DEF Live, Loading, LoadsOfClusters
  <1>4. /\ subs' \in [SubmitSlots -> Submission \cup {Idle}] /\ subs'[s] = Idle
        /\ \A u \in SubmitSlots : u # s => subs'[u] = subs[u]
    BY <1>1, EndSubmission
  <1>5. TypeOK'
    <2>1. seen' \in 1..LastPage
      BY <1>1, <1>2, <1>4, Pages DEF WizardInv, TypeOK
    <2>2. /\ view' \in {"list", "wizard"} /\ mixed' \in BOOLEAN /\ selectedRegion' \in Regions
          /\ subs' \in [SubmitSlots -> Submission \cup {Idle}]
          /\ stuck' \subseteq {"loading", "submitting"} /\ dropped' \in BOOLEAN
      BY <1>1, <1>2, <1>4 DEF WizardInv, TypeOK
    <2>3. w' \in Draft /\ loads' \in [LoadSlots -> Load \cup {Idle}]
      BY <1>1, <1>2, <1>4 DEF LoadTyped, WizardInv, TypeOK
    <2> QED BY <2>1, <2>2, <2>3 DEF TypeOK
  <1>6. RegionSet' /\ YamlIsCurrent' /\ Edited' /\ OfOneCluster'
    BY <1>1, <1>2, <1>3, <1>4, Pages
       DEF WizardInv, RegionSet, YamlIsCurrent, Edited, OfOneCluster, UnderWay,
           DryRunNeverEdits, UpdateIsOfOneCluster, TypeOK
  <1>7. Submitted' /\ Awaited'
    BY <1>1, <1>2, <1>3, <1>4 DEF WizardInv, Submitted, Awaited, UnderWay, OneSubmission
  <1> QED BY <1>5, <1>6, <1>7 DEF WizardInv

-----------------------------------------------------------------------------
(* Answers to the loads.                                                   *)

LEMMA DescribeAnsweredStep ==
  ASSUME WizardInv, NEW s \in LoadSlots, DescribeAnswered(s)
  PROVE  WizardInv'
  <1>1. /\ loads[s].stage = "describe" /\ Advance(s, "config", selectedRegion)
        /\ UNCHANGED <<w, view, seen, selectedRegion, subs, mixed, stuck, dropped>>
    BY DEF DescribeAnswered
  <1>2. w' \in Draft /\ w' = w
    BY <1>1, InvTypes
  <1>3. /\ LoadTyped' /\ LoadsOfClusters' /\ Live' = Live /\ Loading' = Loading
        /\ \A u \in LoadSlots : loads[u] # Idle => loads'[u].src = loads[u].src
    <2>1. loads[s] # Idle /\ loads[s].src \in Clusters
      BY <1>1, InvTypes, IdleFields DEF LoadsOfClusters
    <2> QED BY <1>1, <2>1, InvTypes, AdvanceLoad
  <1>4. \A u \in Live : u \in LoadSlots /\ loads[u] # Idle
    BY DEF Live
  <1>5. TypeOK'
    <2>1. seen' \in 1..LastPage
      BY <1>1, <1>2, <1>3, Pages DEF WizardInv, TypeOK
    <2>2. /\ view' \in {"list", "wizard"} /\ mixed' \in BOOLEAN /\ selectedRegion' \in Regions
          /\ subs' \in [SubmitSlots -> Submission \cup {Idle}]
          /\ stuck' \subseteq {"loading", "submitting"} /\ dropped' \in BOOLEAN
      BY <1>1, <1>2, <1>3 DEF WizardInv, TypeOK
    <2>3. w' \in Draft /\ loads' \in [LoadSlots -> Load \cup {Idle}]
      BY <1>1, <1>2, <1>3 DEF LoadTyped, WizardInv, TypeOK
    <2> QED BY <2>1, <2>2, <2>3 DEF TypeOK
  <1>6. RegionSet' /\ YamlIsCurrent' /\ Edited' /\ OfOneCluster'
    BY <1>1, <1>2, <1>3, <1>4, Pages
       DEF WizardInv, RegionSet, YamlIsCurrent, Edited, OfOneCluster, UnderWay,
           DryRunNeverEdits, UpdateIsOfOneCluster, TypeOK
  <1>7. Submitted' /\ Awaited'
    BY <1>1, <1>2, <1>3, <1>4 DEF WizardInv, Submitted, Awaited, UnderWay, OneSubmission
  <1> QED BY <1>5, <1>6, <1>7 DEF WizardInv

\* GetConfiguration answered in the region that is selected: the configuration lands.
LEMMA ConfigurationHereStep ==
  ASSUME WizardInv, NEW s \in LoadSlots, ConfigurationAnswered(s),
         selectedRegion = HomeRegion
  PROVE  WizardInv'
  <1> DEFINE c == loads[s].src
             d == [w EXCEPT !.version = VersionOf[c], !.loading = TRUE]
             e == LoadTemplateLazy(d, ConfigOf(c))
  <1>1. /\ loads[s].stage = "config" /\ mixed' = (mixed \/ loads[s].stale)
        /\ w' = Landed(e) /\ loads' = [loads EXCEPT ![s] = Idle]
        /\ UNCHANGED <<view, seen, selectedRegion, subs, stuck, dropped>>
    BY DEF ConfigurationAnswered
  <1>2. c \in Clusters /\ VersionOf[c] \in Versions /\ VersionOf[c] # None /\ loads[s] # Idle
    BY <1>1, InvTypes, IdleFields, WizardAssumption DEF LoadsOfClusters
  <1>3. /\ d \in Draft /\ d.name = w.name /\ d.editing = w.editing /\ d.version = VersionOf[c]
        /\ d.submitting = w.submitting
    BY <1>2, InvTypes DEF Draft
  <1>4. ConfigOf(c) \in Config /\ ConfigOf(c).src = c /\ ConfigOf(c).region # None
    BY <1>2, ConfigOfFields
  <1> HIDE DEF d
  <1>5. /\ e \in Draft /\ e.page = 1 /\ ~e.loading /\ e.config = ConfigOf(c)
        /\ e.name = w.name /\ e.editing = w.editing /\ e.version = VersionOf[c]
        /\ e.submitting = w.submitting
    BY <1>3, <1>4, LoadTemplateFields
  <1> HIDE DEF e
  <1>6. MountKeeps(e, Landed(e)) /\ Landed(e).config = e.config
    BY <1>5, LandedFields
  <1>7. /\ w' \in Draft /\ w'.page = 1 /\ ~w'.loading /\ w'.config.src = c
        /\ w'.config.region # None /\ w'.name = w.name /\ w'.editing = w.editing
        /\ w.editing => w'.version = VersionOf[c]
        /\ w'.submitting = w.submitting
    BY <1>1, <1>4, <1>5, <1>6 DEF MountKeeps
  <1>8. /\ LoadTyped' /\ LoadsOfClusters' /\ Live' = Live \ {s} /\ Loading' = Loading \ {s}
        /\ \A u \in Live' : loads'[u].src = loads[u].src
    BY <1>1, InvTypes, EndLoad
  <1>9. ~loads[s].stale => s \in Live
    BY <1>2 DEF Live
  <1>10. TypeOK'
    <2>1. seen' \in 1..LastPage
      BY <1>1, <1>7, <1>8, Pages DEF WizardInv, TypeOK
    <2>2. /\ view' \in {"list", "wizard"} /\ mixed' \in BOOLEAN /\ selectedRegion' \in Regions
          /\ subs' \in [SubmitSlots -> Submission \cup {Idle}]
          /\ stuck' \subseteq {"loading", "submitting"} /\ dropped' \in BOOLEAN
      BY <1>1, <1>7, <1>8 DEF WizardInv, TypeOK
    <2>3. w' \in Draft /\ loads' \in [LoadSlots -> Load \cup {Idle}]
      BY <1>1, <1>7, <1>8 DEF LoadTyped, WizardInv, TypeOK
    <2> QED BY <2>1, <2>2, <2>3 DEF TypeOK
  <1>11. RegionSet' /\ YamlIsCurrent' /\ Edited' /\ OfOneCluster'
    <2>1. RegionSet' /\ YamlIsCurrent'
      BY <1>1, <1>2, <1>7, <1>8, Pages DEF WizardInv, RegionSet, YamlIsCurrent, UnderWay
    <2>2. DryRunNeverEdits' /\ UpdateIsOfOneCluster'
      BY <1>1 DEF WizardInv, Edited, OfOneCluster, DryRunNeverEdits, UpdateIsOfOneCluster,
                  UnderWay
    <2>3. Edited'
      BY <1>1, <1>2, <1>7, <1>8, <2>2 DEF WizardInv, Edited
    <2>4. ASSUME w.editing, ~mixed'
          PROVE  s \in Live /\ ~mixed /\ c = w.name /\ \A u \in Live : u = s
      <3>1. s \in Live /\ ~mixed
        BY <1>1, <1>9, <2>4
      <3> QED BY <2>4, <3>1 DEF WizardInv, Awaited, OfOneCluster
    <2>5. w'.editing /\ ~mixed' /\ w'.version # None =>
            w'.name \in Clusters /\ w'.version = VersionOf[w'.name] /\ w'.config.src = w'.name
      BY <1>2, <1>7, <2>4
    <2>6. /\ w'.editing /\ ~mixed' => \A u \in Live' : loads'[u].src = w'.name
          /\ w'.editing /\ ~mixed' /\ w'.page >= 2 => ~w'.loading
      BY <1>7, <1>8, <2>4
    <2> QED BY <2>1, <2>3, <2>5, <2>6, <2>2 DEF OfOneCluster
  <1>12. Submitted' /\ Awaited'
    BY <1>1, <1>2, <1>7, <1>8, <1>9 DEF WizardInv, Submitted, Awaited, UnderWay, OneSubmission
  <1> QED BY <1>10, <1>11, <1>12 DEF WizardInv

\* In another region: the wizard goes on waiting, for that region's resources.
LEMMA ConfigurationElsewhereStep ==
  ASSUME WizardInv, NEW s \in LoadSlots, ConfigurationAnswered(s),
         selectedRegion # HomeRegion
  PROVE  WizardInv'
  <1> DEFINE c == loads[s].src
             k == [w.config EXCEPT !.region = HomeRegion]
             d == [w EXCEPT !.version = VersionOf[c], !.loading = TRUE, !.config = k]
  <1>1. /\ loads[s].stage = "config" /\ mixed' = (mixed \/ loads[s].stale)
        /\ w' = [[w EXCEPT !.version = VersionOf[c], !.loading = TRUE]
                   EXCEPT !.config.region = HomeRegion]
        /\ Advance(s, "aws", HomeRegion)
        /\ UNCHANGED <<view, seen, selectedRegion, subs, stuck, dropped>>
    BY DEF ConfigurationAnswered
  <1>2. c \in Clusters /\ VersionOf[c] \in Versions /\ VersionOf[c] # None /\ loads[s] # Idle
    BY <1>1, InvTypes, IdleFields, WizardAssumption DEF LoadsOfClusters
  <1>3. k \in Config /\ k.src = w.config.src /\ k.region = HomeRegion
    BY InvTypes, WizardAssumption DEF Draft, Config
  <1>4. w' = d
    BY <1>1, InvTypes DEF Draft
  <1> HIDE DEF k
  <1>5. /\ d \in Draft /\ d.name = w.name /\ d.editing = w.editing /\ d.version = VersionOf[c]
        /\ d.submitting = w.submitting /\ d.loading /\ d.config = k /\ d.page = w.page
    BY <1>2, <1>3, InvTypes DEF Draft
  <1> HIDE DEF d
  <1>6. /\ w' \in Draft /\ w'.name = w.name /\ w'.editing = w.editing
        /\ w'.version = VersionOf[c] /\ w'.submitting = w.submitting /\ w'.loading
        /\ w'.page = w.page /\ w'.config.src = w.config.src /\ w'.config.region # None
    BY <1>3, <1>4, <1>5, WizardAssumption
  <1>7. /\ LoadTyped' /\ LoadsOfClusters' /\ Live' = Live /\ Loading' = Loading
        /\ \A u \in LoadSlots : loads[u] # Idle => loads'[u].src = loads[u].src
    BY <1>1, <1>2, InvTypes, AdvanceLoad, WizardAssumption
  <1>8. \A u \in Live : u \in LoadSlots /\ loads[u] # Idle
    BY DEF Live
  <1>9. ~loads[s].stale => s \in Live
    BY <1>2 DEF Live
  <1>10. s \in Loading
    BY <1>2 DEF Loading
  <1>11. TypeOK'
    <2>1. seen' \in 1..LastPage
      BY <1>1, <1>6, <1>7, Pages DEF WizardInv, TypeOK
    <2>2. /\ view' \in {"list", "wizard"} /\ mixed' \in BOOLEAN /\ selectedRegion' \in Regions
          /\ subs' \in [SubmitSlots -> Submission \cup {Idle}]
          /\ stuck' \subseteq {"loading", "submitting"} /\ dropped' \in BOOLEAN
      BY <1>1, <1>6, <1>7 DEF WizardInv, TypeOK
    <2>3. w' \in Draft /\ loads' \in [LoadSlots -> Load \cup {Idle}]
      BY <1>1, <1>6, <1>7 DEF LoadTyped, WizardInv, TypeOK
    <2> QED BY <2>1, <2>2, <2>3 DEF TypeOK
  <1>12. RegionSet' /\ YamlIsCurrent' /\ Edited' /\ OfOneCluster'
    <2>1. RegionSet' /\ YamlIsCurrent'
      BY <1>1, <1>2, <1>6, Pages DEF WizardInv, RegionSet, YamlIsCurrent, UnderWay
    <2>2. DryRunNeverEdits' /\ UpdateIsOfOneCluster'
      BY <1>1 DEF WizardInv, Edited, OfOneCluster, DryRunNeverEdits, UpdateIsOfOneCluster,
                  UnderWay
    <2>3. Edited'
      BY <1>1, <1>2, <1>6, <2>2 DEF WizardInv, Edited
    <2>4. ASSUME w.editing, ~mixed'
          PROVE  s \in Live /\ ~mixed /\ c = w.name /\ \A u \in Live : u = s
      <3>1. s \in Live /\ ~mixed
        BY <1>1, <1>9, <2>4
      <3> QED BY <2>4, <3>1 DEF WizardInv, Awaited, OfOneCluster
    <2>5. w'.editing /\ ~mixed' /\ w'.version # None =>
            w'.name \in Clusters /\ w'.version = VersionOf[w'.name] /\ w'.loading
      BY <1>2, <1>6, <2>4
    <2>6. /\ w'.editing /\ ~mixed' => \A u \in Live' : loads'[u].src = w'.name
          /\ w'.editing /\ ~mixed' /\ w'.page >= 2 => ~w'.loading
      <3>1. w.editing /\ ~mixed' => w.loading
        BY <2>4 DEF WizardInv, Awaited
      <3> QED BY <1>1, <1>6, <1>7, <1>8, <2>4, <3>1 DEF WizardInv, OfOneCluster
    <2> QED BY <2>1, <2>3, <2>5, <2>6, <2>2 DEF OfOneCluster
  <1>13. Submitted' /\ Awaited'
    BY <1>1, <1>2, <1>6, <1>7, <1>8, <1>9, <1>10 DEF WizardInv, Submitted, Awaited, UnderWay, OneSubmission
  <1> QED BY <1>11, <1>12, <1>13 DEF WizardInv

LEMMA AwsConfigStep ==
  ASSUME WizardInv, NEW s \in LoadSlots, AwsConfigAnswered(s)
  PROVE  WizardInv'
  <1> DEFINE c == loads[s].src
             e == LoadTemplateLazy(w, ConfigOf(c))
  <1>1. /\ loads[s].stage = "aws" /\ mixed' = (mixed \/ loads[s].stale)
        /\ w' = Landed(e) /\ loads' = [loads EXCEPT ![s] = Idle]
        /\ UNCHANGED <<view, seen, selectedRegion, subs, stuck, dropped>>
    BY DEF AwsConfigAnswered
  <1>2. loads[s] # Idle /\ c \in Clusters \cup Templates
    BY <1>1, InvTypes, IdleFields DEF LoadTyped, Load
  <1>3. ConfigOf(c) \in Config /\ ConfigOf(c).src = c /\ ConfigOf(c).region # None
    BY <1>2, ConfigOfFields
  <1>4. /\ e \in Draft /\ e.page = 1 /\ ~e.loading /\ e.config = ConfigOf(c)
        /\ e.name = w.name /\ e.editing = w.editing /\ e.version = w.version
        /\ e.submitting = w.submitting
    BY <1>3, InvTypes, LoadTemplateFields
  <1> HIDE DEF e
  <1>5. MountKeeps(e, Landed(e)) /\ Landed(e).config = e.config
    BY <1>4, LandedFields
  <1>6. /\ w' \in Draft /\ w'.page = 1 /\ ~w'.loading /\ w'.config.src = c
        /\ w'.config.region # None /\ w'.name = w.name /\ w'.editing = w.editing
        /\ w.editing => w'.version = w.version
        /\ w'.submitting = w.submitting
    BY <1>1, <1>3, <1>4, <1>5 DEF MountKeeps
  <1>7. /\ LoadTyped' /\ LoadsOfClusters' /\ Live' = Live \ {s} /\ Loading' = Loading \ {s}
        /\ \A u \in Live' : loads'[u].src = loads[u].src
    BY <1>1, InvTypes, EndLoad
  <1>8. ~loads[s].stale => s \in Live
    BY <1>2 DEF Live
  <1>9. TypeOK'
    <2>1. seen' \in 1..LastPage
      BY <1>1, <1>6, <1>7, Pages DEF WizardInv, TypeOK
    <2>2. /\ view' \in {"list", "wizard"} /\ mixed' \in BOOLEAN /\ selectedRegion' \in Regions
          /\ subs' \in [SubmitSlots -> Submission \cup {Idle}]
          /\ stuck' \subseteq {"loading", "submitting"} /\ dropped' \in BOOLEAN
      BY <1>1, <1>6, <1>7 DEF WizardInv, TypeOK
    <2>3. w' \in Draft /\ loads' \in [LoadSlots -> Load \cup {Idle}]
      BY <1>1, <1>6, <1>7 DEF LoadTyped, WizardInv, TypeOK
    <2> QED BY <2>1, <2>2, <2>3 DEF TypeOK
  <1>10. RegionSet' /\ YamlIsCurrent' /\ Edited' /\ OfOneCluster'
    <2>1. RegionSet' /\ YamlIsCurrent'
      BY <1>1, <1>2, <1>6, <1>7, Pages DEF WizardInv, RegionSet, YamlIsCurrent, UnderWay
    <2>2. DryRunNeverEdits' /\ UpdateIsOfOneCluster'
      BY <1>1 DEF WizardInv, Edited, OfOneCluster, DryRunNeverEdits, UpdateIsOfOneCluster,
                  UnderWay
    <2>3. Edited'
      BY <1>1, <1>2, <1>6, <1>7, <2>2 DEF WizardInv, Edited
    <2>4. ASSUME w.editing, ~mixed'
          PROVE  s \in Live /\ ~mixed /\ c = w.name /\ \A u \in Live : u = s
      <3>1. s \in Live /\ ~mixed
        BY <1>1, <1>8, <2>4
      <3> QED BY <2>4, <3>1 DEF WizardInv, Awaited, OfOneCluster
    <2>5. w'.editing /\ ~mixed' /\ w'.version # None =>
            w'.name \in Clusters /\ w'.version = VersionOf[w'.name] /\ w'.config.src = w'.name
      BY <1>6, <2>4 DEF WizardInv, OfOneCluster
    <2>6. /\ w'.editing /\ ~mixed' => \A u \in Live' : loads'[u].src = w'.name
          /\ w'.editing /\ ~mixed' /\ w'.page >= 2 => ~w'.loading
      BY <1>6, <1>7, <2>4
    <2> QED BY <2>1, <2>3, <2>5, <2>6, <2>2 DEF OfOneCluster
  <1>11. Submitted' /\ Awaited'
    BY <1>1, <1>2, <1>6, <1>7, <1>8 DEF WizardInv, Submitted, Awaited, UnderWay, OneSubmission
  <1> QED BY <1>9, <1>10, <1>11 DEF WizardInv

LEMMA LoadFailedStep ==
  ASSUME WizardInv, NEW s \in LoadSlots, LoadFailed(s)
  PROVE  WizardInv'
  <1>1. /\ loads' = [loads EXCEPT ![s] = Idle] /\ stuck' = stuck \cup {"loading"}
        /\ UNCHANGED <<w, view, seen, selectedRegion, subs, mixed, dropped>>
    BY DEF LoadFailed
  <1>2. w' \in Draft /\ w' = w
    BY <1>1, InvTypes
  <1>3. /\ LoadTyped' /\ LoadsOfClusters' /\ Live' = Live \ {s} /\ Loading' = Loading \ {s}
        /\ \A u \in Live' : loads'[u].src = loads[u].src
    BY <1>1, InvTypes, EndLoad
  <1>4. TypeOK'
    <2>1. seen' \in 1..LastPage
      BY <1>1, <1>2, <1>3, Pages DEF WizardInv, TypeOK
    <2>2. /\ view' \in {"list", "wizard"} /\ mixed' \in BOOLEAN /\ selectedRegion' \in Regions
          /\ subs' \in [SubmitSlots -> Submission \cup {Idle}]
          /\ stuck' \subseteq {"loading", "submitting"} /\ dropped' \in BOOLEAN
      BY <1>1, <1>2, <1>3 DEF WizardInv, TypeOK
    <2>3. w' \in Draft /\ loads' \in [LoadSlots -> Load \cup {Idle}]
      BY <1>1, <1>2, <1>3 DEF LoadTyped, WizardInv, TypeOK
    <2> QED BY <2>1, <2>2, <2>3 DEF TypeOK
  <1>5. RegionSet' /\ YamlIsCurrent' /\ Edited' /\ OfOneCluster'
    BY <1>1, <1>2, <1>3, Pages
       DEF WizardInv, RegionSet, YamlIsCurrent, Edited, OfOneCluster, UnderWay,
           DryRunNeverEdits, UpdateIsOfOneCluster, TypeOK
  <1>6. Submitted' /\ Awaited'
    BY <1>1, <1>2, <1>3 DEF WizardInv, Submitted, Awaited, UnderWay, OneSubmission
  <1> QED BY <1>4, <1>5, <1>6 DEF WizardInv

LEMMA StutterStep ==
  ASSUME WizardInv, UNCHANGED vars
  PROVE  WizardInv'
  <1>1. UNCHANGED <<w, view, seen, selectedRegion, loads, subs, mixed, stuck, dropped>>
    BY DEF vars
  <1>2. w' \in Draft /\ w' = w
    BY <1>1, InvTypes
  <1>3. Live' = Live /\ Loading' = Loading /\ LoadsOfClusters' = LoadsOfClusters
    BY <1>1 DEF Live, Loading, LoadsOfClusters
  <1>4. TypeOK'
    BY <1>1, <1>2, <1>3, Pages DEF WizardInv, TypeOK, LoadTyped
  <1>5. RegionSet' /\ YamlIsCurrent' /\ Edited' /\ OfOneCluster'
    BY <1>1, <1>2, <1>3, Pages
       DEF WizardInv, RegionSet, YamlIsCurrent, Edited, OfOneCluster, UnderWay,
           DryRunNeverEdits, UpdateIsOfOneCluster, TypeOK
  <1>6. Submitted' /\ Awaited'
    BY <1>1, <1>2, <1>3 DEF WizardInv, Submitted, Awaited, UnderWay, OneSubmission
  <1> QED BY <1>4, <1>5, <1>6 DEF WizardInv

-----------------------------------------------------------------------------
LEMMA WizardInvInit == Init => WizardInv
  <1> SUFFICES ASSUME Init PROVE WizardInv
    OBVIOUS
  <1>1. /\ w \in Draft /\ ~w.editing /\ w.page = 1 /\ ~w.loading /\ ~w.submitting
        /\ view = "list" /\ seen = 1 /\ selectedRegion = HomeRegion
        /\ mixed = FALSE /\ stuck = {} /\ dropped = FALSE
    BY NoDraftFields, Pages DEF Init
  <1>2. loads = [s \in LoadSlots |-> Idle] /\ subs = [s \in SubmitSlots |-> Idle]
    BY DEF Init
  <1>3. TypeOK
    <2>1. seen \in 1..LastPage /\ selectedRegion \in Regions
      BY <1>1, Pages, WizardAssumption
    <2> QED BY <1>1, <1>2, <2>1 DEF TypeOK
  <1>4. RegionSet /\ YamlIsCurrent /\ Edited /\ OfOneCluster
    BY <1>1, <1>2, Pages DEF RegionSet, YamlIsCurrent, Edited, OfOneCluster, UnderWay,
       DryRunNeverEdits, UpdateIsOfOneCluster
  <1>5. Submitted /\ Awaited
    BY <1>1, <1>2, IdleFields DEF Submitted, OneSubmission, UnderWay, Awaited,
       LoadsOfClusters, Live
  <1> QED BY <1>3, <1>4, <1>5 DEF WizardInv

LEMMA WizardInvStep == WizardInv /\ [Next]_vars => WizardInv'
  <1> SUFFICES ASSUME WizardInv, [Next]_vars PROVE WizardInv'
    OBVIOUS
  <1>1. CASE Open
    <2>1. ASSUME NEW t \in Templates, CreateFromTemplate(t) PROVE WizardInv'
      BY <2>1, TemplateHereStep, TemplateElsewhereStep DEF CreateFromTemplate
    <2> QED BY <1>1, <2>1, EditConfigurationStep, CreateFromClusterStep, CreateByWizardStep,
               ReturnStep, SelectRegionStep DEF Open
  <1>2. CASE Navigate
    BY <1>2, NavigateStep, LeaveStep, CancelStep DEF Navigate
  <1>3. CASE Change
    BY <1>3, ChangeStep, ChooseRegionStep DEF Change
  <1>4. CASE Submit
    BY <1>4, SubmitStep DEF Submit
  <1>5. CASE Answer
    <2>1. ASSUME NEW s \in LoadSlots, ConfigurationAnswered(s) PROVE WizardInv'
      BY <2>1, ConfigurationHereStep, ConfigurationElsewhereStep
    <2> QED BY <1>5, <2>1, AcceptedStep, AnsweredStep, LostStep, DescribeAnsweredStep,
               AwsConfigStep, LoadFailedStep DEF Answer
  <1> QED BY <1>1, <1>2, <1>3, <1>4, <1>5, StutterStep DEF Next

LEMMA WizardInvariant == Spec => []WizardInv
  BY WizardInvInit, WizardInvStep, PTL DEF Spec

\* Whatever drafts were left, cancelled, submitted or filled by late answers before:
\* the draft has the shape the pages expect, and the create page's YAML is the
\* configuration edited last (useWizardNavigation.ts, util.tsx, model.tsx).
THEOREM DraftStaysOK == Spec => []DraftOK
  <1>1. WizardInv => DraftOK
    BY DEF WizardInv, DraftOK
  <1> QED BY <1>1, WizardInvariant, PTL

\* However many drafts and requests: a second submission starts only once choosing
\* a region has thrown submit.loading away (Configure.tsx).
THEOREM OneSubmissionAtATime == Spec => []OneSubmission
  <1>1. WizardInv => OneSubmission
    BY DEF WizardInv, Submitted
  <1> QED BY <1>1, WizardInvariant, PTL

\* An update is of one cluster, through any late answers of loads for others, unless
\* one landed (Clusters/Actions.tsx, Create.tsx).
THEOREM UpdatesAreOfOneCluster == Spec => []UpdateIsOfOneCluster
  <1>1. WizardInv => UpdateIsOfOneCluster
    BY DEF WizardInv, OfOneCluster
  <1> QED BY <1>1, WizardInvariant, PTL

\* The arguments of a dry run of an edit stand in the wrong places, and still it
\* never changes a cluster: the version in the place of the flag is always set
\* (Create.tsx handleDryRun).
THEOREM DryRunsNeverEdit == Spec => []DryRunNeverEdits
  <1>1. WizardInv => DryRunNeverEdits
    BY DEF WizardInv, Edited
  <1> QED BY <1>1, WizardInvariant, PTL

\* The wizard waits for its own load, and for nothing that is neither due nor
\* failed, however many loads overlap (util.tsx).
THEOREM WaitsAreRight == Spec => []WaitsRightly
  <1>1. WizardInv => WaitsForItsLoad
    <2>1. (\E s \in Loading : ~loads[s].stale) => Live # {}
      BY DEF Loading, Live
    <2> QED BY <2>1 DEF WizardInv, Awaited, WaitsForItsLoad
  <1>2. WizardInv => WaitHasACause
    BY DEF WizardInv, Awaited, Submitted, WaitHasACause
  <1> QED BY <1>1, <1>2, WizardInvariant, PTL DEF WaitsRightly
=============================================================================
