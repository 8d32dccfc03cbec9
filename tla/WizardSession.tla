---------------------------- MODULE WizardSession ----------------------------
(***************************************************************************)
(* The cluster wizard of one page (frontend/src/old-pages/Configure): one  *)
(* draft in the store under app.wizard, which buttons of the cluster list  *)
(* (Clusters/Actions.tsx, CreateButtonDropdown.tsx) start, the wizard's    *)
(* pages edit, and the create page submits; and the answers that arrive    *)
(* meanwhile and write to that same place, whichever draft they were asked *)
(* for.                                                                    *)
(*                                                                         *)
(* A configuration is where its contents came from (a cluster, a template, *)
(* the defaults), its Region and whether the pages edited it since.  The   *)
(* YAML of the create page is the configuration it was dumped from.  Pages *)
(* are numbered: 1 is version, 2 is cluster, LastPage is create; the pages *)
(* between differ only in the data they validate.                          *)
(*                                                                         *)
(* A definition named Bug... is a plausible mistake in the definition that *)
(* follows it; no behaviour of Spec uses it.                               *)
(***************************************************************************)
EXTENDS Naturals

CONSTANTS Clusters,    \* the clusters that exist, all in HomeRegion
          Templates,   \* the template files the user may choose
          TemplateRegion, \* the Region a template names
          Names,       \* names a user may give to a new cluster
          Versions,    \* the ParallelCluster versions the API serves
          VersionOf,   \* the version of a cluster
          Regions, HomeRegion,
          LastPage,    \* the number of the create page
          LoadSlots,   \* bound: loads under way at once
          SubmitSlots, \* bound: submissions under way at once
          None         \* a path of the store that is not set

ASSUME WizardAssumption ==
  /\ VersionOf \in [Clusters -> Versions]
  /\ TemplateRegion \in [Templates -> Regions]
  /\ HomeRegion \in Regions
  /\ LastPage \in Nat /\ LastPage >= 3
  /\ Clusters \cap Templates = {} /\ Clusters \cap Names = {}
  /\ None \notin Clusters \cup Templates \cup Names \cup Versions \cup Regions

VARIABLES w,          \* app.wizard: the draft
          view,       \* what the page shows: the cluster list or the wizard
          seen,       \* the farthest page since the wizard was mounted
          selectedRegion,
          loads,      \* requests that fill the draft, by slot
          subs,       \* create and update requests under way, by slot
          mixed,      \* history: an answer asked for another draft landed
          stuck,      \* history: a load failed, a submission's answer was lost
          dropped     \* history: a region was chosen during a submission

vars == <<w, view, seen, selectedRegion, loads, subs, mixed, stuck, dropped>>

Version == 1
Cluster == 2
Create == LastPage
Idle == [stage |-> "idle"]

Config == [src : Clusters \cup Templates \cup {"default", None},
           region : Regions \cup {None}, touched : BOOLEAN]
NoConfig == [src |-> None, region |-> None, touched |-> FALSE]
ConfigOf(s) == [src |-> s, touched |-> FALSE, region |->
                  IF s \in Clusters THEN HomeRegion ELSE TemplateRegion[s]]

MaybeName == Clusters \cup Names \cup {None}
Draft == [name : MaybeName, editing : BOOLEAN,
          version : Versions \cup {None}, config : Config, yaml : Config,
          page : 1..LastPage, loaded : BOOLEAN, loading : BOOLEAN,
          submitting : BOOLEAN, force : BOOLEAN]
NoDraft == [name |-> None, editing |-> FALSE, version |-> None,
            config |-> NoConfig, yaml |-> NoConfig, page |-> Version,
            loaded |-> FALSE, loading |-> FALSE, submitting |-> FALSE,
            force |-> FALSE]

Load == [stage : {"describe", "config", "aws"}, src : Clusters \cup Templates,
         reg : Regions, stale : BOOLEAN]
\* What a create or update request says, and the draft it was made from.
Request == [op : {"create", "update"}, name : MaybeName, config : Config,
            version : Versions \cup {"true", None}, force : BOOLEAN,
            dryrun : BOOLEAN]
\* What the user asked for when it was sent, and the Region captured then.
Wish == [version : Versions \cup {None}, force : BOOLEAN, region : Regions \cup {None}]
Submission == [stage : {"sent"}, intent : {"submit", "dry"}, request : Request,
               draft : Wish, mixed : BOOLEAN]

\* Every load under way was asked for a draft that is given up now.
Outdate == loads' = [s \in LoadSlots |-> IF loads[s] = Idle THEN Idle
                                         ELSE [loads[s] EXCEPT !.stale = TRUE]]
OutdateAndStart(load) ==
  \E s \in LoadSlots :
    /\ loads[s] = Idle
    /\ loads' = [u \in LoadSlots |->
                   IF u = s THEN load ELSE IF loads[u] = Idle THEN Idle
                   ELSE [loads[u] EXCEPT !.stale = TRUE]]

-----------------------------------------------------------------------------
(* What mounting a page does to the draft d.                               *)

\* Version's effect: a draft that is not an edit has to choose again.
VersionMounted(d) == IF d.editing THEN d ELSE [d EXCEPT !.version = None]

\* Cluster's effect: defaults for a draft that has no configuration yet.
ClusterMounted(d) ==
  IF d.yaml # NoConfig \/ d.loaded THEN d
  ELSE [d EXCEPT !.loaded = TRUE,
                 !.config = IF d.config # NoConfig THEN @
                            ELSE [src |-> "default", touched |-> FALSE,
                                  region |-> selectedRegion]]

Mounted(d) == CASE d.page = Version -> VersionMounted(d)
                [] d.page = Cluster -> ClusterMounted(d)
                [] OTHER -> d

BugSetPage(d, p) ==
  [d EXCEPT !.yaml = IF p = Create /\ d.yaml = NoConfig THEN d.config ELSE @, !.page = p]
\* setPage: entering the create page dumps the configuration.
SetPage(d, p) ==
  [d EXCEPT !.yaml = IF p = Create THEN d.config ELSE @, !.page = p]

\* The draft once the page the wizard shows is p.
Shows(d, p) == IF p = w.page THEN SetPage(d, p) ELSE Mounted(SetPage(d, p))

-----------------------------------------------------------------------------
(* The handlers' effects on the draft.                                     *)

\* wizardShow: only a draft that was an edit is put away.
WizardShow(d) ==
  IF d.editing
    THEN [d EXCEPT !.config = NoConfig, !.yaml = NoConfig, !.loaded = FALSE,
                   !.editing = FALSE, !.page = Version]
    ELSE d

BugClearWizardState(d) == [NoDraft EXCEPT !.editing = d.editing, !.force = d.force]
\* clearWizardState: editing, submit.loading and forceUpdate are left.
ClearWizardState(d) ==
  [NoDraft EXCEPT !.editing = d.editing, !.submitting = d.submitting,
                  !.force = d.force]

\* loadTemplateLazy: the configuration replaces the draft's.
LoadTemplateLazy(d, c) ==
  [d EXCEPT !.config = c, !.loaded = TRUE, !.loading = FALSE, !.page = Version]

\* The draft d, shown by a mounted wizard, after its page was set to Version.
Landed(d) == IF view = "wizard" /\ w.page # Version THEN VersionMounted(d) ELSE d

-----------------------------------------------------------------------------
(* The cluster list: ways into the wizard.                                 *)

Enter(d) == /\ view' = "wizard"
            /\ w' = Mounted(d)
            /\ seen' = d.page

BugBeginEdit(c) == [w EXCEPT !.name = c, !.page = Version, !.editing = TRUE,
                             !.version = VersionOf[c]]
\* Actions.tsx editConfiguration up to the first answer.
BeginEdit(c) == [w EXCEPT !.name = c, !.page = Version, !.editing = TRUE,
                          !.version = VersionOf[c], !.loading = TRUE]

EditConfiguration(c) ==
  /\ view = "list" /\ selectedRegion = HomeRegion
  /\ Enter(BeginEdit(c))
  /\ OutdateAndStart([stage |-> "describe", src |-> c, reg |-> selectedRegion, stale |-> FALSE])
  /\ mixed' = FALSE
  /\ UNCHANGED <<selectedRegion, subs, stuck, dropped>>

CreateByWizard ==
  /\ view = "list"
  /\ Enter(WizardShow(w))
  /\ UNCHANGED <<selectedRegion, loads, subs, mixed, stuck, dropped>>

CreateFromCluster(c) ==
  /\ view = "list" /\ selectedRegion = HomeRegion
  /\ Enter(WizardShow([w EXCEPT !.loading = TRUE]))
  /\ OutdateAndStart([stage |-> "describe", src |-> c, reg |-> selectedRegion, stale |-> FALSE])
  /\ mixed' = FALSE
  /\ UNCHANGED <<selectedRegion, subs, stuck, dropped>>

\* loadTemplate runs before wizardShow; with another region it waits for
\* that region's resources, and only the Region is set at once.
CreateFromTemplate(t) ==
  /\ view = "list"
  /\ mixed' = FALSE
  /\ \/ /\ TemplateRegion[t] = selectedRegion
        /\ Enter(WizardShow(LoadTemplateLazy(w, ConfigOf(t))))
        /\ Outdate
     \/ /\ TemplateRegion[t] # selectedRegion
        /\ Enter(WizardShow([w EXCEPT !.loading = TRUE,
                                      !.config.region = TemplateRegion[t]]))
        /\ OutdateAndStart([stage |-> "aws", src |-> t, stale |-> FALSE,
                            reg |-> TemplateRegion[t]])
  /\ UNCHANGED <<selectedRegion, subs, stuck, dropped>>

\* The browser's history leads back to /configure past wizardShow.
ReturnToWizard ==
  /\ view = "list"
  /\ Enter(w)
  /\ UNCHANGED <<selectedRegion, loads, subs, mixed, stuck, dropped>>

UnderWay(s) == subs[s] # Idle
\* app.wizard is thrown away, submit.loading with it.
DropSubmission == dropped' = (dropped \/ \E s \in SubmitSlots : UnderWay(s))

\* TopBar selectRegion: clearAllState keeps nothing of the wizard.
SelectRegion(r) ==
  /\ view = "list" /\ r # selectedRegion
  /\ selectedRegion' = r
  /\ w' = NoDraft
  /\ Outdate
  /\ DropSubmission
  /\ UNCHANGED <<view, seen, subs, mixed, stuck>>

-----------------------------------------------------------------------------
(* The wizard's pages.                                                     *)

BugVersionValidate == TRUE
VersionValidate == w.version # None
ClusterValidate == /\ w.config.region # None
                   /\ w.editing \/ w.name \in Names
Validate(p) == /\ p = Version => VersionValidate
               /\ p = Cluster => ClusterValidate

\* isLoadingNextStep: Next, Create and the step links wait.
NextDisabled == w.loading \/ w.submitting

\* Next and Previous leave the step at pages[i + 1] and pages[i - 1].
GoTo(p) == /\ w' = Shows(w, p)
           /\ seen' = IF p > seen THEN p ELSE seen
           /\ UNCHANGED <<view, selectedRegion, loads, subs, mixed, stuck, dropped>>

HandleNext == /\ view = "wizard" /\ w.page # Create /\ ~NextDisabled
              /\ Validate(w.page)
              /\ GoTo(w.page + 1)

HandlePrev == /\ view = "wizard" /\ w.page # Version
              /\ GoTo(w.page - 1)

\* A link of the navigation pane, to a page already seen.
HandleStep(p) == /\ view = "wizard" /\ p # w.page /\ p <= seen /\ ~NextDisabled
                 /\ p < w.page \/ Validate(w.page)
                 /\ GoTo(p)

Edits(d) == /\ view = "wizard"
            /\ w' = d
            /\ UNCHANGED <<view, seen, selectedRegion, loads, subs, mixed, stuck>>

ChooseVersion(v) == /\ w.page = Version /\ ~w.editing
                    /\ Edits([w EXCEPT !.version = v]) /\ UNCHANGED dropped
TypeName(n) == /\ w.page = Cluster /\ ~w.editing /\ ~w.loading
               /\ Edits([w EXCEPT !.name = n]) /\ UNCHANGED dropped
EditConfig == /\ w.page \in (Cluster + 1)..(Create - 1)
              /\ Edits([w EXCEPT !.config.touched = TRUE]) /\ UNCHANGED dropped
ToggleForce == /\ w.page = Create /\ w.editing
               /\ Edits([w EXCEPT !.force = ~@]) /\ UNCHANGED dropped

\* RegionSelect handleChange: a fresh app.wizard that keeps the page, the
\* name and source.loading, with default contents in the chosen region.
RegionChosen(r) ==
  [NoDraft EXCEPT !.page = w.page, !.name = w.name, !.loading = w.loading,
     !.loaded = TRUE,
     !.config = [src |-> "default", region |-> r, touched |-> FALSE]]
ChooseRegion(r) == /\ w.page = Cluster /\ ~w.editing /\ ~w.loading
                   /\ Edits(RegionChosen(r)) /\ DropSubmission

\* Cancel, Escape and the breadcrumb.
ClearStateAndCloseWizard ==
  /\ view = "wizard"
  /\ w' = ClearWizardState(w)
  /\ view' = "list"
  /\ Outdate
  /\ UNCHANGED <<seen, selectedRegion, subs, mixed, stuck, dropped>>

\* The side navigation leaves the draft where it is.
LeaveWizard ==
  /\ view = "wizard"
  /\ view' = "list"
  /\ UNCHANGED <<w, seen, selectedRegion, loads, subs, mixed, stuck, dropped>>

-----------------------------------------------------------------------------
(* Submissions.                                                            *)

\* model.tsx CreateCluster and UpdateCluster: arguments to request.
CreateCluster(dryrun) ==
  [op |-> "create", name |-> w.name, config |-> w.yaml, version |-> w.version,
   force |-> FALSE, dryrun |-> dryrun]
UpdateCluster(dryrun, forceUpdate, version) ==
  [op |-> "update", name |-> w.name, config |-> w.yaml, version |-> version,
   force |-> forceUpdate, dryrun |-> dryrun]

\* What a flag becomes in the place of a version, and the other way round.
FlagAsVersion(b) == IF b THEN "true" ELSE None
VersionAsFlag(v) == v # None

SubmitRequest == IF w.editing THEN UpdateCluster(FALSE, w.force, w.version)
                 ELSE CreateCluster(FALSE)
\* handleDryRun passes UpdateCluster version, dryRun and forceUpdate, in this
\* order.
DryRunRequest ==
  IF w.editing THEN UpdateCluster(VersionAsFlag(w.version), TRUE, FlagAsVersion(w.force))
  ELSE CreateCluster(TRUE)

Send(intent, request) ==
  /\ view = "wizard" /\ w.page = Create
  /\ \E s \in SubmitSlots :
       /\ subs[s] = Idle
       /\ subs' = [subs EXCEPT ![s] = [stage |-> "sent", intent |-> intent,
                     request |-> request, mixed |-> mixed,
                     draft |-> [version |-> w.version, force |-> w.force,
                                region |-> w.config.region]]]
  /\ w' = [w EXCEPT !.submitting = TRUE]
  /\ UNCHANGED <<view, seen, selectedRegion, loads, mixed, stuck, dropped>>

HandleCreate == ~NextDisabled /\ Send("submit", SubmitRequest)
HandleDryRun == ~w.submitting /\ Send("dry", DryRunRequest)

\* The success handler of handleCreate clears whatever draft there is and
\* opens the cluster's page.
SubmitAccepted(s) ==
  /\ subs[s] # Idle /\ subs[s].intent = "submit"
  /\ selectedRegion' = subs[s].draft.region
  /\ w' = ClearWizardState([w EXCEPT !.submitting = FALSE])
  /\ view' = "list"
  /\ Outdate
  /\ subs' = [subs EXCEPT ![s] = Idle]
  /\ UNCHANGED <<seen, mixed, stuck, dropped>>

\* The error handlers, and the success handler of handleDryRun.
SubmitAnswered(s) ==
  /\ subs[s] # Idle
  /\ w' = [w EXCEPT !.submitting = FALSE]
  /\ subs' = [subs EXCEPT ![s] = Idle]
  /\ UNCHANGED <<view, seen, selectedRegion, loads, mixed, stuck, dropped>>

\* No response, or a status the callers do not expect: no handler runs.
SubmitLost(s) ==
  /\ subs[s] # Idle
  /\ subs' = [subs EXCEPT ![s] = Idle]
  /\ stuck' = stuck \cup {"submitting"}
  /\ UNCHANGED <<w, view, seen, selectedRegion, loads, mixed, dropped>>

-----------------------------------------------------------------------------
(* Answers to the loads.                                                   *)

Advance(s, stage, reg) ==
  loads' = [loads EXCEPT ![s] = [@ EXCEPT !.stage = stage, !.reg = reg]]

\* loadTemplateFromCluster: DescribeCluster answered, GetConfiguration asked
\* in the region selected now.
DescribeAnswered(s) ==
  /\ loads[s].stage = "describe" /\ loads[s].reg = HomeRegion
  /\ Advance(s, "config", selectedRegion)
  /\ UNCHANGED <<w, view, seen, selectedRegion, subs, mixed, stuck, dropped>>

\* GetConfiguration answered: the version is set, then loadTemplate.
ConfigurationAnswered(s) ==
  LET c == loads[s].src
      d == [w EXCEPT !.version = VersionOf[c], !.loading = TRUE]
  IN /\ loads[s].stage = "config" /\ loads[s].reg = HomeRegion
     /\ mixed' = (mixed \/ loads[s].stale)
     /\ \/ /\ selectedRegion = HomeRegion
           /\ w' = Landed(LoadTemplateLazy(d, ConfigOf(c)))
           /\ loads' = [loads EXCEPT ![s] = Idle]
        \/ /\ selectedRegion # HomeRegion
           /\ w' = [d EXCEPT !.config.region = HomeRegion]
           /\ Advance(s, "aws", HomeRegion)
     /\ UNCHANGED <<view, seen, selectedRegion, subs, stuck, dropped>>

\* LoadAwsConfig answered: its callback loads the configuration.
AwsConfigAnswered(s) ==
  /\ loads[s].stage = "aws"
  /\ mixed' = (mixed \/ loads[s].stale)
  /\ w' = Landed(LoadTemplateLazy(w, ConfigOf(loads[s].src)))
  /\ loads' = [loads EXCEPT ![s] = Idle]
  /\ UNCHANGED <<view, seen, selectedRegion, subs, stuck, dropped>>

BugLoadFailed(s) ==
  /\ loads[s] # Idle
  /\ loads' = [loads EXCEPT ![s] = Idle]
  /\ w' = [w EXCEPT !.loading = FALSE]
  /\ stuck' = stuck \cup {"loading"}
  /\ UNCHANGED <<view, seen, selectedRegion, subs, mixed, dropped>>
\* No step of a load handles its failure.
LoadFailed(s) ==
  /\ loads[s] # Idle
  /\ loads' = [loads EXCEPT ![s] = Idle]
  /\ stuck' = stuck \cup {"loading"}
  /\ UNCHANGED <<w, view, seen, selectedRegion, subs, mixed, dropped>>

-----------------------------------------------------------------------------
Init == /\ w = NoDraft
        /\ view = "list"
        /\ seen = Version
        /\ selectedRegion = HomeRegion
        /\ loads = [s \in LoadSlots |-> Idle]
        /\ subs = [s \in SubmitSlots |-> Idle]
        /\ mixed = FALSE
        /\ stuck = {}
        /\ dropped = FALSE

Open == \/ \E c \in Clusters : EditConfiguration(c) \/ CreateFromCluster(c)
        \/ \E t \in Templates : CreateFromTemplate(t)
        \/ CreateByWizard \/ ReturnToWizard
        \/ \E r \in Regions : SelectRegion(r)
Navigate == \/ HandleNext \/ HandlePrev \/ LeaveWizard \/ ClearStateAndCloseWizard
            \/ \E p \in 1..LastPage : HandleStep(p)
Change == \/ \E v \in Versions : ChooseVersion(v)
          \/ \E n \in Names : TypeName(n)
          \/ EditConfig \/ ToggleForce
          \/ \E r \in Regions : ChooseRegion(r)
Submit == HandleCreate \/ HandleDryRun
Answer == \/ \E s \in SubmitSlots : SubmitAccepted(s) \/ SubmitAnswered(s) \/ SubmitLost(s)
          \/ \E s \in LoadSlots : \/ DescribeAnswered(s) \/ ConfigurationAnswered(s)
                                  \/ AwsConfigAnswered(s) \/ LoadFailed(s)

Next == Open \/ Navigate \/ Change \/ Submit \/ Answer

Spec == Init /\ [][Next]_vars

-----------------------------------------------------------------------------
(* Properties.                                                             *)

Loading == {s \in LoadSlots : loads[s] # Idle}

\* The store's paths hold values the handlers expect; a load under way has
\* left the stages it passed.
TypeOK == /\ w \in Draft
          /\ view \in {"list", "wizard"}
          /\ seen \in 1..LastPage
          /\ selectedRegion \in Regions
          /\ loads \in [LoadSlots -> Load \cup {Idle}]
          /\ subs \in [SubmitSlots -> Submission \cup {Idle}]
          /\ mixed \in BOOLEAN
          /\ stuck \subseteq {"loading", "submitting"}
          /\ dropped \in BOOLEAN

\* An update speaks of one cluster: its name, the configuration it started
\* from and its version, unless an answer asked for another draft landed in
\* between (Actions.tsx editConfiguration, util.tsx loadTemplateFromCluster,
\* Create.tsx handleCreate).
UpdateIsOfOneCluster ==
  \A s \in SubmitSlots :
    UnderWay(s) /\ subs[s].request.op = "update" /\ ~subs[s].mixed =>
      /\ subs[s].request.name \in Clusters
      /\ subs[s].request.config.src = subs[s].request.name
      /\ subs[s].draft.version = VersionOf[subs[s].request.name]

\* A dry run never changes a cluster, in spite of the place of its arguments:
\* whatever the draft went through, its version is set when the create page
\* is reached by an edit (Create.tsx handleDryRun, Version.tsx).
DryRunNeverEdits ==
  \A s \in SubmitSlots :
    UnderWay(s) /\ subs[s].intent = "dry" => subs[s].request.dryrun

\* One submission at a time, across drafts, cancels and edits: a second starts
\* while one is under way only once choosing a region has thrown submit.loading
\* away (Configure.tsx isLoadingNextStep, clearWizardState).
OneSubmission ==
  ~dropped => \A s, u \in SubmitSlots : UnderWay(s) /\ UnderWay(u) => s = u

\* What the create page shows and submits is the configuration the pages
\* edited last (useWizardNavigation.ts setPage, util.tsx loadTemplateLazy).
YamlIsCurrent == w.page = Create /\ ~w.loading => w.yaml = w.config

\* While the draft's own load is under way the wizard waits for it, unless an
\* answer asked for another draft landed (util.tsx source.loading).
WaitsForItsLoad ==
  (\E s \in Loading : ~loads[s].stale) /\ ~mixed => w.loading

\* The wizard waits only while some answer is due or one failed to come
\* (util.tsx, model.tsx DescribeCluster, GetConfiguration, LoadAwsConfig).
WaitHasACause ==
  /\ w.loading => Loading # {} \/ "loading" \in stuck
  /\ w.submitting => (\E s \in SubmitSlots : UnderWay(s)) \/ "submitting" \in stuck

\* The draft is one the pages know, and what the create page would submit is what
\* they show, whatever left, cancelled or answered drafts came before.
DraftOK == TypeOK /\ YamlIsCurrent

\* The wizard waits when, and only when, an answer it needs is due or failed to
\* come: source.loading and submit.loading are cleared by answers alone.
WaitsRightly == WaitsForItsLoad /\ WaitHasACause

-----------------------------------------------------------------------------
(* What the documentation and the tests say, and the code does not do.     *)

\* While the wizard is being loaded its Next button is disabled
\* (__tests__/Configure.test.tsx).
NextDisabledWhileLoading == (\E s \in Loading : ~loads[s].stale) => NextDisabled

\* A dry run of an edit asks for what the edit would ask: the same version of
\* the API and force only if the box is ticked (locales/en: dry run validates
\* your configuration; Force update).
DryRunMirrorsUpdate ==
  \A s \in SubmitSlots :
    UnderWay(s) /\ subs[s].intent = "dry" /\ subs[s].request.op = "update" =>
      /\ subs[s].request.version = subs[s].draft.version
      /\ subs[s].request.force = subs[s].draft.force

\* Every cluster is created with the version its user selected (locales/en:
\* you must select a version).
CreatesNameAVersion ==
  \A s \in SubmitSlots :
    UnderWay(s) /\ subs[s].request.op = "create" => subs[s].request.version # None
=============================================================================
