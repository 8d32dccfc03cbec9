----------------------------- MODULE ClusterPages -----------------------------
(***************************************************************************)
(* The wizard's pages for the cluster and its head node (Cluster.tsx,        *)
(* HeadNode.tsx, MultiUser.tsx and SlurmSettings of                          *)
(* frontend/src/old-pages/Configure), and what they choose from: the AWS      *)
(* resources of one Region at a time, state.aws, which LoadAwsConfig fills    *)
(* with whatever answer comes.                                              *)
(*                                                                         *)
(* The pages after the head node's are one, LaterPages.  The selected Region  *)
(* stays Home, and the answers before LoadAwsConfig's come at once:           *)
(* WizardSession has their delays.  A definition named Bug... is a plausible  *)
(* mistake in the one that follows it; no behaviour of PagesSpec uses it.     *)
(***************************************************************************)
EXTENDS Integers, Sequences, FiniteSets

CONSTANTS DraftRegions, Home,
          Vpcs, RegionOfVpc,
          VpcSubnets, VpcOf,   \* the subnets, the VPC of each
          KeyNames, KeyPairs,  \* names of key pairs; those of a Region, in order
          DirectoryFields, DatabaseFields,
          LoadedDrafts,        \* configurations of clusters and of templates
          MaxLoads,            \* bound on the requests under way
          Unset                \* a path of the store that is not set

RegionOfSubnet(s) == RegionOfVpc[VpcOf[s]]
Configurations == [region : DraftRegions, subnet : VpcSubnets,
                   key : KeyNames \cup {Unset}, ssm : BOOLEAN, dcv : BOOLEAN,
                   ami : BOOLEAN, directory : BOOLEAN]
ASSUME PagesAssumption ==
  /\ Home \in DraftRegions
  /\ RegionOfVpc \in [Vpcs -> DraftRegions] /\ VpcOf \in [VpcSubnets -> Vpcs]
  /\ KeyPairs \in [DraftRegions -> Seq(KeyNames)]
  /\ Unset \notin DraftRegions \cup Vpcs \cup VpcSubnets \cup KeyNames
  /\ MaxLoads \in Nat
  /\ \A t \in LoadedDrafts : /\ t \in Configurations /\ RegionOfSubnet(t.subnet) = t.region

VARIABLES draft,       \* app.wizard
          inWizard,    \* Configure is mounted
          seen,        \* the farthest page since then
          awsRegion,   \* the Region of state.aws
          loads,       \* LoadAwsConfig's requests under way, oldest first
          refreshing,  \* React state of Configure
          pageErrors,  \* app.wizard.errors of these pages
          pagesPast    \* history

pagesVars == <<draft, inWizard, seen, awsRegion, loads, refreshing, pageErrors, pagesPast>>

VersionPage == 1
ClusterPage == 2
HeadNodePage == 3
LaterPages == 4

-----------------------------------------------------------------------------
(* Drafts.                                                                 *)

NoSetup == [page |-> VersionPage, exists |-> FALSE, editing |-> FALSE, loading |-> FALSE,
            region |-> Unset, vpc |-> Unset, subnet |-> Unset, key |-> Unset,
            ssm |-> FALSE, others |-> FALSE, dcv |-> FALSE,
            amiEnabled |-> FALSE, ami |-> FALSE,
            multiUser |-> FALSE, directory |-> {}, database |-> {}]

\* initWizardState; hadAmi says whether the configuration given had an AMI.
Initialised(d, region, hadAmi) ==
  [d EXCEPT !.exists = TRUE, !.region = region, !.amiEnabled = hadAmi]

\* clearWizardState.
ClearedDraft(d) == [NoSetup EXCEPT !.editing = d.editing, !.amiEnabled = d.amiEnabled]

\* wizardShow: an edit is put away, but for its VPC and the marks of its pages.
PutAway(d) ==
  IF ~d.editing THEN d
  ELSE [NoSetup EXCEPT !.vpc = d.vpc, !.amiEnabled = d.amiEnabled,
                       !.multiUser = d.multiUser, !.loading = d.loading]

SubnetsShown(region) == {s \in VpcSubnets : RegionOfSubnet(s) = region}
KeysOf(region) == {KeyPairs[region][i] : i \in DOMAIN KeyPairs[region]}
FirstKey(region) == IF KeyPairs[region] = <<>> THEN Unset ELSE KeyPairs[region][1]
\* A key pair that is not listed, deleted since or none, gives way to the first.
SetKey(key, region) ==
  IF KeyPairs[region] = <<>> \/ key \in KeysOf(region) THEN key ELSE FirstKey(region)

\* What loadTemplateLazy takes from a configuration as it is.
FromTemplate(d, t) ==
  [d EXCEPT !.multiUser = t.directory, !.ami = t.ami, !.amiEnabled = @ \/ t.ami]

\* loadTemplateLazy, when state.aws has the resources of the Region aws.
LoadedDraft(d, t, aws) ==
  [FromTemplate(d, t) EXCEPT
     !.page = VersionPage, !.exists = TRUE, !.loading = FALSE, !.region = t.region,
     !.subnet = t.subnet, !.vpc = IF t.subnet \in SubnetsShown(aws) THEN VpcOf[t.subnet] ELSE @,
     !.key = SetKey(t.key, aws), !.ssm = t.ssm, !.others = FALSE, !.dcv = t.dcv,
     !.directory = IF t.directory THEN DirectoryFields ELSE {}, !.database = {}]

-----------------------------------------------------------------------------
(* What mounting a page does to the draft; the head node's does it again when *)
(* other resources arrive: the first subnet of the VPC, the first key pair.   *)

FirstSubnets(d, aws) == {s \in SubnetsShown(aws) : VpcOf[s] = d.vpc}
WithSubnet(d, aws) ==
  IF d.subnet # Unset \/ FirstSubnets(d, aws) = {} THEN d
  ELSE [d EXCEPT !.subnet = CHOOSE s \in FirstSubnets(d, aws) : TRUE]
BugWithKey(d, aws) == [d EXCEPT !.key = FirstKey(aws)]
WithKey(d, aws) == IF d.key # Unset THEN d ELSE [d EXCEPT !.key = FirstKey(aws)]

PageMounted(d, aws) ==
  IF d.page = ClusterPage /\ ~d.exists THEN Initialised(d, Home, FALSE)
  ELSE IF d.page = HeadNodePage THEN WithKey(WithSubnet(d, aws), aws)
  ELSE d

-----------------------------------------------------------------------------
(* History: what may make a draft disagree with what its pages show.         *)

NewPast == [astray |-> FALSE,   \* the resources were not asked for this draft
            failed |-> FALSE,   \* an answer was lost
            strange |-> FALSE,  \* the VPC was chosen from another Region's, or kept
            moved |-> FALSE,    \* the VPC changed after the subnet was chosen
            removed |-> FALSE,  \* the policy of a session was removed, or not loaded
            skipped |-> {},     \* pages stepped over
            unanswered |-> FALSE,  \* the answer Refresh waits for was lost
            from |-> {}]        \* the configuration loaded
\* The requests under way for the draft there is.
Due == {i \in DOMAIN loads : loads[i].due}
\* A draft of the Region r begins, instead of the one before.
PastOfNew(r) ==
  LET elsewhere == draft.region \notin {r, Unset} IN
  [NewPast EXCEPT !.astray = pagesPast.astray \/ Due # {} \/ elsewhere,
                  !.failed = pagesPast.failed, !.strange = pagesPast.strange \/ elsewhere]
PastOfLoaded(t, aws) ==
  [PastOfNew(t.region) EXCEPT !.strange = t.subnet \notin SubnetsShown(aws),
                              !.moved = t.subnet \notin SubnetsShown(aws),
                              !.removed = t.dcv /\ ~t.ssm, !.from = {t}]

-----------------------------------------------------------------------------
(* LoadAwsConfig's requests.  A load has a draft to fill in or none, a page    *)
(* that waits for it or none, and may be for the Region of the draft.          *)

Loads == [region : DraftRegions, fill : SUBSET LoadedDrafts, waits : BOOLEAN, due : BOOLEAN]
Request(region, fill) == [region |-> region, fill |-> fill, waits |-> FALSE, due |-> TRUE]
Overdue == [i \in DOMAIN loads |-> [loads[i] EXCEPT !.due = FALSE]]
Unawaited(l) == [i \in DOMAIN l |-> [l[i] EXCEPT !.waits = FALSE]]
LoadResources(load, others) == Len(others) < MaxLoads /\ loads' = Append(others, load)

-----------------------------------------------------------------------------
(* Into the wizard, and out of it.                                          *)

EnterWizard(d) ==
  /\ ~inWizard /\ inWizard' = TRUE /\ seen' = d.page
  /\ draft' = PageMounted(d, awsRegion)
  /\ UNCHANGED <<awsRegion, refreshing, pageErrors>>

CreateNew ==
  /\ EnterWizard(PutAway(draft))
  /\ IF draft.editing THEN loads' = Overdue /\ pagesPast' = PastOfNew(Home)
     ELSE UNCHANGED <<loads, pagesPast>>

\* editConfiguration of a cluster of the selected Region, and onCreate.
StartFrom(t, d) ==
  /\ t.region = Home
  /\ EnterWizard(LoadedDraft(d, t, awsRegion))
  /\ loads' = Overdue /\ pagesPast' = PastOfLoaded(t, awsRegion)
Edit(t) == StartFrom(t, [draft EXCEPT !.editing = TRUE])
CreateFrom(t) == StartFrom(t, PutAway(draft))

\* onFileChange loads before wizardShow, so that an edit given up before takes
\* the template along; with another Region only the Region is set at once.
Upload(t) ==
  \/ /\ t.region = Home
     /\ EnterWizard(PutAway(LoadedDraft(draft, t, awsRegion)))
     /\ loads' = Overdue
     /\ pagesPast' = IF draft.editing THEN PastOfNew(Home) ELSE PastOfLoaded(t, awsRegion)
  \/ /\ t.region # Home
     /\ EnterWizard(PutAway([draft EXCEPT !.exists = TRUE, !.loading = TRUE, !.region = t.region]))
     /\ LoadResources(Request(t.region, {t}), Overdue)
     /\ UNCHANGED pagesPast

\* Cancel, Escape, the end of a submission.
CloseWizard ==
  /\ inWizard /\ inWizard' = FALSE /\ draft' = ClearedDraft(draft)
  /\ pageErrors' = {} /\ refreshing' = FALSE /\ loads' = Unawaited(Overdue)
  /\ pagesPast' = [PastOfNew(Home) EXCEPT !.strange = FALSE]
  /\ UNCHANGED <<seen, awsRegion>>

Left == refreshing' = FALSE
\* A link of the side bar leaves the draft as it is.
GoElsewhere ==
  /\ inWizard /\ inWizard' = FALSE /\ Left /\ loads' = Unawaited(loads)
  /\ pagesPast' = [pagesPast EXCEPT !.unanswered = FALSE]
  /\ UNCHANGED <<draft, seen, awsRegion, pageErrors>>

-----------------------------------------------------------------------------
(* The pages.                                                              *)

OnPage(p) == inWizard /\ draft.page = p /\ (p = ClusterPage => ~draft.loading)
NextEnabled == ~refreshing /\ ~draft.loading

ChangeDraft(d) ==
  draft' = d /\ UNCHANGED <<inWizard, seen, awsRegion, loads, refreshing, pageErrors, pagesPast>>
\* A change that history is told of.
ChangeTold(d, told) ==
  /\ draft' = d /\ pagesPast' = told
  /\ UNCHANGED <<inWizard, seen, awsRegion, loads, refreshing, pageErrors>>

\* multiUserValidate.
Missing(d) == IF d.multiUser THEN DirectoryFields \ d.directory ELSE {}
\* slurmAccountingValidateAndSetErrors: of the database all fields or none.
Partial(d) == IF d.database = {} THEN {} ELSE DatabaseFields \ d.database

ClusterFieldErrors(d) ==
  {e \in {"vpc", "customAmi"} :
     \/ e = "vpc" /\ ~d.editing /\ d.vpc = Unset
     \/ e = "customAmi" /\ d.amiEnabled /\ ~d.ami}
\* clusterValidate.
ClusterErrors(d) == ClusterFieldErrors(d) \cup Missing(d) \cup Partial(d)
\* headNodeValidate.
HeadNodeErrors(d) == {e \in {"subnet"} : d.subnet = Unset}
ErrorsOf(d, p) == CASE p = ClusterPage -> ClusterErrors(d)
                    [] p = HeadNodePage -> HeadNodeErrors(d)
                    [] OTHER -> {}

\* What validating the page leaves of the errors: those of the directory stay
\* while its box is not checked (another path is cleared), those of the database
\* until some but not all of its fields are given.
ErrorsLeft(p) ==
  CASE p = ClusterPage ->
         ClusterErrors(draft) \cup (pageErrors \cap {"subnet"})
           \cup (IF draft.multiUser THEN {} ELSE pageErrors \cap DirectoryFields)
           \cup IF Partial(draft) = {} THEN pageErrors \cap DatabaseFields ELSE {}
    [] p = HeadNodePage -> (pageErrors \ {"subnet"}) \cup HeadNodeErrors(draft)
    [] OTHER -> pageErrors

\* setPage, on the page p.
GoToPage(p) ==
  /\ draft' = PageMounted([draft EXCEPT !.page = p], awsRegion)
  /\ seen' = IF p > seen THEN p ELSE seen
  /\ pagesPast' =
       [pagesPast EXCEPT !.skipped =
          IF p < draft.page THEN {q \in @ : q < p}
          ELSE (@ \ {draft.page}) \cup ((draft.page + 1)..(p - 1))]
  /\ UNCHANGED <<inWizard, awsRegion, loads, refreshing>>

\* handleNext.
NextPage ==
  /\ inWizard /\ NextEnabled /\ draft.page < LaterPages
  /\ pageErrors' = ErrorsLeft(draft.page)
  /\ IF ErrorsOf(draft, draft.page) = {} THEN GoToPage(draft.page + 1)
     ELSE UNCHANGED <<draft, inWizard, seen, awsRegion, loads, refreshing, pagesPast>>

\* handlePrev.
PreviousPage ==
  inWizard /\ draft.page > VersionPage /\ pageErrors' = {} /\ GoToPage(draft.page - 1)

BugMayStepTo(p) == p < draft.page \/ pageErrors = {}
MayStepTo(p) == p < draft.page \/ ErrorsOf(draft, draft.page) = {}
\* handleStep: only the page left is validated, however far the step goes.
StepTo(p) ==
  /\ inWizard /\ NextEnabled /\ p # draft.page /\ p <= seen
  /\ pageErrors' = IF p < draft.page THEN pageErrors ELSE ErrorsLeft(draft.page)
  /\ IF MayStepTo(p) THEN GoToPage(p)
     ELSE UNCHANGED <<draft, inWizard, seen, awsRegion, loads, refreshing, pagesPast>>

-----------------------------------------------------------------------------
(* The cluster page.                                                       *)

OnNewCluster == OnPage(ClusterPage) /\ ~draft.editing

BugOfRegion(d, r) == Initialised([d EXCEPT !.subnet = Unset, !.key = Unset], r, d.ami)
\* What RegionSelect's handleChange makes of a draft.
OfRegion(d, r) == Initialised([NoSetup EXCEPT !.page = d.page], r, d.ami)

ChooseRegion(r) ==
  /\ OnNewCluster /\ draft' = OfRegion(draft, r)
  /\ LoadResources(Request(r, {}), Overdue)
  /\ pagesPast' = [NewPast EXCEPT !.failed = pagesPast.failed, !.unanswered = pagesPast.unanswered]
  /\ UNCHANGED <<inWizard, seen, awsRegion, refreshing, pageErrors>>

SetVpc(v) ==
  /\ OnNewCluster /\ RegionOfVpc[v] = awsRegion
  /\ draft' = [draft EXCEPT !.vpc = v] /\ pageErrors' = pageErrors \ {"vpc"}
  /\ pagesPast' = [pagesPast EXCEPT !.strange = awsRegion # draft.region,
                                    !.moved = draft.subnet # Unset]
  /\ UNCHANGED <<inWizard, seen, awsRegion, loads, refreshing>>

\* CustomAMISettings' box and its field, which is enabled in an edit too.
ToggleClusterAmi ==
  OnNewCluster /\ ChangeDraft([draft EXCEPT !.amiEnabled = ~@, !.ami = @ /\ ~draft.amiEnabled])
SetClusterAmi(given) ==
  OnPage(ClusterPage) /\ draft.amiEnabled /\ ChangeDraft([draft EXCEPT !.ami = given])

SingleUser(d) == [d EXCEPT !.multiUser = FALSE, !.directory = {}]
\* handleMultiUserChange.
ToggleMultiUser ==
  OnNewCluster /\ ChangeDraft(IF draft.multiUser THEN SingleUser(draft)
                              ELSE [draft EXCEPT !.multiUser = TRUE])

WithField(S, f, given) == IF given THEN S \cup {f} ELSE S \ {f}
SetDirectory(f, given) ==
  /\ OnPage(ClusterPage) /\ draft.multiUser
  /\ ChangeDraft([draft EXCEPT !.directory = WithField(@, f, given)])
SetDatabase(f, given) ==
  OnPage(ClusterPage) /\ ChangeDraft([draft EXCEPT !.database = WithField(@, f, given)])

-----------------------------------------------------------------------------
(* The head node page.                                                     *)

SelectHeadNodeSubnet(s) ==
  /\ OnPage(HeadNodePage) /\ ~draft.editing /\ s \in SubnetsShown(awsRegion)
  /\ draft.vpc # Unset => VpcOf[s] = draft.vpc
  /\ ChangeTold([draft EXCEPT !.subnet = s],
                [pagesPast EXCEPT !.moved = draft.vpc = Unset])

\* setKeyPair: no key pair, and so a session.
SelectKey(k) ==
  /\ OnPage(HeadNodePage) /\ ~draft.editing
  /\ ChangeDraft([draft EXCEPT !.key = k, !.ssm = @ \/ k = Unset])

BugCanToggleSsm == OnPage(HeadNodePage)
CanToggleSsm == OnPage(HeadNodePage) /\ ~draft.dcv
ToggleSsm == CanToggleSsm /\ ChangeDraft([draft EXCEPT !.ssm = ~@])

\* toggleDcv adds the policy of a session.
ToggleDcv ==
  /\ OnPage(HeadNodePage) /\ ~draft.editing
  /\ ChangeDraft([draft EXCEPT !.dcv = ~@, !.ssm = @ \/ ~draft.dcv])

\* addPolicy and removePolicy.  The policy of a session is listed with the
\* others, because it is compared with ssmPolicy, a function.
AddPolicy(policy) ==
  OnPage(HeadNodePage) /\ ~draft[policy] /\ ChangeDraft([draft EXCEPT ![policy] = TRUE])
RemovePolicy(policy) ==
  /\ OnPage(HeadNodePage) /\ draft[policy]
  /\ ChangeTold([draft EXCEPT ![policy] = FALSE],
                [pagesPast EXCEPT !.removed = @ \/ (policy = "ssm" /\ draft.dcv)])

-----------------------------------------------------------------------------
(* The resources.                                                          *)

\* handleRefresh reads the Region where none is kept, and so asks for those of
\* the selected one.
HandleRefresh ==
  /\ inWizard /\ ~refreshing /\ refreshing' = TRUE
  /\ LoadResources([Request(Home, {}) EXCEPT !.waits = TRUE, !.due = draft.region \in {Home, Unset}],
                   loads)
  /\ UNCHANGED <<draft, inWizard, seen, awsRegion, pageErrors, pagesPast>>

Others(i) == SubSeq(loads, 1, i - 1) \o SubSeq(loads, i + 1, Len(loads))

LoadAnswered(i) ==
  /\ i \in DOMAIN loads /\ awsRegion' = loads[i].region
  /\ refreshing' = (refreshing /\ ~loads[i].waits)
  /\ LET Now(past) == [past EXCEPT !.astray = ~loads[i].due, !.failed = @ /\ ~loads[i].due] IN
     \/ /\ loads[i].fill = {} /\ loads' = Others(i) /\ pagesPast' = Now(pagesPast)
        /\ draft' = IF OnPage(HeadNodePage) THEN PageMounted(draft, awsRegion') ELSE draft
     \/ \E t \in loads[i].fill :
          /\ draft' = LoadedDraft(draft, t, awsRegion')
          /\ loads' = [k \in DOMAIN Others(i) |-> [Others(i)[k] EXCEPT !.due = FALSE]]
          /\ pagesPast' = [Now(PastOfLoaded(t, awsRegion'))
                              EXCEPT !.unanswered = pagesPast.unanswered]
  /\ UNCHANGED <<inWizard, seen, pageErrors>>

\* No callback is called: what waits for the answer goes on waiting.
LoadLost(i) ==
  /\ i \in DOMAIN loads /\ loads' = Others(i)
  /\ pagesPast' = [pagesPast EXCEPT !.failed = TRUE, !.unanswered = @ \/ loads[i].waits]
  /\ UNCHANGED <<draft, inWizard, seen, awsRegion, refreshing, pageErrors>>

-----------------------------------------------------------------------------

PagesInit ==
  /\ draft = NoSetup /\ inWizard = FALSE /\ seen = VersionPage /\ awsRegion = Home
  /\ loads = <<>> /\ refreshing = FALSE /\ pageErrors = {} /\ pagesPast = NewPast

Entrances == \/ CreateNew \/ CloseWizard \/ GoElsewhere
             \/ \E t \in LoadedDrafts : Edit(t) \/ CreateFrom(t) \/ Upload(t)
Turns == NextPage \/ PreviousPage \/ \E p \in VersionPage..LaterPages : StepTo(p)
Places == \/ \E r \in DraftRegions : ChooseRegion(r)
          \/ \E v \in Vpcs : SetVpc(v)
          \/ \E s \in VpcSubnets : SelectHeadNodeSubnet(s)
Boxes == ToggleClusterAmi \/ ToggleMultiUser \/ \E given \in BOOLEAN : SetClusterAmi(given)
TextFields == \E given \in BOOLEAN :
                \/ \E f \in DirectoryFields : SetDirectory(f, given)
                \/ \E f \in DatabaseFields : SetDatabase(f, given)
Access == \/ \E k \in KeysOf(awsRegion) \cup {Unset} : SelectKey(k)
          \/ ToggleSsm \/ ToggleDcv
          \/ \E policy \in {"ssm", "others"} : AddPolicy(policy) \/ RemovePolicy(policy)
Resources == HandleRefresh \/ \E i \in 1..MaxLoads : LoadAnswered(i) \/ LoadLost(i)

PagesNext == Entrances \/ Turns \/ Places \/ Boxes \/ TextFields \/ Access \/ Resources
PagesSpec == PagesInit /\ [][PagesNext]_pagesVars

-----------------------------------------------------------------------------
(* Properties.                                                             *)

Setups == [page : VersionPage..LaterPages, exists : BOOLEAN, editing : BOOLEAN,
           loading : BOOLEAN, region : DraftRegions \cup {Unset}, vpc : Vpcs \cup {Unset},
           subnet : VpcSubnets \cup {Unset},
           key : KeyNames \cup {Unset},
           ssm : BOOLEAN, others : BOOLEAN, dcv : BOOLEAN,
           amiEnabled : BOOLEAN, ami : BOOLEAN, multiUser : BOOLEAN,
           directory : SUBSET DirectoryFields, database : SUBSET DatabaseFields]
PageErrors == {"vpc", "customAmi", "subnet"} \cup DirectoryFields \cup DatabaseFields
\* The draft, the requests and the errors are of the kinds the pages write.
PagesTypeOK ==
  /\ draft \in Setups /\ inWizard \in BOOLEAN /\ seen \in VersionPage..LaterPages
  /\ awsRegion \in DraftRegions /\ loads \in Seq(Loads) /\ Len(loads) <= MaxLoads
  /\ refreshing \in BOOLEAN /\ pageErrors \subseteq PageErrors
  /\ DOMAIN pagesPast = DOMAIN NewPast

\* The resources the pages offer are of the draft's Region, whatever was asked
\* before and in whatever order it is answered, unless the last answer was not
\* asked for this draft or a request was lost.
ResourcesFollowDraft ==
  (/\ draft.exists /\ Due = {}
   /\ ~pagesPast.astray /\ ~pagesPast.failed) => awsRegion = draft.region

\* The VPC is of the Region the draft names, unless it was chosen while another
\* Region's resources were shown, or kept by a template whose subnet was not.
VpcIsOfRegion ==
  (/\ draft.exists /\ ~draft.loading /\ draft.vpc # Unset
   /\ ~pagesPast.strange) => RegionOfVpc[draft.vpc] = draft.region

\* The head node's subnet is of the draft's VPC, whichever of the two came first
\* from a template, a choice or an effect, unless the VPC was chosen again.
SubnetInVpc ==
  (/\ draft.subnet # Unset /\ draft.vpc # Unset
   /\ ~pagesPast.moved) => VpcOf[draft.subnet] = draft.vpc

\* A head node with DCV admits the sessions DCV needs, unless their policy was
\* removed as one of the others or the configuration loaded never had it.
DcvHasSession == draft.dcv /\ ~pagesPast.removed => draft.ssm

\* Behind the page shown every page is as its validation wants it, although the
\* links of the wizard's steps lead back without validation and forward with
\* that of one page: only a page stepped over may be invalid.
PassedPagesAreValid ==
  \A p \in {ClusterPage, HeadNodePage} :
    p < draft.page /\ p \notin pagesPast.skipped => ErrorsOf(draft, p) = {}

\* A draft has a directory only while the box for several users shows it.
DirectoryIsShared == draft.directory # {} => draft.multiUser

\* A custom AMI in the configuration is shown on the page, wherever it came from.
ClusterAmiIsShown == draft.ami => draft.amiEnabled

\* The key pair the cluster has or, if its Region lists it no more, one that it
\* lists; whichever, for a cluster that has none.
KeyKept(key, t) ==
  \/ key = t.key
  \/ t.key = Unset
  \/ t.key \notin KeysOf(t.region) /\ key \in KeysOf(t.region)
\* An edit leaves what an update may not change as the cluster has it, through
\* the effects of the pages and late answers; the key pair so far as it is
\* listed, unless another Region's were when the cluster was loaded.
EditKeepsSetup ==
  draft.editing =>
    \A t \in pagesPast.from :
      /\ draft.region = t.region /\ draft.subnet = t.subnet
      /\ draft.dcv = t.dcv /\ draft.multiUser = t.directory
      /\ KeyKept(draft.key, t) \/ pagesPast.moved

\* Next waits for a refresh only while this wizard has one under way or lost it.
RefreshHasCause ==
  refreshing => pagesPast.unanswered \/ \E i \in DOMAIN loads : loads[i].waits

\* The draft is one its pages can show: DCV with its sessions, a directory and an
\* AMI with the boxes that show them, on every way into and through the wizard.
SetupOK == PagesTypeOK /\ DcvHasSession /\ DirectoryIsShared /\ ClusterAmiIsShown

\* The network of a draft fits: resources, VPC and subnet are of its Region, and of
\* one another, and Next waits for no refresh but its own.
NetworkFits == ResourcesFollowDraft /\ VpcIsOfRegion /\ SubnetInVpc /\ RefreshHasCause
=============================================================================
