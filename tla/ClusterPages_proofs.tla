------------------------- MODULE ClusterPages_proofs -------------------------
(***************************************************************************)
(* Theorems about ClusterPages, for every set of Regions, VPCs, subnets and *)
(* configurations and every bound on the requests.  First the kinds of the  *)
(* variables and the few facts that tie a draft's own fields to one another; *)
(* then that resources and VPC are of the Region the draft is meant for      *)
(* (Meant), even before it has one; then what the pages show.               *)
(***************************************************************************)
EXTENDS ClusterPages, SequenceTheorems, TLAPS

-----------------------------------------------------------------------------
(* The invariant.                                                          *)

Past == [astray : BOOLEAN, failed : BOOLEAN, strange : BOOLEAN, moved : BOOLEAN,
         removed : BOOLEAN, skipped : SUBSET Int, unanswered : BOOLEAN,
         from : SUBSET LoadedDrafts]

\* A draft has a Region once it exists, which is before the cluster page shows it;
\* an edit is loaded at once; only Configure waits for a refresh.
DraftBegun ==
  /\ draft.exists <=> draft.region # Unset
  /\ draft.page = ClusterPage \/ draft.ami => draft.exists
  /\ draft.editing => ~draft.loading
  /\ draft.editing /\ pagesPast.from # {} => draft.exists
  /\ refreshing => inWizard

\* The Region a draft is for: the selected one until it has its own.
Meant(d) == IF d.region = Unset THEN Home ELSE d.region

\* A request fills in a configuration of its Region, or is for the draft there is.
LoadsFit ==
  \A i \in DOMAIN loads :
    /\ loads[i].fill = {} \/ \E t \in LoadedDrafts : loads[i].fill = {t} /\ t.region = loads[i].region
    /\ loads[i].due /\ loads[i].fill = {} => loads[i].region = Meant(draft)
ResourcesFit == Due = {} /\ ~pagesPast.astray /\ ~pagesPast.failed => awsRegion = Meant(draft)
VpcFits ==
  ~draft.loading /\ draft.vpc # Unset /\ ~pagesPast.strange => RegionOfVpc[draft.vpc] = Meant(draft)

Kinds == PagesTypeOK /\ pagesPast \in Past /\ DraftBegun
Regional == LoadsFit /\ ResourcesFit /\ VpcFits
Shown == /\ SubnetInVpc /\ DcvHasSession /\ DirectoryIsShared /\ ClusterAmiIsShown
         /\ RefreshHasCause /\ EditKeepsSetup /\ PassedPagesAreValid
PagesInv == Kinds /\ Regional /\ Shown

-----------------------------------------------------------------------------
(* What the draft's operators do to its fields.                             *)

\* A draft with a field of its kind set is a draft.
LEMMA FieldSet ==
  ASSUME NEW d \in Setups
  PROVE  /\ \A v \in VersionPage..LaterPages : [d EXCEPT !.page = v] \in Setups
         /\ \A v \in BOOLEAN : [d EXCEPT !.exists = v] \in Setups
         /\ \A v \in BOOLEAN : [d EXCEPT !.editing = v] \in Setups
         /\ \A v \in BOOLEAN : [d EXCEPT !.loading = v] \in Setups
         /\ \A v \in DraftRegions \cup {Unset} : [d EXCEPT !.region = v] \in Setups
         /\ \A v \in Vpcs \cup {Unset} : [d EXCEPT !.vpc = v] \in Setups
         /\ \A v \in VpcSubnets \cup {Unset} : [d EXCEPT !.subnet = v] \in Setups
         /\ \A v \in KeyNames \cup {Unset} : [d EXCEPT !.key = v] \in Setups
         /\ \A v \in BOOLEAN : [d EXCEPT !.ssm = v] \in Setups
         /\ \A v \in BOOLEAN : [d EXCEPT !.others = v] \in Setups
         /\ \A v \in BOOLEAN : [d EXCEPT !.dcv = v] \in Setups
         /\ \A v \in BOOLEAN : [d EXCEPT !.amiEnabled = v] \in Setups
         /\ \A v \in BOOLEAN : [d EXCEPT !.ami = v] \in Setups
         /\ \A v \in BOOLEAN : [d EXCEPT !.multiUser = v] \in Setups
         /\ \A v \in SUBSET DirectoryFields : [d EXCEPT !.directory = v] \in Setups
         /\ \A v \in SUBSET DatabaseFields : [d EXCEPT !.database = v] \in Setups
<1>1. \A v \in VersionPage..LaterPages : [d EXCEPT !.page = v] \in Setups
  BY DEF Setups
<1>2. \A v \in BOOLEAN : [d EXCEPT !.exists = v] \in Setups
  BY DEF Setups
<1>3. \A v \in BOOLEAN : [d EXCEPT !.editing = v] \in Setups
  BY DEF Setups
<1>4. \A v \in BOOLEAN : [d EXCEPT !.loading = v] \in Setups
  BY DEF Setups
<1>5. \A v \in DraftRegions \cup {Unset} : [d EXCEPT !.region = v] \in Setups
  BY DEF Setups
<1>6. \A v \in Vpcs \cup {Unset} : [d EXCEPT !.vpc = v] \in Setups
  BY DEF Setups
<1>7. \A v \in VpcSubnets \cup {Unset} : [d EXCEPT !.subnet = v] \in Setups
  BY DEF Setups
<1>8. \A v \in KeyNames \cup {Unset} : [d EXCEPT !.key = v] \in Setups
  BY DEF Setups
<1>9. \A v \in BOOLEAN : [d EXCEPT !.ssm = v] \in Setups
  BY DEF Setups
<1>10. \A v \in BOOLEAN : [d EXCEPT !.others = v] \in Setups
  BY DEF Setups
<1>11. \A v \in BOOLEAN : [d EXCEPT !.dcv = v] \in Setups
  BY DEF Setups
<1>12. \A v \in BOOLEAN : [d EXCEPT !.amiEnabled = v] \in Setups
  BY DEF Setups
<1>13. \A v \in BOOLEAN : [d EXCEPT !.ami = v] \in Setups
  BY DEF Setups
<1>14. \A v \in BOOLEAN : [d EXCEPT !.multiUser = v] \in Setups
  BY DEF Setups
<1>15. \A v \in SUBSET DirectoryFields : [d EXCEPT !.directory = v] \in Setups
  BY DEF Setups
<1>16. \A v \in SUBSET DatabaseFields : [d EXCEPT !.database = v] \in Setups
  BY DEF Setups
<1>17. QED
  BY <1>1, <1>2, <1>3, <1>4, <1>5, <1>6, <1>7, <1>8, <1>9, <1>10, <1>11, <1>12, <1>13, <1>14, <1>15, <1>16

LEMMA KeysTyped ==
  ASSUME NEW r \in DraftRegions
  PROVE  /\ KeysOf(r) \subseteq KeyNames /\ Unset \notin KeysOf(r)
         /\ FirstKey(r) \in KeyNames \cup {Unset}
         /\ KeyPairs[r] # <<>> => FirstKey(r) \in KeysOf(r)
<1> DEFINE pairs == KeyPairs[r]
<1>1. pairs \in Seq(KeyNames) /\ Unset \notin KeyNames
  BY PagesAssumption
<1>2. /\ KeysOf(r) = {pairs[i] : i \in DOMAIN pairs}
      /\ FirstKey(r) = IF pairs = <<>> THEN Unset ELSE pairs[1]
  BY DEF KeysOf, FirstKey
<1> HIDE DEF pairs
<1>3. \A i \in DOMAIN pairs : pairs[i] \in KeyNames
  BY <1>1
<1>4. pairs # <<>> => 1 \in DOMAIN pairs
  BY <1>1
<1>5. QED
  BY <1>1, <1>2, <1>3, <1>4 DEF pairs

\* The first key pair takes the place of one that is not listed only.
LEMMA KeySet ==
  ASSUME NEW t \in LoadedDrafts
  PROVE  KeyKept(SetKey(t.key, t.region), t)
<1>1. t.region \in DraftRegions
  BY PagesAssumption DEF Configurations
<1>2. QED
  BY <1>1, KeysTyped DEF SetKey, KeyKept

\* A key pair that is kept is not set again by the page that sets one that is not.
LEMMA KeyStaysKept ==
  ASSUME NEW t \in LoadedDrafts, NEW k, NEW e, KeyKept(k, t), k # Unset => e = k
  PROVE  KeyKept(e, t)
<1>1. t.region \in DraftRegions
  BY PagesAssumption DEF Configurations
<1>2. QED
  BY <1>1, KeysTyped DEF KeyKept

\* Mounting a page keeps the kinds of the fields, and what history and the other
\* pages know the draft by.
LEMMA MountedFields ==
  ASSUME NEW d \in Setups, NEW aws \in DraftRegions
  PROVE  LET m == PageMounted(d, aws) IN
         /\ m \in Setups
         /\ m.page = d.page /\ m.editing = d.editing /\ m.loading = d.loading
         /\ m.vpc = d.vpc /\ m.ssm = d.ssm /\ m.others = d.others /\ m.dcv = d.dcv
         /\ m.ami = d.ami /\ m.multiUser = d.multiUser
         /\ m.directory = d.directory /\ m.database = d.database
         /\ m.exists = (d.exists \/ d.page = ClusterPage)
         /\ d.exists \/ d.page # ClusterPage => m.region = d.region /\ m.amiEnabled = d.amiEnabled
         /\ ~d.exists /\ d.page = ClusterPage => m.region = Home
         /\ d.subnet # Unset => m.subnet = d.subnet
         /\ m.subnet # d.subnet => VpcOf[m.subnet] = d.vpc
         /\ d.key # Unset => m.key = d.key
<1> DEFINE w == WithSubnet(d, aws)
           k == WithKey(w, aws)
           first == CHOOSE s \in FirstSubnets(d, aws) : TRUE
<1>0. /\ Home \in DraftRegions /\ Unset \notin DraftRegions
  BY PagesAssumption
<1>1. CASE d.page = ClusterPage /\ ~d.exists
  <2>1. PageMounted(d, aws) = Initialised(d, Home, FALSE)
    BY <1>1 DEF PageMounted
  <2>2. QED
    BY <1>0, <1>1, <2>1 DEF Initialised, Setups
<1>2. CASE d.page = HeadNodePage
  <2>1. PageMounted(d, aws) = k
    BY <1>2 DEF PageMounted, ClusterPage, HeadNodePage
  <2>2. FirstSubnets(d, aws) # {} =>
          first \in VpcSubnets /\ VpcOf[first] = d.vpc
    BY DEF FirstSubnets, SubnetsShown
  <2> HIDE DEF first
  <2>3. \/ w = d
        \/ w = [d EXCEPT !.subnet = first] /\ d.subnet = Unset /\ FirstSubnets(d, aws) # {}
    BY DEF WithSubnet, first
  <2> HIDE DEF w
  <2>4. \/ k = w
        \/ k = [w EXCEPT !.key = FirstKey(aws)] /\ w.key = Unset
    BY DEF WithKey
  <2>5. FirstKey(aws) \in KeyNames \cup {Unset}
    BY KeysTyped
  <2> HIDE DEF k
  <2>6. /\ w \in Setups
        /\ w.page = d.page /\ w.exists = d.exists /\ w.editing = d.editing
        /\ w.loading = d.loading /\ w.region = d.region /\ w.vpc = d.vpc /\ w.key = d.key
        /\ w.ssm = d.ssm /\ w.others = d.others /\ w.dcv = d.dcv
        /\ w.amiEnabled = d.amiEnabled /\ w.ami = d.ami /\ w.multiUser = d.multiUser
        /\ w.directory = d.directory /\ w.database = d.database
        /\ w.subnet # d.subnet => d.subnet = Unset /\ VpcOf[w.subnet] = d.vpc
    BY <2>2, <2>3 DEF Setups
  <2>7. /\ k \in Setups
        /\ k.page = w.page /\ k.exists = w.exists /\ k.editing = w.editing
        /\ k.loading = w.loading /\ k.region = w.region /\ k.vpc = w.vpc
        /\ k.subnet = w.subnet /\ k.ssm = w.ssm /\ k.others = w.others /\ k.dcv = w.dcv
        /\ k.amiEnabled = w.amiEnabled /\ k.ami = w.ami /\ k.multiUser = w.multiUser
        /\ k.directory = w.directory /\ k.database = w.database
        /\ k.key # w.key => w.key = Unset
    BY <2>4, <2>5, <2>6 DEF Setups
  <2>8. d.page # ClusterPage
    BY <1>2 DEF ClusterPage, HeadNodePage
  <2>9. QED
    BY <2>1, <2>6, <2>7, <2>8 DEF Setups
<1>3. CASE ~(d.page = ClusterPage /\ ~d.exists) /\ d.page # HeadNodePage
  <2>1. PageMounted(d, aws) = d
    BY <1>3 DEF PageMounted
  <2>2. d.exists \in BOOLEAN
    BY DEF Setups
  <2>3. d.exists = (d.exists \/ d.page = ClusterPage)
    BY <1>3, <2>2
  <2>4. d.exists \/ d.page # ClusterPage
    BY <1>3
  <2>5. QED
    BY <2>1, <2>3, <2>4
<1>4. QED
  BY <1>1, <1>2, <1>3

LEMMA NoSetupFields ==
  /\ NoSetup \in Setups
  /\ NoSetup.page = VersionPage /\ NoSetup.region = Unset /\ NoSetup.vpc = Unset
  /\ NoSetup.subnet = Unset /\ NoSetup.directory = {} /\ NoSetup.exists = FALSE
  /\ NoSetup.editing = FALSE /\ NoSetup.loading = FALSE /\ NoSetup.dcv = FALSE
  /\ NoSetup.ami = FALSE
BY DEF NoSetup, Setups, VersionPage, LaterPages

\* An edit put away leaves a draft that does not exist yet.
LEMMA PutAwayFields ==
  ASSUME NEW d \in Setups
  PROVE  LET m == PutAway(d) IN
         /\ m \in Setups /\ m.editing = FALSE
         /\ m.vpc = d.vpc /\ m.loading = d.loading
         /\ m.amiEnabled = d.amiEnabled /\ m.multiUser = d.multiUser
         /\ ~d.editing => m = d
         /\ d.editing => /\ m.page = VersionPage /\ m.exists = FALSE /\ m.region = Unset
                         /\ m.subnet = Unset /\ m.dcv = FALSE /\ m.ami = FALSE
                         /\ m.directory = {}
<1>1. CASE ~d.editing
  BY <1>1 DEF PutAway, Setups
<1>2. CASE d.editing
  <2> DEFINE m == PutAway(d)
  <2>1. m = [NoSetup EXCEPT !.vpc = d.vpc, !.amiEnabled = d.amiEnabled,
                            !.multiUser = d.multiUser, !.loading = d.loading]
    BY <1>2 DEF PutAway
  <2>2. /\ d.vpc \in Vpcs \cup {Unset} /\ d.amiEnabled \in BOOLEAN
        /\ d.multiUser \in BOOLEAN /\ d.loading \in BOOLEAN
    BY DEF Setups
  <2> HIDE DEF m
  <2>3. m \in Setups
    BY <2>1, <2>2, NoSetupFields DEF Setups
  <2>4. /\ m.vpc = d.vpc /\ m.loading = d.loading /\ m.editing = FALSE
        /\ m.amiEnabled = d.amiEnabled /\ m.multiUser = d.multiUser
        /\ m.page = VersionPage /\ m.exists = FALSE /\ m.region = Unset
        /\ m.subnet = Unset /\ m.dcv = FALSE /\ m.ami = FALSE /\ m.directory = {}
    BY <2>1, NoSetupFields DEF Setups
  <2>5. QED
    BY <1>2, <2>3, <2>4 DEF m
<1>3. QED
  BY <1>1, <1>2

LEMMA ClearedFields ==
  ASSUME NEW d \in Setups
  PROVE  LET m == ClearedDraft(d) IN
         /\ m \in Setups /\ m.editing = d.editing /\ m.page = VersionPage
         /\ m.exists = FALSE /\ m.loading = FALSE /\ m.region = Unset /\ m.vpc = Unset
         /\ m.subnet = Unset /\ m.dcv = FALSE /\ m.ami = FALSE /\ m.directory = {}
BY NoSetupFields DEF ClearedDraft, Setups

LEMMA LoadedFields ==
  ASSUME NEW d \in Setups, NEW t \in LoadedDrafts, NEW aws \in DraftRegions
  PROVE  LET m == LoadedDraft(d, t, aws) IN
         /\ m \in Setups /\ m.editing = d.editing /\ m.page = VersionPage
         /\ m.exists = TRUE /\ m.loading = FALSE /\ m.region = t.region
         /\ m.subnet = t.subnet /\ m.subnet # Unset
         /\ m.dcv = t.dcv /\ m.ssm = t.ssm /\ m.multiUser = t.directory
         /\ m.directory # {} => t.directory
         /\ m.ami => m.amiEnabled
         /\ m.vpc = (IF t.subnet \in SubnetsShown(aws) THEN VpcOf[t.subnet] ELSE d.vpc)
         /\ m.key = SetKey(t.key, aws)
<1> DEFINE m == LoadedDraft(d, t, aws)
           f == FromTemplate(d, t)
<1>1. /\ t \in Configurations /\ RegionOfSubnet(t.subnet) = t.region
      /\ Unset \notin DraftRegions \cup Vpcs \cup VpcSubnets
      /\ VpcOf \in [VpcSubnets -> Vpcs]
  BY PagesAssumption
<1>2. /\ t.region \in DraftRegions /\ t.subnet \in VpcSubnets
      /\ t.key \in KeyNames \cup {Unset}
      /\ t.ssm \in BOOLEAN /\ t.dcv \in BOOLEAN /\ t.ami \in BOOLEAN /\ t.directory \in BOOLEAN
  BY <1>1 DEF Configurations
<1>3. /\ f \in Setups /\ f.editing = d.editing /\ f.vpc = d.vpc
      /\ f.multiUser = t.directory /\ (f.ami => f.amiEnabled)
  <2>1. f = [d EXCEPT !.multiUser = t.directory, !.ami = t.ami, !.amiEnabled = d.amiEnabled \/ t.ami]
    BY DEF FromTemplate
  <2> HIDE DEF f
  <2>2. (d.amiEnabled \/ t.ami) \in BOOLEAN
    OBVIOUS
  <2>3. f \in Setups
    <3> DEFINE f1 == [d EXCEPT !.multiUser = t.directory]
               f2 == [f1 EXCEPT !.ami = t.ami]
               f3 == [f2 EXCEPT !.amiEnabled = d.amiEnabled \/ t.ami]
    <3>1. f = f3
      BY <2>1 DEF Setups
    <3>2. f1 \in Setups
      BY <1>2, FieldSet, Zenon
    <3> HIDE DEF f1
    <3>3. f2 \in Setups
      BY <1>2, <3>2, FieldSet, Zenon
    <3> HIDE DEF f2
    <3>4. f3 \in Setups
      BY <2>2, <3>3, FieldSet, Zenon
    <3>5. QED
      BY <3>1, <3>4, Zenon
  <2>4. /\ f.editing = d.editing /\ f.vpc = d.vpc /\ f.multiUser = t.directory
        /\ f.ami = t.ami /\ f.amiEnabled = (d.amiEnabled \/ t.ami)
    BY <2>1 DEF Setups
  <2>5. QED
    BY <2>3, <2>4
<1>4. SetKey(t.key, aws) \in KeyNames \cup {Unset}
  BY <1>2, KeysTyped DEF SetKey
<1>5. (IF t.subnet \in SubnetsShown(aws) THEN VpcOf[t.subnet] ELSE f.vpc) \in Vpcs \cup {Unset}
  BY <1>1, <1>2, <1>3 DEF Setups
<1>8. m = [f EXCEPT
     !.page = VersionPage, !.exists = TRUE, !.loading = FALSE, !.region = t.region,
     !.subnet = t.subnet, !.vpc = IF t.subnet \in SubnetsShown(aws) THEN VpcOf[t.subnet] ELSE f.vpc,
     !.key = SetKey(t.key, aws), !.ssm = t.ssm, !.others = FALSE, !.dcv = t.dcv,
     !.directory = IF t.directory THEN DirectoryFields ELSE {}, !.database = {}]
  BY <1>3 DEF LoadedDraft, Setups
<1> HIDE DEF f, m
<1>9. /\ m.editing = f.editing /\ m.page = VersionPage
      /\ m.exists = TRUE /\ m.loading = FALSE /\ m.region = t.region
      /\ m.subnet = t.subnet /\ m.dcv = t.dcv /\ m.ssm = t.ssm /\ m.multiUser = f.multiUser
      /\ m.directory = (IF t.directory THEN DirectoryFields ELSE {})
      /\ m.ami = f.ami /\ m.amiEnabled = f.amiEnabled
      /\ m.vpc = (IF t.subnet \in SubnetsShown(aws) THEN VpcOf[t.subnet] ELSE f.vpc)
      /\ m.key = SetKey(t.key, aws)
  BY <1>3, <1>8 DEF Setups
<1>10. m \in Setups
  <2>1. (IF t.directory THEN DirectoryFields ELSE {}) \in SUBSET DirectoryFields
    OBVIOUS
  <2>2. VersionPage \in VersionPage..LaterPages
    BY DEF VersionPage, LaterPages
  <2> DEFINE vpc == IF t.subnet \in SubnetsShown(aws) THEN VpcOf[t.subnet] ELSE f.vpc
             fields == IF t.directory THEN DirectoryFields ELSE {}
             m1 == [f EXCEPT !.page = VersionPage]
             m2 == [m1 EXCEPT !.exists = TRUE]
             m3 == [m2 EXCEPT !.loading = FALSE]
             m4 == [m3 EXCEPT !.region = t.region]
             m5 == [m4 EXCEPT !.subnet = t.subnet]
             m6 == [m5 EXCEPT !.vpc = vpc]
             m7 == [m6 EXCEPT !.key = SetKey(t.key, aws)]
             m8 == [m7 EXCEPT !.ssm = t.ssm]
             m9 == [m8 EXCEPT !.others = FALSE]
             m10 == [m9 EXCEPT !.dcv = t.dcv]
             m11 == [m10 EXCEPT !.directory = fields]
             m12 == [m11 EXCEPT !.database = {}]
  <2>3. vpc \in Vpcs \cup {Unset} /\ fields \in SUBSET DirectoryFields
    BY <1>5, <2>1
  <2>4. m = [f EXCEPT !.page = VersionPage, !.exists = TRUE, !.loading = FALSE,
                      !.region = t.region, !.subnet = t.subnet, !.vpc = vpc,
                      !.key = SetKey(t.key, aws), !.ssm = t.ssm, !.others = FALSE,
                      !.dcv = t.dcv, !.directory = fields, !.database = {}]
    BY <1>8
  <2> HIDE DEF vpc, fields
  <2>5. m = m12
    BY <1>3, <2>4 DEF Setups
  <2>6. /\ t.region \in DraftRegions \cup {Unset} /\ t.subnet \in VpcSubnets \cup {Unset}
        /\ {} \in SUBSET DatabaseFields /\ TRUE \in BOOLEAN /\ FALSE \in BOOLEAN
    BY <1>2
  <2>7. m1 \in Setups
    BY <1>3, <2>2, FieldSet, Zenon
  <2> HIDE DEF m1
  <2>8. m2 \in Setups
    BY <2>6, <2>7, FieldSet, Zenon
  <2> HIDE DEF m2
  <2>9. m3 \in Setups
    BY <2>6, <2>8, FieldSet, Zenon
  <2> HIDE DEF m3
  <2>10. m4 \in Setups
    BY <2>6, <2>9, FieldSet, Zenon
  <2> HIDE DEF m4
  <2>11. m5 \in Setups
    BY <2>6, <2>10, FieldSet, Zenon
  <2> HIDE DEF m5
  <2>12. m6 \in Setups
    BY <2>3, <2>11, FieldSet, Zenon
  <2> HIDE DEF m6
  <2>13. m7 \in Setups
    BY <1>4, <2>12, FieldSet, Zenon
  <2> HIDE DEF m7
  <2>14. m8 \in Setups
    BY <1>2, <2>13, FieldSet, Zenon
  <2> HIDE DEF m8
  <2>15. m9 \in Setups
    BY <2>6, <2>14, FieldSet, Zenon
  <2> HIDE DEF m9
  <2>16. m10 \in Setups
    BY <1>2, <2>15, FieldSet, Zenon
  <2> HIDE DEF m10
  <2>17. m11 \in Setups
    BY <2>3, <2>16, FieldSet, Zenon
  <2> HIDE DEF m11
  <2>18. m12 \in Setups
    BY <2>6, <2>17, FieldSet, Zenon
  <2>19. QED
    BY <2>5, <2>18, Zenon
<1>11. QED
  <2>1. t.subnet # Unset
    BY <1>1, <1>2
  <2>2. m.directory # {} => t.directory
    BY <1>9
  <2>3. QED
    BY <1>2, <1>3, <1>9, <1>10, <2>1, <2>2 DEF m

LEMMA LoadedPage ==
  ASSUME NEW d \in Setups, NEW t \in LoadedDrafts, NEW aws \in DraftRegions
  PROVE  LET m == LoadedDraft(d, t, aws) IN
         /\ m \in Setups /\ m.page = VersionPage
         /\ m.exists = TRUE /\ m.loading = FALSE /\ m.region = t.region
BY LoadedFields, Zenon

LEMMA LoadedVpc ==
  ASSUME NEW d \in Setups, NEW t \in LoadedDrafts, NEW aws \in DraftRegions
  PROVE  LoadedDraft(d, t, aws).vpc = (IF t.subnet \in SubnetsShown(aws) THEN VpcOf[t.subnet] ELSE d.vpc)
BY LoadedFields, Zenon

LEMMA LoadedSubnet ==
  ASSUME NEW t \in LoadedDrafts
  PROVE  t.subnet \in VpcSubnets /\ t.subnet # Unset
<1>1. t \in Configurations /\ Unset \notin VpcSubnets
  BY PagesAssumption
<1>2. QED
  BY <1>1 DEF Configurations

LEMMA LoadedRegion ==
  ASSUME NEW t \in LoadedDrafts
  PROVE  t.region \in DraftRegions /\ t.region # Unset
<1>1. t \in Configurations /\ Unset \notin DraftRegions
  BY PagesAssumption
<1>2. QED
  BY <1>1 DEF Configurations

\* A subnet among those shown brings its VPC, and with it the key pair, along.
LEMMA LoadedAmongShown ==
  ASSUME NEW t \in LoadedDrafts, NEW aws \in DraftRegions, t.subnet \in SubnetsShown(aws)
  PROVE  /\ RegionOfVpc[VpcOf[t.subnet]] = t.region
         /\ aws = t.region
<1>1. /\ t \in Configurations /\ RegionOfSubnet(t.subnet) = t.region
  BY PagesAssumption
<1>2. RegionOfVpc[VpcOf[t.subnet]] = t.region /\ aws = t.region
  BY <1>1 DEF SubnetsShown, RegionOfSubnet
<1>3. QED
  BY <1>2

LEMMA OfRegionFields ==
  ASSUME NEW d \in Setups, NEW r \in DraftRegions
  PROVE  LET m == OfRegion(d, r) IN
         /\ m \in Setups /\ m.page = d.page /\ m.region = r /\ m.exists = TRUE
         /\ m.editing = FALSE /\ m.loading = FALSE /\ m.vpc = Unset /\ m.subnet = Unset
         /\ m.dcv = FALSE /\ m.ami = FALSE /\ m.directory = {}
BY NoSetupFields DEF OfRegion, Initialised, Setups

-----------------------------------------------------------------------------
(* What the operators on requests do.                                       *)

\* A request answered or lost leaves the others, in their order.
LEMMA OthersFields ==
  ASSUME loads \in Seq(Loads), NEW i \in DOMAIN loads
  PROVE  /\ Others(i) \in Seq(Loads) /\ Len(Others(i)) = Len(loads) - 1
         /\ \A k \in DOMAIN Others(i) : \E j \in DOMAIN loads : Others(i)[k] = loads[j]
         /\ \A j \in DOMAIN loads \ {i} : \E k \in DOMAIN Others(i) : Others(i)[k] = loads[j]
<1> DEFINE n == Len(loads)
           before == SubSeq(loads, 1, i - 1)
           after == SubSeq(loads, i + 1, n)
<1>1. /\ i \in 1..n /\ n \in Nat /\ DOMAIN loads = 1..n
      /\ \A j \in 1..n : loads[j] \in Loads
  BY LenProperties
<1>2. /\ before \in Seq(Loads) /\ Len(before) = i - 1
      /\ \A j \in 1..(i - 1) : before[j] = loads[j]
  <2>1. \A j \in 1..(i - 1) : loads[j] \in Loads
    BY <1>1
  <2>2. QED
    BY <1>1, <2>1, SubSeqProperties
<1>3. /\ after \in Seq(Loads) /\ Len(after) = n - i
      /\ \A j \in 1..(n - i) : after[j] = loads[i + j]
  <2>1. \A j \in (i + 1)..n : loads[j] \in Loads
    BY <1>1
  <2>2. QED
    BY <1>1, <2>1, SubSeqProperties
<1>4. Others(i) = before \o after
  BY DEF Others
<1> HIDE DEF n, before, after
<1>5. Len(before) + Len(after) = n - 1
  BY <1>1, <1>2, <1>3
<1>6. /\ before \o after \in Seq(Loads)
      /\ Len(before \o after) = Len(before) + Len(after)
      /\ \A j \in 1..Len(before) + Len(after) : (before \o after)[j] =
           IF j <= Len(before) THEN before[j] ELSE after[j - Len(before)]
  BY <1>2, <1>3, ConcatProperties
<1>7. DOMAIN Others(i) = 1..(n - 1)
  BY <1>4, <1>5, <1>6, LenProperties
<1>8. ASSUME NEW j \in 1..(n - 1)
      PROVE  Others(i)[j] = IF j < i THEN loads[j] ELSE loads[j + 1]
  <2>1. CASE j <= i - 1
    <3>1. j \in 1..(i - 1) /\ j < i
      BY <1>1, <2>1
    <3>2. QED
      BY <1>2, <1>4, <1>5, <1>6, <2>1, <3>1
  <2>2. CASE ~(j <= i - 1)
    <3>1. j - (i - 1) \in 1..(n - i) /\ ~(j < i) /\ i + (j - (i - 1)) = j + 1
      BY <1>1, <2>2
    <3>2. QED
      BY <1>2, <1>3, <1>4, <1>5, <1>6, <2>2, <3>1, SMTT(30)
  <2>3. QED
    BY <2>1, <2>2
<1>9. ASSUME NEW k \in DOMAIN Others(i)
      PROVE  \E j \in DOMAIN loads : Others(i)[k] = loads[j]
  <2>1. k \in 1..n /\ k + 1 \in 1..n
    BY <1>1, <1>7
  <2>2. QED
    BY <1>1, <1>7, <1>8, <2>1
<1>10. ASSUME NEW j \in DOMAIN loads \ {i}
       PROVE  \E k \in DOMAIN Others(i) : Others(i)[k] = loads[j]
  <2>1. CASE j < i
    <3>1. j \in 1..(n - 1)
      BY <1>1, <2>1
    <3>2. QED
      BY <1>7, <1>8, <2>1, <3>1
  <2>2. CASE ~(j < i)
    <3>1. j - 1 \in 1..(n - 1) /\ ~(j - 1 < i) /\ (j - 1) + 1 = j
      BY <1>1, <2>2
    <3>2. QED
      BY <1>7, <1>8, <3>1
  <2>3. QED
    BY <2>1, <2>2
<1>11. Others(i) \in Seq(Loads) /\ Len(Others(i)) = Len(loads) - 1
  BY <1>4, <1>5, <1>6 DEF n
<1>12. QED
  BY <1>9, <1>10, <1>11

\* Requests that are no longer for the draft there is.
Spent(l) == [i \in DOMAIN l |-> [l[i] EXCEPT !.due = FALSE]]

\* Marking requests changes neither their number nor what else they carry.
LEMMA SpentFields ==
  ASSUME NEW l \in Seq(Loads), NEW o, o = Spent(l)
  PROVE  /\ o \in Seq(Loads) /\ Len(o) = Len(l) /\ DOMAIN o = DOMAIN l
         /\ \A i \in DOMAIN l : /\ o[i].due = FALSE /\ o[i].fill = l[i].fill
                               /\ o[i].region = l[i].region /\ o[i].waits = l[i].waits
<1>1. /\ DOMAIN l = 1..Len(l) /\ Len(l) \in Nat
      /\ \A i \in DOMAIN l : l[i] \in Loads
  BY LenProperties
<1>2. \A i \in DOMAIN l : /\ o[i] \in Loads /\ o[i].due = FALSE /\ o[i].fill = l[i].fill
                         /\ o[i].region = l[i].region /\ o[i].waits = l[i].waits
  BY <1>1 DEF Loads, Spent
<1>3. o \in [1..Len(l) -> Loads]
  BY <1>1, <1>2 DEF Spent
<1>4. o \in Seq(Loads) /\ Len(o) = Len(l)
  BY <1>1, <1>3, IsASeq, LenProperties
<1>5. QED
  BY <1>1, <1>2, <1>3, <1>4

LEMMA OverdueFields ==
  ASSUME loads \in Seq(Loads)
  PROVE  /\ Overdue \in Seq(Loads) /\ Len(Overdue) = Len(loads) /\ DOMAIN Overdue = DOMAIN loads
         /\ \A i \in DOMAIN loads :
              /\ Overdue[i].due = FALSE /\ Overdue[i].fill = loads[i].fill
              /\ Overdue[i].region = loads[i].region /\ Overdue[i].waits = loads[i].waits
<1>1. Overdue = Spent(loads)
  BY DEF Overdue, Spent
<1>2. QED
  BY <1>1, SpentFields

LEMMA UnawaitedFields ==
  ASSUME NEW l \in Seq(Loads), NEW u, u = Unawaited(l)
  PROVE  /\ u \in Seq(Loads) /\ Len(u) = Len(l) /\ DOMAIN u = DOMAIN l
         /\ \A i \in DOMAIN l : /\ u[i].due = l[i].due /\ u[i].fill = l[i].fill
                               /\ u[i].region = l[i].region
<1>1. /\ DOMAIN l = 1..Len(l) /\ Len(l) \in Nat
      /\ \A i \in DOMAIN l : l[i] \in Loads
  BY LenProperties
<1>2. u = [i \in DOMAIN l |-> [l[i] EXCEPT !.waits = FALSE]]
  BY DEF Unawaited
<1>3. ASSUME NEW i \in DOMAIN l
      PROVE  /\ u[i] \in Loads /\ u[i].due = l[i].due /\ u[i].fill = l[i].fill
             /\ u[i].region = l[i].region
  <2>1. u[i] = [l[i] EXCEPT !.waits = FALSE] /\ l[i] \in Loads
    BY <1>1, <1>2
  <2>2. QED
    BY <2>1 DEF Loads
<1>4. u \in [1..Len(l) -> Loads]
  BY <1>1, <1>2, <1>3
<1>5. u \in Seq(Loads) /\ Len(u) = Len(l)
  BY <1>1, <1>4, IsASeq, LenProperties
<1>6. QED
  BY <1>1, <1>3, <1>4, <1>5

\* A request made comes after the others.
LEMMA RequestMade ==
  ASSUME NEW o \in Seq(Loads), NEW l \in Loads
  PROVE  LET a == Append(o, l) IN
         /\ a \in Seq(Loads) /\ Len(a) = Len(o) + 1
         /\ \A i \in DOMAIN o : i \in DOMAIN a /\ a[i] = o[i]
         /\ \E i \in DOMAIN a : a[i] = l
         /\ \A i \in DOMAIN a : a[i] = l \/ (i \in DOMAIN o /\ a[i] = o[i])
<1> DEFINE a == Append(o, l)
<1>1. /\ a \in Seq(Loads) /\ Len(a) = Len(o) + 1
      /\ \A i \in 1..Len(o) : a[i] = o[i]
      /\ a[Len(o) + 1] = l
  BY AppendProperties
<1>2. DOMAIN o = 1..Len(o) /\ Len(o) \in Nat
  BY LenProperties
<1> HIDE DEF a
<1>3. DOMAIN a = 1..Len(a)
  BY <1>1, LenProperties
<1>4. /\ \A i \in DOMAIN o : i \in DOMAIN a /\ i \in 1..Len(o)
      /\ Len(o) + 1 \in DOMAIN a
      /\ \A i \in DOMAIN a : i = Len(o) + 1 \/ i \in DOMAIN o
  BY <1>1, <1>2, <1>3
<1>5. QED
  BY <1>1, <1>4 DEF a

-----------------------------------------------------------------------------
(* What the operators on the history do.                                    *)

LEMMA PastOfNewFields ==
  ASSUME pagesPast \in Past, NEW r
  PROVE  LET m == PastOfNew(r) IN
         /\ m \in Past
         /\ m.astray = (pagesPast.astray \/ Due # {} \/ draft.region \notin {r, Unset})
         /\ m.failed = pagesPast.failed
         /\ m.strange = (pagesPast.strange \/ draft.region \notin {r, Unset})
         /\ m.moved = FALSE /\ m.removed = FALSE /\ m.skipped = {}
         /\ m.unanswered = FALSE /\ m.from = {}
<1> DEFINE a == pagesPast.astray \/ Due # {} \/ draft.region \notin {r, Unset}
           s == pagesPast.strange \/ draft.region \notin {r, Unset}
           m == PastOfNew(r)
<1>1. m = [NewPast EXCEPT !.astray = a, !.failed = pagesPast.failed, !.strange = s]
  BY DEF PastOfNew
<1>2. a \in BOOLEAN /\ s \in BOOLEAN /\ pagesPast.failed \in BOOLEAN
  BY DEF Past
<1> HIDE DEF a, s, m
<1>3. m \in Past
  BY <1>1, <1>2 DEF NewPast, Past
<1>4. /\ m.astray = a /\ m.failed = pagesPast.failed /\ m.strange = s
      /\ m.moved = FALSE /\ m.removed = FALSE /\ m.skipped = {}
      /\ m.unanswered = FALSE /\ m.from = {}
  BY <1>1 DEF NewPast
<1>5. QED
  BY <1>3, <1>4 DEF a, s, m

LEMMA PastOfLoadedFields ==
  ASSUME pagesPast \in Past, NEW t \in LoadedDrafts, NEW aws
  PROVE  LET m == PastOfLoaded(t, aws) IN
         /\ m \in Past
         /\ m.astray = (pagesPast.astray \/ Due # {} \/ draft.region \notin {t.region, Unset})
         /\ m.failed = pagesPast.failed
         /\ m.strange = (t.subnet \notin SubnetsShown(aws))
         /\ m.moved = (t.subnet \notin SubnetsShown(aws))
         /\ m.removed = (t.dcv /\ ~t.ssm) /\ m.skipped = {}
         /\ m.unanswered = FALSE /\ m.from = {t}
<1> DEFINE n == PastOfNew(t.region)
           e == t.subnet \notin SubnetsShown(aws)
           w == t.dcv /\ ~t.ssm
           m == PastOfLoaded(t, aws)
<1>1. m = [n EXCEPT !.strange = e, !.moved = e, !.removed = w, !.from = {t}]
  BY DEF PastOfLoaded
<1>2. e \in BOOLEAN /\ w \in BOOLEAN /\ {t} \in SUBSET LoadedDrafts
  OBVIOUS
<1>3. /\ n \in Past
      /\ n.astray = (pagesPast.astray \/ Due # {} \/ draft.region \notin {t.region, Unset})
      /\ n.failed = pagesPast.failed /\ n.skipped = {} /\ n.unanswered = FALSE
  BY PastOfNewFields
<1> HIDE DEF n, e, w, m
<1>4. m \in Past
  BY <1>1, <1>2, <1>3 DEF Past
<1>5. /\ m.astray = n.astray /\ m.failed = n.failed /\ m.strange = e /\ m.moved = e
      /\ m.removed = w /\ m.skipped = n.skipped /\ m.unanswered = n.unanswered /\ m.from = {t}
  BY <1>1, <1>3 DEF Past
<1>6. QED
  BY <1>3, <1>4, <1>5 DEF n, e, w, m

\* An answer sets the resources' Region, and either fills in nothing or loads the
\* one configuration its request is for.
LEMMA AnswerFields ==
  ASSUME pagesPast \in Past, loads \in Seq(Loads), NEW i, LoadAnswered(i),
         \A t \in loads[i].fill : t \in LoadedDrafts
  PROVE  /\ i \in DOMAIN loads /\ awsRegion' = loads[i].region
         /\ refreshing' = (refreshing /\ ~loads[i].waits)
         /\ UNCHANGED <<inWizard, seen, pageErrors>>
         /\ pagesPast' \in Past
         /\ pagesPast'.astray = ~loads[i].due
         /\ pagesPast'.failed = (pagesPast.failed /\ ~loads[i].due)
         /\ pagesPast'.unanswered = pagesPast.unanswered
         /\ \/ /\ loads[i].fill = {} /\ loads' = Others(i)
               /\ draft' \in {draft, PageMounted(draft, awsRegion')}
               /\ draft' # draft => OnPage(HeadNodePage)
               /\ pagesPast'.strange = pagesPast.strange /\ pagesPast'.moved = pagesPast.moved
               /\ pagesPast'.removed = pagesPast.removed
               /\ pagesPast'.skipped = pagesPast.skipped /\ pagesPast'.from = pagesPast.from
            \/ \E t \in loads[i].fill :
                 /\ draft' = LoadedDraft(draft, t, awsRegion')
                 /\ loads' = [k \in DOMAIN Others(i) |-> [Others(i)[k] EXCEPT !.due = FALSE]]
                 /\ pagesPast'.strange = (t.subnet \notin SubnetsShown(awsRegion'))
                 /\ pagesPast'.moved = (t.subnet \notin SubnetsShown(awsRegion'))
                 /\ pagesPast'.removed = (t.dcv /\ ~t.ssm)
                 /\ pagesPast'.skipped = {} /\ pagesPast'.from = {t}
<1>1. /\ i \in DOMAIN loads /\ awsRegion' = loads[i].region
      /\ refreshing' = (refreshing /\ ~loads[i].waits)
      /\ UNCHANGED <<inWizard, seen, pageErrors>>
  BY DEF LoadAnswered
<1>2. loads[i] \in Loads
  BY <1>1, LenProperties
<1>3. loads[i].due \in BOOLEAN
  BY <1>2 DEF Loads
<1> DEFINE due == loads[i].due
<1>4. CASE /\ loads[i].fill = {} /\ loads' = Others(i)
           /\ pagesPast' = [pagesPast EXCEPT !.astray = ~due, !.failed = @ /\ ~due]
           /\ draft' = IF OnPage(HeadNodePage) THEN PageMounted(draft, awsRegion') ELSE draft
  <2>1. pagesPast' = [pagesPast EXCEPT !.astray = ~due, !.failed = pagesPast.failed /\ ~due]
    BY <1>4
  <2> DEFINE f == pagesPast.failed /\ ~due
             a == ~due
  <2>2. f \in BOOLEAN /\ a \in BOOLEAN
    OBVIOUS
  <2>3. pagesPast' = [pagesPast EXCEPT !.astray = a, !.failed = f]
    BY <2>1
  <2> HIDE DEF f, a
  <2>4. pagesPast' \in Past
    BY <2>2, <2>3 DEF Past
  <2>5. /\ pagesPast'.astray = a /\ pagesPast'.failed = f
        /\ pagesPast'.unanswered = pagesPast.unanswered
        /\ pagesPast'.strange = pagesPast.strange /\ pagesPast'.moved = pagesPast.moved
        /\ pagesPast'.removed = pagesPast.removed
        /\ pagesPast'.skipped = pagesPast.skipped /\ pagesPast'.from = pagesPast.from
    BY <2>3 DEF Past
  <2>6. /\ draft' \in {draft, PageMounted(draft, awsRegion')}
        /\ draft' # draft => OnPage(HeadNodePage)
    BY <1>4
  <2>7. QED
    BY <1>1, <1>4, <2>4, <2>5, <2>6 DEF f, a
<1>5. ASSUME NEW t \in loads[i].fill,
             draft' = LoadedDraft(draft, t, awsRegion'),
             loads' = [k \in DOMAIN Others(i) |-> [Others(i)[k] EXCEPT !.due = FALSE]],
             pagesPast' = [[PastOfLoaded(t, awsRegion') EXCEPT !.astray = ~due, !.failed = @ /\ ~due]
                             EXCEPT !.unanswered = pagesPast.unanswered]
      PROVE  /\ pagesPast' \in Past /\ pagesPast'.astray = ~due
             /\ pagesPast'.failed = (pagesPast.failed /\ ~due)
             /\ pagesPast'.unanswered = pagesPast.unanswered
             /\ pagesPast'.strange = (t.subnet \notin SubnetsShown(awsRegion'))
             /\ pagesPast'.moved = (t.subnet \notin SubnetsShown(awsRegion'))
             /\ pagesPast'.removed = (t.dcv /\ ~t.ssm)
             /\ pagesPast'.skipped = {} /\ pagesPast'.from = {t}
  <2> DEFINE l == PastOfLoaded(t, awsRegion')
             f == pagesPast.failed /\ ~due
             a == ~due
             m == [l EXCEPT !.astray = a, !.failed = f]
  <2>1. /\ l \in Past /\ l.failed = pagesPast.failed
        /\ l.strange = (t.subnet \notin SubnetsShown(awsRegion'))
        /\ l.moved = (t.subnet \notin SubnetsShown(awsRegion'))
        /\ l.removed = (t.dcv /\ ~t.ssm) /\ l.skipped = {} /\ l.from = {t}
    <3>1. t \in LoadedDrafts
      OBVIOUS
    <3>2. QED
      BY <3>1, PastOfLoadedFields
  <2>2. f \in BOOLEAN /\ a \in BOOLEAN /\ pagesPast.unanswered \in BOOLEAN
    BY DEF Past
  <2>3. pagesPast' = [m EXCEPT !.unanswered = pagesPast.unanswered]
    BY <1>5, <2>1
  <2> HIDE DEF l, f, a
  <2>4. /\ m \in Past /\ m.astray = a /\ m.failed = f /\ m.strange = l.strange
        /\ m.moved = l.moved /\ m.removed = l.removed /\ m.skipped = l.skipped /\ m.from = l.from
    BY <2>1, <2>2 DEF Past
  <2> HIDE DEF m
  <2>5. /\ pagesPast' \in Past /\ pagesPast'.astray = m.astray /\ pagesPast'.failed = m.failed
        /\ pagesPast'.unanswered = pagesPast.unanswered
        /\ pagesPast'.strange = m.strange /\ pagesPast'.moved = m.moved
        /\ pagesPast'.removed = m.removed /\ pagesPast'.skipped = m.skipped
        /\ pagesPast'.from = m.from
    BY <2>2, <2>3, <2>4 DEF Past
  <2>6. QED
    BY <2>1, <2>4, <2>5 DEF f, a
<1>6. QED
  <2>1. \/ /\ loads[i].fill = {} /\ loads' = Others(i)
           /\ pagesPast' = [pagesPast EXCEPT !.astray = ~due, !.failed = @ /\ ~due]
           /\ draft' = IF OnPage(HeadNodePage) THEN PageMounted(draft, awsRegion') ELSE draft
        \/ \E t \in loads[i].fill :
             /\ draft' = LoadedDraft(draft, t, awsRegion')
             /\ loads' = [k \in DOMAIN Others(i) |-> [Others(i)[k] EXCEPT !.due = FALSE]]
             /\ pagesPast' = [[PastOfLoaded(t, awsRegion') EXCEPT !.astray = ~due, !.failed = @ /\ ~due]
                                EXCEPT !.unanswered = pagesPast.unanswered]
    BY DEF LoadAnswered
  <2>2. ASSUME NEW t \in loads[i].fill,
               draft' = LoadedDraft(draft, t, awsRegion'),
               loads' = [k \in DOMAIN Others(i) |-> [Others(i)[k] EXCEPT !.due = FALSE]],
               pagesPast' = [[PastOfLoaded(t, awsRegion') EXCEPT !.astray = ~due, !.failed = @ /\ ~due]
                               EXCEPT !.unanswered = pagesPast.unanswered]
        PROVE  /\ pagesPast' \in Past
               /\ pagesPast'.astray = ~loads[i].due
               /\ pagesPast'.failed = (pagesPast.failed /\ ~loads[i].due)
               /\ pagesPast'.unanswered = pagesPast.unanswered
               /\ \E u \in loads[i].fill :
                    /\ draft' = LoadedDraft(draft, u, awsRegion')
                    /\ loads' = [k \in DOMAIN Others(i) |-> [Others(i)[k] EXCEPT !.due = FALSE]]
                    /\ pagesPast'.strange = (u.subnet \notin SubnetsShown(awsRegion'))
                    /\ pagesPast'.moved = (u.subnet \notin SubnetsShown(awsRegion'))
                    /\ pagesPast'.removed = (u.dcv /\ ~u.ssm)
                    /\ pagesPast'.skipped = {} /\ pagesPast'.from = {u}
    <3>1. /\ pagesPast' \in Past /\ pagesPast'.astray = ~due
          /\ pagesPast'.failed = (pagesPast.failed /\ ~due)
          /\ pagesPast'.unanswered = pagesPast.unanswered
          /\ pagesPast'.strange = (t.subnet \notin SubnetsShown(awsRegion'))
          /\ pagesPast'.moved = (t.subnet \notin SubnetsShown(awsRegion'))
          /\ pagesPast'.removed = (t.dcv /\ ~t.ssm)
          /\ pagesPast'.skipped = {} /\ pagesPast'.from = {t}
      BY <1>5, <2>2, Zenon
    <3>2. QED
      BY <2>2, <3>1
  <2> HIDE DEF due
  <2>3. CASE \E t \in loads[i].fill :
             /\ draft' = LoadedDraft(draft, t, awsRegion')
             /\ loads' = [k \in DOMAIN Others(i) |-> [Others(i)[k] EXCEPT !.due = FALSE]]
             /\ pagesPast' = [[PastOfLoaded(t, awsRegion') EXCEPT !.astray = ~due, !.failed = @ /\ ~due]
                                EXCEPT !.unanswered = pagesPast.unanswered]
    BY <1>1, <2>2, <2>3, Zenon
  <2>4. QED
    BY <1>4, <2>1, <2>3, Zenon

-----------------------------------------------------------------------------
(* The kinds.                                                              *)

LEMMA KindFields ==
  ASSUME Kinds
  PROVE  /\ draft \in Setups /\ inWizard \in BOOLEAN /\ seen \in VersionPage..LaterPages
         /\ awsRegion \in DraftRegions /\ loads \in Seq(Loads) /\ Len(loads) <= MaxLoads
         /\ refreshing \in BOOLEAN /\ pageErrors \subseteq PageErrors /\ pagesPast \in Past
         /\ draft.page \in VersionPage..LaterPages /\ draft.exists \in BOOLEAN
         /\ draft.editing \in BOOLEAN /\ draft.loading \in BOOLEAN
         /\ draft.region \in DraftRegions \cup {Unset} /\ draft.vpc \in Vpcs \cup {Unset}
         /\ draft.subnet \in VpcSubnets \cup {Unset}
         /\ draft.ssm \in BOOLEAN /\ draft.others \in BOOLEAN /\ draft.dcv \in BOOLEAN
         /\ draft.amiEnabled \in BOOLEAN /\ draft.ami \in BOOLEAN /\ draft.multiUser \in BOOLEAN
         /\ draft.directory \in SUBSET DirectoryFields
         /\ draft.database \in SUBSET DatabaseFields
         /\ pagesPast.astray \in BOOLEAN /\ pagesPast.failed \in BOOLEAN
         /\ pagesPast.strange \in BOOLEAN /\ pagesPast.moved \in BOOLEAN
         /\ pagesPast.removed \in BOOLEAN /\ pagesPast.skipped \subseteq Int
         /\ pagesPast.unanswered \in BOOLEAN /\ pagesPast.from \subseteq LoadedDrafts
         /\ DraftBegun
BY DEF Kinds, PagesTypeOK, Setups, Past

\* What a step must show of the kinds.
LEMMA KindsStep ==
  ASSUME Kinds,
         draft' \in Setups, inWizard' \in BOOLEAN, seen' \in VersionPage..LaterPages,
         awsRegion' \in DraftRegions, loads' \in Seq(Loads), Len(loads') <= MaxLoads,
         refreshing' \in BOOLEAN, pageErrors' \subseteq PageErrors, pagesPast' \in Past,
         DraftBegun'
  PROVE  Kinds'
<1>1. DOMAIN pagesPast' = DOMAIN NewPast
  BY DEF Past, NewPast
<1>2. QED
  BY <1>1 DEF Kinds, PagesTypeOK, PageErrors, Setups

LEMMA DraftBegunStep ==
  ASSUME DraftBegun, draft'.page = draft.page, draft'.exists = draft.exists,
         draft'.region = draft.region, draft'.editing = draft.editing,
         draft'.loading = draft.loading, draft'.ami => draft.exists,
         pagesPast'.from = pagesPast.from, UNCHANGED <<inWizard, refreshing>>
  PROVE  DraftBegun'
BY DEF DraftBegun

LEMMA ErrorsLeftKinds ==
  ASSUME Kinds, NEW p
  PROVE  ErrorsLeft(p) \subseteq PageErrors
<1>1. pageErrors \subseteq PageErrors
  BY KindFields
<1>2. ClusterFieldErrors(draft) \subseteq {"vpc", "customAmi"}
  BY DEF ClusterFieldErrors
<1>3. Missing(draft) \subseteq DirectoryFields /\ Partial(draft) \subseteq DatabaseFields
  BY DEF Missing, Partial
<1>4. ClusterErrors(draft) \subseteq PageErrors
  BY <1>2, <1>3 DEF ClusterErrors, PageErrors
<1>5. HeadNodeErrors(draft) \subseteq PageErrors
  BY DEF HeadNodeErrors, PageErrors
<1>6. p = ClusterPage => ErrorsLeft(p) \subseteq PageErrors
  <2> DEFINE of == IF Partial(draft) = {} THEN pageErrors \cap DatabaseFields ELSE {}
             shared == IF draft.multiUser THEN {} ELSE pageErrors \cap DirectoryFields
  <2>1. of \subseteq PageErrors /\ shared \subseteq PageErrors
    BY <1>1
  <2>2. p = ClusterPage =>
          ErrorsLeft(p) =
            ((ClusterErrors(draft) \cup (pageErrors \cap {"subnet"})) \cup shared) \cup of
    BY DEF ErrorsLeft, ClusterPage, HeadNodePage
  <2> HIDE DEF of, shared
  <2>3. QED
    BY <1>1, <1>4, <2>1, <2>2
<1>7. p = HeadNodePage => ErrorsLeft(p) \subseteq PageErrors
  BY <1>1, <1>5 DEF ErrorsLeft, ClusterPage, HeadNodePage
<1>8. p \notin {ClusterPage, HeadNodePage} => ErrorsLeft(p) \subseteq PageErrors
  BY <1>1 DEF ErrorsLeft
<1>9. QED
  BY <1>6, <1>7, <1>8

\* Turning to a page, wherever it is turned from.
LEMMA TurnKinds ==
  ASSUME Kinds, NEW p \in VersionPage..LaterPages, GoToPage(p),
         pageErrors' \subseteq PageErrors
  PROVE  Kinds'
<1>0. USE KindFields
<1> DEFINE d == [draft EXCEPT !.page = p]
           m == PageMounted(d, awsRegion)
<1>1. /\ d \in Setups /\ d.page = p /\ d.exists = draft.exists /\ d.region = draft.region
      /\ d.editing = draft.editing /\ d.loading = draft.loading /\ d.ami = draft.ami
  BY DEF Setups
<1> HIDE DEF d
<1>2. /\ m \in Setups /\ m.page = p /\ m.editing = draft.editing
      /\ m.loading = draft.loading /\ m.ami = draft.ami
      /\ m.exists = (draft.exists \/ p = ClusterPage)
      /\ draft.exists \/ p # ClusterPage => m.region = draft.region
      /\ ~draft.exists /\ p = ClusterPage => m.region = Home
  BY <1>1, MountedFields
<1>3. draft' = m /\ UNCHANGED <<inWizard, awsRegion, loads, refreshing>>
  BY DEF GoToPage, d
<1>4. seen' \in VersionPage..LaterPages
  BY DEF GoToPage
<1>5. pagesPast' \in Past /\ pagesPast'.from = pagesPast.from
  <2> DEFINE q == IF p < draft.page THEN {r \in pagesPast.skipped : r < p}
                  ELSE (pagesPast.skipped \ {draft.page}) \cup ((draft.page + 1)..(p - 1))
  <2>1. q \subseteq Int
    BY DEF VersionPage, LaterPages
  <2>2. pagesPast' = [pagesPast EXCEPT !.skipped = q]
    BY DEF GoToPage
  <2> HIDE DEF q
  <2>3. QED
    BY <2>1, <2>2 DEF Past
<1>6. DraftBegun'
  <2>1. Home # Unset
    BY PagesAssumption
  <2> HIDE DEF m
  <2>2. /\ draft.exists <=> draft.region # Unset
        /\ draft.page = ClusterPage \/ draft.ami => draft.exists
        /\ draft.editing => ~draft.loading
        /\ draft.editing /\ pagesPast.from # {} => draft.exists
        /\ refreshing => inWizard
    BY DEF DraftBegun
  <2>3. m.exists <=> draft.exists \/ p = ClusterPage
    BY <1>2
  <2>4. m.exists <=> m.region # Unset
    BY <1>2, <2>1, <2>2, <2>3
  <2>5. /\ m.page = ClusterPage \/ m.ami => m.exists
        /\ m.editing => ~m.loading
        /\ m.editing /\ pagesPast'.from # {} => m.exists
    BY <1>2, <1>5, <2>2, <2>3
  <2>6. QED
    BY <1>3, <2>2, <2>4, <2>5 DEF DraftBegun
<1>7. QED
  BY <1>2, <1>3, <1>4, <1>5, <1>6, KindsStep

\* Into the wizard with a draft as it is.
LEMMA EntranceKinds ==
  ASSUME Kinds, NEW d \in Setups, EnterWizard(d),
         d.exists <=> d.region # Unset, d.page = ClusterPage \/ d.ami => d.exists,
         d.editing => ~d.loading, d.editing /\ pagesPast'.from # {} => d.exists,
         loads' \in Seq(Loads), Len(loads') <= MaxLoads, pagesPast' \in Past
  PROVE  Kinds'
<1>0. USE KindFields
<1> DEFINE m == PageMounted(d, awsRegion)
<1>1. /\ m \in Setups /\ m.page = d.page /\ m.editing = d.editing
      /\ m.loading = d.loading /\ m.ami = d.ami
      /\ m.exists = (d.exists \/ d.page = ClusterPage)
      /\ d.exists \/ d.page # ClusterPage => m.region = d.region
      /\ ~d.exists /\ d.page = ClusterPage => m.region = Home
  BY MountedFields
<1>2. /\ ~inWizard /\ inWizard' = TRUE /\ seen' = d.page /\ draft' = m
      /\ UNCHANGED <<awsRegion, refreshing, pageErrors>>
  BY DEF EnterWizard
<1>3. d.page \in VersionPage..LaterPages
  BY DEF Setups
<1> HIDE DEF m
<1>4. DraftBegun'
  BY <1>1, <1>2 DEF DraftBegun
<1>5. QED
  BY <1>1, <1>2, <1>3, <1>4, KindsStep

\* A step of a page that leaves the draft's Region and page alone.
LEMMA FieldKinds ==
  ASSUME Kinds, draft' \in Setups, draft'.page = draft.page, draft'.exists = draft.exists,
         draft'.region = draft.region, draft'.editing = draft.editing,
         draft'.loading = draft.loading, draft'.ami => draft.exists,
         pagesPast' \in Past, pagesPast'.from = pagesPast.from, pageErrors' \subseteq PageErrors,
         UNCHANGED <<inWizard, seen, awsRegion, loads, refreshing>>
  PROVE  Kinds'
<1>1. DraftBegun'
  BY KindFields, DraftBegunStep
<1>2. QED
  BY KindFields, <1>1, KindsStep

LEMMA EntrancesKinds ==
  ASSUME Kinds, Entrances
  PROVE  Kinds'
<1>0. /\ draft \in Setups /\ inWizard \in BOOLEAN /\ seen \in VersionPage..LaterPages
      /\ awsRegion \in DraftRegions /\ loads \in Seq(Loads) /\ Len(loads) <= MaxLoads
      /\ refreshing \in BOOLEAN /\ pageErrors \subseteq PageErrors /\ pagesPast \in Past
      /\ draft.editing \in BOOLEAN
  BY KindFields
<1> USE <1>0
<1>1. /\ draft.exists <=> draft.region # Unset
      /\ draft.page = ClusterPage \/ draft.ami => draft.exists
      /\ draft.editing => ~draft.loading
      /\ draft.editing /\ pagesPast.from # {} => draft.exists
      /\ refreshing => inWizard
  BY KindFields DEF DraftBegun
<1>2. /\ Overdue \in Seq(Loads) /\ Len(Overdue) = Len(loads)
  BY OverdueFields
<1>3. VersionPage # ClusterPage /\ Home # Unset /\ MaxLoads \in Nat /\ Home \in DraftRegions
  BY PagesAssumption DEF VersionPage, ClusterPage
<1>4. /\ PutAway(draft) \in Setups /\ PutAway(draft).editing = FALSE
      /\ ~draft.editing => PutAway(draft) = draft
      /\ draft.editing => /\ PutAway(draft).page = VersionPage /\ PutAway(draft).exists = FALSE
                          /\ PutAway(draft).region = Unset /\ PutAway(draft).ami = FALSE
  BY PutAwayFields
<1>5. ASSUME CreateNew PROVE Kinds'
  <2> DEFINE d == PutAway(draft)
  <2>1. /\ d \in Setups /\ (d.exists <=> d.region # Unset)
        /\ d.page = ClusterPage \/ d.ami => d.exists
        /\ d.editing = FALSE
    BY <1>1, <1>3, <1>4
  <2> HIDE DEF d
  <2>2. PastOfNew(Home) \in Past
    BY PastOfNewFields
  <2>3. /\ loads' \in Seq(Loads) /\ Len(loads') <= MaxLoads /\ pagesPast' \in Past
        /\ EnterWizard(d)
    BY <1>2, <1>5, <2>2 DEF CreateNew, d
  <2>4. QED
    BY <2>1, <2>3, EntranceKinds
<1>6. ASSUME NEW t \in LoadedDrafts, NEW e \in Setups, StartFrom(t, e) PROVE Kinds'
  <2> DEFINE d == LoadedDraft(e, t, awsRegion)
  <2>1. /\ d \in Setups /\ d.exists = TRUE /\ d.region = t.region
        /\ d.page = VersionPage /\ d.loading = FALSE
    BY LoadedPage, ZenonT(40)
  <2> HIDE DEF d
  <2>2. t.region # Unset
    BY LoadedRegion
  <2>3. PastOfLoaded(t, awsRegion) \in Past
    BY PastOfLoadedFields
  <2>4. /\ loads' = Overdue /\ pagesPast' = PastOfLoaded(t, awsRegion) /\ EnterWizard(d)
    BY <1>6 DEF StartFrom, d
  <2>5. QED
    BY <1>2, <2>1, <2>2, <2>3, <2>4, EntranceKinds
<1>7. ASSUME NEW t \in LoadedDrafts, Edit(t) PROVE Kinds'
  <2>1. [draft EXCEPT !.editing = TRUE] \in Setups
    BY DEF Setups
  <2>2. QED
    BY <1>6, <1>7, <2>1 DEF Edit
<1>8. ASSUME NEW t \in LoadedDrafts, CreateFrom(t) PROVE Kinds'
  BY <1>4, <1>6, <1>8 DEF CreateFrom
<1>9. ASSUME NEW t \in LoadedDrafts, Upload(t) PROVE Kinds'
  <2>0. t.region \in DraftRegions /\ t.region # Unset
    BY LoadedRegion
  <2>1. CASE /\ EnterWizard(PutAway(LoadedDraft(draft, t, awsRegion)))
             /\ loads' = Overdue
             /\ pagesPast' = IF draft.editing THEN PastOfNew(Home) ELSE PastOfLoaded(t, awsRegion)
    <3> DEFINE l == LoadedDraft(draft, t, awsRegion)
               d == PutAway(l)
    <3>1. /\ l \in Setups /\ l.exists = TRUE /\ l.region = t.region /\ l.page = VersionPage
      BY LoadedPage, Zenon
    <3> HIDE DEF l
    <3>2. /\ d \in Setups /\ d.editing = FALSE /\ d.page = VersionPage
          /\ d = l \/ (d.exists = FALSE /\ d.region = Unset /\ d.ami = FALSE)
      BY <3>1, PutAwayFields
    <3> HIDE DEF d
    <3>3. /\ d.exists <=> d.region # Unset
          /\ d.page = ClusterPage \/ d.ami => d.exists
      BY <1>3, <2>0, <3>1, <3>2
    <3>4. PastOfNew(Home) \in Past /\ PastOfLoaded(t, awsRegion) \in Past
      BY PastOfNewFields, PastOfLoadedFields
    <3>5. pagesPast' \in Past /\ EnterWizard(d)
      BY <2>1, <3>4 DEF d, l
    <3>6. QED
      BY <1>2, <2>1, <3>2, <3>3, <3>5, EntranceKinds
  <2>2. CASE /\ EnterWizard(PutAway([draft EXCEPT !.exists = TRUE, !.loading = TRUE, !.region = t.region]))
             /\ LoadResources(Request(t.region, {t}), Overdue)
             /\ UNCHANGED pagesPast
    <3> DEFINE l == [draft EXCEPT !.exists = TRUE, !.loading = TRUE, !.region = t.region]
               d == PutAway(l)
    <3>1. /\ l \in Setups /\ l.exists = TRUE /\ l.region = t.region
      BY <2>0 DEF Setups
    <3> HIDE DEF l
    <3>2. /\ d \in Setups /\ d.editing = FALSE
          /\ d = l \/ (d.exists = FALSE /\ d.region = Unset /\ d.ami = FALSE /\ d.page = VersionPage)
      BY <3>1, PutAwayFields
    <3> HIDE DEF d
    <3>3. /\ d.exists <=> d.region # Unset
          /\ d.page = ClusterPage \/ d.ami => d.exists
      <4>1. CASE d = l
        BY <2>0, <3>1, <4>1
      <4>2. CASE d # l
        BY <1>3, <3>2, <4>2
      <4>3. QED
        BY <4>1, <4>2
    <3>4. Request(t.region, {t}) \in Loads
      BY <2>0 DEF Request, Loads
    <3>5. loads' \in Seq(Loads) /\ Len(loads') = Len(loads) + 1 /\ Len(loads) < MaxLoads
      BY <1>2, <2>2, <3>4, RequestMade, ZenonT(40) DEF LoadResources
    <3>6. Len(loads') <= MaxLoads
      BY <1>3, <3>5, LenProperties
    <3>7. EnterWizard(d)
      BY <2>2 DEF d, l
    <3>8. QED
      BY <2>2, <3>2, <3>3, <3>5, <3>6, <3>7, EntranceKinds
  <2>3. QED
    BY <1>9, <2>1, <2>2 DEF Upload
<1>10. ASSUME CloseWizard PROVE Kinds'
  <2>1. /\ inWizard' = FALSE /\ draft' = ClearedDraft(draft) /\ pageErrors' = {}
        /\ refreshing' = FALSE /\ loads' = Unawaited(Overdue) /\ UNCHANGED <<seen, awsRegion>>
        /\ pagesPast' = [PastOfNew(Home) EXCEPT !.strange = FALSE]
    BY <1>10 DEF CloseWizard
  <2>2. /\ draft' \in Setups /\ draft'.page = VersionPage /\ draft'.exists = FALSE
        /\ draft'.loading = FALSE /\ draft'.region = Unset /\ draft'.ami = FALSE
    BY <2>1, ClearedFields
  <2>3. PastOfNew(Home) \in Past /\ PastOfNew(Home).from = {}
    BY PastOfNewFields
  <2>4. pagesPast' \in Past /\ pagesPast'.from = {}
    BY <2>1, <2>3 DEF Past
  <2>5. loads' \in Seq(Loads) /\ Len(loads') <= MaxLoads
    BY <1>2, <2>1, UnawaitedFields
  <2>6. DraftBegun'
    BY <1>3, <2>1, <2>2, <2>4 DEF DraftBegun
  <2>7. QED
    BY <2>1, <2>2, <2>4, <2>5, <2>6, KindsStep
<1>11. ASSUME GoElsewhere PROVE Kinds'
  <2>1. /\ inWizard' = FALSE /\ refreshing' = FALSE /\ loads' = Unawaited(loads)
        /\ pagesPast' = [pagesPast EXCEPT !.unanswered = FALSE]
        /\ UNCHANGED <<draft, seen, awsRegion, pageErrors>>
    BY <1>11 DEF GoElsewhere, Left
  <2>2. pagesPast' \in Past /\ pagesPast'.from = pagesPast.from
    BY <2>1 DEF Past
  <2>3. loads' \in Seq(Loads) /\ Len(loads') <= MaxLoads
    BY <2>1, UnawaitedFields
  <2>4. DraftBegun'
    BY <1>1, <2>1, <2>2 DEF DraftBegun
  <2>5. QED
    BY <2>1, <2>2, <2>3, <2>4, KindsStep
<1>12. QED
  BY <1>5, <1>7, <1>8, <1>9, <1>10, <1>11 DEF Entrances

LEMMA TurnsKinds ==
  ASSUME Kinds, Turns
  PROVE  Kinds'
<1>0. USE KindFields
<1>1. ASSUME NEW e, e = pageErrors', e \subseteq PageErrors,
             UNCHANGED <<draft, inWizard, seen, awsRegion, loads, refreshing, pagesPast>>
      PROVE  Kinds'
  <2>1. draft.ami => draft.exists
    BY DEF DraftBegun
  <2>2. QED
    BY <1>1, <2>1, FieldKinds
<1>2. ASSUME NextPage PROVE Kinds'
  <2>1. pageErrors' \subseteq PageErrors
    BY <1>2, ErrorsLeftKinds DEF NextPage
  <2>2. CASE GoToPage(draft.page + 1)
    <3>1. draft.page + 1 \in VersionPage..LaterPages
      BY <1>2 DEF NextPage, VersionPage, LaterPages
    <3>2. QED
      BY <2>1, <2>2, <3>1, TurnKinds
  <2>3. CASE UNCHANGED <<draft, inWizard, seen, awsRegion, loads, refreshing, pagesPast>>
    BY <1>1, <2>1, <2>3
  <2>4. QED
    BY <1>2, <2>2, <2>3 DEF NextPage
<1>3. ASSUME PreviousPage PROVE Kinds'
  <2>1. pageErrors' \subseteq PageErrors /\ GoToPage(draft.page - 1)
    BY <1>3 DEF PreviousPage
  <2>2. draft.page - 1 \in VersionPage..LaterPages
    BY <1>3 DEF PreviousPage, VersionPage, LaterPages
  <2>3. QED
    BY <2>1, <2>2, TurnKinds
<1>4. ASSUME NEW p \in VersionPage..LaterPages, StepTo(p) PROVE Kinds'
  <2>1. pageErrors' \subseteq PageErrors
    BY <1>4, ErrorsLeftKinds DEF StepTo
  <2>2. CASE GoToPage(p)
    BY <2>1, <2>2, TurnKinds
  <2>3. CASE UNCHANGED <<draft, inWizard, seen, awsRegion, loads, refreshing, pagesPast>>
    BY <1>1, <2>1, <2>3
  <2>4. QED
    BY <1>4, <2>2, <2>3 DEF StepTo
<1>5. QED
  BY <1>2, <1>3, <1>4 DEF Turns

\* A change of the draft that history is told of, or not.
LEMMA ToldKinds ==
  ASSUME Kinds, NEW d \in Setups, NEW told \in Past, ChangeTold(d, told),
         d.page = draft.page, d.exists = draft.exists, d.region = draft.region,
         d.editing = draft.editing, d.loading = draft.loading,
         d.ami => draft.exists, told.from = pagesPast.from
  PROVE  Kinds'
BY KindFields, FieldKinds DEF ChangeTold

LEMMA ChangeKinds ==
  ASSUME Kinds, NEW d \in Setups, ChangeDraft(d),
         d.page = draft.page, d.exists = draft.exists, d.region = draft.region,
         d.editing = draft.editing, d.loading = draft.loading, d.ami => draft.exists
  PROVE  Kinds'
BY KindFields, FieldKinds DEF ChangeDraft

LEMMA PlacesKinds ==
  ASSUME Kinds, Places
  PROVE  Kinds'
<1>0. /\ draft \in Setups /\ loads \in Seq(Loads) /\ Len(loads) <= MaxLoads
      /\ pageErrors \subseteq PageErrors /\ pagesPast \in Past /\ awsRegion \in DraftRegions
      /\ draft.ami => draft.exists
  BY KindFields DEF DraftBegun
<1>1. ASSUME NEW r \in DraftRegions, ChooseRegion(r) PROVE Kinds'
  <2>1. /\ inWizard /\ draft' = OfRegion(draft, r)
        /\ LoadResources(Request(r, {}), Overdue)
        /\ pagesPast' = [NewPast EXCEPT !.failed = pagesPast.failed, !.unanswered = pagesPast.unanswered]
        /\ UNCHANGED <<inWizard, seen, awsRegion, refreshing, pageErrors>>
    BY <1>1 DEF ChooseRegion, OnNewCluster, OnPage
  <2>2. /\ draft' \in Setups /\ draft'.exists = TRUE /\ draft'.region = r
        /\ draft'.editing = FALSE /\ draft'.loading = FALSE
    BY <1>0, <2>1, OfRegionFields
  <2>3. r # Unset /\ MaxLoads \in Nat
    BY PagesAssumption
  <2>4. pagesPast' \in Past
    <3>1. pagesPast.failed \in BOOLEAN /\ pagesPast.unanswered \in BOOLEAN
      BY KindFields
    <3>2. QED
      BY <2>1, <3>1 DEF Past, NewPast
  <2>5. Overdue \in Seq(Loads) /\ Len(Overdue) = Len(loads) /\ Len(loads) \in Nat
    BY <1>0, OverdueFields, LenProperties
  <2>6. Request(r, {}) \in Loads
    BY DEF Request, Loads
  <2>7. loads' \in Seq(Loads) /\ Len(loads') = Len(loads) + 1 /\ Len(loads) < MaxLoads
    BY <2>1, <2>5, <2>6, RequestMade DEF LoadResources
  <2>8. Len(loads') <= MaxLoads
    BY <2>3, <2>5, <2>7
  <2>9. DraftBegun'
    BY <2>1, <2>2, <2>3 DEF DraftBegun
  <2>10. QED
    BY <2>1, <2>2, <2>4, <2>7, <2>8, <2>9, KindFields, KindsStep
<1>2. ASSUME NEW v \in Vpcs, SetVpc(v) PROVE Kinds'
  <2>1. /\ draft' = [draft EXCEPT !.vpc = v] /\ pageErrors' \subseteq PageErrors
        /\ pagesPast' = [pagesPast EXCEPT !.strange = awsRegion # draft.region,
                                          !.moved = draft.subnet # Unset]
        /\ UNCHANGED <<inWizard, seen, awsRegion, loads, refreshing>>
    BY <1>0, <1>2 DEF SetVpc
  <2>2. /\ draft' \in Setups /\ draft'.page = draft.page /\ draft'.exists = draft.exists
        /\ draft'.region = draft.region /\ draft'.editing = draft.editing
        /\ draft'.loading = draft.loading /\ draft'.ami = draft.ami
    BY <1>0, <2>1 DEF Setups
  <2>3. pagesPast' \in Past /\ pagesPast'.from = pagesPast.from
    <3> DEFINE a == awsRegion # draft.region
               b == draft.subnet # Unset
    <3>1. a \in BOOLEAN /\ b \in BOOLEAN
      OBVIOUS
    <3>2. pagesPast' = [pagesPast EXCEPT !.strange = a, !.moved = b]
      BY <2>1
    <3> HIDE DEF a, b
    <3>3. QED
      BY <1>0, <3>1, <3>2 DEF Past
  <2>4. QED
    BY <1>0, <2>1, <2>2, <2>3, FieldKinds
<1>3. ASSUME NEW s \in VpcSubnets, SelectHeadNodeSubnet(s) PROVE Kinds'
  <2> DEFINE d == [draft EXCEPT !.subnet = s]
             b == draft.vpc = Unset
             told == [pagesPast EXCEPT !.moved = b]
  <2>1. ChangeTold(d, told)
    BY <1>3 DEF SelectHeadNodeSubnet
  <2>2. /\ d \in Setups /\ d.page = draft.page /\ d.exists = draft.exists
        /\ d.region = draft.region /\ d.editing = draft.editing
        /\ d.loading = draft.loading /\ d.ami = draft.ami
    BY <1>0 DEF Setups
  <2>3. b \in BOOLEAN
    OBVIOUS
  <2> HIDE DEF d, b
  <2>4. told \in Past /\ told.from = pagesPast.from
    BY <1>0, <2>3 DEF Past
  <2> HIDE DEF told
  <2>5. QED
    BY <1>0, <2>1, <2>2, <2>4, ToldKinds
<1>4. QED
  BY <1>1, <1>2, <1>3 DEF Places

LEMMA BoxesKinds ==
  ASSUME Kinds, Boxes \/ TextFields
  PROVE  Kinds'
<1>0. /\ draft \in Setups /\ draft.ami \in BOOLEAN /\ draft.amiEnabled \in BOOLEAN
      /\ draft.page = ClusterPage \/ draft.ami => draft.exists
      /\ draft.directory \in SUBSET DirectoryFields
      /\ draft.database \in SUBSET DatabaseFields
  BY KindFields DEF DraftBegun
<1>1. ASSUME NEW e \in BOOLEAN, NEW a \in BOOLEAN, a => draft.exists,
             ChangeDraft([draft EXCEPT !.amiEnabled = e, !.ami = a])
      PROVE  Kinds'
  <2> DEFINE d == [draft EXCEPT !.amiEnabled = e, !.ami = a]
  <2>1. /\ d \in Setups /\ d.page = draft.page /\ d.exists = draft.exists
        /\ d.region = draft.region /\ d.editing = draft.editing
        /\ d.loading = draft.loading /\ d.ami = a
    BY <1>0 DEF Setups
  <2> HIDE DEF d
  <2>2. ChangeDraft(d)
    BY <1>1 DEF d
  <2>3. QED
    BY <1>1, <2>1, <2>2, ChangeKinds
<1>2. ASSUME ToggleClusterAmi PROVE Kinds'
  <2> DEFINE e == ~draft.amiEnabled
             a == draft.ami /\ ~draft.amiEnabled
  <2>1. e \in BOOLEAN /\ a \in BOOLEAN
    OBVIOUS
  <2>2. a => draft.exists
    BY <1>0
  <2>3. ChangeDraft([draft EXCEPT !.amiEnabled = e, !.ami = a])
    BY <1>0, <1>2 DEF ToggleClusterAmi, Setups
  <2> HIDE DEF e, a
  <2>4. QED
    BY <1>1, <2>1, <2>2, <2>3
<1>3. ASSUME NEW given \in BOOLEAN, SetClusterAmi(given) PROVE Kinds'
  <2> DEFINE d == [draft EXCEPT !.ami = given]
  <2>1. draft.exists /\ ChangeDraft(d)
    BY <1>0, <1>3 DEF SetClusterAmi, OnPage
  <2>2. /\ d \in Setups /\ d.page = draft.page /\ d.exists = draft.exists
        /\ d.region = draft.region /\ d.editing = draft.editing
        /\ d.loading = draft.loading
    BY <1>0 DEF Setups
  <2> HIDE DEF d
  <2>3. QED
    BY <2>1, <2>2, ChangeKinds
<1>4. ASSUME NEW m \in BOOLEAN, NEW f \in SUBSET DirectoryFields, NEW b \in SUBSET DatabaseFields,
             ChangeDraft([draft EXCEPT !.multiUser = m, !.directory = f, !.database = b])
      PROVE  Kinds'
  <2> DEFINE d == [draft EXCEPT !.multiUser = m, !.directory = f, !.database = b]
  <2>1. /\ d \in Setups /\ d.page = draft.page /\ d.exists = draft.exists
        /\ d.region = draft.region /\ d.editing = draft.editing
        /\ d.loading = draft.loading /\ d.ami = draft.ami
    BY <1>0 DEF Setups
  <2>2. ChangeDraft(d)
    BY <1>4
  <2> HIDE DEF d
  <2>3. QED
    BY <1>0, <2>1, <2>2, ChangeKinds
<1>5. ASSUME ToggleMultiUser PROVE Kinds'
  <2>1. CASE draft.multiUser
    <3>1. [draft EXCEPT !.multiUser = FALSE, !.directory = {}] =
            [draft EXCEPT !.multiUser = FALSE, !.directory = {}, !.database = draft.database]
      BY <1>0 DEF Setups
    <3>2. ChangeDraft([draft EXCEPT !.multiUser = FALSE, !.directory = {}])
      BY <1>5, <2>1 DEF ToggleMultiUser, SingleUser
    <3>3. QED
      BY <1>0, <1>4, <3>1, <3>2
  <2>2. CASE ~draft.multiUser
    <3>1. [draft EXCEPT !.multiUser = TRUE] =
            [draft EXCEPT !.multiUser = TRUE, !.directory = draft.directory, !.database = draft.database]
      BY <1>0 DEF Setups
    <3>2. ChangeDraft([draft EXCEPT !.multiUser = TRUE])
      BY <1>5, <2>2 DEF ToggleMultiUser
    <3>3. QED
      BY <1>0, <1>4, <3>1, <3>2
  <2>3. QED
    BY <2>1, <2>2
<1>6. ASSUME NEW f \in DirectoryFields, NEW given \in BOOLEAN, SetDirectory(f, given) PROVE Kinds'
  <2> DEFINE w == WithField(draft.directory, f, given)
  <2>1. w \in SUBSET DirectoryFields
    BY <1>0 DEF WithField
  <2>2. ChangeDraft([draft EXCEPT !.directory = w])
    BY <1>0, <1>6 DEF SetDirectory, Setups
  <2> HIDE DEF w
  <2>3. [draft EXCEPT !.directory = w] =
          [draft EXCEPT !.multiUser = draft.multiUser, !.directory = w, !.database = draft.database]
    BY <1>0 DEF Setups
  <2>4. draft.multiUser \in BOOLEAN
    BY KindFields
  <2>5. QED
    BY <1>0, <1>4, <2>1, <2>2, <2>3, <2>4
<1>7. ASSUME NEW f \in DatabaseFields, NEW given \in BOOLEAN, SetDatabase(f, given) PROVE Kinds'
  <2> DEFINE w == WithField(draft.database, f, given)
  <2>1. w \in SUBSET DatabaseFields
    BY <1>0 DEF WithField
  <2>2. ChangeDraft([draft EXCEPT !.database = w])
    BY <1>0, <1>7 DEF SetDatabase, Setups
  <2> HIDE DEF w
  <2>3. [draft EXCEPT !.database = w] =
          [draft EXCEPT !.multiUser = draft.multiUser, !.directory = draft.directory, !.database = w]
    BY <1>0 DEF Setups
  <2>4. draft.multiUser \in BOOLEAN
    BY KindFields
  <2>5. QED
    BY <1>0, <1>4, <2>1, <2>2, <2>3, <2>4
<1>8. QED
  BY <1>2, <1>3, <1>5, <1>6, <1>7 DEF Boxes, TextFields

LEMMA AccessKinds ==
  ASSUME Kinds, Access
  PROVE  Kinds'
<1>0. /\ draft \in Setups /\ pagesPast \in Past
      /\ draft.ami => draft.exists
      /\ draft.ssm \in BOOLEAN /\ draft.dcv \in BOOLEAN /\ draft.others \in BOOLEAN
      /\ pagesPast.removed \in BOOLEAN /\ awsRegion \in DraftRegions
      /\ draft.key \in KeyNames \cup {Unset}
  BY KindFields DEF DraftBegun, Setups
<1>1. ASSUME NEW k \in KeyNames \cup {Unset}, NEW s \in BOOLEAN,
             NEW o \in BOOLEAN, NEW v \in BOOLEAN, NEW told \in Past, told.from = pagesPast.from,
             ChangeTold([draft EXCEPT !.key = k, !.ssm = s, !.others = o, !.dcv = v], told)
      PROVE  Kinds'
  <2> DEFINE d == [draft EXCEPT !.key = k, !.ssm = s, !.others = o, !.dcv = v]
  <2>1. d \in Setups
    <3> DEFINE d1 == [draft EXCEPT !.key = k]
               d2 == [d1 EXCEPT !.ssm = s]
               d3 == [d2 EXCEPT !.others = o]
               d4 == [d3 EXCEPT !.dcv = v]
    <3>1. d = d4
      BY <1>0 DEF Setups
    <3>2. d1 \in Setups
      BY <1>0, FieldSet, Zenon
    <3> HIDE DEF d1
    <3>3. d2 \in Setups
      BY <3>2, FieldSet, Zenon
    <3> HIDE DEF d2
    <3>4. d3 \in Setups
      BY <3>3, FieldSet, Zenon
    <3> HIDE DEF d3
    <3>5. d4 \in Setups
      BY <3>4, FieldSet, Zenon
    <3>6. QED
      BY <3>1, <3>5, Zenon
  <2>2. /\ d.page = draft.page /\ d.exists = draft.exists
        /\ d.region = draft.region /\ d.editing = draft.editing
        /\ d.loading = draft.loading /\ d.ami = draft.ami
    BY <1>0 DEF Setups
  <2>3. ChangeTold(d, told)
    BY <1>1
  <2> HIDE DEF d
  <2>4. QED
    BY <1>0, <1>1, <2>1, <2>2, <2>3, ToldKinds
<1>2. ASSUME NEW k \in KeyNames \cup {Unset}, NEW s \in BOOLEAN,
             NEW o \in BOOLEAN, NEW v \in BOOLEAN,
             ChangeDraft([draft EXCEPT !.key = k, !.ssm = s, !.others = o, !.dcv = v])
      PROVE  Kinds'
  <2>1. ChangeTold([draft EXCEPT !.key = k, !.ssm = s, !.others = o, !.dcv = v], pagesPast)
    BY <1>2 DEF ChangeDraft, ChangeTold
  <2>2. QED
    BY <1>0, <1>1, <2>1
<1>3. ASSUME NEW k \in KeysOf(awsRegion) \cup {Unset}, SelectKey(k) PROVE Kinds'
  <2> DEFINE s == draft.ssm \/ k = Unset
  <2>1. s \in BOOLEAN /\ k \in KeyNames \cup {Unset}
    BY <1>0, KeysTyped
  <2>2. ChangeDraft([draft EXCEPT !.key = k, !.ssm = s])
    BY <1>0, <1>3 DEF SelectKey, Setups
  <2> HIDE DEF s
  <2>3. [draft EXCEPT !.key = k, !.ssm = s] =
          [draft EXCEPT !.key = k, !.ssm = s, !.others = draft.others, !.dcv = draft.dcv]
    BY <1>0 DEF Setups
  <2>4. QED
    BY <1>0, <1>2, <2>1, <2>2, <2>3
<1>4. ASSUME ToggleSsm PROVE Kinds'
  <2> DEFINE s == ~draft.ssm
  <2>1. s \in BOOLEAN
    OBVIOUS
  <2>2. ChangeDraft([draft EXCEPT !.ssm = s])
    BY <1>0, <1>4 DEF ToggleSsm, Setups
  <2> HIDE DEF s
  <2>3. [draft EXCEPT !.ssm = s] =
          [draft EXCEPT !.key = draft.key, !.ssm = s, !.others = draft.others, !.dcv = draft.dcv]
    BY <1>0 DEF Setups
  <2>4. QED
    BY <1>0, <1>2, <2>1, <2>2, <2>3
<1>5. ASSUME ToggleDcv PROVE Kinds'
  <2> DEFINE v == ~draft.dcv
             s == draft.ssm \/ ~draft.dcv
  <2>1. v \in BOOLEAN /\ s \in BOOLEAN
    OBVIOUS
  <2>2. ChangeDraft([draft EXCEPT !.dcv = v, !.ssm = s])
    BY <1>0, <1>5 DEF ToggleDcv, Setups
  <2> HIDE DEF v, s
  <2>3. [draft EXCEPT !.dcv = v, !.ssm = s] =
          [draft EXCEPT !.key = draft.key, !.ssm = s, !.others = draft.others, !.dcv = v]
    BY <1>0 DEF Setups
  <2>4. QED
    BY <1>0, <1>2, <2>1, <2>2, <2>3
<1>6. ASSUME NEW given \in BOOLEAN, NEW policy \in {"ssm", "others"}, NEW told \in Past,
             told.from = pagesPast.from, ChangeTold([draft EXCEPT ![policy] = given], told)
      PROVE  Kinds'
  <2>1. CASE policy = "ssm"
    <3>1. [draft EXCEPT !["ssm"] = given] =
            [draft EXCEPT !.key = draft.key, !.ssm = given, !.others = draft.others, !.dcv = draft.dcv]
      BY <1>0 DEF Setups
    <3>2. QED
      BY <1>0, <1>1, <1>6, <2>1, <3>1
  <2>2. CASE policy = "others"
    <3>1. [draft EXCEPT !["others"] = given] =
            [draft EXCEPT !.key = draft.key, !.ssm = draft.ssm, !.others = given, !.dcv = draft.dcv]
      BY <1>0 DEF Setups
    <3>2. QED
      BY <1>0, <1>1, <1>6, <2>2, <3>1
  <2>3. QED
    BY <2>1, <2>2
<1>7. ASSUME NEW policy \in {"ssm", "others"}, AddPolicy(policy) PROVE Kinds'
  <2>1. ChangeTold([draft EXCEPT ![policy] = TRUE], pagesPast)
    BY <1>7 DEF AddPolicy, ChangeDraft, ChangeTold
  <2>2. QED
    BY <1>0, <1>6, <2>1
<1>8. ASSUME NEW policy \in {"ssm", "others"}, RemovePolicy(policy) PROVE Kinds'
  <2> DEFINE b == pagesPast.removed \/ (policy = "ssm" /\ draft.dcv)
             told == [pagesPast EXCEPT !.removed = b]
  <2>1. b \in BOOLEAN
    OBVIOUS
  <2>2. ChangeTold([draft EXCEPT ![policy] = FALSE], told)
    BY <1>0, <1>8 DEF RemovePolicy, Past
  <2> HIDE DEF b
  <2>3. told \in Past /\ told.from = pagesPast.from
    BY <1>0, <2>1 DEF Past
  <2> HIDE DEF told
  <2>4. QED
    BY <1>6, <2>2, <2>3
<1>9. QED
  BY <1>3, <1>4, <1>5, <1>7, <1>8 DEF Access

\* An answer keeps the requests that are left, and the kind of the draft.
LEMMA AnswerKinds ==
  ASSUME Kinds, NEW i, LoadAnswered(i)
  PROVE  Kinds'
<1>0. /\ draft \in Setups /\ loads \in Seq(Loads) /\ Len(loads) <= MaxLoads /\ Len(loads) \in Nat
      /\ pageErrors \subseteq PageErrors /\ pagesPast \in Past
      /\ inWizard \in BOOLEAN /\ refreshing \in BOOLEAN /\ seen \in VersionPage..LaterPages
  BY KindFields, LenProperties
<1>1. /\ draft.exists <=> draft.region # Unset
      /\ draft.page = ClusterPage \/ draft.ami => draft.exists
      /\ draft.editing => ~draft.loading
      /\ draft.editing /\ pagesPast.from # {} => draft.exists
      /\ refreshing => inWizard
  BY KindFields DEF DraftBegun
<1>2. i \in DOMAIN loads
  BY DEF LoadAnswered
<1>3. loads[i] \in Loads
  BY <1>0, <1>2, LenProperties
<1>4. \A t \in loads[i].fill : t \in LoadedDrafts
  BY <1>3 DEF Loads
<1>5. /\ awsRegion' = loads[i].region /\ refreshing' = (refreshing /\ ~loads[i].waits)
      /\ UNCHANGED <<inWizard, seen, pageErrors>> /\ pagesPast' \in Past
  BY <1>0, <1>4, AnswerFields
<1>6. awsRegion' \in DraftRegions /\ refreshing' \in BOOLEAN
  BY <1>3, <1>5 DEF Loads
<1>7. Others(i) \in Seq(Loads) /\ Len(Others(i)) <= MaxLoads
  <2>1. Others(i) \in Seq(Loads) /\ Len(Others(i)) = Len(loads) - 1
    BY <1>0, <1>2, OthersFields
  <2>2. MaxLoads \in Nat
    BY PagesAssumption
  <2>3. QED
    BY <1>0, <2>1, <2>2
<1>8. CASE /\ loads' = Others(i) /\ draft' \in {draft, PageMounted(draft, awsRegion')}
           /\ draft' # draft => OnPage(HeadNodePage)
           /\ pagesPast'.from = pagesPast.from
  <2>1. draft.page = HeadNodePage => draft.page # ClusterPage
    BY DEF HeadNodePage, ClusterPage
  <2>2. /\ draft' \in Setups /\ draft'.page = draft.page /\ draft'.editing = draft.editing
        /\ draft'.loading = draft.loading /\ draft'.ami = draft.ami
        /\ draft'.exists = draft.exists /\ draft'.region = draft.region
    <3>1. CASE draft' = draft
      BY <1>0, <3>1
    <3>2. CASE draft' # draft
      <4>1. draft.page # ClusterPage /\ draft' = PageMounted(draft, awsRegion')
        BY <1>8, <2>1, <3>2 DEF OnPage
      <4>2. draft.exists \in BOOLEAN
        BY KindFields
      <4>3. /\ draft' \in Setups /\ draft'.page = draft.page /\ draft'.editing = draft.editing
            /\ draft'.loading = draft.loading /\ draft'.ami = draft.ami
            /\ draft'.exists = (draft.exists \/ draft.page = ClusterPage)
            /\ draft'.region = draft.region
        BY <1>0, <1>6, <4>1, MountedFields
      <4>4. QED
        BY <4>1, <4>2, <4>3
    <3>3. QED
      BY <3>1, <3>2
  <2>3. refreshing' => inWizard'
    BY <1>1, <1>5
  <2>4. DraftBegun'
    BY <1>1, <1>8, <2>2, <2>3 DEF DraftBegun
  <2>5. QED
    BY <1>0, <1>5, <1>6, <1>7, <1>8, <2>2, <2>4, KindsStep
<1>9. ASSUME NEW t \in loads[i].fill,
             draft' = LoadedDraft(draft, t, awsRegion'),
             loads' = [k \in DOMAIN Others(i) |-> [Others(i)[k] EXCEPT !.due = FALSE]]
      PROVE  Kinds'
  <2>1. t \in LoadedDrafts
    BY <1>4
  <2>2. /\ draft' \in Setups /\ draft'.page = VersionPage
        /\ draft'.exists = TRUE /\ draft'.loading = FALSE /\ draft'.region = t.region
    BY <1>0, <1>6, <1>9, <2>1, LoadedPage, Zenon
  <2>3. t.region # Unset /\ VersionPage # ClusterPage
    BY <2>1, LoadedRegion DEF VersionPage, ClusterPage
  <2>4. loads' \in Seq(Loads) /\ Len(loads') = Len(Others(i))
    <3>1. loads' = Spent(Others(i))
      BY <1>9 DEF Spent
    <3>2. QED
      BY <1>7, <3>1, SpentFields
  <2>5. refreshing' => inWizard'
    BY <1>1, <1>5
  <2>6. DraftBegun'
    BY <2>2, <2>3, <2>5 DEF DraftBegun
  <2>7. QED
    BY <1>0, <1>5, <1>6, <1>7, <2>2, <2>4, <2>6, KindsStep
<1>10. QED
  <2>1. \/ /\ loads' = Others(i) /\ draft' \in {draft, PageMounted(draft, awsRegion')}
           /\ draft' # draft => OnPage(HeadNodePage)
           /\ pagesPast'.from = pagesPast.from
        \/ \E t \in loads[i].fill :
             /\ draft' = LoadedDraft(draft, t, awsRegion')
             /\ loads' = [k \in DOMAIN Others(i) |-> [Others(i)[k] EXCEPT !.due = FALSE]]
    BY <1>0, <1>4, AnswerFields, Zenon
  <2>2. QED
    BY <1>8, <1>9, <2>1, Zenon

\* The request of Refresh is for the draft only if its Region is the selected one.
LEMMA RefreshRequestFields ==
  LET l == [Request(Home, {}) EXCEPT !.waits = TRUE, !.due = draft.region \in {Home, Unset}]
  IN  /\ l \in Loads /\ l.region = Home /\ l.fill = {} /\ l.waits = TRUE
      /\ l.due = (draft.region \in {Home, Unset})
<1> DEFINE b == draft.region \in {Home, Unset}
           l == [Request(Home, {}) EXCEPT !.waits = TRUE, !.due = b]
<1>1. b \in BOOLEAN /\ Home \in DraftRegions
  BY PagesAssumption
<1> HIDE DEF b
<1>2. l \in Loads /\ l.region = Home /\ l.fill = {} /\ l.waits = TRUE /\ l.due = b
  BY <1>1 DEF Loads, Request
<1> HIDE DEF l
<1>3. QED
  BY <1>2 DEF l, b

LEMMA ResourcesKinds ==
  ASSUME Kinds, Resources
  PROVE  Kinds'
<1>0. /\ draft \in Setups /\ loads \in Seq(Loads) /\ Len(loads) <= MaxLoads /\ Len(loads) \in Nat
      /\ pageErrors \subseteq PageErrors /\ pagesPast \in Past
      /\ inWizard \in BOOLEAN /\ refreshing \in BOOLEAN /\ seen \in VersionPage..LaterPages
      /\ awsRegion \in DraftRegions
  BY KindFields, LenProperties
<1>1. MaxLoads \in Nat /\ Home \in DraftRegions
  BY PagesAssumption
<1>2. ASSUME HandleRefresh PROVE Kinds'
  <2> DEFINE l == [Request(Home, {}) EXCEPT !.waits = TRUE, !.due = draft.region \in {Home, Unset}]
  <2>1. /\ inWizard /\ refreshing' = TRUE /\ LoadResources(l, loads)
        /\ UNCHANGED <<draft, inWizard, seen, awsRegion, pageErrors, pagesPast>>
    BY <1>2 DEF HandleRefresh
  <2>2. l \in Loads
    BY RefreshRequestFields
  <2> HIDE DEF l
  <2>3. loads' \in Seq(Loads) /\ Len(loads') = Len(loads) + 1 /\ Len(loads) < MaxLoads
    BY <1>0, <2>1, <2>2, RequestMade DEF LoadResources
  <2>4. Len(loads') <= MaxLoads
    BY <1>0, <1>1, <2>3
  <2>5. DraftBegun'
    BY <2>1, KindFields DEF DraftBegun
  <2>6. QED
    BY <1>0, <2>1, <2>3, <2>4, <2>5, KindsStep
<1>3. ASSUME NEW i \in 1..MaxLoads, LoadLost(i) PROVE Kinds'
  <2>1. /\ i \in DOMAIN loads /\ loads' = Others(i)
        /\ pagesPast' = [pagesPast EXCEPT !.failed = TRUE, !.unanswered = @ \/ loads[i].waits]
        /\ UNCHANGED <<draft, inWizard, seen, awsRegion, refreshing, pageErrors>>
    BY <1>3 DEF LoadLost
  <2>2. loads' \in Seq(Loads) /\ Len(loads') = Len(loads) - 1
    BY <1>0, <2>1, OthersFields
  <2>3. Len(loads') <= MaxLoads
    BY <1>0, <1>1, <2>2
  <2>4. pagesPast' \in Past /\ pagesPast'.from = pagesPast.from
    <3> DEFINE u == pagesPast.unanswered \/ loads[i].waits
    <3>1. u \in BOOLEAN
      OBVIOUS
    <3>2. pagesPast' = [pagesPast EXCEPT !.failed = TRUE, !.unanswered = u]
      BY <1>0, <2>1 DEF Past
    <3> HIDE DEF u
    <3>3. QED
      BY <1>0, <3>1, <3>2 DEF Past
  <2>5. DraftBegun'
    BY <2>1, <2>4, KindFields DEF DraftBegun
  <2>6. QED
    BY <1>0, <2>1, <2>2, <2>3, <2>4, <2>5, KindsStep
<1>4. QED
  BY <1>2, <1>3, AnswerKinds DEF Resources

LEMMA KindsKept ==
  ASSUME Kinds, [PagesNext]_pagesVars
  PROVE  Kinds'
<1>1. CASE UNCHANGED pagesVars
  <2>1. UNCHANGED <<draft, inWizard, seen, awsRegion, loads, refreshing, pageErrors, pagesPast>>
    BY <1>1 DEF pagesVars
  <2>2. DraftBegun'
    BY <2>1, KindFields DEF DraftBegun
  <2>3. QED
    BY <2>1, <2>2, KindFields, KindsStep
<1>2. QED
  BY <1>1, EntrancesKinds, TurnsKinds, PlacesKinds, BoxesKinds, AccessKinds, ResourcesKinds
  DEF PagesNext

LEMMA KindsFirst ==
  ASSUME PagesInit
  PROVE  Kinds
<1>1. /\ draft = NoSetup /\ inWizard = FALSE /\ seen = VersionPage /\ awsRegion = Home
      /\ loads = <<>> /\ refreshing = FALSE /\ pageErrors = {} /\ pagesPast = NewPast
  BY DEF PagesInit
<1>2. NewPast \in Past
  BY DEF NewPast, Past
<1>3. loads \in Seq(Loads) /\ Len(loads) <= MaxLoads
  BY <1>1, PagesAssumption, EmptySeq
<1>4. DraftBegun
  BY <1>1, NoSetupFields DEF DraftBegun, VersionPage, ClusterPage
<1>5. DOMAIN pagesPast = DOMAIN NewPast /\ awsRegion \in DraftRegions
      /\ seen \in VersionPage..LaterPages
  BY <1>1, PagesAssumption DEF VersionPage, LaterPages
<1>6. QED
  BY <1>1, <1>2, <1>3, <1>4, <1>5, NoSetupFields DEF Kinds, PagesTypeOK

-----------------------------------------------------------------------------
(* What the steps leave alone.                                              *)

\* Turning a page keeps all the draft says but for what its mounting fills in.
LEMMA TurnFields ==
  ASSUME Kinds, Turns
  PROVE  /\ draft' \in Setups /\ draft'.editing = draft.editing /\ draft'.loading = draft.loading
         /\ draft'.vpc = draft.vpc /\ draft'.ssm = draft.ssm /\ draft'.dcv = draft.dcv
         /\ draft'.ami = draft.ami /\ draft'.multiUser = draft.multiUser
         /\ draft'.directory = draft.directory /\ draft'.database = draft.database
         /\ draft.exists => draft'.region = draft.region /\ draft'.amiEnabled = draft.amiEnabled
         /\ ~draft.exists => draft'.region \in {Home, Unset}
         /\ draft.subnet # Unset => draft'.subnet = draft.subnet
         /\ draft'.subnet # draft.subnet => VpcOf[draft'.subnet] = draft.vpc
         /\ draft.key # Unset => draft'.key = draft.key
         /\ pagesPast'.astray = pagesPast.astray /\ pagesPast'.failed = pagesPast.failed
         /\ pagesPast'.strange = pagesPast.strange /\ pagesPast'.moved = pagesPast.moved
         /\ pagesPast'.removed = pagesPast.removed
         /\ pagesPast'.unanswered = pagesPast.unanswered /\ pagesPast'.from = pagesPast.from
         /\ UNCHANGED <<inWizard, awsRegion, loads, refreshing>>
<1>0. /\ draft \in Setups /\ pagesPast \in Past /\ awsRegion \in DraftRegions
      /\ draft.page \in VersionPage..LaterPages /\ draft.exists \in BOOLEAN
      /\ draft.region \in DraftRegions \cup {Unset}
      /\ draft.exists <=> draft.region # Unset
  BY KindFields DEF DraftBegun
<1>1. ASSUME NEW p \in VersionPage..LaterPages, GoToPage(p)
      PROVE  /\ draft' = PageMounted([draft EXCEPT !.page = p], awsRegion)
             /\ pagesPast'.astray = pagesPast.astray /\ pagesPast'.failed = pagesPast.failed
             /\ pagesPast'.strange = pagesPast.strange /\ pagesPast'.moved = pagesPast.moved
             /\ pagesPast'.removed = pagesPast.removed
             /\ pagesPast'.unanswered = pagesPast.unanswered /\ pagesPast'.from = pagesPast.from
             /\ UNCHANGED <<inWizard, awsRegion, loads, refreshing>>
  <2> DEFINE q == IF p < draft.page THEN {r \in pagesPast.skipped : r < p}
                  ELSE (pagesPast.skipped \ {draft.page}) \cup ((draft.page + 1)..(p - 1))
  <2>1. pagesPast' = [pagesPast EXCEPT !.skipped = q]
    BY <1>1 DEF GoToPage
  <2> HIDE DEF q
  <2>2. QED
    BY <1>0, <1>1, <2>1 DEF Past, GoToPage
<1>2. \/ \E p \in VersionPage..LaterPages : GoToPage(p)
      \/ UNCHANGED <<draft, inWizard, seen, awsRegion, loads, refreshing, pagesPast>>
  <2>1. ASSUME NextPage
        PROVE  \/ \E p \in VersionPage..LaterPages : GoToPage(p)
               \/ UNCHANGED <<draft, inWizard, seen, awsRegion, loads, refreshing, pagesPast>>
    <3>1. draft.page < LaterPages =>
            draft.page + 1 \in VersionPage..LaterPages
      BY <1>0 DEF VersionPage, LaterPages
    <3>2. QED
      BY <2>1, <3>1 DEF NextPage
  <2>2. ASSUME PreviousPage PROVE \E p \in VersionPage..LaterPages : GoToPage(p)
    <3>1. draft.page > VersionPage => draft.page - 1 \in VersionPage..LaterPages
      BY <1>0 DEF VersionPage, LaterPages
    <3>2. QED
      BY <2>2, <3>1 DEF PreviousPage
  <2>3. ASSUME NEW p \in VersionPage..LaterPages, StepTo(p)
        PROVE  \/ GoToPage(p)
               \/ UNCHANGED <<draft, inWizard, seen, awsRegion, loads, refreshing, pagesPast>>
    BY <2>3 DEF StepTo
  <2>4. QED
    BY <2>1, <2>2, <2>3 DEF Turns
<1>3. CASE UNCHANGED <<draft, inWizard, seen, awsRegion, loads, refreshing, pagesPast>>
  BY <1>0, <1>3
<1>4. ASSUME NEW p \in VersionPage..LaterPages, NEW d, d = [draft EXCEPT !.page = p],
             draft' = PageMounted(d, awsRegion)
      PROVE  /\ draft' \in Setups /\ draft'.editing = draft.editing
             /\ draft'.loading = draft.loading
             /\ draft'.vpc = draft.vpc /\ draft'.ssm = draft.ssm /\ draft'.dcv = draft.dcv
             /\ draft'.ami = draft.ami /\ draft'.multiUser = draft.multiUser
             /\ draft'.directory = draft.directory /\ draft'.database = draft.database
             /\ draft.exists => draft'.region = draft.region /\ draft'.amiEnabled = draft.amiEnabled
             /\ ~draft.exists => draft'.region \in {Home, Unset}
             /\ draft.subnet # Unset => draft'.subnet = draft.subnet
             /\ draft'.subnet # draft.subnet => VpcOf[draft'.subnet] = draft.vpc
             /\ draft.key # Unset => draft'.key = draft.key
  <2>1. /\ d \in Setups /\ d.page = p /\ d.exists = draft.exists /\ d.editing = draft.editing
        /\ d.loading = draft.loading /\ d.region = draft.region /\ d.vpc = draft.vpc
        /\ d.subnet = draft.subnet /\ d.key = draft.key /\ d.ssm = draft.ssm /\ d.dcv = draft.dcv
        /\ d.amiEnabled = draft.amiEnabled /\ d.ami = draft.ami /\ d.multiUser = draft.multiUser
        /\ d.directory = draft.directory /\ d.database = draft.database
    BY <1>0, <1>4 DEF Setups
  <2> DEFINE m == PageMounted(d, awsRegion)
  <2>2. /\ m \in Setups /\ m.editing = d.editing /\ m.loading = d.loading
        /\ m.vpc = d.vpc /\ m.ssm = d.ssm /\ m.dcv = d.dcv
        /\ m.ami = d.ami /\ m.multiUser = d.multiUser
        /\ m.directory = d.directory /\ m.database = d.database
        /\ d.exists \/ d.page # ClusterPage => m.region = d.region /\ m.amiEnabled = d.amiEnabled
        /\ ~d.exists /\ d.page = ClusterPage => m.region = Home
        /\ d.subnet # Unset => m.subnet = d.subnet
        /\ m.subnet # d.subnet => VpcOf[m.subnet] = d.vpc
        /\ d.key # Unset => m.key = d.key
    BY <1>0, <2>1, MountedFields
  <2> HIDE DEF m
  <2>3. draft' = m
    BY <1>4 DEF m
  <2>4. /\ draft.exists => draft'.region = draft.region /\ draft'.amiEnabled = draft.amiEnabled
        /\ ~draft.exists => draft'.region \in {Home, Unset}
    BY <1>0, <2>1, <2>2, <2>3
  <2>5. QED
    BY <2>1, <2>2, <2>3, <2>4
<1>5. ASSUME NEW p \in VersionPage..LaterPages, GoToPage(p)
      PROVE  /\ draft' \in Setups /\ draft'.editing = draft.editing
             /\ draft'.loading = draft.loading
             /\ draft'.vpc = draft.vpc /\ draft'.ssm = draft.ssm /\ draft'.dcv = draft.dcv
             /\ draft'.ami = draft.ami /\ draft'.multiUser = draft.multiUser
             /\ draft'.directory = draft.directory /\ draft'.database = draft.database
             /\ draft.exists => draft'.region = draft.region /\ draft'.amiEnabled = draft.amiEnabled
             /\ ~draft.exists => draft'.region \in {Home, Unset}
             /\ draft.subnet # Unset => draft'.subnet = draft.subnet
             /\ draft'.subnet # draft.subnet => VpcOf[draft'.subnet] = draft.vpc
             /\ draft.key # Unset => draft'.key = draft.key
  BY <1>1, <1>4, <1>5, Zenon
<1>6. QED
  BY <1>1, <1>2, <1>3, <1>5, Zenon

\* Choices on a page other than those of the Region and the VPC.
Choices == \/ \E s \in VpcSubnets : SelectHeadNodeSubnet(s)
           \/ Boxes \/ TextFields \/ Access

\* Such a choice leaves the draft's place, and what history says of it, alone.
LEMMA ChoiceFields ==
  ASSUME Kinds, Choices
  PROVE  /\ draft'.page = draft.page /\ draft'.exists = draft.exists
         /\ draft'.editing = draft.editing /\ draft'.loading = draft.loading
         /\ draft'.region = draft.region /\ draft'.vpc = draft.vpc
         /\ pagesPast'.astray = pagesPast.astray /\ pagesPast'.failed = pagesPast.failed
         /\ pagesPast'.strange = pagesPast.strange /\ pagesPast'.skipped = pagesPast.skipped
         /\ pagesPast'.unanswered = pagesPast.unanswered /\ pagesPast'.from = pagesPast.from
         /\ UNCHANGED <<inWizard, seen, awsRegion, loads, refreshing>>
<1>0. draft \in Setups /\ pagesPast \in Past
  BY KindFields
<1> DEFINE Goal == /\ draft'.page = draft.page /\ draft'.exists = draft.exists
                   /\ draft'.editing = draft.editing /\ draft'.loading = draft.loading
                   /\ draft'.region = draft.region /\ draft'.vpc = draft.vpc
                   /\ pagesPast'.astray = pagesPast.astray /\ pagesPast'.failed = pagesPast.failed
                   /\ pagesPast'.strange = pagesPast.strange /\ pagesPast'.skipped = pagesPast.skipped
                   /\ pagesPast'.unanswered = pagesPast.unanswered /\ pagesPast'.from = pagesPast.from
                   /\ UNCHANGED <<inWizard, seen, awsRegion, loads, refreshing>>
<1>1. ASSUME NEW s \in VpcSubnets, SelectHeadNodeSubnet(s) PROVE Goal
  BY <1>0, <1>1 DEF SelectHeadNodeSubnet, ChangeTold, Setups, Past
<1>2. ASSUME ToggleClusterAmi PROVE Goal
  BY <1>0, <1>2 DEF ToggleClusterAmi, ChangeDraft, Setups
<1>3. ASSUME ToggleMultiUser PROVE Goal
  BY <1>0, <1>3 DEF ToggleMultiUser, SingleUser, ChangeDraft, Setups
<1>4. ASSUME NEW given \in BOOLEAN, SetClusterAmi(given) PROVE Goal
  BY <1>0, <1>4 DEF SetClusterAmi, ChangeDraft, Setups
<1>5. ASSUME NEW f, NEW given, SetDirectory(f, given) PROVE Goal
  BY <1>0, <1>5 DEF SetDirectory, ChangeDraft, Setups
<1>6. ASSUME NEW f, NEW given, SetDatabase(f, given) PROVE Goal
  BY <1>0, <1>6 DEF SetDatabase, ChangeDraft, Setups
<1>7. ASSUME NEW k, SelectKey(k) PROVE Goal
  BY <1>0, <1>7 DEF SelectKey, ChangeDraft, Setups
<1>8. ASSUME ToggleSsm PROVE Goal
  BY <1>0, <1>8 DEF ToggleSsm, ChangeDraft, Setups
<1>9. ASSUME ToggleDcv PROVE Goal
  BY <1>0, <1>9 DEF ToggleDcv, ChangeDraft, Setups
<1>10. ASSUME NEW policy \in {"ssm", "others"}, AddPolicy(policy) PROVE Goal
  BY <1>0, <1>10 DEF AddPolicy, ChangeDraft, Setups
<1>11. ASSUME NEW policy \in {"ssm", "others"}, RemovePolicy(policy) PROVE Goal
  BY <1>0, <1>11 DEF RemovePolicy, ChangeTold, Setups, Past
<1> HIDE DEF Goal
<1>12. Goal
  BY <1>1, <1>2, <1>3, <1>4, <1>5, <1>6, <1>7, <1>8, <1>9, <1>10, <1>11
  DEF Choices, Boxes, TextFields, Access
<1>13. QED
  BY <1>12 DEF Goal

-----------------------------------------------------------------------------
(* The Region of the resources, of the requests and of the VPC.              *)

LEMMA DueFields ==
  ASSUME Kinds
  PROVE  /\ DOMAIN loads = 1..Len(loads)
         /\ \A i \in DOMAIN loads :
              /\ loads[i] \in Loads /\ loads[i].due \in BOOLEAN /\ loads[i].waits \in BOOLEAN
              /\ loads[i].fill \subseteq LoadedDrafts /\ loads[i].region \in DraftRegions
         /\ Due = {} <=> \A i \in DOMAIN loads : ~loads[i].due
<1>1. loads \in Seq(Loads)
  BY KindFields
<1>2. \A i \in DOMAIN loads : loads[i] \in Loads
  BY <1>1, LenProperties
<1>3. \A i \in DOMAIN loads :
        /\ loads[i].due \in BOOLEAN /\ loads[i].waits \in BOOLEAN
        /\ loads[i].fill \subseteq LoadedDrafts /\ loads[i].region \in DraftRegions
  BY <1>2 DEF Loads
<1>4. Due = {} <=> \A i \in DOMAIN loads : ~loads[i].due
  BY DEF Due
<1>5. DOMAIN loads = 1..Len(loads)
  BY <1>1, LenProperties
<1>6. QED
  BY <1>2, <1>3, <1>4, <1>5

\* Nothing of this can change while requests, resources and Region stay.
LEMMA RegionalStill ==
  ASSUME Regional, Meant(draft') = Meant(draft), draft'.loading = draft.loading,
         draft'.vpc = draft.vpc, pagesPast'.astray = pagesPast.astray,
         pagesPast'.failed = pagesPast.failed, pagesPast'.strange = pagesPast.strange,
         UNCHANGED <<awsRegion, loads>>
  PROVE  Regional'
<1>1. LoadsFit'
  BY DEF Regional, LoadsFit
<1>2. ResourcesFit'
  BY DEF Regional, ResourcesFit, Due
<1>3. VpcFits'
  BY DEF Regional, VpcFits
<1>4. QED
  BY <1>1, <1>2, <1>3 DEF Regional

\* Requests marked as no longer due fit any draft.
LEMMA OverdueFits ==
  ASSUME Kinds, Regional, loads' \in {Overdue, Unawaited(Overdue)}
  PROVE  LoadsFit' /\ Due' = {}
<1>1. loads \in Seq(Loads)
  BY KindFields
<1>2. /\ Overdue \in Seq(Loads) /\ DOMAIN Overdue = DOMAIN loads
      /\ \A i \in DOMAIN loads :
           /\ Overdue[i].due = FALSE /\ Overdue[i].fill = loads[i].fill
           /\ Overdue[i].region = loads[i].region
  BY <1>1, OverdueFields
<1>3. /\ DOMAIN Unawaited(Overdue) = DOMAIN loads
      /\ \A i \in DOMAIN loads :
           /\ Unawaited(Overdue)[i].due = Overdue[i].due
           /\ Unawaited(Overdue)[i].fill = Overdue[i].fill
           /\ Unawaited(Overdue)[i].region = Overdue[i].region
  BY <1>2, UnawaitedFields
<1>4. /\ DOMAIN loads' = DOMAIN loads
      /\ \A i \in DOMAIN loads :
           /\ loads'[i].due = FALSE /\ loads'[i].fill = loads[i].fill
           /\ loads'[i].region = loads[i].region
  BY <1>2, <1>3
<1>5. QED
  BY <1>4 DEF Regional, LoadsFit, Due

\* A draft begun for the selected Region inherits the resources of one that had it.
LEMMA ResourcesAgain ==
  ASSUME Kinds, Regional, awsRegion' = awsRegion, Meant(draft') = Home,
         pagesPast'.astray = (pagesPast.astray \/ Due # {} \/ draft.region \notin {Home, Unset}),
         pagesPast'.failed = pagesPast.failed
  PROVE  ResourcesFit'
BY DEF Regional, ResourcesFit, Meant

LEMMA EntranceFields ==
  ASSUME Kinds, NEW d \in Setups, EnterWizard(d), d.exists <=> d.region # Unset
  PROVE  /\ Meant(draft') = Meant(d) /\ draft'.vpc = d.vpc /\ draft'.loading = d.loading
         /\ draft'.ssm = d.ssm /\ draft'.dcv = d.dcv
         /\ draft'.ami = d.ami /\ draft'.multiUser = d.multiUser
         /\ draft'.directory = d.directory /\ draft'.database = d.database
         /\ draft'.page = d.page /\ draft'.editing = d.editing
         /\ d.exists => draft'.region = d.region /\ draft'.amiEnabled = d.amiEnabled
         /\ d.page # ClusterPage => draft'.amiEnabled = d.amiEnabled
         /\ d.subnet # Unset => draft'.subnet = d.subnet
         /\ draft'.subnet # d.subnet => VpcOf[draft'.subnet] = d.vpc
         /\ d.key # Unset => draft'.key = d.key
         /\ d.page = VersionPage => draft' = d
         /\ UNCHANGED <<awsRegion, refreshing>> /\ ~inWizard
<1> DEFINE m == PageMounted(d, awsRegion)
<1>1. /\ awsRegion \in DraftRegions /\ Home \in DraftRegions /\ Unset \notin DraftRegions
  BY KindFields, PagesAssumption
<1>2. /\ m.page = d.page /\ m.editing = d.editing /\ m.loading = d.loading
      /\ m.vpc = d.vpc /\ m.ssm = d.ssm /\ m.dcv = d.dcv
      /\ m.ami = d.ami /\ m.multiUser = d.multiUser
      /\ m.directory = d.directory /\ m.database = d.database
      /\ d.exists \/ d.page # ClusterPage => m.region = d.region /\ m.amiEnabled = d.amiEnabled
      /\ ~d.exists /\ d.page = ClusterPage => m.region = Home
      /\ d.subnet # Unset => m.subnet = d.subnet
      /\ m.subnet # d.subnet => VpcOf[m.subnet] = d.vpc
      /\ d.key # Unset => m.key = d.key
  BY <1>1, MountedFields
<1>3. d.page = VersionPage => m = d
  BY DEF PageMounted, VersionPage, ClusterPage, HeadNodePage
<1> HIDE DEF m
<1>4. draft' = m /\ UNCHANGED <<awsRegion, refreshing>> /\ ~inWizard
  BY DEF EnterWizard, m
<1>5. Meant(m) = Meant(d)
  BY <1>1, <1>2 DEF Meant
<1>6. QED
  BY <1>2, <1>3, <1>4, <1>5

LEMMA EntrancesRegional ==
  ASSUME Kinds, Regional, Entrances
  PROVE  Regional'
<1>0. /\ draft \in Setups /\ pagesPast \in Past /\ awsRegion \in DraftRegions
      /\ draft.editing \in BOOLEAN /\ draft.vpc \in Vpcs \cup {Unset}
      /\ draft.exists <=> draft.region # Unset
      /\ draft.editing => ~draft.loading
      /\ Home \in DraftRegions /\ Home # Unset
      /\ pagesPast.strange \in BOOLEAN
  BY KindFields, PagesAssumption DEF DraftBegun
<1>1. /\ PutAway(draft) \in Setups /\ PutAway(draft).vpc = draft.vpc
      /\ PutAway(draft).loading = draft.loading
      /\ ~draft.editing => PutAway(draft) = draft
      /\ draft.editing => /\ PutAway(draft).exists = FALSE /\ PutAway(draft).region = Unset
                          /\ PutAway(draft).page = VersionPage
  BY <1>0, PutAwayFields
<1>2. ASSUME NEW r, NEW m, m = PastOfNew(r)
      PROVE  /\ m.astray = (pagesPast.astray \/ Due # {} \/ draft.region \notin {r, Unset})
             /\ m.failed = pagesPast.failed
             /\ m.strange = (pagesPast.strange \/ draft.region \notin {r, Unset})
             /\ m \in Past
  BY <1>0, <1>2, PastOfNewFields
<1>3. ASSUME NEW t \in LoadedDrafts, NEW m, m = PastOfLoaded(t, awsRegion)
      PROVE  /\ m.astray = (pagesPast.astray \/ Due # {} \/ draft.region \notin {t.region, Unset})
             /\ m.failed = pagesPast.failed
             /\ m.strange = (t.subnet \notin SubnetsShown(awsRegion))
  BY <1>0, <1>3, PastOfLoadedFields
<1>4. ASSUME CreateNew PROVE Regional'
  <2> DEFINE d == PutAway(draft)
  <2>1. /\ d \in Setups /\ d.vpc = draft.vpc /\ d.loading = draft.loading
        /\ d.exists <=> d.region # Unset
        /\ ~draft.editing => d = draft
        /\ draft.editing => d.region = Unset
    BY <1>0, <1>1
  <2>2. EnterWizard(d)
    BY <1>4 DEF CreateNew
  <2> HIDE DEF d
  <2>3. /\ Meant(draft') = Meant(d) /\ draft'.vpc = d.vpc /\ draft'.loading = d.loading
        /\ awsRegion' = awsRegion
    BY <2>1, <2>2, EntranceFields
  <2>4. CASE ~draft.editing
    <3>1. UNCHANGED <<loads, pagesPast>>
      BY <1>4, <2>4 DEF CreateNew
    <3>2. QED
      BY <2>1, <2>3, <2>4, <3>1, RegionalStill
  <2>5. CASE draft.editing
    <3>1. loads' = Overdue /\ pagesPast' = PastOfNew(Home)
      BY <1>4, <2>5 DEF CreateNew
    <3>2. /\ pagesPast'.astray = (pagesPast.astray \/ Due # {} \/ draft.region \notin {Home, Unset})
          /\ pagesPast'.failed = pagesPast.failed
          /\ pagesPast'.strange = (pagesPast.strange \/ draft.region \notin {Home, Unset})
      BY <1>2, <3>1
    <3>3. Meant(draft') = Home
      BY <2>1, <2>3, <2>5 DEF Meant
    <3>4. LoadsFit' /\ ResourcesFit'
      BY <2>3, <3>1, <3>2, <3>3, OverdueFits, ResourcesAgain
    <3>5. ~pagesPast'.strange => ~pagesPast.strange /\ Meant(draft) = Home
      BY <1>0, <3>2 DEF Meant
    <3>6. VpcFits'
      BY <1>0, <2>1, <2>3, <2>5, <3>3, <3>5 DEF Regional, VpcFits
    <3>7. QED
      BY <3>4, <3>6 DEF Regional
  <2>6. QED
    BY <2>4, <2>5
<1>5. ASSUME NEW t \in LoadedDrafts, NEW e \in Setups, NEW d \in Setups, t.region = Home,
             d = LoadedDraft(e, t, awsRegion), EnterWizard(d),
             loads' = Overdue, pagesPast' = PastOfLoaded(t, awsRegion)
      PROVE  Regional'
  <2>1. /\ d.exists = TRUE /\ d.region = Home /\ d.loading = FALSE
        /\ d.vpc = (IF t.subnet \in SubnetsShown(awsRegion) THEN VpcOf[t.subnet] ELSE e.vpc)
    <3>1. awsRegion \in DraftRegions /\ d = LoadedDraft(e, t, awsRegion) /\ t.region = Home
      BY <1>0, <1>5
    <3>2. d.exists = TRUE /\ d.region = t.region /\ d.loading = FALSE
      BY <3>1, LoadedPage, Zenon
    <3>3. d.vpc = (IF t.subnet \in SubnetsShown(awsRegion) THEN VpcOf[t.subnet] ELSE e.vpc)
      BY <3>1, LoadedVpc, Zenon
    <3>4. QED
      BY <3>1, <3>2, <3>3
  <2>2. d.exists <=> d.region # Unset
    BY <1>0, <2>1
  <2>3. /\ Meant(draft') = Meant(d) /\ draft'.vpc = d.vpc /\ awsRegion' = awsRegion
    BY <1>5, <2>2, EntranceFields
  <2>4. Meant(draft') = Home
    BY <1>0, <2>1, <2>3 DEF Meant
  <2>5. /\ pagesPast'.astray = (pagesPast.astray \/ Due # {} \/ draft.region \notin {Home, Unset})
        /\ pagesPast'.failed = pagesPast.failed
        /\ pagesPast'.strange = (t.subnet \notin SubnetsShown(awsRegion))
    BY <1>3, <1>5
  <2>6. LoadsFit' /\ ResourcesFit'
    BY <1>5, <2>3, <2>4, <2>5, OverdueFits, ResourcesAgain
  <2>7. t.subnet \in SubnetsShown(awsRegion) => RegionOfVpc[VpcOf[t.subnet]] = Home
    BY <1>0, <1>5, LoadedAmongShown
  <2>8. VpcFits'
    BY <2>1, <2>3, <2>4, <2>5, <2>7 DEF VpcFits
  <2>9. QED
    BY <2>6, <2>8 DEF Regional
<1>6. ASSUME NEW t \in LoadedDrafts, NEW e \in Setups, StartFrom(t, e) PROVE Regional'
  <2>1. LoadedDraft(e, t, awsRegion) \in Setups
    BY <1>0, LoadedPage, Zenon
  <2>2. QED
    BY <1>5, <1>6, <2>1 DEF StartFrom
<1>7. ASSUME NEW t \in LoadedDrafts, Edit(t) PROVE Regional'
  <2>1. [draft EXCEPT !.editing = TRUE] \in Setups
    BY <1>0 DEF Setups
  <2>2. QED
    BY <1>6, <1>7, <2>1 DEF Edit
<1>8. ASSUME NEW t \in LoadedDrafts, CreateFrom(t) PROVE Regional'
  BY <1>1, <1>6, <1>8 DEF CreateFrom
<1>9. ASSUME NEW t \in LoadedDrafts, Upload(t) PROVE Regional'
  <2> DEFINE l == LoadedDraft(draft, t, awsRegion)
             u == [draft EXCEPT !.exists = TRUE, !.loading = TRUE, !.region = t.region]
  <2>0. t.region \in DraftRegions /\ t.region # Unset
    BY LoadedRegion
  <2>1. l \in Setups /\ l.editing = draft.editing
    BY <1>0, LoadedFields, Zenon
  <2>2. CASE /\ t.region = Home /\ EnterWizard(PutAway(l)) /\ loads' = Overdue
             /\ pagesPast' = IF draft.editing THEN PastOfNew(Home) ELSE PastOfLoaded(t, awsRegion)
    <3>1. CASE ~draft.editing
      <4>1. PutAway(l) = l
        BY <2>1, <3>1, PutAwayFields
      <4> HIDE DEF l
      <4>2. EnterWizard(l) /\ pagesPast' = PastOfLoaded(t, awsRegion) /\ t.region = Home
        BY <2>2, <3>1, <4>1
      <4>3. l = LoadedDraft(draft, t, awsRegion)
        BY DEF l
      <4>4. QED
        BY <1>0, <1>5, <2>1, <2>2, <4>2, <4>3
    <3>2. CASE draft.editing
      <4> DEFINE d == PutAway(l)
      <4>1. l.vpc = (IF t.subnet \in SubnetsShown(awsRegion) THEN VpcOf[t.subnet] ELSE draft.vpc)
        BY <1>0, LoadedVpc, Zenon
      <4> HIDE DEF l
      <4>2. d \in Setups /\ d.exists = FALSE /\ d.region = Unset /\ d.vpc = l.vpc
        BY <2>1, <3>2, PutAwayFields
      <4> HIDE DEF d
      <4>3. /\ EnterWizard(d) /\ pagesPast' = PastOfNew(Home) /\ t.region = Home
            /\ d.exists <=> d.region # Unset
        BY <2>2, <3>2, <4>2 DEF d
      <4>4. /\ Meant(draft') = Meant(d) /\ draft'.vpc = d.vpc /\ awsRegion' = awsRegion
        BY <4>2, <4>3, EntranceFields
      <4>5. Meant(draft') = Home
        BY <4>2, <4>4 DEF Meant
      <4>6. /\ pagesPast'.astray = (pagesPast.astray \/ Due # {} \/ draft.region \notin {Home, Unset})
            /\ pagesPast'.failed = pagesPast.failed
            /\ pagesPast'.strange = (pagesPast.strange \/ draft.region \notin {Home, Unset})
        BY <1>2, <4>3
      <4>7. LoadsFit' /\ ResourcesFit'
        BY <2>2, <4>4, <4>5, <4>6, OverdueFits, ResourcesAgain
      <4>8. t.subnet \in SubnetsShown(awsRegion) => RegionOfVpc[VpcOf[t.subnet]] = Home
        BY <1>0, <4>3, LoadedAmongShown
      <4>9. ~pagesPast'.strange => ~pagesPast.strange /\ Meant(draft) = Home
        BY <1>0, <4>6 DEF Meant
      <4>10. VpcFits'
        BY <1>0, <3>2, <4>1, <4>2, <4>4, <4>5, <4>8, <4>9 DEF Regional, VpcFits
      <4>11. QED
        BY <4>7, <4>10 DEF Regional
    <3>3. QED
      BY <3>1, <3>2
  <2>3. CASE /\ EnterWizard(PutAway(u)) /\ LoadResources(Request(t.region, {t}), Overdue)
             /\ UNCHANGED pagesPast
    <3> DEFINE d == PutAway(u)
               q == Request(t.region, {t})
    <3>1. /\ u \in Setups /\ u.exists = TRUE /\ u.region = t.region /\ u.loading = TRUE
      BY <1>0, <2>0 DEF Setups
    <3> HIDE DEF u
    <3>2. /\ d \in Setups /\ d.loading = TRUE
          /\ d = u \/ (d.exists = FALSE /\ d.region = Unset)
      BY <3>1, PutAwayFields
    <3> HIDE DEF d
    <3>3. /\ EnterWizard(d)
          /\ d.exists <=> d.region # Unset
      BY <2>0, <2>3, <3>1, <3>2 DEF d
    <3>4. draft'.loading = TRUE
      BY <3>2, <3>3, EntranceFields
    <3>5. q \in Loads /\ q.region = t.region /\ q.fill = {t} /\ q.due = TRUE
      BY <2>0 DEF Request, Loads
    <3>6. /\ Overdue \in Seq(Loads) /\ DOMAIN Overdue = DOMAIN loads
          /\ \A i \in DOMAIN loads :
               /\ Overdue[i].due = FALSE /\ Overdue[i].fill = loads[i].fill
               /\ Overdue[i].region = loads[i].region
      BY KindFields, OverdueFields
    <3>7. /\ \E i \in DOMAIN loads' : loads'[i] = q
          /\ \A i \in DOMAIN loads' : loads'[i] = q \/ (i \in DOMAIN loads /\ loads'[i] = Overdue[i])
      BY <2>3, <3>5, <3>6, RequestMade DEF LoadResources
    <3>8. LoadsFit'
      <4> DEFINE Fits(a) == a.fill = {} \/ \E c \in LoadedDrafts : a.fill = {c} /\ c.region = a.region
      <4>1. \A i \in DOMAIN loads : Fits(loads[i])
        BY DEF Regional, LoadsFit
      <4>2. \A i \in DOMAIN loads : Fits(Overdue[i]) /\ Overdue[i].due = FALSE
        BY <3>6, <4>1
      <4>3. Fits(q) /\ q.fill # {}
        BY <3>5
      <4> HIDE DEF Fits
      <4>4. \A i \in DOMAIN loads' : Fits(loads'[i]) /\ (loads'[i].fill # {} \/ loads'[i].due = FALSE)
        BY <3>7, <4>2, <4>3
      <4>5. QED
        BY <4>4 DEF LoadsFit, Fits
    <3>9. Due' # {}
      BY <3>5, <3>7 DEF Due
    <3>10. QED
      BY <3>4, <3>8, <3>9 DEF Regional, ResourcesFit, VpcFits
  <2>4. QED
    BY <1>9, <2>2, <2>3 DEF Upload
<1>10. ASSUME CloseWizard PROVE Regional'
  <2>1. /\ draft' = ClearedDraft(draft) /\ loads' = Unawaited(Overdue) /\ awsRegion' = awsRegion
        /\ pagesPast' = [PastOfNew(Home) EXCEPT !.strange = FALSE]
    BY <1>10 DEF CloseWizard
  <2>2. draft'.region = Unset /\ draft'.vpc = Unset
    BY <1>0, <2>1, ClearedFields
  <2>3. /\ pagesPast'.astray = PastOfNew(Home).astray
        /\ pagesPast'.failed = PastOfNew(Home).failed
    BY <1>2, <2>1 DEF Past
  <2>4. Meant(draft') = Home
    BY <2>2 DEF Meant
  <2>5. LoadsFit' /\ ResourcesFit'
    BY <1>2, <2>1, <2>3, <2>4, OverdueFits, ResourcesAgain
  <2>6. QED
    BY <2>2, <2>5 DEF Regional, VpcFits
<1>11. ASSUME GoElsewhere PROVE Regional'
  <2>1. /\ loads' = Unawaited(loads) /\ UNCHANGED <<draft, awsRegion>>
        /\ pagesPast' = [pagesPast EXCEPT !.unanswered = FALSE]
    BY <1>11 DEF GoElsewhere
  <2>2. /\ pagesPast'.astray = pagesPast.astray /\ pagesPast'.failed = pagesPast.failed
        /\ pagesPast'.strange = pagesPast.strange
    BY <1>0, <2>1 DEF Past
  <2>3. /\ DOMAIN loads' = DOMAIN loads
        /\ \A i \in DOMAIN loads :
             /\ loads'[i].due = loads[i].due /\ loads'[i].fill = loads[i].fill
             /\ loads'[i].region = loads[i].region
    BY <2>1, KindFields, UnawaitedFields
  <2>4. LoadsFit'
    BY <2>1, <2>3 DEF Regional, LoadsFit
  <2>5. Due' = {} => Due = {}
    BY <2>3 DEF Due
  <2>6. QED
    BY <2>1, <2>2, <2>4, <2>5 DEF Regional, ResourcesFit, VpcFits
<1>12. QED
  BY <1>4, <1>7, <1>8, <1>9, <1>10, <1>11 DEF Entrances

LEMMA PagesRegional ==
  ASSUME Kinds, Regional, Turns \/ Choices
  PROVE  Regional'
<1>1. CASE Turns
  <2>1. /\ draft.exists <=> draft.region # Unset
        /\ Home # Unset
    BY KindFields, PagesAssumption DEF DraftBegun
  <2>2. /\ draft'.loading = draft.loading /\ draft'.vpc = draft.vpc
        /\ draft.exists => draft'.region = draft.region
        /\ ~draft.exists => draft'.region \in {Home, Unset}
        /\ pagesPast'.astray = pagesPast.astray /\ pagesPast'.failed = pagesPast.failed
        /\ pagesPast'.strange = pagesPast.strange /\ UNCHANGED <<awsRegion, loads>>
    BY <1>1, TurnFields
  <2>3. Meant(draft') = Meant(draft)
    BY <2>1, <2>2 DEF Meant
  <2>4. QED
    BY <2>2, <2>3, RegionalStill
<1>2. CASE Choices
  <2>1. /\ draft'.loading = draft.loading /\ draft'.vpc = draft.vpc
        /\ draft'.region = draft.region
        /\ pagesPast'.astray = pagesPast.astray /\ pagesPast'.failed = pagesPast.failed
        /\ pagesPast'.strange = pagesPast.strange /\ UNCHANGED <<awsRegion, loads>>
    BY <1>2, ChoiceFields
  <2>2. Meant(draft') = Meant(draft)
    BY <2>1 DEF Meant
  <2>3. QED
    BY <2>1, <2>2, RegionalStill
<1>3. QED
  BY <1>1, <1>2

\* A request for the draft there will be fits, and so do those before it.
LEMMA RequestFits ==
  ASSUME Kinds, NEW o \in Seq(Loads), NEW q \in Loads, loads' = Append(o, q),
         \A i \in DOMAIN o :
           o[i].fill = {} \/ \E c \in LoadedDrafts : o[i].fill = {c} /\ c.region = o[i].region,
         \A i \in DOMAIN o : o[i].due /\ o[i].fill = {} => o[i].region = Meant(draft'),
         q.fill = {}, q.due => q.region = Meant(draft')
  PROVE  /\ LoadsFit'
         /\ q.due => Due' # {}
         /\ Due' = {} => \A i \in DOMAIN o : ~o[i].due
<1> DEFINE Fits(a) == a.fill = {} \/ \E c \in LoadedDrafts : a.fill = {c} /\ c.region = a.region
<1>1. /\ \A i \in DOMAIN o : i \in DOMAIN loads' /\ loads'[i] = o[i]
      /\ \E i \in DOMAIN loads' : loads'[i] = q
      /\ \A i \in DOMAIN loads' : loads'[i] = q \/ (i \in DOMAIN o /\ loads'[i] = o[i])
  BY RequestMade
<1>2. /\ \A i \in DOMAIN o : Fits(o[i])
      /\ Fits(q)
  OBVIOUS
<1> HIDE DEF Fits
<1>3. \A i \in DOMAIN loads' :
        /\ Fits(loads'[i])
        /\ loads'[i].due /\ loads'[i].fill = {} => loads'[i].region = Meant(draft')
  BY <1>1, <1>2
<1>4. LoadsFit'
  BY <1>3 DEF LoadsFit, Fits
<1>5. q.due => Due' # {}
  BY <1>1 DEF Due
<1>6. Due' = {} => \A i \in DOMAIN o : ~o[i].due
  BY <1>1 DEF Due
<1>7. QED
  BY <1>4, <1>5, <1>6

LEMMA ChoicesOfPlaceRegional ==
  ASSUME Kinds, Regional, Places
  PROVE  Regional'
<1>0. /\ draft \in Setups /\ pagesPast \in Past /\ loads \in Seq(Loads)
      /\ awsRegion \in DraftRegions
      /\ draft.region \in DraftRegions \cup {Unset}
      /\ Unset \notin DraftRegions
  BY KindFields, PagesAssumption
<1>1. ASSUME NEW r \in DraftRegions, ChooseRegion(r) PROVE Regional'
  <2> DEFINE q == Request(r, {})
  <2>1. draft' = OfRegion(draft, r) /\ LoadResources(q, Overdue)
    BY <1>1 DEF ChooseRegion
  <2>2. draft'.region = r /\ draft'.vpc = Unset
    BY <1>0, <2>1, OfRegionFields
  <2>3. q \in Loads /\ q.fill = {} /\ q.region = r /\ q.due = TRUE
    BY DEF Request, Loads
  <2>4. Meant(draft') = r
    BY <1>0, <2>2 DEF Meant
  <2>5. /\ Overdue \in Seq(Loads) /\ DOMAIN Overdue = DOMAIN loads
        /\ \A i \in DOMAIN loads :
             /\ Overdue[i].due = FALSE /\ Overdue[i].fill = loads[i].fill
             /\ Overdue[i].region = loads[i].region
    BY <1>0, OverdueFields
  <2>6. \A i \in DOMAIN Overdue :
          \/ Overdue[i].fill = {}
          \/ \E c \in LoadedDrafts : Overdue[i].fill = {c} /\ c.region = Overdue[i].region
    BY <2>5 DEF Regional, LoadsFit
  <2> HIDE DEF q
  <2>7. loads' = Append(Overdue, q)
    BY <2>1 DEF LoadResources
  <2>8. LoadsFit' /\ Due' # {}
    BY <2>3, <2>4, <2>5, <2>6, <2>7, RequestFits
  <2>9. QED
    BY <2>2, <2>8 DEF Regional, ResourcesFit, VpcFits
<1>2. ASSUME NEW v \in Vpcs, SetVpc(v) PROVE Regional'
  <2>1. /\ RegionOfVpc[v] = awsRegion /\ draft' = [draft EXCEPT !.vpc = v]
        /\ pagesPast' = [pagesPast EXCEPT !.strange = awsRegion # draft.region,
                                          !.moved = draft.subnet # Unset]
        /\ UNCHANGED <<awsRegion, loads>>
    BY <1>2 DEF SetVpc
  <2>2. draft'.vpc = v /\ draft'.region = draft.region
    BY <1>0, <2>1 DEF Setups
  <2>3. /\ pagesPast'.astray = pagesPast.astray /\ pagesPast'.failed = pagesPast.failed
        /\ pagesPast'.strange = (awsRegion # draft.region)
    BY <1>0, <2>1 DEF Past
  <2>4. Meant(draft') = Meant(draft)
    BY <2>2 DEF Meant
  <2>5. LoadsFit' /\ ResourcesFit'
    BY <2>1, <2>3, <2>4 DEF Regional, LoadsFit, ResourcesFit, Due
  <2>6. VpcFits'
    BY <1>0, <2>1, <2>2, <2>3 DEF VpcFits, Meant
  <2>7. QED
    BY <2>5, <2>6 DEF Regional
<1>3. ASSUME NEW s \in VpcSubnets, SelectHeadNodeSubnet(s) PROVE Regional'
  BY <1>3, PagesRegional DEF Choices
<1>4. QED
  BY <1>1, <1>2, <1>3 DEF Places

LEMMA AnswerRegional ==
  ASSUME Kinds, Regional, NEW i, LoadAnswered(i)
  PROVE  Regional'
<1>0. /\ draft \in Setups /\ pagesPast \in Past /\ loads \in Seq(Loads)
      /\ draft.exists \in BOOLEAN
      /\ draft.exists <=> draft.region # Unset
      /\ Home # Unset
  BY KindFields, PagesAssumption DEF DraftBegun
<1>1. i \in DOMAIN loads
  BY DEF LoadAnswered
<1>2. /\ loads[i].fill \subseteq LoadedDrafts /\ loads[i].due \in BOOLEAN
      /\ loads[i].region \in DraftRegions
  BY <1>1, DueFields
<1>3. \A t \in loads[i].fill : t \in LoadedDrafts
  BY <1>2
<1>4. /\ awsRegion' = loads[i].region
      /\ pagesPast'.astray = ~loads[i].due
      /\ pagesPast'.failed = (pagesPast.failed /\ ~loads[i].due)
  BY <1>0, <1>3, AnswerFields
<1>5. \A k \in DOMAIN Others(i) : \E j \in DOMAIN loads : Others(i)[k] = loads[j]
  BY <1>0, <1>1, OthersFields
<1>6. /\ loads[i].fill = {} \/ \E t \in LoadedDrafts : loads[i].fill = {t} /\ t.region = loads[i].region
      /\ loads[i].due /\ loads[i].fill = {} => loads[i].region = Meant(draft)
  BY <1>1 DEF Regional, LoadsFit
<1>7. CASE /\ loads[i].fill = {} /\ loads' = Others(i)
           /\ draft' \in {draft, PageMounted(draft, awsRegion')}
           /\ draft' # draft => OnPage(HeadNodePage)
           /\ pagesPast'.strange = pagesPast.strange
  <2>1. /\ draft'.region = draft.region /\ draft'.vpc = draft.vpc
        /\ draft'.loading = draft.loading
    <3>1. CASE draft' = draft
      BY <3>1
    <3>2. CASE draft' # draft
      <4>1. draft.page # ClusterPage /\ draft' = PageMounted(draft, awsRegion')
        BY <1>7, <3>2 DEF OnPage, HeadNodePage, ClusterPage
      <4>2. QED
        BY <1>0, <1>2, <1>4, <4>1, MountedFields
    <3>3. QED
      BY <3>1, <3>2
  <2>2. Meant(draft') = Meant(draft)
    BY <2>1 DEF Meant
  <2>3. LoadsFit'
    <3>1. ASSUME NEW k \in DOMAIN loads'
          PROVE  /\ \/ loads'[k].fill = {}
                    \/ \E t \in LoadedDrafts : loads'[k].fill = {t} /\ t.region = loads'[k].region
                 /\ loads'[k].due /\ loads'[k].fill = {} => loads'[k].region = Meant(draft')
      <4>1. PICK j \in DOMAIN loads : loads'[k] = loads[j]
        BY <1>5, <1>7, <3>1
      <4>2. QED
        BY <2>2, <4>1 DEF Regional, LoadsFit
    <3>2. QED
      BY <3>1 DEF LoadsFit
  <2>4. ResourcesFit'
    BY <1>2, <1>4, <1>6, <1>7, <2>2 DEF ResourcesFit
  <2>5. VpcFits'
    BY <1>7, <2>1, <2>2 DEF Regional, VpcFits
  <2>6. QED
    BY <2>3, <2>4, <2>5 DEF Regional
<1>8. ASSUME NEW t \in loads[i].fill,
             draft' = LoadedDraft(draft, t, awsRegion'),
             loads' = [k \in DOMAIN Others(i) |-> [Others(i)[k] EXCEPT !.due = FALSE]],
             pagesPast'.strange = (t.subnet \notin SubnetsShown(awsRegion'))
      PROVE  Regional'
  <2>1. t \in LoadedDrafts /\ t.region = loads[i].region
    BY <1>3, <1>6, <1>8
  <2>2. t.region # Unset /\ awsRegion' \in DraftRegions
    BY <1>2, <1>4, <2>1, LoadedRegion
  <2>3. draft'.region = t.region
    BY <1>0, <1>8, <2>1, <2>2, LoadedPage, ZenonT(40)
  <2>4. draft'.vpc = (IF t.subnet \in SubnetsShown(awsRegion') THEN VpcOf[t.subnet] ELSE draft.vpc)
    BY <1>0, <1>8, <2>1, <2>2, LoadedVpc, Zenon
  <2>5. Meant(draft') = t.region
    BY <2>2, <2>3 DEF Meant
  <2>6. Others(i) \in Seq(Loads)
    BY <1>0, <1>1, OthersFields
  <2>7. loads' = Spent(Others(i))
    BY <1>8 DEF Spent
  <2>8. /\ DOMAIN loads' = DOMAIN Others(i)
        /\ \A k \in DOMAIN loads' :
             /\ loads'[k].due = FALSE /\ loads'[k].fill = Others(i)[k].fill
             /\ loads'[k].region = Others(i)[k].region
    <3>1. DOMAIN loads' = DOMAIN Others(i)
      BY <2>6, <2>7, SpentFields
    <3>2. \A k \in DOMAIN Others(i) :
            /\ loads'[k].due = FALSE /\ loads'[k].fill = Others(i)[k].fill
            /\ loads'[k].region = Others(i)[k].region
      BY <2>6, <2>7, SpentFields, Zenon
    <3>3. QED
      BY <3>1, <3>2
  <2>9. LoadsFit'
    <3>1. ASSUME NEW k \in DOMAIN loads'
          PROVE  /\ \/ loads'[k].fill = {}
                    \/ \E c \in LoadedDrafts : loads'[k].fill = {c} /\ c.region = loads'[k].region
                 /\ loads'[k].due = FALSE
      <4>1. PICK j \in DOMAIN loads : Others(i)[k] = loads[j]
        BY <1>5, <2>8, <3>1
      <4>2. loads'[k].fill = loads[j].fill /\ loads'[k].region = loads[j].region
        BY <2>8, <3>1, <4>1
      <4>3. loads[j].fill = {} \/ \E c \in LoadedDrafts : loads[j].fill = {c} /\ c.region = loads[j].region
        BY DEF Regional, LoadsFit
      <4>4. QED
        BY <2>8, <3>1, <4>2, <4>3
    <3>2. QED
      BY <3>1 DEF LoadsFit
  <2>10. ResourcesFit'
    BY <1>4, <2>1, <2>5 DEF ResourcesFit
  <2>11. t.subnet \in SubnetsShown(awsRegion') => RegionOfVpc[VpcOf[t.subnet]] = t.region
    BY <2>1, <2>2, LoadedAmongShown
  <2>12. VpcFits'
    BY <1>8, <2>4, <2>5, <2>11 DEF VpcFits
  <2>13. QED
    BY <2>9, <2>10, <2>12 DEF Regional
<1>9. \/ /\ loads[i].fill = {} /\ loads' = Others(i)
         /\ draft' \in {draft, PageMounted(draft, awsRegion')}
         /\ draft' # draft => OnPage(HeadNodePage)
         /\ pagesPast'.strange = pagesPast.strange
      \/ \E t \in loads[i].fill :
           /\ draft' = LoadedDraft(draft, t, awsRegion')
           /\ loads' = [k \in DOMAIN Others(i) |-> [Others(i)[k] EXCEPT !.due = FALSE]]
           /\ pagesPast'.strange = (t.subnet \notin SubnetsShown(awsRegion'))
  BY <1>0, <1>3, AnswerFields, Zenon
<1>10. QED
  BY <1>7, <1>8, <1>9, Zenon

LEMMA ResourcesRegional ==
  ASSUME Kinds, Regional, Resources
  PROVE  Regional'
<1>0. /\ draft \in Setups /\ pagesPast \in Past /\ loads \in Seq(Loads)
  BY KindFields
<1>1. ASSUME HandleRefresh PROVE Regional'
  <2> DEFINE l == [Request(Home, {}) EXCEPT !.waits = TRUE, !.due = draft.region \in {Home, Unset}]
  <2>1. LoadResources(l, loads) /\ UNCHANGED <<draft, awsRegion, pagesPast>>
    BY <1>1 DEF HandleRefresh
  <2>2. /\ l \in Loads /\ l.region = Home /\ l.fill = {}
        /\ l.due = (draft.region \in {Home, Unset})
    BY RefreshRequestFields
  <2> HIDE DEF l
  <2>3. loads' = Append(loads, l) /\ Meant(draft') = Meant(draft)
    BY <2>1 DEF LoadResources
  <2>4. l.due => l.region = Meant(draft')
    BY <2>2, <2>3 DEF Meant
  <2>5. /\ \A i \in DOMAIN loads :
             \/ loads[i].fill = {}
             \/ \E c \in LoadedDrafts : loads[i].fill = {c} /\ c.region = loads[i].region
        /\ \A i \in DOMAIN loads : loads[i].due /\ loads[i].fill = {} => loads[i].region = Meant(draft')
    BY <2>3 DEF Regional, LoadsFit
  <2>6. LoadsFit' /\ (Due' = {} => \A i \in DOMAIN loads : ~loads[i].due)
    BY <1>0, <2>2, <2>3, <2>4, <2>5, RequestFits
  <2>7. Due' = {} => Due = {}
    BY <2>6 DEF Due
  <2>8. QED
    BY <2>1, <2>6, <2>7 DEF Regional, ResourcesFit, VpcFits, Meant
<1>2. ASSUME NEW i \in 1..MaxLoads, LoadLost(i) PROVE Regional'
  <2>1. /\ i \in DOMAIN loads /\ loads' = Others(i)
        /\ pagesPast' = [pagesPast EXCEPT !.failed = TRUE, !.unanswered = @ \/ loads[i].waits]
        /\ UNCHANGED <<draft, awsRegion>>
    BY <1>2 DEF LoadLost
  <2>2. pagesPast'.failed = TRUE /\ pagesPast'.strange = pagesPast.strange
    BY <1>0, <2>1 DEF Past
  <2>3. \A k \in DOMAIN loads' : \E j \in DOMAIN loads : loads'[k] = loads[j]
    BY <1>0, <2>1, OthersFields
  <2>4. LoadsFit'
    <3>1. ASSUME NEW k \in DOMAIN loads'
          PROVE  /\ \/ loads'[k].fill = {}
                    \/ \E t \in LoadedDrafts : loads'[k].fill = {t} /\ t.region = loads'[k].region
                 /\ loads'[k].due /\ loads'[k].fill = {} => loads'[k].region = Meant(draft')
      <4>1. PICK j \in DOMAIN loads : loads'[k] = loads[j]
        BY <2>3, <3>1
      <4>2. QED
        BY <2>1, <4>1 DEF Regional, LoadsFit
    <3>2. QED
      BY <3>1 DEF LoadsFit
  <2>5. QED
    BY <2>1, <2>2, <2>4 DEF Regional, ResourcesFit, VpcFits
<1>3. QED
  BY <1>1, <1>2, AnswerRegional DEF Resources

LEMMA RegionalKept ==
  ASSUME Kinds, Regional, [PagesNext]_pagesVars
  PROVE  Regional'
<1>1. CASE UNCHANGED pagesVars
  BY <1>1, RegionalStill DEF pagesVars
<1>2. QED
  BY <1>1, EntrancesRegional, PagesRegional, ChoicesOfPlaceRegional, ResourcesRegional
  DEF PagesNext, Choices

LEMMA RegionalFirst ==
  ASSUME PagesInit
  PROVE  Regional
<1>1. draft = NoSetup /\ awsRegion = Home /\ loads = <<>>
  BY DEF PagesInit
<1>2. Meant(draft) = Home /\ draft.vpc = Unset
  BY <1>1, NoSetupFields DEF Meant
<1>3. DOMAIN loads = {}
  BY <1>1
<1>4. QED
  BY <1>1, <1>2, <1>3 DEF Regional, LoadsFit, ResourcesFit, VpcFits

-----------------------------------------------------------------------------
(* What the pages show.  The parts that are about the draft and history only *)
(* are Sound of the two; the others are about a refresh and the page.        *)

Sound(d, past) ==
  /\ d.subnet # Unset /\ d.vpc # Unset /\ ~past.moved => VpcOf[d.subnet] = d.vpc
  /\ d.dcv /\ ~past.removed => d.ssm
  /\ d.directory # {} => d.multiUser
  /\ d.ami => d.amiEnabled
  /\ d.editing => \A t \in past.from :
       /\ d.region = t.region /\ d.subnet = t.subnet /\ d.dcv = t.dcv /\ d.multiUser = t.directory
       /\ KeyKept(d.key, t) \/ past.moved
Behind(d, past) ==
  \A p \in {ClusterPage, HeadNodePage} :
    p < d.page /\ p \notin past.skipped => ErrorsOf(d, p) = {}

LEMMA ShownParts ==
  /\ Shown <=> Sound(draft, pagesPast) /\ RefreshHasCause /\ Behind(draft, pagesPast)
  /\ Shown' <=> Sound(draft', pagesPast') /\ RefreshHasCause' /\ Behind(draft', pagesPast')
BY DEF Shown, Sound, Behind, SubnetInVpc, DcvHasSession, DirectoryIsShared, ClusterAmiIsShown,
       EditKeepsSetup, PassedPagesAreValid

\* The cluster page's validation reads these fields only.
LEMMA ClusterErrorsOf ==
  ASSUME NEW d, NEW e, d.editing = e.editing, d.vpc = e.vpc, d.amiEnabled = e.amiEnabled,
         d.ami = e.ami, d.multiUser = e.multiUser, d.directory = e.directory,
         d.database = e.database
  PROVE  ErrorsOf(d, ClusterPage) = ErrorsOf(e, ClusterPage)
<1>1. Missing(d) = Missing(e) /\ Partial(d) = Partial(e)
  BY DEF Missing, Partial
<1>2. ClusterFieldErrors(d) = ClusterFieldErrors(e)
  BY DEF ClusterFieldErrors
<1>3. ErrorsOf(d, ClusterPage) = ClusterErrors(d) /\ ErrorsOf(e, ClusterPage) = ClusterErrors(e)
  BY DEF ErrorsOf, ClusterPage, HeadNodePage
<1>4. QED
  BY <1>1, <1>2, <1>3 DEF ClusterErrors

LEMMA HeadNodeErrorsOf ==
  ASSUME NEW d
  PROVE  ErrorsOf(d, HeadNodePage) = {} <=> d.subnet # Unset
<1>1. ErrorsOf(d, HeadNodePage) = HeadNodeErrors(d)
  BY DEF ErrorsOf, ClusterPage, HeadNodePage
<1>2. QED
  BY <1>1 DEF HeadNodeErrors

\* On the cluster page and before it, nothing is behind.
LEMMA NothingBehind ==
  ASSUME NEW d, NEW past, d.page \in {VersionPage, ClusterPage}
  PROVE  Behind(d, past)
BY DEF Behind, VersionPage, ClusterPage, HeadNodePage

\* The draft may change behind its page where validation does not look.
LEMMA BehindStays ==
  ASSUME NEW d \in Setups, NEW e, NEW past, NEW told, Behind(d, past), e.page = d.page,
         told.skipped = past.skipped,
         d.page # HeadNodePage /\ d.subnet # Unset => e.subnet # Unset,
         e.editing = d.editing, e.vpc = d.vpc, e.amiEnabled = d.amiEnabled, e.ami = d.ami,
         e.multiUser = d.multiUser, e.directory = d.directory, e.database = d.database
  PROVE  Behind(e, told)
<1>1. ErrorsOf(e, ClusterPage) = ErrorsOf(d, ClusterPage)
  BY ClusterErrorsOf
<1>2. ASSUME HeadNodePage < d.page, HeadNodePage \notin past.skipped
      PROVE  ErrorsOf(e, HeadNodePage) = {}
  <2>1. ErrorsOf(d, HeadNodePage) = {}
    BY <1>2 DEF Behind
  <2>2. d.page # HeadNodePage
    BY <1>2 DEF HeadNodePage
  <2>3. QED
    BY <2>1, <2>2, HeadNodeErrorsOf
<1>3. QED
  BY <1>1, <1>2 DEF Behind

\* Into the wizard with a draft that is sound as history will have it.
LEMMA EntranceShown ==
  ASSUME Kinds, NEW d \in Setups, EnterWizard(d), d.exists <=> d.region # Unset,
         d.ami => d.exists, Sound(d, pagesPast'), Behind(d, pagesPast'),
         d.editing /\ pagesPast'.from # {} => d.exists, pagesPast'.from \subseteq LoadedDrafts
  PROVE  Shown'
<1>1. /\ draft'.vpc = d.vpc /\ draft'.ssm = d.ssm /\ draft'.dcv = d.dcv
      /\ draft'.ami = d.ami /\ draft'.multiUser = d.multiUser
      /\ draft'.directory = d.directory /\ draft'.database = d.database
      /\ draft'.page = d.page /\ draft'.editing = d.editing
      /\ d.exists => draft'.region = d.region /\ draft'.amiEnabled = d.amiEnabled
      /\ d.page # ClusterPage => draft'.amiEnabled = d.amiEnabled
      /\ d.subnet # Unset => draft'.subnet = d.subnet
      /\ draft'.subnet # d.subnet => VpcOf[draft'.subnet] = d.vpc
      /\ d.key # Unset => draft'.key = d.key
      /\ refreshing' = refreshing /\ ~inWizard
  BY EntranceFields
<1>2. RefreshHasCause'
  <2>1. ~refreshing
    BY <1>1, KindFields DEF DraftBegun
  <2>2. QED
    BY <1>1, <2>1 DEF RefreshHasCause
<1>3. Sound(draft', pagesPast')
  <2>1. draft'.subnet # Unset /\ draft'.vpc # Unset /\ ~pagesPast'.moved => VpcOf[draft'.subnet] = draft'.vpc
    BY <1>1 DEF Sound
  <2>2. /\ draft'.dcv /\ ~pagesPast'.removed => draft'.ssm
        /\ draft'.directory # {} => draft'.multiUser
        /\ draft'.ami => draft'.amiEnabled
    BY <1>1 DEF Sound
  <2>3. ASSUME draft'.editing, NEW t \in pagesPast'.from
        PROVE  /\ draft'.region = t.region /\ draft'.subnet = t.subnet
               /\ draft'.dcv = t.dcv /\ draft'.multiUser = t.directory
               /\ KeyKept(draft'.key, t) \/ pagesPast'.moved
    <3>1. t.subnet # Unset
      BY <2>3, LoadedSubnet
    <3>2. /\ d.region = t.region /\ d.subnet = t.subnet /\ d.dcv = t.dcv /\ d.multiUser = t.directory
          /\ KeyKept(d.key, t) \/ pagesPast'.moved
          /\ d.exists
      BY <1>1, <2>3 DEF Sound
    <3>3. KeyKept(draft'.key, t) \/ pagesPast'.moved
      BY <1>1, <2>3, <3>2, KeyStaysKept
    <3>4. QED
      BY <1>1, <3>1, <3>2, <3>3
  <2>4. QED
    BY <2>1, <2>2, <2>3 DEF Sound
<1>4. Behind(draft', pagesPast')
  <2>1. CASE d.page \in {VersionPage, ClusterPage}
    BY <1>1, <2>1, NothingBehind
  <2>2. CASE d.page \notin {VersionPage, ClusterPage}
    BY <1>1, <2>2, BehindStays
  <2>3. QED
    BY <2>1, <2>2
<1>5. QED
  BY <1>2, <1>3, <1>4, ShownParts

\* A draft with nothing set in it shows nothing that could be wrong.
LEMMA BlankSound ==
  ASSUME NEW d, NEW past, d.editing = FALSE, d.subnet = Unset, d.dcv = FALSE,
         d.directory = {}, d.ami = FALSE
  PROVE  Sound(d, past)
BY DEF Sound

\* What a configuration is loaded as, when history is told of that.
LEMMA LoadedSound ==
  ASSUME NEW d \in Setups, NEW t \in LoadedDrafts, NEW aws \in DraftRegions, NEW past,
         past.moved = (t.subnet \notin SubnetsShown(aws)),
         past.removed = (t.dcv /\ ~t.ssm), past.from = {t}
  PROVE  Sound(LoadedDraft(d, t, aws), past)
<1> DEFINE m == LoadedDraft(d, t, aws)
<1>1. /\ m.region = t.region /\ m.subnet = t.subnet
      /\ m.dcv = t.dcv /\ m.ssm = t.ssm /\ m.multiUser = t.directory
      /\ m.key = SetKey(t.key, aws)
      /\ m.directory # {} => t.directory
      /\ m.ami => m.amiEnabled
      /\ m.vpc = (IF t.subnet \in SubnetsShown(aws) THEN VpcOf[t.subnet] ELSE d.vpc)
  <2>1. /\ m.region = t.region /\ m.subnet = t.subnet /\ m.dcv = t.dcv
        /\ m.ssm = t.ssm /\ m.multiUser = t.directory /\ m.key = SetKey(t.key, aws)
    <3>1. m.region = t.region
      BY LoadedFields, Zenon
    <3>2. m.subnet = t.subnet
      BY LoadedFields, Zenon
    <3>3. m.dcv = t.dcv
      BY LoadedFields, Zenon
    <3>4. m.ssm = t.ssm
      BY LoadedFields, Zenon
    <3>5. m.multiUser = t.directory
      BY LoadedFields, Zenon
    <3>6. m.key = SetKey(t.key, aws)
      BY LoadedFields, Zenon
    <3>7. QED
      BY <3>1, <3>2, <3>3, <3>4, <3>5, <3>6, Zenon
  <2>2. m.directory # {} => t.directory
    BY LoadedFields, Zenon
  <2>3. m.ami => m.amiEnabled
    BY LoadedFields, Zenon
  <2>4. QED
    BY <2>1, <2>2, <2>3, LoadedVpc, Zenon
<1>2. t \in Configurations
  BY PagesAssumption
<1>3. t.dcv \in BOOLEAN /\ t.ssm \in BOOLEAN
  BY <1>2 DEF Configurations
<1>4. KeyKept(m.key, t) \/ past.moved
  BY <1>1, LoadedAmongShown, KeySet
<1> HIDE DEF m
<1>5. Sound(m, past)
  <2>1. m.subnet # Unset /\ m.vpc # Unset /\ ~past.moved => VpcOf[m.subnet] = m.vpc
    BY <1>1
  <2>2. m.dcv /\ ~past.removed => m.ssm
    BY <1>1, <1>3
  <2>3. m.directory # {} => m.multiUser
    BY <1>1
  <2>4. \A u \in past.from :
          /\ m.region = u.region /\ m.subnet = u.subnet /\ m.dcv = u.dcv
          /\ m.multiUser = u.directory
          /\ KeyKept(m.key, u) \/ past.moved
    BY <1>1, <1>4
  <2>5. QED
    BY <1>1, <2>1, <2>2, <2>3, <2>4 DEF Sound
<1>6. QED
  BY <1>5 DEF m

\* PutAway of an edit is blank, and of any other draft that draft.
LEMMA PutAwayShown ==
  ASSUME NEW d \in Setups, NEW past, ~d.editing => Sound(d, past) /\ Behind(d, past)
  PROVE  Sound(PutAway(d), past) /\ Behind(PutAway(d), past)
<1> DEFINE m == PutAway(d)
<1>1. /\ ~d.editing => m = d
      /\ m.editing = FALSE
      /\ d.editing => /\ m.page = VersionPage /\ m.subnet = Unset /\ m.dcv = FALSE
                      /\ m.ami = FALSE /\ m.directory = {}
  BY PutAwayFields, Zenon
<1> HIDE DEF m
<1>2. CASE d.editing
  <2>1. Sound(m, past)
    BY <1>1, <1>2, BlankSound
  <2>2. Behind(m, past)
    BY <1>1, <1>2, NothingBehind
  <2>3. QED
    BY <2>1, <2>2 DEF m
<1>3. CASE ~d.editing
  BY <1>1, <1>3 DEF m
<1>4. QED
  BY <1>2, <1>3

LEMMA EntrancesShown ==
  ASSUME Kinds, Shown, Entrances
  PROVE  Shown'
<1>0. /\ draft \in Setups /\ pagesPast \in Past /\ awsRegion \in DraftRegions
      /\ draft.editing \in BOOLEAN
      /\ draft.exists <=> draft.region # Unset
      /\ draft.ami => draft.exists
      /\ pagesPast.from \subseteq LoadedDrafts
      /\ Sound(draft, pagesPast) /\ RefreshHasCause /\ Behind(draft, pagesPast)
  BY KindFields, ShownParts DEF DraftBegun
\* Of what is put away, for every entrance through it.
<1>1. ASSUME NEW d \in Setups, d.exists <=> d.region # Unset, d.ami => d.exists
      PROVE  /\ PutAway(d) \in Setups /\ PutAway(d).editing = FALSE
             /\ PutAway(d).exists <=> PutAway(d).region # Unset
             /\ PutAway(d).ami => PutAway(d).exists
             /\ ~d.editing => PutAway(d) = d
  <2> DEFINE m == PutAway(d)
  <2>1. d.editing => m.exists = FALSE /\ m.region = Unset /\ m.ami = FALSE
    BY PutAwayFields, Zenon
  <2>2. (m \in Setups /\ m.editing = FALSE) /\ (~d.editing => m = d)
    BY PutAwayFields, Zenon
  <2> HIDE DEF m
  <2>3. /\ m.exists <=> m.region # Unset
        /\ m.ami => m.exists
    BY <1>1, <2>1, <2>2
  <2>4. QED
    BY <2>2, <2>3 DEF m
<1>2. ASSUME CreateNew PROVE Shown'
  <2>1. EnterWizard(PutAway(draft))
    BY <1>2 DEF CreateNew
  <2>2. \/ draft.editing /\ pagesPast' = PastOfNew(Home)
        \/ ~draft.editing /\ pagesPast' = pagesPast
    BY <1>2 DEF CreateNew
  <2>3. pagesPast'.from \subseteq LoadedDrafts
    BY <1>0, <2>2, PastOfNewFields
  <2>4. Sound(PutAway(draft), pagesPast') /\ Behind(PutAway(draft), pagesPast')
    BY <1>0, <2>2, PutAwayShown
  <2>5. QED
    BY <1>0, <1>1, <2>1, <2>3, <2>4, EntranceShown
<1>3. ASSUME NEW t \in LoadedDrafts, NEW d \in Setups, StartFrom(t, d) PROVE Shown'
  <2> DEFINE m == LoadedDraft(d, t, awsRegion)
  <2>1. EnterWizard(m) /\ pagesPast' = PastOfLoaded(t, awsRegion)
    BY <1>3 DEF StartFrom
  <2>2. m \in Setups /\ m.page = VersionPage /\ m.exists = TRUE /\ m.region # Unset
    BY <1>0, LoadedPage, LoadedRegion
  <2>3. /\ pagesPast'.moved = (t.subnet \notin SubnetsShown(awsRegion))
        /\ pagesPast'.removed = (t.dcv /\ ~t.ssm) /\ pagesPast'.from = {t}
    BY <1>0, <2>1, PastOfLoadedFields, Zenon
  <2>4. Sound(m, pagesPast')
    BY <1>0, <2>3, LoadedSound
  <2> HIDE DEF m
  <2>5. Behind(m, pagesPast')
    BY <2>2, NothingBehind
  <2>6. QED
    BY <2>1, <2>2, <2>3, <2>4, <2>5, EntranceShown
<1>4. ASSUME NEW t \in LoadedDrafts, Edit(t) PROVE Shown'
  <2>1. [draft EXCEPT !.editing = TRUE] \in Setups
    BY <1>0 DEF Setups
  <2>2. QED
    BY <1>3, <1>4, <2>1 DEF Edit
<1>5. ASSUME NEW t \in LoadedDrafts, CreateFrom(t) PROVE Shown'
  BY <1>0, <1>1, <1>3, <1>5 DEF CreateFrom
<1>6. ASSUME NEW t \in LoadedDrafts, Upload(t) PROVE Shown'
  <2>1. CASE /\ EnterWizard(PutAway(LoadedDraft(draft, t, awsRegion)))
             /\ pagesPast' = IF draft.editing THEN PastOfNew(Home) ELSE PastOfLoaded(t, awsRegion)
    <3> DEFINE l == LoadedDraft(draft, t, awsRegion)
    <3>1. /\ l \in Setups /\ l.page = VersionPage /\ l.exists = TRUE /\ l.region # Unset
          /\ l.editing = draft.editing
      <4>1. l.editing = draft.editing
        BY <1>0, LoadedFields, Zenon
      <4>2. QED
        BY <1>0, <4>1, LoadedPage, LoadedRegion
    <3>2. ~draft.editing => Sound(l, pagesPast') /\ pagesPast'.from = {t}
      <4>1. ASSUME ~draft.editing
            PROVE  /\ pagesPast'.moved = (t.subnet \notin SubnetsShown(awsRegion))
                   /\ pagesPast'.removed = (t.dcv /\ ~t.ssm) /\ pagesPast'.from = {t}
        BY <1>0, <2>1, <4>1, PastOfLoadedFields, Zenon
      <4>2. QED
        BY <1>0, <4>1, LoadedSound
    <3>3. pagesPast'.from \subseteq LoadedDrafts
      BY <1>0, <2>1, <3>2, PastOfNewFields
    <3> HIDE DEF l
    <3>4. Sound(PutAway(l), pagesPast') /\ Behind(PutAway(l), pagesPast')
      BY <3>1, <3>2, NothingBehind, PutAwayShown
    <3>5. QED
      BY <1>1, <2>1, <3>1, <3>3, <3>4, EntranceShown DEF l
  <2>2. CASE /\ EnterWizard(PutAway([draft EXCEPT !.exists = TRUE, !.loading = TRUE, !.region = t.region]))
             /\ UNCHANGED pagesPast
    <3> DEFINE e == [draft EXCEPT !.exists = TRUE, !.loading = TRUE, !.region = t.region]
    <3>1. t.region \in DraftRegions /\ t.region # Unset
      BY LoadedRegion
    <3>2. /\ e \in Setups /\ e.page = draft.page /\ e.exists = TRUE /\ e.region = t.region
          /\ e.editing = draft.editing /\ e.vpc = draft.vpc /\ e.subnet = draft.subnet
          /\ e.dcv = draft.dcv /\ e.ssm = draft.ssm /\ e.ami = draft.ami
          /\ e.amiEnabled = draft.amiEnabled /\ e.multiUser = draft.multiUser
          /\ e.directory = draft.directory /\ e.database = draft.database
      BY <1>0, <3>1 DEF Setups
    <3> HIDE DEF e
    <3>3. ~draft.editing => Sound(e, pagesPast')
      BY <1>0, <2>2, <3>2 DEF Sound
    <3>4. Behind(e, pagesPast')
      BY <1>0, <2>2, <3>2, BehindStays
    <3>5. Sound(PutAway(e), pagesPast') /\ Behind(PutAway(e), pagesPast')
      BY <3>2, <3>3, <3>4, PutAwayShown
    <3>6. QED
      BY <1>0, <1>1, <2>2, <3>1, <3>2, <3>5, EntranceShown DEF e
  <2>3. QED
    BY <1>6, <2>1, <2>2 DEF Upload
<1>7. ASSUME CloseWizard PROVE Shown'
  <2>1. /\ draft' = ClearedDraft(draft) /\ refreshing' = FALSE
        /\ pagesPast' = [PastOfNew(Home) EXCEPT !.strange = FALSE]
    BY <1>7 DEF CloseWizard
  <2>2. pagesPast'.from = {}
    <3>1. PastOfNew(Home) \in Past /\ PastOfNew(Home).from = {}
      BY <1>0, PastOfNewFields
    <3>2. QED
      BY <2>1, <3>1 DEF Past
  <2>3. /\ draft'.page = VersionPage /\ draft'.subnet = Unset /\ draft'.dcv = FALSE
        /\ draft'.ami = FALSE /\ draft'.directory = {}
    BY <1>0, <2>1, ClearedFields
  <2>4. Sound(draft', pagesPast')
    BY <2>2, <2>3 DEF Sound
  <2>5. Behind(draft', pagesPast')
    BY <2>3, NothingBehind
  <2>6. QED
    BY <2>1, <2>4, <2>5, ShownParts DEF RefreshHasCause
<1>8. ASSUME GoElsewhere PROVE Shown'
  <2>1. /\ draft' = draft /\ refreshing' = FALSE
        /\ pagesPast' = [pagesPast EXCEPT !.unanswered = FALSE]
    BY <1>8 DEF GoElsewhere, Left
  <2>2. /\ pagesPast'.moved = pagesPast.moved /\ pagesPast'.removed = pagesPast.removed
        /\ pagesPast'.from = pagesPast.from /\ pagesPast'.skipped = pagesPast.skipped
    BY <1>0, <2>1 DEF Past
  <2>3. Sound(draft', pagesPast') /\ Behind(draft', pagesPast')
    BY <1>0, <2>1, <2>2 DEF Sound, Behind
  <2>4. QED
    BY <2>1, <2>3, ShownParts DEF RefreshHasCause
<1>9. QED
  BY <1>2, <1>4, <1>5, <1>6, <1>7, <1>8 DEF Entrances

\* A page turned leaves behind it what was valid, and what it steps over skipped.
LEMMA TurnBehind ==
  ASSUME Kinds, Shown, NEW p \in VersionPage..LaterPages, GoToPage(p), p # draft.page,
         p < draft.page \/ ErrorsOf(draft, draft.page) = {}
  PROVE  Behind(draft', pagesPast')
<1>0. /\ draft \in Setups /\ pagesPast \in Past /\ awsRegion \in DraftRegions
      /\ draft.page \in VersionPage..LaterPages /\ pagesPast.skipped \subseteq Int
  BY KindFields
<1>1. Behind(draft, pagesPast)
  BY ShownParts
<1> DEFINE d == [draft EXCEPT !.page = p]
           m == PageMounted(d, awsRegion)
           over == IF p < draft.page THEN {q \in pagesPast.skipped : q < p}
                   ELSE (pagesPast.skipped \ {draft.page}) \cup ((draft.page + 1)..(p - 1))
<1>2. draft' = m /\ pagesPast' = [pagesPast EXCEPT !.skipped = over]
  BY DEF GoToPage
<1>3. /\ d \in Setups /\ d.page = p /\ d.editing = draft.editing /\ d.vpc = draft.vpc
      /\ d.subnet = draft.subnet /\ d.amiEnabled = draft.amiEnabled /\ d.ami = draft.ami
      /\ d.multiUser = draft.multiUser /\ d.directory = draft.directory
      /\ d.database = draft.database
  BY <1>0 DEF Setups
<1> HIDE DEF d
<1>4. /\ m.page = p /\ m.editing = draft.editing /\ m.vpc = draft.vpc /\ m.ami = draft.ami
      /\ p # ClusterPage => m.amiEnabled = draft.amiEnabled
      /\ m.multiUser = draft.multiUser /\ m.directory = draft.directory
      /\ m.database = draft.database
      /\ draft.subnet # Unset => m.subnet # Unset
  BY <1>0, <1>3, MountedFields
<1> HIDE DEF m
<1>5. ASSUME NEW q \in {ClusterPage, HeadNodePage}, q < p, q \notin over
      PROVE  ErrorsOf(draft, q) = {}
  <2>1. p \in Int /\ draft.page \in Int /\ q \in Int
    BY <1>0 DEF VersionPage, LaterPages, ClusterPage, HeadNodePage
  <2>2. CASE p < draft.page
    <3>1. q < draft.page /\ q \notin pagesPast.skipped
      BY <1>5, <2>1, <2>2
    <3>2. QED
      BY <1>1, <3>1 DEF Behind
  <2>3. CASE ~(p < draft.page)
    <3>1. q \notin (draft.page + 1)..(p - 1) /\ (q # draft.page => q \notin pagesPast.skipped)
      BY <1>5, <2>3
    <3>2. q <= draft.page
      BY <1>5, <2>1, <3>1
    <3>3. CASE q = draft.page
      BY <2>3, <3>3
    <3>4. CASE q # draft.page
      <4>1. q < draft.page /\ q \notin pagesPast.skipped
        BY <2>1, <3>1, <3>2, <3>4
      <4>2. QED
        BY <1>1, <4>1 DEF Behind
    <3>5. QED
      BY <3>3, <3>4
  <2>4. QED
    BY <2>2, <2>3
<1>6. pagesPast'.skipped = over
  BY <1>0, <1>2 DEF Past
<1> HIDE DEF over
<1>7. ASSUME NEW q \in {ClusterPage, HeadNodePage}, q < p, q \notin over
      PROVE  ErrorsOf(m, q) = {}
  <2>1. ErrorsOf(draft, q) = {}
    BY <1>5, <1>7
  <2>2. CASE q = ClusterPage
    <3>1. p # ClusterPage
      BY <1>7, <2>2 DEF ClusterPage
    <3>2. ErrorsOf(m, ClusterPage) = ErrorsOf(draft, ClusterPage)
      BY <1>4, <3>1, ClusterErrorsOf
    <3>3. QED
      BY <2>1, <2>2, <3>2
  <2>3. CASE q = HeadNodePage
    BY <1>4, <2>1, <2>3, HeadNodeErrorsOf
  <2>4. QED
    BY <2>2, <2>3
<1>8. QED
  BY <1>2, <1>4, <1>6, <1>7 DEF Behind

LEMMA TurnsShown ==
  ASSUME Kinds, Shown, Turns
  PROVE  Shown'
<1>0. /\ draft.page \in VersionPage..LaterPages /\ pagesPast.from \subseteq LoadedDrafts
      /\ draft.ami => draft.exists
      /\ draft.editing /\ pagesPast.from # {} => draft.exists
      /\ Sound(draft, pagesPast) /\ RefreshHasCause /\ Behind(draft, pagesPast)
  BY KindFields, ShownParts DEF DraftBegun
<1>1. /\ draft'.editing = draft.editing
      /\ draft'.vpc = draft.vpc /\ draft'.ssm = draft.ssm /\ draft'.dcv = draft.dcv
      /\ draft'.ami = draft.ami /\ draft'.multiUser = draft.multiUser
      /\ draft'.directory = draft.directory
      /\ draft.exists => draft'.region = draft.region /\ draft'.amiEnabled = draft.amiEnabled
      /\ draft.subnet # Unset => draft'.subnet = draft.subnet
      /\ draft'.subnet # draft.subnet => VpcOf[draft'.subnet] = draft.vpc
      /\ draft.key # Unset => draft'.key = draft.key
      /\ pagesPast'.moved = pagesPast.moved /\ pagesPast'.removed = pagesPast.removed
      /\ pagesPast'.unanswered = pagesPast.unanswered /\ pagesPast'.from = pagesPast.from
      /\ UNCHANGED <<loads, refreshing>>
  BY TurnFields
<1>2. RefreshHasCause'
  BY <1>0, <1>1 DEF RefreshHasCause
<1>3. Sound(draft', pagesPast')
  <2>1. draft'.subnet # Unset /\ draft'.vpc # Unset /\ ~pagesPast'.moved => VpcOf[draft'.subnet] = draft'.vpc
    BY <1>0, <1>1 DEF Sound
  <2>2. /\ draft'.dcv /\ ~pagesPast'.removed => draft'.ssm
        /\ draft'.directory # {} => draft'.multiUser
        /\ draft'.ami => draft'.amiEnabled
    BY <1>0, <1>1 DEF Sound
  <2>3. ASSUME draft'.editing, NEW t \in pagesPast'.from
        PROVE  /\ draft'.region = t.region /\ draft'.subnet = t.subnet
               /\ draft'.dcv = t.dcv /\ draft'.multiUser = t.directory
               /\ KeyKept(draft'.key, t) \/ pagesPast'.moved
    <3>1. t.subnet # Unset
      BY <1>0, <1>1, <2>3, LoadedSubnet
    <3>2. /\ draft.region = t.region /\ draft.subnet = t.subnet
          /\ draft.dcv = t.dcv /\ draft.multiUser = t.directory
          /\ KeyKept(draft.key, t) \/ pagesPast.moved
          /\ draft.exists
      BY <1>0, <1>1, <2>3 DEF Sound
    <3>3. KeyKept(draft'.key, t) \/ pagesPast'.moved
      BY <1>0, <1>1, <2>3, <3>2, KeyStaysKept
    <3>4. QED
      BY <1>1, <3>1, <3>2, <3>3
  <2>4. QED
    BY <2>1, <2>2, <2>3 DEF Sound
<1>4. Behind(draft', pagesPast')
  <2>1. ASSUME UNCHANGED <<draft, pagesPast>> PROVE Behind(draft', pagesPast')
    BY <1>0, <2>1
  <2>2. ASSUME NextPage PROVE Behind(draft', pagesPast')
    <3>1. CASE ErrorsOf(draft, draft.page) = {} /\ GoToPage(draft.page + 1)
      <4>1. draft.page + 1 \in VersionPage..LaterPages /\ draft.page + 1 # draft.page
        BY <1>0, <2>2 DEF NextPage, VersionPage, LaterPages
      <4>2. QED
        BY <3>1, <4>1, TurnBehind
    <3>2. QED
      BY <2>1, <2>2, <3>1 DEF NextPage
  <2>3. ASSUME PreviousPage PROVE Behind(draft', pagesPast')
    <3>1. /\ draft.page - 1 \in VersionPage..LaterPages /\ draft.page - 1 # draft.page
          /\ draft.page - 1 < draft.page
      BY <1>0, <2>3 DEF PreviousPage, VersionPage, LaterPages
    <3>2. QED
      BY <2>3, <3>1, TurnBehind DEF PreviousPage
  <2>4. ASSUME NEW p \in VersionPage..LaterPages, StepTo(p) PROVE Behind(draft', pagesPast')
    <3>1. CASE MayStepTo(p) /\ GoToPage(p)
      BY <2>4, <3>1, TurnBehind DEF StepTo, MayStepTo
    <3>2. QED
      BY <2>1, <2>4, <3>1 DEF StepTo
  <2>5. QED
    BY <2>2, <2>3, <2>4 DEF Turns
<1>5. QED
  BY <1>2, <1>3, <1>4, ShownParts

\* A choice on the cluster page has nothing behind it; one on the head node's leaves
\* what the cluster page validates alone.
LEMMA ChoiceShown ==
  ASSUME Kinds, Shown, Choices, Sound(draft', pagesPast'),
         \/ draft.page = ClusterPage
         \/ /\ draft.page = HeadNodePage
            /\ draft'.amiEnabled = draft.amiEnabled /\ draft'.ami = draft.ami
            /\ draft'.multiUser = draft.multiUser /\ draft'.directory = draft.directory
            /\ draft'.database = draft.database
  PROVE  Shown'
<1>1. /\ draft \in Setups /\ RefreshHasCause /\ Behind(draft, pagesPast)
  BY KindFields, ShownParts
<1>2. /\ draft'.page = draft.page /\ draft'.editing = draft.editing /\ draft'.vpc = draft.vpc
      /\ pagesPast'.skipped = pagesPast.skipped /\ pagesPast'.unanswered = pagesPast.unanswered
      /\ UNCHANGED <<loads, refreshing>>
  BY ChoiceFields
<1>3. RefreshHasCause'
  BY <1>1, <1>2 DEF RefreshHasCause
<1>4. Behind(draft', pagesPast')
  BY <1>1, <1>2, BehindStays, NothingBehind
<1>5. QED
  BY <1>3, <1>4, ShownParts

LEMMA ClusterChoicesShown ==
  ASSUME Kinds, Shown, Boxes \/ TextFields
  PROVE  Shown'
<1>0. /\ draft \in Setups /\ pagesPast \in Past
      /\ Sound(draft, pagesPast) /\ Choices
      /\ draft.ami \in BOOLEAN /\ draft.amiEnabled \in BOOLEAN
  BY KindFields, ShownParts DEF Choices
<1>1. ASSUME OnPage(ClusterPage), Sound(draft', pagesPast') PROVE Shown'
  BY <1>0, <1>1, ChoiceShown DEF OnPage
<1>2. ASSUME ToggleClusterAmi PROVE Shown'
  <2>1. /\ OnPage(ClusterPage) /\ ~draft.editing
        /\ draft' = [draft EXCEPT !.amiEnabled = ~@, !.ami = @ /\ ~draft.amiEnabled]
        /\ pagesPast' = pagesPast
    BY <1>2 DEF ToggleClusterAmi, OnNewCluster, ChangeDraft
  <2>2. /\ draft'.subnet = draft.subnet /\ draft'.vpc = draft.vpc
        /\ draft'.dcv = draft.dcv /\ draft'.ssm = draft.ssm
        /\ draft'.directory = draft.directory /\ draft'.multiUser = draft.multiUser
        /\ draft'.editing = draft.editing
    BY <1>0, <2>1 DEF Setups
  <2>3. draft'.ami = (draft.ami /\ ~draft.amiEnabled)
    BY <1>0, <2>1 DEF Setups
  <2>4. Sound(draft', pagesPast')
    BY <1>0, <2>1, <2>2, <2>3 DEF Sound
  <2>5. QED
    BY <1>1, <2>1, <2>4
<1>3. ASSUME NEW given \in BOOLEAN, SetClusterAmi(given) PROVE Shown'
  <2>1. /\ OnPage(ClusterPage) /\ draft.amiEnabled
        /\ draft' = [draft EXCEPT !.ami = given] /\ pagesPast' = pagesPast
    BY <1>3 DEF SetClusterAmi, ChangeDraft
  <2>2. /\ draft'.subnet = draft.subnet /\ draft'.vpc = draft.vpc /\ draft'.region = draft.region
        /\ draft'.key = draft.key /\ draft'.dcv = draft.dcv /\ draft'.ssm = draft.ssm
        /\ draft'.directory = draft.directory /\ draft'.multiUser = draft.multiUser
        /\ draft'.editing = draft.editing /\ draft'.amiEnabled = draft.amiEnabled
    BY <1>0, <2>1 DEF Setups
  <2>3. Sound(draft', pagesPast')
    BY <1>0, <2>1, <2>2 DEF Sound
  <2>4. QED
    BY <1>1, <2>1, <2>3
<1>4. ASSUME ToggleMultiUser PROVE Shown'
  <2>1. /\ OnPage(ClusterPage) /\ ~draft.editing /\ pagesPast' = pagesPast
        /\ \/ draft' = [draft EXCEPT !.multiUser = FALSE, !.directory = {}]
           \/ ~draft.multiUser /\ draft' = [draft EXCEPT !.multiUser = TRUE]
    BY <1>4 DEF ToggleMultiUser, SingleUser, OnNewCluster, ChangeDraft
  <2>2. /\ draft'.subnet = draft.subnet /\ draft'.vpc = draft.vpc
        /\ draft'.dcv = draft.dcv /\ draft'.ssm = draft.ssm
        /\ draft'.ami = draft.ami /\ draft'.amiEnabled = draft.amiEnabled
        /\ draft'.editing = draft.editing
        /\ draft'.directory = {} \/ draft'.multiUser = TRUE
    BY <1>0, <2>1 DEF Setups
  <2>3. Sound(draft', pagesPast')
    BY <1>0, <2>1, <2>2 DEF Sound
  <2>4. QED
    BY <1>1, <2>1, <2>3
<1>5. ASSUME NEW f, NEW given, SetDirectory(f, given) PROVE Shown'
  <2>1. /\ OnPage(ClusterPage) /\ draft.multiUser
        /\ draft' = [draft EXCEPT !.directory = WithField(draft.directory, f, given)]
        /\ pagesPast' = pagesPast
    BY <1>0, <1>5 DEF SetDirectory, ChangeDraft, Setups
  <2>2. /\ draft'.subnet = draft.subnet /\ draft'.vpc = draft.vpc /\ draft'.region = draft.region
        /\ draft'.key = draft.key /\ draft'.dcv = draft.dcv /\ draft'.ssm = draft.ssm
        /\ draft'.ami = draft.ami /\ draft'.multiUser = draft.multiUser
        /\ draft'.editing = draft.editing /\ draft'.amiEnabled = draft.amiEnabled
    BY <1>0, <2>1 DEF Setups
  <2>3. Sound(draft', pagesPast')
    BY <1>0, <2>1, <2>2 DEF Sound
  <2>4. QED
    BY <1>1, <2>1, <2>3
<1>6. ASSUME NEW f, NEW given, SetDatabase(f, given) PROVE Shown'
  <2>1. /\ OnPage(ClusterPage) /\ pagesPast' = pagesPast
        /\ draft' = [draft EXCEPT !.database = WithField(draft.database, f, given)]
    BY <1>0, <1>6 DEF SetDatabase, ChangeDraft, Setups
  <2>2. /\ draft'.subnet = draft.subnet /\ draft'.vpc = draft.vpc /\ draft'.region = draft.region
        /\ draft'.key = draft.key /\ draft'.dcv = draft.dcv /\ draft'.ssm = draft.ssm
        /\ draft'.directory = draft.directory /\ draft'.multiUser = draft.multiUser
        /\ draft'.ami = draft.ami
        /\ draft'.editing = draft.editing /\ draft'.amiEnabled = draft.amiEnabled
    BY <1>0, <2>1 DEF Setups
  <2>3. Sound(draft', pagesPast')
    BY <1>0, <2>1, <2>2 DEF Sound
  <2>4. QED
    BY <1>1, <2>1, <2>3
<1>7. QED
  BY <1>2, <1>3, <1>4, <1>5, <1>6 DEF Boxes, TextFields

LEMMA HeadNodeChoicesShown ==
  ASSUME Kinds, Shown, Access \/ \E s \in VpcSubnets : SelectHeadNodeSubnet(s)
  PROVE  Shown'
<1>0. /\ draft \in Setups /\ pagesPast \in Past
      /\ Sound(draft, pagesPast) /\ Choices
      /\ draft.ssm \in BOOLEAN /\ draft.dcv \in BOOLEAN
  BY KindFields, ShownParts DEF Choices
\* What no choice on this page changes.
<1> DEFINE Kept == /\ draft'.vpc = draft.vpc /\ draft'.region = draft.region
                   /\ draft'.editing = draft.editing /\ draft'.amiEnabled = draft.amiEnabled
                   /\ draft'.ami = draft.ami /\ draft'.multiUser = draft.multiUser
                   /\ draft'.directory = draft.directory /\ draft'.database = draft.database
<1>1. ASSUME OnPage(HeadNodePage), Kept, Sound(draft', pagesPast') PROVE Shown'
  BY <1>0, <1>1, ChoiceShown DEF OnPage
<1>2. ASSUME NEW s \in VpcSubnets, SelectHeadNodeSubnet(s) PROVE Shown'
  <2>1. /\ OnPage(HeadNodePage) /\ ~draft.editing /\ draft' = [draft EXCEPT !.subnet = s]
        /\ draft.vpc # Unset => VpcOf[s] = draft.vpc
    BY <1>2 DEF SelectHeadNodeSubnet, ChangeTold
  <2>2. pagesPast'.removed = pagesPast.removed
    BY <1>0, <1>2 DEF SelectHeadNodeSubnet, ChangeTold, Past
  <2>3. Kept /\ draft'.subnet = s /\ draft'.ssm = draft.ssm /\ draft'.dcv = draft.dcv
    BY <1>0, <2>1 DEF Setups
  <2>4. Sound(draft', pagesPast')
    BY <1>0, <2>1, <2>2, <2>3 DEF Sound
  <2>5. QED
    BY <1>1, <2>1, <2>3, <2>4
<1>3. ASSUME NEW k, SelectKey(k) PROVE Shown'
  <2>1. /\ OnPage(HeadNodePage) /\ ~draft.editing /\ pagesPast' = pagesPast
        /\ draft' = [draft EXCEPT !.key = k, !.ssm = @ \/ k = Unset]
    BY <1>3 DEF SelectKey, ChangeDraft
  <2>2. /\ Kept /\ draft'.subnet = draft.subnet /\ draft'.dcv = draft.dcv
        /\ draft.ssm => draft'.ssm
    BY <1>0, <2>1 DEF Setups
  <2>3. Sound(draft', pagesPast')
    BY <1>0, <2>1, <2>2 DEF Sound
  <2>4. QED
    BY <1>1, <2>1, <2>2, <2>3
<1>4. ASSUME ToggleSsm PROVE Shown'
  <2>1. /\ OnPage(HeadNodePage) /\ ~draft.dcv /\ pagesPast' = pagesPast
        /\ draft' = [draft EXCEPT !.ssm = ~@]
    BY <1>4 DEF ToggleSsm, CanToggleSsm, ChangeDraft
  <2>2. Kept /\ draft'.subnet = draft.subnet /\ draft'.dcv = draft.dcv /\ draft'.key = draft.key
    BY <1>0, <2>1 DEF Setups
  <2>3. Sound(draft', pagesPast')
    BY <1>0, <2>1, <2>2 DEF Sound
  <2>4. QED
    BY <1>1, <2>1, <2>2, <2>3
<1>5. ASSUME ToggleDcv PROVE Shown'
  <2>1. /\ OnPage(HeadNodePage) /\ ~draft.editing /\ pagesPast' = pagesPast
        /\ draft' = [draft EXCEPT !.dcv = ~@, !.ssm = @ \/ ~draft.dcv]
    BY <1>5 DEF ToggleDcv, ChangeDraft
  <2>2. /\ Kept /\ draft'.subnet = draft.subnet /\ draft'.dcv = ~draft.dcv
        /\ draft'.ssm = (draft.ssm \/ ~draft.dcv)
    BY <1>0, <2>1 DEF Setups
  <2>3. Sound(draft', pagesPast')
    BY <1>0, <2>1, <2>2 DEF Sound
  <2>4. QED
    BY <1>1, <2>1, <2>2, <2>3
<1>6. ASSUME NEW policy \in {"ssm", "others"}, AddPolicy(policy) PROVE Shown'
  <2>1. /\ OnPage(HeadNodePage) /\ pagesPast' = pagesPast
        /\ draft' = [draft EXCEPT ![policy] = TRUE]
    BY <1>6 DEF AddPolicy, ChangeDraft
  <2>2. /\ Kept /\ draft'.subnet = draft.subnet /\ draft'.dcv = draft.dcv
        /\ draft'.key = draft.key
        /\ draft.ssm => draft'.ssm
    <3>1. CASE policy = "ssm"
      BY <1>0, <2>1, <3>1 DEF Setups
    <3>2. CASE policy = "others"
      BY <1>0, <2>1, <3>2 DEF Setups
    <3>3. QED
      BY <3>1, <3>2
  <2>3. Sound(draft', pagesPast')
    BY <1>0, <2>1, <2>2 DEF Sound
  <2>4. QED
    BY <1>1, <2>1, <2>2, <2>3
<1>7. ASSUME NEW policy \in {"ssm", "others"}, RemovePolicy(policy) PROVE Shown'
  <2>1. /\ OnPage(HeadNodePage) /\ draft' = [draft EXCEPT ![policy] = FALSE]
        /\ pagesPast' = [pagesPast EXCEPT !.removed = @ \/ (policy = "ssm" /\ draft.dcv)]
    BY <1>7 DEF RemovePolicy, ChangeTold
  <2>2. /\ pagesPast'.moved = pagesPast.moved /\ pagesPast'.from = pagesPast.from
        /\ pagesPast'.removed = (pagesPast.removed \/ (policy = "ssm" /\ draft.dcv))
    BY <1>0, <2>1 DEF Past
  <2>3. /\ Kept /\ draft'.subnet = draft.subnet /\ draft'.dcv = draft.dcv
        /\ draft'.key = draft.key
        /\ policy = "others" => draft'.ssm = draft.ssm
    <3>1. CASE policy = "ssm"
      BY <1>0, <2>1, <3>1 DEF Setups
    <3>2. CASE policy = "others"
      BY <1>0, <2>1, <3>2 DEF Setups
    <3>3. QED
      BY <3>1, <3>2
  <2>4. Sound(draft', pagesPast')
    BY <1>0, <2>2, <2>3 DEF Sound
  <2>5. QED
    BY <1>1, <2>1, <2>3, <2>4
<1>8. QED
  BY <1>2, <1>3, <1>4, <1>5, <1>6, <1>7 DEF Access

LEMMA PlacesShown ==
  ASSUME Kinds, Shown, Places
  PROVE  Shown'
<1>0. /\ draft \in Setups /\ pagesPast \in Past /\ loads \in Seq(Loads)
      /\ Sound(draft, pagesPast) /\ RefreshHasCause
  BY KindFields, ShownParts
<1>1. ASSUME NEW r \in DraftRegions, ChooseRegion(r) PROVE Shown'
  <2> DEFINE q == Request(r, {})
  <2>1. /\ draft.page = ClusterPage /\ draft' = OfRegion(draft, r)
        /\ LoadResources(q, Overdue)
        /\ pagesPast'.unanswered = pagesPast.unanswered /\ refreshing' = refreshing
    BY <1>1 DEF ChooseRegion, OnNewCluster, OnPage, NewPast
  <2>2. /\ draft'.page = draft.page /\ draft'.editing = FALSE /\ draft'.subnet = Unset
        /\ draft'.dcv = FALSE /\ draft'.ami = FALSE /\ draft'.directory = {}
    BY <1>0, <2>1, OfRegionFields
  <2>3. q \in Loads
    BY DEF Request, Loads
  <2>4. /\ Overdue \in Seq(Loads) /\ DOMAIN Overdue = DOMAIN loads
        /\ \A i \in DOMAIN loads : Overdue[i].waits = loads[i].waits
    BY <1>0, OverdueFields
  <2> HIDE DEF q
  <2>5. loads' = Append(Overdue, q)
    BY <2>1 DEF LoadResources
  <2>6. \A i \in DOMAIN loads : i \in DOMAIN loads' /\ loads'[i] = Overdue[i]
    BY <2>3, <2>4, <2>5, RequestMade
  <2>7. RefreshHasCause'
    BY <1>0, <2>1, <2>4, <2>6 DEF RefreshHasCause
  <2>8. Sound(draft', pagesPast') /\ Behind(draft', pagesPast')
    <3>1. draft'.page \in {VersionPage, ClusterPage}
      BY <2>1, <2>2
    <3>2. Behind(draft', pagesPast')
      BY <3>1, NothingBehind
    <3>3. Sound(draft', pagesPast')
      BY <2>2, BlankSound
    <3>4. QED
      BY <3>2, <3>3
  <2>9. QED
    BY <2>7, <2>8, ShownParts
<1>2. ASSUME NEW v \in Vpcs, SetVpc(v) PROVE Shown'
  <2> DEFINE strange == awsRegion # draft.region
             moved == draft.subnet # Unset
  <2>1. /\ draft.page = ClusterPage /\ ~draft.editing /\ draft' = [draft EXCEPT !.vpc = v]
        /\ pagesPast' = [pagesPast EXCEPT !.strange = strange, !.moved = moved]
        /\ UNCHANGED <<loads, refreshing>>
    BY <1>2 DEF SetVpc, OnNewCluster, OnPage
  <2> HIDE DEF strange
  <2>2. /\ draft'.page = draft.page /\ draft'.editing = draft.editing
        /\ draft'.subnet = draft.subnet /\ draft'.dcv = draft.dcv /\ draft'.ssm = draft.ssm
        /\ draft'.ami = draft.ami /\ draft'.amiEnabled = draft.amiEnabled
        /\ draft'.multiUser = draft.multiUser /\ draft'.directory = draft.directory
    BY <1>0, <2>1 DEF Setups
  <2>3. /\ pagesPast'.moved = moved /\ pagesPast'.removed = pagesPast.removed
        /\ pagesPast'.unanswered = pagesPast.unanswered
    BY <1>0, <2>1 DEF Past
  <2>4. RefreshHasCause'
    BY <1>0, <2>1, <2>3 DEF RefreshHasCause
  <2>5. Sound(draft', pagesPast')
    BY <1>0, <2>1, <2>2, <2>3 DEF Sound
  <2>6. Behind(draft', pagesPast')
    <3>1. draft'.page \in {VersionPage, ClusterPage}
      BY <2>1, <2>2
    <3>2. QED
      BY <3>1, NothingBehind
  <2>7. QED
    BY <2>4, <2>5, <2>6, ShownParts
<1>3. QED
  BY <1>1, <1>2, HeadNodeChoicesShown DEF Places

\* A head node page mounted again fills in only what the draft does not have.
LEMMA RemountedShown ==
  ASSUME Kinds, Shown, NEW aws \in DraftRegions, draft' = PageMounted(draft, aws),
         OnPage(HeadNodePage),
         pagesPast'.moved = pagesPast.moved, pagesPast'.removed = pagesPast.removed,
         pagesPast'.skipped = pagesPast.skipped, pagesPast'.from = pagesPast.from
  PROVE  Sound(draft', pagesPast') /\ Behind(draft', pagesPast')
<1>0. /\ draft \in Setups /\ pagesPast.from \subseteq LoadedDrafts
      /\ draft.editing /\ pagesPast.from # {} => draft.exists
      /\ draft.page # ClusterPage
      /\ Sound(draft, pagesPast) /\ Behind(draft, pagesPast)
  BY KindFields, ShownParts DEF DraftBegun, OnPage, ClusterPage, HeadNodePage
<1>1. /\ draft'.page = draft.page /\ draft'.editing = draft.editing
      /\ draft'.vpc = draft.vpc /\ draft'.ssm = draft.ssm /\ draft'.dcv = draft.dcv
      /\ draft'.ami = draft.ami /\ draft'.multiUser = draft.multiUser
      /\ draft'.directory = draft.directory /\ draft'.database = draft.database
      /\ draft'.region = draft.region /\ draft'.amiEnabled = draft.amiEnabled
      /\ draft.subnet # Unset => draft'.subnet = draft.subnet
      /\ draft'.subnet # draft.subnet => VpcOf[draft'.subnet] = draft.vpc
      /\ draft.key # Unset => draft'.key = draft.key
  BY <1>0, MountedFields
<1>2. Sound(draft', pagesPast')
  <2>1. draft'.subnet # Unset /\ draft'.vpc # Unset /\ ~pagesPast'.moved => VpcOf[draft'.subnet] = draft'.vpc
    BY <1>0, <1>1 DEF Sound
  <2>2. /\ draft'.dcv /\ ~pagesPast'.removed => draft'.ssm
        /\ draft'.directory # {} => draft'.multiUser
        /\ draft'.ami => draft'.amiEnabled
    BY <1>0, <1>1 DEF Sound
  <2>3. ASSUME draft'.editing, NEW t \in pagesPast'.from
        PROVE  /\ draft'.region = t.region /\ draft'.subnet = t.subnet
               /\ draft'.dcv = t.dcv /\ draft'.multiUser = t.directory
               /\ KeyKept(draft'.key, t) \/ pagesPast'.moved
    <3>1. t.subnet # Unset
      BY <1>0, <2>3, LoadedSubnet
    <3>2. /\ draft.region = t.region /\ draft.subnet = t.subnet
          /\ draft.dcv = t.dcv /\ draft.multiUser = t.directory
          /\ KeyKept(draft.key, t) \/ pagesPast.moved
      BY <1>0, <1>1, <2>3 DEF Sound
    <3>3. KeyKept(draft'.key, t) \/ pagesPast'.moved
      BY <1>0, <1>1, <2>3, <3>2, KeyStaysKept
    <3>4. QED
      BY <1>1, <3>1, <3>2, <3>3
  <2>4. QED
    BY <2>1, <2>2, <2>3 DEF Sound
<1>3. Behind(draft', pagesPast')
  BY <1>0, <1>1, BehindStays
<1>4. QED
  BY <1>2, <1>3

LEMMA AnswerShown ==
  ASSUME Kinds, Shown, NEW i, LoadAnswered(i)
  PROVE  Shown'
<1>0. /\ draft \in Setups /\ pagesPast \in Past /\ loads \in Seq(Loads)
      /\ Sound(draft, pagesPast) /\ RefreshHasCause /\ Behind(draft, pagesPast)
  BY KindFields, ShownParts
<1>1. i \in DOMAIN loads
  BY DEF LoadAnswered
<1>2. /\ loads[i].fill \subseteq LoadedDrafts /\ loads[i].region \in DraftRegions
  BY <1>1, DueFields
<1>3. \A t \in loads[i].fill : t \in LoadedDrafts
  BY <1>2
<1>4. /\ awsRegion' = loads[i].region /\ refreshing' = (refreshing /\ ~loads[i].waits)
      /\ pagesPast'.unanswered = pagesPast.unanswered
  BY <1>0, <1>3, AnswerFields
<1>5. /\ Others(i) \in Seq(Loads)
      /\ \A j \in DOMAIN loads \ {i} : \E k \in DOMAIN Others(i) : Others(i)[k] = loads[j]
  BY <1>0, <1>1, OthersFields
\* If Next still waits, what it waits for is another request.
<1>6. refreshing' => \/ pagesPast'.unanswered
                     \/ \E k \in DOMAIN Others(i) : Others(i)[k].waits
  <2>1. SUFFICES ASSUME refreshing', ~pagesPast'.unanswered
                 PROVE  \E k \in DOMAIN Others(i) : Others(i)[k].waits
    OBVIOUS
  <2>2. PICK j \in DOMAIN loads : loads[j].waits
    BY <1>0, <1>4, <2>1 DEF RefreshHasCause
  <2>3. j # i
    BY <1>4, <2>1, <2>2
  <2>4. QED
    BY <1>5, <2>2, <2>3
<1>7. CASE /\ loads' = Others(i) /\ draft' \in {draft, PageMounted(draft, awsRegion')}
           /\ draft' # draft => OnPage(HeadNodePage)
           /\ pagesPast'.moved = pagesPast.moved /\ pagesPast'.removed = pagesPast.removed
           /\ pagesPast'.skipped = pagesPast.skipped /\ pagesPast'.from = pagesPast.from
  <2>1. RefreshHasCause'
    BY <1>6, <1>7 DEF RefreshHasCause
  <2>2. Sound(draft', pagesPast') /\ Behind(draft', pagesPast')
    <3>1. CASE draft' = draft
      BY <1>0, <1>7, <3>1 DEF Sound, Behind
    <3>2. CASE draft' # draft
      BY <1>2, <1>4, <1>7, <3>2, RemountedShown
    <3>3. QED
      BY <3>1, <3>2
  <2>3. QED
    BY <2>1, <2>2, ShownParts
<1>8. ASSUME NEW t \in loads[i].fill, draft' = LoadedDraft(draft, t, awsRegion'),
             loads' = [k \in DOMAIN Others(i) |-> [Others(i)[k] EXCEPT !.due = FALSE]],
             pagesPast'.moved = (t.subnet \notin SubnetsShown(awsRegion')),
             pagesPast'.removed = (t.dcv /\ ~t.ssm), pagesPast'.from = {t}
      PROVE  Shown'
  <2>1. loads' = Spent(Others(i))
    BY <1>8 DEF Spent
  <2>2. /\ DOMAIN loads' = DOMAIN Others(i)
        /\ \A k \in DOMAIN Others(i) : loads'[k].waits = Others(i)[k].waits
    BY <1>5, <2>1, SpentFields
  <2>3. RefreshHasCause'
    BY <1>6, <2>2 DEF RefreshHasCause
  <2>4. t \in LoadedDrafts /\ awsRegion' \in DraftRegions
    BY <1>2, <1>4
  <2>5. Sound(draft', pagesPast')
    BY <1>0, <1>8, <2>4, LoadedSound
  <2>6. draft'.page = VersionPage
    BY <1>0, <1>8, <2>4, LoadedPage
  <2>7. Behind(draft', pagesPast')
    BY <2>6, NothingBehind
  <2>8. QED
    BY <2>3, <2>5, <2>7, ShownParts
<1>9. \/ /\ loads' = Others(i) /\ draft' \in {draft, PageMounted(draft, awsRegion')}
         /\ draft' # draft => OnPage(HeadNodePage)
         /\ pagesPast'.moved = pagesPast.moved /\ pagesPast'.removed = pagesPast.removed
         /\ pagesPast'.skipped = pagesPast.skipped /\ pagesPast'.from = pagesPast.from
      \/ \E t \in loads[i].fill :
           /\ draft' = LoadedDraft(draft, t, awsRegion')
           /\ loads' = [k \in DOMAIN Others(i) |-> [Others(i)[k] EXCEPT !.due = FALSE]]
           /\ pagesPast'.moved = (t.subnet \notin SubnetsShown(awsRegion'))
           /\ pagesPast'.removed = (t.dcv /\ ~t.ssm) /\ pagesPast'.from = {t}
  BY <1>0, <1>3, AnswerFields, Zenon
<1>10. QED
  BY <1>7, <1>8, <1>9, Zenon

LEMMA ResourcesShown ==
  ASSUME Kinds, Shown, Resources
  PROVE  Shown'
<1>0. /\ pagesPast \in Past /\ loads \in Seq(Loads)
      /\ Sound(draft, pagesPast) /\ RefreshHasCause /\ Behind(draft, pagesPast)
  BY KindFields, ShownParts
<1>1. ASSUME HandleRefresh PROVE Shown'
  <2> DEFINE l == [Request(Home, {}) EXCEPT !.waits = TRUE, !.due = draft.region \in {Home, Unset}]
  <2>1. LoadResources(l, loads) /\ UNCHANGED <<draft, pagesPast>>
    BY <1>1 DEF HandleRefresh
  <2>2. l \in Loads /\ l.waits = TRUE
    BY RefreshRequestFields
  <2> HIDE DEF l
  <2>3. loads' = Append(loads, l)
    BY <2>1 DEF LoadResources
  <2>4. \E i \in DOMAIN loads' : loads'[i] = l
    BY <1>0, <2>2, <2>3, RequestMade
  <2>5. RefreshHasCause'
    BY <2>2, <2>4 DEF RefreshHasCause
  <2>6. QED
    BY <1>0, <2>1, <2>5, ShownParts
<1>2. ASSUME NEW i \in 1..MaxLoads, LoadLost(i) PROVE Shown'
  <2> DEFINE u == pagesPast.unanswered \/ loads[i].waits
  <2>1. /\ i \in DOMAIN loads /\ loads' = Others(i)
        /\ pagesPast' = [pagesPast EXCEPT !.failed = TRUE, !.unanswered = u]
        /\ UNCHANGED <<draft, refreshing>>
    BY <1>0, <1>2 DEF LoadLost, Past
  <2> HIDE DEF u
  <2>2. /\ pagesPast'.moved = pagesPast.moved /\ pagesPast'.removed = pagesPast.removed
        /\ pagesPast'.skipped = pagesPast.skipped /\ pagesPast'.from = pagesPast.from
        /\ pagesPast'.unanswered = u
    BY <1>0, <2>1 DEF Past
  <2>3. \A j \in DOMAIN loads \ {i} : \E k \in DOMAIN Others(i) : Others(i)[k] = loads[j]
    BY <1>0, <2>1, OthersFields
  <2>4. RefreshHasCause'
    <3>1. SUFFICES ASSUME refreshing', ~pagesPast'.unanswered
                   PROVE  \E k \in DOMAIN loads' : loads'[k].waits
      BY DEF RefreshHasCause
    <3>2. ~pagesPast.unanswered /\ ~loads[i].waits
      BY <2>2, <3>1 DEF u
    <3>3. PICK j \in DOMAIN loads : loads[j].waits
      BY <1>0, <2>1, <3>1, <3>2 DEF RefreshHasCause
    <3>4. QED
      BY <2>1, <2>3, <3>2, <3>3
  <2>5. Sound(draft', pagesPast') /\ Behind(draft', pagesPast')
    BY <1>0, <2>1, <2>2 DEF Sound, Behind
  <2>6. QED
    BY <2>4, <2>5, ShownParts
<1>3. QED
  BY <1>1, <1>2, AnswerShown DEF Resources

LEMMA ShownKept ==
  ASSUME Kinds, Shown, [PagesNext]_pagesVars
  PROVE  Shown'
<1>1. CASE UNCHANGED pagesVars
  <2>1. UNCHANGED <<draft, loads, refreshing, pagesPast>>
    BY <1>1 DEF pagesVars
  <2>2. RefreshHasCause'
    BY <2>1 DEF Shown, RefreshHasCause
  <2>3. QED
    BY <2>1, <2>2, ShownParts
<1>2. QED
  BY <1>1, EntrancesShown, TurnsShown, PlacesShown, ClusterChoicesShown, HeadNodeChoicesShown,
     ResourcesShown
  DEF PagesNext

LEMMA ShownFirst ==
  ASSUME PagesInit
  PROVE  Shown
<1>1. draft = NoSetup /\ refreshing = FALSE
  BY DEF PagesInit
<1>2. Sound(draft, pagesPast) /\ Behind(draft, pagesPast)
  <2>1. /\ draft.page \in {VersionPage, ClusterPage} /\ draft.editing = FALSE
        /\ draft.subnet = Unset /\ draft.dcv = FALSE /\ draft.directory = {}
        /\ draft.ami = FALSE
    BY <1>1, NoSetupFields
  <2>2. Behind(draft, pagesPast)
    BY <2>1, NothingBehind
  <2>3. Sound(draft, pagesPast)
    BY <2>1, BlankSound
  <2>4. QED
    BY <2>2, <2>3
<1>3. QED
  BY <1>1, <1>2, ShownParts DEF RefreshHasCause

-----------------------------------------------------------------------------
(* The theorems.                                                           *)

\* The invariant holds initially and every step keeps it.
THEOREM PagesInductive == PagesSpec => []PagesInv
<1>1. PagesInit => PagesInv
  BY KindsFirst, RegionalFirst, ShownFirst DEF PagesInv
<1>2. PagesInv /\ [PagesNext]_pagesVars => PagesInv'
  BY KindsKept, RegionalKept, ShownKept DEF PagesInv
<1>3. QED
  BY <1>1, <1>2, PTL DEF PagesSpec

\* DCV comes with the policy of its sessions, a directory and an AMI with the boxes
\* that show them, whichever of setKeyPair, toggleDcv, addPolicy, removePolicy,
\* handleMultiUserChange, loadTemplateLazy and wizardShow wrote the draft last.
THEOREM DraftsCanBeShown == PagesSpec => []SetupOK
<1>1. PagesInv => SetupOK
  BY DEF PagesInv, Kinds, Shown, SetupOK
<1>2. QED
  BY <1>1, PagesInductive, PTL

\* LoadAwsConfig's answers come in any order, and for drafts there no longer are;
\* still resources, VPC and subnet are of the draft's Region and of one another, but
\* for the cases history names, and Refresh is waited for only by who asked.
THEOREM NetworksFit == PagesSpec => []NetworkFits
<1>1. PagesInv => NetworkFits
  <2>1. SUFFICES ASSUME PagesInv PROVE NetworkFits
    OBVIOUS
  <2>2. draft.exists => Meant(draft) = draft.region
    BY <2>1, KindFields DEF PagesInv, DraftBegun, Meant
  <2>3. ResourcesFollowDraft /\ VpcIsOfRegion
    BY <2>1, <2>2 DEF PagesInv, Regional, ResourcesFit, VpcFits, ResourcesFollowDraft, VpcIsOfRegion
  <2>4. QED
    BY <2>1, <2>3 DEF PagesInv, Shown, NetworkFits
<1>2. QED
  BY <1>1, PagesInductive, PTL

\* handleNext and handleStep validate the page they leave and no other, and
\* handlePrev none; yet a page that is behind and was not stepped over is valid.
THEOREM PagesBehindAreValid == PagesSpec => []PassedPagesAreValid
<1>1. PagesInv => PassedPagesAreValid
  BY DEF PagesInv, Shown
<1>2. QED
  BY <1>1, PagesInductive, PTL

\* What editConfiguration loaded and an update may not change stays, although
\* mounting a page, a late answer and a page's choices write to the same draft.
THEOREM EditsKeepSetup == PagesSpec => []EditKeepsSetup
<1>1. PagesInv => EditKeepsSetup
  BY DEF PagesInv, Shown
<1>2. QED
  BY <1>1, PagesInductive, PTL
=============================================================================
