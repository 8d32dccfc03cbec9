------------------------ MODULE ClusterConsole_proofs ------------------------
(***************************************************************************)
(* Theorems about ClusterConsole, for every set of clusters and Regions,    *)
(* every cloud to start with and every number of requests, failures and     *)
(* choices of a Region: its types, the selection that follows the address,  *)
(* and what the store may keep of a Region that was left.                   *)
(***************************************************************************)
EXTENDS ClusterConsole, TLAPS

\* The records a request's answer is read as: only then has it the fields its
\* continuation takes from it.
Fits(f) ==
  /\ f \in ConsoleRequest
  /\ f.cmd \in Details => f.name \in Clusters
  /\ f.answer \notin {None, Error} =>
       /\ f.cmd = "query" => f.answer \in [Clusters -> States]
       /\ f.cmd \in {"describe", "select"} => f.answer \in [{f.name} -> States]
       /\ f.cmd \in Commands => f.name \in Clusters

\* A request of a cluster that shows its Region was made for the Region r, unless
\* a Region was chosen since.
Current(f, r) ==
  f.cmd \in Commands /\ f.name \in Clusters \ Regional /\ ~f.late => f.region = r

Sound(f, r) == Fits(f) /\ Current(f, r)

ConsoleInv ==
  /\ ConsoleTypeOK
  /\ \A f \in requests : Sound(f, region)
  /\ SelectionFollowsUrl
  /\ StaleOnlyFromLateAnswers

Navs == [url : Clusters \cup {None, Elsewhere}, selected : Clusters \cup {None},
         oldStatus : {None, "ready", "deleting"}]
Datas == {None} \cup [of : Regions, clusters : [Clusters -> States]]

-----------------------------------------------------------------------------
(* Requests.                                                               *)

\* A request just made is sound in the Region its address names.
LEMMA IssueSound ==
  ASSUME NEW cmd \in Commands \cup Lists, NEW c \in Clusters \cup {None},
         NEW r \in Regions, NEW q \in Regions,
         cmd \in Details => c \in Clusters,
         cmd \in Commands => r = IF c \in Regional THEN HomeRegion ELSE q
  PROVE  Sound(Issue(cmd, c, r), q)
<1> DEFINE f == Issue(cmd, c, r)
<1>1. /\ f.cmd = cmd /\ f.name = c /\ f.region = r /\ f.late = FALSE /\ f.answer = None
  BY DEF Issue
<1>2. f \in ConsoleRequest
  BY DEF Issue, ConsoleRequest
<1>3. Fits(f)
  BY <1>1, <1>2 DEF Fits
<1>4. Current(f, q)
  BY <1>1 DEF Current
<1>5. QED
  BY <1>3, <1>4 DEF Sound

LEMMA TargetIsRegion ==
  ASSUME region \in Regions, NEW c
  PROVE  Target(c) \in Regions
BY ConsoleAssumption DEF Target

\* A request that gets an answer stays what it is.
LEMMA AnsweredSound ==
  ASSUME NEW f, NEW r, Sound(f, r), NEW a,
         a \in {None, Error} \cup UNION {[D -> States] : D \in SUBSET Clusters},
         a \notin {None, Error} =>
           /\ f.cmd = "query" => a \in [Clusters -> States]
           /\ f.cmd \in {"describe", "select"} => a \in [{f.name} -> States]
           /\ f.cmd \in Commands => f.name \in Clusters
  PROVE  Sound([f EXCEPT !.answer = a], r)
<1> DEFINE g == [f EXCEPT !.answer = a]
<1>0. f \in ConsoleRequest
  BY DEF Sound, Fits
<1>1. /\ g.cmd = f.cmd /\ g.name = f.name /\ g.region = f.region /\ g.late = f.late
      /\ g.answer = a
  BY <1>0 DEF ConsoleRequest
<1>2. g \in ConsoleRequest
  BY <1>0 DEF ConsoleRequest
<1>3. Fits(g)
  BY <1>1, <1>2 DEF Sound, Fits
<1>4. Current(g, r)
  BY <1>1 DEF Sound, Current
<1>5. QED
  BY <1>3, <1>4 DEF Sound

\* Whatever Region is chosen next, a request under way is late and thereby sound.
LEMMA LateSound ==
  ASSUME NEW f, NEW r, NEW q, Sound(f, r)
  PROVE  Sound([f EXCEPT !.late = TRUE], q)
<1> DEFINE g == [f EXCEPT !.late = TRUE]
<1>0. f \in ConsoleRequest
  BY DEF Sound, Fits
<1>1. /\ g.cmd = f.cmd /\ g.name = f.name /\ g.region = f.region /\ g.late = TRUE
      /\ g.answer = f.answer
  BY <1>0 DEF ConsoleRequest
<1>2. g \in ConsoleRequest
  BY <1>0 DEF ConsoleRequest
<1>3. Fits(g)
  BY <1>1, <1>2 DEF Sound, Fits
<1>4. Current(g, q)
  BY <1>1 DEF Current
<1>5. QED
  BY <1>3, <1>4 DEF Sound

\* The list's request, and the selection's of an address on the page.
LEMMA ListQuerySound ==
  ASSUME NEW r \in Regions, NEW q \in Regions
  PROVE  \A f \in ListQuery(r) : Sound(f, q)
<1>1. Sound(Issue("query", None, r), q)
  BY IssueSound DEF Lists, Commands, Details, Fleet
<1>2. QED
  BY <1>1 DEF ListQuery

LEMMA SelectClusterSound ==
  ASSUME region \in Regions, NEW n \in Navs, Here(n)
  PROVE  \A f \in SelectCluster(n) : Sound(f, region)
<1>1. CASE n.url = None
  BY <1>1 DEF SelectCluster
<1>2. CASE n.url # None
  <2>1. n.url \in Clusters
    BY <1>2 DEF Navs, Here
  <2>2. Sound(Issue("select", n.url, Target(n.url)), region)
    <3>1. Target(n.url) = IF n.url \in Regional THEN HomeRegion ELSE region
      BY DEF Target
    <3>2. "select" \in Commands
      BY DEF Commands, Details
    <3>3. QED
      BY <2>1, <3>1, <3>2, TargetIsRegion, IssueSound
  <2>3. QED
    BY <2>2 DEF SelectCluster
<1>3. QED
  BY <1>1, <1>2

-----------------------------------------------------------------------------
(* Settle.                                                                 *)

\* The page's effects end at an address and a selection that agree.
LEMMA SettleFollows ==
  ASSUME NEW n \in Navs, NEW d \in Datas, n.url # Elsewhere
  PROVE  /\ Settle(n, d) \in Navs
         /\ Settle(n, d).url # None => Settle(n, d).selected = Settle(n, d).url
         /\ n.url = None => Settle(n, d).url = None
<1> DEFINE picked == IF n.url # None THEN n.url ELSE n.selected
           found == d # None /\ picked # None /\ d.clusters[picked] # "gone"
           sees == IF d.clusters[picked] = "deleting" THEN "deleting" ELSE "ready"
           kept == [n EXCEPT !.selected = picked]
           left == [url |-> None, selected |-> None, oldStatus |-> sees]
           seen == [n EXCEPT !.selected = picked, !.oldStatus = sees]
<1>1. Settle(n, d) = IF ~found THEN kept
                     ELSE IF "deleting" \in {sees, n.oldStatus} THEN left ELSE seen
  BY DEF Settle
<1>2. picked \in Clusters \cup {None} /\ sees \in {"ready", "deleting"}
      /\ (n.url # None => picked = n.url)
  BY DEF Navs
<1>3. kept \in Navs /\ left \in Navs /\ seen \in Navs
  <2> HIDE DEF picked, sees
  <2>1. QED
    BY <1>2 DEF Navs
<1>4. /\ kept.url = n.url /\ kept.selected = picked
      /\ seen.url = n.url /\ seen.selected = picked /\ left.url = None
  BY DEF Navs
<1>5. QED
  <2> HIDE DEF picked, sees, found, kept, left, seen
  <2>1. QED
    BY <1>1, <1>2, <1>3, <1>4

-----------------------------------------------------------------------------
(* Steps.                                                                  *)

\* What a step has to show that leaves the Region and the store's clusters alone.
LEMMA QuietStep ==
  ASSUME ConsoleInv, UNCHANGED <<region, index>>,
         clouds' \in [Regions -> [Clusters -> States]],
         boot' \in {"info", "identity", "ready", "stuck"},
         nav' \in Navs, data' \in Datas, names' \in Regions \cup {None},
         dialog' \in {None, "stop", "delete"}, failed' \subseteq Clusters \cup {None},
         failures' \in 0..MaxFails, switches' \in 0..MaxSwitches,
         \A f \in requests' : f \in requests \/ Sound(f, region),
         Shown' /\ nav'.url # None => nav'.selected = nav'.url
  PROVE  ConsoleInv'
<1>1. \A f \in requests' : Sound(f, region)
  BY DEF ConsoleInv
<1>2. requests' \subseteq ConsoleRequest
  BY <1>1 DEF Sound, Fits
<1>3. ConsoleTypeOK'
  BY <1>2 DEF ConsoleInv, ConsoleTypeOK, Navs, Datas
<1>4. SelectionFollowsUrl'
  BY DEF SelectionFollowsUrl
<1>5. StaleOnlyFromLateAnswers'
  BY DEF ConsoleInv, StaleOnlyFromLateAnswers
<1>6. QED
  BY <1>1, <1>3, <1>4, <1>5 DEF ConsoleInv

\* The parts of the invariant every step starts from.
LEMMA Parts ==
  ASSUME ConsoleInv
  PROVE  /\ clouds \in [Regions -> [Clusters -> States]] /\ region \in Regions
         /\ boot \in {"info", "identity", "ready", "stuck"}
         /\ nav \in Navs /\ data \in Datas /\ names \in Regions \cup {None}
         /\ index \in [Clusters -> Entry] /\ dialog \in {None, "stop", "delete"}
         /\ failed \subseteq Clusters \cup {None}
         /\ failures \in 0..MaxFails /\ switches \in 0..MaxSwitches
         /\ \A f \in requests : Sound(f, region)
         /\ Shown /\ nav.url # None => nav.selected = nav.url
BY DEF ConsoleInv, ConsoleTypeOK, Navs, Datas, SelectionFollowsUrl

\* Of a command about the selected cluster.
LEMMA SelectedSound ==
  ASSUME ConsoleInv, NEW cmd \in Commands,
         cmd \in Details => nav.selected # None
  PROVE  Sound(Issue(cmd, nav.selected, Target(nav.selected)), region)
<1>1. nav.selected \in Clusters \cup {None}
  BY Parts DEF Navs
<1>2. Target(nav.selected) = IF nav.selected \in Regional THEN HomeRegion ELSE region
  BY DEF Target
<1>3. QED
  BY <1>1, <1>2, Parts, TargetIsRegion, IssueSound

LEMMA VisitStep ==
  ASSUME ConsoleInv, NEW u \in Clusters \cup {None, Elsewhere}, Visit(u)
  PROVE  ConsoleInv'
<1> DEFINE n == [nav EXCEPT !.url = u]
<1>1. n \in Navs /\ n.url = u
  BY Parts DEF Navs
<1>2. Go(n) /\ UNCHANGED <<clouds, region, boot, data, names, index, dialog, failures, switches>>
  BY DEF Visit
<1>3. CASE Here(n)
  <2>1. nav' = Settle(n, data) /\ n.url # Elsewhere
    BY <1>2, <1>3 DEF Go, Here
  <2>2. nav' \in Navs /\ (nav'.url # None => nav'.selected = nav'.url)
    BY <1>1, <2>1, SettleFollows, Parts
  <2>3. requests' = requests \cup SelectCluster(n) \cup IF Here(nav) THEN {} ELSE ListQuery(region)
    BY <1>2, <1>3 DEF Go
  <2>4. \A f \in requests' : f \in requests \/ Sound(f, region)
    BY <2>3, <1>1, <1>3, SelectClusterSound, ListQuerySound, Parts
  <2>5. failed' \subseteq Clusters \cup {None}
    BY <1>2, <1>3, Parts DEF Go
  <2>6. QED
    BY <1>2, <2>2, <2>4, <2>5, Parts, QuietStep
<1>4. CASE ~Here(n)
  <2>1. nav' = n /\ UNCHANGED <<requests, failed>>
    BY <1>2, <1>4 DEF Go
  <2>2. ~Shown'
    BY <2>1, <1>4 DEF Shown, Here
  <2>3. QED
    BY <1>1, <1>2, <2>1, <2>2, Parts, QuietStep
<1>5. QED
  BY <1>3, <1>4

LEMMA ButtonsStep ==
  ASSUME ConsoleInv,
         StartFleet \/ (\E d \in {"stop", "delete"} : OpenDialog(d)) \/ Cancel \/ Confirm
           \/ ListPoll \/ DetailsPoll
  PROVE  ConsoleInv'
<1>1. CASE StartFleet
  <2>1. Sound(Issue("start", nav.selected, Target(nav.selected)), region)
    BY SelectedSound DEF Commands, Details, Fleet
  <2>2. Shown' = Shown
    BY <1>1 DEF StartFleet, Shown, Here
  <2>3. QED
    BY <1>1, <2>1, <2>2, Parts, QuietStep DEF StartFleet
<1>2. CASE \E d \in {"stop", "delete"} : OpenDialog(d)
  <2>2. Shown' = Shown
    BY <1>2 DEF OpenDialog, Shown, Here
  <2>3. QED
    BY <1>2, <2>2, Parts, QuietStep DEF OpenDialog
<1>3. CASE Cancel
  <2>2. Shown' = Shown
    BY <1>3 DEF Cancel, Shown, Here
  <2>3. QED
    BY <1>3, <2>2, Parts, QuietStep DEF Cancel
<1>4. CASE Confirm
  <2>1. Sound(Issue(dialog, nav.selected, Target(nav.selected)), region)
    <3>1. dialog \in {"stop", "delete"}
      BY <1>4, Parts DEF Confirm
    <3>2. QED
      BY <3>1, SelectedSound DEF Commands, Details, Fleet
  <2>2. Shown' = Shown
    BY <1>4 DEF Confirm, Shown, Here
  <2>3. QED
    BY <1>4, <2>1, <2>2, Parts, QuietStep DEF Confirm
<1>5. CASE ListPoll
  <2>1. \A f \in ListQuery(region) : Sound(f, region)
    BY Parts, ListQuerySound
  <2>2. Shown' = Shown
    BY <1>5 DEF ListPoll, Shown, Here
  <2>3. QED
    BY <1>5, <2>1, <2>2, Parts, QuietStep DEF ListPoll
<1>6. CASE DetailsPoll
  <2>1. Sound(Issue("describe", nav.selected, Target(nav.selected)), region)
    BY <1>6, SelectedSound DEF DetailsPoll, Commands, Details, Fleet
  <2>2. Shown' = Shown
    BY <1>6 DEF DetailsPoll, Shown, Here
  <2>3. QED
    BY <1>6, <2>1, <2>2, Parts, QuietStep DEF DetailsPoll
<1>7. QED
  BY <1>1, <1>2, <1>3, <1>4, <1>5, <1>6

LEMMA SelectRegionStep ==
  ASSUME ConsoleInv, NEW r \in Regions, SelectRegion(r)
  PROVE  ConsoleInv'
<1>1. \A f \in requests' : Sound(f, r)
  <2>1. \A f \in requests : Sound([f EXCEPT !.late = TRUE], r)
    BY Parts, LateSound
  <2>2. \A f \in ListQuery(r) : Sound(f, r)
    BY ListQuerySound
  <2>3. QED
    BY <2>1, <2>2 DEF SelectRegion
<1>2. nav' \in Navs
  <2>1. nav.url \in Clusters \cup {None, Elsewhere}
    BY Parts DEF Navs
  <2>2. QED
    BY <2>1 DEF SelectRegion, ClearClusterOnRegionChange, Navs
<1>3. \A c \in Clusters : index'[c] = NoEntry
  BY DEF SelectRegion, ClearAll, Empty
<1>4. index' \in [Clusters -> Entry]
  BY DEF SelectRegion, ClearAll, Empty, NoEntry, Entry
<1>5. switches' \in 0..MaxSwitches
  BY Parts, ConsoleAssumption DEF SelectRegion
<1>6. boot' = "info" /\ ~Shown' /\ region' = r
  BY DEF SelectRegion, Shown
<1>7. ConsoleTypeOK'
  <2>1. requests' \subseteq ConsoleRequest
    BY <1>1 DEF Sound, Fits
  <2>2. QED
    BY <2>1, <1>2, <1>4, <1>5, Parts DEF SelectRegion, ConsoleTypeOK, Navs, Datas
<1>8. StaleOnlyFromLateAnswers'
  BY <1>3 DEF StaleOnlyFromLateAnswers, NoEntry
<1>9. SelectionFollowsUrl'
  BY <1>6 DEF SelectionFollowsUrl
<1>10. QED
  BY <1>1, <1>6, <1>7, <1>8, <1>9 DEF ConsoleInv

LEMMA StartStep ==
  ASSUME ConsoleInv, InfoLoaded \/ IdentityLoaded \/ IdentityFailed \/ StartFailed
  PROVE  ConsoleInv'
<1>1. CASE InfoLoaded
  <2>1. ~Shown'
    BY <1>1 DEF InfoLoaded, Shown
  <2>2. QED
    BY <1>1, <2>1, Parts, QuietStep DEF InfoLoaded
<1>2. CASE StartFailed
  <2>1. ~Shown'
    BY <1>2 DEF StartFailed, Shown
  <2>2. failures' \in 0..MaxFails
    BY <1>2, Parts, ConsoleAssumption DEF StartFailed
  <2>3. QED
    BY <1>2, <2>1, <2>2, Parts, QuietStep DEF StartFailed
<1>3. CASE IdentityLoaded \/ IdentityFailed
  <2>1. Start
    BY <1>3 DEF IdentityLoaded, IdentityFailed
  <2>2. failures' \in 0..MaxFails
    BY <1>3, Parts, ConsoleAssumption DEF IdentityLoaded, IdentityFailed
  <2>3. nav' \in Navs /\ (Here(nav') /\ nav'.url # None => nav'.selected = nav'.url)
    <3>1. CASE Here(nav)
      <4>1. nav' = Settle(nav, data) /\ nav.url # Elsewhere
        BY <2>1, <3>1 DEF Start, Here
      <4>2. QED
        BY <4>1, Parts, SettleFollows
    <3>2. CASE ~Here(nav)
      BY <2>1, <3>2, Parts DEF Start
    <3>3. QED
      BY <3>1, <3>2
  <2>4. \A f \in requests' : f \in requests \/ Sound(f, region)
    <3>1. Sound(Issue("list", None, region), region)
      <4>1. "list" \in Lists /\ "list" \notin Commands /\ "list" \notin Details
        BY DEF Lists, Commands, Details, Fleet
      <4>2. region \in Regions
        BY Parts
      <4>3. QED
        BY <4>1, <4>2, IssueSound
    <3>2. Here(nav) => \A f \in SelectCluster(nav) \cup ListQuery(region) : Sound(f, region)
      BY Parts, SelectClusterSound, ListQuerySound
    <3>3. QED
      BY <2>1, <3>1, <3>2 DEF Start
  <2>5. Shown' => Here(nav')
    BY DEF Shown, Here
  <2>6. QED
    BY <2>1, <2>2, <2>3, <2>4, <2>5, Parts, QuietStep DEF Start
<1>4. QED
  BY <1>1, <1>2, <1>3

LEMMA AnsweredStep ==
  ASSUME ConsoleInv, NEW f \in requests, NEW a, GivesAnswer(f, a),
         a \in {None, Error} \cup UNION {[D -> States] : D \in SUBSET Clusters},
         a \notin {None, Error} =>
           /\ f.cmd = "query" => a \in [Clusters -> States]
           /\ f.cmd \in {"describe", "select"} => a \in [{f.name} -> States]
           /\ f.cmd \in Commands => f.name \in Clusters,
         clouds' \in [Regions -> [Clusters -> States]], failures' \in 0..MaxFails,
         UNCHANGED <<region, boot, nav, data, names, index, dialog, failed, switches>>
  PROVE  ConsoleInv'
<1>1. Sound([f EXCEPT !.answer = a], region)
  BY Parts, AnsweredSound
<1>2. \A g \in requests' : g \in requests \/ Sound(g, region)
  BY <1>1 DEF GivesAnswer
<1>3. Shown' = Shown
  BY DEF Shown, Here
<1>4. QED
  BY <1>2, <1>3, Parts, QuietStep

\* What the cloud says of a cluster is a state; of no cluster it says "gone".
LEMMA StateOfIsState ==
  ASSUME ConsoleInv, NEW f \in requests
  PROVE  /\ StateOf(f) \in States
         /\ StateOf(f) # "gone" => f.name \in Clusters
<1>1. f.name \in Clusters \cup {None} /\ f.region \in Regions
  BY Parts DEF Sound, Fits, ConsoleRequest
<1>2. clouds \in [Regions -> [Clusters -> States]]
  BY Parts
<1>3. QED
  BY <1>1, <1>2 DEF StateOf, States

LEMMA CloudServesStep ==
  ASSUME ConsoleInv, NEW f \in requests, CloudServes(f)
  PROVE  ConsoleInv'
<1> DEFINE Answers == {None, Error} \cup UNION {[D -> States] : D \in SUBSET Clusters}
<1>0. f.cmd \in Commands \cup Lists /\ f.name \in Clusters \cup {None} /\ f.region \in Regions
  BY Parts DEF Sound, Fits, ConsoleRequest
<1>a. f.cmd \in Details => f.name \in Clusters
  BY Parts DEF Sound, Fits
<1>b. /\ UNCHANGED <<region, boot, nav, data, names, index, dialog, failed, failures, switches>>
      /\ failures' \in 0..MaxFails
  BY Parts DEF CloudServes
<1>c. clouds \in [Regions -> [Clusters -> States]]
  BY Parts
<1>d. Plain \in Answers
  BY DEF Plain
<1>1. CASE f.cmd \in Lists /\ UNCHANGED clouds
           /\ GivesAnswer(f, IF f.cmd = "query" THEN clouds[f.region] ELSE Plain)
  <2>1. CASE f.cmd = "query"
    <3>1. clouds[f.region] \in [Clusters -> States]
      BY <1>0, <1>c
    <3>2. clouds[f.region] \in Answers
      BY <3>1
    <3>3. GivesAnswer(f, clouds[f.region]) /\ clouds' \in [Regions -> [Clusters -> States]]
      BY <1>1, <1>c, <2>1
    <3>4. f.cmd \notin {"describe", "select"} /\ f.cmd \notin Commands
      BY <2>1 DEF Commands, Details, Fleet
    <3>5. QED
      BY <1>b, <3>1, <3>2, <3>3, <3>4, AnsweredStep
  <2>2. CASE f.cmd # "query"
    <3>1. GivesAnswer(f, Plain) /\ clouds' \in [Regions -> [Clusters -> States]]
      BY <1>1, <1>c, <2>2
    <3>2. f.cmd \notin {"describe", "select"} /\ f.cmd \notin Commands
      BY <1>1 DEF Lists, Commands, Details, Fleet
    <3>3. QED
      BY <1>b, <1>d, <2>2, <3>1, <3>2, AnsweredStep
  <2>3. QED
    BY <2>1, <2>2
<1>2. CASE f.cmd \in Details /\ UNCHANGED clouds
           /\ GivesAnswer(f, IF StateOf(f) = "gone" THEN Error
                          ELSE IF f.cmd = "config" THEN Plain ELSE Seen(f))
  <2>0. clouds' \in [Regions -> [Clusters -> States]]
    BY <1>2, <1>c
  <2>1. f.name \in Clusters /\ f.cmd # "query"
    BY <1>2, <1>a DEF Details
  <2>2. Seen(f) \in [{f.name} -> States]
    BY StateOfIsState DEF Seen
  <2>3. Seen(f) \in Answers
    BY <2>1, <2>2
  <2>4. CASE StateOf(f) = "gone"
    BY <1>2, <1>b, <2>0, <2>4, AnsweredStep
  <2>5. CASE StateOf(f) # "gone" /\ f.cmd = "config"
    <3>1. GivesAnswer(f, Plain) /\ f.cmd \notin {"describe", "select"}
      BY <1>2, <2>5
    <3>2. QED
      BY <1>b, <1>d, <2>0, <2>1, <3>1, AnsweredStep
  <2>6. CASE StateOf(f) # "gone" /\ f.cmd # "config"
    <3>1. GivesAnswer(f, Seen(f))
      BY <1>2, <2>6
    <3>2. QED
      BY <1>b, <2>0, <2>1, <2>2, <2>3, <3>1, AnsweredStep
  <2>7. QED
    BY <2>4, <2>5, <2>6
<1>3. CASE /\ f.cmd \in Commands \ Details /\ StateOf(f) \in {"running", "stopped"}
           /\ GivesAnswer(f, Plain)
           /\ Becomes(f, CASE f.cmd = "start" -> "running"
                           [] f.cmd = "stop" -> "stopped"
                           [] OTHER -> "deleting")
  <2> DEFINE s == CASE f.cmd = "start" -> "running" [] f.cmd = "stop" -> "stopped"
                    [] OTHER -> "deleting"
  <2>1. s \in States
    BY DEF States
  <2>2. f.name \in Clusters
    BY <1>3, StateOfIsState
  <2>3. clouds' = [clouds EXCEPT ![f.region][f.name] = s]
    BY <1>3 DEF Becomes
  <2>4. clouds' \in [Regions -> [Clusters -> States]]
    <3> HIDE DEF s
    <3>1. QED
      BY <1>c, <2>1, <2>3
  <2>5. f.cmd \notin {"query", "describe", "select"}
    BY <1>3 DEF Commands, Details, Fleet
  <2>6. QED
    BY <1>3, <1>b, <1>d, <2>2, <2>4, <2>5, AnsweredStep
<1>4. CASE GivesAnswer(f, Error) /\ UNCHANGED clouds
  BY <1>4, <1>b, <1>c, AnsweredStep
<1>5. QED
  BY <1>1, <1>2, <1>3, <1>4 DEF CloudServes

LEMMA LoseStep ==
  ASSUME ConsoleInv, NEW f \in requests, Lose(f)
  PROVE  ConsoleInv'
<1>1. failures' \in 0..MaxFails
  BY Parts, ConsoleAssumption DEF Lose
<1>2. clouds' \in [Regions -> [Clusters -> States]]
  BY Parts DEF Lose
<1>3. QED
  BY <1>1, <1>2, AnsweredStep DEF Lose

LEMMA CloudStep ==
  ASSUME ConsoleInv, NEW r \in Regions, NEW c \in Clusters, CloudDeletes(r, c)
  PROVE  ConsoleInv'
<1>1. clouds' \in [Regions -> [Clusters -> States]]
  <2> DEFINE s == IF clouds[r][c] = "deleting" THEN "gone" ELSE "deleting"
  <2>1. clouds' = [clouds EXCEPT ![r][c] = s] /\ s \in States
    BY Parts DEF CloudDeletes, States
  <2>2. QED
    <3> HIDE DEF s
    <3>1. QED
      BY <2>1, Parts
<1>2. Shown' = Shown
  BY DEF CloudDeletes, Shown, Here
<1>3. QED
  BY <1>1, <1>2, Parts, QuietStep DEF CloudDeletes

-----------------------------------------------------------------------------
(* Answers.                                                                *)

LEMMA ListStep ==
  ASSUME ConsoleInv, NEW f \in requests, ListArrives(f)
  PROVE  ConsoleInv'
<1> DEFINE d == [of |-> f.region, clusters |-> f.answer]
<1>1. f.region \in Regions /\ f.answer \notin {None, Error}
  BY Parts DEF Sound, Fits, ConsoleRequest, ListArrives, Reaches
<1>2. names' \in Regions \cup {None}
  BY <1>1 DEF ListArrives
<1>3. Shown' = (boot = "ready" /\ Here(nav'))
  BY DEF ListArrives, Shown, Here
<1>4. \A g \in requests' : g \in requests
  BY DEF ListArrives
<1>5. CASE f.cmd = "list"
  <2>1. UNCHANGED <<data, nav>>
    BY <1>5 DEF ListArrives
  <2>2. Shown' = Shown
    BY <2>1, <1>3 DEF Shown, Here
  <2>3. QED
    BY <1>2, <1>4, <2>1, <2>2, Parts, QuietStep DEF ListArrives
<1>6. CASE f.cmd # "list"
  <2>1. data' = d /\ nav' = IF Shown THEN Settle(nav, d) ELSE nav
    BY <1>6 DEF ListArrives
  <2>2. f.cmd = "query"
    BY <1>6 DEF ListArrives, Reaches, Lists
  <2>3. d \in Datas
    BY <1>1, <2>2, Parts DEF Sound, Fits, Datas
  <2>4. nav' \in Navs /\ (Shown' /\ nav'.url # None => nav'.selected = nav'.url)
    <3>1. CASE Shown
      <4>1. nav' = Settle(nav, d) /\ nav.url # Elsewhere
        BY <2>1, <3>1 DEF Shown, Here
      <4>2. QED
        BY <4>1, <2>3, Parts, SettleFollows
    <3>2. CASE ~Shown
      <4>1. nav' = nav /\ ~Shown'
        BY <1>3, <2>1, <3>2 DEF Shown
      <4>2. QED
        BY <4>1, Parts
    <3>3. QED
      BY <3>1, <3>2
  <2>5. data' \in Datas
    BY <2>1, <2>3
  <2>6. QED
    BY <1>2, <1>4, <2>4, <2>5, Parts, QuietStep DEF ListArrives
<1>7. QED
  BY <1>5, <1>6

\* What an answer writes of the store's cluster c is of the Region chosen, or late.
LEMMA StoreStep ==
  ASSUME ConsoleInv, NEW f \in requests, f.cmd \in Commands, f.name \in Clusters,
         index' \in [Clusters -> Entry],
         \A c \in Clusters : c # f.name => index'[c] = index[c],
         index'[f.name].late = (index[f.name].late \/ f.late),
         \/ index'[f.name].status = index[f.name].status
         \/ index'[f.name].status.of = f.region,
         index'[f.name].config \in {index[f.name].config, f.region},
         \A g \in requests' : g \in requests \/ Sound(g, region),
         UNCHANGED <<clouds, region, boot, nav, data, names, dialog, failed, failures, switches>>
  PROVE  ConsoleInv'
<1>1. \A g \in requests' : Sound(g, region)
  BY Parts
<1>2. ConsoleTypeOK'
  <2>1. requests' \subseteq ConsoleRequest
    BY <1>1 DEF Sound, Fits
  <2>2. QED
    BY <2>1, Parts DEF ConsoleTypeOK, Navs, Datas
<1>3. SelectionFollowsUrl'
  <2>1. Shown' = Shown
    BY DEF Shown, Here
  <2>2. QED
    BY <2>1, Parts DEF SelectionFollowsUrl
<1>4. StaleOnlyFromLateAnswers'
  <2>1. SUFFICES ASSUME NEW c \in Clusters \ Regional
                 PROVE  \/ index'[c].late
                        \/ /\ index'[c].status = None \/ index'[c].status.of = region
                           /\ index'[c].config \in {None, region}
    BY DEF StaleOnlyFromLateAnswers
  <2>2. \/ index[c].late
        \/ /\ index[c].status = None \/ index[c].status.of = region
           /\ index[c].config \in {None, region}
    BY DEF ConsoleInv, StaleOnlyFromLateAnswers
  <2>3. CASE c # f.name
    BY <2>2, <2>3
  <2>4. CASE c = f.name
    <3>1. f.late \/ f.region = region
      BY <2>4, Parts DEF Sound, Current
    <3>2. QED
      BY <2>2, <2>4, <3>1
  <2>5. QED
    BY <2>3, <2>4
<1>5. QED
  BY <1>1, <1>2, <1>3, <1>4 DEF ConsoleInv

LEMMA DescribeStep ==
  ASSUME ConsoleInv, NEW f \in requests, DescribeArrives(f)
  PROVE  ConsoleInv'
<1>0. f.cmd \in {"describe", "select"} /\ f.answer \notin {None, Error}
  BY DEF DescribeArrives, Reaches
<1>1. f \in ConsoleRequest /\ f.region \in Regions /\ f.late \in BOOLEAN
  BY Parts DEF Sound, Fits, ConsoleRequest
<1>2. f.name \in Clusters /\ f.cmd \in Commands /\ f.answer[f.name] \in States
  BY <1>0, Parts DEF Sound, Fits, Commands, Details
<1> DEFINE st == [state |-> f.answer[f.name], of |-> f.region]
           l == index[f.name].late \/ f.late
           e == [index[f.name] EXCEPT !.status = st, !.late = l]
<1>3. index' = [index EXCEPT ![f.name] = e]
  BY DEF DescribeArrives
<1>4. index[f.name] \in Entry /\ l \in BOOLEAN
  BY <1>1, <1>2, Parts DEF Entry
<1>5. e \in Entry /\ e.late = l /\ e.status = st /\ e.config = index[f.name].config
  <2>1. st \in [state : States, of : Regions]
    BY <1>1, <1>2
  <2>2. QED
    <3> HIDE DEF st, l
    <3>1. QED
      BY <1>4, <2>1 DEF Entry
<1>6. /\ index' \in [Clusters -> Entry] /\ index'[f.name] = e
      /\ \A c \in Clusters : c # f.name => index'[c] = index[c]
  <2> HIDE DEF e
  <2>1. QED
    BY <1>2, <1>3, <1>5, Parts
<1>7. \A g \in requests' : g \in requests \/ Sound(g, region)
  <2> DEFINE a == Issue("config", f.name, Target(f.name))
             g == [a EXCEPT !.late = f.late]
  <2>1. Sound(a, region)
    <3>1. Target(f.name) = IF f.name \in Regional THEN HomeRegion ELSE region
      BY DEF Target
    <3>2. QED
      BY <1>2, <3>1, Parts, TargetIsRegion, IssueSound DEF Commands, Details
  <2>2. Sound(g, region)
    <3>0. a \in ConsoleRequest
      BY <2>1 DEF Sound, Fits
    <3>1. /\ g.cmd = a.cmd /\ g.name = a.name /\ g.region = a.region
          /\ g.late = f.late /\ g.answer = a.answer
      BY <3>0 DEF ConsoleRequest
    <3>2. g \in ConsoleRequest
      BY <1>1, <3>0 DEF ConsoleRequest
    <3>3. Fits(g)
      BY <2>1, <3>1, <3>2 DEF Sound, Fits
    <3>4. Current(g, region)
      <4>1. a.late = FALSE
        BY DEF Issue
      <4>2. QED
        BY <2>1, <3>1, <4>1 DEF Sound, Current
    <3>5. QED
      BY <3>3, <3>4 DEF Sound
  <2>3. QED
    BY <2>2 DEF DescribeArrives
<1>8. QED
  <2>1. st.of = f.region
    OBVIOUS
  <2>2. UNCHANGED <<clouds, region, boot, nav, data, names, dialog, failed, failures, switches>>
    BY DEF DescribeArrives
  <2> HIDE DEF e, st, l
  <2>3. index'[f.name].late = l /\ index'[f.name].status = st
        /\ index'[f.name].config = index[f.name].config
    BY <1>5, <1>6
  <2>4. l = (index[f.name].late \/ f.late)
    BY DEF l
  <2>5. QED
    BY <1>2, <1>6, <1>7, <2>1, <2>2, <2>3, <2>4, StoreStep

LEMMA ConfigStep ==
  ASSUME ConsoleInv, NEW f \in requests, ConfigArrives(f)
  PROVE  ConsoleInv'
<1>1. f.region \in Regions /\ f.late \in BOOLEAN
  BY Parts DEF Sound, Fits, ConsoleRequest
<1>2. f.name \in Clusters /\ f.cmd \in Commands
  BY Parts DEF ConfigArrives, Reaches, Sound, Fits, Commands, Details
<1> DEFINE l == index[f.name].late \/ f.late
           e == [index[f.name] EXCEPT !.config = f.region, !.late = l]
<1>3. index' = [index EXCEPT ![f.name] = e]
  BY DEF ConfigArrives
<1>4. index[f.name] \in Entry /\ l \in BOOLEAN
  BY <1>1, <1>2, Parts DEF Entry
<1>5. e \in Entry /\ e.late = l /\ e.status = index[f.name].status /\ e.config = f.region
  <2> HIDE DEF l
  <2>1. QED
    BY <1>1, <1>4 DEF Entry
<1>6. /\ index' \in [Clusters -> Entry] /\ index'[f.name] = e
      /\ \A c \in Clusters : c # f.name => index'[c] = index[c]
  <2> HIDE DEF e
  <2>1. QED
    BY <1>2, <1>3, <1>5, Parts
<1>7. QED
  <2>1. \A g \in requests' : g \in requests
    BY DEF ConfigArrives
  <2>2. UNCHANGED <<clouds, region, boot, nav, data, names, dialog, failed, failures, switches>>
    BY DEF ConfigArrives
  <2>3. l = (index[f.name].late \/ f.late)
    BY DEF l
  <2> HIDE DEF e, l
  <2>4. index'[f.name].late = l /\ index'[f.name].status = index[f.name].status
        /\ index'[f.name].config = f.region
    BY <1>5, <1>6
  <2>5. QED
    BY <1>2, <1>6, <2>1, <2>2, <2>3, <2>4, StoreStep

LEMMA FleetStep ==
  ASSUME ConsoleInv, NEW f \in requests, FleetArrives(f)
  PROVE  ConsoleInv'
<1>1. f.name \in Clusters
  BY Parts DEF FleetArrives, Reaches, Sound, Fits, Commands
<1>2. Sound(Issue("describe", f.name, Target(f.name)), region)
  <2>1. Target(f.name) = IF f.name \in Regional THEN HomeRegion ELSE region
    BY DEF Target
  <2>2. QED
    BY <1>1, <2>1, Parts, TargetIsRegion, IssueSound DEF Commands, Details
<1>3. Shown' = Shown
  BY DEF FleetArrives, Shown, Here
<1>4. QED
  BY <1>2, <1>3, Parts, QuietStep DEF FleetArrives

LEMMA DeleteStep ==
  ASSUME ConsoleInv, NEW f \in requests, DeleteArrives(f)
  PROVE  ConsoleInv'
<1> DEFINE n == [nav EXCEPT !.url = None]
<1>1. UNCHANGED <<clouds, region, boot, data, names, index, dialog, failed, failures, switches>>
  BY DEF DeleteArrives
<1>2. CASE f.late
  <2>1. nav' = nav /\ requests' = requests \ {f}
    BY <1>2 DEF DeleteArrives
  <2>2. Shown' = Shown
    BY <1>1, <2>1 DEF Shown, Here
  <2>3. QED
    BY <1>1, <2>1, <2>2, Parts, QuietStep
<1>3. CASE ~f.late
  <2>1. /\ nav' = Settle(n, data)
        /\ requests' = (requests \ {f}) \cup IF Here(nav) THEN {} ELSE ListQuery(region)
    BY <1>3 DEF DeleteArrives
  <2>2. n \in Navs /\ n.url = None
    BY Parts DEF Navs
  <2>3. nav' \in Navs /\ (nav'.url # None => nav'.selected = nav'.url)
    BY <2>1, <2>2, ConsoleAssumption, Parts, SettleFollows
  <2>4. \A g \in requests' : g \in requests \/ Sound(g, region)
    BY <2>1, Parts, ListQuerySound
  <2>5. QED
    BY <1>1, <2>3, <2>4, Parts, QuietStep
<1>4. QED
  BY <1>2, <1>3

LEMMA ErrorStep ==
  ASSUME ConsoleInv, NEW f \in requests, ErrorArrives(f)
  PROVE  ConsoleInv'
<1>1. f.name \in Clusters \cup {None}
  BY Parts DEF Sound, Fits, ConsoleRequest
<1>2. failed' \subseteq Clusters \cup {None}
  BY <1>1, Parts DEF ErrorArrives
<1>3. Shown' = Shown
  BY DEF ErrorArrives, Shown, Here
<1>4. QED
  BY <1>2, <1>3, Parts, QuietStep DEF ErrorArrives

-----------------------------------------------------------------------------
(* Theorems.                                                               *)

LEMMA ConsoleFirst == ConsoleInit => ConsoleInv
<1> SUFFICES ASSUME ConsoleInit PROVE ConsoleInv
  OBVIOUS
<1>1. requests = {} /\ boot = "info" /\ \A c \in Clusters : index[c] = NoEntry
  BY DEF ConsoleInit, Empty
<1>2. index \in [Clusters -> Entry]
  BY DEF ConsoleInit, Empty, NoEntry, Entry
<1>3. nav \in Navs
  BY DEF ConsoleInit, Navs
<1>4. failures \in 0..MaxFails /\ switches \in 0..MaxSwitches
  BY ConsoleAssumption DEF ConsoleInit
<1>5. ConsoleTypeOK
  BY <1>2, <1>3, <1>4, ConsoleAssumption DEF ConsoleInit, ConsoleTypeOK, Navs
<1>6. SelectionFollowsUrl
  BY <1>1 DEF SelectionFollowsUrl, Shown
<1>7. StaleOnlyFromLateAnswers
  BY <1>1 DEF StaleOnlyFromLateAnswers, NoEntry
<1>8. QED
  BY <1>1, <1>5, <1>6, <1>7 DEF ConsoleInv

LEMMA ConsoleKept == ConsoleInv /\ [ConsoleNext]_consoleVars => ConsoleInv'
<1> SUFFICES ASSUME ConsoleInv, [ConsoleNext]_consoleVars PROVE ConsoleInv'
  OBVIOUS
<1>1. CASE UNCHANGED consoleVars
  <2>1. Shown' = Shown
    BY <1>1 DEF consoleVars, Shown, Here
  <2>2. QED
    BY <1>1, <2>1, Parts, QuietStep DEF consoleVars
<1>2. CASE \E u \in Clusters \cup {None, Elsewhere} : Visit(u)
  BY <1>2, VisitStep
<1>3. CASE \/ StartFleet \/ (\E d \in {"stop", "delete"} : OpenDialog(d))
           \/ Cancel \/ Confirm \/ ListPoll \/ DetailsPoll
  BY <1>3, ButtonsStep
<1>4. CASE \E r \in Regions : SelectRegion(r)
  BY <1>4, SelectRegionStep
<1>5. CASE InfoLoaded \/ IdentityLoaded \/ IdentityFailed \/ StartFailed
  BY <1>5, StartStep
<1>6. CASE \E f \in requests : CloudServes(f) \/ Lose(f)
  BY <1>6, CloudServesStep, LoseStep
<1>7. CASE \E f \in requests : HandleAnswer(f)
  BY <1>7, ListStep, DescribeStep, ConfigStep, FleetStep, DeleteStep, ErrorStep DEF HandleAnswer
<1>8. CASE \E r \in Regions, c \in Clusters : CloudDeletes(r, c)
  BY <1>8, CloudStep
<1>9. QED
  BY <1>1, <1>2, <1>3, <1>4, <1>5, <1>6, <1>7, <1>8 DEF ConsoleNext

\* The invariant: types, what requests carry, and the two properties below, of which
\* the second needs to know of every request whether its Region is still chosen.
THEOREM ConsoleInductive == ConsoleSpec => []ConsoleInv
BY ConsoleFirst, ConsoleKept, PTL DEF ConsoleSpec

\* The store, the page and the requests keep their types (Clusters.tsx, model.tsx).
THEOREM ConsoleTypes == ConsoleSpec => []ConsoleTypeOK
<1>1. ConsoleInv => ConsoleTypeOK
  BY DEF ConsoleInv
<1>2. QED
  BY <1>1, ConsoleInductive, PTL

\* While the clusters page is shown, the cluster its address names is the one
\* selected (Clusters.tsx), whatever list or deletion is answered when.
THEOREM SelectionAlwaysFollows == ConsoleSpec => []SelectionFollowsUrl
<1>1. ConsoleInv => SelectionFollowsUrl
  BY DEF ConsoleInv
<1>2. QED
  BY <1>1, ConsoleInductive, PTL

\* What the store keeps of a cluster is of the Region chosen, but for answers asked
\* before the choice (TopBar.tsx) and names that hide the Region (model.tsx).
THEOREM NothingElseIsStale == ConsoleSpec => []StaleOnlyFromLateAnswers
<1>1. ConsoleInv => StaleOnlyFromLateAnswers
  BY DEF ConsoleInv
<1>2. QED
  BY <1>1, ConsoleInductive, PTL
=============================================================================
