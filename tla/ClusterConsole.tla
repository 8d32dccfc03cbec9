--------------------------- MODULE ClusterConsole ---------------------------
(***************************************************************************)
(* The clusters page (frontend/src/old-pages/Clusters): the list and its   *)
(* polling, the selection that follows the address, the details that each  *)
(* selection and poll fill, the start, stop and delete buttons, and what a *)
(* choice of Region (components/TopBar.tsx) throws away.  Every answer     *)
(* comes late: what the page shows may have changed since it was asked.    *)
(*                                                                         *)
(* A cluster is what the cloud says of it: running, stopped, deleting or   *)
(* gone; the list sees no difference between the first two.  Effects of a  *)
(* render run in the step of the event that caused it.                     *)
(*                                                                         *)
(* A definition named Bug... is a plausible mistake in the definition that *)
(* follows it; no behaviour of Spec uses it.                               *)
(***************************************************************************)
EXTENDS ClusterNames

CONSTANTS Regional,    \* the names of clusters that contain the word "region"
          Regions, HomeRegion,
          Clouds,      \* the clouds a behaviour may start with
          MaxSwitches  \* bound: choices of a Region

VARIABLES clouds,    \* the clusters of each Region
          region,    \* app.selectedRegion (the default one when not chosen)
          boot,      \* useLoadingState: what the page waits for
          nav,       \* the address and app.clusters.selected, selectedStatus
          data,      \* the answer react-query keeps for LIST_CLUSTERS
          names,     \* clusters.list: the Region it was listed for
          index,     \* clusters.index
          dialog,    \* the open confirmation
          requests,  \* requests under way
          failed,    \* history: selections whose DescribeCluster failed
          failures, switches \* bounded counters

consoleVars == <<clouds, region, boot, nav, data, names, index, dialog, requests,
                 failed, failures, switches>>

Elsewhere == "elsewhere"  \* a page that is not the clusters page
States == {"running", "stopped", "deleting", "gone"}
ASSUME ConsoleAssumption ==
  /\ None # Elsewhere /\ HomeRegion \in Regions
  /\ Clouds \subseteq [Regions -> [Clusters -> States]]
  /\ MaxFails \in Nat /\ MaxSwitches \in Nat

Details == {"describe", "select", "config"}
Fleet == {"start", "stop"}
Commands == Details \cup Fleet \cup {"delete"}  \* of one cluster
Lists == {"list", "query"}

NoEntry == [status |-> None, config |-> None, late |-> FALSE]
Empty == [c \in Clusters |-> NoEntry]
Entry == [status : [state : States, of : Regions] \cup {None},
          config : Regions \cup {None}, late : BOOLEAN]
ConsoleRequest ==
  [cmd : Commands \cup Lists,
   name : Clusters \cup {None}, region : Regions, late : BOOLEAN,
   answer : {None, Error} \cup UNION {[D -> States] : D \in SUBSET Clusters}]

-----------------------------------------------------------------------------
(* Requests.                                                               *)

\* request: no Region is added to an address that has the word in it.
Target(c) == IF c \in Regional THEN HomeRegion ELSE region

Issue(cmd, c, r) ==
  [cmd |-> cmd, name |-> c, region |-> r, late |-> FALSE, answer |-> None]
Querying == \E f \in requests : f.cmd = "query"
\* useQuery joins a request under way.
ListQuery(r) == IF Querying THEN {} ELSE {Issue("query", None, r)}
MayRequest == Cardinality(requests) < MaxFlight

-----------------------------------------------------------------------------
(* The page's effects.                                                     *)

Here(n) == n.url # Elsewhere
Shown == boot = "ready" /\ Here(nav)

BugSelectCluster(n) ==
  IF n.url # None /\ n.selected # n.url /\ names # None
    THEN {Issue("select", n.url, Target(n.url))} ELSE {}
\* ClusterList's effect: an address that is not the selection selects.
SelectCluster(n) ==
  IF n.url # None /\ n.selected # n.url
    THEN {Issue("select", n.url, Target(n.url))} ELSE {}

BugSettle(n, d) ==
  LET picked == IF n.url # None THEN n.url ELSE n.selected
      found == d # None /\ picked # None /\ d.clusters[picked] # "gone"
      sees == IF d.clusters[picked] = "deleting" THEN "deleting" ELSE "ready"
  IN  IF ~found THEN [n EXCEPT !.selected = picked]
      ELSE IF "deleting" \in {sees, n.oldStatus}
        THEN [n EXCEPT !.selected = None, !.oldStatus = sees]
      ELSE [n EXCEPT !.selected = picked, !.oldStatus = sees]
\* The address and the selection n once the effects have run on the list d:
\* ClusterList's, then onClustersUpdate until it changes nothing.
Settle(n, d) ==
  LET picked == IF n.url # None THEN n.url ELSE n.selected
      found == d # None /\ picked # None /\ d.clusters[picked] # "gone"
      sees == IF d.clusters[picked] = "deleting" THEN "deleting" ELSE "ready"
  IN  IF ~found THEN [n EXCEPT !.selected = picked]
      ELSE IF "deleting" \in {sees, n.oldStatus}
        THEN [url |-> None, selected |-> None, oldStatus |-> sees]
      ELSE [n EXCEPT !.selected = picked, !.oldStatus = sees]

\* The page shows the address of n: it is mounted if it was not.
Go(n) ==
  IF Here(n)
    THEN /\ nav' = Settle(n, data)
         /\ requests' = requests \cup SelectCluster(n)
                        \cup IF Here(nav) THEN {} ELSE ListQuery(region)
         /\ failed' = IF SelectCluster(n) = {} THEN failed ELSE failed \ {n.url}
    ELSE nav' = n /\ UNCHANGED <<requests, failed>>

-----------------------------------------------------------------------------
(* What the user does.                                                     *)

\* A row of the list, a link, or the browser's history.
Visit(u) ==
  /\ boot = "ready" /\ nav.url # u /\ MayRequest
  /\ Go([nav EXCEPT !.url = u])
  /\ UNCHANGED <<clouds, region, boot, data, names, index, dialog, failures, switches>>

StateShown == IF nav.selected = None \/ index[nav.selected].status = None THEN None
              ELSE index[nav.selected].status.state

StartFleet ==
  /\ Shown /\ dialog = None /\ StateShown = "stopped" /\ MayRequest
  /\ requests' = requests \cup {Issue("start", nav.selected, Target(nav.selected))}
  /\ UNCHANGED <<clouds, region, boot, nav, data, names, index, dialog, failed,
                 failures, switches>>

OpenDialog(d) ==
  /\ Shown /\ dialog = None
  /\ IF d = "stop" THEN StateShown = "running"
     ELSE nav.selected # None /\ StateShown # "deleting"
  /\ dialog' = d
  /\ UNCHANGED <<clouds, region, boot, nav, data, names, index, requests, failed,
                 failures, switches>>

Cancel ==
  /\ Shown /\ dialog # None
  /\ dialog' = None
  /\ UNCHANGED <<clouds, region, boot, nav, data, names, index, requests, failed,
                 failures, switches>>

\* stopCluster and deleteCluster: of whatever is selected by then.
Confirm ==
  /\ Shown /\ dialog # None /\ MayRequest
  /\ requests' = requests \cup {Issue(dialog, nav.selected, Target(nav.selected))}
  /\ dialog' = None
  /\ UNCHANGED <<clouds, region, boot, nav, data, names, index, failed, failures,
                 switches>>

BugClearAll == index
\* clearAllState: of the store only the Region is kept.
ClearAll == Empty

ClearClusterOnRegionChange(u) == IF u = Elsewhere THEN u ELSE None

\* selectRegion; with its store emptied the page starts again.  What
\* react-query keeps is not in the store.
SelectRegion(r) ==
  /\ boot = "ready" /\ dialog = None /\ switches < MaxSwitches
  /\ region' = r
  /\ nav' = [url |-> ClearClusterOnRegionChange(nav.url),
             selected |-> None, oldStatus |-> None]
  /\ index' = ClearAll /\ names' = None
  /\ requests' = {[f EXCEPT !.late = TRUE] : f \in requests}
                 \cup IF Here(nav) THEN ListQuery(r) ELSE {}
  /\ boot' = "info" /\ switches' = switches + 1 /\ failed' = {}
  /\ UNCHANGED <<clouds, data, dialog, failures>>

-----------------------------------------------------------------------------
(* The start of the page and its timers.                                   *)

InfoLoaded ==
  /\ boot = "info"
  /\ boot' = "identity"
  /\ UNCHANGED <<clouds, region, nav, data, names, index, dialog, requests, failed,
                 failures, switches>>

\* The pages are mounted and LoadInitialState lists the clusters.
Start ==
  /\ boot' = "ready"
  /\ requests' = requests \cup {Issue("list", None, region)}
                 \cup IF Here(nav) THEN SelectCluster(nav) \cup ListQuery(region) ELSE {}
  /\ nav' = IF Here(nav) THEN Settle(nav, data) ELSE nav
  /\ UNCHANGED <<clouds, region, data, names, index, dialog, failed, switches>>
IdentityLoaded == boot = "identity" /\ Start /\ UNCHANGED failures
\* Any error but one of authentication lets the page start.
IdentityFailed == /\ boot = "identity" /\ failures < MaxFails
                  /\ Start /\ failures' = failures + 1
\* The application's settings or version fail, or the user has no access.
StartFailed ==
  /\ boot \in {"info", "identity"} /\ failures < MaxFails
  /\ boot' = "stuck" /\ failures' = failures + 1
  /\ UNCHANGED <<clouds, region, nav, data, names, index, dialog, requests, failed,
                 switches>>

ListPoll ==
  /\ Shown /\ ~Querying /\ Cardinality(requests) <= MaxFlight
  /\ requests' = requests \cup ListQuery(region)
  /\ UNCHANGED <<clouds, region, boot, nav, data, names, index, dialog, failed,
                 failures, switches>>

BugDetailsPoll ==
  /\ Shown /\ nav.selected # None /\ index[nav.selected] # NoEntry /\ MayRequest
  /\ StateShown = "deleting"
  /\ requests' = requests \cup {Issue("describe", nav.selected, Target(nav.selected))}
  /\ UNCHANGED <<clouds, region, boot, nav, data, names, index, dialog, failed,
                 failures, switches>>
\* useClusterPoll, while Properties shows a cluster.
DetailsPoll ==
  /\ Shown /\ nav.selected # None /\ index[nav.selected] # NoEntry /\ MayRequest
  /\ requests' = requests \cup {Issue("describe", nav.selected, Target(nav.selected))}
  /\ UNCHANGED <<clouds, region, boot, nav, data, names, index, dialog, failed,
                 failures, switches>>

-----------------------------------------------------------------------------
(* The cloud.                                                              *)

StateOf(f) == IF f.name = None THEN "gone" ELSE clouds[f.region][f.name]
Plain == [c \in {} |-> "gone"]  \* an answer whose contents matter to nothing here
Seen(f) == [c \in {f.name} |-> StateOf(f)]
Becomes(f, s) == clouds' = [clouds EXCEPT ![f.region][f.name] = s]

GivesAnswer(f, a) == requests' = (requests \ {f}) \cup {[f EXCEPT !.answer = a]}
CloudServes(f) ==
  /\ f.answer = None
  /\ \/ /\ f.cmd \in Lists
        /\ GivesAnswer(f, IF f.cmd = "query" THEN clouds[f.region] ELSE Plain)
        /\ UNCHANGED clouds
     \/ /\ f.cmd \in Details
        /\ GivesAnswer(f, IF StateOf(f) = "gone" THEN Error
                       ELSE IF f.cmd = "config" THEN Plain ELSE Seen(f))
        /\ UNCHANGED clouds
     \/ /\ f.cmd \in Commands \ Details /\ StateOf(f) \in {"running", "stopped"}
        /\ GivesAnswer(f, Plain)
        /\ Becomes(f, CASE f.cmd = "start" -> "running"
                        [] f.cmd = "stop" -> "stopped"
                        [] OTHER -> "deleting")
     \/ /\ f.cmd \in Commands \ Details /\ StateOf(f) \notin {"running", "stopped"}
        /\ GivesAnswer(f, Error) /\ UNCHANGED clouds
  /\ UNCHANGED <<region, boot, nav, data, names, index, dialog, failed, failures, switches>>

\* The request or its answer is lost, or the API fails.
Lose(f) ==
  /\ f.answer # Error /\ failures < MaxFails
  /\ GivesAnswer(f, Error) /\ failures' = failures + 1
  /\ UNCHANGED <<clouds, region, boot, nav, data, names, index, dialog, failed, switches>>

\* Other clients delete clusters too, and deletions end.
CloudDeletes(r, c) ==
  /\ clouds[r][c] # "gone"
  /\ clouds' = [clouds EXCEPT ![r][c] = IF @ = "deleting" THEN "gone" ELSE "deleting"]
  /\ UNCHANGED <<region, boot, nav, data, names, index, dialog, requests, failed,
                 failures, switches>>

-----------------------------------------------------------------------------
(* Answers.                                                                *)

Reaches(f, cmds) == f.answer \notin {None, Error} /\ f.cmd \in cmds

ListArrives(f) ==
  /\ Reaches(f, Lists)
  /\ names' = f.region
  /\ LET d == [of |-> f.region, clusters |-> f.answer] IN
       IF f.cmd = "list" THEN UNCHANGED <<data, nav>>
       ELSE data' = d /\ nav' = IF Shown THEN Settle(nav, d) ELSE nav
  /\ requests' = requests \ {f}
  /\ UNCHANGED <<clouds, region, boot, index, dialog, failed, failures, switches>>

\* DescribeCluster merges its answer; selectCluster then asks for the
\* configuration, of the Region chosen by then.
DescribeArrives(f) ==
  /\ Reaches(f, {"describe", "select"})
  /\ index' = [index EXCEPT
       ![f.name].status = [state |-> f.answer[f.name], of |-> f.region],
       ![f.name].late = @ \/ f.late]
  /\ requests' = (requests \ {f}) \cup
       IF f.cmd = "select"
         THEN {[Issue("config", f.name, Target(f.name)) EXCEPT !.late = f.late]} ELSE {}
  /\ UNCHANGED <<clouds, region, boot, nav, data, names, dialog, failed, failures, switches>>

ConfigArrives(f) ==
  /\ Reaches(f, {"config"})
  /\ index' = [index EXCEPT ![f.name].config = f.region, ![f.name].late = @ \/ f.late]
  /\ requests' = requests \ {f}
  /\ UNCHANGED <<clouds, region, boot, nav, data, names, dialog, failed, failures, switches>>

FleetArrives(f) ==
  /\ Reaches(f, Fleet)
  /\ requests' = (requests \ {f}) \cup {Issue("describe", f.name, Target(f.name))}
  /\ UNCHANGED <<clouds, region, boot, nav, data, names, index, dialog, failed,
                 failures, switches>>

\* deleteCluster's callback leaves for the list, wherever the user is; the
\* address of a page left by a choice of Region is not the page's any more.
DeleteArrives(f) ==
  /\ Reaches(f, {"delete"})
  /\ IF f.late THEN nav' = nav /\ requests' = requests \ {f}
     ELSE LET n == [nav EXCEPT !.url = None] IN
       /\ nav' = Settle(n, data)
       /\ requests' = (requests \ {f}) \cup IF Here(nav) THEN {} ELSE ListQuery(region)
  /\ UNCHANGED <<clouds, region, boot, data, names, index, dialog, failed, failures,
                 switches>>

\* Errors are shown; a selection's is swallowed and nothing asks again.
ErrorArrives(f) ==
  /\ f.answer = Error
  /\ requests' = requests \ {f}
  /\ failed' = IF f.cmd = "select" THEN failed \cup {f.name} ELSE failed
  /\ UNCHANGED <<clouds, region, boot, nav, data, names, index, dialog, failures, switches>>

HandleAnswer(f) == \/ ListArrives(f) \/ DescribeArrives(f) \/ ConfigArrives(f)
              \/ FleetArrives(f) \/ DeleteArrives(f) \/ ErrorArrives(f)

-----------------------------------------------------------------------------
ConsoleInit ==
  /\ clouds \in Clouds
  /\ region = HomeRegion /\ boot = "info"
  /\ nav \in [url : Clusters \cup {None}, selected : {None}, oldStatus : {None}]
  /\ data = None /\ names = None /\ index = Empty /\ dialog = None
  /\ requests = {} /\ failed = {} /\ failures = 0 /\ switches = 0

ConsoleNext ==
  \/ \E u \in Clusters \cup {None, Elsewhere} : Visit(u)
  \/ StartFleet \/ \E d \in {"stop", "delete"} : OpenDialog(d)
  \/ Cancel \/ Confirm \/ \E r \in Regions : SelectRegion(r)
  \/ InfoLoaded \/ IdentityLoaded \/ IdentityFailed \/ StartFailed
  \/ ListPoll \/ DetailsPoll
  \/ \E f \in requests : CloudServes(f) \/ Lose(f) \/ HandleAnswer(f)
  \/ \E r \in Regions, c \in Clusters : CloudDeletes(r, c)

ConsoleSpec == ConsoleInit /\ [][ConsoleNext]_consoleVars

Of(cmd, c) == {f \in requests : f.cmd = cmd /\ f.name = c}
\* The start ends, timers fire while their page is shown, and the servers
\* answer each kind of request, and the answers reach the page.
Fairness ==
  /\ WF_consoleVars(InfoLoaded) /\ WF_consoleVars(IdentityLoaded)
  /\ WF_consoleVars(ListPoll) /\ WF_consoleVars(DetailsPoll)
  /\ \A k \in (Lists \X {None}) \cup (Commands \X Clusters) :
       /\ WF_consoleVars(\E f \in Of(k[1], k[2]) : CloudServes(f))
       /\ WF_consoleVars(\E f \in Of(k[1], k[2]) : HandleAnswer(f))
FairSpec == ConsoleSpec /\ Fairness

-----------------------------------------------------------------------------
(* Properties.                                                             *)

\* Every variable has the shape the store and the page give it.
ConsoleTypeOK ==
  /\ clouds \in [Regions -> [Clusters -> States]]
  /\ region \in Regions
  /\ boot \in {"info", "identity", "ready", "stuck"}
  /\ nav \in [url : Clusters \cup {None, Elsewhere}, selected : Clusters \cup {None},
              oldStatus : {None, "ready", "deleting"}]
  /\ data \in {None} \cup [of : Regions, clusters : [Clusters -> States]]
  /\ names \in Regions \cup {None}
  /\ index \in [Clusters -> Entry]
  /\ dialog \in {None, "stop", "delete"}
  /\ requests \subseteq ConsoleRequest
  /\ failed \subseteq Clusters \cup {None}
  /\ failures \in 0..MaxFails /\ switches \in 0..MaxSwitches

\* While the clusters page is shown, the cluster its address names is the one
\* selected: whatever clears one of the two clears the other, be it a row, the
\* list's answer, a deletion's answer or a choice of Region.
SelectionFollowsUrl ==
  Shown /\ nav.url # None => nav.selected = nav.url

\* What the store keeps of a cluster (status and configuration alike) is of the
\* Region chosen, unless an answer to a request made before the choice put it
\* there after the store was emptied, or the cluster's name hides the Region.
StaleOnlyFromLateAnswers ==
  \A c \in Clusters \ Regional :
    index[c].late \/ /\ index[c].status = None \/ index[c].status.of = region
                     /\ index[c].config \in {None, region}

\* Once the user stays on the clusters page of a Region, the list becomes that
\* Region's and stays so, though the old answer is kept and joined meanwhile.
ListFollowsRegion ==
  \A r \in Regions :
    <>[](region = r /\ Shown) => <>[](data # None /\ data.of = r)

\* A selection whose details are still loading gets them, or is left, unless
\* its DescribeCluster failed (then nothing asks again: Details spins on).
SpinnerEnds ==
  \A c \in Clusters :
    (Shown /\ nav.selected = c /\ index[c] = NoEntry)
      ~> (~Shown \/ nav.selected # c \/ index[c] # NoEntry \/ c \in failed)

\* While a cluster's details stay shown, a state the cloud keeps is shown in the
\* end, in whatever order the polls' answers come.
DetailsConverge ==
  \A c \in Clusters, r \in Regions, s \in States \ {"gone"} :
    <>[](/\ Shown /\ nav.selected = c /\ index[c] # NoEntry
         /\ Target(c) = r /\ clouds[r][c] = s)
      => <>[](index[c].status # None /\ index[c].status.state = s)

\* List and details both come to show the cloud of the Region chosen.
ViewsConverge == ListFollowsRegion /\ DetailsConverge
=============================================================================
