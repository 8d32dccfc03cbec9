--------------------------- MODULE CostMonitoring ---------------------------
(***************************************************************************)
(* Cost monitoring: whether its tag is active, asked and cached by            *)
(* react-query (frontend/src/old-pages/Clusters/Costs), its activation by the  *)
(* button of a cluster's details, and a request for costs, whose pages the    *)
(* api collects (api/costmonitoring).                                        *)
(*                                                                         *)
(* A definition named Bug... is a plausible mistake in the one that follows   *)
(* it.                                                                      *)
(***************************************************************************)
EXTENDS Naturals, FiniteSets

CONSTANT MaxPages  \* bound: the pages of an answer of Cost Explorer

ASSUME CostAssumption == MaxPages \in Nat

VARIABLES explorer,   \* Cost Explorer: whether it may be accessed
          tag,        \* the status of the tag the costs are grouped by
          statusQuery, \* the cached query: its data, its request
          details,    \* a cluster's details are shown
          activation, \* the requests for activation: what the button waits for
          instruct,   \* the window that says to enable Cost Explorer
          costs,      \* the api collecting pages: where it is and what it has
          costPast    \* history

costVars == <<explorer, tag, statusQuery, details, activation, instruct, costs, costPast>>

Tag == {"absent", "Inactive", "Active"}
Statuses == {"none", "yes", "no"}
NoFetch == [step |-> "none", active |-> "none"]
NoActivation == [step |-> "none", waits |-> FALSE]

-----------------------------------------------------------------------------
(* The status.                                                             *)

\* CostExplorerClient.is_active.
IsActive == explorer /\ tag = "Active"

\* staleTime is Infinity: only a query without data asks when it mounts.
ShouldFetch == statusQuery.data = "none"

Fetch == [statusQuery EXCEPT !.fetch = [step |-> "asked", active |-> "none"], !.failed = FALSE]

\* The details mount, and with them ClusterTabs and EnableCostMonitoringButton.
ShowDetails ==
  /\ ~details /\ details' = TRUE
  /\ statusQuery' = IF ShouldFetch /\ statusQuery.fetch = NoFetch THEN Fetch ELSE statusQuery
  /\ UNCHANGED <<explorer, tag, activation, instruct, costs, costPast>>

LeaveDetails ==
  /\ details /\ details' = FALSE /\ instruct' = FALSE
  /\ activation' = [activation EXCEPT !.waits = FALSE]
  /\ UNCHANGED <<explorer, tag, statusQuery, costs, costPast>>

\* selectRegion invalidates every query; those in use are asked again.
InvalidateQueries ==
  /\ details /\ statusQuery.fetch = NoFetch
  /\ statusQuery' = Fetch
  /\ UNCHANGED <<explorer, tag, details, activation, instruct, costs, costPast>>

ServeStatus ==
  /\ statusQuery.fetch.step = "asked"
  /\ statusQuery' = [statusQuery EXCEPT !.fetch =
       [step |-> "answered", active |-> IF IsActive THEN "yes" ELSE "no"]]
  /\ UNCHANGED <<explorer, tag, details, activation, instruct, costs, costPast>>

StatusArrives ==
  /\ statusQuery.fetch.step = "answered"
  /\ statusQuery' = [data |-> statusQuery.fetch.active, fetch |-> NoFetch, failed |-> FALSE]
  /\ UNCHANGED <<explorer, tag, details, activation, instruct, costs, costPast>>

\* After the retries of react-query.
StatusFails ==
  /\ statusQuery.fetch # NoFetch
  /\ statusQuery' = [statusQuery EXCEPT !.fetch = NoFetch, !.failed = TRUE]
  /\ UNCHANGED <<explorer, tag, details, activation, instruct, costs, costPast>>

-----------------------------------------------------------------------------
(* Activation.                                                             *)

Loading == statusQuery.data = "none" /\ statusQuery.fetch # NoFetch
ButtonShown == details /\ ~Loading /\ statusQuery.data # "yes"

Activate ==
  /\ ButtonShown /\ ~activation.waits /\ ~instruct
  /\ activation.step = "none"   \* bound: one at a time, also after leaving
  /\ activation' = [step |-> "asked", waits |-> TRUE]
  /\ UNCHANGED <<explorer, tag, statusQuery, details, instruct, costs, costPast>>

\* activate: refused while Cost Explorer is not accessible (405) or knows no
\* such tag.
ServeActivation ==
  /\ activation.step = "asked"
  /\ LET done == explorer /\ tag # "absent" IN
     /\ activation' = [activation EXCEPT !.step =
          IF done THEN "done" ELSE IF explorer THEN "failed" ELSE "405"]
     /\ tag' = IF done THEN "Active" ELSE tag
  /\ UNCHANGED <<explorer, statusQuery, details, instruct, costs, costPast>>

LoseActivation ==
  /\ activation.step \in {"asked", "done"}
  /\ activation' = [activation EXCEPT !.step = "failed"]
  /\ UNCHANGED <<explorer, tag, statusQuery, details, instruct, costs, costPast>>

BugActivated == statusQuery
\* onSuccess writes the cached status and leaves a request for it alone.
Activated == [statusQuery EXCEPT !.data = "yes", !.failed = FALSE]

ActivationEnds ==
  /\ activation.step \in {"done", "failed", "405"}
  /\ statusQuery' = IF activation.step = "done" THEN Activated ELSE statusQuery
  /\ instruct' = IF activation.step = "405" THEN activation.waits ELSE instruct
  /\ activation' = NoActivation
  /\ costPast' = IF activation.step = "done"
                   THEN [activated |-> TRUE, raced |-> statusQuery.fetch # NoFetch]
                   ELSE costPast
  /\ UNCHANGED <<explorer, tag, details, costs>>

CloseInstructions ==
  /\ instruct /\ instruct' = FALSE
  /\ UNCHANGED <<explorer, tag, statusQuery, details, activation, costs, costPast>>

\* The account's owner gives access to Cost Explorer; the first cluster's
\* costs make its tag known.
AccountChanges ==
  /\ \/ ~explorer /\ explorer' = TRUE /\ UNCHANGED tag
     \/ tag = "absent" /\ tag' = "Inactive" /\ UNCHANGED explorer
  /\ UNCHANGED <<statusQuery, details, activation, instruct, costs, costPast>>

-----------------------------------------------------------------------------
(* Costs.                                                                  *)

\* The loop's condition.
More == costs.pages > 1

\* The page a request gets: the token is never passed, so it is the first.
Page == 1

AskCosts ==
  /\ costs.pc = "idle" /\ statusQuery.data = "yes" /\ details
  /\ costs' = [costs EXCEPT !.pc = "reading"]
  /\ UNCHANGED <<explorer, tag, statusQuery, details, activation, instruct, costPast>>

ReadCosts ==
  /\ costs.pc = "reading"
  /\ costs' = [costs EXCEPT !.read = @ \cup {Page}, !.pc = IF More THEN "reading" ELSE "done"]
  /\ UNCHANGED <<explorer, tag, statusQuery, details, activation, instruct, costPast>>

-----------------------------------------------------------------------------
CostInit ==
  /\ explorer \in BOOLEAN /\ tag \in Tag
  /\ statusQuery = [data |-> "none", fetch |-> NoFetch, failed |-> FALSE]
  /\ details = FALSE /\ activation = NoActivation /\ instruct = FALSE
  /\ costs \in [pages : 1..MaxPages, read : {{}}, pc : {"idle"}]
  /\ costPast = [activated |-> FALSE, raced |-> FALSE]

CostNext ==
  \/ ShowDetails \/ LeaveDetails \/ InvalidateQueries \/ ServeStatus \/ StatusArrives
  \/ StatusFails \/ Activate \/ ServeActivation \/ LoseActivation \/ ActivationEnds
  \/ CloseInstructions \/ AccountChanges \/ AskCosts \/ ReadCosts

CostSpec == CostInit /\ [][CostNext]_costVars /\ WF_costVars(ReadCosts)

-----------------------------------------------------------------------------
(* Properties.                                                             *)

\* Every variable has its shape.
CostTypeOK ==
  /\ explorer \in BOOLEAN /\ tag \in Tag /\ details \in BOOLEAN /\ instruct \in BOOLEAN
  /\ statusQuery \in [data : Statuses, failed : BOOLEAN,
                      fetch : [step : {"none", "asked", "answered"}, active : Statuses]]
  /\ activation \in [step : {"none", "asked", "done", "failed", "405"}, waits : BOOLEAN]
  /\ costs \in [pages : 1..MaxPages, read : SUBSET (1..MaxPages),
                pc : {"idle", "reading", "done"}]

\* Once an activation was reported the page knows that monitoring is active,
\* unless a request for the status was under way then (its answer, older than the
\* activation, replaces what onSuccess wrote).
ActivationIsKnown ==
  costPast.activated /\ ~costPast.raced => statusQuery.data = "yes"

\* An answer for costs holds every page Cost Explorer has.
CostsAreWhole == costs.pc = "done" => costs.read = 1..costs.pages

\* A request for costs is answered, if they fit one page (with more the api asks
\* for the first page for ever).
OnePageAnswered == costs.pc = "reading" /\ costs.pages = 1 ~> costs.pc = "done"

\* The page knows what it activated, and shows costs only when they are whole.
CostsAgree == CostTypeOK /\ ActivationIsKnown /\ CostsAreWhole
=============================================================================
