----------------------------- MODULE ClusterTabs -----------------------------
(***************************************************************************)
(* The tabs of a cluster's details that act on its machines                *)
(* (frontend/src/old-pages/Clusters): Scheduling (Slurm's queue, a job's    *)
(* window, Stop Job), Accounting (past jobs by filter, a job's window),     *)
(* Instances (stop and start of the head node) and StackEvents.  A tab      *)
(* mounts when it is opened; what it asked is answered after it was left,  *)
(* after another cluster was selected, or after it asked again.             *)
(*                                                                         *)
(* A cluster's configuration is loaded and allows commands by SSM.  A       *)
(* definition named Bug... is a plausible mistake in the definition that    *)
(* follows it; no behaviour of Spec uses it.                                *)
(***************************************************************************)
EXTENDS ClusterNames

CONSTANTS Jobs,
          Filters,    \* what the fields of the accounting page may hold
          Silent      \* a failure without a response

Power == {"up", "down"}
\* What is not there is no value, and a failure no answer.
ASSUME TabsAssumption ==
  /\ None \notin Clusters \cup Jobs \cup Filters \cup {"button", "table", "modal", "stop", "start"}
  /\ None \notin {Error, Silent} /\ Error # Silent
  /\ \A e \in {None, Error, Silent}, s \in (SUBSET Jobs) \cup (SUBSET Power) : e # s
  /\ Jobs \cap {"stop", "start"} = {} /\ Filters \cap {"button", "table", "modal"} = {}
  /\ MaxFails \in Nat

VARIABLES machines,    \* the cloud: each cluster's live jobs and head node
          located,     \* aws.region is loaded
          info,        \* of the store's clusters.index: what DescribeCluster gave
          view,        \* the selected cluster and the open tab
          queue,       \* clusters.index: jobs, as listed last
          modal,       \* app.clusters.jobInfo
          stopping,    \* app.clusters.queue.action: jobs with a pending Stop
          accounting,  \* clusters.index: accounting
          search,      \* app.clusters.accounting: the filter and pending
          nodes,       \* clusters.index: instances
          actions,     \* InstanceActions: the pending ones
          events,      \* clusters.index: stackevents
          watch,       \* StackEvents' timer and the cluster it closed over
          flight, fails,
          past         \* history: what was asked last, and what broke

vars == <<machines, located, info, view, queue, modal, stopping, accounting,
          search, nodes, actions, events, watch, flight, fails, past>>
cloudVars == <<machines, located, info>>
jobVars == <<queue, modal, stopping>>
accountVars == <<accounting, search>>
instanceVars == <<nodes, actions>>
eventVars == <<events, watch>>

Infos == {"creating", "started", "running", "stopped"}
Tabs == {"details", "scheduling", "accounting", "instances", "events"}
NoAccounting == [list |-> None, dialog |-> FALSE, selectedJob |-> None, known |-> {}]
NoWatch == [of |-> None, creating |-> FALSE]
Accounts == {"list", "job"}
Request == [cmd : {"queue", "cancel", "info", "ec2", "nodes", "events"} \cup Accounts,
            of : Clusters, job : Jobs \cup {None, "stop", "start"},
            for : {None, "table", "modal", "button"} \cup Filters,
            shown : Clusters \cup {None},
            answer : {None, Error, Silent} \cup (SUBSET Jobs) \cup (SUBSET Power)]

-----------------------------------------------------------------------------
(* Requests.                                                               *)

Ask(cmd, c, j, for) == [cmd |-> cmd, of |-> c, job |-> j, for |-> for,
                        shown |-> None, answer |-> None]
HasHead(c) == c # None /\ info[c] # "creating"
MaySend == Cardinality(flight) < MaxFlight
InFlight(cmds) == {f \in flight : f.cmd \in cmds}
Accounting(c) == {f \in InFlight(Accounts) : f.of = c}

\* refreshQueues, with the callback of the Stop of job j, if any.
RefreshQueues(j, for) ==
  IF HasHead(view.cluster) /\ located
    THEN {Ask("queue", view.cluster, j, for)} ELSE {}


-----------------------------------------------------------------------------
(* Opening a tab, selecting a cluster.                                     *)

\* InstanceActions goes with its tab: callbacks then find nobody.
Orphaned == {IF f.for = "button" THEN [f EXCEPT !.for = None] ELSE f : f \in flight}

\* refreshAccounting of the list, with the filter there is; it sets pending
\* whether or not it can ask.
ListAccounting(c, filter) ==
  /\ accounting' = [accounting EXCEPT ![c].list = None]
  /\ search' = [filter |-> filter, pending |-> TRUE]
  /\ flight' = flight \cup IF HasHead(c) THEN {Ask("list", c, None, filter)} ELSE {}
  /\ past' = [past EXCEPT !.filter[c] = filter, !.silent = @ \/ ~HasHead(c),
                          !.order[c] = IF Accounting(c) # {} THEN "mixed"
                                        ELSE IF @ = "mixed" THEN "asked" ELSE @]

\* The tab t mounts.
Mount(t) ==
  LET c == view.cluster IN
  CASE t = "scheduling" ->
         /\ flight' = flight \cup RefreshQueues(None, None)
         /\ UNCHANGED <<accountVars, actions, watch, past>>
    [] t = "accounting" ->
         ListAccounting(c, search.filter) /\ UNCHANGED <<actions, watch>>
    [] t = "instances" ->
         /\ flight' = Orphaned \cup {Ask("nodes", c, None, None)}
         /\ actions' = {} /\ past' = [past EXCEPT !.action = FALSE]
         /\ UNCHANGED <<accountVars, watch>>
    [] t = "events" ->
         /\ flight' = flight \cup {Ask("events", c, None, None)}
         /\ watch' = [of |-> c, creating |-> info[c] \in {"creating", "started"}]
         /\ past' = [past EXCEPT !.lost = FALSE]
         /\ UNCHANGED <<accountVars, actions>>

OpenTab(t) ==
  /\ view.cluster # None /\ view.tab = "details" /\ t # "details" /\ MaySend
  /\ view' = [view EXCEPT !.tab = t]
  /\ Mount(t)
  /\ UNCHANGED <<cloudVars, jobVars, nodes, events, fails>>

\* Another tab, the history, a row of the list, or a deletion's end: the tab
\* unmounts; a job's window left open stays so in the store.
Leave(c) ==
  /\ view # [cluster |-> c, tab |-> "details"]
  /\ view' = [cluster |-> c, tab |-> "details"]
  /\ watch' = NoWatch
  /\ flight' = Orphaned /\ actions' = {}
  /\ past' = [past EXCEPT !.stray = @ \/ (modal.open /\ c # view.cluster)]
  /\ UNCHANGED <<cloudVars, jobVars, accountVars, nodes, events, fails>>

-----------------------------------------------------------------------------
(* Scheduling.                                                             *)

QueueTick ==
  /\ view.tab = "scheduling" /\ InFlight({"queue"}) = {} /\ MaySend
  /\ RefreshQueues(None, None) # {}
  /\ flight' = flight \cup RefreshQueues(None, None)
  /\ UNCHANGED <<cloudVars, view, jobVars, accountVars, instanceVars, eventVars,
                 fails, past>>

BugForget(m) == m
\* The window's former job goes before the next one is asked.
Forget(m) == [m EXCEPT !.data = None]

\* selectJob, from the table of the cluster's jobs.
SelectJob(j) ==
  /\ view.tab = "scheduling" /\ ~modal.open /\ queue[view.cluster] # None /\ MaySend
  /\ IF HasHead(view.cluster)
       THEN /\ modal' = [Forget(modal) EXCEPT !.open = TRUE]
            /\ flight' = flight \cup {Ask("info", view.cluster, j, None)}
            /\ past' = [past EXCEPT !.info = [of |-> view.cluster, job |-> j],
                                    !.stray = FALSE]
       ELSE modal' = Forget(modal) /\ UNCHANGED <<flight, past>>
  /\ UNCHANGED <<cloudVars, view, queue, stopping, accountVars, instanceVars,
                 eventVars, fails>>

CloseJob ==
  /\ view.tab = "scheduling" /\ modal.open
  /\ modal' = [modal EXCEPT !.open = FALSE]
  /\ UNCHANGED <<cloudVars, view, queue, stopping, accountVars, instanceVars,
                 eventVars, flight, fails, past>>

\* Stop Job, of the table or of the window: cancelJob asks the head node of the
\* cluster selected now.
CancelJob(j, from) ==
  /\ view.tab = "scheduling" /\ info[view.cluster] = "running" /\ MaySend
  /\ modal.open = (from = "modal")
  /\ IF from = "modal" THEN modal.data # None /\ j = modal.data.job /\ modal.data.live
     ELSE queue[view.cluster] # None /\ j \in queue[view.cluster]
  /\ j \notin stopping
  /\ stopping' = stopping \cup {j}
  /\ flight' = flight \cup
       {[Ask("cancel", view.cluster, j, from) EXCEPT
          !.shown = IF from = "modal" THEN IF past.stray THEN None ELSE modal.data.of
                    ELSE view.cluster]}
  /\ past' = [past EXCEPT !.broken = @ \ {j}]
  /\ UNCHANGED <<cloudVars, view, queue, modal, accountVars, instanceVars,
                 eventVars, fails>>

-----------------------------------------------------------------------------
(* Accounting.                                                             *)

\* A filter is chosen (the lists and dates), or Enter or Refresh pressed.
Refresh(filter) ==
  /\ view.tab = "accounting" /\ ~accounting[view.cluster].dialog /\ MaySend
  /\ ListAccounting(view.cluster, filter)
  /\ UNCHANGED <<cloudVars, view, jobVars, instanceVars, eventVars, fails>>

\* A text field changes: nothing is asked.
Type(filter) ==
  /\ view.tab = "accounting" /\ ~accounting[view.cluster].dialog
  /\ filter # search.filter /\ search' = [search EXCEPT !.filter = filter]
  /\ UNCHANGED <<cloudVars, view, jobVars, accounting, instanceVars, eventVars,
                 flight, fails, past>>

\* selectJob.
SelectPastJob(j) ==
  LET c == view.cluster IN
  /\ view.tab = "accounting" /\ ~accounting[c].dialog /\ MaySend
  /\ accounting[c].list # None
  /\ accounting' = [accounting EXCEPT ![c].dialog = TRUE, ![c].selectedJob = None,
                                      ![c].known = @ \ {j}]
  /\ search' = [search EXCEPT !.pending = TRUE]
  /\ flight' = flight \cup IF HasHead(c) THEN {Ask("job", c, j, None)} ELSE {}
  /\ past' = [past EXCEPT !.job[c] = j, !.silent = @ \/ ~HasHead(c),
                          !.order[c] = IF Accounting(c) # {} THEN "mixed" ELSE @]
  /\ UNCHANGED <<cloudVars, view, jobVars, instanceVars, eventVars, fails>>

ClosePastJob ==
  /\ view.tab = "accounting" /\ accounting[view.cluster].dialog
  /\ accounting' = [accounting EXCEPT ![view.cluster].dialog = FALSE]
  /\ UNCHANGED <<cloudVars, view, jobVars, search, instanceVars, eventVars,
                 flight, fails, past>>

-----------------------------------------------------------------------------
(* Instances and stack events.                                             *)

InstancesTick ==
  /\ view.tab = "instances" /\ InFlight({"nodes"}) = {} /\ MaySend
  /\ flight' = flight \cup {Ask("nodes", view.cluster, None, None)}
  /\ UNCHANGED <<cloudVars, view, jobVars, accountVars, instanceVars, eventVars,
                 fails, past>>

\* stopInstance and startInstance, once the fleet is stopped.
ActOnHeadNode(a) ==
  LET c == view.cluster IN
  /\ view.tab = "instances" /\ info[c] = "stopped" /\ MaySend
  /\ nodes[c] = IF a = "stop" THEN "up" ELSE "down"
  /\ a \notin actions
  /\ actions' = actions \cup {a}
  /\ flight' = flight \cup {Ask("ec2", c, a, "button")}
  /\ past' = [past EXCEPT !.rival = \E f \in flight : f.cmd = "ec2" \/ f.for = "button"]
  /\ UNCHANGED <<cloudVars, view, jobVars, accountVars, nodes, eventVars, fails>>

\* The timer asks while the cluster it closed over was being created.
EventsTick ==
  /\ watch # NoWatch /\ InFlight({"events"}) = {} /\ MaySend
  /\ IF watch.creating
       THEN flight' = flight \cup {Ask("events", watch.of, None, None)} /\ UNCHANGED watch
       ELSE watch' = NoWatch /\ UNCHANGED flight
  /\ UNCHANGED <<cloudVars, view, jobVars, accountVars, instanceVars, events,
                 fails, past>>

\* refreshStackEvents, a button of the table.
RefreshEvents ==
  /\ view.tab = "events" /\ events[view.cluster] /\ MaySend
  /\ events' = [events EXCEPT ![view.cluster] = FALSE]
  /\ flight' = flight \cup {Ask("events", view.cluster, None, None)}
  /\ past' = [past EXCEPT !.lost = FALSE]
  /\ UNCHANGED <<cloudVars, view, jobVars, accountVars, instanceVars, watch, fails>>

-----------------------------------------------------------------------------
(* The cloud.                                                              *)

Running(c) == IF machines[c].node = "up" THEN machines[c].live ELSE {}
Answered(f, a) == flight' = (flight \ {f}) \cup {[f EXCEPT !.answer = a]}
Serve(f) ==
  /\ f.answer = None
  /\ Answered(f, CASE f.cmd \in {"queue", "info"} -> Running(f.of)
                   [] f.cmd = "nodes" -> {machines[f.of].node}
                   [] OTHER -> {})
  /\ machines' = CASE f.cmd = "cancel" -> [machines EXCEPT ![f.of].live = @ \ {f.job}]
                   [] f.cmd = "ec2" -> [machines EXCEPT ![f.of].node =
                                          IF f.job = "stop" THEN "down" ELSE "up"]
                   [] OTHER -> machines
  /\ UNCHANGED <<located, info, view, jobVars, accountVars, instanceVars, eventVars,
                 fails, past>>

Fail(f) ==
  /\ f.answer \notin {Error, Silent} /\ fails < MaxFails
  /\ \E e \in {Error, Silent} : Answered(f, e)
  /\ fails' = fails + 1
  /\ UNCHANGED <<cloudVars, view, jobVars, accountVars, instanceVars, eventVars, past>>

\* useClusterPoll brings news of the cluster; LoadAwsConfig ends.
Described(c, i) ==
  /\ i \notin {info[c], "creating"}
  /\ i = "started" => info[c] = "creating"
  /\ info' = [info EXCEPT ![c] = i]
  /\ UNCHANGED <<machines, located, view, jobVars, accountVars, instanceVars,
                 eventVars, flight, fails, past>>
Locate ==
  /\ ~located /\ located' = TRUE
  /\ UNCHANGED <<machines, info, view, jobVars, accountVars, instanceVars,
                 eventVars, flight, fails, past>>

-----------------------------------------------------------------------------
(* Answers.                                                                *)

Arrives(f, cmds) == f.cmd \in cmds /\ f.answer \notin {None, Error, Silent}

BugAfterStop(f) == stopping
\* The callback that cancelJob gives to the queue's refresh.
AfterStop(f) == stopping \ {f.job}

QueueArrives(f) ==
  /\ Arrives(f, {"queue"})
  /\ queue' = [queue EXCEPT ![f.of] = f.answer]
  /\ stopping' = AfterStop(f)
  /\ modal' = IF f.for = "modal" THEN [modal EXCEPT !.open = FALSE] ELSE modal
  /\ flight' = flight \ {f}
  /\ UNCHANGED <<cloudVars, view, accountVars, instanceVars, eventVars, fails, past>>

\* The refresh is of the cluster selected by then; with none, or no head node,
\* it is not asked and its callback never comes.
CancelArrives(f) ==
  /\ Arrives(f, {"cancel"})
  /\ flight' = (flight \ {f}) \cup RefreshQueues(f.job, f.for)
  /\ IF RefreshQueues(f.job, f.for) = {} THEN past' = [past EXCEPT !.broken = @ \cup {f.job}] ELSE UNCHANGED past
  /\ UNCHANGED <<cloudVars, view, jobVars, accountVars, instanceVars, eventVars, fails>>

\* selectJobCallback: whichever job was selected since.
InfoArrives(f) ==
  /\ Arrives(f, {"info"})
  /\ modal' = [modal EXCEPT !.data = [of |-> f.of, job |-> f.job,
                                      live |-> f.job \in f.answer]]
  /\ flight' = flight \ {f}
  /\ past' = [past EXCEPT !.stray = @ \/ past.info # [of |-> f.of, job |-> f.job]]
  /\ UNCHANGED <<cloudVars, view, queue, stopping, accountVars, instanceVars,
                 eventVars, fails>>

\* A list replaces all that accounting held, an open window too.
Accounted(f) ==
  IF f.cmd = "list"
    THEN [accounting EXCEPT ![f.of] = [NoAccounting EXCEPT !.list = f.for]]
    ELSE [accounting EXCEPT ![f.of].selectedJob = f.job, ![f.of].known = @ \cup {f.job}]

AccountingArrives(f) ==
  /\ Arrives(f, Accounts)
  /\ accounting' = Accounted(f)
  /\ search' = [search EXCEPT !.pending = FALSE]
  /\ flight' = flight \ {f}
  /\ past' = [past EXCEPT !.silent = FALSE, !.order[f.of] =
                IF f.cmd = "list" /\ @ = "asked" THEN "kept" ELSE @]
  /\ UNCHANGED <<cloudVars, view, jobVars, instanceVars, eventVars, fails>>

BugResetPending(f) == IF f.for = None THEN {} ELSE actions
\* resetPending, the callback of InstanceActions' refresh.
ResetPending(f) == IF f.for = "button" THEN {} ELSE actions

NodesArrive(f) ==
  /\ Arrives(f, {"nodes"})
  /\ nodes' = [nodes EXCEPT ![f.of] = CHOOSE n \in f.answer : TRUE]
  /\ actions' = ResetPending(f)
  /\ flight' = flight \ {f}
  /\ UNCHANGED <<cloudVars, view, jobVars, accountVars, eventVars, fails, past>>

Ec2Arrives(f) ==
  /\ Arrives(f, {"ec2"})
  /\ flight' = (flight \ {f}) \cup
       IF view.cluster # None THEN {Ask("nodes", view.cluster, None, f.for)} ELSE {}
  /\ UNCHANGED <<cloudVars, view, jobVars, accountVars, instanceVars, eventVars,
                 fails, past>>

EventsArrive(f) ==
  /\ Arrives(f, {"events"})
  /\ events' = [events EXCEPT ![f.of] = TRUE]
  /\ flight' = flight \ {f}
  /\ UNCHANGED <<cloudVars, view, jobVars, accountVars, instanceVars, watch,
                 fails, past>>

\* Only accounting has a callback for failures, and only with a response.
FailCallback(f) == IF f.cmd \in Accounts /\ f.answer = Error
                     THEN [search EXCEPT !.pending = FALSE] ELSE search

FailureArrives(f) ==
  /\ f.answer \in {Error, Silent}
  /\ flight' = flight \ {f}
  /\ search' = FailCallback(f)
  /\ past' = CASE f.cmd \in Accounts -> [past EXCEPT !.silent = f.answer = Silent]
               [] f.cmd = "cancel" \/ (f.cmd = "queue" /\ f.for # None) ->
                    [past EXCEPT !.broken = @ \cup {f.job}]
               [] f.for = "button" -> [past EXCEPT !.action = TRUE]
               [] f.cmd = "events" -> [past EXCEPT !.lost = TRUE]
               [] OTHER -> past
  /\ UNCHANGED <<cloudVars, view, jobVars, accounting, instanceVars, eventVars, fails>>

Receive(f) == \/ QueueArrives(f) \/ CancelArrives(f) \/ InfoArrives(f)
              \/ AccountingArrives(f) \/ NodesArrive(f) \/ Ec2Arrives(f)
              \/ EventsArrive(f) \/ FailureArrives(f)

-----------------------------------------------------------------------------
Init ==
  /\ machines = [c \in Clusters |-> [live |-> Jobs, node |-> "up"]]
  /\ located = FALSE /\ info \in [Clusters -> Infos]
  /\ view = [cluster |-> None, tab |-> "details"]
  /\ queue = [c \in Clusters |-> None]
  /\ modal = [open |-> FALSE, data |-> None] /\ stopping = {}
  /\ accounting = [c \in Clusters |-> NoAccounting]
  /\ search \in [filter : Filters, pending : {FALSE}]
  /\ nodes = [c \in Clusters |-> None] /\ actions = {}
  /\ events = [c \in Clusters |-> FALSE] /\ watch = NoWatch
  /\ flight = {} /\ fails = 0
  /\ past = [info |-> None, stray |-> FALSE, broken |-> {}, order |-> [c \in Clusters |-> "kept"],
             silent |-> FALSE, action |-> FALSE, rival |-> FALSE, lost |-> FALSE,
             filter |-> [c \in Clusters |-> None], job |-> [c \in Clusters |-> None]]

Next ==
  \/ \E t \in Tabs : OpenTab(t)
  \/ \E c \in Clusters \cup {None} : Leave(c)
  \/ QueueTick \/ CloseJob
  \/ \E j \in Jobs : SelectJob(j) \/ \E from \in {"table", "modal"} : CancelJob(j, from)
  \/ \E filter \in Filters : Refresh(filter) \/ Type(filter)
  \/ \E j \in Jobs : SelectPastJob(j)
  \/ ClosePastJob \/ InstancesTick \/ EventsTick \/ RefreshEvents
  \/ \E a \in {"stop", "start"} : ActOnHeadNode(a)
  \/ \E c \in Clusters, i \in Infos : Described(c, i)
  \/ Locate
  \/ \E f \in flight : Serve(f) \/ Fail(f) \/ Receive(f)

Spec == Init /\ [][Next]_vars

-----------------------------------------------------------------------------
(* Properties.                                                             *)

\* Every variable has the shape the store and the tabs give it.
TypeOK ==
  /\ machines \in [Clusters -> [live : SUBSET Jobs, node : Power]]
  /\ located \in BOOLEAN /\ info \in [Clusters -> Infos]
  /\ view \in [cluster : Clusters \cup {None}, tab : Tabs]
  /\ queue \in [Clusters -> {None} \cup SUBSET Jobs]
  /\ modal \in [open : BOOLEAN,
                data : {None} \cup [of : Clusters, job : Jobs, live : BOOLEAN]]
  /\ stopping \subseteq Jobs /\ actions \subseteq {"stop", "start"}
  /\ accounting \in [Clusters -> [list : Filters \cup {None}, dialog : BOOLEAN,
                                  selectedJob : Jobs \cup {None}, known : SUBSET Jobs]]
  /\ search \in [filter : Filters, pending : BOOLEAN]
  /\ nodes \in [Clusters -> Power \cup {None}] /\ events \in [Clusters -> BOOLEAN]
  /\ watch \in [of : Clusters \cup {None}, creating : BOOLEAN]
  /\ flight \subseteq Request /\ fails \in 0..MaxFails

\* A Stop Job button that turns has its cancellation, or the refresh of the
\* queue that ends it, under way, unless one of the two failed or could not be
\* asked (cancelJob, Scheduling.tsx: then it turns for good).  So for the buttons
\* of the head node (Instances.tsx), until the tab is left.
SpinnersHaveCause ==
  /\ \A j \in stopping :
       j \in past.broken \/ \E f \in InFlight({"cancel", "queue"}) : f.job = j
  /\ actions # {} => past.action \/ \E f \in flight : f.for = "button"

\* The window of a job shows the job that was selected, of the selected cluster,
\* unless the answer for a job selected before came later, or the window was
\* left open while another cluster was selected.
WindowShowsSelection ==
  view.tab = "scheduling" /\ modal.open /\ modal.data # None /\ ~past.stray
    => modal.data.of = view.cluster /\ modal.data.job = past.info.job

\* Stop Job cancels on the head node of the cluster whose job the user saw, with
\* the same two exceptions.
StopsWhatIsShown == \A f \in InFlight({"cancel"}) : f.shown \in {None, f.of}

\* Accounting waits for an answer only while one can come: a request is under
\* way, or one failed without a response or was never sent (no head node yet).
AccountingHasCause ==
  search.pending => InFlight(Accounts) # {} \/ past.silent

\* The jobs listed are of the filter asked last, and the window shows the job
\* selected last, unless requests of the cluster overlapped (then any of them may
\* be the one shown) and no list asked alone was answered since.
AccountingInStep ==
  \A c \in Clusters : past.order[c] = "kept" =>
    /\ accounting[c].list \in {None, past.filter[c]}
    /\ accounting[c].dialog => accounting[c].selectedJob \in {None, past.job[c]}

\* When the button of the head node stops turning the table shows what the
\* action brought about, the refresh that ends it having been asked after it,
\* unless an action asked before was still under way.
ActionShowsOutcome ==
  [][\A a \in {"stop", "start"} :
       (actions = {a} /\ actions' = {} /\ view' = view /\ ~past.rival)
         => nodes'[view.cluster] = IF a = "stop" THEN "down" ELSE "up"]_vars

\* Stack events that are not there are on their way, or their request failed: the
\* tab then shows no button to ask again.
EventsOnTheirWay ==
  view.tab = "events" =>
    \/ events[view.cluster] \/ past.lost
    \/ \E f \in InFlight({"events"}) : f.of = view.cluster

\* What waits, waits for an answer that can come: a button, Accounting, the stack
\* events; requests that fail, or cannot be sent, are the only exceptions.
WaitsHaveCauses == SpinnersHaveCause /\ AccountingHasCause /\ EventsOnTheirWay

\* The tabs show what was asked of the cluster selected: the window of a job, the
\* job Stop Job cancels, the list of Accounting and its window, though each takes
\* the answer that comes last.
TabsShowWhatWasAsked ==
  TypeOK /\ WindowShowsSelection /\ StopsWhatIsShown /\ AccountingInStep
=============================================================================
