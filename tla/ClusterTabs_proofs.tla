-------------------------- MODULE ClusterTabs_proofs --------------------------
(***************************************************************************)
(* Theorems about ClusterTabs, for every set of clusters, jobs and filters  *)
(* and every number of requests under way and of failures.  First the kinds *)
(* of the variables, of history and of the requests; then what each waiting  *)
(* tab waits for, and what it shows.                                        *)
(***************************************************************************)
EXTENDS ClusterTabs, TLAPS

-----------------------------------------------------------------------------
(* The kinds.                                                              *)

Pasts == [info : {None} \cup [of : Clusters, job : Jobs], stray : BOOLEAN,
          broken : SUBSET Jobs, order : [Clusters -> {"kept", "mixed", "asked"}],
          silent : BOOLEAN, action : BOOLEAN, rival : BOOLEAN, lost : BOOLEAN,
          filter : [Clusters -> Filters \cup {None}], job : [Clusters -> Jobs \cup {None}]]

NoAnswer == {None, Error, Silent}

\* What a request carries, and what answers it, by its command.
RequestFits(f) ==
  /\ f \in Request
  /\ f.cmd = "list" => f.for \in Filters
  /\ f.cmd \in {"job", "info"} => f.job \in Jobs /\ f.for = None
  /\ f.cmd = "cancel" => f.job \in Jobs /\ f.for \in {"table", "modal"}
  /\ f.cmd = "queue" => \/ f.job = None /\ f.for = None
                        \/ f.job \in Jobs /\ f.for \in {"table", "modal"}
  /\ f.cmd = "ec2" => f.job \in {"stop", "start"} /\ f.for \in {None, "button"}
  /\ f.cmd = "nodes" => f.job = None /\ f.for \in {None, "button"}
  /\ f.cmd = "events" => f.job = None /\ f.for = None
  /\ f.cmd \in {"queue", "info"} => f.answer \in NoAnswer \cup SUBSET Jobs
  /\ f.cmd = "nodes" => f.answer \in NoAnswer \cup {{n} : n \in Power}

\* A tab is open of a cluster, and so is the timer; the buttons of the head node are
\* on their tab.
ViewFits == /\ view.tab # "details" => view.cluster # None
            /\ actions # {} => view.tab = "instances"
            /\ watch.creating => watch.of # None

Kinds == TypeOK /\ past \in Pasts /\ (\A f \in flight : RequestFits(f)) /\ ViewFits

-----------------------------------------------------------------------------
(* Requests.                                                               *)

\* Two requests that differ in their answer, or in a button that went away.
Alike(f, g) == /\ g.cmd = f.cmd /\ g.of = f.of /\ g.job = f.job /\ g.shown = f.shown
               /\ g.for = f.for \/ (f.for = "button" /\ g.for = None)

LEMMA AskFields ==
  ASSUME NEW cmd, NEW c, NEW j, NEW for
  PROVE  LET f == Ask(cmd, c, j, for) IN
         /\ f.cmd = cmd /\ f.of = c /\ f.job = j /\ f.for = for
         /\ f.shown = None /\ f.answer = None
BY DEF Ask

LEMMA AskFits ==
  ASSUME NEW c \in Clusters
  PROVE  /\ RequestFits(Ask("queue", c, None, None))
         /\ \A j \in Jobs : RequestFits(Ask("info", c, j, None)) /\ RequestFits(Ask("job", c, j, None))
         /\ \A j \in Jobs, for \in {"table", "modal"} : RequestFits(Ask("queue", c, j, for))
         /\ \A filter \in Filters : RequestFits(Ask("list", c, None, filter))
         /\ \A for \in {None, "button"} : /\ RequestFits(Ask("nodes", c, None, for))
                                          /\ \A a \in {"stop", "start"} : RequestFits(Ask("ec2", c, a, for))
         /\ RequestFits(Ask("events", c, None, None))
<1>1. ASSUME NEW j \in Jobs, NEW for \in {None, "table", "modal"},
             NEW cmd \in {"queue", "info", "job", "events"}
      PROVE  Ask(cmd, c, j, for) \in Request
  BY <1>1 DEF Ask, Request, Accounts
<1>2. ASSUME NEW j \in {None, "stop", "start"}, NEW for \in {None, "button"} \cup Filters,
             NEW cmd \in {"queue", "ec2", "nodes", "events", "list"}
      PROVE  Ask(cmd, c, j, for) \in Request
  BY <1>2 DEF Ask, Request, Accounts
<1>3. RequestFits(Ask("queue", c, None, None))
  BY <1>2, AskFields DEF RequestFits, NoAnswer
<1>4. ASSUME NEW j \in Jobs
      PROVE  RequestFits(Ask("info", c, j, None)) /\ RequestFits(Ask("job", c, j, None))
  BY <1>1, AskFields DEF RequestFits, NoAnswer
<1>5. ASSUME NEW j \in Jobs, NEW for \in {"table", "modal"} PROVE RequestFits(Ask("queue", c, j, for))
  BY <1>1, AskFields DEF RequestFits, NoAnswer
<1>6. ASSUME NEW filter \in Filters PROVE RequestFits(Ask("list", c, None, filter))
  BY <1>2, AskFields DEF RequestFits, NoAnswer
<1>7. ASSUME NEW for \in {None, "button"}
      PROVE  /\ RequestFits(Ask("nodes", c, None, for))
             /\ \A a \in {"stop", "start"} : RequestFits(Ask("ec2", c, a, for))
  BY <1>2, AskFields DEF RequestFits, NoAnswer
<1>8. RequestFits(Ask("events", c, None, None))
  BY <1>2, AskFields DEF RequestFits, NoAnswer
<1>9. QED
  BY <1>3, <1>4, <1>5, <1>6, <1>7, <1>8

\* Requests whose button went away are alike to those there were.
LEMMA OrphanedFields ==
  ASSUME Kinds
  PROVE  /\ \A g \in Orphaned : /\ RequestFits(g) /\ g.for # "button"
                                /\ \E f \in flight : Alike(f, g) /\ g.answer = f.answer
         /\ \A f \in flight : \E g \in Orphaned : Alike(f, g) /\ g.answer = f.answer
<1> DEFINE Lone(f) == IF f.for = "button" THEN [f EXCEPT !.for = None] ELSE f
<1>0. None # "button"
  BY TabsAssumption
<1>1. ASSUME NEW f \in flight
      PROVE  /\ RequestFits(Lone(f)) /\ Lone(f).for # "button"
             /\ Alike(f, Lone(f)) /\ Lone(f).answer = f.answer
  <2>1. RequestFits(f) /\ f \in Request
    BY DEF Kinds, RequestFits
  <2>2. CASE f.for = "button"
    <3> DEFINE g == [f EXCEPT !.for = None]
    <3>1. /\ g \in Request /\ g.cmd = f.cmd /\ g.of = f.of /\ g.job = f.job /\ g.shown = f.shown
          /\ g.answer = f.answer /\ g.for = None
      BY <2>1 DEF Request
    <3> HIDE DEF g
    <3>2. f.cmd \in {"ec2", "nodes"}
      BY <1>0, <2>1, <2>2, TabsAssumption DEF RequestFits, Request, Accounts
    <3>3. RequestFits(g)
      BY <2>1, <3>1, <3>2 DEF RequestFits
    <3>4. QED
      BY <1>0, <2>2, <3>1, <3>3 DEF Alike, g
  <2>3. CASE f.for # "button"
    BY <2>1, <2>3 DEF Alike
  <2>4. QED
    BY <2>2, <2>3
<1>2. Orphaned = {Lone(f) : f \in flight}
  BY DEF Orphaned
<1> HIDE DEF Lone
<1>3. QED
  BY <1>1, <1>2

\* A request with an answer is that request, answered.
LEMMA AnsweredFields ==
  ASSUME Kinds, NEW f \in flight, NEW a
  PROVE  LET g == [f EXCEPT !.answer = a] IN Alike(f, g) /\ g.answer = a /\ g.for = f.for
<1>1. f \in Request
  BY DEF Kinds, RequestFits
<1>2. QED
  BY <1>1 DEF Request, Alike

LEMMA KindFields ==
  ASSUME Kinds
  PROVE  /\ machines \in [Clusters -> [live : SUBSET Jobs, node : Power]]
         /\ located \in BOOLEAN /\ info \in [Clusters -> Infos]
         /\ view \in [cluster : Clusters \cup {None}, tab : Tabs]
         /\ view.cluster \in Clusters \cup {None} /\ view.tab \in Tabs
         /\ queue \in [Clusters -> {None} \cup SUBSET Jobs]
         /\ modal \in [open : BOOLEAN,
                       data : {None} \cup [of : Clusters, job : Jobs, live : BOOLEAN]]
         /\ modal.open \in BOOLEAN
         /\ modal.data \in {None} \cup [of : Clusters, job : Jobs, live : BOOLEAN]
         /\ stopping \subseteq Jobs /\ actions \subseteq {"stop", "start"}
         /\ accounting \in [Clusters -> [list : Filters \cup {None}, dialog : BOOLEAN,
                                         selectedJob : Jobs \cup {None}, known : SUBSET Jobs]]
         /\ search \in [filter : Filters, pending : BOOLEAN]
         /\ search.filter \in Filters /\ search.pending \in BOOLEAN
         /\ nodes \in [Clusters -> Power \cup {None}] /\ events \in [Clusters -> BOOLEAN]
         /\ watch \in [of : Clusters \cup {None}, creating : BOOLEAN]
         /\ flight \subseteq Request /\ fails \in 0..MaxFails
         /\ past \in Pasts /\ (\A f \in flight : RequestFits(f)) /\ ViewFits
BY DEF Kinds, TypeOK

\* What a step must show of the kinds.
LEMMA KindsStep ==
  ASSUME machines' \in [Clusters -> [live : SUBSET Jobs, node : Power]],
         located' \in BOOLEAN, info' \in [Clusters -> Infos],
         view' \in [cluster : Clusters \cup {None}, tab : Tabs],
         queue' \in [Clusters -> {None} \cup SUBSET Jobs],
         modal' \in [open : BOOLEAN,
                     data : {None} \cup [of : Clusters, job : Jobs, live : BOOLEAN]],
         stopping' \subseteq Jobs, actions' \subseteq {"stop", "start"},
         accounting' \in [Clusters -> [list : Filters \cup {None}, dialog : BOOLEAN,
                                       selectedJob : Jobs \cup {None}, known : SUBSET Jobs]],
         search' \in [filter : Filters, pending : BOOLEAN],
         nodes' \in [Clusters -> Power \cup {None}], events' \in [Clusters -> BOOLEAN],
         watch' \in [of : Clusters \cup {None}, creating : BOOLEAN],
         fails' \in 0..MaxFails, past' \in Pasts, \A f \in flight' : RequestFits(f), ViewFits'
  PROVE  Kinds'
<1>1. flight' \subseteq Request
  BY DEF RequestFits
<1>2. QED
  BY <1>1 DEF Kinds, TypeOK, Infos, Tabs, Power, Request

LEMMA PastFields ==
  ASSUME past \in Pasts
  PROVE  /\ past.info \in {None} \cup [of : Clusters, job : Jobs] /\ past.stray \in BOOLEAN
         /\ past.broken \subseteq Jobs /\ past.order \in [Clusters -> {"kept", "mixed", "asked"}]
         /\ past.silent \in BOOLEAN /\ past.action \in BOOLEAN /\ past.rival \in BOOLEAN
         /\ past.lost \in BOOLEAN /\ past.filter \in [Clusters -> Filters \cup {None}]
         /\ past.job \in [Clusters -> Jobs \cup {None}]
BY DEF Pasts

LEMMA RefreshQueuesFits ==
  ASSUME Kinds, NEW j, NEW for,
         (j = None /\ for = None) \/ (j \in Jobs /\ for \in {"table", "modal"})
  PROVE  \A f \in RefreshQueues(j, for) :
           /\ RequestFits(f) /\ f.cmd = "queue" /\ f.of = view.cluster
           /\ f.job = j /\ f.for = for
<1>1. view.cluster \in Clusters \cup {None}
  BY KindFields
<1>2. \A f \in RefreshQueues(j, for) : f = Ask("queue", view.cluster, j, for) /\ HasHead(view.cluster)
  BY DEF RefreshQueues
<1>3. HasHead(view.cluster) => view.cluster \in Clusters
  BY <1>1 DEF HasHead
<1>4. QED
  BY <1>2, <1>3, AskFits, AskFields

\* Asking for the list of the accounting of c.
LEMMA ListAccountingFields ==
  ASSUME Kinds, NEW c \in Clusters, NEW filter \in Filters, ListAccounting(c, filter)
  PROVE  /\ accounting' = [accounting EXCEPT ![c].list = None]
         /\ accounting' \in [Clusters -> [list : Filters \cup {None}, dialog : BOOLEAN,
                                          selectedJob : Jobs \cup {None}, known : SUBSET Jobs]]
         /\ search' \in [filter : Filters, pending : BOOLEAN] /\ search'.pending = TRUE
         /\ flight \subseteq flight'
         /\ HasHead(c) => Ask("list", c, None, filter) \in flight'
         /\ \A g \in flight' \ flight : g = Ask("list", c, None, filter)
         /\ \A g \in flight' : RequestFits(g)
         /\ past' \in Pasts /\ past'.silent = (past.silent \/ ~HasHead(c))
         /\ past'.filter = [past.filter EXCEPT ![c] = filter]
         /\ past'.order = [past.order EXCEPT ![c] = IF Accounting(c) # {} THEN "mixed"
                                                    ELSE IF @ = "mixed" THEN "asked" ELSE @]
         /\ past'.info = past.info /\ past'.stray = past.stray /\ past'.broken = past.broken
         /\ past'.action = past.action /\ past'.rival = past.rival /\ past'.lost = past.lost
         /\ past'.job = past.job
<1>0. /\ accounting \in [Clusters -> [list : Filters \cup {None}, dialog : BOOLEAN,
                                      selectedJob : Jobs \cup {None}, known : SUBSET Jobs]]
      /\ past \in Pasts /\ \A f \in flight : RequestFits(f)
  BY KindFields
<1> DEFINE o == [past.order EXCEPT ![c] = IF Accounting(c) # {} THEN "mixed"
                                          ELSE IF @ = "mixed" THEN "asked" ELSE @]
           s == past.silent \/ ~HasHead(c)
           n == [past.filter EXCEPT ![c] = filter]
<1>1. /\ o \in [Clusters -> {"kept", "mixed", "asked"}] /\ s \in BOOLEAN
      /\ n \in [Clusters -> Filters \cup {None}]
  BY <1>0, PastFields
<1>2. past' = [past EXCEPT !.filter = n, !.silent = s, !.order = o]
  BY <1>0 DEF ListAccounting, Pasts
<1> HIDE DEF o, s, n
<1>3. /\ past' \in Pasts /\ past'.silent = s /\ past'.filter = n /\ past'.order = o
      /\ past'.info = past.info /\ past'.stray = past.stray /\ past'.broken = past.broken
      /\ past'.action = past.action /\ past'.rival = past.rival /\ past'.lost = past.lost
      /\ past'.job = past.job
  BY <1>0, <1>1, <1>2 DEF Pasts
<1>4. /\ accounting' = [accounting EXCEPT ![c].list = None]
      /\ search' = [filter |-> filter, pending |-> TRUE]
      /\ flight' = flight \cup IF HasHead(c) THEN {Ask("list", c, None, filter)} ELSE {}
  BY DEF ListAccounting
<1>5. accounting' \in [Clusters -> [list : Filters \cup {None}, dialog : BOOLEAN,
                                    selectedJob : Jobs \cup {None}, known : SUBSET Jobs]]
  BY <1>0, <1>4
<1>6. /\ flight \subseteq flight'
      /\ HasHead(c) => Ask("list", c, None, filter) \in flight'
      /\ \A g \in flight' \ flight : g = Ask("list", c, None, filter)
  BY <1>4
<1>7. \A g \in flight' : RequestFits(g)
  BY <1>0, <1>6, AskFits
<1>8. QED
  BY <1>3, <1>4, <1>5, <1>6, <1>7 DEF o, s, n

\* What mounting each of the tabs does.
LEMMA MountCases ==
  ASSUME NEW t \in Tabs, t # "details", Mount(t)
  PROVE  \/ /\ t = "scheduling" /\ flight' = flight \cup RefreshQueues(None, None)
            /\ UNCHANGED <<accounting, search, actions, watch, past>>
         \/ /\ t = "accounting" /\ ListAccounting(view.cluster, search.filter)
            /\ UNCHANGED <<actions, watch>>
         \/ /\ t = "instances"
            /\ flight' = Orphaned \cup {Ask("nodes", view.cluster, None, None)}
            /\ actions' = {} /\ past' = [past EXCEPT !.action = FALSE]
            /\ UNCHANGED <<accounting, search, watch>>
         \/ /\ t = "events" /\ flight' = flight \cup {Ask("events", view.cluster, None, None)}
            /\ watch' = [of |-> view.cluster, creating |-> info[view.cluster] \in {"creating", "started"}]
            /\ past' = [past EXCEPT !.lost = FALSE]
            /\ UNCHANGED <<accounting, search, actions>>
<1>1. CASE t = "scheduling"
  BY <1>1 DEF Mount, accountVars
<1>2. CASE t = "accounting"
  BY <1>2 DEF Mount
<1>3. CASE t = "instances"
  BY <1>3 DEF Mount, accountVars
<1>4. CASE t = "events"
  BY <1>4 DEF Mount, accountVars
<1>5. QED
  BY <1>1, <1>2, <1>3, <1>4 DEF Tabs

\* A step that leaves the kinds of all but the named variables alone.
LEMMA UnchangedKinds ==
  ASSUME Kinds
  PROVE  /\ UNCHANGED machines => machines' \in [Clusters -> [live : SUBSET Jobs, node : Power]]
         /\ UNCHANGED located => located' \in BOOLEAN
         /\ UNCHANGED info => info' \in [Clusters -> Infos]
         /\ UNCHANGED view => view' \in [cluster : Clusters \cup {None}, tab : Tabs]
         /\ UNCHANGED queue => queue' \in [Clusters -> {None} \cup SUBSET Jobs]
         /\ UNCHANGED modal => modal' \in [open : BOOLEAN,
                     data : {None} \cup [of : Clusters, job : Jobs, live : BOOLEAN]]
         /\ UNCHANGED stopping => stopping' \subseteq Jobs
         /\ UNCHANGED actions => actions' \subseteq {"stop", "start"}
         /\ UNCHANGED accounting =>
              accounting' \in [Clusters -> [list : Filters \cup {None}, dialog : BOOLEAN,
                                            selectedJob : Jobs \cup {None}, known : SUBSET Jobs]]
         /\ UNCHANGED search => search' \in [filter : Filters, pending : BOOLEAN]
         /\ UNCHANGED nodes => nodes' \in [Clusters -> Power \cup {None}]
         /\ UNCHANGED events => events' \in [Clusters -> BOOLEAN]
         /\ UNCHANGED watch => watch' \in [of : Clusters \cup {None}, creating : BOOLEAN]
         /\ UNCHANGED flight => \A f \in flight' : RequestFits(f)
         /\ UNCHANGED fails => fails' \in 0..MaxFails
         /\ UNCHANGED past => past' \in Pasts
         /\ UNCHANGED <<view, actions, watch>> => ViewFits'
BY KindFields DEF ViewFits

LEMMA OpenTabKinds ==
  ASSUME Kinds, NEW t \in Tabs, OpenTab(t)
  PROVE  Kinds'
<1>0. /\ view.cluster \in Clusters /\ t # "details" /\ view' = [view EXCEPT !.tab = t]
      /\ view \in [cluster : Clusters \cup {None}, tab : Tabs]
      /\ view.tab = "details" /\ Mount(t)
      /\ \A f \in flight : RequestFits(f)
      /\ past \in Pasts /\ search.filter \in Filters /\ actions = {} /\ info \in [Clusters -> Infos]
      /\ watch.creating => watch.of # None
      /\ UNCHANGED <<machines, located, info, queue, modal, stopping, nodes, events, fails>>
  BY KindFields DEF OpenTab, cloudVars, jobVars, ViewFits
<1>1. view' \in [cluster : Clusters \cup {None}, tab : Tabs] /\ view'.tab = t
      /\ view'.cluster = view.cluster
  BY <1>0
<1>2. view'.tab # "details" => view'.cluster # None
  BY <1>0, <1>1, TabsAssumption
<1>3. ASSUME t = "scheduling", flight' = flight \cup RefreshQueues(None, None),
             UNCHANGED <<accounting, search, actions, watch, past>>
      PROVE  Kinds'
  <2>1. \A f \in flight' : RequestFits(f)
    BY <1>0, <1>3, RefreshQueuesFits
  <2>2. ViewFits'
    BY <1>0, <1>2, <1>3 DEF ViewFits
  <2>3. QED
    BY <1>0, <1>1, <1>3, <2>1, <2>2, UnchangedKinds, KindsStep
<1>4. ASSUME ListAccounting(view.cluster, search.filter), UNCHANGED <<actions, watch>>
      PROVE  Kinds'
  <2>1. ViewFits'
    BY <1>0, <1>2, <1>4 DEF ViewFits
  <2>2. /\ accounting' \in [Clusters -> [list : Filters \cup {None}, dialog : BOOLEAN,
                                         selectedJob : Jobs \cup {None}, known : SUBSET Jobs]]
        /\ search' \in [filter : Filters, pending : BOOLEAN]
        /\ \A g \in flight' : RequestFits(g)
        /\ past' \in Pasts
    BY <1>0, <1>4, ListAccountingFields
  <2>3. QED
    BY <1>0, <1>1, <1>4, <2>1, <2>2, UnchangedKinds, KindsStep
<1>5. ASSUME flight' = Orphaned \cup {Ask("nodes", view.cluster, None, None)},
             actions' = {}, past' = [past EXCEPT !.action = FALSE],
             UNCHANGED <<accounting, search, watch>>
      PROVE  Kinds'
  <2>1. \A f \in flight' : RequestFits(f)
    BY <1>0, <1>5, OrphanedFields, AskFits
  <2>2. ViewFits'
    BY <1>0, <1>2, <1>5 DEF ViewFits
  <2>3. past' \in Pasts /\ actions' \subseteq {"stop", "start"}
    BY <1>0, <1>5 DEF Pasts
  <2>4. QED
    BY <1>0, <1>1, <1>5, <2>1, <2>2, <2>3, UnchangedKinds, KindsStep
<1>6. ASSUME flight' = flight \cup {Ask("events", view.cluster, None, None)},
             watch' = [of |-> view.cluster, creating |-> info[view.cluster] \in {"creating", "started"}],
             past' = [past EXCEPT !.lost = FALSE],
             UNCHANGED <<accounting, search, actions>>
      PROVE  Kinds'
  <2>1. \A f \in flight' : RequestFits(f)
    BY <1>0, <1>6, AskFits
  <2>2. ViewFits'
    BY <1>0, <1>2, <1>6, TabsAssumption DEF ViewFits
  <2>3. past' \in Pasts
    BY <1>0, <1>6 DEF Pasts
  <2>4. watch' \in [of : Clusters \cup {None}, creating : BOOLEAN]
    BY <1>0, <1>6
  <2>5. QED
    BY <1>0, <1>1, <1>6, <2>1, <2>2, <2>3, <2>4, UnchangedKinds, KindsStep
<1>7. QED
  BY <1>0, <1>3, <1>4, <1>5, <1>6, MountCases

LEMMA UseKinds ==
  ASSUME Kinds,
         \/ \E c \in Clusters \cup {None} : Leave(c)
         \/ QueueTick \/ CloseJob
         \/ \E filter \in Filters : Refresh(filter) \/ Type(filter)
         \/ ClosePastJob \/ InstancesTick \/ EventsTick \/ RefreshEvents
  PROVE  Kinds'
<1>0. /\ view \in [cluster : Clusters \cup {None}, tab : Tabs]
      /\ view.cluster \in Clusters \cup {None} /\ view.tab \in Tabs
      /\ view.tab # "details" => view.cluster \in Clusters
      /\ watch.creating => watch.of \in Clusters
      /\ modal \in [open : BOOLEAN,
                    data : {None} \cup [of : Clusters, job : Jobs, live : BOOLEAN]]
      /\ accounting \in [Clusters -> [list : Filters \cup {None}, dialog : BOOLEAN,
                                      selectedJob : Jobs \cup {None}, known : SUBSET Jobs]]
      /\ search \in [filter : Filters, pending : BOOLEAN]
      /\ events \in [Clusters -> BOOLEAN]
      /\ watch \in [of : Clusters \cup {None}, creating : BOOLEAN]
      /\ past \in Pasts /\ (\A f \in flight : RequestFits(f))
  BY KindFields DEF ViewFits
<1>1. ASSUME NEW c \in Clusters \cup {None}, Leave(c) PROVE Kinds'
  <2>1. /\ view' = [cluster |-> c, tab |-> "details"] /\ watch' = NoWatch
        /\ flight' = Orphaned /\ actions' = {}
        /\ past' = [past EXCEPT !.stray = @ \/ (modal.open /\ c # view.cluster)]
        /\ UNCHANGED <<machines, located, info, queue, modal, stopping, accounting, search,
                       nodes, events, fails>>
    BY <1>1 DEF Leave, cloudVars, jobVars, accountVars
  <2>2. past' \in Pasts
    <3> DEFINE stray == past.stray \/ (modal.open /\ c # view.cluster)
    <3>1. stray \in BOOLEAN /\ past' = [past EXCEPT !.stray = stray]
      BY <1>0, <2>1, PastFields DEF Pasts
    <3> HIDE DEF stray
    <3>2. QED
      BY <1>0, <3>1 DEF Pasts
  <2>3. /\ view' \in [cluster : Clusters \cup {None}, tab : Tabs]
        /\ watch' \in [of : Clusters \cup {None}, creating : BOOLEAN]
    BY <2>1 DEF Tabs, NoWatch
  <2>4. ViewFits' /\ (\A f \in flight' : RequestFits(f)) /\ actions' \subseteq {"stop", "start"}
    BY <2>1, OrphanedFields DEF ViewFits, NoWatch
  <2>5. QED
    BY <2>1, <2>2, <2>3, <2>4, UnchangedKinds, KindsStep
<1>2. ASSUME QueueTick PROVE Kinds'
  <2>1. /\ flight' = flight \cup RefreshQueues(None, None)
        /\ UNCHANGED <<machines, located, info, view, queue, modal, stopping, accounting, search,
                       nodes, actions, events, watch, fails, past>>
    BY <1>2 DEF QueueTick, cloudVars, jobVars, accountVars, instanceVars, eventVars
  <2>2. \A f \in flight' : RequestFits(f)
    BY <1>0, <2>1, RefreshQueuesFits
  <2>3. QED
    BY <2>1, <2>2, UnchangedKinds, KindsStep
<1>3. ASSUME CloseJob PROVE Kinds'
  <2>1. /\ modal' = [modal EXCEPT !.open = FALSE]
        /\ UNCHANGED <<machines, located, info, view, queue, stopping, accounting, search,
                       nodes, actions, events, watch, flight, fails, past>>
    BY <1>3 DEF CloseJob, cloudVars, accountVars, instanceVars, eventVars
  <2>2. modal' \in [open : BOOLEAN,
                    data : {None} \cup [of : Clusters, job : Jobs, live : BOOLEAN]]
    BY <1>0, <2>1
  <2>3. QED
    BY <2>1, <2>2, UnchangedKinds, KindsStep
<1>4. ASSUME NEW filter \in Filters, Refresh(filter) PROVE Kinds'
  <2>1. /\ view.cluster \in Clusters /\ ListAccounting(view.cluster, filter)
        /\ UNCHANGED <<machines, located, info, view, queue, modal, stopping,
                       nodes, actions, events, watch, fails>>
    BY <1>0, <1>4 DEF Refresh, cloudVars, jobVars, instanceVars, eventVars
  <2>2. /\ accounting' \in [Clusters -> [list : Filters \cup {None}, dialog : BOOLEAN,
                                         selectedJob : Jobs \cup {None}, known : SUBSET Jobs]]
        /\ search' \in [filter : Filters, pending : BOOLEAN]
        /\ \A g \in flight' : RequestFits(g)
        /\ past' \in Pasts
    BY <2>1, ListAccountingFields
  <2>3. QED
    BY <2>1, <2>2, UnchangedKinds, KindsStep
<1>5. ASSUME NEW filter \in Filters, Type(filter) PROVE Kinds'
  <2>1. /\ search' = [search EXCEPT !.filter = filter]
        /\ UNCHANGED <<machines, located, info, view, queue, modal, stopping, accounting,
                       nodes, actions, events, watch, flight, fails, past>>
    BY <1>5 DEF Type, cloudVars, jobVars, instanceVars, eventVars
  <2>2. search' \in [filter : Filters, pending : BOOLEAN]
    BY <1>0, <2>1
  <2>3. QED
    BY <2>1, <2>2, UnchangedKinds, KindsStep
<1>6. ASSUME ClosePastJob PROVE Kinds'
  <2>1. /\ view.cluster \in Clusters
        /\ accounting' = [accounting EXCEPT ![view.cluster].dialog = FALSE]
        /\ UNCHANGED <<machines, located, info, view, queue, modal, stopping, search,
                       nodes, actions, events, watch, flight, fails, past>>
    BY <1>0, <1>6 DEF ClosePastJob, cloudVars, jobVars, instanceVars, eventVars
  <2>2. accounting' \in [Clusters -> [list : Filters \cup {None}, dialog : BOOLEAN,
                                      selectedJob : Jobs \cup {None}, known : SUBSET Jobs]]
    <3> DEFINE r == [accounting[view.cluster] EXCEPT !.dialog = FALSE]
    <3>0. accounting[view.cluster] \in [list : Filters \cup {None}, dialog : BOOLEAN,
                                         selectedJob : Jobs \cup {None}, known : SUBSET Jobs]
      BY <1>0, <2>1
    <3>1. r \in [list : Filters \cup {None}, dialog : BOOLEAN,
                 selectedJob : Jobs \cup {None}, known : SUBSET Jobs]
      BY <3>0
    <3>2. accounting' = [accounting EXCEPT ![view.cluster] = r]
      BY <1>0, <2>1
    <3> HIDE DEF r
    <3>3. QED
      BY <1>0, <3>1, <3>2
  <2>3. QED
    BY <2>1, <2>2, UnchangedKinds, KindsStep
<1>7. ASSUME InstancesTick PROVE Kinds'
  <2>1. /\ view.cluster \in Clusters
        /\ flight' = flight \cup {Ask("nodes", view.cluster, None, None)}
        /\ UNCHANGED <<machines, located, info, view, queue, modal, stopping, accounting, search,
                       nodes, actions, events, watch, fails, past>>
    BY <1>0, <1>7 DEF InstancesTick, cloudVars, jobVars, accountVars, instanceVars, eventVars
  <2>2. \A f \in flight' : RequestFits(f)
    BY <1>0, <2>1, AskFits
  <2>3. QED
    BY <2>1, <2>2, UnchangedKinds, KindsStep
<1>8. ASSUME EventsTick PROVE Kinds'
  <2>1. /\ \/ /\ watch.creating /\ UNCHANGED watch
              /\ flight' = flight \cup {Ask("events", watch.of, None, None)}
           \/ watch' = NoWatch /\ UNCHANGED flight
        /\ UNCHANGED <<machines, located, info, view, queue, modal, stopping, accounting, search,
                       nodes, actions, events, fails, past>>
    BY <1>8 DEF EventsTick, cloudVars, jobVars, accountVars, instanceVars
  <2>2. \A f \in flight' : RequestFits(f)
    BY <1>0, <2>1, AskFits
  <2>3. watch' \in [of : Clusters \cup {None}, creating : BOOLEAN]
    <3>1. NoWatch \in [of : Clusters \cup {None}, creating : BOOLEAN]
      BY DEF NoWatch
    <3>2. QED
      BY <1>0, <2>1, <3>1
  <2>4. ViewFits'
    BY <1>0, <2>1, KindFields DEF ViewFits, NoWatch
  <2>5. QED
    BY <2>1, <2>2, <2>3, <2>4, UnchangedKinds, KindsStep
<1>9. ASSUME RefreshEvents PROVE Kinds'
  <2>1. /\ view.cluster \in Clusters
        /\ events' = [events EXCEPT ![view.cluster] = FALSE]
        /\ flight' = flight \cup {Ask("events", view.cluster, None, None)}
        /\ past' = [past EXCEPT !.lost = FALSE]
        /\ UNCHANGED <<machines, located, info, view, queue, modal, stopping, accounting, search,
                       nodes, actions, watch, fails>>
    BY <1>0, <1>9 DEF RefreshEvents, cloudVars, jobVars, accountVars, instanceVars
  <2>2. /\ \A f \in flight' : RequestFits(f)
        /\ past' \in Pasts /\ events' \in [Clusters -> BOOLEAN]
    BY <1>0, <2>1, AskFits DEF Pasts
  <2>3. QED
    BY <2>1, <2>2, UnchangedKinds, KindsStep
<1>10. QED
  BY <1>1, <1>2, <1>3, <1>4, <1>5, <1>6, <1>7, <1>8, <1>9

LEMMA SelectJobFields ==
  ASSUME Kinds, NEW j \in Jobs, SelectJob(j)
  PROVE  /\ view.cluster \in Clusters
         /\ modal' \in [open : BOOLEAN,
                        data : {None} \cup [of : Clusters, job : Jobs, live : BOOLEAN]]
         /\ modal'.data = None
         /\ \/ /\ modal'.open = TRUE
               /\ flight' = flight \cup {Ask("info", view.cluster, j, None)}
               /\ past' \in Pasts /\ past'.info = [of |-> view.cluster, job |-> j]
               /\ past'.stray = FALSE
               /\ past'.broken = past.broken /\ past'.order = past.order
               /\ past'.silent = past.silent /\ past'.action = past.action
               /\ past'.rival = past.rival /\ past'.lost = past.lost
               /\ past'.filter = past.filter /\ past'.job = past.job
            \/ modal'.open = FALSE /\ UNCHANGED <<flight, past>>
         /\ UNCHANGED <<machines, located, info, view, queue, stopping, accounting, search,
                        nodes, actions, events, watch, fails>>
<1>0. /\ modal \in [open : BOOLEAN,
                    data : {None} \cup [of : Clusters, job : Jobs, live : BOOLEAN]]
      /\ view.cluster \in Clusters \cup {None}
      /\ view.tab # "details" => view.cluster # None
      /\ past \in Pasts
  BY KindFields DEF ViewFits
<1>1. /\ view.tab = "scheduling" /\ modal.open = FALSE
      /\ \/ /\ modal' = [Forget(modal) EXCEPT !.open = TRUE]
            /\ flight' = flight \cup {Ask("info", view.cluster, j, None)}
            /\ past' = [past EXCEPT !.info = [of |-> view.cluster, job |-> j], !.stray = FALSE]
         \/ modal' = Forget(modal) /\ flight' = flight /\ past' = past
      /\ UNCHANGED <<machines, located, info, view, queue, stopping, accounting, search,
                     nodes, actions, events, watch, fails>>
  <2>1. /\ view.tab = "scheduling" /\ modal.open = FALSE
        /\ UNCHANGED <<machines, located, info, view, queue, stopping, accounting, search,
                       nodes, actions, events, watch, fails>>
    BY <1>0 DEF SelectJob, cloudVars, accountVars, instanceVars, eventVars
  <2>2. \/ /\ modal' = [Forget(modal) EXCEPT !.open = TRUE]
           /\ flight' = flight \cup {Ask("info", view.cluster, j, None)}
           /\ past' = [past EXCEPT !.info = [of |-> view.cluster, job |-> j], !.stray = FALSE]
        \/ modal' = Forget(modal) /\ flight' = flight /\ past' = past
    BY DEF SelectJob
  <2>3. QED
    BY <2>1, <2>2
<1>2. /\ Forget(modal) \in [open : BOOLEAN,
                            data : {None} \cup [of : Clusters, job : Jobs, live : BOOLEAN]]
      /\ Forget(modal).open = FALSE /\ Forget(modal).data = None
  BY <1>0, <1>1 DEF Forget
<1>3. view.cluster \in Clusters
  BY <1>0, <1>1
<1>4. ASSUME past' = [past EXCEPT !.info = [of |-> view.cluster, job |-> j], !.stray = FALSE]
      PROVE  /\ past' \in Pasts /\ past'.info = [of |-> view.cluster, job |-> j]
             /\ past'.stray = FALSE
             /\ past'.broken = past.broken /\ past'.order = past.order
             /\ past'.silent = past.silent /\ past'.action = past.action
             /\ past'.rival = past.rival /\ past'.lost = past.lost
             /\ past'.filter = past.filter /\ past'.job = past.job
  <2>1. [of |-> view.cluster, job |-> j] \in {None} \cup [of : Clusters, job : Jobs]
    BY <1>3
  <2>2. QED
    BY <1>0, <1>4, <2>1 DEF Pasts
<1>5. ASSUME modal' = [Forget(modal) EXCEPT !.open = TRUE]
      PROVE  /\ modal' \in [open : BOOLEAN,
                            data : {None} \cup [of : Clusters, job : Jobs, live : BOOLEAN]]
             /\ modal'.open = TRUE /\ modal'.data = None
  BY <1>2, <1>5
<1>6. CASE modal' = Forget(modal) /\ flight' = flight /\ past' = past
  BY <1>1, <1>2, <1>3, <1>6
<1>7. CASE /\ modal' = [Forget(modal) EXCEPT !.open = TRUE]
           /\ flight' = flight \cup {Ask("info", view.cluster, j, None)}
           /\ past' = [past EXCEPT !.info = [of |-> view.cluster, job |-> j], !.stray = FALSE]
  BY <1>1, <1>3, <1>4, <1>5, <1>7
<1>8. QED
  BY <1>1, <1>6, <1>7

\* Stop Job asks for a job of the cluster shown, and from a window for its.
LEMMA CancelJobFields ==
  ASSUME Kinds, NEW j \in Jobs, NEW from \in {"table", "modal"}, CancelJob(j, from)
  PROVE  /\ view.cluster \in Clusters /\ stopping' = stopping \cup {j}
         /\ past' \in Pasts /\ past'.broken = past.broken \ {j}
         /\ past'.info = past.info /\ past'.stray = past.stray /\ past'.order = past.order
         /\ past'.silent = past.silent /\ past'.action = past.action
         /\ past'.rival = past.rival /\ past'.lost = past.lost
         /\ past'.filter = past.filter /\ past'.job = past.job
         /\ \E f : /\ flight' = flight \cup {f} /\ RequestFits(f)
                   /\ f.cmd = "cancel" /\ f.of = view.cluster /\ f.job = j /\ f.for = from
                   /\ \/ f.shown \in {None, view.cluster}
                      \/ modal.open /\ ~past.stray /\ modal.data # None /\ f.shown = modal.data.of
         /\ UNCHANGED <<machines, located, info, view, queue, modal, accounting, search,
                        nodes, actions, events, watch, fails>>
<1>0. /\ modal.open \in BOOLEAN
      /\ modal.data \in {None} \cup [of : Clusters, job : Jobs, live : BOOLEAN]
      /\ view.cluster \in Clusters \cup {None}
      /\ view.tab # "details" => view.cluster # None
      /\ past \in Pasts /\ past.broken \subseteq Jobs
  BY KindFields, PastFields DEF ViewFits
<1> DEFINE shown == IF from = "modal" THEN IF past.stray THEN None ELSE modal.data.of
                    ELSE view.cluster
           a == Ask("cancel", view.cluster, j, from)
           f == [a EXCEPT !.shown = shown]
<1>1. /\ view.tab = "scheduling" /\ modal.open = (from = "modal")
      /\ from = "modal" => modal.data # None
      /\ stopping' = stopping \cup {j} /\ flight' = flight \cup {f}
      /\ past' = [past EXCEPT !.broken = @ \ {j}]
      /\ UNCHANGED <<machines, located, info, view, queue, modal, accounting, search,
                     nodes, actions, events, watch, fails>>
  BY DEF CancelJob, cloudVars, accountVars, instanceVars, eventVars
<1>2. view.cluster \in Clusters
  BY <1>0, <1>1
<1>3. /\ \/ shown \in {None, view.cluster}
         \/ modal.open /\ ~past.stray /\ modal.data # None /\ shown = modal.data.of
      /\ shown \in Clusters \cup {None}
  BY <1>0, <1>1, <1>2
<1> HIDE DEF shown
<1>4. /\ f.cmd = "cancel" /\ f.of = view.cluster /\ f.job = j /\ f.for = from /\ f.shown = shown
      /\ f.answer = None /\ f \in Request
  BY <1>2, <1>3 DEF Ask, Request
<1> HIDE DEF f
<1>5. RequestFits(f)
  BY <1>4 DEF RequestFits
<1>6. /\ past' \in Pasts /\ past'.broken = past.broken \ {j}
      /\ past'.info = past.info /\ past'.stray = past.stray /\ past'.order = past.order
      /\ past'.silent = past.silent /\ past'.action = past.action
      /\ past'.rival = past.rival /\ past'.lost = past.lost
      /\ past'.filter = past.filter /\ past'.job = past.job
  BY <1>0, <1>1 DEF Pasts
<1>7. /\ \E g : /\ flight' = flight \cup {g} /\ RequestFits(g)
                /\ g.cmd = "cancel" /\ g.of = view.cluster /\ g.job = j /\ g.for = from
                /\ \/ g.shown \in {None, view.cluster}
                   \/ modal.open /\ ~past.stray /\ modal.data # None /\ g.shown = modal.data.of
  BY <1>1, <1>3, <1>4, <1>5
<1>8. QED
  BY <1>1, <1>2, <1>6, <1>7

\* A job of the accounting table is opened, and asked for if there is a head node.
LEMMA SelectPastJobFields ==
  ASSUME Kinds, NEW j \in Jobs, SelectPastJob(j)
  PROVE  LET c == view.cluster IN
         /\ c \in Clusters
         /\ accounting' = [accounting EXCEPT ![c].dialog = TRUE, ![c].selectedJob = None,
                                             ![c].known = @ \ {j}]
         /\ search' = [search EXCEPT !.pending = TRUE]
         /\ flight \subseteq flight'
         /\ HasHead(c) => Ask("job", c, j, None) \in flight'
         /\ \A g \in flight' \ flight : g = Ask("job", c, j, None)
         /\ past' \in Pasts /\ past'.silent = (past.silent \/ ~HasHead(c))
         /\ past'.job = [past.job EXCEPT ![c] = j]
         /\ past'.order = [past.order EXCEPT ![c] = IF Accounting(c) # {} THEN "mixed" ELSE @]
         /\ past'.info = past.info /\ past'.stray = past.stray /\ past'.broken = past.broken
         /\ past'.action = past.action /\ past'.rival = past.rival /\ past'.lost = past.lost
         /\ past'.filter = past.filter
         /\ UNCHANGED <<machines, located, info, view, queue, modal, stopping,
                        nodes, actions, events, watch, fails>>
<1> DEFINE c == view.cluster
           o == [past.order EXCEPT ![c] = IF Accounting(c) # {} THEN "mixed" ELSE @]
           s == past.silent \/ ~HasHead(c)
           n == [past.job EXCEPT ![c] = j]
<1>0. /\ c \in Clusters /\ past \in Pasts
  <2>1. view.tab = "accounting"
    BY DEF SelectPastJob
  <2>2. QED
    BY <2>1, KindFields DEF ViewFits
<1>1. /\ accounting' = [accounting EXCEPT ![c].dialog = TRUE, ![c].selectedJob = None,
                                             ![c].known = @ \ {j}]
      /\ search' = [search EXCEPT !.pending = TRUE]
      /\ flight' = flight \cup IF HasHead(c) THEN {Ask("job", c, j, None)} ELSE {}
      /\ past' = [past EXCEPT !.job[c] = j, !.silent = @ \/ ~HasHead(c),
                              !.order[c] = IF Accounting(c) # {} THEN "mixed" ELSE @]
      /\ UNCHANGED <<machines, located, info, view, queue, modal, stopping,
                     nodes, actions, events, watch, fails>>
  <2>1. accounting' = [accounting EXCEPT ![c].dialog = TRUE, ![c].selectedJob = None,
                                             ![c].known = @ \ {j}]
    BY DEF SelectPastJob
  <2>5. search' = [search EXCEPT !.pending = TRUE]
    BY DEF SelectPastJob
  <2>6. flight' = flight \cup IF HasHead(c) THEN {Ask("job", c, j, None)} ELSE {}
    BY DEF SelectPastJob
  <2>2. past' = [past EXCEPT !.job[c] = j, !.silent = @ \/ ~HasHead(c),
                             !.order[c] = IF Accounting(c) # {} THEN "mixed" ELSE @]
    BY DEF SelectPastJob
  <2>3. UNCHANGED <<machines, located, info, view, queue, modal, stopping,
                    nodes, actions, events, watch, fails>>
    BY DEF SelectPastJob, cloudVars, jobVars, instanceVars, eventVars
  <2>4. QED
    BY <2>1, <2>2, <2>3, <2>5, <2>6
<1>2. /\ o \in [Clusters -> {"kept", "mixed", "asked"}] /\ s \in BOOLEAN
      /\ n \in [Clusters -> Jobs \cup {None}]
  BY <1>0, PastFields
<1>3. past' = [past EXCEPT !.job = n, !.silent = s, !.order = o]
  BY <1>0, <1>1 DEF Pasts
<1> HIDE DEF o, s, n
<1>4. /\ past' \in Pasts /\ past'.silent = s /\ past'.job = n /\ past'.order = o
      /\ past'.info = past.info /\ past'.stray = past.stray /\ past'.broken = past.broken
      /\ past'.action = past.action /\ past'.rival = past.rival /\ past'.lost = past.lost
      /\ past'.filter = past.filter
  BY <1>0, <1>2, <1>3 DEF Pasts
<1>5. /\ flight \subseteq flight'
      /\ HasHead(c) => Ask("job", c, j, None) \in flight'
      /\ \A g \in flight' \ flight : g = Ask("job", c, j, None)
  BY <1>1
<1>6. QED
  BY <1>0, <1>1, <1>4, <1>5 DEF o, s, n

LEMMA ActOnHeadNodeFields ==
  ASSUME Kinds, NEW a \in {"stop", "start"}, ActOnHeadNode(a)
  PROVE  /\ view.cluster \in Clusters /\ view.tab = "instances"
         /\ a \notin actions /\ actions' = actions \cup {a}
         /\ flight' = flight \cup {Ask("ec2", view.cluster, a, "button")}
         /\ past' \in Pasts
         /\ past'.rival = (\E f \in flight : f.cmd = "ec2" \/ f.for = "button")
         /\ past'.info = past.info /\ past'.stray = past.stray /\ past'.broken = past.broken
         /\ past'.order = past.order /\ past'.silent = past.silent
         /\ past'.action = past.action /\ past'.lost = past.lost
         /\ past'.filter = past.filter /\ past'.job = past.job
         /\ UNCHANGED <<machines, located, info, view, queue, modal, stopping, accounting, search,
                        nodes, events, watch, fails>>
<1> DEFINE r == \E f \in flight : f.cmd = "ec2" \/ f.for = "button"
<1>0. view.cluster \in Clusters \cup {None} /\ past \in Pasts
      /\ (view.tab # "details" => view.cluster # None)
  BY KindFields DEF ViewFits
<1>1. /\ view.tab = "instances" /\ a \notin actions /\ actions' = actions \cup {a}
      /\ flight' = flight \cup {Ask("ec2", view.cluster, a, "button")}
      /\ past' = [past EXCEPT !.rival = r]
      /\ UNCHANGED <<machines, located, info, view, queue, modal, stopping, accounting, search,
                     nodes, events, watch, fails>>
  BY DEF ActOnHeadNode, cloudVars, jobVars, accountVars, eventVars
<1>2. r \in BOOLEAN
  OBVIOUS
<1> HIDE DEF r
<1>3. /\ past' \in Pasts /\ past'.rival = r
      /\ past'.info = past.info /\ past'.stray = past.stray /\ past'.broken = past.broken
      /\ past'.order = past.order /\ past'.silent = past.silent
      /\ past'.action = past.action /\ past'.lost = past.lost
      /\ past'.filter = past.filter /\ past'.job = past.job
  BY <1>0, <1>1, <1>2 DEF Pasts
<1>4. QED
  BY <1>0, <1>1, <1>3 DEF r

LEMMA ActKinds ==
  ASSUME Kinds,
         \/ \E j \in Jobs : SelectJob(j) \/ \E from \in {"table", "modal"} : CancelJob(j, from)
         \/ \E j \in Jobs : SelectPastJob(j)
         \/ \E a \in {"stop", "start"} : ActOnHeadNode(a)
         \/ \E c \in Clusters, i \in Infos : Described(c, i)
         \/ Locate
  PROVE  Kinds'
<1>0. /\ accounting \in [Clusters -> [list : Filters \cup {None}, dialog : BOOLEAN,
                                      selectedJob : Jobs \cup {None}, known : SUBSET Jobs]]
      /\ search \in [filter : Filters, pending : BOOLEAN]
      /\ info \in [Clusters -> Infos]
      /\ stopping \subseteq Jobs /\ actions \subseteq {"stop", "start"}
      /\ (\A f \in flight : RequestFits(f)) /\ ViewFits
  BY KindFields
<1>1. ASSUME NEW j \in Jobs, SelectJob(j) PROVE Kinds'
  <2>1. /\ modal' \in [open : BOOLEAN,
                       data : {None} \cup [of : Clusters, job : Jobs, live : BOOLEAN]]
        /\ view.cluster \in Clusters
        /\ \/ flight' = flight \cup {Ask("info", view.cluster, j, None)} /\ past' \in Pasts
           \/ flight' = flight /\ past' = past
        /\ UNCHANGED <<machines, located, info, view, queue, stopping, accounting, search,
                       nodes, actions, events, watch, fails>>
    BY <1>1, SelectJobFields
  <2>2. (\A f \in flight' : RequestFits(f)) /\ past' \in Pasts
    BY <1>0, <2>1, AskFits, KindFields
  <2>3. QED
    BY <2>1, <2>2, UnchangedKinds, KindsStep
<1>2. ASSUME NEW j \in Jobs, NEW from \in {"table", "modal"}, CancelJob(j, from) PROVE Kinds'
  <2>1. (\A f \in flight' : RequestFits(f)) /\ stopping' \subseteq Jobs /\ past' \in Pasts
    BY <1>0, <1>2, CancelJobFields
  <2>2. QED
    BY <1>2, <2>1, CancelJobFields, UnchangedKinds, KindsStep
<1>3. ASSUME NEW j \in Jobs, SelectPastJob(j) PROVE Kinds'
  <2> DEFINE c == view.cluster
             Account == [list : Filters \cup {None}, dialog : BOOLEAN,
                         selectedJob : Jobs \cup {None}, known : SUBSET Jobs]
             r == [accounting[c] EXCEPT !.dialog = TRUE, !.selectedJob = None, !.known = @ \ {j}]
  <2>1. /\ c \in Clusters
        /\ accounting' = [accounting EXCEPT ![c].dialog = TRUE, ![c].selectedJob = None,
                                             ![c].known = @ \ {j}]
        /\ search' = [search EXCEPT !.pending = TRUE]
        /\ \A g \in flight' \ flight : g = Ask("job", c, j, None)
        /\ past' \in Pasts
        /\ UNCHANGED <<machines, located, info, view, queue, modal, stopping,
                       nodes, actions, events, watch, fails>>
    BY <1>3, SelectPastJobFields
  <2>2. accounting[c] \in Account
    BY <1>0, <2>1
  <2>3. r \in Account
    BY <2>2
  <2>4. accounting' = [accounting EXCEPT ![c] = r]
    BY <1>0, <2>1
  <2> HIDE DEF r
  <2>5. accounting' \in [Clusters -> Account]
    BY <1>0, <2>1, <2>3, <2>4
  <2>6. (\A f \in flight' : RequestFits(f)) /\ search' \in [filter : Filters, pending : BOOLEAN]
    BY <1>0, <2>1, AskFits
  <2>7. QED
    BY <2>1, <2>5, <2>6, UnchangedKinds, KindsStep
<1>4. ASSUME NEW a \in {"stop", "start"}, ActOnHeadNode(a) PROVE Kinds'
  <2>1. /\ view.cluster \in Clusters /\ view.tab = "instances" /\ actions' = actions \cup {a}
        /\ flight' = flight \cup {Ask("ec2", view.cluster, a, "button")}
        /\ past' \in Pasts
        /\ UNCHANGED <<machines, located, info, view, queue, modal, stopping, accounting, search,
                       nodes, events, watch, fails>>
    BY <1>4, ActOnHeadNodeFields
  <2>2. \A f \in flight' : RequestFits(f)
    BY <1>0, <2>1, AskFits
  <2>3. actions' \subseteq {"stop", "start"} /\ ViewFits'
    BY <1>0, <2>1 DEF ViewFits
  <2>4. QED
    BY <2>1, <2>2, <2>3, UnchangedKinds, KindsStep
<1>5. ASSUME NEW c \in Clusters, NEW i \in Infos, Described(c, i) PROVE Kinds'
  <2>1. /\ info' = [info EXCEPT ![c] = i]
        /\ UNCHANGED <<machines, located, view, queue, modal, stopping, accounting, search,
                       nodes, actions, events, watch, flight, fails, past>>
    BY <1>5 DEF Described, jobVars, accountVars, instanceVars, eventVars
  <2>2. info' \in [Clusters -> Infos]
    BY <1>0, <2>1
  <2>3. QED
    BY <2>1, <2>2, UnchangedKinds, KindsStep
<1>6. ASSUME Locate PROVE Kinds'
  <2>1. /\ located' = TRUE
        /\ UNCHANGED <<machines, info, view, queue, modal, stopping, accounting, search,
                       nodes, actions, events, watch, flight, fails, past>>
    BY <1>6 DEF Locate, jobVars, accountVars, instanceVars, eventVars
  <2>2. QED
    BY <2>1, UnchangedKinds, KindsStep
<1>7. QED
  BY <1>1, <1>2, <1>3, <1>4, <1>5, <1>6

\* One field of history changes.
LEMMA PastUpdates ==
  ASSUME past \in Pasts
  PROVE  /\ \A b \in SUBSET Jobs : LET p == [past EXCEPT !.broken = b] IN
              /\ p \in Pasts /\ p.broken = b /\ p.silent = past.silent /\ p.action = past.action
              /\ p.lost = past.lost /\ p.stray = past.stray /\ p.info = past.info
              /\ p.order = past.order /\ p.filter = past.filter /\ p.job = past.job
              /\ p.rival = past.rival
         /\ \A b \in BOOLEAN : LET p == [past EXCEPT !.silent = b] IN
              /\ p \in Pasts /\ p.broken = past.broken /\ p.silent = b /\ p.action = past.action
              /\ p.lost = past.lost /\ p.stray = past.stray /\ p.info = past.info
              /\ p.order = past.order /\ p.filter = past.filter /\ p.job = past.job
              /\ p.rival = past.rival
         /\ \A b \in BOOLEAN : LET p == [past EXCEPT !.action = b] IN
              /\ p \in Pasts /\ p.broken = past.broken /\ p.silent = past.silent /\ p.action = b
              /\ p.lost = past.lost /\ p.stray = past.stray /\ p.info = past.info
              /\ p.order = past.order /\ p.filter = past.filter /\ p.job = past.job
              /\ p.rival = past.rival
         /\ \A b \in BOOLEAN : LET p == [past EXCEPT !.lost = b] IN
              /\ p \in Pasts /\ p.broken = past.broken /\ p.silent = past.silent
              /\ p.action = past.action
              /\ p.lost = b /\ p.stray = past.stray /\ p.info = past.info
              /\ p.order = past.order /\ p.filter = past.filter /\ p.job = past.job
              /\ p.rival = past.rival
         /\ \A b \in BOOLEAN : LET p == [past EXCEPT !.stray = b] IN
              /\ p \in Pasts /\ p.broken = past.broken /\ p.silent = past.silent
              /\ p.action = past.action
              /\ p.lost = past.lost /\ p.stray = b /\ p.info = past.info
              /\ p.order = past.order /\ p.filter = past.filter /\ p.job = past.job
              /\ p.rival = past.rival
<1>1. ASSUME NEW b \in SUBSET Jobs
      PROVE  LET p == [past EXCEPT !.broken = b] IN
              /\ p \in Pasts /\ p.broken = b /\ p.silent = past.silent /\ p.action = past.action
              /\ p.lost = past.lost /\ p.stray = past.stray /\ p.info = past.info
              /\ p.order = past.order /\ p.filter = past.filter /\ p.job = past.job
              /\ p.rival = past.rival
  BY <1>1 DEF Pasts
<1>2. ASSUME NEW b \in BOOLEAN
      PROVE  LET p == [past EXCEPT !.silent = b] IN
              /\ p \in Pasts /\ p.broken = past.broken /\ p.silent = b /\ p.action = past.action
              /\ p.lost = past.lost /\ p.stray = past.stray /\ p.info = past.info
              /\ p.order = past.order /\ p.filter = past.filter /\ p.job = past.job
              /\ p.rival = past.rival
  BY <1>2 DEF Pasts
<1>3. ASSUME NEW b \in BOOLEAN
      PROVE  LET p == [past EXCEPT !.action = b] IN
              /\ p \in Pasts /\ p.broken = past.broken /\ p.silent = past.silent /\ p.action = b
              /\ p.lost = past.lost /\ p.stray = past.stray /\ p.info = past.info
              /\ p.order = past.order /\ p.filter = past.filter /\ p.job = past.job
              /\ p.rival = past.rival
  BY <1>3 DEF Pasts
<1>4. ASSUME NEW b \in BOOLEAN
      PROVE  LET p == [past EXCEPT !.lost = b] IN
              /\ p \in Pasts /\ p.broken = past.broken /\ p.silent = past.silent
              /\ p.action = past.action
              /\ p.lost = b /\ p.stray = past.stray /\ p.info = past.info
              /\ p.order = past.order /\ p.filter = past.filter /\ p.job = past.job
              /\ p.rival = past.rival
  BY <1>4 DEF Pasts
<1>5. ASSUME NEW b \in BOOLEAN
      PROVE  LET p == [past EXCEPT !.stray = b] IN
              /\ p \in Pasts /\ p.broken = past.broken /\ p.silent = past.silent
              /\ p.action = past.action
              /\ p.lost = past.lost /\ p.stray = b /\ p.info = past.info
              /\ p.order = past.order /\ p.filter = past.filter /\ p.job = past.job
              /\ p.rival = past.rival
  BY <1>5 DEF Pasts
<1>6. QED
  BY <1>1, <1>2, <1>3, <1>4, <1>5, Zenon

\* A request served, or failed, stays under way with its answer.
LEMMA AnswerFields ==
  ASSUME Kinds, NEW f \in flight, Serve(f) \/ Fail(f)
  PROVE  /\ \E g : /\ flight' = (flight \ {f}) \cup {g} /\ Alike(f, g) /\ g.for = f.for
                   /\ RequestFits(g) /\ g.answer # None
                   /\ f.cmd \in Accounts /\ f.answer \in {Error, Silent} => g.answer = f.answer
         /\ machines' \in [Clusters -> [live : SUBSET Jobs, node : Power]]
         /\ fails' \in 0..MaxFails
         /\ UNCHANGED <<located, info, view, queue, modal, stopping, accounting, search,
                        nodes, actions, events, watch, past>>
<1>0. /\ machines \in [Clusters -> [live : SUBSET Jobs, node : Power]]
      /\ fails \in 0..MaxFails /\ f \in Request /\ RequestFits(f)
      /\ f.of \in Clusters /\ f.cmd \in {"queue", "cancel", "info", "ec2", "nodes", "events"} \cup Accounts
  BY KindFields DEF Request
<1>1. ASSUME NEW a \in Request, a.cmd = f.cmd, a.of = f.of, a.job = f.job, a.for = f.for,
             a.shown = f.shown,
             f.cmd \in {"queue", "info"} => a.answer \in NoAnswer \cup SUBSET Jobs,
             f.cmd = "nodes" => a.answer \in NoAnswer \cup {{n} : n \in Power}
      PROVE  RequestFits(a) /\ Alike(f, a)
  BY <1>0, <1>1 DEF RequestFits, Alike
<1>2. CASE Fail(f)
  <2>1. /\ \E e \in {Error, Silent} : Answered(f, e)
        /\ fails < MaxFails /\ fails' = fails + 1 /\ f.answer \notin {Error, Silent}
        /\ UNCHANGED <<machines, located, info, view, queue, modal, stopping, accounting, search,
                       nodes, actions, events, watch, past>>
    BY <1>2 DEF Fail, cloudVars, jobVars, accountVars, instanceVars, eventVars
  <2>2. PICK e \in {Error, Silent} : flight' = (flight \ {f}) \cup {[f EXCEPT !.answer = e]}
    BY <2>1 DEF Answered
  <2> DEFINE g == [f EXCEPT !.answer = e]
  <2>3. /\ g \in Request /\ g.cmd = f.cmd /\ g.of = f.of /\ g.job = f.job /\ g.for = f.for
        /\ g.shown = f.shown /\ g.answer = e
    BY <1>0 DEF Request
  <2>4. flight' = (flight \ {f}) \cup {g}
    BY <2>2
  <2> HIDE DEF g
  <2>5. RequestFits(g) /\ Alike(f, g)
    BY <1>1, <2>3 DEF NoAnswer
  <2>6. fails' \in 0..MaxFails
    BY <1>0, <2>1, TabsAssumption
  <2>7. e # None
    BY TabsAssumption
  <2>8. QED
    BY <1>0, <2>1, <2>3, <2>4, <2>5, <2>6, <2>7
<1>3. CASE Serve(f)
  <2> DEFINE e == CASE f.cmd \in {"queue", "info"} -> Running(f.of)
                    [] f.cmd = "nodes" -> {machines[f.of].node}
                    [] OTHER -> {}
             g == [f EXCEPT !.answer = e]
             m == machines[f.of]
  <2>0. m \in [live : SUBSET Jobs, node : Power] /\ m.live \in SUBSET Jobs /\ m.node \in Power
    BY <1>0
  <2>1. /\ f.answer = None /\ flight' = (flight \ {f}) \cup {g}
        /\ fails' = fails
        /\ UNCHANGED <<located, info, view, queue, modal, stopping, accounting, search,
                       nodes, actions, events, watch, past>>
    BY <1>3 DEF Serve, Answered, cloudVars, jobVars, accountVars, instanceVars, eventVars
  <2>2. Running(f.of) \in SUBSET Jobs
    BY <2>0 DEF Running
  <2>3. /\ f.cmd \in {"queue", "info"} => e \in SUBSET Jobs
        /\ f.cmd = "nodes" => e \in {{n} : n \in Power}
        /\ e \in (SUBSET Jobs) \cup (SUBSET Power)
    BY <2>0, <2>2
  <2> HIDE DEF e
  <2>4. e # None
    BY <2>3, TabsAssumption
  <2>5. /\ g \in Request /\ g.cmd = f.cmd /\ g.of = f.of /\ g.job = f.job /\ g.for = f.for
        /\ g.shown = f.shown /\ g.answer = e
    BY <1>0, <2>3 DEF Request
  <2> HIDE DEF g
  <2>6. RequestFits(g) /\ Alike(f, g)
    BY <1>1, <2>3, <2>5
  <2>7. machines' \in [Clusters -> [live : SUBSET Jobs, node : Power]]
    <3>1. \/ machines' = machines
          \/ machines' = [machines EXCEPT ![f.of].live = @ \ {f.job}]
          \/ machines' = [machines EXCEPT ![f.of].node = IF f.job = "stop" THEN "down" ELSE "up"]
      BY <1>3 DEF Serve
    <3>2. ASSUME NEW r \in [live : SUBSET Jobs, node : Power], machines' = [machines EXCEPT ![f.of] = r]
          PROVE  machines' \in [Clusters -> [live : SUBSET Jobs, node : Power]]
      BY <1>0, <3>2
    <3>3. CASE machines' = [machines EXCEPT ![f.of].live = @ \ {f.job}]
      <4> DEFINE r == [m EXCEPT !.live = @ \ {f.job}]
      <4>1. r \in [live : SUBSET Jobs, node : Power]
        BY <2>0
      <4>2. machines' = [machines EXCEPT ![f.of] = r]
        BY <1>0, <3>3
      <4> HIDE DEF r
      <4>3. QED
        BY <3>2, <4>1, <4>2
    <3>4. CASE machines' = [machines EXCEPT ![f.of].node = IF f.job = "stop" THEN "down" ELSE "up"]
      <4> DEFINE r == [m EXCEPT !.node = IF f.job = "stop" THEN "down" ELSE "up"]
      <4>1. r \in [live : SUBSET Jobs, node : Power]
        BY <2>0 DEF Power
      <4>2. machines' = [machines EXCEPT ![f.of] = r]
        BY <1>0, <3>4
      <4> HIDE DEF r
      <4>3. QED
        BY <3>2, <4>1, <4>2
    <3>5. QED
      BY <1>0, <3>1, <3>3, <3>4
  <2>8. f.answer \notin {Error, Silent}
    BY <2>1, TabsAssumption
  <2>9. \E h : /\ flight' = (flight \ {f}) \cup {h} /\ Alike(f, h) /\ h.for = f.for
               /\ RequestFits(h) /\ h.answer # None
               /\ f.cmd \in Accounts /\ f.answer \in {Error, Silent} => h.answer = f.answer
    BY <2>1, <2>4, <2>5, <2>6, <2>8
  <2>10. QED
    BY <1>0, <2>1, <2>7, <2>9
<1>4. QED
  BY <1>2, <1>3

\* What the arrival of each answer changes.
LEMMA QueueArrivesFields ==
  ASSUME Kinds, NEW f \in flight, QueueArrives(f)
  PROVE  /\ f.cmd = "queue" /\ f.of \in Clusters /\ f.answer \in SUBSET Jobs
         /\ queue' \in [Clusters -> {None} \cup SUBSET Jobs]
         /\ stopping' = stopping \ {f.job} /\ flight' = flight \ {f}
         /\ modal' \in [open : BOOLEAN,
                        data : {None} \cup [of : Clusters, job : Jobs, live : BOOLEAN]]
         /\ modal'.data = modal.data /\ (modal'.open => modal.open)
         /\ UNCHANGED <<machines, located, info, view, accounting, search, nodes, actions,
                        events, watch, fails, past>>
<1>0. /\ queue \in [Clusters -> {None} \cup SUBSET Jobs]
      /\ modal \in [open : BOOLEAN,
                    data : {None} \cup [of : Clusters, job : Jobs, live : BOOLEAN]]
      /\ f \in Request /\ RequestFits(f)
  BY KindFields
<1>1. /\ f.cmd = "queue" /\ f.answer \notin NoAnswer
      /\ queue' = [queue EXCEPT ![f.of] = f.answer]
      /\ stopping' = stopping \ {f.job} /\ flight' = flight \ {f}
      /\ UNCHANGED <<machines, located, info, view, accounting, search, nodes, actions,
                     events, watch, fails, past>>
  BY DEF QueueArrives, Arrives, AfterStop, NoAnswer, cloudVars, accountVars, instanceVars, eventVars
<1>2. f.of \in Clusters /\ f.answer \in SUBSET Jobs
  BY <1>0, <1>1 DEF Request, RequestFits
<1>3. modal' = [modal EXCEPT !.open = FALSE] \/ modal' = modal
  BY DEF QueueArrives
<1>4. /\ modal' \in [open : BOOLEAN,
                     data : {None} \cup [of : Clusters, job : Jobs, live : BOOLEAN]]
      /\ modal'.data = modal.data /\ (modal'.open => modal.open)
  BY <1>0, <1>3
<1>5. queue' \in [Clusters -> {None} \cup SUBSET Jobs]
  BY <1>0, <1>1, <1>2
<1>6. QED
  BY <1>1, <1>2, <1>4, <1>5

LEMMA CancelArrivesFields ==
  ASSUME Kinds, NEW f \in flight, CancelArrives(f)
  PROVE  /\ f.cmd = "cancel" /\ f.job \in Jobs
         /\ flight' = (flight \ {f}) \cup RefreshQueues(f.job, f.for)
         /\ \A g \in RefreshQueues(f.job, f.for) :
              RequestFits(g) /\ g.cmd = "queue" /\ g.job = f.job /\ g.for # "button"
         /\ past' \in Pasts /\ past.broken \subseteq past'.broken
         /\ RefreshQueues(f.job, f.for) = {} => f.job \in past'.broken
         /\ past'.silent = past.silent /\ past'.action = past.action
         /\ past'.lost = past.lost /\ past'.stray = past.stray /\ past'.info = past.info
         /\ past'.order = past.order /\ past'.filter = past.filter /\ past'.job = past.job
         /\ past'.rival = past.rival
         /\ UNCHANGED <<machines, located, info, view, queue, modal, stopping, accounting, search,
                        nodes, actions, events, watch, fails>>
<1>0. past \in Pasts /\ past.broken \subseteq Jobs /\ RequestFits(f)
  BY KindFields, PastFields
<1>1. /\ f.cmd = "cancel"
      /\ flight' = (flight \ {f}) \cup RefreshQueues(f.job, f.for)
      /\ UNCHANGED <<machines, located, info, view, queue, modal, stopping, accounting, search,
                     nodes, actions, events, watch, fails>>
  BY DEF CancelArrives, Arrives, cloudVars, jobVars, accountVars, instanceVars, eventVars
<1>2. f.job \in Jobs /\ f.for \in {"table", "modal"}
  BY <1>0, <1>1 DEF RequestFits
<1>3. \A g \in RefreshQueues(f.job, f.for) :
        RequestFits(g) /\ g.cmd = "queue" /\ g.job = f.job /\ g.for # "button"
  BY <1>2, RefreshQueuesFits
<1>4. \/ RefreshQueues(f.job, f.for) = {} /\ past' = [past EXCEPT !.broken = @ \cup {f.job}]
      \/ RefreshQueues(f.job, f.for) # {} /\ past' = past
  BY DEF CancelArrives
<1>5. ASSUME past' = [past EXCEPT !.broken = @ \cup {f.job}]
      PROVE  /\ past' \in Pasts /\ past'.broken = past.broken \cup {f.job}
             /\ past'.silent = past.silent /\ past'.action = past.action
             /\ past'.lost = past.lost /\ past'.stray = past.stray /\ past'.info = past.info
             /\ past'.order = past.order /\ past'.filter = past.filter /\ past'.job = past.job
             /\ past'.rival = past.rival
  BY <1>0, <1>2, <1>5, PastUpdates
<1>6. QED
  BY <1>0, <1>1, <1>2, <1>3, <1>4, <1>5

LEMMA InfoArrivesFields ==
  ASSUME Kinds, NEW f \in flight, InfoArrives(f)
  PROVE  /\ f.cmd = "info" /\ f.of \in Clusters /\ f.job \in Jobs /\ flight' = flight \ {f}
         /\ modal' \in [open : BOOLEAN,
                        data : {None} \cup [of : Clusters, job : Jobs, live : BOOLEAN]]
         /\ modal'.open = modal.open /\ modal'.data.of = f.of /\ modal'.data.job = f.job
         /\ past' \in Pasts
         /\ past'.stray = (past.stray \/ past.info # [of |-> f.of, job |-> f.job])
         /\ past'.broken = past.broken /\ past'.silent = past.silent /\ past'.action = past.action
         /\ past'.lost = past.lost /\ past'.info = past.info
         /\ past'.order = past.order /\ past'.filter = past.filter /\ past'.job = past.job
         /\ past'.rival = past.rival
         /\ UNCHANGED <<machines, located, info, view, queue, stopping, accounting, search,
                        nodes, actions, events, watch, fails>>
<1> DEFINE d == [of |-> f.of, job |-> f.job, live |-> f.job \in f.answer]
           s == past.stray \/ past.info # [of |-> f.of, job |-> f.job]
<1>0. /\ modal \in [open : BOOLEAN,
                    data : {None} \cup [of : Clusters, job : Jobs, live : BOOLEAN]]
      /\ f \in Request /\ RequestFits(f) /\ past \in Pasts
  BY KindFields
<1>1. /\ f.cmd = "info" /\ flight' = flight \ {f}
      /\ modal' = [modal EXCEPT !.data = d] /\ past' = [past EXCEPT !.stray = s]
      /\ UNCHANGED <<machines, located, info, view, queue, stopping, accounting, search,
                     nodes, actions, events, watch, fails>>
  BY DEF InfoArrives, Arrives, cloudVars, accountVars, instanceVars, eventVars
<1>2. f.of \in Clusters /\ f.job \in Jobs
  BY <1>0, <1>1 DEF Request, RequestFits
<1>3. (f.job \in f.answer) \in BOOLEAN /\ s \in BOOLEAN
  BY <1>0, PastFields
<1>4. d \in [of : Clusters, job : Jobs, live : BOOLEAN] /\ d.of = f.of /\ d.job = f.job
  BY <1>2, <1>3
<1> HIDE DEF d, s
<1>5. /\ modal' \in [open : BOOLEAN,
                     data : {None} \cup [of : Clusters, job : Jobs, live : BOOLEAN]]
      /\ modal'.open = modal.open /\ modal'.data = d
  BY <1>0, <1>1, <1>4
<1>6. /\ past' \in Pasts /\ past'.stray = s
      /\ past'.broken = past.broken /\ past'.silent = past.silent /\ past'.action = past.action
      /\ past'.lost = past.lost /\ past'.info = past.info
      /\ past'.order = past.order /\ past'.filter = past.filter /\ past'.job = past.job
      /\ past'.rival = past.rival
  BY <1>0, <1>1, <1>3, PastUpdates
<1>7. QED
  BY <1>1, <1>2, <1>4, <1>5, <1>6 DEF s

LEMMA AccountingArrivesFields ==
  ASSUME Kinds, NEW f \in flight, AccountingArrives(f)
  PROVE  /\ f.cmd \in Accounts /\ f.of \in Clusters /\ flight' = flight \ {f}
         /\ accounting' \in [Clusters -> [list : Filters \cup {None}, dialog : BOOLEAN,
                                          selectedJob : Jobs \cup {None}, known : SUBSET Jobs]]
         /\ \E r \in [list : Filters \cup {None}, dialog : BOOLEAN,
                      selectedJob : Jobs \cup {None}, known : SUBSET Jobs] :
              /\ accounting' = [accounting EXCEPT ![f.of] = r]
              /\ f.cmd = "list" => r.list = f.for /\ r.dialog = FALSE
              /\ f.cmd = "job" => /\ r.list = accounting[f.of].list /\ r.selectedJob = f.job
                                  /\ r.dialog = accounting[f.of].dialog
         /\ search' \in [filter : Filters, pending : BOOLEAN] /\ search'.pending = FALSE
         /\ past' \in Pasts /\ past'.silent = FALSE
         /\ past'.order = [past.order EXCEPT ![f.of] =
                             IF f.cmd = "list" /\ @ = "asked" THEN "kept" ELSE @]
         /\ past'.broken = past.broken /\ past'.action = past.action
         /\ past'.lost = past.lost /\ past'.stray = past.stray /\ past'.info = past.info
         /\ past'.filter = past.filter /\ past'.job = past.job /\ past'.rival = past.rival
         /\ UNCHANGED <<machines, located, info, view, queue, modal, stopping,
                        nodes, actions, events, watch, fails>>
<1> DEFINE Account == [list : Filters \cup {None}, dialog : BOOLEAN,
                       selectedJob : Jobs \cup {None}, known : SUBSET Jobs]
           o == [past.order EXCEPT ![f.of] = IF f.cmd = "list" /\ @ = "asked" THEN "kept" ELSE @]
           q == accounting[f.of]
           l == [NoAccounting EXCEPT !.list = f.for]
           k == [q EXCEPT !.selectedJob = f.job, !.known = @ \cup {f.job}]
           r == IF f.cmd = "list" THEN l ELSE k
<1>0. /\ accounting \in [Clusters -> Account]
      /\ search \in [filter : Filters, pending : BOOLEAN]
      /\ f \in Request /\ RequestFits(f) /\ past \in Pasts
      /\ past.order \in [Clusters -> {"kept", "mixed", "asked"}]
  BY KindFields, PastFields
<1>1. /\ f.cmd \in Accounts /\ flight' = flight \ {f} /\ accounting' = Accounted(f)
      /\ search' = [search EXCEPT !.pending = FALSE]
      /\ UNCHANGED <<machines, located, info, view, queue, modal, stopping,
                     nodes, actions, events, watch, fails>>
  BY DEF AccountingArrives, Arrives, cloudVars, jobVars, instanceVars, eventVars
<1>2. past' = [past EXCEPT !.silent = FALSE, !.order[f.of] =
                 IF f.cmd = "list" /\ @ = "asked" THEN "kept" ELSE @]
  BY DEF AccountingArrives
<1>3. /\ f.of \in Clusters /\ f.cmd \in {"list", "job"}
      /\ f.cmd = "list" => f.for \in Filters
      /\ f.cmd = "job" => f.job \in Jobs
  BY <1>0, <1>1 DEF Request, RequestFits, Accounts
<1>4. q \in Account
  BY <1>0, <1>3
<1>5. ASSUME f.cmd = "list" PROVE l \in Account /\ l.list = f.for /\ l.dialog = FALSE
  BY <1>3, <1>5 DEF NoAccounting
<1>6. ASSUME f.cmd = "job"
      PROVE  k \in Account /\ k.list = q.list /\ k.selectedJob = f.job /\ k.dialog = q.dialog
  <2> HIDE DEF q
  <2>1. QED
    BY <1>3, <1>4, <1>6
<1>7. accounting' = [accounting EXCEPT ![f.of] = r]
  <2>1. CASE f.cmd = "list"
    BY <1>0, <1>1, <1>3, <2>1 DEF Accounted
  <2>2. CASE f.cmd = "job"
    BY <1>0, <1>1, <1>3, <2>2 DEF Accounted
  <2>3. QED
    BY <1>3, <2>1, <2>2
<1> HIDE DEF l, k
<1>8. /\ r \in Account
      /\ f.cmd = "list" => r.list = f.for /\ r.dialog = FALSE
      /\ f.cmd = "job" => r.list = q.list /\ r.selectedJob = f.job /\ r.dialog = q.dialog
  BY <1>3, <1>5, <1>6
<1> HIDE DEF r
<1>9. accounting' \in [Clusters -> Account]
  BY <1>0, <1>7, <1>8
<1>10. o \in [Clusters -> {"kept", "mixed", "asked"}] /\ past' = [past EXCEPT !.silent = FALSE, !.order = o]
  BY <1>0, <1>2, <1>3 DEF Pasts
<1> HIDE DEF o
<1>11. /\ past' \in Pasts /\ past'.silent = FALSE /\ past'.order = o
       /\ past'.broken = past.broken /\ past'.action = past.action
       /\ past'.lost = past.lost /\ past'.stray = past.stray /\ past'.info = past.info
       /\ past'.filter = past.filter /\ past'.job = past.job /\ past'.rival = past.rival
  BY <1>0, <1>10 DEF Pasts
<1>12. search' \in [filter : Filters, pending : BOOLEAN] /\ search'.pending = FALSE
  BY <1>0, <1>1
<1>13. \E a \in Account :
         /\ accounting' = [accounting EXCEPT ![f.of] = a]
         /\ f.cmd = "list" => a.list = f.for /\ a.dialog = FALSE
         /\ f.cmd = "job" => /\ a.list = accounting[f.of].list /\ a.selectedJob = f.job
                             /\ a.dialog = accounting[f.of].dialog
  BY <1>7, <1>8
<1>14. QED
  BY <1>1, <1>3, <1>9, <1>11, <1>12, <1>13 DEF o

LEMMA NodesArriveFields ==
  ASSUME Kinds, NEW f \in flight, NodesArrive(f)
  PROVE  /\ f.cmd = "nodes" /\ f.of \in Clusters /\ flight' = flight \ {f}
         /\ \E n \in Power : f.answer = {n} /\ nodes' = [nodes EXCEPT ![f.of] = n]
         /\ nodes' \in [Clusters -> Power \cup {None}]
         /\ actions' = IF f.for = "button" THEN {} ELSE actions
         /\ UNCHANGED <<machines, located, info, view, queue, modal, stopping, accounting, search,
                        events, watch, fails, past>>
<1>0. /\ nodes \in [Clusters -> Power \cup {None}] /\ f \in Request /\ RequestFits(f)
  BY KindFields
<1>1. /\ f.cmd = "nodes" /\ f.answer \notin NoAnswer /\ flight' = flight \ {f}
      /\ nodes' = [nodes EXCEPT ![f.of] = CHOOSE n \in f.answer : TRUE]
      /\ actions' = IF f.for = "button" THEN {} ELSE actions
      /\ UNCHANGED <<machines, located, info, view, queue, modal, stopping, accounting, search,
                     events, watch, fails, past>>
  BY DEF NodesArrive, Arrives, NoAnswer, ResetPending, cloudVars, jobVars, accountVars, eventVars
<1>2. f.of \in Clusters
  BY <1>0 DEF Request
<1>3. PICK n \in Power : f.answer = {n}
  BY <1>0, <1>1 DEF RequestFits
<1>4. (CHOOSE m \in {n} : TRUE) = n
  OBVIOUS
<1>5. nodes' = [nodes EXCEPT ![f.of] = n]
  BY <1>1, <1>3, <1>4
<1>6. QED
  BY <1>0, <1>1, <1>2, <1>3, <1>5

LEMMA Ec2ArrivesFields ==
  ASSUME Kinds, NEW f \in flight, Ec2Arrives(f)
  PROVE  /\ f.cmd = "ec2" /\ f.for \in {None, "button"}
         /\ \/ /\ view.cluster \in Clusters
               /\ flight' = (flight \ {f}) \cup {Ask("nodes", view.cluster, None, f.for)}
            \/ view.cluster = None /\ flight' = flight \ {f}
         /\ UNCHANGED <<machines, located, info, view, queue, modal, stopping, accounting, search,
                        nodes, actions, events, watch, fails, past>>
<1>0. RequestFits(f) /\ view.cluster \in Clusters \cup {None}
  BY KindFields
<1>1. /\ f.cmd = "ec2"
      /\ flight' = (flight \ {f}) \cup
           IF view.cluster # None THEN {Ask("nodes", view.cluster, None, f.for)} ELSE {}
      /\ UNCHANGED <<machines, located, info, view, queue, modal, stopping, accounting, search,
                     nodes, actions, events, watch, fails, past>>
  BY DEF Ec2Arrives, Arrives, cloudVars, jobVars, accountVars, instanceVars, eventVars
<1>2. f.for \in {None, "button"}
  BY <1>0, <1>1 DEF RequestFits
<1>3. \/ /\ view.cluster \in Clusters
         /\ flight' = (flight \ {f}) \cup {Ask("nodes", view.cluster, None, f.for)}
      \/ view.cluster = None /\ flight' = flight \ {f}
  BY <1>0, <1>1
<1>4. QED
  BY <1>1, <1>2, <1>3

LEMMA EventsArriveFields ==
  ASSUME Kinds, NEW f \in flight, EventsArrive(f)
  PROVE  /\ f.cmd = "events" /\ f.of \in Clusters /\ f.for = None /\ flight' = flight \ {f}
         /\ events' = [events EXCEPT ![f.of] = TRUE] /\ events' \in [Clusters -> BOOLEAN]
         /\ UNCHANGED <<machines, located, info, view, queue, modal, stopping, accounting, search,
                        nodes, actions, watch, fails, past>>
<1>0. events \in [Clusters -> BOOLEAN] /\ f \in Request /\ RequestFits(f)
  BY KindFields
<1>1. /\ f.cmd = "events" /\ flight' = flight \ {f} /\ events' = [events EXCEPT ![f.of] = TRUE]
      /\ UNCHANGED <<machines, located, info, view, queue, modal, stopping, accounting, search,
                     nodes, actions, watch, fails, past>>
  BY DEF EventsArrive, Arrives, cloudVars, jobVars, accountVars, instanceVars
<1>2. f.of \in Clusters /\ f.for = None
  BY <1>0, <1>1 DEF Request, RequestFits
<1>3. QED
  BY <1>0, <1>1, <1>2

\* The failure of a request is noted in what it was asked for.
LEMMA FailureArrivesFields ==
  ASSUME Kinds, NEW f \in flight, FailureArrives(f)
  PROVE  /\ f.answer \in {Error, Silent} /\ flight' = flight \ {f}
         /\ search' \in [filter : Filters, pending : BOOLEAN]
         /\ \/ search' = search
            \/ f.cmd \in Accounts /\ f.answer = Error /\ search'.pending = FALSE
         /\ f.cmd \in Accounts => search'.pending = FALSE \/ past'.silent = TRUE
         /\ past' \in Pasts /\ past.broken \subseteq past'.broken
         /\ f.cmd \notin Accounts => past'.silent = past.silent
         /\ f.cmd \in {"cancel", "queue"} => f.job \in past'.broken \/ f.job = None
         /\ past.action => past'.action
         /\ f.for = "button" => past'.action
         /\ past.lost => past'.lost
         /\ f.cmd = "events" => past'.lost
         /\ past'.stray = past.stray /\ past'.info = past.info
         /\ past'.order = past.order /\ past'.filter = past.filter /\ past'.job = past.job
         /\ past'.rival = past.rival
         /\ UNCHANGED <<machines, located, info, view, queue, modal, stopping, accounting,
                        nodes, actions, events, watch, fails>>
<1>0. /\ search \in [filter : Filters, pending : BOOLEAN]
      /\ f \in Request /\ RequestFits(f) /\ past \in Pasts
      /\ f.cmd \in {"queue", "cancel", "info", "ec2", "nodes", "events", "list", "job"}
      /\ past.broken \subseteq Jobs /\ past.silent \in BOOLEAN /\ past.action \in BOOLEAN
      /\ past.lost \in BOOLEAN
  BY KindFields, PastFields DEF Request, Accounts
<1>1. /\ f.answer \in {Error, Silent} /\ flight' = flight \ {f}
      /\ search' = IF f.cmd \in Accounts /\ f.answer = Error
                     THEN [search EXCEPT !.pending = FALSE] ELSE search
      /\ UNCHANGED <<machines, located, info, view, queue, modal, stopping, accounting,
                     nodes, actions, events, watch, fails>>
  BY DEF FailureArrives, FailCallback, cloudVars, jobVars, instanceVars, eventVars
<1> DEFINE b == (f.answer = Silent)
<1>2. past' = CASE f.cmd \in Accounts -> [past EXCEPT !.silent = b]
                [] f.cmd = "cancel" \/ (f.cmd = "queue" /\ f.for # None) ->
                     [past EXCEPT !.broken = @ \cup {f.job}]
                [] f.for = "button" -> [past EXCEPT !.action = TRUE]
                [] f.cmd = "events" -> [past EXCEPT !.lost = TRUE]
                [] OTHER -> past
  BY Zenon DEF FailureArrives
<1>b. b \in BOOLEAN /\ (f.answer = Silent => b = TRUE)
  OBVIOUS
<1>3. /\ search' \in [filter : Filters, pending : BOOLEAN]
      /\ \/ search' = search /\ ~(f.cmd \in Accounts /\ f.answer = Error)
         \/ f.cmd \in Accounts /\ f.answer = Error /\ search'.pending = FALSE
  BY <1>0, <1>1
<1> HIDE DEF b
<1> DEFINE Noted == /\ past' \in Pasts
                    /\ past'.stray = past.stray /\ past'.info = past.info
                    /\ past'.order = past.order /\ past'.filter = past.filter
                    /\ past'.job = past.job /\ past'.rival = past.rival
<1>4. ASSUME f.cmd \in Accounts
      PROVE  /\ Noted /\ f.for # "button"
             /\ past'.broken = past.broken /\ past'.action = past.action /\ past'.lost = past.lost
             /\ past'.silent = b
  <2>2. f.for # "button"
    BY <1>0, <1>4, TabsAssumption DEF RequestFits, Accounts
  <2>1. past' = [past EXCEPT !.silent = b]
    BY <1>2, <1>4, <2>2 DEF Accounts
  <2>3. QED
    BY <1>0, <1>b, <2>1, <2>2, PastUpdates
<1>5. ASSUME f.cmd = "cancel" \/ (f.cmd = "queue" /\ f.for # None)
      PROVE  /\ Noted /\ f.for # "button"
             /\ past'.broken = past.broken \cup {f.job} /\ past'.action = past.action
             /\ past'.lost = past.lost /\ past'.silent = past.silent
  <2>1. f.job \in Jobs /\ f.for \in {"table", "modal"}
    <3>1. CASE f.cmd = "cancel"
      BY <1>0, <3>1 DEF RequestFits
    <3>2. CASE f.cmd = "queue" /\ f.for # None
      BY <1>0, <3>2 DEF RequestFits
    <3>3. QED
      BY <1>5, <3>1, <3>2
  <2>2. past' = [past EXCEPT !.broken = @ \cup {f.job}]
    BY <1>2, <1>5, <2>1 DEF Accounts
  <2>3. QED
    BY <1>0, <2>1, <2>2, PastUpdates
<1>6. ASSUME f.for = "button"
      PROVE  /\ Noted /\ f.cmd \in {"ec2", "nodes"}
             /\ past'.broken = past.broken /\ past'.action = TRUE
             /\ past'.lost = past.lost /\ past'.silent = past.silent
  <2>1. f.cmd \in {"ec2", "nodes"}
    BY <1>0, <1>6, TabsAssumption DEF RequestFits
  <2>2. past' = [past EXCEPT !.action = TRUE]
    BY <1>2, <1>6, <2>1 DEF Accounts
  <2>3. QED
    BY <1>0, <2>1, <2>2, PastUpdates
<1>7. ASSUME f.cmd = "events"
      PROVE  /\ Noted /\ f.for # "button"
             /\ past'.broken = past.broken /\ past'.action = past.action
             /\ past'.lost = TRUE /\ past'.silent = past.silent
  <2>1. f.for # "button"
    BY <1>0, <1>7, TabsAssumption DEF RequestFits
  <2>2. past' = [past EXCEPT !.lost = TRUE]
    BY <1>2, <1>7, <2>1 DEF Accounts
  <2>3. QED
    BY <1>0, <2>1, <2>2, PastUpdates
<1>8. ASSUME f.cmd \in {"queue", "info", "ec2", "nodes"}, f.for # "button",
             ~(f.cmd = "queue" /\ f.for # None)
      PROVE  Noted /\ past' = past
  <2>1. past' = past
    BY <1>2, <1>8 DEF Accounts
  <2>2. QED
    BY <1>0, <2>1
<1> DEFINE Fits == /\ f.cmd \in Accounts => search'.pending = FALSE \/ past'.silent = TRUE
                   /\ past.broken \subseteq past'.broken
                   /\ f.cmd \notin Accounts => past'.silent = past.silent
                   /\ f.cmd \in {"cancel", "queue"} => f.job \in past'.broken \/ f.job = None
                   /\ past.action => past'.action
                   /\ f.for = "button" => past'.action
                   /\ past.lost => past'.lost
                   /\ f.cmd = "events" => past'.lost
<1> HIDE DEF Noted
<1>9. Noted /\ Fits
  <2>1. CASE f.cmd \in Accounts
    <3>1. search'.pending = FALSE \/ past'.silent = TRUE
      BY <1>1, <1>3, <1>4, <1>b, <2>1
    <3>2. QED
      BY <1>4, <2>1, <3>1 DEF Accounts
  <2>2. CASE f.cmd = "cancel" \/ (f.cmd = "queue" /\ f.for # None)
    BY <1>5, <2>2 DEF Accounts
  <2>3. CASE f.for = "button"
    BY <1>6, <2>3 DEF Accounts
  <2>4. CASE f.cmd = "events"
    BY <1>7, <2>4 DEF Accounts
  <2>5. CASE f.cmd \in {"queue", "info", "ec2", "nodes"} /\ f.for # "button"
             /\ ~(f.cmd = "queue" /\ f.for # None)
    <3>1. f.cmd = "queue" => f.job = None
      BY <1>0, <2>5, TabsAssumption DEF RequestFits
    <3>2. QED
      BY <1>8, <2>5, <3>1 DEF Accounts
  <2>6. QED
    BY <1>0, <2>1, <2>2, <2>3, <2>4, <2>5 DEF Accounts
<1>10. QED
  BY <1>1, <1>3, <1>9 DEF Noted

LEMMA AnswerKinds ==
  ASSUME Kinds, NEW f \in flight, Serve(f) \/ Fail(f) \/ Receive(f)
  PROVE  Kinds'
<1>0. /\ \A g \in flight : RequestFits(g)
      /\ actions \subseteq {"stop", "start"} /\ ViewFits /\ past \in Pasts
  BY KindFields
<1>1. CASE Serve(f) \/ Fail(f)
  <2>1. /\ \E g : flight' = (flight \ {f}) \cup {g} /\ RequestFits(g)
        /\ machines' \in [Clusters -> [live : SUBSET Jobs, node : Power]]
        /\ fails' \in 0..MaxFails
        /\ UNCHANGED <<located, info, view, queue, modal, stopping, accounting, search,
                       nodes, actions, events, watch, past>>
    BY <1>1, AnswerFields
  <2>2. \A g \in flight' : RequestFits(g)
    BY <1>0, <2>1
  <2>3. QED
    BY <2>1, <2>2, UnchangedKinds, KindsStep
<1>2. ASSUME QueueArrives(f) PROVE Kinds'
  <2>1. /\ queue' \in [Clusters -> {None} \cup SUBSET Jobs]
        /\ stopping' = stopping \ {f.job} /\ flight' = flight \ {f}
        /\ modal' \in [open : BOOLEAN,
                       data : {None} \cup [of : Clusters, job : Jobs, live : BOOLEAN]]
        /\ UNCHANGED <<machines, located, info, view, accounting, search, nodes, actions,
                       events, watch, fails, past>>
    BY <1>2, QueueArrivesFields
  <2>2. (\A g \in flight' : RequestFits(g)) /\ stopping' \subseteq Jobs
    BY <1>0, <2>1, KindFields
  <2>3. QED
    BY <2>1, <2>2, UnchangedKinds, KindsStep
<1>3. ASSUME CancelArrives(f) PROVE Kinds'
  <2>1. /\ flight' = (flight \ {f}) \cup RefreshQueues(f.job, f.for)
        /\ \A g \in RefreshQueues(f.job, f.for) : RequestFits(g)
        /\ past' \in Pasts
        /\ UNCHANGED <<machines, located, info, view, queue, modal, stopping, accounting, search,
                       nodes, actions, events, watch, fails>>
    BY <1>3, CancelArrivesFields
  <2>2. \A g \in flight' : RequestFits(g)
    BY <1>0, <2>1
  <2>3. QED
    BY <2>1, <2>2, UnchangedKinds, KindsStep
<1>4. ASSUME InfoArrives(f) PROVE Kinds'
  <2>1. /\ flight' = flight \ {f} /\ past' \in Pasts
        /\ modal' \in [open : BOOLEAN,
                       data : {None} \cup [of : Clusters, job : Jobs, live : BOOLEAN]]
        /\ UNCHANGED <<machines, located, info, view, queue, stopping, accounting, search,
                       nodes, actions, events, watch, fails>>
    BY <1>4, InfoArrivesFields
  <2>2. \A g \in flight' : RequestFits(g)
    BY <1>0, <2>1
  <2>3. QED
    BY <2>1, <2>2, UnchangedKinds, KindsStep
<1>5. ASSUME AccountingArrives(f) PROVE Kinds'
  <2>1. /\ flight' = flight \ {f} /\ past' \in Pasts
        /\ accounting' \in [Clusters -> [list : Filters \cup {None}, dialog : BOOLEAN,
                                         selectedJob : Jobs \cup {None}, known : SUBSET Jobs]]
        /\ search' \in [filter : Filters, pending : BOOLEAN]
        /\ UNCHANGED <<machines, located, info, view, queue, modal, stopping,
                       nodes, actions, events, watch, fails>>
    BY <1>5, AccountingArrivesFields
  <2>2. \A g \in flight' : RequestFits(g)
    BY <1>0, <2>1
  <2>3. QED
    BY <2>1, <2>2, UnchangedKinds, KindsStep
<1>6. ASSUME NodesArrive(f) PROVE Kinds'
  <2>1. /\ flight' = flight \ {f} /\ nodes' \in [Clusters -> Power \cup {None}]
        /\ actions' = IF f.for = "button" THEN {} ELSE actions
        /\ UNCHANGED <<machines, located, info, view, queue, modal, stopping, accounting, search,
                       events, watch, fails, past>>
    BY <1>6, NodesArriveFields
  <2>2. \A g \in flight' : RequestFits(g)
    BY <1>0, <2>1
  <2>3. actions' \subseteq {"stop", "start"} /\ ViewFits'
    BY <1>0, <2>1 DEF ViewFits
  <2>4. QED
    BY <2>1, <2>2, <2>3, UnchangedKinds, KindsStep
<1>7. ASSUME Ec2Arrives(f) PROVE Kinds'
  <2>1. /\ f.for \in {None, "button"}
        /\ \/ /\ view.cluster \in Clusters
              /\ flight' = (flight \ {f}) \cup {Ask("nodes", view.cluster, None, f.for)}
           \/ flight' = flight \ {f}
        /\ UNCHANGED <<machines, located, info, view, queue, modal, stopping, accounting, search,
                       nodes, actions, events, watch, fails, past>>
    BY <1>7, Ec2ArrivesFields
  <2>2. \A g \in flight' : RequestFits(g)
    BY <1>0, <2>1, AskFits
  <2>3. QED
    BY <2>1, <2>2, UnchangedKinds, KindsStep
<1>8. ASSUME EventsArrive(f) PROVE Kinds'
  <2>1. /\ flight' = flight \ {f} /\ events' \in [Clusters -> BOOLEAN]
        /\ UNCHANGED <<machines, located, info, view, queue, modal, stopping, accounting, search,
                       nodes, actions, watch, fails, past>>
    BY <1>8, EventsArriveFields
  <2>2. \A g \in flight' : RequestFits(g)
    BY <1>0, <2>1
  <2>3. QED
    BY <2>1, <2>2, UnchangedKinds, KindsStep
<1>9. ASSUME FailureArrives(f) PROVE Kinds'
  <2>1. /\ flight' = flight \ {f} /\ past' \in Pasts
        /\ search' \in [filter : Filters, pending : BOOLEAN]
        /\ UNCHANGED <<machines, located, info, view, queue, modal, stopping, accounting,
                       nodes, actions, events, watch, fails>>
    BY <1>9, FailureArrivesFields
  <2>2. \A g \in flight' : RequestFits(g)
    BY <1>0, <2>1
  <2>3. QED
    BY <2>1, <2>2, UnchangedKinds, KindsStep
<1>10. QED
  BY <1>1, <1>2, <1>3, <1>4, <1>5, <1>6, <1>7, <1>8, <1>9 DEF Receive

LEMMA KindsKept ==
  ASSUME Kinds, [Next]_vars
  PROVE  Kinds'
<1>1. CASE Next
  BY <1>1, OpenTabKinds, UseKinds, ActKinds, AnswerKinds DEF Next
<1>2. CASE UNCHANGED vars
  BY <1>2, UnchangedKinds, KindsStep
     DEF vars
<1>3. QED
  BY <1>1, <1>2

LEMMA KindsFirst ==
  ASSUME Init
  PROVE  Kinds
<1>1. past \in Pasts
  BY DEF Init, Pasts
<1>2. TypeOK
  <2>1. /\ machines \in [Clusters -> [live : SUBSET Jobs, node : Power]]
        /\ located \in BOOLEAN /\ info \in [Clusters -> Infos]
        /\ view \in [cluster : Clusters \cup {None}, tab : Tabs]
        /\ queue \in [Clusters -> {None} \cup SUBSET Jobs]
    BY DEF Init, Power, Tabs
  <2>2. /\ modal \in [open : BOOLEAN,
                      data : {None} \cup [of : Clusters, job : Jobs, live : BOOLEAN]]
        /\ stopping \subseteq Jobs /\ actions \subseteq {"stop", "start"}
    BY DEF Init
  <2>3. accounting \in [Clusters -> [list : Filters \cup {None}, dialog : BOOLEAN,
                                     selectedJob : Jobs \cup {None}, known : SUBSET Jobs]]
    BY DEF Init, NoAccounting
  <2>4. /\ search \in [filter : Filters, pending : BOOLEAN]
        /\ nodes \in [Clusters -> Power \cup {None}] /\ events \in [Clusters -> BOOLEAN]
        /\ watch \in [of : Clusters \cup {None}, creating : BOOLEAN]
    BY DEF Init, NoWatch
  <2>5. flight \subseteq Request /\ fails \in 0..MaxFails
    BY TabsAssumption DEF Init
  <2>6. QED
    BY <2>1, <2>2, <2>3, <2>4, <2>5 DEF TypeOK
<1>3. (\A f \in flight : RequestFits(f)) /\ ViewFits
  BY DEF Init, ViewFits, NoWatch
<1>4. QED
  BY <1>1, <1>2, <1>3 DEF Kinds

-----------------------------------------------------------------------------
(* Steps that the tabs' waiting and showing hardly notice.                 *)

\* Requests stay under way, more of those that only refresh are sent, a window or a
\* row closes.
Idle ==
  /\ \A f \in flight : \E g \in flight' : Alike(f, g) /\ g.for = f.for
  /\ \A g \in flight' : \/ \E f \in flight : Alike(f, g) /\ g.for = f.for
                        \/ g.cmd \in {"queue", "nodes", "events"} /\ g.for = None
  /\ modal'.data = modal.data /\ (modal'.open => modal.open)
  /\ search'.pending = search.pending
  /\ \A c \in Clusters : /\ accounting'[c].list = accounting[c].list
                         /\ accounting'[c].selectedJob = accounting[c].selectedJob
                         /\ accounting'[c].dialog => accounting[c].dialog
  /\ \/ \E f \in flight : Serve(f) \/ Fail(f)
     \/ /\ machines' = machines
        /\ \A g \in flight' : g \in flight \/ (g.cmd \in {"queue", "nodes", "events"} /\ g.for = None)
  /\ UNCHANGED <<view, stopping, actions, events, past>>

LEMMA IdleSteps ==
  ASSUME Kinds,
         \/ QueueTick \/ CloseJob \/ ClosePastJob \/ InstancesTick \/ EventsTick \/ Locate
         \/ \E filter \in Filters : Type(filter)
         \/ \E c \in Clusters, i \in Infos : Described(c, i)
         \/ \E f \in flight : Serve(f) \/ Fail(f)
         \/ UNCHANGED vars
  PROVE  Idle
<1>0. /\ accounting \in [Clusters -> [list : Filters \cup {None}, dialog : BOOLEAN,
                                      selectedJob : Jobs \cup {None}, known : SUBSET Jobs]]
      /\ modal \in [open : BOOLEAN,
                    data : {None} \cup [of : Clusters, job : Jobs, live : BOOLEAN]]
      /\ search \in [filter : Filters, pending : BOOLEAN]
  BY KindFields
<1> DEFINE Same == modal' = modal /\ search' = search /\ accounting' = accounting
           Rest == UNCHANGED <<view, stopping, actions, events, past>>
<1>1. \A f : Alike(f, f)
  BY DEF Alike
<1>2. ASSUME Rest, Same,
             \/ flight' = flight /\ machines' = machines
             \/ /\ machines' = machines
                /\ \E g : flight' = flight \cup {g} /\ g.cmd \in {"queue", "nodes", "events"} /\ g.for = None
             \/ \E f \in flight : /\ Serve(f) \/ Fail(f)
                                  /\ \E g : flight' = (flight \ {f}) \cup {g} /\ Alike(f, g) /\ g.for = f.for
      PROVE  Idle
  <2>1. CASE flight' = flight /\ machines' = machines
    BY <1>1, <1>2, <2>1 DEF Idle
  <2>2. CASE /\ machines' = machines
             /\ \E g : flight' = flight \cup {g} /\ g.cmd \in {"queue", "nodes", "events"} /\ g.for = None
    BY <1>1, <1>2, <2>2 DEF Idle
  <2>3. ASSUME NEW f \in flight, Serve(f) \/ Fail(f),
               \E g : flight' = (flight \ {f}) \cup {g} /\ Alike(f, g) /\ g.for = f.for
        PROVE  Idle
    BY <1>1, <1>2, <2>3 DEF Idle
  <2>4. QED
    BY <1>2, <2>1, <2>2, <2>3
<1>3. CASE QueueTick
  <2>1. /\ flight' = flight \cup RefreshQueues(None, None) /\ machines' = machines /\ Same /\ Rest
    BY <1>3 DEF QueueTick, cloudVars, jobVars, accountVars, instanceVars, eventVars
  <2>2. RefreshQueues(None, None) \in {{}, {Ask("queue", view.cluster, None, None)}}
    BY DEF RefreshQueues
  <2>3. QED
    BY <1>2, <2>1, <2>2, AskFields
<1>4. CASE CloseJob
  <2>1. /\ modal' = [modal EXCEPT !.open = FALSE]
        /\ search' = search /\ accounting' = accounting /\ flight' = flight
        /\ machines' = machines /\ Rest
    BY <1>4 DEF CloseJob, cloudVars, accountVars, instanceVars, eventVars
  <2>2. modal'.open = FALSE /\ modal'.data = modal.data
    BY <1>0, <2>1
  <2>3. QED
    BY <1>1, <2>1, <2>2 DEF Idle
<1>5. CASE ClosePastJob
  <2>1. /\ accounting' = [accounting EXCEPT ![view.cluster].dialog = FALSE]
        /\ search' = search /\ modal' = modal /\ flight' = flight
        /\ machines' = machines /\ Rest
    BY <1>5 DEF ClosePastJob, cloudVars, jobVars, instanceVars, eventVars
  <2>2. \A c \in Clusters : /\ accounting'[c].list = accounting[c].list
                            /\ accounting'[c].selectedJob = accounting[c].selectedJob
                            /\ accounting'[c].dialog => accounting[c].dialog
    BY <1>0, <2>1
  <2>3. QED
    BY <1>1, <2>1, <2>2 DEF Idle
<1>6. CASE InstancesTick
  <2>1. /\ flight' = flight \cup {Ask("nodes", view.cluster, None, None)} /\ machines' = machines /\ Same /\ Rest
    BY <1>6 DEF InstancesTick, cloudVars, jobVars, accountVars, instanceVars, eventVars
  <2>2. QED
    BY <1>2, <2>1, AskFields
<1>7. CASE EventsTick
  <2>1. /\ \/ flight' = flight \cup {Ask("events", watch.of, None, None)}
           \/ flight' = flight
        /\ machines' = machines /\ Same /\ Rest
    BY <1>7 DEF EventsTick, cloudVars, jobVars, accountVars, instanceVars
  <2>2. QED
    BY <1>2, <2>1, AskFields
<1>8. CASE Locate
  BY <1>2, <1>8 DEF Locate, jobVars, accountVars, instanceVars, eventVars
<1>9. ASSUME NEW filter \in Filters, Type(filter) PROVE Idle
  <2>1. /\ search' = [search EXCEPT !.filter = filter]
        /\ accounting' = accounting /\ modal' = modal /\ flight' = flight
        /\ machines' = machines /\ Rest
    BY <1>9 DEF Type, cloudVars, jobVars, instanceVars, eventVars
  <2>2. search'.pending = search.pending
    BY <1>0, <2>1
  <2>3. QED
    BY <1>1, <2>1, <2>2 DEF Idle
<1>10. ASSUME NEW c \in Clusters, NEW i \in Infos, Described(c, i) PROVE Idle
  BY <1>2, <1>10 DEF Described, jobVars, accountVars, instanceVars, eventVars
<1>11. ASSUME NEW f \in flight, Serve(f) \/ Fail(f) PROVE Idle
  <2>1. /\ \E g : flight' = (flight \ {f}) \cup {g} /\ Alike(f, g) /\ g.for = f.for
        /\ Same /\ Rest
    BY <1>11, AnswerFields
  <2>2. QED
    BY <1>2, <1>11, <2>1
<1>12. CASE UNCHANGED vars
  BY <1>2, <1>12 DEF vars
<1>13. QED
  BY <1>3, <1>4, <1>5, <1>6, <1>7, <1>8, <1>9, <1>10, <1>11, <1>12

\* The steps that are not idle.
LEMMA Steps ==
  ASSUME Kinds, [Next]_vars
  PROVE  \/ Idle
         \/ \E t \in Tabs : OpenTab(t)
         \/ \E c \in Clusters \cup {None} : Leave(c)
         \/ \E j \in Jobs : SelectJob(j) \/ \E from \in {"table", "modal"} : CancelJob(j, from)
         \/ \E filter \in Filters : Refresh(filter)
         \/ \E j \in Jobs : SelectPastJob(j)
         \/ \E a \in {"stop", "start"} : ActOnHeadNode(a)
         \/ RefreshEvents
         \/ \E f \in flight : Receive(f)
BY IdleSteps DEF Next

\* Opening a tab loses no request, and asks only for what the tab shows.
LEMMA OpenTabFields ==
  ASSUME Kinds, NEW t \in Tabs, OpenTab(t)
  PROVE  /\ view.cluster \in Clusters /\ view'.cluster = view.cluster /\ view'.tab = t
         /\ actions' = {} /\ past' \in Pasts
         /\ \A f \in flight : \E g \in flight' : Alike(f, g)
         /\ t = "events" => Ask("events", view.cluster, None, None) \in flight'
         /\ \/ /\ UNCHANGED <<accounting, search>> /\ past'.silent = past.silent
               /\ past'.order = past.order /\ past'.filter = past.filter
               /\ \A g \in flight' : g.cmd \in {"queue", "nodes", "events"}
                                     \/ \E f \in flight : Alike(f, g)
            \/ /\ ListAccounting(view.cluster, search.filter) /\ search.filter \in Filters
         /\ past'.broken = past.broken /\ past'.stray = past.stray /\ past'.info = past.info
         /\ past'.job = past.job
         /\ UNCHANGED <<modal, stopping, events, machines, nodes>>
<1>0. /\ view.cluster \in Clusters /\ t # "details" /\ view' = [view EXCEPT !.tab = t]
      /\ view \in [cluster : Clusters \cup {None}, tab : Tabs]
      /\ view.tab = "details" /\ Mount(t) /\ actions = {}
      /\ past \in Pasts /\ search.filter \in Filters
      /\ UNCHANGED <<machines, located, info, queue, modal, stopping, nodes, events, fails>>
  BY KindFields DEF OpenTab, cloudVars, jobVars, ViewFits
<1>1. view'.cluster = view.cluster /\ view'.tab = t
  BY <1>0
<1>2. \A f : Alike(f, f)
  BY DEF Alike
<1>3. ASSUME t = "scheduling", flight' = flight \cup RefreshQueues(None, None),
             UNCHANGED <<accounting, search, actions, watch, past>>
      PROVE  /\ \A f \in flight : \E g \in flight' : Alike(f, g)
             /\ \A g \in flight' : g.cmd \in {"queue", "nodes", "events"}
                                   \/ \E f \in flight : Alike(f, g)
  <2>1. \A f \in RefreshQueues(None, None) : f.cmd = "queue"
    BY RefreshQueuesFits
  <2>2. QED
    BY <1>2, <1>3, <2>1
<1>4. ASSUME ListAccounting(view.cluster, search.filter)
      PROVE  /\ \A f \in flight : \E g \in flight' : Alike(f, g)
             /\ past' \in Pasts
             /\ past'.broken = past.broken /\ past'.stray = past.stray /\ past'.info = past.info
             /\ past'.job = past.job
  <2>1. /\ flight \subseteq flight' /\ past' \in Pasts
        /\ past'.broken = past.broken /\ past'.stray = past.stray /\ past'.info = past.info
        /\ past'.job = past.job
    BY <1>0, <1>4, ListAccountingFields
  <2>2. QED
    BY <1>2, <2>1
<1>5. ASSUME flight' = Orphaned \cup {Ask("nodes", view.cluster, None, None)},
             past' = [past EXCEPT !.action = FALSE]
      PROVE  /\ \A f \in flight : \E g \in flight' : Alike(f, g)
             /\ \A g \in flight' : g.cmd \in {"queue", "nodes", "events"}
                                   \/ \E f \in flight : Alike(f, g)
             /\ past' \in Pasts /\ past'.silent = past.silent
             /\ past'.order = past.order /\ past'.filter = past.filter
             /\ past'.broken = past.broken /\ past'.stray = past.stray /\ past'.info = past.info
             /\ past'.job = past.job
  <2>1. \A f \in flight : \E g \in flight' : Alike(f, g)
    BY <1>5, OrphanedFields
  <2>2. \A g \in flight' : g.cmd \in {"queue", "nodes", "events"} \/ \E f \in flight : Alike(f, g)
    BY <1>5, OrphanedFields, AskFields
  <2>3. /\ past' \in Pasts /\ past'.silent = past.silent
        /\ past'.order = past.order /\ past'.filter = past.filter
        /\ past'.broken = past.broken /\ past'.stray = past.stray /\ past'.info = past.info
        /\ past'.job = past.job
    BY <1>0, <1>5, PastUpdates
  <2>4. QED
    BY <2>1, <2>2, <2>3
<1>6. ASSUME flight' = flight \cup {Ask("events", view.cluster, None, None)},
             past' = [past EXCEPT !.lost = FALSE]
      PROVE  /\ \A f \in flight : \E g \in flight' : Alike(f, g)
             /\ \A g \in flight' : g.cmd \in {"queue", "nodes", "events"}
                                   \/ \E f \in flight : Alike(f, g)
             /\ Ask("events", view.cluster, None, None) \in flight'
             /\ past' \in Pasts /\ past'.silent = past.silent
             /\ past'.order = past.order /\ past'.filter = past.filter
             /\ past'.broken = past.broken /\ past'.stray = past.stray /\ past'.info = past.info
             /\ past'.job = past.job
  <2>1. \A g \in flight' : g.cmd \in {"queue", "nodes", "events"} \/ \E f \in flight : Alike(f, g)
    BY <1>2, <1>6, AskFields
  <2>2. /\ past' \in Pasts /\ past'.silent = past.silent
        /\ past'.order = past.order /\ past'.filter = past.filter
        /\ past'.broken = past.broken /\ past'.stray = past.stray /\ past'.info = past.info
        /\ past'.job = past.job
    BY <1>0, <1>6, PastUpdates
  <2>3. QED
    BY <1>2, <1>6, <2>1, <2>2
<1> DEFINE Goal == /\ actions' = {} /\ past' \in Pasts
                   /\ \A f \in flight : \E g \in flight' : Alike(f, g)
                   /\ t = "events" => Ask("events", view.cluster, None, None) \in flight'
                   /\ \/ /\ UNCHANGED <<accounting, search>> /\ past'.silent = past.silent
                         /\ past'.order = past.order /\ past'.filter = past.filter
                         /\ \A g \in flight' : g.cmd \in {"queue", "nodes", "events"}
                                               \/ \E f \in flight : Alike(f, g)
                      \/ ListAccounting(view.cluster, search.filter)
                   /\ past'.broken = past.broken /\ past'.stray = past.stray
                   /\ past'.info = past.info /\ past'.job = past.job
<1>7. Goal
  <2>1. \/ /\ t = "scheduling" /\ flight' = flight \cup RefreshQueues(None, None)
           /\ UNCHANGED <<accounting, search, actions, watch, past>>
        \/ /\ t = "accounting" /\ ListAccounting(view.cluster, search.filter)
           /\ UNCHANGED <<actions, watch>>
        \/ /\ t = "instances"
           /\ flight' = Orphaned \cup {Ask("nodes", view.cluster, None, None)}
           /\ actions' = {} /\ past' = [past EXCEPT !.action = FALSE]
           /\ UNCHANGED <<accounting, search, watch>>
        \/ /\ t = "events" /\ flight' = flight \cup {Ask("events", view.cluster, None, None)}
           /\ watch' = [of |-> view.cluster, creating |-> info[view.cluster] \in {"creating", "started"}]
           /\ past' = [past EXCEPT !.lost = FALSE]
           /\ UNCHANGED <<accounting, search, actions>>
    BY <1>0, MountCases, Zenon
  <2>2. ASSUME t = "scheduling", flight' = flight \cup RefreshQueues(None, None),
               UNCHANGED <<accounting, search, actions, watch, past>>
        PROVE  Goal
    BY <1>0, <1>3, <2>2
  <2>3. ASSUME t = "accounting", ListAccounting(view.cluster, search.filter),
               UNCHANGED <<actions, watch>>
        PROVE  Goal
    BY <1>0, <1>4, <2>3
  <2>4. ASSUME t = "instances", flight' = Orphaned \cup {Ask("nodes", view.cluster, None, None)},
               actions' = {}, past' = [past EXCEPT !.action = FALSE],
               UNCHANGED <<accounting, search, watch>>
        PROVE  Goal
    BY <1>5, <2>4
  <2>5. ASSUME t = "events", flight' = flight \cup {Ask("events", view.cluster, None, None)},
               past' = [past EXCEPT !.lost = FALSE],
               UNCHANGED <<accounting, search, actions>>
        PROVE  Goal
    BY <1>0, <1>6, <2>5
  <2>6. QED
    BY <2>1, <2>2, <2>3, <2>4, <2>5
<1>8. QED
  BY <1>0, <1>1, <1>7

LEMMA LeaveFields ==
  ASSUME Kinds, NEW c \in Clusters \cup {None}, Leave(c)
  PROVE  /\ view' = [cluster |-> c, tab |-> "details"]
         /\ flight' = Orphaned /\ actions' = {} /\ past' \in Pasts
         /\ past'.stray = (past.stray \/ (modal.open /\ c # view.cluster))
         /\ past'.broken = past.broken /\ past'.silent = past.silent
         /\ past'.action = past.action /\ past'.lost = past.lost /\ past'.info = past.info
         /\ past'.order = past.order /\ past'.filter = past.filter /\ past'.job = past.job
         /\ past'.rival = past.rival
         /\ \A f \in flight : \E g \in flight' : Alike(f, g)
         /\ \A g \in flight' : \E f \in flight : Alike(f, g)
         /\ UNCHANGED <<machines, queue, modal, stopping, accounting, search, nodes, events>>
<1> DEFINE s == past.stray \/ (modal.open /\ c # view.cluster)
<1>0. past \in Pasts /\ past.stray \in BOOLEAN /\ modal.open \in BOOLEAN
  BY KindFields, PastFields
<1>1. /\ view' = [cluster |-> c, tab |-> "details"]
      /\ flight' = Orphaned /\ actions' = {}
      /\ past' = [past EXCEPT !.stray = s]
      /\ UNCHANGED <<machines, queue, modal, stopping, accounting, search, nodes, events>>
  BY DEF Leave, cloudVars, jobVars, accountVars
<1>2. s \in BOOLEAN
  BY <1>0
<1> HIDE DEF s
<1>3. /\ past' \in Pasts /\ past'.stray = s
      /\ past'.broken = past.broken /\ past'.silent = past.silent
      /\ past'.action = past.action /\ past'.lost = past.lost /\ past'.info = past.info
      /\ past'.order = past.order /\ past'.filter = past.filter /\ past'.job = past.job
      /\ past'.rival = past.rival
  BY <1>0, <1>1, <1>2, PastUpdates
<1>4. /\ \A f \in flight : \E g \in flight' : Alike(f, g)
      /\ \A g \in flight' : \E f \in flight : Alike(f, g)
  BY <1>1, OrphanedFields
<1>5. QED
  BY <1>1, <1>3, <1>4 DEF s

LEMMA RefreshFields ==
  ASSUME Kinds, NEW filter \in Filters, Refresh(filter)
  PROVE  /\ view.tab = "accounting"
         /\ view.cluster \in Clusters /\ ListAccounting(view.cluster, filter)
         /\ accounting[view.cluster].dialog = FALSE
         /\ UNCHANGED <<machines, view, queue, modal, stopping, nodes, actions, events>>
<1>0. /\ view.cluster \in Clusters \cup {None}
      /\ view.tab # "details" => view.cluster # None
      /\ accounting \in [Clusters -> [list : Filters \cup {None}, dialog : BOOLEAN,
                                      selectedJob : Jobs \cup {None}, known : SUBSET Jobs]]
  BY KindFields DEF ViewFits
<1>1. /\ view.tab = "accounting" /\ ~accounting[view.cluster].dialog
      /\ ListAccounting(view.cluster, filter)
      /\ UNCHANGED <<machines, view, queue, modal, stopping, nodes, actions, events>>
  BY DEF Refresh, cloudVars, jobVars, instanceVars, eventVars
<1>2. QED
  BY <1>0, <1>1

LEMMA RefreshEventsFields ==
  ASSUME Kinds, RefreshEvents
  PROVE  /\ view.cluster \in Clusters /\ view.tab = "events"
         /\ flight' = flight \cup {Ask("events", view.cluster, None, None)}
         /\ past' \in Pasts
         /\ past'.broken = past.broken /\ past'.silent = past.silent
         /\ past'.action = past.action /\ past'.stray = past.stray /\ past'.info = past.info
         /\ past'.order = past.order /\ past'.filter = past.filter /\ past'.job = past.job
         /\ past'.rival = past.rival
         /\ UNCHANGED <<machines, view, queue, modal, stopping, accounting, search, nodes, actions>>
<1>0. /\ view.cluster \in Clusters \cup {None} /\ past \in Pasts
      /\ view.tab # "details" => view.cluster # None
  BY KindFields DEF ViewFits
<1>1. /\ view.tab = "events"
      /\ flight' = flight \cup {Ask("events", view.cluster, None, None)}
      /\ past' = [past EXCEPT !.lost = FALSE]
      /\ UNCHANGED <<machines, view, queue, modal, stopping, accounting, search, nodes, actions>>
  BY DEF RefreshEvents, cloudVars, jobVars, accountVars, instanceVars
<1>2. /\ past' \in Pasts
      /\ past'.broken = past.broken /\ past'.silent = past.silent
      /\ past'.action = past.action /\ past'.stray = past.stray /\ past'.info = past.info
      /\ past'.order = past.order /\ past'.filter = past.filter /\ past'.job = past.job
      /\ past'.rival = past.rival
  BY <1>0, <1>1, PastUpdates
<1>3. QED
  BY <1>0, <1>1, <1>2

-----------------------------------------------------------------------------
(* What waits.                                                             *)

Stops == \A j \in stopping :
           j \in past.broken \/ \E f \in InFlight({"cancel", "queue"}) : f.job = j
Buttons == actions # {} => past.action \/ \E f \in flight : f.for = "button"

\* Only the head node's buttons send requests that a button waits for.
LEMMA ButtonRequests ==
  ASSUME Kinds
  PROVE  \A f \in flight : f.for = "button" => f.cmd \in {"ec2", "nodes"}
<1>1. ASSUME NEW f \in flight, f.for = "button" PROVE f.cmd \in {"ec2", "nodes"}
  <2>1. RequestFits(f) /\ f.cmd \in {"queue", "cancel", "info", "ec2", "nodes", "events", "list", "job"}
    BY KindFields DEF Request, Accounts
  <2>2. QED
    BY <1>1, <2>1, TabsAssumption DEF RequestFits
<1>2. QED
  BY <1>1

\* A Stop's requests stay as long as its button turns.
LEMMA StopsKept ==
  ASSUME Kinds, Stops, [Next]_vars
  PROVE  Stops'
<1>0. \A f : Alike(f, f)
  BY DEF Alike
<1>1. ASSUME \A f \in flight : f.cmd \in {"cancel", "queue"} => \E g \in flight' : Alike(f, g),
             stopping' = stopping, past.broken \subseteq past'.broken
      PROVE  Stops'
  <2>1. ASSUME NEW j \in stopping', j \notin past'.broken
        PROVE  \E f \in flight' : f.cmd \in {"cancel", "queue"} /\ f.job = j
    <3>1. PICK f \in flight : f.cmd \in {"cancel", "queue"} /\ f.job = j
      BY <1>1, <2>1 DEF Stops, InFlight
    <3>2. QED
      BY <1>1, <3>1 DEF Alike
  <2>2. QED
    BY <2>1 DEF Stops, InFlight
<1>2. CASE Idle
  BY <1>1, <1>2 DEF Idle
<1>3. ASSUME NEW t \in Tabs, OpenTab(t) PROVE Stops'
  BY <1>1, <1>3, OpenTabFields
<1>4. ASSUME NEW c \in Clusters \cup {None}, Leave(c) PROVE Stops'
  BY <1>1, <1>4, LeaveFields
<1>5. ASSUME NEW j \in Jobs, SelectJob(j) PROVE Stops'
  <2>1. flight \subseteq flight' /\ stopping' = stopping /\ past'.broken = past.broken
    BY <1>5, SelectJobFields
  <2>2. QED
    BY <1>0, <1>1, <2>1
<1>6. ASSUME NEW j \in Jobs, NEW from \in {"table", "modal"}, CancelJob(j, from) PROVE Stops'
  <2>1. /\ stopping' = stopping \cup {j} /\ past'.broken = past.broken \ {j}
        /\ \E f : flight' = flight \cup {f} /\ f.cmd = "cancel" /\ f.job = j
    BY <1>6, CancelJobFields
  <2>2. QED
    BY <2>1 DEF Stops, InFlight
<1>7. ASSUME NEW filter \in Filters, Refresh(filter) PROVE Stops'
  <2>1. /\ flight \subseteq flight' /\ stopping' = stopping /\ past'.broken = past.broken
    BY <1>7, RefreshFields, ListAccountingFields
  <2>2. QED
    BY <1>0, <1>1, <2>1
<1>8. ASSUME NEW j \in Jobs, SelectPastJob(j) PROVE Stops'
  <2>1. /\ flight \subseteq flight' /\ stopping' = stopping /\ past'.broken = past.broken
    BY <1>8, SelectPastJobFields
  <2>2. QED
    BY <1>0, <1>1, <2>1
<1>9. ASSUME NEW a \in {"stop", "start"}, ActOnHeadNode(a) PROVE Stops'
  <2>1. /\ flight \subseteq flight' /\ stopping' = stopping /\ past'.broken = past.broken
    BY <1>9, ActOnHeadNodeFields
  <2>2. QED
    BY <1>0, <1>1, <2>1
<1>10. ASSUME RefreshEvents PROVE Stops'
  <2>1. /\ flight \subseteq flight' /\ stopping' = stopping /\ past'.broken = past.broken
    BY <1>10, RefreshEventsFields
  <2>2. QED
    BY <1>0, <1>1, <2>1
<1>11. ASSUME NEW f \in flight, Receive(f) PROVE Stops'
  <2>1. ASSUME f.cmd \notin {"cancel", "queue"}, flight \ {f} \subseteq flight',
               stopping' = stopping, past.broken \subseteq past'.broken
        PROVE  Stops'
    BY <1>0, <1>1, <2>1
  <2>2. ASSUME QueueArrives(f) PROVE Stops'
    <3>1. stopping' = stopping \ {f.job} /\ flight' = flight \ {f} /\ past' = past
      BY <2>2, QueueArrivesFields
    <3>2. QED
      BY <3>1 DEF Stops, InFlight
  <2>3. ASSUME CancelArrives(f) PROVE Stops'
    <3>1. /\ flight' = (flight \ {f}) \cup RefreshQueues(f.job, f.for) /\ stopping' = stopping
          /\ \A g \in RefreshQueues(f.job, f.for) : g.cmd = "queue" /\ g.job = f.job
          /\ past.broken \subseteq past'.broken
          /\ RefreshQueues(f.job, f.for) = {} => f.job \in past'.broken
      BY <2>3, CancelArrivesFields
    <3>2. QED
      BY <3>1 DEF Stops, InFlight
  <2>4. CASE InfoArrives(f)
    <3>1. /\ f.cmd = "info" /\ flight' = flight \ {f} /\ stopping' = stopping
          /\ past'.broken = past.broken
      BY <2>4, InfoArrivesFields
    <3>2. QED
      BY <2>1, <3>1
  <2>5. CASE AccountingArrives(f)
    <3>1. /\ f.cmd \in Accounts /\ flight' = flight \ {f} /\ stopping' = stopping
          /\ past'.broken = past.broken
      BY <2>5, AccountingArrivesFields
    <3>2. QED
      BY <2>1, <3>1 DEF Accounts
  <2>6. CASE NodesArrive(f)
    <3>1. f.cmd = "nodes" /\ flight' = flight \ {f} /\ stopping' = stopping /\ past' = past
      BY <2>6, NodesArriveFields
    <3>2. QED
      BY <2>1, <3>1
  <2>7. CASE Ec2Arrives(f)
    <3>1. f.cmd = "ec2" /\ flight \ {f} \subseteq flight' /\ stopping' = stopping /\ past' = past
      BY <2>7, Ec2ArrivesFields
    <3>2. QED
      BY <2>1, <3>1
  <2>8. CASE EventsArrive(f)
    <3>1. f.cmd = "events" /\ flight' = flight \ {f} /\ stopping' = stopping /\ past' = past
      BY <2>8, EventsArriveFields
    <3>2. QED
      BY <2>1, <3>1
  <2>9. CASE FailureArrives(f)
    <3>1. /\ flight' = flight \ {f} /\ stopping' = stopping /\ past.broken \subseteq past'.broken
          /\ f.cmd \in {"cancel", "queue"} => f.job \in past'.broken \/ f.job = None
      BY <2>9, FailureArrivesFields
    <3>2. None \notin stopping
      BY KindFields, TabsAssumption
    <3>3. QED
      BY <3>1, <3>2 DEF Stops, InFlight
  <2>10. QED
    BY <1>11, <2>2, <2>3, <2>4, <2>5, <2>6, <2>7, <2>8, <2>9 DEF Receive
<1>12. QED
  BY <1>2, <1>3, <1>4, <1>5, <1>6, <1>7, <1>8, <1>9, <1>10, <1>11, Steps

\* So do those of the head node's buttons, until the tab is left.
LEMMA ButtonsKept ==
  ASSUME Kinds, Buttons, [Next]_vars
  PROVE  Buttons'
<1>1. ASSUME \A f \in flight : f.for = "button" => \E g \in flight' : g.for = "button",
             actions' = actions, past.action => past'.action
      PROVE  Buttons'
  BY <1>1 DEF Buttons
<1>2. CASE Idle
  <2>1. /\ \A f \in flight : \E g \in flight' : g.for = f.for
        /\ actions' = actions /\ past' = past
    BY <1>2 DEF Idle
  <2>2. QED
    BY <1>1, <2>1
<1>3. ASSUME NEW t \in Tabs, OpenTab(t) PROVE Buttons'
  BY <1>3, OpenTabFields DEF Buttons
<1>4. ASSUME NEW c \in Clusters \cup {None}, Leave(c) PROVE Buttons'
  BY <1>4, LeaveFields DEF Buttons
<1>5. ASSUME NEW j \in Jobs, SelectJob(j) PROVE Buttons'
  <2>1. flight \subseteq flight' /\ actions' = actions /\ past'.action = past.action
    BY <1>5, SelectJobFields
  <2>2. QED
    BY <1>1, <2>1
<1>6. ASSUME NEW j \in Jobs, NEW from \in {"table", "modal"}, CancelJob(j, from) PROVE Buttons'
  <2>1. flight \subseteq flight' /\ actions' = actions /\ past'.action = past.action
    BY <1>6, CancelJobFields
  <2>2. QED
    BY <1>1, <2>1
<1>7. ASSUME NEW filter \in Filters, Refresh(filter) PROVE Buttons'
  <2>1. flight \subseteq flight' /\ actions' = actions /\ past'.action = past.action
    BY <1>7, RefreshFields, ListAccountingFields
  <2>2. QED
    BY <1>1, <2>1
<1>8. ASSUME NEW j \in Jobs, SelectPastJob(j) PROVE Buttons'
  <2>1. flight \subseteq flight' /\ actions' = actions /\ past'.action = past.action
    BY <1>8, SelectPastJobFields
  <2>2. QED
    BY <1>1, <2>1
<1>9. ASSUME NEW a \in {"stop", "start"}, ActOnHeadNode(a) PROVE Buttons'
  <2>1. Ask("ec2", view.cluster, a, "button") \in flight'
    BY <1>9, ActOnHeadNodeFields
  <2>2. QED
    BY <2>1, AskFields DEF Buttons
<1>10. ASSUME RefreshEvents PROVE Buttons'
  <2>1. flight \subseteq flight' /\ actions' = actions /\ past'.action = past.action
    BY <1>10, RefreshEventsFields
  <2>2. QED
    BY <1>1, <2>1
<1>11. ASSUME NEW f \in flight, Receive(f) PROVE Buttons'
  <2>1. ASSUME f.for # "button", flight \ {f} \subseteq flight', actions' = actions,
               past'.action = past.action
        PROVE  Buttons'
    BY <1>1, <2>1
  <2>2. CASE QueueArrives(f)
    <3>1. f.cmd = "queue" /\ flight' = flight \ {f} /\ actions' = actions /\ past' = past
      BY <2>2, QueueArrivesFields
    <3>2. QED
      BY <2>1, <3>1, ButtonRequests
  <2>3. CASE CancelArrives(f)
    <3>1. /\ f.cmd = "cancel" /\ flight \ {f} \subseteq flight' /\ actions' = actions
          /\ past'.action = past.action
      BY <2>3, CancelArrivesFields
    <3>2. QED
      BY <2>1, <3>1, ButtonRequests
  <2>4. CASE InfoArrives(f)
    <3>1. /\ f.cmd = "info" /\ flight' = flight \ {f} /\ actions' = actions
          /\ past'.action = past.action
      BY <2>4, InfoArrivesFields
    <3>2. QED
      BY <2>1, <3>1, ButtonRequests
  <2>5. CASE AccountingArrives(f)
    <3>1. /\ f.cmd \in Accounts /\ flight' = flight \ {f} /\ actions' = actions
          /\ past'.action = past.action
      BY <2>5, AccountingArrivesFields
    <3>2. QED
      BY <2>1, <3>1, ButtonRequests DEF Accounts
  <2>6. CASE NodesArrive(f)
    <3>1. /\ flight' = flight \ {f} /\ past' = past
          /\ actions' = IF f.for = "button" THEN {} ELSE actions
      BY <2>6, NodesArriveFields
    <3>2. QED
      BY <2>1, <3>1 DEF Buttons
  <2>7. CASE Ec2Arrives(f)
    <3>1. /\ actions' = actions /\ past' = past
          /\ \/ flight' = (flight \ {f}) \cup {Ask("nodes", view.cluster, None, f.for)}
             \/ view.cluster = None
      BY <2>7, Ec2ArrivesFields
    <3>2. actions # {} => view.cluster # None
      BY KindFields DEF ViewFits
    <3>3. QED
      BY <3>1, <3>2, AskFields DEF Buttons
  <2>8. CASE EventsArrive(f)
    <3>1. f.cmd = "events" /\ flight' = flight \ {f} /\ actions' = actions /\ past' = past
      BY <2>8, EventsArriveFields
    <3>2. QED
      BY <2>1, <3>1, ButtonRequests
  <2>9. CASE FailureArrives(f)
    <3>1. /\ flight' = flight \ {f} /\ actions' = actions
          /\ past.action => past'.action
          /\ f.for = "button" => past'.action
      BY <2>9, FailureArrivesFields
    <3>2. QED
      BY <3>1 DEF Buttons
  <2>10. QED
    BY <1>11, <2>2, <2>3, <2>4, <2>5, <2>6, <2>7, <2>8, <2>9 DEF Receive
<1>12. QED
  BY <1>2, <1>3, <1>4, <1>5, <1>6, <1>7, <1>8, <1>9, <1>10, <1>11, Steps

\* Accounting waits while a request of it is under way, or one was lost.
LEMMA AccountingWaitKept ==
  ASSUME Kinds, AccountingHasCause, [Next]_vars
  PROVE  AccountingHasCause'
<1>1. ASSUME \A f \in flight : f.cmd \in Accounts => \E g \in flight' : g.cmd \in Accounts,
             search'.pending => search.pending, past.silent => past'.silent
      PROVE  AccountingHasCause'
  BY <1>1 DEF AccountingHasCause, InFlight
<1>2. CASE Idle
  <2>1. /\ \A f \in flight : \E g \in flight' : g.cmd = f.cmd
        /\ search'.pending = search.pending /\ past' = past
    BY <1>2 DEF Idle, Alike
  <2>2. QED
    BY <1>1, <2>1
<1>3. ASSUME NEW c \in Clusters, NEW filter \in Filters, ListAccounting(c, filter)
      PROVE  AccountingHasCause'
  <2>1. /\ HasHead(c) => Ask("list", c, None, filter) \in flight'
        /\ past'.silent = (past.silent \/ ~HasHead(c))
    BY <1>3, ListAccountingFields
  <2>2. CASE HasHead(c)
    BY <2>1, <2>2, AskFields DEF AccountingHasCause, InFlight, Accounts
  <2>3. CASE ~HasHead(c)
    <3>1. past'.silent = TRUE
      BY <2>1, <2>3
    <3>2. QED
      BY <3>1 DEF AccountingHasCause
  <2>4. QED
    BY <2>2, <2>3
<1>4. ASSUME NEW t \in Tabs, OpenTab(t) PROVE AccountingHasCause'
  <2>1. /\ view.cluster \in Clusters
        /\ \A f \in flight : \E g \in flight' : Alike(f, g)
        /\ \/ search' = search /\ past'.silent = past.silent
           \/ ListAccounting(view.cluster, search.filter) /\ search.filter \in Filters
    BY <1>4, OpenTabFields
  <2>2. QED
    BY <1>1, <1>3, <2>1 DEF Alike
<1>5. ASSUME NEW c \in Clusters \cup {None}, Leave(c) PROVE AccountingHasCause'
  <2>1. /\ \A f \in flight : \E g \in flight' : Alike(f, g)
        /\ search' = search /\ past'.silent = past.silent
    BY <1>5, LeaveFields
  <2>2. QED
    BY <1>1, <2>1 DEF Alike
<1>6. ASSUME NEW j \in Jobs, SelectJob(j) PROVE AccountingHasCause'
  <2>1. flight \subseteq flight' /\ search' = search /\ past'.silent = past.silent
    BY <1>6, SelectJobFields
  <2>2. QED
    BY <1>1, <2>1
<1>7. ASSUME NEW j \in Jobs, NEW from \in {"table", "modal"}, CancelJob(j, from)
      PROVE  AccountingHasCause'
  <2>1. flight \subseteq flight' /\ search' = search /\ past'.silent = past.silent
    BY <1>7, CancelJobFields
  <2>2. QED
    BY <1>1, <2>1
<1>8. ASSUME NEW filter \in Filters, Refresh(filter) PROVE AccountingHasCause'
  BY <1>3, <1>8, RefreshFields
<1>9. ASSUME NEW j \in Jobs, SelectPastJob(j) PROVE AccountingHasCause'
  <2>1. /\ HasHead(view.cluster) => Ask("job", view.cluster, j, None) \in flight'
        /\ past'.silent = (past.silent \/ ~HasHead(view.cluster))
    BY <1>9, SelectPastJobFields
  <2>2. CASE HasHead(view.cluster)
    BY <2>1, <2>2, AskFields DEF AccountingHasCause, InFlight, Accounts
  <2>3. CASE ~HasHead(view.cluster)
    <3>1. past'.silent = TRUE
      BY <2>1, <2>3
    <3>2. QED
      BY <3>1 DEF AccountingHasCause
  <2>4. QED
    BY <2>2, <2>3
<1>10. ASSUME NEW a \in {"stop", "start"}, ActOnHeadNode(a) PROVE AccountingHasCause'
  <2>1. flight \subseteq flight' /\ search' = search /\ past'.silent = past.silent
    BY <1>10, ActOnHeadNodeFields
  <2>2. QED
    BY <1>1, <2>1
<1>11. ASSUME RefreshEvents PROVE AccountingHasCause'
  <2>1. flight \subseteq flight' /\ search' = search /\ past'.silent = past.silent
    BY <1>11, RefreshEventsFields
  <2>2. QED
    BY <1>1, <2>1
<1>12. ASSUME NEW f \in flight, Receive(f) PROVE AccountingHasCause'
  <2>1. ASSUME f.cmd \notin Accounts, flight \ {f} \subseteq flight', search' = search,
               past'.silent = past.silent
        PROVE  AccountingHasCause'
    BY <1>1, <2>1
  <2>2. CASE QueueArrives(f)
    <3>1. f.cmd = "queue" /\ flight' = flight \ {f} /\ search' = search /\ past' = past
      BY <2>2, QueueArrivesFields
    <3>2. QED
      BY <2>1, <3>1 DEF Accounts
  <2>3. CASE CancelArrives(f)
    <3>1. /\ f.cmd = "cancel" /\ flight \ {f} \subseteq flight' /\ search' = search
          /\ past'.silent = past.silent
      BY <2>3, CancelArrivesFields
    <3>2. QED
      BY <2>1, <3>1 DEF Accounts
  <2>4. CASE InfoArrives(f)
    <3>1. /\ f.cmd = "info" /\ flight' = flight \ {f} /\ search' = search
          /\ past'.silent = past.silent
      BY <2>4, InfoArrivesFields
    <3>2. QED
      BY <2>1, <3>1 DEF Accounts
  <2>5. CASE AccountingArrives(f)
    BY <2>5, AccountingArrivesFields DEF AccountingHasCause
  <2>6. CASE NodesArrive(f)
    <3>1. f.cmd = "nodes" /\ flight' = flight \ {f} /\ search' = search /\ past' = past
      BY <2>6, NodesArriveFields
    <3>2. QED
      BY <2>1, <3>1 DEF Accounts
  <2>7. CASE Ec2Arrives(f)
    <3>1. f.cmd = "ec2" /\ flight \ {f} \subseteq flight' /\ search' = search /\ past' = past
      BY <2>7, Ec2ArrivesFields
    <3>2. QED
      BY <2>1, <3>1 DEF Accounts
  <2>8. CASE EventsArrive(f)
    <3>1. f.cmd = "events" /\ flight' = flight \ {f} /\ search' = search /\ past' = past
      BY <2>8, EventsArriveFields
    <3>2. QED
      BY <2>1, <3>1 DEF Accounts
  <2>9. CASE FailureArrives(f)
    <3>1. /\ flight' = flight \ {f}
          /\ search' = search \/ (f.cmd \in Accounts /\ search'.pending = FALSE)
          /\ f.cmd \in Accounts => search'.pending = FALSE \/ past'.silent = TRUE
          /\ f.cmd \notin Accounts => past'.silent = past.silent
      BY <2>9, FailureArrivesFields
    <3>2. CASE f.cmd \in Accounts
      BY <3>1, <3>2 DEF AccountingHasCause
    <3>3. CASE f.cmd \notin Accounts
      BY <2>1, <3>1, <3>3
    <3>4. QED
      BY <3>2, <3>3
  <2>10. QED
    BY <1>12, <2>2, <2>3, <2>4, <2>5, <2>6, <2>7, <2>8, <2>9 DEF Receive
<1>13. QED
  BY <1>2, <1>4, <1>5, <1>6, <1>7, <1>8, <1>9, <1>10, <1>11, <1>12, Steps

\* The stack events shown, or asked for, are those of the cluster selected.
LEMMA EventsWaitKept ==
  ASSUME Kinds, EventsOnTheirWay, [Next]_vars
  PROVE  EventsOnTheirWay'
<1>0. events \in [Clusters -> BOOLEAN]
      /\ (view.tab = "events" => view.cluster \in Clusters)
  BY KindFields DEF ViewFits
<1>1. ASSUME \A f \in flight : f.cmd = "events" => \E g \in flight' : Alike(f, g),
             view' = view, events' = events, past.lost => past'.lost
      PROVE  EventsOnTheirWay'
  BY <1>1 DEF EventsOnTheirWay, InFlight, Alike
<1>a. \A f : Alike(f, f)
  BY DEF Alike
<1>2. CASE Idle
  BY <1>1, <1>2 DEF Idle
<1>3. ASSUME NEW t \in Tabs, OpenTab(t) PROVE EventsOnTheirWay'
  <2>1. /\ view'.cluster = view.cluster /\ view'.tab = t
        /\ t = "events" => Ask("events", view.cluster, None, None) \in flight'
    BY <1>3, OpenTabFields
  <2>2. QED
    BY <2>1, AskFields DEF EventsOnTheirWay, InFlight
<1>4. ASSUME NEW c \in Clusters \cup {None}, Leave(c) PROVE EventsOnTheirWay'
  <2>1. view' = [cluster |-> c, tab |-> "details"]
    BY <1>4, LeaveFields
  <2>2. QED
    BY <2>1 DEF EventsOnTheirWay
<1>5. ASSUME NEW j \in Jobs, SelectJob(j) PROVE EventsOnTheirWay'
  <2>1. flight \subseteq flight' /\ view' = view /\ events' = events /\ past'.lost = past.lost
    BY <1>5, SelectJobFields
  <2>2. QED
    BY <1>1, <1>a, <2>1
<1>6. ASSUME NEW j \in Jobs, NEW from \in {"table", "modal"}, CancelJob(j, from)
      PROVE  EventsOnTheirWay'
  <2>1. flight \subseteq flight' /\ view' = view /\ events' = events /\ past'.lost = past.lost
    BY <1>6, CancelJobFields
  <2>2. QED
    BY <1>1, <1>a, <2>1
<1>7. ASSUME NEW filter \in Filters, Refresh(filter) PROVE EventsOnTheirWay'
  <2>1. flight \subseteq flight' /\ view' = view /\ events' = events /\ past'.lost = past.lost
    BY <1>7, RefreshFields, ListAccountingFields
  <2>2. QED
    BY <1>1, <1>a, <2>1
<1>8. ASSUME NEW j \in Jobs, SelectPastJob(j) PROVE EventsOnTheirWay'
  <2>1. flight \subseteq flight' /\ view' = view /\ events' = events /\ past'.lost = past.lost
    BY <1>8, SelectPastJobFields
  <2>2. QED
    BY <1>1, <1>a, <2>1
<1>9. ASSUME NEW a \in {"stop", "start"}, ActOnHeadNode(a) PROVE EventsOnTheirWay'
  <2>1. flight \subseteq flight' /\ view' = view /\ events' = events /\ past'.lost = past.lost
    BY <1>9, ActOnHeadNodeFields
  <2>2. QED
    BY <1>1, <1>a, <2>1
<1>10. ASSUME RefreshEvents PROVE EventsOnTheirWay'
  <2>1. Ask("events", view.cluster, None, None) \in flight' /\ view' = view
    BY <1>10, RefreshEventsFields
  <2>2. QED
    BY <2>1, AskFields DEF EventsOnTheirWay, InFlight
<1>11. ASSUME NEW f \in flight, Receive(f) PROVE EventsOnTheirWay'
  <2>1. ASSUME f.cmd # "events", flight \ {f} \subseteq flight', view' = view, events' = events,
               past.lost => past'.lost
        PROVE  EventsOnTheirWay'
    BY <1>1, <1>a, <2>1
  <2>2. CASE QueueArrives(f)
    <3>1. /\ f.cmd = "queue" /\ flight' = flight \ {f} /\ view' = view /\ events' = events
          /\ past' = past
      BY <2>2, QueueArrivesFields
    <3>2. QED
      BY <2>1, <3>1
  <2>3. CASE CancelArrives(f)
    <3>1. /\ f.cmd = "cancel" /\ flight \ {f} \subseteq flight' /\ view' = view
          /\ events' = events /\ past'.lost = past.lost
      BY <2>3, CancelArrivesFields
    <3>2. QED
      BY <2>1, <3>1
  <2>4. CASE InfoArrives(f)
    <3>1. /\ f.cmd = "info" /\ flight' = flight \ {f} /\ view' = view /\ events' = events
          /\ past'.lost = past.lost
      BY <2>4, InfoArrivesFields
    <3>2. QED
      BY <2>1, <3>1
  <2>5. CASE AccountingArrives(f)
    <3>1. /\ f.cmd \in Accounts /\ flight' = flight \ {f} /\ view' = view /\ events' = events
          /\ past'.lost = past.lost
      BY <2>5, AccountingArrivesFields
    <3>2. QED
      BY <2>1, <3>1 DEF Accounts
  <2>6. CASE NodesArrive(f)
    <3>1. /\ f.cmd = "nodes" /\ flight' = flight \ {f} /\ view' = view /\ events' = events
          /\ past' = past
      BY <2>6, NodesArriveFields
    <3>2. QED
      BY <2>1, <3>1
  <2>7. CASE Ec2Arrives(f)
    <3>1. /\ f.cmd = "ec2" /\ flight \ {f} \subseteq flight' /\ view' = view /\ events' = events
          /\ past' = past
      BY <2>7, Ec2ArrivesFields
    <3>2. QED
      BY <2>1, <3>1
  <2>8. CASE EventsArrive(f)
    <3>1. /\ flight' = flight \ {f} /\ view' = view /\ events' = [events EXCEPT ![f.of] = TRUE]
          /\ past' = past
      BY <2>8, EventsArriveFields
    <3>2. CASE view.tab = "events" /\ f.of = view.cluster
      <4>1. events'[view.cluster]
        BY <1>0, <3>1, <3>2
      <4>2. QED
        BY <3>1, <4>1 DEF EventsOnTheirWay
    <3>3. CASE view.tab = "events" /\ f.of # view.cluster
      <4>1. events'[view.cluster] = events[view.cluster]
        BY <1>0, <3>1, <3>3
      <4>2. QED
        BY <3>1, <3>3, <4>1 DEF EventsOnTheirWay, InFlight
    <3>4. QED
      BY <3>1, <3>2, <3>3 DEF EventsOnTheirWay
  <2>9. CASE FailureArrives(f)
    <3>1. /\ flight' = flight \ {f} /\ view' = view /\ events' = events
          /\ past.lost => past'.lost
          /\ f.cmd = "events" => past'.lost
      BY <2>9, FailureArrivesFields
    <3>2. CASE f.cmd = "events"
      BY <3>1, <3>2 DEF EventsOnTheirWay
    <3>3. CASE f.cmd # "events"
      BY <2>1, <3>1, <3>3
    <3>4. QED
      BY <3>2, <3>3
  <2>10. QED
    BY <1>11, <2>2, <2>3, <2>4, <2>5, <2>6, <2>7, <2>8, <2>9 DEF Receive
<1>12. QED
  BY <1>2, <1>3, <1>4, <1>5, <1>6, <1>7, <1>8, <1>9, <1>10, <1>11, Steps

-----------------------------------------------------------------------------
(* What is shown.                                                          *)

\* An open window is of the cluster selected, and shows the job asked for last or
\* waits for it.
Windowed ==
  modal.open /\ ~past.stray =>
    /\ past.info.of = view.cluster
    /\ modal.data # None => modal.data.of = past.info.of /\ modal.data.job = past.info.job

LEMMA WindowedKept ==
  ASSUME Kinds, Windowed, [Next]_vars
  PROVE  Windowed'
<1>1. ASSUME modal'.open => modal.open, modal'.data = modal.data,
             view'.cluster = view.cluster, past.stray => past'.stray, past'.info = past.info
      PROVE  Windowed'
  BY <1>1 DEF Windowed
<1>2. CASE Idle
  BY <1>1, <1>2 DEF Idle
<1>3. ASSUME NEW t \in Tabs, OpenTab(t) PROVE Windowed'
  <2>1. /\ modal' = modal /\ view'.cluster = view.cluster /\ past'.stray = past.stray
        /\ past'.info = past.info
    BY <1>3, OpenTabFields
  <2>2. QED
    BY <1>1, <2>1
<1>4. ASSUME NEW c \in Clusters \cup {None}, Leave(c) PROVE Windowed'
  <2>1. /\ view' = [cluster |-> c, tab |-> "details"] /\ modal' = modal
        /\ past'.stray = (past.stray \/ (modal.open /\ c # view.cluster))
        /\ past'.info = past.info
    BY <1>4, LeaveFields
  <2>2. view'.cluster = c
    BY <2>1
  <2>3. QED
    BY <2>1, <2>2 DEF Windowed
<1>5. ASSUME NEW j \in Jobs, SelectJob(j) PROVE Windowed'
  <2>1. /\ modal'.data = None /\ view' = view /\ view.cluster \in Clusters
        /\ \/ past'.info = [of |-> view.cluster, job |-> j]
           \/ modal'.open = FALSE
    BY <1>5, SelectJobFields
  <2>2. CASE modal'.open = FALSE
    BY <2>2 DEF Windowed
  <2>3. CASE past'.info = [of |-> view.cluster, job |-> j]
    <3>1. past'.info.of = view.cluster
      BY <2>3
    <3>2. QED
      BY <2>1, <3>1 DEF Windowed
  <2>4. QED
    BY <2>1, <2>2, <2>3
<1>6. ASSUME NEW j \in Jobs, NEW from \in {"table", "modal"}, CancelJob(j, from) PROVE Windowed'
  <2>1. /\ modal' = modal /\ view' = view /\ past'.stray = past.stray /\ past'.info = past.info
    BY <1>6, CancelJobFields
  <2>2. QED
    BY <1>1, <2>1
<1>7. ASSUME NEW filter \in Filters, Refresh(filter) PROVE Windowed'
  <2>1. /\ modal' = modal /\ view' = view /\ past'.stray = past.stray /\ past'.info = past.info
    BY <1>7, RefreshFields, ListAccountingFields
  <2>2. QED
    BY <1>1, <2>1
<1>8. ASSUME NEW j \in Jobs, SelectPastJob(j) PROVE Windowed'
  <2>1. /\ modal' = modal /\ view' = view /\ past'.stray = past.stray /\ past'.info = past.info
    BY <1>8, SelectPastJobFields
  <2>2. QED
    BY <1>1, <2>1
<1>9. ASSUME NEW a \in {"stop", "start"}, ActOnHeadNode(a) PROVE Windowed'
  <2>1. /\ modal' = modal /\ view' = view /\ past'.stray = past.stray /\ past'.info = past.info
    BY <1>9, ActOnHeadNodeFields
  <2>2. QED
    BY <1>1, <2>1
<1>10. ASSUME RefreshEvents PROVE Windowed'
  <2>1. /\ modal' = modal /\ view' = view /\ past'.stray = past.stray /\ past'.info = past.info
    BY <1>10, RefreshEventsFields
  <2>2. QED
    BY <1>1, <2>1
<1>11. ASSUME NEW f \in flight, Receive(f) PROVE Windowed'
  <2>1. CASE QueueArrives(f)
    BY <1>1, <2>1, QueueArrivesFields
  <2>2. CASE CancelArrives(f)
    BY <1>1, <2>2, CancelArrivesFields
  <2>3. CASE InfoArrives(f)
    <3>1. /\ modal'.open = modal.open /\ modal'.data.of = f.of /\ modal'.data.job = f.job
          /\ past'.stray = (past.stray \/ past.info # [of |-> f.of, job |-> f.job])
          /\ past'.info = past.info /\ view' = view
      BY <2>3, InfoArrivesFields
    <3>2. SUFFICES ASSUME modal'.open, ~past'.stray
                   PROVE  /\ past.info.of = view.cluster
                          /\ modal'.data.of = past.info.of /\ modal'.data.job = past.info.job
      BY <3>1 DEF Windowed
    <3>3. ~past.stray /\ past.info = [of |-> f.of, job |-> f.job] /\ modal.open
      BY <3>1, <3>2
    <3>4. past.info.of = f.of /\ past.info.job = f.job
      BY <3>3
    <3>5. QED
      BY <3>1, <3>3, <3>4 DEF Windowed
  <2>4. CASE AccountingArrives(f)
    BY <1>1, <2>4, AccountingArrivesFields
  <2>5. CASE NodesArrive(f)
    BY <1>1, <2>5, NodesArriveFields
  <2>6. CASE Ec2Arrives(f)
    BY <1>1, <2>6, Ec2ArrivesFields
  <2>7. CASE EventsArrive(f)
    BY <1>1, <2>7, EventsArriveFields
  <2>8. CASE FailureArrives(f)
    BY <1>1, <2>8, FailureArrivesFields
  <2>9. QED
    BY <1>11, <2>1, <2>2, <2>3, <2>4, <2>5, <2>6, <2>7, <2>8 DEF Receive
<1>12. QED
  BY <1>2, <1>3, <1>4, <1>5, <1>6, <1>7, <1>8, <1>9, <1>10, <1>11, Steps

\* A Stop Job that was sent names the cluster its job was seen on.
LEMMA StopsShownKept ==
  ASSUME Kinds, Windowed, StopsWhatIsShown, [Next]_vars
  PROVE  StopsWhatIsShown'
<1>1. ASSUME \A g \in flight' : g.cmd = "cancel" => \E f \in flight : Alike(f, g)
      PROVE  StopsWhatIsShown'
  BY <1>1 DEF StopsWhatIsShown, InFlight, Alike
<1>a. \A f : Alike(f, f)
  BY DEF Alike
<1>2. CASE Idle
  BY <1>1, <1>2 DEF Idle
<1>b. ASSUME NEW c \in Clusters, NEW filter \in Filters, ListAccounting(c, filter)
      PROVE  StopsWhatIsShown'
  <2>1. \A g \in flight' \ flight : g = Ask("list", c, None, filter)
    BY <1>b, ListAccountingFields
  <2>2. QED
    BY <1>1, <1>a, <2>1, AskFields
<1>3. ASSUME NEW t \in Tabs, OpenTab(t) PROVE StopsWhatIsShown'
  <2>1. /\ view.cluster \in Clusters
        /\ \/ \A g \in flight' : g.cmd \in {"queue", "nodes", "events"} \/ \E f \in flight : Alike(f, g)
           \/ ListAccounting(view.cluster, search.filter) /\ search.filter \in Filters
    BY <1>3, OpenTabFields
  <2>2. QED
    BY <1>1, <1>b, <2>1
<1>4. ASSUME NEW c \in Clusters \cup {None}, Leave(c) PROVE StopsWhatIsShown'
  BY <1>1, <1>4, LeaveFields
<1>5. ASSUME NEW j \in Jobs, SelectJob(j) PROVE StopsWhatIsShown'
  <2>1. \/ flight' = flight \cup {Ask("info", view.cluster, j, None)}
        \/ flight' = flight
    BY <1>5, SelectJobFields
  <2>2. QED
    BY <1>1, <1>a, <2>1, AskFields
<1>6. ASSUME NEW j \in Jobs, NEW from \in {"table", "modal"}, CancelJob(j, from)
      PROVE  StopsWhatIsShown'
  <2>1. PICK f : /\ flight' = flight \cup {f} /\ f.of = view.cluster
                 /\ \/ f.shown \in {None, view.cluster}
                    \/ modal.open /\ ~past.stray /\ modal.data # None /\ f.shown = modal.data.of
    BY <1>6, CancelJobFields
  <2>2. f.shown \in {None, f.of}
    BY <2>1 DEF Windowed
  <2>3. QED
    BY <2>1, <2>2 DEF StopsWhatIsShown, InFlight
<1>7. ASSUME NEW filter \in Filters, Refresh(filter) PROVE StopsWhatIsShown'
  BY <1>b, <1>7, RefreshFields
<1>8. ASSUME NEW j \in Jobs, SelectPastJob(j) PROVE StopsWhatIsShown'
  <2>1. \A g \in flight' \ flight : g = Ask("job", view.cluster, j, None)
    BY <1>8, SelectPastJobFields
  <2>2. QED
    BY <1>1, <1>a, <2>1, AskFields
<1>9. ASSUME NEW a \in {"stop", "start"}, ActOnHeadNode(a) PROVE StopsWhatIsShown'
  <2>1. flight' = flight \cup {Ask("ec2", view.cluster, a, "button")}
    BY <1>9, ActOnHeadNodeFields
  <2>2. QED
    BY <1>1, <1>a, <2>1, AskFields
<1>10. ASSUME RefreshEvents PROVE StopsWhatIsShown'
  <2>1. flight' = flight \cup {Ask("events", view.cluster, None, None)}
    BY <1>10, RefreshEventsFields
  <2>2. QED
    BY <1>1, <1>a, <2>1, AskFields
<1>11. ASSUME NEW f \in flight, Receive(f) PROVE StopsWhatIsShown'
  <2>1. ASSUME flight' = flight \ {f} PROVE StopsWhatIsShown'
    BY <1>1, <1>a, <2>1
  <2>2. CASE CancelArrives(f)
    <3>1. /\ flight' = (flight \ {f}) \cup RefreshQueues(f.job, f.for)
          /\ \A g \in RefreshQueues(f.job, f.for) : g.cmd = "queue"
      BY <2>2, CancelArrivesFields
    <3>2. QED
      BY <1>1, <1>a, <3>1
  <2>3. CASE Ec2Arrives(f)
    <3>1. \/ flight' = (flight \ {f}) \cup {Ask("nodes", view.cluster, None, f.for)}
          \/ flight' = flight \ {f}
      BY <2>3, Ec2ArrivesFields
    <3>2. QED
      BY <1>1, <1>a, <3>1, AskFields
  <2>4. QED
    BY <1>11, <2>1, <2>2, <2>3, QueueArrivesFields, InfoArrivesFields, AccountingArrivesFields,
       NodesArriveFields, EventsArriveFields, FailureArrivesFields DEF Receive
<1>12. QED
  BY <1>2, <1>3, <1>4, <1>5, <1>6, <1>7, <1>8, <1>9, <1>10, <1>11, Steps

\* While no requests of a cluster's accounting overlapped, those under way are for
\* the filter and the job asked for last.
Ordered ==
  \A c \in Clusters : past.order[c] # "mixed" =>
    \A f \in Accounting(c) : /\ f.cmd = "list" => f.for = past.filter[c]
                             /\ f.cmd = "job" => f.job = past.job[c]

\* The steps that neither ask for accounting nor show it.
LEMMA AccountingApart ==
  ASSUME Kinds, Ordered, AccountingInStep,
         \A g \in flight' : g.cmd \in Accounts => \E f \in flight : Alike(f, g),
         past'.order = past.order, past'.filter = past.filter, past'.job = past.job,
         \A c \in Clusters : /\ accounting'[c].list = accounting[c].list
                             /\ accounting'[c].selectedJob = accounting[c].selectedJob
                             /\ accounting'[c].dialog => accounting[c].dialog
  PROVE  Ordered' /\ AccountingInStep'
<1>1. ASSUME NEW c \in Clusters, past.order[c] # "mixed", NEW g \in flight',
             g.cmd \in Accounts, g.of = c
      PROVE  /\ g.cmd = "list" => g.for = past.filter[c]
             /\ g.cmd = "job" => g.job = past.job[c]
  <2>1. PICK f \in flight : Alike(f, g)
    BY <1>1
  <2>2. f.cmd = g.cmd /\ f.of = c /\ f.job = g.job /\ (g.for = f.for \/ f.for = "button")
    BY <1>1, <2>1 DEF Alike
  <2>3. f.for # "button"
    BY <1>1, <2>2, ButtonRequests DEF Accounts
  <2>4. f \in Accounting(c)
    BY <1>1, <2>2 DEF Accounting, InFlight
  <2>5. QED
    BY <1>1, <2>2, <2>3, <2>4 DEF Ordered
<1>2. Ordered'
  BY <1>1 DEF Ordered, Accounting, InFlight
<1>3. AccountingInStep'
  BY DEF AccountingInStep
<1>4. QED
  BY <1>2, <1>3

\* A list is asked for.
LEMMA ListKeepsStep ==
  ASSUME Kinds, Ordered, AccountingInStep,
         NEW c \in Clusters, NEW filter \in Filters, ListAccounting(c, filter)
  PROVE  Ordered' /\ AccountingInStep'
<1>0. /\ accounting \in [Clusters -> [list : Filters \cup {None}, dialog : BOOLEAN,
                                      selectedJob : Jobs \cup {None}, known : SUBSET Jobs]]
      /\ past.order \in [Clusters -> {"kept", "mixed", "asked"}]
      /\ past.filter \in [Clusters -> Filters \cup {None}]
  BY KindFields, PastFields
<1>1. /\ accounting' = [accounting EXCEPT ![c].list = None]
      /\ \A g \in flight' \ flight : g = Ask("list", c, None, filter)
      /\ past'.filter = [past.filter EXCEPT ![c] = filter]
      /\ past'.order = [past.order EXCEPT ![c] = IF Accounting(c) # {} THEN "mixed"
                                                 ELSE IF @ = "mixed" THEN "asked" ELSE @]
      /\ past'.job = past.job
  BY ListAccountingFields
<1>2. /\ past'.filter[c] = filter
      /\ past'.order[c] # "mixed" => Accounting(c) = {}
      /\ past'.order[c] = "kept" => past.order[c] = "kept"
      /\ accounting'[c].list = None /\ accounting'[c].dialog = accounting[c].dialog
      /\ accounting'[c].selectedJob = accounting[c].selectedJob
  <2>1. past'.filter[c] = filter
    BY <1>0, <1>1
  <2>2. /\ past'.order[c] # "mixed" => Accounting(c) = {}
        /\ past'.order[c] = "kept" => past.order[c] = "kept"
    BY <1>0, <1>1
  <2>3. /\ accounting'[c].list = None /\ accounting'[c].dialog = accounting[c].dialog
        /\ accounting'[c].selectedJob = accounting[c].selectedJob
    BY <1>0, <1>1
  <2>4. QED
    BY <2>1, <2>2, <2>3
<1>3. ASSUME NEW b \in Clusters, b # c
      PROVE  /\ past'.filter[b] = past.filter[b] /\ past'.order[b] = past.order[b]
             /\ accounting'[b] = accounting[b]
  BY <1>0, <1>1, <1>3
<1>4. ASSUME NEW b \in Clusters, past'.order[b] # "mixed", NEW g \in flight',
             g.cmd \in Accounts, g.of = b
      PROVE  /\ g.cmd = "list" => g.for = past'.filter[b]
             /\ g.cmd = "job" => g.job = past'.job[b]
  <2>1. CASE g \in flight
    <3>1. g \in Accounting(b)
      BY <1>4, <2>1 DEF Accounting, InFlight
    <3>2. b # c
      BY <1>2, <1>4, <3>1
    <3>3. QED
      BY <1>1, <1>3, <1>4, <3>1, <3>2 DEF Ordered
  <2>2. CASE g \notin flight
    <3>1. g = Ask("list", c, None, filter)
      BY <1>1, <1>4, <2>2
    <3>2. g.cmd = "list" /\ g.for = filter /\ b = c
      BY <1>4, <3>1, AskFields
    <3>3. QED
      BY <1>2, <3>2
  <2>3. QED
    BY <2>1, <2>2
<1>5. Ordered'
  BY <1>4 DEF Ordered, Accounting, InFlight
<1>6. ASSUME NEW b \in Clusters, past'.order[b] = "kept"
      PROVE  /\ accounting'[b].list \in {None, past'.filter[b]}
             /\ accounting'[b].dialog => accounting'[b].selectedJob \in {None, past'.job[b]}
  BY <1>1, <1>2, <1>3, <1>6 DEF AccountingInStep
<1>7. QED
  BY <1>5, <1>6 DEF AccountingInStep

\* A past job is asked for.
LEMMA PastJobKeepsStep ==
  ASSUME Kinds, Ordered, AccountingInStep, NEW j \in Jobs, SelectPastJob(j)
  PROVE  Ordered' /\ AccountingInStep'
<1> DEFINE c == view.cluster
           Account == [list : Filters \cup {None}, dialog : BOOLEAN,
                       selectedJob : Jobs \cup {None}, known : SUBSET Jobs]
<1>0. /\ accounting \in [Clusters -> Account]
      /\ past.order \in [Clusters -> {"kept", "mixed", "asked"}]
      /\ past.job \in [Clusters -> Jobs \cup {None}]
  BY KindFields, PastFields
<1>1. /\ c \in Clusters
      /\ accounting' = [accounting EXCEPT ![c].dialog = TRUE, ![c].selectedJob = None,
                                          ![c].known = @ \ {j}]
      /\ \A g \in flight' \ flight : g = Ask("job", c, j, None)
      /\ past'.job = [past.job EXCEPT ![c] = j]
      /\ past'.order = [past.order EXCEPT ![c] = IF Accounting(c) # {} THEN "mixed" ELSE @]
      /\ past'.filter = past.filter
  BY SelectPastJobFields
<1>2. /\ past'.job[c] = j
      /\ past'.order[c] # "mixed" => Accounting(c) = {} /\ past'.order[c] = past.order[c]
      /\ accounting'[c].list = accounting[c].list /\ accounting'[c].selectedJob = None
  <2>1. past'.job[c] = j
    BY <1>0, <1>1
  <2>2. past'.order[c] # "mixed" => Accounting(c) = {} /\ past'.order[c] = past.order[c]
    BY <1>0, <1>1
  <2>3. accounting'[c].list = accounting[c].list /\ accounting'[c].selectedJob = None
    <3> DEFINE q == accounting[c]
               r == [q EXCEPT !.dialog = TRUE, !.selectedJob = None, !.known = @ \ {j}]
    <3>1. q \in Account
      BY <1>0, <1>1
    <3>2. accounting' = [accounting EXCEPT ![c] = r]
      BY <1>0, <1>1
    <3>3. r.list = q.list /\ r.selectedJob = None
      <4> HIDE DEF q
      <4>1. QED
        BY <3>1
    <3> HIDE DEF r
    <3>4. accounting'[c] = r
      BY <1>0, <1>1, <3>2
    <3>5. QED
      BY <3>3, <3>4
  <2>4. QED
    BY <2>1, <2>2, <2>3
<1>3. ASSUME NEW b \in Clusters, b # c
      PROVE  /\ past'.job[b] = past.job[b] /\ past'.order[b] = past.order[b]
             /\ accounting'[b] = accounting[b]
  BY <1>0, <1>1, <1>3
<1> HIDE DEF c
<1>4. ASSUME NEW b \in Clusters, past'.order[b] # "mixed", NEW g \in flight',
             g.cmd \in Accounts, g.of = b
      PROVE  /\ g.cmd = "list" => g.for = past'.filter[b]
             /\ g.cmd = "job" => g.job = past'.job[b]
  <2>1. CASE g \in flight
    <3>1. g \in Accounting(b)
      BY <1>4, <2>1 DEF Accounting, InFlight
    <3>2. b # c
      BY <1>2, <1>4, <3>1
    <3>3. QED
      BY <1>1, <1>3, <1>4, <3>1, <3>2 DEF Ordered
  <2>2. CASE g \notin flight
    <3>1. g = Ask("job", c, j, None)
      BY <1>1, <1>4, <2>2
    <3>2. g.cmd = "job" /\ g.job = j /\ b = c
      BY <1>4, <3>1, AskFields
    <3>3. QED
      BY <1>2, <3>2
  <2>3. QED
    BY <2>1, <2>2
<1>5. Ordered'
  BY <1>4 DEF Ordered, Accounting, InFlight
<1>6. ASSUME NEW b \in Clusters, past'.order[b] = "kept"
      PROVE  /\ accounting'[b].list \in {None, past'.filter[b]}
             /\ accounting'[b].dialog => accounting'[b].selectedJob \in {None, past'.job[b]}
  <2>1. CASE b = c
    <3>1. past.order[c] = "kept"
      BY <1>2, <1>6, <2>1
    <3>2. accounting[c].list \in {None, past.filter[c]}
      BY <1>1, <3>1 DEF AccountingInStep
    <3>3. QED
      BY <1>1, <1>2, <2>1, <3>2
  <2>2. CASE b # c
    BY <1>1, <1>3, <1>6, <2>2 DEF AccountingInStep
  <2>3. QED
    BY <2>1, <2>2
<1>7. QED
  BY <1>5, <1>6 DEF AccountingInStep

\* A list, or a job, is shown.
LEMMA AnswerKeepsStep ==
  ASSUME Kinds, Ordered, AccountingInStep, NEW f \in flight, AccountingArrives(f)
  PROVE  Ordered' /\ AccountingInStep'
<1> DEFINE Account == [list : Filters \cup {None}, dialog : BOOLEAN,
                       selectedJob : Jobs \cup {None}, known : SUBSET Jobs]
<1>0. /\ accounting \in [Clusters -> Account]
      /\ past.order \in [Clusters -> {"kept", "mixed", "asked"}]
  BY KindFields, PastFields
<1>1. /\ f.cmd \in Accounts /\ f.of \in Clusters /\ flight' = flight \ {f}
      /\ \E r \in Account :
           /\ accounting' = [accounting EXCEPT ![f.of] = r]
           /\ f.cmd = "list" => r.list = f.for /\ r.dialog = FALSE
           /\ f.cmd = "job" => /\ r.list = accounting[f.of].list /\ r.selectedJob = f.job
                               /\ r.dialog = accounting[f.of].dialog
      /\ past'.order = [past.order EXCEPT ![f.of] =
                          IF f.cmd = "list" /\ @ = "asked" THEN "kept" ELSE @]
      /\ past'.filter = past.filter /\ past'.job = past.job
  BY AccountingArrivesFields
<1>2. PICK r \in Account :
        /\ accounting' = [accounting EXCEPT ![f.of] = r]
        /\ f.cmd = "list" => r.list = f.for /\ r.dialog = FALSE
        /\ f.cmd = "job" => /\ r.list = accounting[f.of].list /\ r.selectedJob = f.job
                            /\ r.dialog = accounting[f.of].dialog
  BY <1>1
<1>3. /\ accounting'[f.of] = r
      /\ past'.order[f.of] # "mixed" => past.order[f.of] # "mixed"
      /\ past'.order[f.of] = "kept" => past.order[f.of] = "kept" \/ f.cmd = "list"
  <2>1. accounting'[f.of] = r
    BY <1>0, <1>1, <1>2
  <2>2. /\ past'.order[f.of] # "mixed" => past.order[f.of] # "mixed"
        /\ past'.order[f.of] = "kept" => past.order[f.of] = "kept" \/ f.cmd = "list"
    BY <1>0, <1>1
  <2>3. QED
    BY <2>1, <2>2
<1>4. ASSUME NEW b \in Clusters, b # f.of
      PROVE  accounting'[b] = accounting[b] /\ past'.order[b] = past.order[b]
  BY <1>0, <1>1, <1>2, <1>4
<1>5. \A b \in Clusters : past'.order[b] # "mixed" => past.order[b] # "mixed"
  BY <1>3, <1>4
<1>6. Ordered'
  <2>1. ASSUME NEW b \in Clusters, past'.order[b] # "mixed", NEW g \in flight',
               g.cmd \in Accounts, g.of = b
        PROVE  /\ g.cmd = "list" => g.for = past'.filter[b]
               /\ g.cmd = "job" => g.job = past'.job[b]
    <3>1. g \in Accounting(b)
      BY <1>1, <2>1 DEF Accounting, InFlight
    <3>2. QED
      BY <1>1, <1>5, <2>1, <3>1 DEF Ordered
  <2>2. QED
    BY <2>1 DEF Ordered, Accounting, InFlight
<1>7. ASSUME past'.order[f.of] = "kept"
      PROVE  /\ r.list \in {None, past.filter[f.of]}
             /\ r.dialog => r.selectedJob \in {None, past.job[f.of]}
  <2>1. f \in Accounting(f.of) /\ past.order[f.of] # "mixed"
    BY <1>1, <1>3, <1>7 DEF Accounting, InFlight
  <2>2. /\ f.cmd = "list" => f.for = past.filter[f.of]
        /\ f.cmd = "job" => f.job = past.job[f.of]
    BY <1>1, <2>1 DEF Ordered
  <2>3. CASE f.cmd = "list"
    BY <1>2, <2>2, <2>3
  <2>4. CASE f.cmd = "job"
    <3>1. past.order[f.of] = "kept"
      BY <1>3, <1>7, <2>4
    <3>2. accounting[f.of].list \in {None, past.filter[f.of]}
      BY <1>1, <3>1 DEF AccountingInStep
    <3>3. QED
      BY <1>2, <2>2, <2>4, <3>2
  <2>5. QED
    BY <1>1, <2>3, <2>4 DEF Accounts
<1>8. ASSUME NEW b \in Clusters, past'.order[b] = "kept"
      PROVE  /\ accounting'[b].list \in {None, past'.filter[b]}
             /\ accounting'[b].dialog => accounting'[b].selectedJob \in {None, past'.job[b]}
  <2>1. CASE b = f.of
    BY <1>1, <1>3, <1>7, <1>8, <2>1
  <2>2. CASE b # f.of
    BY <1>1, <1>4, <1>8, <2>2 DEF AccountingInStep
  <2>3. QED
    BY <2>1, <2>2
<1>9. QED
  BY <1>6, <1>8 DEF AccountingInStep

LEMMA StepKept ==
  ASSUME Kinds, Ordered, AccountingInStep, [Next]_vars
  PROVE  Ordered' /\ AccountingInStep'
<1>a. \A f : Alike(f, f)
  BY DEF Alike
<1>1. ASSUME \A g \in flight' : g.cmd \in Accounts => g \in flight,
             past'.order = past.order, past'.filter = past.filter, past'.job = past.job,
             accounting' = accounting
      PROVE  Ordered' /\ AccountingInStep'
  BY <1>a, <1>1, AccountingApart
<1>2. CASE Idle
  <2>1. /\ \A g \in flight' : g.cmd \in Accounts => \E f \in flight : Alike(f, g)
        /\ past' = past
        /\ \A c \in Clusters : /\ accounting'[c].list = accounting[c].list
                               /\ accounting'[c].selectedJob = accounting[c].selectedJob
                               /\ accounting'[c].dialog => accounting[c].dialog
    BY <1>2 DEF Idle, Accounts
  <2>2. QED
    BY <2>1, AccountingApart
<1>3. ASSUME NEW t \in Tabs, OpenTab(t) PROVE Ordered' /\ AccountingInStep'
  <2>1. /\ view.cluster \in Clusters
        /\ \/ /\ UNCHANGED accounting
              /\ past'.order = past.order /\ past'.filter = past.filter /\ past'.job = past.job
              /\ \A g \in flight' : g.cmd \in {"queue", "nodes", "events"}
                                    \/ \E f \in flight : Alike(f, g)
           \/ ListAccounting(view.cluster, search.filter) /\ search.filter \in Filters
    BY <1>3, OpenTabFields
  <2>2. CASE /\ UNCHANGED accounting
             /\ past'.order = past.order /\ past'.filter = past.filter /\ past'.job = past.job
             /\ \A g \in flight' : g.cmd \in {"queue", "nodes", "events"}
                                   \/ \E f \in flight : Alike(f, g)
    <3>1. \A g \in flight' : g.cmd \in Accounts => \E f \in flight : Alike(f, g)
      BY <2>2 DEF Accounts
    <3>2. QED
      BY <2>2, <3>1, AccountingApart
  <2>3. QED
    BY <2>1, <2>2, ListKeepsStep
<1>4. ASSUME NEW c \in Clusters \cup {None}, Leave(c) PROVE Ordered' /\ AccountingInStep'
  <2>1. /\ \A g \in flight' : \E f \in flight : Alike(f, g)
        /\ accounting' = accounting
        /\ past'.order = past.order /\ past'.filter = past.filter /\ past'.job = past.job
    BY <1>4, LeaveFields
  <2>2. QED
    BY <2>1, AccountingApart
<1>5. ASSUME NEW j \in Jobs, SelectJob(j) PROVE Ordered' /\ AccountingInStep'
  <2>1. /\ \/ flight' = flight \cup {Ask("info", view.cluster, j, None)}
           \/ flight' = flight
        /\ past'.order = past.order /\ past'.filter = past.filter /\ past'.job = past.job
        /\ accounting' = accounting
    BY <1>5, SelectJobFields
  <2>2. \A g \in flight' : g.cmd \in Accounts => g \in flight
    BY <2>1, AskFields DEF Accounts
  <2>3. QED
    BY <1>1, <2>1, <2>2
<1>6. ASSUME NEW j \in Jobs, NEW from \in {"table", "modal"}, CancelJob(j, from)
      PROVE  Ordered' /\ AccountingInStep'
  <2>1. /\ \E f : flight' = flight \cup {f} /\ f.cmd = "cancel"
        /\ past'.order = past.order /\ past'.filter = past.filter /\ past'.job = past.job
        /\ accounting' = accounting
    BY <1>6, CancelJobFields
  <2>2. \A g \in flight' : g.cmd \in Accounts => g \in flight
    BY <2>1 DEF Accounts
  <2>3. QED
    BY <1>1, <2>1, <2>2
<1>7. ASSUME NEW filter \in Filters, Refresh(filter) PROVE Ordered' /\ AccountingInStep'
  BY <1>7, RefreshFields, ListKeepsStep
<1>8. ASSUME NEW j \in Jobs, SelectPastJob(j) PROVE Ordered' /\ AccountingInStep'
  BY <1>8, PastJobKeepsStep
<1>9. ASSUME NEW a \in {"stop", "start"}, ActOnHeadNode(a) PROVE Ordered' /\ AccountingInStep'
  <2>1. /\ flight' = flight \cup {Ask("ec2", view.cluster, a, "button")}
        /\ past'.order = past.order /\ past'.filter = past.filter /\ past'.job = past.job
        /\ accounting' = accounting
    BY <1>9, ActOnHeadNodeFields
  <2>2. \A g \in flight' : g.cmd \in Accounts => g \in flight
    BY <2>1, AskFields DEF Accounts
  <2>3. QED
    BY <1>1, <2>1, <2>2
<1>10. ASSUME RefreshEvents PROVE Ordered' /\ AccountingInStep'
  <2>1. /\ flight' = flight \cup {Ask("events", view.cluster, None, None)}
        /\ past'.order = past.order /\ past'.filter = past.filter /\ past'.job = past.job
        /\ accounting' = accounting
    BY <1>10, RefreshEventsFields
  <2>2. \A g \in flight' : g.cmd \in Accounts => g \in flight
    BY <2>1, AskFields DEF Accounts
  <2>3. QED
    BY <1>1, <2>1, <2>2
<1>11. ASSUME NEW f \in flight, Receive(f) PROVE Ordered' /\ AccountingInStep'
  <2>1. ASSUME flight' = flight \ {f}, past' = past \/ ( /\ past'.order = past.order
               /\ past'.filter = past.filter /\ past'.job = past.job),
               accounting' = accounting
        PROVE  Ordered' /\ AccountingInStep'
    BY <1>1, <2>1
  <2>2. CASE QueueArrives(f)
    BY <2>1, <2>2, QueueArrivesFields
  <2>3. CASE CancelArrives(f)
    <3>1. /\ flight' = (flight \ {f}) \cup RefreshQueues(f.job, f.for)
          /\ \A g \in RefreshQueues(f.job, f.for) : g.cmd = "queue"
          /\ past'.order = past.order /\ past'.filter = past.filter /\ past'.job = past.job
          /\ accounting' = accounting
      BY <2>3, CancelArrivesFields
    <3>2. \A g \in flight' : g.cmd \in Accounts => g \in flight
      BY <3>1 DEF Accounts
    <3>3. QED
      BY <1>1, <3>1, <3>2
  <2>4. CASE InfoArrives(f)
    BY <2>1, <2>4, InfoArrivesFields
  <2>5. CASE AccountingArrives(f)
    BY <2>5, AnswerKeepsStep
  <2>6. CASE NodesArrive(f)
    BY <2>1, <2>6, NodesArriveFields
  <2>7. CASE Ec2Arrives(f)
    <3>1. /\ \/ flight' = (flight \ {f}) \cup {Ask("nodes", view.cluster, None, f.for)}
             \/ flight' = flight \ {f}
          /\ past' = past /\ accounting' = accounting
      BY <2>7, Ec2ArrivesFields
    <3>2. \A g \in flight' : g.cmd \in Accounts => g \in flight
      BY <3>1, AskFields DEF Accounts
    <3>3. QED
      BY <1>1, <3>1, <3>2
  <2>8. CASE EventsArrive(f)
    BY <2>1, <2>8, EventsArriveFields
  <2>9. CASE FailureArrives(f)
    BY <2>1, <2>9, FailureArrivesFields
  <2>10. QED
    BY <1>11, <2>2, <2>3, <2>4, <2>5, <2>6, <2>7, <2>8, <2>9 DEF Receive
<1>12. QED
  BY <1>2, <1>3, <1>4, <1>5, <1>6, <1>7, <1>8, <1>9, <1>10, <1>11, Steps

-----------------------------------------------------------------------------
(* What the buttons of the head node bring about.                          *)

Outcome(a) == IF a = "stop" THEN "down" ELSE "up"

\* One action asked alone: its request is the only one of its kind, and once it was
\* served the head node is as it asked; then the refresh that follows says so.
Acted ==
  \A a \in {"stop", "start"} : actions = {a} /\ ~past.rival =>
    /\ \A f, g \in flight : f.cmd = "ec2" /\ g.cmd = "ec2" => f = g
    /\ \A f \in flight :
         f.cmd = "ec2" => /\ f.of = view.cluster /\ f.job = a
                          /\ f.answer \notin NoAnswer => machines[f.of].node = Outcome(a)
    /\ \A f \in flight :
         f.cmd = "nodes" /\ f.for = "button" =>
           /\ f.of = view.cluster /\ machines[f.of].node = Outcome(a)
           /\ f.answer \in NoAnswer \cup {{Outcome(a)}}
           /\ \A g \in flight : g.cmd # "ec2"

\* The steps that no action of the head node notices.
LEMMA ActedApart ==
  ASSUME Kinds, Acted,
         \A g \in flight' : g.cmd = "ec2" \/ (g.cmd = "nodes" /\ g.for = "button") => g \in flight,
         actions' = actions, past'.rival = past.rival, machines' = machines,
         view'.cluster = view.cluster
  PROVE  Acted'
BY DEF Acted

\* An answer is of what was asked, of the machines as they then are.
LEMMA ServedFields ==
  ASSUME Kinds, NEW f \in flight, Serve(f) \/ Fail(f)
  PROVE  \E g : /\ flight' = (flight \ {f}) \cup {g}
                /\ g.cmd = f.cmd /\ g.of = f.of /\ g.job = f.job /\ g.for = f.for
                /\ \/ g.answer \in {Error, Silent} /\ machines' = machines
                   \/ /\ f.answer = None
                      /\ f.cmd = "nodes" => /\ g.answer = {machines[f.of].node}
                      /\ f.cmd = "ec2" /\ f.job \in {"stop", "start"}
                           => machines'[f.of].node = Outcome(f.job)
                      /\ f.cmd # "ec2" => \A c \in Clusters : machines'[c].node = machines[c].node
<1>0. /\ machines \in [Clusters -> [live : SUBSET Jobs, node : Power]]
      /\ f \in Request /\ f.of \in Clusters
  BY KindFields DEF Request
<1>1. CASE Fail(f)
  <2>1. PICK e \in {Error, Silent} : flight' = (flight \ {f}) \cup {[f EXCEPT !.answer = e]}
    BY <1>1 DEF Fail, Answered
  <2>2. machines' = machines
    BY <1>1 DEF Fail, cloudVars
  <2> DEFINE g == [f EXCEPT !.answer = e]
  <2>3. /\ g.cmd = f.cmd /\ g.of = f.of /\ g.job = f.job /\ g.for = f.for /\ g.answer = e
    BY <1>0 DEF Request
  <2>4. flight' = (flight \ {f}) \cup {g}
    BY <2>1
  <2> HIDE DEF g
  <2>5. QED
    BY <2>2, <2>3, <2>4
<1>2. CASE Serve(f)
  <2> DEFINE e == CASE f.cmd \in {"queue", "info"} -> Running(f.of)
                    [] f.cmd = "nodes" -> {machines[f.of].node}
                    [] OTHER -> {}
             g == [f EXCEPT !.answer = e]
             m == machines[f.of]
  <2>0. m \in [live : SUBSET Jobs, node : Power]
    BY <1>0
  <2>1. f.answer = None /\ flight' = (flight \ {f}) \cup {g}
    BY <1>2 DEF Serve, Answered
  <2>2. f.cmd = "nodes" => e = {machines[f.of].node}
    OBVIOUS
  <2> HIDE DEF e
  <2>3. /\ g.cmd = f.cmd /\ g.of = f.of /\ g.job = f.job /\ g.for = f.for /\ g.answer = e
    BY <1>0 DEF Request
  <2> HIDE DEF g
  <2>4. ASSUME f.cmd = "ec2", f.job \in {"stop", "start"}
        PROVE  machines'[f.of].node = Outcome(f.job)
    <3> DEFINE r == [m EXCEPT !.node = Outcome(f.job)]
    <3>1. machines' = [machines EXCEPT ![f.of].node = IF f.job = "stop" THEN "down" ELSE "up"]
      BY <1>2, <2>4 DEF Serve
    <3>2. machines' = [machines EXCEPT ![f.of] = r]
      BY <1>0, <3>1 DEF Outcome
    <3>3. r.node = Outcome(f.job)
      <4> HIDE DEF m
      <4>1. QED
        BY <2>0
    <3> HIDE DEF r
    <3>4. machines'[f.of] = r
      BY <1>0, <3>2
    <3>5. QED
      BY <3>3, <3>4
  <2>5. ASSUME f.cmd # "ec2", NEW c \in Clusters PROVE machines'[c].node = machines[c].node
    <3>1. \/ machines' = machines
          \/ machines' = [machines EXCEPT ![f.of].live = @ \ {f.job}]
      BY <1>2, <2>5 DEF Serve
    <3>2. CASE machines' = [machines EXCEPT ![f.of].live = @ \ {f.job}]
      <4> DEFINE r == [m EXCEPT !.live = @ \ {f.job}]
      <4>1. machines' = [machines EXCEPT ![f.of] = r]
        BY <1>0, <3>2
      <4>2. r.node = m.node
        <5> HIDE DEF m
        <5>1. QED
          BY <2>0
      <4> HIDE DEF r
      <4>3. machines'[c] = IF c = f.of THEN r ELSE machines[c]
        BY <1>0, <4>1
      <4>4. QED
        BY <4>2, <4>3
    <3>3. QED
      BY <3>1, <3>2
  <2>6. QED
    BY <2>1, <2>2, <2>3, <2>4, <2>5
<1>3. QED
  BY <1>1, <1>2

LEMMA ServedKeepsActed ==
  ASSUME Kinds, Acted, NEW f \in flight, Serve(f) \/ Fail(f)
  PROVE  Acted'
<1>1. PICK g :
        /\ flight' = (flight \ {f}) \cup {g}
        /\ g.cmd = f.cmd /\ g.of = f.of /\ g.job = f.job /\ g.for = f.for
        /\ \/ g.answer \in {Error, Silent} /\ machines' = machines
           \/ /\ f.answer = None
              /\ f.cmd = "nodes" => /\ g.answer = {machines[f.of].node}
              /\ f.cmd = "ec2" /\ f.job \in {"stop", "start"}
                   => machines'[f.of].node = Outcome(f.job)
              /\ f.cmd # "ec2" => \A c \in Clusters : machines'[c].node = machines[c].node
  BY ServedFields
<1>2. actions' = actions /\ past' = past /\ view' = view
  BY AnswerFields
<1>3. \A h \in flight : h.of \in Clusters
  BY KindFields DEF Request
<1>4. ASSUME NEW a \in {"stop", "start"}, actions = {a}, ~past.rival
      PROVE  /\ \A h, k \in flight' : h.cmd = "ec2" /\ k.cmd = "ec2" => h = k
             /\ \A h \in flight' :
                  h.cmd = "ec2" => /\ h.of = view.cluster /\ h.job = a
                                   /\ h.answer \notin NoAnswer => machines'[h.of].node = Outcome(a)
             /\ \A h \in flight' :
                  h.cmd = "nodes" /\ h.for = "button" =>
                    /\ h.of = view.cluster /\ machines'[h.of].node = Outcome(a)
                    /\ h.answer \in NoAnswer \cup {{Outcome(a)}}
                    /\ \A k \in flight' : k.cmd # "ec2"
  <2>0. /\ \A h, k \in flight : h.cmd = "ec2" /\ k.cmd = "ec2" => h = k
        /\ \A h \in flight :
             h.cmd = "ec2" => /\ h.of = view.cluster /\ h.job = a
                              /\ h.answer \notin NoAnswer => machines[h.of].node = Outcome(a)
        /\ \A h \in flight :
             h.cmd = "nodes" /\ h.for = "button" =>
               /\ h.of = view.cluster /\ machines[h.of].node = Outcome(a)
               /\ h.answer \in NoAnswer \cup {{Outcome(a)}}
               /\ \A k \in flight : k.cmd # "ec2"
    BY <1>4 DEF Acted
  <2>1. \A h, k \in flight' : h.cmd = "ec2" /\ k.cmd = "ec2" => h = k
    BY <1>1, <2>0
  <2>2. ASSUME NEW h \in flight', h.cmd = "ec2"
        PROVE  /\ h.of = view.cluster /\ h.job = a
               /\ h.answer \notin NoAnswer => machines'[h.of].node = Outcome(a)
    <3>1. CASE h = g
      <4>1. f.cmd = "ec2" /\ f.of = view.cluster /\ f.job = a
        BY <1>1, <2>0, <2>2, <3>1
      <4>2. g.answer \in NoAnswer \/ machines'[f.of].node = Outcome(a)
        BY <1>1, <4>1 DEF NoAnswer
      <4>3. QED
        BY <1>1, <3>1, <4>1, <4>2
    <3>2. CASE h # g
      <4>1. h \in flight /\ h # f
        BY <1>1, <3>2
      <4>2. f.cmd # "ec2"
        BY <2>0, <2>2, <4>1
      <4>3. machines'[h.of].node = machines[h.of].node
        BY <1>1, <1>3, <4>1, <4>2
      <4>4. QED
        BY <2>0, <2>2, <4>1, <4>3
    <3>3. QED
      BY <3>1, <3>2
  <2>3. ASSUME NEW h \in flight', h.cmd = "nodes", h.for = "button"
        PROVE  /\ h.of = view.cluster /\ machines'[h.of].node = Outcome(a)
               /\ h.answer \in NoAnswer \cup {{Outcome(a)}}
               /\ \A k \in flight' : k.cmd # "ec2"
    <3>1. PICK i \in flight : /\ i.cmd = "nodes" /\ i.for = "button" /\ i.of = h.of
                              /\ h = i \/ (h = g /\ i = f)
      BY <1>1, <2>3
    <3>2. /\ i.of = view.cluster /\ machines[i.of].node = Outcome(a)
          /\ i.answer \in NoAnswer \cup {{Outcome(a)}}
          /\ \A k \in flight : k.cmd # "ec2"
      BY <2>0, <3>1
    <3>3. machines'[i.of].node = machines[i.of].node
      BY <1>1, <1>3, <3>2
    <3>4. h.answer \in NoAnswer \cup {{Outcome(a)}}
      <4>1. CASE h = i
        BY <3>2, <4>1
      <4>2. CASE h = g /\ i = f
        BY <1>1, <3>1, <3>2, <4>2 DEF NoAnswer
      <4>3. QED
        BY <3>1, <4>1, <4>2
    <3>5. \A k \in flight' : k.cmd # "ec2"
      BY <1>1, <3>2
    <3>6. QED
      BY <3>1, <3>2, <3>3, <3>4, <3>5
  <2>4. QED
    BY <2>1, <2>2, <2>3
<1>5. QED
  BY <1>2, <1>4 DEF Acted

LEMMA ActedKept ==
  ASSUME Kinds, Acted, [Next]_vars
  PROVE  Acted'
<1>1. ASSUME \A g \in flight' : g \in flight \/ (g.cmd # "ec2" /\ g.for # "button"),
             actions' = actions, past'.rival = past.rival, machines' = machines,
             view'.cluster = view.cluster
      PROVE  Acted'
  BY <1>1, ActedApart
<1>2. CASE Idle
  <2>1. None # "button"
    BY TabsAssumption
  <2>2. CASE /\ machines' = machines
             /\ \A g \in flight' : g \in flight \/ (g.cmd \in {"queue", "nodes", "events"} /\ g.for = None)
    BY <1>1, <1>2, <2>1, <2>2 DEF Idle
  <2>3. QED
    BY <1>2, <2>2, ServedKeepsActed DEF Idle
<1>3. ASSUME NEW t \in Tabs, OpenTab(t) PROVE Acted'
  BY <1>3, OpenTabFields DEF Acted
<1>4. ASSUME NEW c \in Clusters \cup {None}, Leave(c) PROVE Acted'
  BY <1>4, LeaveFields DEF Acted
<1>5. ASSUME NEW j \in Jobs, SelectJob(j) PROVE Acted'
  <2>1. /\ \/ flight' = flight \cup {Ask("info", view.cluster, j, None)} /\ past'.rival = past.rival
           \/ flight' = flight /\ past' = past
        /\ actions' = actions /\ machines' = machines /\ view' = view
    BY <1>5, SelectJobFields
  <2>2. QED
    BY <1>1, <2>1, AskFields, TabsAssumption
<1>6. ASSUME NEW j \in Jobs, NEW from \in {"table", "modal"}, CancelJob(j, from) PROVE Acted'
  <2>1. /\ \E f : flight' = flight \cup {f} /\ f.cmd = "cancel" /\ f.for = from
        /\ past'.rival = past.rival
        /\ actions' = actions /\ machines' = machines /\ view' = view
    BY <1>6, CancelJobFields
  <2>2. QED
    BY <1>1, <2>1
<1>7. ASSUME NEW filter \in Filters, Refresh(filter) PROVE Acted'
  <2>0. /\ view.cluster \in Clusters /\ ListAccounting(view.cluster, filter)
        /\ actions' = actions /\ machines' = machines /\ view' = view
    BY <1>7, RefreshFields
  <2>1. /\ \A g \in flight' \ flight : g = Ask("list", view.cluster, None, filter)
        /\ past'.rival = past.rival
        /\ actions' = actions /\ machines' = machines /\ view' = view
    BY <2>0, ListAccountingFields
  <2>2. \A g \in flight' : g \in flight \/ g.cmd = "list"
    BY <2>1, AskFields
  <2>3. QED
    BY <2>1, <2>2, ActedApart
<1>8. ASSUME NEW j \in Jobs, SelectPastJob(j) PROVE Acted'
  <2>1. /\ \A g \in flight' \ flight : g = Ask("job", view.cluster, j, None)
        /\ past'.rival = past.rival
        /\ actions' = actions /\ machines' = machines /\ view' = view
    BY <1>8, SelectPastJobFields
  <2>2. \A g \in flight' : g \in flight \/ g.cmd = "job"
    BY <2>1, AskFields
  <2>3. QED
    BY <2>1, <2>2, ActedApart
<1>9. ASSUME NEW a \in {"stop", "start"}, ActOnHeadNode(a) PROVE Acted'
  <2> DEFINE q == Ask("ec2", view.cluster, a, "button")
  <2>1. /\ a \notin actions /\ actions' = actions \cup {a} /\ flight' = flight \cup {q}
        /\ past'.rival = (\E f \in flight : f.cmd = "ec2" \/ f.for = "button")
        /\ view' = view /\ machines' = machines
    BY <1>9, ActOnHeadNodeFields
  <2>2. q.cmd = "ec2" /\ q.of = view.cluster /\ q.job = a /\ q.answer = None
    BY AskFields
  <2> HIDE DEF q
  <2>3. ASSUME NEW b \in {"stop", "start"}, actions' = {b}, ~past'.rival
        PROVE  /\ \A f \in flight' : f.cmd = "ec2" => f = q
               /\ b = a
               /\ \A f \in flight' : ~(f.cmd = "nodes" /\ f.for = "button")
    BY <2>1, <2>2, <2>3
  <2>4. None \in NoAnswer
    BY DEF NoAnswer
  <2>5. QED
    BY <2>1, <2>2, <2>3, <2>4 DEF Acted
<1>10. ASSUME RefreshEvents PROVE Acted'
  <2>1. /\ flight' = flight \cup {Ask("events", view.cluster, None, None)}
        /\ past'.rival = past.rival
        /\ actions' = actions /\ machines' = machines /\ view' = view
    BY <1>10, RefreshEventsFields
  <2>2. QED
    BY <1>1, <2>1, AskFields, TabsAssumption
<1>11. ASSUME NEW f \in flight, Receive(f) PROVE Acted'
  <2>1. ASSUME flight' \subseteq flight, actions' = actions, past'.rival = past.rival,
               machines' = machines, view' = view
        PROVE  Acted'
    BY <1>1, <2>1
  <2>2. CASE QueueArrives(f)
    <3>1. /\ flight' = flight \ {f} /\ actions' = actions /\ past' = past
          /\ machines' = machines /\ view' = view
      BY <2>2, QueueArrivesFields
    <3>2. QED
      BY <2>1, <3>1
  <2>3. CASE CancelArrives(f)
    <3>1. /\ flight' = (flight \ {f}) \cup RefreshQueues(f.job, f.for)
          /\ \A g \in RefreshQueues(f.job, f.for) : g.cmd = "queue" /\ g.for # "button"
          /\ actions' = actions /\ past'.rival = past.rival /\ machines' = machines /\ view' = view
      BY <2>3, CancelArrivesFields
    <3>2. QED
      BY <1>1, <3>1
  <2>4. CASE InfoArrives(f)
    <3>1. /\ flight' = flight \ {f} /\ actions' = actions /\ past'.rival = past.rival
          /\ machines' = machines /\ view' = view
      BY <2>4, InfoArrivesFields
    <3>2. QED
      BY <2>1, <3>1
  <2>5. CASE AccountingArrives(f)
    <3>1. /\ flight' = flight \ {f} /\ actions' = actions /\ past'.rival = past.rival
          /\ machines' = machines /\ view' = view
      BY <2>5, AccountingArrivesFields
    <3>2. QED
      BY <2>1, <3>1
  <2>6. CASE NodesArrive(f)
    <3>1. /\ flight' = flight \ {f} /\ past' = past
          /\ actions' = {} \/ actions' = actions
          /\ machines' = machines /\ view' = view
      BY <2>6, NodesArriveFields
    <3>2. CASE actions' = {}
      BY <3>2 DEF Acted
    <3>3. QED
      BY <2>1, <3>1, <3>2
  <2>7. CASE Ec2Arrives(f)
    <3>1. /\ f.cmd = "ec2" /\ f.for \in {None, "button"}
          /\ \/ flight' = (flight \ {f}) \cup {Ask("nodes", view.cluster, None, f.for)}
             \/ flight' = flight \ {f}
          /\ actions' = actions /\ past' = past /\ machines' = machines /\ view' = view
      BY <2>7, Ec2ArrivesFields
    <3>2. f.answer \notin NoAnswer
      BY <2>7 DEF Ec2Arrives, Arrives, NoAnswer
    <3> DEFINE q == Ask("nodes", view.cluster, None, f.for)
    <3>3. q.cmd = "nodes" /\ q.of = view.cluster /\ q.for = f.for /\ q.answer = None
      BY AskFields
    <3> HIDE DEF q
    <3>4. CASE flight' = flight \ {f}
      BY <2>1, <3>1, <3>4
    <3>5. CASE flight' = (flight \ {f}) \cup {q}
      <4>1. ASSUME NEW a \in {"stop", "start"}, actions = {a}, ~past.rival
            PROVE  /\ \A g \in flight' : g.cmd # "ec2"
                   /\ \A g \in flight' : g.cmd = "nodes" /\ g.for = "button" => g = q
                   /\ machines[view.cluster].node = Outcome(a)
        BY <3>1, <3>2, <3>3, <3>5, <4>1 DEF Acted
      <4>2. None \in NoAnswer
        BY DEF NoAnswer
      <4>3. QED
        BY <3>1, <3>3, <4>1, <4>2 DEF Acted
    <3>6. QED
      BY <3>1, <3>4, <3>5 DEF q
  <2>8. CASE EventsArrive(f)
    <3>1. /\ flight' = flight \ {f} /\ actions' = actions /\ past' = past
          /\ machines' = machines /\ view' = view
      BY <2>8, EventsArriveFields
    <3>2. QED
      BY <2>1, <3>1
  <2>9. CASE FailureArrives(f)
    <3>1. /\ flight' = flight \ {f} /\ actions' = actions /\ past'.rival = past.rival
          /\ machines' = machines /\ view' = view
      BY <2>9, FailureArrivesFields
    <3>2. QED
      BY <2>1, <3>1
  <2>10. QED
    BY <1>11, <2>2, <2>3, <2>4, <2>5, <2>6, <2>7, <2>8, <2>9 DEF Receive
<1>12. QED
  BY <1>2, <1>3, <1>4, <1>5, <1>6, <1>7, <1>8, <1>9, <1>10, <1>11, Steps

-----------------------------------------------------------------------------
(* The theorems.                                                           *)

TabsInv == /\ Kinds /\ Stops /\ Buttons /\ AccountingHasCause /\ EventsOnTheirWay
           /\ Windowed /\ StopsWhatIsShown /\ Ordered /\ AccountingInStep /\ Acted

\* The invariant holds at first and every step of Next keeps it.
THEOREM TabsInductive == Spec => []TabsInv
<1>1. Init => TabsInv
  <2>1. ASSUME Init PROVE TabsInv
    <3>1. Kinds
      BY <2>1, KindsFirst
    <3>2. Stops /\ Buttons /\ StopsWhatIsShown /\ Windowed /\ EventsOnTheirWay
      BY <2>1 DEF Init, Stops, Buttons, StopsWhatIsShown, Windowed, EventsOnTheirWay, InFlight
    <3>3. AccountingHasCause
      BY <2>1 DEF Init, AccountingHasCause
    <3>4. Ordered /\ AccountingInStep
      BY <2>1 DEF Init, Ordered, AccountingInStep, Accounting, InFlight, NoAccounting
    <3>5. Acted
      BY <2>1 DEF Init, Acted
    <3>6. QED
      BY <3>1, <3>2, <3>3, <3>4, <3>5 DEF TabsInv
  <2>2. QED
    BY <2>1
<1>2. TabsInv /\ [Next]_vars => TabsInv'
  BY KindsKept, StopsKept, ButtonsKept, AccountingWaitKept, EventsWaitKept, WindowedKept,
     StopsShownKept, StepKept, ActedKept DEF TabsInv
<1>3. QED
  BY <1>1, <1>2, PTL DEF Spec

\* A Stop Job button or a button of the head node that turns, Accounting that waits and
\* stack events that are not there have a request under way, or one that was lost.
THEOREM WaitsAreAnswered == Spec => []WaitsHaveCauses
<1>1. TabsInv => WaitsHaveCauses
  BY DEF TabsInv, Stops, Buttons, WaitsHaveCauses, SpinnersHaveCause
<1>2. QED
  BY <1>1, TabsInductive, PTL

\* A job's window, Stop Job and Accounting show what was asked of the cluster selected.
THEOREM TabsShowIt == Spec => []TabsShowWhatWasAsked
<1>1. TabsInv => TabsShowWhatWasAsked
  BY DEF TabsInv, Kinds, Windowed, WindowShowsSelection, TabsShowWhatWasAsked
<1>2. QED
  BY <1>1, TabsInductive, PTL

\* The button of the head node stops turning when the table shows its outcome.
THEOREM ActionsShowTheirOutcome == Spec => ActionShowsOutcome
<1> DEFINE Shows == \A a \in {"stop", "start"} :
                      (actions = {a} /\ actions' = {} /\ view' = view /\ ~past.rival)
                        => nodes'[view.cluster] = IF a = "stop" THEN "down" ELSE "up"
<1>1. TabsInv /\ [Next]_vars => [Shows]_vars
  <2>1. SUFFICES ASSUME TabsInv, [Next]_vars, NEW a \in {"stop", "start"},
                        actions = {a}, actions' = {}, view' = view, ~past.rival
                 PROVE  nodes'[view.cluster] = Outcome(a)
    BY DEF Outcome
  <2>2. Kinds /\ Acted
    BY <2>1 DEF TabsInv
  <2>3. actions' # actions /\ view.tab # "details"
    BY <2>1, <2>2, KindFields DEF ViewFits
  <2>4. ASSUME NEW f \in flight, NodesArrive(f) PROVE nodes'[view.cluster] = Outcome(a)
    <3>1. /\ f.cmd = "nodes" /\ actions' = IF f.for = "button" THEN {} ELSE actions
          /\ \E n \in Power : f.answer = {n} /\ nodes' = [nodes EXCEPT ![f.of] = n]
          /\ f.of \in Clusters
      BY <2>2, <2>4, NodesArriveFields
    <3>2. f.for = "button"
      BY <2>3, <3>1
    <3>3. f.of = view.cluster /\ f.answer \in NoAnswer \cup {{Outcome(a)}}
      BY <2>1, <2>2, <3>1, <3>2 DEF Acted
    <3>4. f.answer \notin NoAnswer
      BY <2>4 DEF NodesArrive, Arrives, NoAnswer
    <3>5. nodes' = [nodes EXCEPT ![f.of] = Outcome(a)]
      BY <3>1, <3>3, <3>4
    <3>6. nodes \in [Clusters -> Power \cup {None}]
      BY <2>2, KindFields
    <3>7. QED
      BY <3>1, <3>3, <3>5, <3>6
  <2>5. ~Idle
    BY <2>3 DEF Idle
  <2>6. \A t \in Tabs : ~OpenTab(t)
    BY <2>3 DEF OpenTab
  <2>7. \A c \in Clusters \cup {None} : ~Leave(c)
    BY <2>1 DEF Leave
  <2>8. \A j \in Jobs : ~SelectJob(j) /\ ~SelectPastJob(j)
    BY <2>2, <2>3, SelectJobFields, SelectPastJobFields
  <2>9. \A j \in Jobs, from \in {"table", "modal"} : ~CancelJob(j, from)
    BY <2>2, <2>3, CancelJobFields
  <2>10. ~RefreshEvents /\ \A filter \in Filters : ~Refresh(filter)
    BY <2>2, <2>3, RefreshEventsFields, RefreshFields
  <2>11. \A b \in {"stop", "start"} : ~ActOnHeadNode(b)
    <3>1. ASSUME NEW b \in {"stop", "start"}, ActOnHeadNode(b) PROVE FALSE
      BY <2>1, <2>2, <3>1, ActOnHeadNodeFields
    <3>2. QED
      BY <3>1
  <2>12. ASSUME NEW f \in flight, Receive(f) PROVE NodesArrive(f)
    BY <2>2, <2>3, <2>12, QueueArrivesFields, CancelArrivesFields, InfoArrivesFields,
       AccountingArrivesFields, Ec2ArrivesFields, EventsArriveFields, FailureArrivesFields
       DEF Receive
  <2>13. QED
    BY <2>1, <2>2, <2>4, <2>5, <2>6, <2>7, <2>8, <2>9, <2>10, <2>11, <2>12, Steps
<1>2. QED
  BY <1>1, TabsInductive, PTL DEF Spec, ActionShowsOutcome
=============================================================================
