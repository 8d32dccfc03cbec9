----------------------------- MODULE QueuesPage -----------------------------
(***************************************************************************)
(* The queues page of the cluster wizard                                    *)
(* (frontend/src/old-pages/Configure/Queues and the forms of Components.tsx  *)
(* it uses).  The queues of the draft are one array of the store; what the   *)
(* forms keep of their own (React state), whether a queue has a custom AMI   *)
(* and the validation errors are kept elsewhere, all by position, and do not *)
(* follow a queue that changes its position.                                *)
(*                                                                         *)
(* Components run effects after a step; those whose condition nothing but a  *)
(* step of theirs can restore are part of every step (Settled).  Positions    *)
(* are counted from 1.  A definition named Bug... is a plausible mistake in  *)
(* the one that follows it.                                                 *)
(***************************************************************************)
EXTENDS Integers, Sequences, FiniteSets

CONSTANTS InstanceTypes, DefaultType, EfaTypes, HpcTypes, BurstTypes,
          Subnets, HeadNodeSubnet,
          FlagsOffered,       \* the sets of feature flags of the versions in use
          MaxQueues, MaxPerQueue, MaxPerCluster,
          QueueSections,      \* SlurmQueues sections that may be loaded
          SlurmSections,      \* SlurmSettings that may be loaded
          QueueNames,     \* names a user types
          Unnamed,        \* the empty name, one of these
          Reservations,   \* ids of capacity reservations
          Counts,         \* numbers of nodes a user types
          Nil

VARIABLES flags,      \* the feature flags of the draft's version
          listed,     \* aws.instanceTypes
          known,      \* history: the types listed ever since the page was shown
          onPage,     \* the page is mounted
          queues,     \* SlurmQueues
          slurm,      \* SlurmSettings: memory-based scheduling, the idle time
          amiEnabled, \* app.wizard.queues: the positions with customAMI.enabled
          forms,      \* by position: React state of a queue's form
          idleError,  \* React state of ScaledownIdleTimeForm
          queueErrors,\* by position: app.wizard.errors.queues
          queuesPast  \* history

queuesVars == <<flags, listed, known, onPage, queues, slurm, amiEnabled, forms, idleError,
                queueErrors, queuesPast>>

Multi == "queues_multiple_instance_types" \in flags
MultiAZ == "multi_az" \in flags
Memory == "memory_based_scheduling" \in flags
MemoryWithMany == "memory_based_scheduling_with_multiple_instance_types" \in flags

ById == "capacityReservationId"
ByArn == "capacityReservationResourceGroupArn"
NoTarget == [kind |-> "none", id |-> ""]
Targets == {NoTarget} \cup [kind : {ById, ByArn}, id : Reservations \cup {""}]
QueuePositions == 1..MaxQueues
CrPositions == 1..MaxPerQueue
Nodes == [min : Int \cup {Nil}, max : Int, given : Int, lost : BOOLEAN]
ComputeResource ==
  [suffix : Nat \cup InstanceTypes \cup QueueNames, types : SUBSET InstanceTypes,
   efa : BOOLEAN, noHT : BOOLEAN, target : Targets, nodes : Nodes]
Queue ==
  [name : Nat \cup QueueNames, subnets : SUBSET (Subnets \cup {Nil}),
   group : BOOLEAN, block : BOOLEAN, strategy : BOOLEAN, script : BOOLEAN,
   args : BOOLEAN, ami : BOOLEAN, crs : Seq(ComputeResource)]
WithoutAt(s, i) == SubSeq(s, 1, i - 1) \o SubSeq(s, i + 1, Len(s))

-----------------------------------------------------------------------------
(* Compute resources.  nodes.given and nodes.lost are history: the dynamic   *)
(* nodes typed last, and whether they were forgotten since.                  *)

\* createComputeResource counts from 1; a single type is part of the name.
Suffix(n, t) == IF Multi THEN n + 1 ELSE t

NewResource(n) ==
  [suffix |-> Suffix(n, DefaultType), types |-> {DefaultType}, efa |-> FALSE,
   noHT |-> FALSE, target |-> NoTarget,
   nodes |-> [min |-> 0, max |-> 4, given |-> 4, lost |-> FALSE]]

\* updateComputeResourcesNames counts from 0.
Renumbered(crs) ==
  [j \in DOMAIN crs |->
     [crs[j] EXCEPT !.suffix = IF Multi THEN j - 1 ELSE CHOOSE t \in crs[j].types : TRUE]]

\* The types that have a say in multithreading.
Fixed(types) == types \cap (IF Multi THEN HpcTypes ELSE BurstTypes) # {}
SupportEfa(types) == types # {} /\ types \subseteq EfaTypes
Wide(q) == Cardinality(q.subnets) > 1   \* areMultiAZSelected

SettledCr(q, cr) ==
  [cr EXCEPT !.efa = @ /\ ~Wide(q), !.noHT = @ /\ ~(Multi /\ Fixed(cr.types))]
BugSettled(q) == [q EXCEPT !.group = ~Wide(q) /\ @]
\* The effects of QueuesView, Queue and ComputeResource on a queue.
Settled(q) ==
  [q EXCEPT
     !.subnets = IF @ = {Nil} THEN {HeadNodeSubnet} ELSE @,
     !.group = ~Wide(q) /\ @,
     !.strategy = @ /\ ~q.block,
     !.crs = [j \in DOMAIN q.crs |-> SettledCr(q, q.crs[j])]]

NewQueue(name) ==
  [name |-> name, subnets |-> {Nil}, group |-> FALSE, block |-> FALSE,
   strategy |-> Multi, script |-> FALSE, args |-> FALSE, ami |-> FALSE,
   crs |-> <<NewResource(0)>>]

ManyTypes(qs) == \E i \in DOMAIN qs : \E j \in DOMAIN qs[i].crs :
                   Cardinality(qs[i].crs[j].types) > 1
\* cannotEnableMemoryBasedScheduling; the effect clears the setting.
CannotSchedule(qs) == Multi /\ ManyTypes(qs) /\ ~MemoryWithMany

Hold(qs) ==
  /\ queues' = qs
  /\ slurm' = [slurm EXCEPT !.memory = @ /\ ~(Memory /\ CannotSchedule(qs))]
Change(i, q) == Hold([queues EXCEPT ![i] = Settled(q)])
ChangeCr(i, j, cr) == Change(i, [queues[i] EXCEPT !.crs[j] = cr])

-----------------------------------------------------------------------------
(* What the forms keep of their own.                                        *)

\* The reservation's select and input, and the select of a single type, which starts
\* empty when the type is not listed.
CrForm(cr) ==
  [option |-> IF cr.target.id = "" THEN "none" ELSE cr.target.kind,
   input |-> cr.target.id,
   type |-> IF cr.types # {} /\ cr.types \subseteq listed
            THEN CHOOSE t \in cr.types : TRUE ELSE Nil]
QueueForm(q) == [script |-> q.script, crs |-> [j \in DOMAIN q.crs |-> CrForm(q.crs[j])]]

\* The effect on the reservation, when its form mounts or changes.
Reserved(cr, f) ==
  [cr EXCEPT !.target = IF f.option = "none" THEN NoTarget
                        ELSE [kind |-> f.option, id |-> f.input],
             !.types = IF f.option = ById THEN {} ELSE @]
\* Only the form for several types has a reservation.
Mounted(cr) == IF Multi THEN Reserved(cr, CrForm(cr)) ELSE cr

\* The form at a position lives on with another queue; compute resources past
\* those it had mount anew.
Kept(old, new) ==
  [script |-> old.script,
   crs |-> [j \in DOMAIN new.crs |-> IF j \in DOMAIN old.crs THEN old.crs[j]
                                     ELSE CrForm(new.crs[j])]]
MountedAfter(old, new) ==
  [new EXCEPT !.crs = [j \in DOMAIN new.crs |->
     IF j \in DOMAIN old.crs THEN new.crs[j] ELSE Mounted(new.crs[j])]]

-----------------------------------------------------------------------------
(* Validation.  An error is <<field, 0>>, or <<"type", j>> for the instance   *)
(* types of the compute resource at j.                                       *)

HasId(target) == target.kind = ById /\ target.id # ""
Incomplete(q, j) ==
  IF Multi THEN q.crs[j].types = {} /\ ~HasId(q.crs[j].target)
  ELSE \E k \in 1..(j - 1) : q.crs[k].types = q.crs[j].types
Incompletes(q) == {j \in DOMAIN q.crs : Incomplete(q, j)}

FieldErrors == {"name", "subnet", "script", "customAmi"} \X {0}
AllTypeErrors == {"type"} \X CrPositions

InvalidAt(i) ==
  LET q == queues'[i] IN
  {e \in FieldErrors :
     CASE e[1] = "name" -> q.name = Unnamed
       [] e[1] = "subnet" -> q.subnets = {}
       [] e[1] = "script" -> q.args /\ ~q.script
       [] e[1] = "customAmi" -> i \in amiEnabled /\ ~q.ami}

BugTypeErrors(i) == queueErrors[i] \cap AllTypeErrors
\* The types' errors are rewritten only when there is one.
TypeErrors(i) ==
  LET bad == Incompletes(queues'[i])
      old == queueErrors[i] \cap AllTypeErrors
  IN IF bad = {} THEN old
     ELSE {<<"type", j>> : j \in bad} \cup {e \in old : e[2] > Len(queues'[i].crs)}

IdleValid == ~Memory \/ slurm.idle # "negative"
\* queueValidate at the positions P, as errors and as their result.
Validate(P) ==
  queueErrors' = [i \in QueuePositions |->
    IF i \in P THEN InvalidAt(i) \cup TypeErrors(i) ELSE queueErrors[i]]
Accepted(P) == IdleValid /\ \A i \in P : InvalidAt(i) = {} /\ Incompletes(queues'[i]) = {}

-----------------------------------------------------------------------------
(* Queues.                                                                  *)

TotalResources(qs) == Cardinality(UNION {{i} \X DOMAIN qs[i].crs : i \in DOMAIN qs})

\* The limits of the queues, of the compute resources of each and of all of them.
WithinLimits(qs) ==
  /\ qs \in Seq(Queue) /\ Len(qs) \in QueuePositions
  /\ \A i \in DOMAIN qs : Len(qs[i].crs) \in CrPositions
  /\ TotalResources(qs) <= MaxPerCluster

\* Before 3.3 a compute resource is of one instance type and without reservation.
OfOneType(qs) ==
  \A i \in DOMAIN qs : \A j \in DOMAIN qs[i].crs :
    qs[i].crs[j].types \in {{t} : t \in InstanceTypes} /\ qs[i].crs[j].target = NoTarget

ASSUME QueuesAssumption ==
  /\ DefaultType \in InstanceTypes /\ Nil \notin InstanceTypes /\ Nil \notin Int
  /\ HeadNodeSubnet \in Subnets /\ Counts \subseteq Int
  /\ {MaxQueues, MaxPerQueue, MaxPerCluster} \subseteq Nat \ {0}
  /\ \A qs \in QueueSections : WithinLimits(qs)
  /\ SlurmSections \subseteq [memory : BOOLEAN, idle : {"unset", "positive", "negative"}]

CanAdd == Len(queues) < MaxQueues /\ TotalResources(queues) < MaxPerCluster

CanAddTo(i) == Len(queues[i].crs) < MaxPerQueue /\ TotalResources(queues) < MaxPerCluster

AddQueue ==
  /\ onPage /\ CanAdd
  /\ LET q == Settled(NewQueue(Len(queues) + 1)) IN
     /\ Hold(Append(queues, q))
     /\ forms' = Append(forms, QueueForm(q))
  /\ UNCHANGED <<flags, listed, known, onPage, amiEnabled, idleError, queueErrors, queuesPast>>

RemoveQueue(i) ==
  /\ onPage /\ i \in DOMAIN queues /\ Len(queues) > 1
  /\ LET rest == WithoutAt(queues, i) IN
     /\ Hold([k \in DOMAIN rest |-> MountedAfter(forms[k], rest[k])])
     /\ forms' = [k \in DOMAIN rest |-> Kept(forms[k], rest[k])]
     /\ queuesPast' = [queuesPast EXCEPT !.moved = @ \/ i < Len(queues),
                                         !.amisMoved = TRUE, !.removed = TRUE]
  /\ UNCHANGED <<flags, listed, known, onPage, amiEnabled, idleError, queueErrors>>

Rename(i, name) ==
  /\ onPage /\ i \in DOMAIN queues /\ name # queues[i].name
  /\ Change(i, [queues[i] EXCEPT !.name = name, !.crs = Renumbered(@)])
  /\ queuesPast' = [queuesPast EXCEPT !.renamed = TRUE]
  /\ UNCHANGED <<flags, listed, known, onPage, amiEnabled, forms, idleError, queueErrors>>

\* Enter or Escape in the name's field.
CheckQueue(i) ==
  /\ onPage /\ i \in DOMAIN queues
  /\ UNCHANGED <<queues, slurm>> /\ Validate({i})
  /\ UNCHANGED <<flags, listed, known, onPage, amiEnabled, forms, idleError, queuesPast>>

\* onSubnetMultiSelectChange and onSubnetSelectChange.
SelectSubnets(i, S) ==
  /\ onPage /\ i \in DOMAIN queues
  /\ ~MultiAZ => Cardinality(S) = 1
  /\ Change(i, [queues[i] EXCEPT !.subnets = S])
  /\ Validate({i})
  /\ UNCHANGED <<flags, listed, known, onPage, amiEnabled, forms, idleError, queuesPast>>

TogglePlacementGroup(i) ==
  /\ onPage /\ i \in DOMAIN queues /\ ~Wide(queues[i])
  /\ Change(i, [queues[i] EXCEPT !.group = ~@])
  /\ UNCHANGED <<flags, listed, known, onPage, amiEnabled, forms, idleError, queueErrors,
                 queuesPast>>

SelectCapacity(i, block) ==
  /\ onPage /\ i \in DOMAIN queues /\ Change(i, [queues[i] EXCEPT !.block = block])
  /\ UNCHANGED <<flags, listed, known, onPage, amiEnabled, forms, idleError, queueErrors,
                 queuesPast>>

SelectStrategy(i) ==
  /\ onPage /\ i \in DOMAIN queues /\ Multi /\ ~queues[i].block
  /\ Change(i, [queues[i] EXCEPT !.strategy = TRUE])
  /\ UNCHANGED <<flags, listed, known, onPage, amiEnabled, forms, idleError, queueErrors,
                 queuesPast>>

BugScriptless(q) == [q EXCEPT !.args = FALSE]
\* toggleCheckbox of ActionEditor clears the script either way.
Scriptless(q) == [q EXCEPT !.script = FALSE, !.args = FALSE]
ToggleScript(i) ==
  /\ onPage /\ i \in DOMAIN queues
  /\ Change(i, Scriptless(queues[i]))
  /\ forms' = [forms EXCEPT ![i].script = ~@]
  /\ UNCHANGED <<flags, listed, known, onPage, amiEnabled, idleError, queueErrors, queuesPast>>

EditScript(i, script, args) ==
  /\ onPage /\ i \in DOMAIN queues /\ forms[i].script
  /\ Change(i, [queues[i] EXCEPT !.script = script, !.args = args])
  /\ UNCHANGED <<flags, listed, known, onPage, amiEnabled, forms, idleError, queueErrors,
                 queuesPast>>

AmiOf(i) == i \notin amiEnabled /\ queues[i].ami
\* toggleCustomAmi of CustomAMISettings.
ToggleAmi(i) ==
  /\ onPage /\ i \in DOMAIN queues
  /\ amiEnabled' = IF i \in amiEnabled THEN amiEnabled \ {i} ELSE amiEnabled \cup {i}
  /\ Change(i, [queues[i] EXCEPT !.ami = AmiOf(i)])
  /\ UNCHANGED <<flags, listed, known, onPage, forms, idleError, queueErrors, queuesPast>>

EditAmi(i, given) ==
  /\ onPage /\ i \in DOMAIN queues /\ i \in amiEnabled
  /\ Change(i, [queues[i] EXCEPT !.ami = given])
  /\ UNCHANGED <<flags, listed, known, onPage, amiEnabled, forms, idleError, queueErrors,
                 queuesPast>>

-----------------------------------------------------------------------------
(* Compute resources of a queue.                                            *)

HasCr(i, j) == onPage /\ i \in DOMAIN queues /\ j \in DOMAIN queues[i].crs
Cr(i, j) == queues[i].crs[j]

AddComputeResource(i) ==
  /\ onPage /\ i \in DOMAIN queues /\ CanAddTo(i)
  /\ LET cr == NewResource(Len(queues[i].crs)) IN
     /\ Change(i, [queues[i] EXCEPT !.crs = Append(@, cr)])
     /\ forms' = [forms EXCEPT ![i].crs = Append(@, CrForm(cr))]
  /\ UNCHANGED <<flags, listed, known, onPage, amiEnabled, idleError, queueErrors, queuesPast>>

\* The last form goes, whichever compute resource does.
RemoveComputeResource(i, j) ==
  /\ HasCr(i, j) /\ Len(queues[i].crs) > 1
  /\ Change(i, [queues[i] EXCEPT !.crs = WithoutAt(@, j)])
  /\ forms' = [forms EXCEPT ![i].crs = SubSeq(@, 1, Len(@) - 1)]
  /\ queuesPast' = [queuesPast EXCEPT !.moved = @ \/ j < Len(queues[i].crs),
                                       !.removed = TRUE]
  /\ UNCHANGED <<flags, listed, known, onPage, amiEnabled, idleError, queueErrors>>

\* setEnableEFA; the placement group is the whole queue's.
WithEfa(q, j, on) == [q EXCEPT !.crs[j].efa = on, !.group = on]

\* setInstances.
Typed(q, j, types) ==
  LET t == [q EXCEPT !.crs[j].types = types] IN
  IF SupportEfa(types) THEN t ELSE WithEfa(t, j, FALSE)

SelectInstances(i, j, types) ==
  /\ HasCr(i, j) /\ Multi /\ forms[i].crs[j].option # ById
  /\ types \subseteq listed \cup Cr(i, j).types
  /\ Change(i, Typed(queues[i], j, types))
  /\ UNCHANGED <<flags, listed, known, onPage, amiEnabled, forms, idleError, queueErrors,
                 queuesPast>>

\* InstanceSelect and setInstanceType: the name follows, EFA is switched on by
\* default.
SelectInstanceType(i, j, t) ==
  /\ HasCr(i, j) /\ ~Multi /\ t \in listed
  /\ forms' = [forms EXCEPT ![i].crs[j].type = t]
  /\ LET q == [queues[i] EXCEPT !.crs[j].types = {t}, !.crs[j].suffix = t] IN
     IF Cr(i, j).types = {t} THEN UNCHANGED <<queues, slurm>>
     ELSE Change(i, IF Cr(i, j).efa = SupportEfa({t}) THEN q ELSE WithEfa(q, j, ~Cr(i, j).efa))
  /\ UNCHANGED <<flags, listed, known, onPage, amiEnabled, idleError, queueErrors, queuesPast>>

ToggleEfa(i, j) ==
  /\ HasCr(i, j) /\ SupportEfa(Cr(i, j).types) /\ ~Wide(queues[i])
  /\ Change(i, WithEfa(queues[i], j, ~Cr(i, j).efa))
  /\ UNCHANGED <<flags, listed, known, onPage, amiEnabled, forms, idleError, queueErrors,
                 queuesPast>>

ToggleMultithreading(i, j) ==
  /\ HasCr(i, j) /\ ~Fixed(Cr(i, j).types)
  /\ ChangeCr(i, j, [Cr(i, j) EXCEPT !.noHT = ~@])
  /\ UNCHANGED <<flags, listed, known, onPage, amiEnabled, forms, idleError, queueErrors,
                 queuesPast>>

SetReservation(i, j, f) ==
  /\ HasCr(i, j) /\ Multi
  /\ \/ f.option # forms[i].crs[j].option
        /\ f.input = IF f.option = "none" THEN "" ELSE forms[i].crs[j].input
     \/ f.option = forms[i].crs[j].option /\ f.option # "none"
  /\ forms' = [forms EXCEPT ![i].crs[j].option = f.option, ![i].crs[j].input = f.input]
  /\ ChangeCr(i, j, Reserved(Cr(i, j), f))
  /\ UNCHANGED <<flags, listed, known, onPage, amiEnabled, idleError, queueErrors, queuesPast>>

\* MinCount is cleared, not set to 0; the store then gives null, which counts as 0.
OrZero(n) == IF n = Nil THEN 0 ELSE n
\* dynamicCount.
Dynamic(nodes) == nodes.max - OrZero(nodes.min)

\* A negative number, which the input lets through, clears MinCount and is added.
SetMinCount(i, j, n) ==
  /\ HasCr(i, j)
  /\ LET old == Cr(i, j).nodes IN
     ChangeCr(i, j, [Cr(i, j) EXCEPT !.nodes =
       [old EXCEPT !.min = IF n > 0 THEN n ELSE Nil, !.max = n + Dynamic(old),
                   !.lost = @ \/ n < 0]])
  /\ UNCHANGED <<flags, listed, known, onPage, amiEnabled, forms, idleError, queueErrors,
                 queuesPast>>

SetMaxCount(i, j, n) ==
  /\ HasCr(i, j)
  /\ LET old == Cr(i, j).nodes IN
     ChangeCr(i, j, [Cr(i, j) EXCEPT !.nodes =
       [old EXCEPT !.max = OrZero(old.min) + n, !.given = n, !.lost = FALSE]])
  /\ UNCHANGED <<flags, listed, known, onPage, amiEnabled, forms, idleError, queueErrors,
                 queuesPast>>

-----------------------------------------------------------------------------
(* Slurm settings, and the page as a whole.                                 *)

ToggleMemory ==
  /\ onPage /\ Memory /\ ~CannotSchedule(queues)
  /\ slurm' = [slurm EXCEPT !.memory = ~@]
  /\ UNCHANGED <<flags, listed, known, onPage, queues, amiEnabled, forms, idleError, queueErrors,
                 queuesPast>>

\* ScaledownIdleTimeForm: 0 is shown as an error and not kept.
SetIdleTime(idle) ==
  /\ onPage /\ Memory
  /\ slurm' = [slurm EXCEPT !.idle = IF idle = "zero" THEN "unset" ELSE idle]
  /\ idleError' = (idle \in {"zero", "negative"})
  /\ UNCHANGED <<flags, listed, known, onPage, queues, amiEnabled, forms, queueErrors, queuesPast>>

\* The page mounts; its forms start with what the store holds.
ShowQueues ==
  /\ ~onPage /\ onPage' = TRUE
  /\ forms' = [i \in DOMAIN queues |-> QueueForm(queues[i])]
  /\ Hold([i \in DOMAIN queues |-> Settled(MountedAfter([crs |-> <<>>], queues[i]))])
  /\ idleError' = FALSE /\ queuesPast' = [queuesPast EXCEPT !.moved = FALSE]
  /\ UNCHANGED <<flags, listed, known, amiEnabled, queueErrors>>

Leave == onPage' = FALSE /\ forms' = <<>> /\ idleError' = FALSE /\ known' = listed

\* Next of the wizard: queuesValidate.
GoOn ==
  /\ onPage /\ UNCHANGED <<queues, slurm>>
  /\ Validate(DOMAIN queues)
  /\ IF Accepted(DOMAIN queues) THEN Leave ELSE UNCHANGED <<onPage, forms, idleError, known>>
  /\ UNCHANGED <<flags, listed, amiEnabled, queuesPast>>

GoBack ==
  /\ onPage /\ Leave
  /\ UNCHANGED <<flags, listed, queues, slurm, amiEnabled, queueErrors, queuesPast>>

NoQueueErrors == [i \in QueuePositions |-> {}]
NewSlurm == [memory |-> FALSE, idle |-> "unset"]
PastOf(qs) == [moved |-> FALSE, removed |-> FALSE, renamed |-> FALSE,
               amisMoved |-> \E i \in DOMAIN qs : qs[i].ami]

\* GetInstanceTypes is answered, which every LoadAwsConfig asks anew; before, its own
\* answer has replaced all of state.aws, and no type is listed.
ListTypes(S) ==
  /\ listed' = S /\ known' = IF onPage THEN known \cap S ELSE S
  /\ UNCHANGED <<flags, onPage, queues, slurm, amiEnabled, forms, idleError, queueErrors,
                 queuesPast>>

\* The wizard is left and another draft begun or loaded; the positions with a
\* custom AMI stay marked.
StartOver(qs, s) ==
  /\ ~onPage
  /\ queues' = qs /\ slurm' = s /\ queueErrors' = NoQueueErrors
  /\ queuesPast' = [PastOf(qs) EXCEPT !.amisMoved = @ \/ queuesPast.amisMoved]
  /\ UNCHANGED <<flags, listed, known, onPage, amiEnabled, forms, idleError>>

\* Sections that are loaded are ones that their version can have.
Drafts ==
  {<<<<NewQueue(1)>>, NewSlurm>>} \cup
  {qs \in QueueSections : Multi \/ OfOneType(qs)} \X {s \in SlurmSections : s.memory => Memory}

QueuesInit ==
  /\ flags \in FlagsOffered /\ onPage = FALSE
  /\ listed \in SUBSET InstanceTypes /\ known = listed
  /\ queues = <<NewQueue(1)>> /\ slurm = NewSlurm /\ amiEnabled = {}
  /\ forms = <<>> /\ idleError = FALSE /\ queueErrors = NoQueueErrors
  /\ queuesPast = PastOf(queues)

Capacities ==
  \E i \in QueuePositions :
    \/ \E block \in BOOLEAN : SelectCapacity(i, block)
    \/ SelectStrategy(i)
Networks ==
  \E i \in QueuePositions :
    \/ \E S \in SUBSET Subnets : SelectSubnets(i, S)
    \/ TogglePlacementGroup(i)
    \/ \E j \in CrPositions : ToggleEfa(i, j) \/ ToggleMultithreading(i, j)
TypeChoices ==
  \E i \in QueuePositions, j \in CrPositions :
    \/ \E types \in SUBSET InstanceTypes : SelectInstances(i, j, types)
    \/ \E t \in InstanceTypes : SelectInstanceType(i, j, t)
TypesListed == \E S \in SUBSET InstanceTypes : ListTypes(S)
CrForms == [option : {"none", ById, ByArn}, input : Reservations \cup {""}]
ReservationsSet ==
  \E i \in QueuePositions, j \in CrPositions, f \in CrForms : SetReservation(i, j, f)
Scripts ==
  \E i \in QueuePositions :
    \/ ToggleScript(i) \/ ToggleAmi(i)
    \/ \E given, args \in BOOLEAN : EditScript(i, given, args) \/ EditAmi(i, given)
NodeCounts ==
  \E i \in QueuePositions, j \in CrPositions, n \in Counts :
    SetMinCount(i, j, n) \/ SetMaxCount(i, j, n)
Names == \E i \in QueuePositions : CheckQueue(i) \/ \E name \in QueueNames : Rename(i, name)
SlurmSettings ==
  \/ ToggleMemory
  \/ \E idle \in {"unset", "positive", "zero", "negative"} : SetIdleTime(idle)
Shape ==
  \/ AddQueue
  \/ \E i \in QueuePositions : \/ RemoveQueue(i) \/ AddComputeResource(i)
                             \/ \E j \in CrPositions : RemoveComputeResource(i, j)
Wizard == ShowQueues \/ GoOn \/ GoBack \/ \E d \in Drafts : StartOver(d[1], d[2])

QueuesNext ==
  \/ Capacities \/ Networks \/ TypeChoices \/ ReservationsSet \/ Scripts \/ NodeCounts \/ Names
  \/ SlurmSettings \/ Shape \/ TypesListed \/ Wizard

QueuesSpec == QueuesInit /\ [][QueuesNext]_queuesVars

-----------------------------------------------------------------------------
(* Properties.                                                             *)

\* Every variable has its shape, there is a form for each queue and compute
\* resource of a mounted page, and the limits of a cluster are kept.
QueuesTypeOK ==
  /\ onPage \in BOOLEAN /\ idleError \in BOOLEAN /\ amiEnabled \subseteq QueuePositions
  /\ WithinLimits(queues)
  /\ ~Multi => OfOneType(queues)
  /\ slurm \in [memory : BOOLEAN, idle : {"unset", "positive", "negative"}]
  /\ DOMAIN forms = IF onPage THEN DOMAIN queues ELSE {}
  /\ \A i \in DOMAIN forms : DOMAIN forms[i].crs = DOMAIN queues[i].crs
  /\ queueErrors \in [QueuePositions -> SUBSET (FieldErrors \cup AllTypeErrors)]

\* On the page a queue is one that can be created: with several subnets it has
\* neither EFA nor a placement group, EFA is on only where every type supports it
\* (or a reservation says the type), an HPC type keeps its multithreading, and
\* capacity blocks have no strategy; whichever of the two was chosen last.
QueuesFit ==
  onPage => \A i \in DOMAIN queues :
    LET q == queues[i] IN
    /\ q.block => ~q.strategy
    /\ Wide(q) => ~q.group
    /\ \A j \in DOMAIN q.crs :
         /\ q.crs[j].efa => ~Wide(q) /\ (q.crs[j].types = {} \/ SupportEfa(q.crs[j].types))
         /\ Multi /\ Fixed(q.crs[j].types) => ~q.crs[j].noHT

\* Memory-based scheduling is on only with types it can schedule, in whatever
\* queue they were chosen and whichever was chosen first.
MemoryFitsTypes == onPage /\ slurm.memory => ~CannotSchedule(queues)

\* The forms show what the draft holds: a script, a reservation, an instance type
\* (or no type, where it was not listed all the while the page is shown).
\* They do until a queue or a compute resource before another is removed, for
\* they are known by position (a form that shows no script then deletes one when
\* its box is checked).
FormsShowDraft ==
  onPage /\ ~queuesPast.moved => \A i \in DOMAIN queues :
    /\ queues[i].script => forms[i].script
    /\ \A j \in DOMAIN queues[i].crs :
         LET f == forms[i].crs[j] IN
         IF Multi THEN Cr(i, j).target = IF f.option = "none" THEN NoTarget
                                         ELSE [kind |-> f.option, id |-> f.input]
         ELSE \/ Cr(i, j).types = {f.type}
              \/ f.type = Nil /\ ~(Cr(i, j).types \subseteq known)

\* A compute resource by a reservation's id has no instance types, unless the
\* forms moved since the page was shown.
ReservedHasNoTypes ==
  onPage /\ ~queuesPast.moved =>
    \A i \in DOMAIN queues : \A j \in DOMAIN queues[i].crs :
      Cr(i, j).target.kind = ById => Cr(i, j).types = {}

\* A queue with a custom AMI is marked as one, so that its field shows, unless it
\* was loaded with it or a queue was removed (the marks stay where they were).
AmiIsShown ==
  queuesPast.amisMoved \/ \A i \in DOMAIN queues : queues[i].ami => i \in amiEnabled

\* Changing the number of static nodes keeps the dynamic ones, though MinCount is
\* cleared at 0 and MaxCount counts both; unless the number typed is negative.
DynamicNodesKept ==
  \A i \in DOMAIN queues : \A j \in DOMAIN queues[i].crs :
    LET n == Cr(i, j).nodes IN Dynamic(n) = n.given \/ n.lost

\* Names differ: those of queues while none was removed or renamed, those of a
\* queue's compute resources while none was removed (a new one is named after
\* their number) or, with single types, while their types differ.
NamesDiffer ==
  queuesPast.removed \/ \A i, k \in DOMAIN queues :
    /\ i # k /\ ~queuesPast.renamed => queues[i].name # queues[k].name
    /\ \A j, l \in DOMAIN queues[i].crs :
         j # l /\ (Multi \/ Cr(i, j).types # Cr(i, l).types)
           => Cr(i, j).suffix # Cr(i, l).suffix

\* Whether an error of a position is in sight.
InSight(i, e) ==
  CASE e[1] = "script" -> forms[i].script
    [] e[1] = "type" ->
         e[2] \in DOMAIN forms[i].crs /\ (Multi => forms[i].crs[e[2]].option # ById)
    [] OTHER -> TRUE
\* When the page refuses to go on an error is in sight, except for arguments left
\* without their script, a reservation chosen without its id, and an idle time
\* refused before the page was left or loaded; or when the forms moved.
RefusalIsExplained ==
  [][GoOn /\ onPage' =>
       \/ \E i \in DOMAIN queues : \E e \in queueErrors'[i] : InSight(i, e)
       \/ idleError \/ slurm.idle = "negative" \/ queuesPast.moved
       \/ \E i \in DOMAIN queues :
            \/ queues[i].args /\ ~queues[i].script /\ ~forms[i].script
            \/ \E j \in DOMAIN queues[i].crs :
                 Cr(i, j).target = [kind |-> ById, id |-> ""]]_queuesVars

\* When the page lets go on, no error is left on record but of instance types: these
\* are rewritten only when there is one.
AcceptedIsClean ==
  [][GoOn /\ ~onPage' =>
       \A i \in DOMAIN queues : queueErrors'[i] \subseteq AllTypeErrors]_queuesVars

\* The queues of the draft are ones a cluster can have: their limits are kept, what
\* excludes one another is apart, and names and dynamic nodes are the user's,
\* in whatever order and queue the controls were used.
QueuesOK == QueuesTypeOK /\ QueuesFit /\ MemoryFitsTypes /\ NamesDiffer /\ DynamicNodesKept

\* The forms show the draft, but for what removals do to state kept by position.
FormsInStep == FormsShowDraft /\ ReservedHasNoTypes /\ AmiIsShown

\* The errors say why the page refuses to go on, and are gone when it does.
ErrorsInStep == RefusalIsExplained /\ AcceptedIsClean
=============================================================================
