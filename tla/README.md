# Formal models of AWS ParallelCluster UI

This directory holds TLA+ specifications of the parts of ParallelCluster UI
whose correctness depends on order: a React single-page application whose
promises resolve in any order over one store and one cookie jar, and a Flask
backend (run behind API Gateway and Lambda) that authenticates each request,
refreshes tokens in passing and forwards commands to the ParallelCluster API.
The specifications are model-checked with TLC on small instances; some of them
are also proved correct with TLAPS for every value of their constants (section 4).

Paths are relative to the repository; `src/` is its root.

## 1. The system

### 1.1 Components

| Component | State | Operations | Modelled in |
|---|---|---|---|
| Remote logger (`frontend/src/logger`) | buffer, window timer, POSTs awaited | `log`, timer callback, `flushBuffer` and its catch; `push_log` on the server | `RemoteLogger`, `LogDelivery` |
| HTTP session (`frontend/src/http`, `frontend/src/auth`, `api/security/csrf`, `authenticate`, `login`, `logout` of `api/PclusterApiHandler.py`) | cookie jar, CSRF tokens, access and refresh tokens, what each tab shows | `requestWithCSRF`, `executeRequest`, `handleNotAuthorizedErrors`, `authenticated`, `csrf_needed`, `login`, `logout`, `revoke` | `HttpSession`, `ProtectedApi` |
| Wizard: draft and submission (`frontend/src/old-pages/Configure`, `Clusters/Actions.tsx`, `CreateButtonDropdown`) | the draft at `app.wizard`, page, selected Region, answers under way | start from nothing, a cluster, a template; edit; navigate; submit; dry run | `WizardSession` |
| Wizard: cluster and head node pages (`Cluster.tsx`, `HeadNode.tsx`, `MultiUser.tsx`, `SlurmSettings`) | Region, VPC, subnet, key, access, directory; the AWS resources of one Region (`state.aws`) and the requests for them | fields, mount effects, `LoadAwsConfig`, refresh, validation, step links | `ClusterPages` |
| Wizard: queues page (`Configure/Queues`, `Components.tsx`) | `SlurmQueues`, Slurm settings, and by position custom AMI marks, errors and React state of the forms | add, remove, rename; subnets, instance types, reservations, EFA, scripts, counts; validate | `QueuesPage` |
| Wizard: storage page (`Configure/Storage.tsx`, `Configure/Storage/`) | `SharedStorage`, `storage.ui` and the errors, three arrays by position; local state of the forms | add a batch, remove, switch, rename, edit, validate; defaults filled in by effects | `StoragePage` |
| Clusters page (`old-pages/Clusters`, `useClusterPoll`, `TopBar.tsx`) | list and its query, selection, details by name, status seen last, Region | `onClustersUpdate`, `selectCluster`, polls, start, stop, delete, `selectRegion` | `ClusterConsole` |
| Start of the page (`useLoadingState.tsx`) | loading flag | version and configuration, identity, first list | `boot` of `ClusterConsole` |
| Cluster tabs (`Scheduling`, `Accounting`, `Instances`, `StackEvents`) | jobs, accounting, instances, events of each cluster; windows and pending marks shared by all | list, select and cancel a job, filter past jobs, stop and start the head node, poll | `ClusterTabs` |
| Remote commands of the api (`ssm_command`, `queue_status`, `sacct`, `cancel_job`, `get_dcv_session`) | the SSM invocation, the CloudWatch stream with its output | send, poll until a deadline, read page by page, delete the stream | `RemoteCommand`, `CommandCall` |
| Users (`list_users`, `create_user`, `delete_user`, `Users.tsx`, `AddUserModal.tsx`) | the Cognito pool and its admin group, the list in the store, the form | create in two calls, delete, list | `Users` |
| Cost monitoring (`api/costmonitoring`, `Clusters/Costs`) | the cost-allocation tag, the cached status, pages of costs | status, activate, collect pages | `CostMonitoring` |
| Custom images (`old-pages/Images/CustomImages`) | list by status, selected image, its tabs, the build dialog | list, describe, configuration, events, build | `CustomImages` |
| API commands and the store (`frontend/src/model.tsx`, `store.ts`) | `clusters`, `aws`, `app`, `identity`, `users` subtrees | `request` and one command per page operation | in the module of the page that uses each |
| Feature flags | none | version and Region to flags | as sets, in `QueuesPage` and `StoragePage` |
| Request validation (`api/validation`) | none | marshmallow schemas | their outcomes only |
| Log pages, official images, shell, help panels, i18n | presentation | | what changes state is an action of another module |
| Lambda adapter, infrastructure, scripts | none of the program's | | not modelled |

### 1.2 How they interact

* Every frontend command goes through `executeRequest`
  (`http/executeRequest.tsx`). A `get` is one request; every other method is
  an *exchange* of two: `GET /csrf`, then the call with the token in a header,
  while the browser sends the cookie `GET /csrf` set. All tabs and the remote
  logger share one cookie jar.
* On the server a request passes `authenticated`, `csrf_needed`, `validated`
  and its handler, in this order. `authenticate` may mint an access token,
  which the answer carries back as a cookie.
* A 401 or 403 answer takes the page away (`window.location.replace`), and
  with it the logger's buffer, the store and every continuation.
* Commands write to one store by path when their answer arrives; what they
  were asked for is remembered only by closures. The wizard, the lists and the
  region switch therefore meet in the store.
* The remote logger is called by an interceptor of `executeRequest`
  (`httpLogs.ts`) and is itself a client of `executeRequest`.

### 1.3 What is hard

* *Interleaving of exchanges*: one CSRF cookie, many exchanges.
* *Answers out of order*: of logs, of token refreshes and logouts, of the
  three-request loads that fill the wizard's draft.
* *Partial failure*: no step of a load handles failure; a failed log POST may
  or may not have been stored; a failed revocation is only logged.
* *Long protocols*: the draft survives leaving the wizard, some of its fields
  survive cancelling it, and a region choice drops others.
* *Parallel arrays*: what the storage and queues pages know of one item is in
  several places by position, cleared, shifted and filled at different times.
* *One place for many*: the job window, the accounting filter, the pending
  marks of the tabs and `state.aws` exist once, while requests about several
  clusters, jobs or Regions are under way.
* *Two authorities*: the address and the store both name the selected
  cluster; Cognito, the store's list and the form all know users.
* *Deadlines*: `ssm_command` compares the time with its deadline in two places,
  and reads an output that CloudWatch may not have received yet.
* *Liveness*: a log entry waits for a timer; a mutation waits for two
  answers; the wizard waits for a load; details wait for a poll.

`PROJECT.json` lists the hazards one by one, with the source line at which each
bites and the properties that watch it, or the reason why none does.

### 1.4 What makes each component correct

* Logger: nothing logged is forgotten while its page lives, nothing is
  confirmed that is not stored, duplicates happen only for a failed POST, a
  fresh entry never waits without a timer.
* Session: a mutation is refused only when something disturbed its exchange;
  nobody is sent to the login page because tokens expire; nothing is minted
  for a revoked session; the cookies in the jar fit each other.
* Wizard: an update speaks of one cluster; a dry run changes nothing; the YAML
  submitted is the configuration edited last; the wizard waits for its load
  and for nothing else; one submission at a time.
* Storage page: each storage keeps its own entry of `ui`, its own errors and
  settings of its own kind; quotas hold; names the page makes are distinct.
* Queues page: what excludes one another (EFA, placement groups, several
  subnets, memory-based scheduling, capacity blocks) is apart however the
  controls were used; forms show the draft; a refusal shows its reason.
* Cluster and head node pages: resources, VPC and subnet are of the draft's
  Region and of one another; an edit leaves what an update may not change.
* Clusters page: address and selection agree; nothing of the old Region
  survives its choice but late answers; list and details follow the cloud.
* Tabs: what is shown and acted upon is of the cluster and job selected; what
  turns waits for something.
* Api commands: an answer other than the output has a cause, streams are
  deleted, every command sent is answered.
* Users, costs, images: pool, list and form agree; the page knows what it
  activated and shows whole costs; lists and details are of what was asked.

## 2. Modules

    LogDelivery           what the logger promises
       ^ implements
    RemoteLogger          class Logger and push_log           MCRemoteLogger
    RemoteLogger_proofs   theorems, EXTENDS RemoteLogger
    ProtectedApi          what handlers and callers rely on
       ^ implements
    HttpSession           cookies, csrf, authentication       MCHttpSession --+
    HttpSession_proofs    theorems, EXTENDS HttpSession                       |
    CommandCall           what a request for a command promises               |
       ^ implements                                                           |
    RemoteCommand         ssm_command and its callers                         |
    Users                 users page and Cognito                              +- MCServices
    CostMonitoring        cost monitoring                                     |
    CustomImages          custom images ------------------------------------- +
    Services_proofs       theorems, EXTENDS the four services
    WizardSession         the wizard's draft                  MCWizardSession
    WizardSession_proofs  theorems, EXTENDS WizardSession
    ClusterPages          its cluster and head node pages -+- MCFormPages
    ClusterPages_proofs   theorems, EXTENDS ClusterPages   |
    QueuesPage            its queues page -----------------+
    StoragePage           its storage page                    MCStoragePage
    ListPages_proofs      theorems, EXTENDS StoragePage and QueuesPage
    ClusterNames          constants of the next two
    ClusterConsole        the clusters page                   MCClusterConsole --+
    ClusterConsole_proofs theorems, EXTENDS ClusterConsole                       |
    ClusterTabs           the tabs of a cluster               MCClusterTabs -----+- MCClusterPage
    ClusterTabs_proofs    theorems, EXTENDS ClusterTabs

`MCServices`, `MCFormPages` and `MCClusterPage` put components that share no
variable side by side: each behaviour uses one of them and leaves the others at
rest, so that one run answers for all without multiplying their states. (The
components of a run do share the code they call; `executeRequest` is modelled
once, in `HttpSession`, and the other modules see of a call that it is served
and answered, or fails.)

Definitions keep the names of the code. A definition called `Bug...` sits in
front of the definition it is a plausible mistake in; no behaviour uses it.
`PROJECT.json` pairs each property with the mistake that breaks it, and maps
each definition to the lines it stands for. Several properties are conjunctions
of named parts, each with its own comment: `EntriesAccounted` is
`NothingForgotten`, `OnePlace` and `DuplicatesOnlyAfterFailure`.

A property may name exceptions: `lost`, `late`, `mixed`, `stray`, `moved` and
the like are history that records when the code itself gives the property up,
for instance an answer that arrives after the selection it was asked for. They
are set where that happens and nowhere else, and the definitions that follow
them say what the user then sees.

### 2.1 RemoteLogger and LogDelivery

| TLA+ | Code (`frontend/src/logger/RemoteLogger.ts` unless said) |
|---|---|
| `buffer`, `timeout`, `requests` | `logsBuffer`, `timeout`, the POSTs awaited by a `flushBuffer` |
| `Log` = `LogAndFlush` or `LogAndWait` | `log()`: append, then flush at the size limit or arm the timer |
| `TimerFires` | the `setTimeout` callback |
| `Flush` = `Disarm`, `Take`, a new request | the synchronous part of `flushBuffer` |
| `ServerHandles` | `push_log` (`app.py`), after the schema accepted the whole body |
| `RequestSucceeds`, `RequestFails` | the resolved and the rejected await |
| `PageUnload` | `redirectToAuthServer`, a reload |

An entry is a model value; its level, message and extras only matter for
whether the schema accepts it (`Invalid`). The five level methods are one
action. A request fails for any reason, before or after the server stored it
(`handled`). `logged`, `acked`, `lost`, `stored`, `duplicated` and `retried`
are history variables.

`LogDelivery` knows no buffer, timer or request: entries are submitted,
written in batches (perhaps again), confirmed once written, and dropped only
when the page ends. `ImplementsDelivery` maps `pending` to what is in the
buffer or in flight.

### 2.2 HttpSession and ProtectedApi

`jar` is the cookie jar (csrf cookie, access token with the id token, refresh
token), shared by the `Tabs`. A call of `executeRequest` happens once and moves
through `pc`: a write is `idle -> fetching -> issued -> holding -> sent ->
served -> done`; a read starts at `sent`. Each browser step (`StartWrite`,
`ReceiveToken`, `Send`, `ReceiveAnswer`) and server step (`IssueToken`,
`Serve`) is an action, so that cookies are those of the jar when the request
leaves, and cookies are set when the answer arrives. `Serve` is the decorators
in their order: `Unauthenticated`, admin group, `CsrfOutcome`; a refreshed
token is set even on the answer of a refused call. `authenticate` asks Cognito
for its keys before each decoding of a token, and for a token in between; `does`
is what Cognito does to one call (`Cognito`): the first keys missing and a refusal
by the token endpoint give a 401 whatever the session (`outages` records them),
what nothing catches gives a 400 (`Fails`), after which a token that was minted is
lost. A session may come without a refresh token (`bare`); its login then leaves
the refresh cookie there was. A 401 or 403 answer of a
call that is not a log POST sends its tab to the login page; its other calls
are gone, those already sent are still served. `Lose` fails either request or
its answer. `AgeToken`, `DropCookie`, `ExpireAccess` and `EndSession` are time
and Cognito. Not here: what the handler of an admitted call does, and the
`disable_auth` switch of local development.

`ProtectedApi` knows no cookie, tab or request. Sessions open and end, the tokens
given to them lapse, and the server looks once at a call (`Serve`): it may give a
token to a session that has not ended, and runs the handler or not, by an unexpired
token of an administrator. A caller is then told *done*, *refused* or nothing
certain (`Tell`), never *refused* of a call whose handler ran nor *done* of one whose
handler did not; nor does a call run later that was refused. `ImplementsApi` maps
`over` to the refresh tokens Cognito revoked, `ran` to `handled`, and what a caller
was told to the outcome of the answer it received.

### 2.3 WizardSession

`w` is `app.wizard`: name, editing, version, configuration, YAML, page, the
flags of loading and submission. `view` and `seen` are the mounted component
and the steps it unlocked; `loads` are the chains `DescribeCluster ->
GetConfiguration -> (LoadAwsConfig)` under way, `subs` the create and update
requests. A configuration is abstracted to where its contents came from, its
region, and whether a page edited it since; comparing these is what the
properties need.

Handlers are translated with everything they do at once, mount effects of
the page they show included (`Mounted`, `Shows`): entering the version page
clears the version of a draft that is not an edit, entering the cluster page
fills in defaults, entering the create page dumps the YAML. Answers write to
the draft there is (`ConfigurationAnswered`, `AwsConfigAnswered`,
`SubmitAccepted`), and `LoadFailed`, `SubmitLost` run no handler. Arguments
passed in another order than the parameters are modelled by what JavaScript
makes of them (`FlagAsVersion`, `VersionAsFlag`).

Left out: the contents the pages validate (a page between cluster and create
always validates), the refresh button, YAML typed by hand, the VPC page
field. All clusters live in `HomeRegion`. The wizard component of the design
system treats step links as disabled while the next step loads; that is
external to the repository.

### 2.4 StoragePage

| TLA+ | Code (`frontend/src/old-pages/Configure/Storage.tsx` unless said) |
|---|---|
| `storages`, `ui`, `errors` | `config.SharedStorage`, `storage.ui`, `errors.sharedStorage` of `app.wizard` |
| `visible` | `snapshostVisible`, the local state of the mounted EBS forms |
| `Renders` | a render of the page and the effects of its forms until they settle: `Filled` adds the defaults, a form keeps its local state by index |
| `OnAddStorageSubmit` | `onAddStorageSubmit` and `buildStorageEntries` |
| `RemoveStorage` | `removeStorage`, the renaming included |
| `ToggleUseExisting` with `CanToggle` | `toggleUseExisting` and its checkbox |
| `StorageErrors`, `StorageValid` | `storageValidate` |
| `Cancel`, `WizardShow`, `SelectRegion`, `LoadTemplate`, ... | what `clearWizardState`, `wizardShow`, `RegionSelect` and `loadTemplateLazy` do to the three arrays |

Of the settings a record keeps what the controls depend on (the module's
header says how); mount points, volume types, encryption, capacity,
compression, import and export paths and deletion policies are left out. So is
the region of the top bar, which clears the whole store and so goes back to
`Init`. `WizardSession` and `StoragePage` overlap in the draft's life only:
each keeps of it what its own properties need. Templates are well-formed
storages within the bounds. A batch is a selection of distinct types that are
offered, as the multi-select has it.

History variables name the exceptions: `aligned` (the draft began with `ui`
empty or loaded: `clearWizardState` and `wizardShow` leave it as it was),
`named` (a name was typed or loaded) and `shifted` (a removal gave a form,
whose state is kept by index, another volume).

### 2.5 ClusterConsole and ClusterTabs

`ClusterConsole` has the cloud (`clouds`: each Region's clusters, running, stopped,
deleting or gone), the address and selection (`nav`), the answer react-query keeps
(`data`) joined into `clusters.list` and `clusters.index`, and the requests under
way (`requests`), each with the Region it was asked for: `request` appends the
selected Region unless the URL contains the word "region", which the names in
`Regional` do. `Settle` is the effects that follow a change of address or list
(`Clusters.tsx`, `onClustersUpdate`, `selectCluster`) until nothing changes.
`CloudServes` and `HandleAnswer` are the server's and the browser's side of an
answer; `Lose` loses it. `late` and `failed` are history. The list does not tell
running from stopped; details do.

`ClusterTabs` has the tabs of the details that act on machines. A request
carries the cluster and job it was asked for (`of`, `job`), and `for`, what its
continuation still does; leaving a tab orphans the continuations of its buttons
(`Orphaned`). The window of a job (`modal`), the accounting filter and its
pending mark (`search`), and the stops in progress (`stopping`) exist once,
whatever cluster is selected: that is where answers go astray. The cluster's
configuration is loaded and allows SSM; a jump by browser history from a tab of
one cluster to a tab of another is left out, as are the log and file system
tabs.

### 2.6 RemoteCommand, Users, CostMonitoring, CustomImages

`RemoteCommand` follows one request through `ssm_command`: send, sleep, poll,
compare with the deadline, read the stream part by part, delete it. `Progress` is
SSM, `Deliver` CloudWatch (parts arrive late, perhaps after the deletion), `Tick`
the clock: time is before, at or after the deadline, which is all that the two
comparisons (`PclusterApiHandler.py:296`) see of it. `handler` says who called,
since `sacct`, `queue_status`, `cancel_job` and `get_dcv_session` treat the outcomes
differently. `SendCommand` and `Poll` may fail; nothing catches it and the request
ends in an error. So may the response of a command that was sent (`LearnCommandId`),
which then runs unattended. `CommandCall` is what the page relies on, without
polling, deadline or stream: the command runs at most once, and the one answer is
true of it. `ImplementsCall` maps `node` to the status SSM has of the command
(`OnNode`), `printed` to its output's length and `reply` to the answer.

`Users` has Cognito's accounts and the admin group: `create_user` creates,
then adds to the group (`AddToGroup`), and may fail between. An account is an
address and a number, so that an address deleted and created again is another
account. Other administrators delete (`OtherDeletes`). `AddUserModal` keeps one
error in the store and one in itself; `form` has both.

`CostMonitoring` has the cached query for the tag's status with its request,
the activation and what `onSuccess` writes into the cache, and the loop that
collects the pages of Cost Explorer. The loop does not pass the token of the
next page (`costexplorer_client.py:80`), so with two pages it reads the first
for ever: `OnePageAnswered` promises an end for one page only, and
`CostsAreWhole` holds because the loop cannot end otherwise.

`CustomImages` has the list by status (React state and the store's copy of
the status), the selected image, its tabs and the build dialog. A tab asks when
it is mounted, not when another image is selected (`reselected`).

### 2.7 QueuesPage and ClusterPages

`QueuesPage` keeps the draft's queues as records of what the controls of the page
depend on. Effects of the components that nothing but a step can trigger again are
applied to the outcome of each step until they change nothing (`Settled`). `forms`,
`amiEnabled` and `queueErrors` are by position, as in the code: a removal leaves
them where they were (`moved`, `amisMoved`). Compute resources of one and of several
instance types are the two halves of the code that the flag
`queues_multiple_instance_types` chooses from (`Multi`). `listed` is
`aws.instanceTypes`, which comes and goes with answers the page does not wait for
(`ListTypes`); the select of a single type looks at it once, when it is mounted, and
stays empty if the draft's type is not there (`CrForm`; `known` is history). Left
out: schedulable memory, security groups, IAM policies, root volumes, the queue
update strategy, and the difference that `editing` makes to labels. The version does
not change within a draft. The two scripts of a queue are one.

`ClusterPages` has the fields of the cluster, head node, multi-user and Slurm pages
that depend on each other or on `state.aws`. `LoadAwsConfig` requests are answered
in any order or lost, each filling `state.aws` with its Region's resources. A Region
lists any number of key pairs, and a configuration may name one that was deleted:
loading it sets the first of those listed (`SetKey`); what a Region lists does not
change meanwhile. `Turns` are Next, Previous and the links of the wizard's steps:
forward links validate only the page left (`useWizardNavigation.ts:54`). The
selected Region stays `Home`; `DescribeCluster` and `GetConfiguration` answer at
once, for `WizardSession` has their delays; the pages after the head node's are one.
Left out: cluster name, operating system, instance type, root volume, security
groups, metadata service, scripts and optional directory settings, and the return by
browser history.

Three things the model has as the code has them and no run calls a violation,
because nothing in the repository promises otherwise: the refresh button asks for the
selected Region's resources, since `Configure.tsx:169` reads a path nobody
writes (`astray`), and a VPC chosen again keeps the old head-node subnet
(`Cluster.tsx:318`; `moved` in `SubnetInVpc`). A third is about edits: a cluster
whose key pair is no longer listed gets the Region's first (`util.tsx:125`), though
an edit has the key pair's field disabled; `KeyKept` says that no other edit does.

## 3. Runs

`CHECK_DEADLOCK FALSE` wherever calls, entries, slots or accounts are finite: a
system that has used them up stops. The storage page never does.

| Run | Instance | Shows |
|---|---|---|
| `logger` | 4 good entries, 1 rejected, buffer of 2 | conservation, order in the buffer, head-of-line blocking, the refinement and the liveness of the logger |
| `http_session` | two tabs, one mutating and one reading, two expiries, two logins, the first with a refresh token; Cognito may fail any call | no needless login, fitting cookies, the refinement of `ProtectedApi` |
| `services` | an exchange with a log POST; a command of two parts; one address, two accounts; two pages of costs; two images | refusals, failures and empty answers have causes; pool, cache and lists agree; the refinement of `CommandCall`; what is started is answered |
| `wizard` | two clusters of two versions, a template here and one elsewhere, two loads, two submissions | updates of one cluster, dry runs that stay dry, current YAML, one submission, waits with a cause |
| `storage_page` | two storages of two of four types, `ui` up to three long, batches of up to two, two versions, three templates | the arrays in step, quotas, names, settings, errors of the page |
| `form_pages` | two queues of two compute resources, three types, four versions; three Regions, three VPCs, four key pairs and four configurations | the two pages' drafts fit, forms and errors in step, edits keep their setup |
| `cluster_page` | two clusters in two Regions, one choice of Region, one failure; or the tabs with two jobs | selection and address, stale data, waits with causes, windows of what was selected |
| `cluster_console_live` | one cluster, two Regions, one failure | list and details converge, details end to load |
| `wizard_dry_run`, `wizard_loading`, `wizard_version`, `storage_names` | as small as shows it | the four findings below |

Most runs split their behaviours into *uses* (`Uses` of the MC modules): a use
names the controls, clusters or failures a behaviour has, and each hazard's
actors meet in one of them. What is not combined is said here: two failures;
a deletion or a second cluster together with leaving the page and a choice of
Region; more than two requests under way while dialogs are used; two clusters
with a failure in the tabs; a second cluster with the start of a fleet;
controls of different groups of the queues page; choices of places with
drafts of both Regions; an invalid user's name with the deletion of users.

Bounds, and why they are enough:

* `BufferSize = 2` with five entries: the buffer can be full, partly full,
  overflow through a retry, and two or three flushes overlap, one of which
  carries the rejected entry. With three or more in the buffer nothing new
  meets: `Requeue` and `Take` are uniform in the length.
* Two calls in `HttpSession`: an exchange is disturbed by one other exchange, and
  each step of the second meets each step of the first. `MaxExpired` and `MaxLogins`
  of 2 let an old answer arrive in a new session and a refreshed token expire again.
  The first session has a refresh token (`RefreshableSpec`), the second may come
  without and meets the cookie the first one left; the `services` run and the proofs
  have both without.
* `LastPage = 4`: version, cluster and create pages each do something else;
  the page in between stands for the rest, which only edit the configuration.
  Two load slots: an abandoned load and the current one. Two submission slots:
  the property is that the second stays empty.
* `MaxStorages = 2` and `MaxUi = 3` in `StoragePage`: a removal shifts a storage,
  and one entry of an abandoned draft may lie under two new storages. Quotas
  are scaled down to one storage to create and one to attach of each type, so
  that both limits and the total are met; the code's are 1 to 5 and 5 to 20.
  `use` picks the two types of a behaviour: EBS with EFS, whose forms
  differ most, or Lustre with ONTAP, which depend on the version. A position
  holds one error at a time (`MaxErrors`); what `storageValidate` does with an
  error does not depend on the others.
* `MaxQueues = 2`, `MaxPerQueue = 2`, `MaxPerCluster = 3` in `QueuesPage`: a
  removal shifts a queue and a compute resource, and each limit is met before
  the others; the code's are 10, 5 and 50, or 50 each in later versions
  (`Queues.tsx:76`).
  Types: one that supports EFA, one that supports it and is for HPC, one that
  does neither and may burst. `NodesBound` (-1 to 6) bounds the nodes of a compute
  resource: static nodes are given and taken away, and once made negative.
* Three Regions: one with two key pairs, one with one, one with nothing to offer.
  The configurations name the second key pair, none, and one that is in no list,
  in the selected Region and in another.
* `MaxFlight = 2` (pages), `MaxUserCalls`, `MaxImageCalls`, `MaxLoads` of 2:
  an answer overtakes another, and the page asks again before the first
  answer. `MaxFails = 1`: a failure between two answers. `MaxSwitches = 1`:
  answers asked before a choice of Region arrive after it.
* `MaxParts = 2`: an output is read in more than one page, and part of it may be
  late. `MaxMade = 2`: an address is created again. `MaxPages = 2`: the
  smallest answer with a token.

### 3.1 Fairness

`RemoteLogger`'s `FairSpec` assumes weak fairness of `TimerFires`: a browser
timer that stays set fires. Requests need not be answered and `log` need not be
called; `FreshIsSent` holds without either. `HttpSession`'s assumes weak
fairness of each call's own steps: a request under way is answered and its
promise continues; that it may be lost is an action (`Lose`), and
`UndisturbedRuns` names it as an exception. `ClusterConsole`'s assumes that the
start of the page ends, that the timers of the list and the details fire while
their page is shown, and, for each kind of request and cluster, that some
request of the kind is served and some answer received; failures remain
possible within `MaxFails`. `RemoteCommand`'s assumes that the api's process
runs and its clock goes on (`Handle`, `Tick`), nothing of SSM or CloudWatch.
`CostMonitoring`'s assumes that the loop runs (`ReadCosts`). `ServicesSpec` and
`FairMCSpec` restate these for the run's next-state relation, each for the part
in use. `WizardSession`, the form pages, `ClusterTabs`, `Users` and
`CustomImages` have no liveness property: no continuation of theirs handles
failure, so the code promises none; what they have instead is that whatever
waits has its answer under way (`WaitsRightly`, `WaitsHaveCauses`,
`NetworkFits`, `ImagesInStep`).

### 3.2 Findings

* `wizard_dry_run`: `handleDryRun` passes `UpdateCluster` its last arguments
  in another order than its parameters (`Create.tsx:167`, `model.tsx:159`).
  A dry run of an edit therefore forces always and names no version. It does
  stay dry, because the version is set on every path to the create page of an
  edit: that is `DryRunNeverEdits`, which holds.
* `wizard_loading`: the answer to an abandoned load ends the wait of the load
  under way and fills its draft (`util.tsx:131`).
* `wizard_version`: choosing a region replaces `app.wizard` by four of its
  fields, and the cluster is created without the version chosen a page before
  (`Cluster.tsx:173`).
* `storage_names`: a storage added after those of a template can get a name
  that one of them has (`buildStorageEntries.ts:34`); validation lets it pass.

Two more divergences are modelled as the code has them and appear as
exceptions: storages of the types `defaultCounts` leaves out have no limit
(`Storage.tsx:1236`), and a draft begun after an abandoned one may exceed the
quotas because it counts with the old `ui` (`Configure.tsx:89`).

The same causes appear as the exceptions of properties that hold: `mixed` (an
answer for another draft landed) in `UpdateIsOfOneCluster` and
`WaitsForItsLoad`, `dropped` (a region chosen during a submission) in
`OneSubmission`.

## 4. Proofs

Each theorem is about a component's own specification (`Spec`, `PagesSpec`,
...), not about the run's narrower one, and holds for every value of the
constants that its module's assumption admits. The assumptions say that bounds
are numbers, that a value standing for "not there" is none of the values that
may be there, and how functions among the constants are typed; TLC evaluates
each on the instance of its run. What more an assumption says is named below.

### 4.1 RemoteLogger

`RemoteLogger_proofs` proves, for any sets of entries and any buffer size above
zero (`InvalidAssumption`, `BufferSizeAssumption`): `TypeCorrect`,
`EntriesAreAccounted` (from `LogConservation`, `EntriesInOnePlace` and
`DuplicatesHaveACause`), `BufferStaysSound` (from `NoFreshEntryStranded`,
`NoEmptyPost` and the order of the buffer), `NoEarlyConfirmation`,
`MetNeverPart` (the action property `MetStayTogether`, which needs only the types:
`TogetherStep`) and `LoggerImplementsDelivery`.

None of the safety properties is inductive alone, so the invariant is built in
layers, each proved preserved using those below it:

1. `TypeOK`.
2. `Located`: what was logged is where `NothingForgotten` says, and the places
   are `Apart`. Needed because an entry leaves a place only if it was in no
   other.
3. `Delivered`: a request marked handled has its entries stored, and what is
   confirmed is stored; an entry stored while in the buffer or in an unhandled
   request was retried. The last is what makes duplicates have a cause.
4. `Timed`: without a timer everything in the buffer was retried, with one
   there is something in it, and no request is empty.
5. `NoRepeats`: sequences hold no entry twice, from `Apart` and the freshness
   of what is appended.
6. `Ordered`: `RetriedFirst` and `FreshBounded`. What comes back in front of
   the buffer was in no other place (`Located`), and what is appended was never
   retried (`Delivered`).

The refinement theorem maps `Init` to `Init` and each action to a step of
`LogDelivery` or a stutter: `Log` to `Submit`, `ServerHandles` to `Write`,
`RequestSucceeds` to `Confirm`, `PageUnload` to `EndOfPage`, and `TimerFires`
and `RequestFails` to stutters.

### 4.2 HttpSession

`HttpSession_proofs` proves `SessionTypes`, `RefusalsHaveCauses`, `LoginsAreNeeded`,
`JarStaysFit`, the action property `NothingMintedAfterTheEnd` and
`SessionImplementsApi`, for any calls, tabs, logins and expired tokens
(`CallsAssumption`: log POSTs are no reads). Whether a call is refused is decided
where it is served; whether that was deserved depends on every cookie set since its
token was fetched. So `SessionInv` follows the token: a call with an exchange open
beside it is `disturbed` (`OverlapDisturbs`); the token of an undisturbed call is in
the jar while it is held and in the call's cookies once sent (`TokenInPlace`);
refusals then have their cause the moment they are given (`AnswersHaveCauses`). For
the other cookies, the jar's refresh token is that of the last login which brought
one, or gone (`LastSession`), and until a session ends there are some, but for a
refresh token no session had (`SessionLives`). `ReadsSkip` keeps reads out of the
exchange. `CookiesFit` needs `LastSession`'s order of sessions, which no single step
shows.

The refinement theorem maps `Serve` to `Serve` of `ProtectedApi`, `ReceiveAnswer`
and `Lose` to `Tell`, `Login` to `Open`, what revokes a refresh token to `End`,
`ExpireAccess` to `Lapse`, and the rest (the csrf exchange, cookies, redirects) to
stutters. It needs two things the other theorems do not: an answer on its way is
true of `handled` (`AnswersAreTrue`, for which a call that was not served yet must
not have run, either), and a handler's token is of an administrator and has not
expired (`ServeIsServe`), which the decorators decide from the cookies the call
carries, not from the jar.

### 4.3 WizardSession

`WizardSession_proofs` proves `DraftStaysOK`, `OneSubmissionAtATime`,
`UpdatesAreOfOneCluster`, `DryRunsNeverEdit` and `WaitsAreRight`
(`WizardAssumption`: there are at least the three pages the code names, and names
of clusters, templates and new clusters are apart). `WizardInv` has, next to the
types, `RegionSet` (past the cluster page a region is chosen, also for steps
that were only seen, since a link may return to them), `YamlIsCurrent`, `Submitted`
(the waiting mark stands for the one submission unless `dropped`), `Awaited` (at
most one load is the draft's own), `Edited` (an edit past the version page has a
version, hence a dry run of it is dry) and `OfOneCluster` (an edit and the
load that will fill it name the same cluster; it leaves the version page only
when the load has come). The last is needed because `UpdateIsOfOneCluster` speaks
of requests, and what they carry was settled pages before.

### 4.4 StoragePage and QueuesPage

The two pages keep a list of the draft, and state beside it by position; one
module, `ListPages_proofs`, proves about both.

Of `StoragePage` it proves, for any types, versions, feature flags, quotas,
templates and bounds that satisfy `StorageAssumption` (a type has a form exactly
if it can be created; the total allowed of a type is at most what can be created
and attached of it together, as 21 is 1 + 20 and 5 at most 5 + 5 in `Storage.tsx:1214`
and `Storage.types.ts`; templates are well-formed): `Typing`,
`StoragesStayInStep` from `Covered`, `KindsMatch` and `NamesDistinct`,
`ValidationStaysCurrent`, `FormsStayFit` and `QuotasHold`. The first inductive
invariant is

    IInv == TypeOK /\ UiCoversStorages /\ SettingsMatchKind /\ NamesMade

Its parts need each other: the settings of a storage stay settings of its type
only if a form of that type is shown exactly for the managed ones
(`SettingsMatchKind`), which is read from `ui` at the storage's position
(`UiCoversStorages`). `NamesMade` says that a name the page made is the one of
its position; distinctness alone would not survive an addition. A step is
reduced to what it renders: `Good` arguments of `Renders` give the invariant
(`RendersWell`, `PageStep`), and each action's lemma shows its arguments good.

The other theorems build on it. `ValidationStaysCurrent` follows from the types
and what `HandleNext` writes (`NextValidates`). `FormsStayFit` adds `LustreFits` to
`FormsFit`: the throughput of every Lustre storage, in a form or not, is none or
its deployment type's own, because a storage that is switched to a managed one
gets its form later. `QuotasHold` takes `WithinQuotas` itself as the invariant;
the lemmas under it count (`CountsAdd`, `AddKeeps`, `RemoveKeeps`,
`ToggleKeeps`): a batch is counted against the storages before it, and the
selector that offers it no more than what `storageMaxes` leaves, so both of a
type's quotas hold after it only because the total is at most their sum.
Both are conditional on what is loaded, since a
configuration may hold what the page would never make: `TemplatesFit` (its Lustre
throughputs are none or their deployment type's) and `TemplatesKept` (its
sections are within the quotas). The `storage_page` run's templates satisfy them.

Of `QueuesPage` it proves `QueuesStayOK`, `FormsStayInStep` and the action property
`ErrorsStayInStep`, for any instance types, subnets, versions, reservations, counts
and limits that satisfy `QueuesAssumption` (the default type is a type, the limits
are positive, as in `Queues.tsx:73`, and a section that can be loaded is well-formed
and within them). The invariant is

    QInv == QueueKinds /\ Draft /\ Effects /\ Forms /\ (SectionsFit => Content)

* `Draft` has the shape of the queues and of the forms and, before 3.3, that each
  compute resource has one type and no reservation, which the forms of those
  versions rely on.
* `Effects` is what the components' effects leave of a queue on the page: no
  placement group and no EFA over several subnets, multithreading on HPC types,
  memory-based scheduling with types it can schedule. No action restores it, each
  re-establishes it through `Settled` and `Hold`, so it is needed of every queue to be
  kept at one (`SettledKeeps`, `SettledResource`).
* `Forms` relates the draft to the forms' own state, position by position, until a
  removal moves them; the custom AMI marks outlive the page and the draft, so they
  have a part of their own (`AmiIsShown`). It needs `Draft` for there to be a form at
  each position and, before 3.3, a type for it to show, and says that a select is empty
  only if its type was not listed all the while (`known`).
* `Content` is about what a section brings along: EFA on types that support it,
  dynamic nodes, names. Names are `Apart` only if none is one the page gives next
  (`queue` and the number of queues plus one), so that is part of it.

A configuration written by hand may bring EFA on types without it, or a queue named
as the page names the next. `SectionsFit` is the hypothesis that it does not; only
`QueuesStayOK` has it. TLC checked `QInv`, and that the section which the
`form_pages` run loads satisfies `SectionsFit`, on that run's instance. Of
`ErrorsInStep`, the part about refusals needs `Forms`: an error is in sight only if
the form of its field is open, which the draft decides (`RefusedAt`).

### 4.5 ClusterPages

`ClusterPages_proofs` proves `DraftsCanBeShown`, `NetworksFit`,
`PassedPagesAreValid` (as `PagesBehindAreValid`) and `EditsKeepSetup`.
`PagesAssumption` says that a configuration that can be loaded is of one Region
with its subnet; its key pair may be any, listed or not, and a Region lists any
sequence of them. `PagesInv`
consists of `Kinds`, `Regional` and `Shown`. `Kinds` ties a draft's fields to one
another (`DraftBegun`: a draft exists exactly when it has a Region). `Regional`
is what late answers are checked against: a draft is *meant* for its Region, or
for the selected one while it has none (`Meant`); loads that are due, the resources
once none is due, and the VPC are of that Region. Without `Meant` the invariant
would not survive the mount effect that gives the draft its Region while loads
asked before are under way. `Shown` adds what the pages show; `PassedPagesAreValid`
in it needs the other conjuncts, since an effect of a later page changes fields an
earlier page validated. TLC checked `PagesInv` on the `form_pages` instance first.

### 4.6 ClusterConsole

`ClusterConsole_proofs` proves `ConsoleTypes`, `SelectionAlwaysFollows` and
`NothingElseIsStale` (`ConsoleAssumption`: the clouds to start with give every
cluster of every Region a state). `ConsoleInv` adds to the properties what
requests carry: `Fits` says that an answer other than an error has the fields its
continuation reads, also for `Confirm` after the list's answer deselected the
cluster, whose request names no cluster and can only be answered by an error;
`Current` says that a request not yet `late` is of the Region chosen, unless its
cluster's name hides the Region. `Current` is what makes the store's contents
current when an answer lands. `SettleFollows` is the lemma behind the selection:
wherever the effects stop, address and selection agree.

### 4.7 ClusterTabs

`ClusterTabs_proofs` proves `WaitsAreAnswered`, `TabsShowIt` and
`ActionsShowTheirOutcome`, the last an action property (`TabsAssumption`: answers
and failures are no values a tab shows, and the marks a request carries are no
jobs or filters). `TabsInv` consists of

* `Kinds`: types, which fields each request has and what may answer it
  (`RequestFits`), and that a tab is open of a cluster (`ViewFits`);
* `Stops`, `Buttons`, `AccountingHasCause`, `EventsOnTheirWay`: for each pending
  mark the request that will clear it, or the failure that never will;
* `Windowed`, `StopsWhatIsShown`: an open window is of the cluster selected and of
  the job asked last, hence Stop Job cancels where the job runs;
* `Ordered`, `AccountingInStep`: while a cluster's accounting requests did not overlap,
  those under way are for the filter and job asked last, so that what they bring
  is too. `AccountingInStep` alone breaks when an answer arrives;
* `Acted`: an action of the head node asked alone is the only one under way, and
  once served the machine is as it asked, and so is the refresh that its
  continuation sends. `ActionShowsOutcome` is about one step, but what that step
  shows was decided three requests earlier.

### 4.8 The services

`Services_proofs` extends four modules that share nothing and proves a theorem of
each; each invariant begins with the module's types (`CommandTypeOK`, `UsersTypeOK`,
`CostTypeOK`, `ImagesTypeOK`), proved with it.

* `CommandOutcomes` (of `RemoteCommand`, any length of output): `CommandInv` says
  what the handler knows at each stage: no answer before the end (`Shape`), the
  stream exists from its first part on (`Streamed`), and the wait ends with a
  status or the deadline (`Waited`).
* `CommandImplementsCall` maps `SendCommand` to `Run`, the `Progress` that ends the
  command to `End`, and whatever answers (`SendCommand`, `LearnCommandId`, `Poll`,
  `Check`, `EndRead`) to `Reply`. That the answer is true (`AnswerIsReply`) needs
  `CommandInv` and that a handler which waits has sent its command (`Sent`): the
  status it saw is then the command's own, and one that ended does not change. This
  proof corrected the model: SSM used to make progress with, and CloudWatch to
  deliver the output of, a command whose sending had failed.
* `UsersAlwaysAgree` (of `Users`, any addresses and accounts): an account is made
  once (`Counted`); a creation between its two calls carries an account of its
  address (`CreatedOfAddress`); a user whose deletion was answered is gone
  (`DeletedIsGone`), and no answer on its way brings an erased one back
  (`ErasedIsGone`).
* `CostsAlwaysAgree` (of `CostMonitoring`, any number of pages): the tag once active
  stays so (`StaysActive`), hence answers after the activation say so
  (`AnswersKnow`); the loop reads page one until an answer has no token (`Paged`).
* `ImagesStayInStep` (of `CustomImages`): lists and configurations under way are of
  the status and image chosen (`ListAsked`, `ConfigurationAsked`), details that
  are missing are asked for (`DetailsOnTheirWay`), one build at a time (`OneBuild`).

### 4.9 Only model-checked

Liveness (`FreshIsSent`, `RequestsAnswered`, `UndisturbedRuns`, `ViewsConverge`,
`SpinnerEnds`), which is out of the prover's reach, and the counterexamples of
section 3.2. Every invariant, action property and refinement that a passing run
checks is the statement of a theorem.

## 5. Plan and what is not modelled

Done: the logger, the session, the wizard's draft and its storage, queues,
cluster and head node pages, the clusters page and its tabs, the backend's
commands, users, costs and images.

Not modelled, and why:

* The interceptor `httpLogs.ts`, which makes the logger a client of itself: its
  log of a flush's `GET /csrf` would keep a buffer from ever emptying; the
  model would be `RemoteLogger` with one more caller of `Log`, and no property
  of it tells the caller. Listed as a hazard without a property.
* `get_identity` decoding the token a second time
  (`PclusterApiHandler.py:626`): it needs a token that expires within one
  request on the server, and `HttpSession` has a request's decorators and
  handler as one step.
* The log pages and official images: lists fetched by react-query and shown,
  without state of their own.
* The schemas of `api/validation` and the parsing of command outputs: pure
  functions of strings, with unit tests.
* The store's path algebra (`setIn`, `getIn`, `updateIn`): TLA+'s records and
  functions take its place.
* Presentation: help panels, translations, navigation; what it changes of the
  state is an action of some module.
* The Lambda adapter (vendored), CloudFormation templates and scripts: no state
  of the program.

## 6. Running

    tlc -workers 2 -config RemoteLogger.cfg MCRemoteLogger
    tlapm RemoteLogger_proofs.tla
    tlapm HttpSession_proofs.tla
    tlapm WizardSession_proofs.tla
    tlapm ListPages_proofs.tla
    tlapm Services_proofs.tla
    tlapm ClusterPages_proofs.tla
    tlapm ClusterConsole_proofs.tla
    tlapm ClusterTabs_proofs.tla

Each run of `PROJECT.json` names its module and configuration; the passing ones
take between one and four minutes. From nothing, the proofs of the list pages, the
cluster pages and the tabs take about four minutes each, the others less.
