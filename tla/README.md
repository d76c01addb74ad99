# A TLA+ development of skaha, the session service of the CANFAR Science Platform

`src/skaha` is a Java web service that launches and stops interactive and batch
sessions on Kubernetes. It keeps no state between requests: a handler runs
`kubectl`, parses what it prints, and runs `kubectl` again. All state is in
Kubernetes, on a shared file system and in Redis, and any number of handlers, on
any number of replicas, work on it at the same time together with the job
controller, Kueue, the kubelets and the garbage collector. Nothing is locked and
nothing is rolled back. What can go wrong lies between two calls, and that is what
the modules here are about.

Files:

| module | what it is | checked by | proofs |
|---|---|---|---|
| `SessionLifecycle` | POST and DELETE of sessions, call by call, against Kubernetes and Kueue | runs `launch`, `limit`, `end`, `max` (through `MCSessionLifecycle`) | `SessionLifecycleProofs` |
| `SessionContract` | what a session is seen from outside: the abstract specification that `SessionLifecycle` implements | runs `launch` and `end`, property `KeepsContract` | theorem `Implementation` |
| `RegistrySecret` | the image pull secret that all launches of a user share | runs `secret`, `secret_faults` | `RegistrySecretProofs` |
| `Renewal` | POST `?action=renew`: new deadlines while time runs | runs `renew`, `renew_all` (through `MCRenewal`) | `RenewalProofs` |
| `SessionLease` | what renewing promises, seen from outside: the abstract specification that `Renewal` implements | run `renew`, property `KeepsPromises` | theorem `LeaseImplemented` |
| `UserHome` | making a user's home with `add-user`, by concurrent POSTs | run `home` (through `PosixMaps`) | `UserHomeProofs` |
| `PosixMaps` | `UserHome` composed with the POSIX entries that each POST writes into Redis | run `home` | `PosixMapsProofs` |
| `SessionList` | `Renewal` composed with the session list: which expiry time is shown | run `views` | `ViewsProofs` |
| `CartaSidecar` | `SessionList` composed with the CARTA sidecar and its TTL cache | run `views` (through `MCViews`) | `ViewsProofs` |
| `DesktopApps` | tokens and apps of desktops: one key pair for all replicas, callbacks, attaching apps | run `apps` (through `MCDesktopApps`) | `DesktopAppsProofs` |
| `CommandOutput` | draining the pipes of a child process, and the copy loop for logs | run `output` | `CommandOutputProofs` |

`PROJECT.json` lists the components, the runs, the lines each definition stands
for, the hazards, the findings and the theorems. Abbreviations below: PA, DA, GA for
`session/PostAction.java`, `DeleteAction.java`, `GetAction.java`; SA for
`session/SessionAction.java`; SK for `SkahaAction.java`; DAO for
`session/SessionDAO.java`; CE for `utils/CommandExecutioner.java`; JB for
`session/SessionJobBuilder.java`; PX for `utils/PosixCache.java`, all under
`src/skaha/src/main/java/org/opencadc/skaha/`.


## 1. Inventory

### 1.1 Components, their state, operations and interactions

**Session launch** (PA). State: none of its own; it makes a Kubernetes job per
session and, for an interactive session, a service, an ingress route and up to two
middlewares. One POST runs, in this order: count the user's sessions against
`skaha.maxusersessions`, draw a random session ID, make the user's home if there is
none, refresh the image pull secret, put a proxy certificate into the home, write the
user's POSIX entries, create the job, look the job up to learn its UID, create the
service, look the job up again, create the ingress, answer the ID. Interacts with
almost every other component of this list. Hard: all of this lies between the check
and the job it decides about; every failure of `kubectl create` is only logged;
a crash leaves what was made.

**Session delete** (DA). A DELETE reads the pods with the session's label, checks
the owner, and deletes the job, the ingress route, the service and one middleware,
each with a call of its own whose failure is ignored. Hard: it interleaves with the
POST of the same session, and it knows names, not objects.

**Image pull secret** (PA 582-587, 659-666; CE 97-158). State: one secret
`registry-auth-<user>` per user. Every launch of a private image deletes and creates
it. Kubelets read it when they pull. Hard: concurrent launches, different
registries, the moment without a secret, failures between the two calls.

**Session renewal** (PA 244-264, 382-464; SA 353-378). State: `activeDeadlineSeconds`
and `status.startTime` of each job. Hard: the new deadline is computed from the
clock and two lists and set in a third call; jobs are suspended, resumed, lose pods
and end in between; renewals overlap.

**User home allocation** (PA 291-335; SA 145-208; `src/skaha/src/scripts/add-user`).
State: the home directory, its configuration files, `.ssl`, `.casa` and quota. Hard: test and
make are far apart and the script is not idempotent.

**Command output** (CE 25-88, 175-183). State: the pipes of a child process and the
buffer of the copy loop. Hard: two pipes of limited capacity and two processes that
may wait for each other.

**Desktop apps** (PA 693-797; DA 144-158; SA 380-406). A desktop-app is a job that
shares its desktop's session ID and is told the address of the desktop's pod. Hard:
the pod that was read may be the wrong one or gone; a deleted desktop leaves its apps.

**Callback token secret** (SK 190-291; CE 160-173; PA 648-651). State: one key pair in a
secret, read or created by the first request that needs it. A launch of a desktop signs
a token with it, and the desktop presents that token whenever it calls skaha back. Hard:
two first requests, a create that fails unseen, tokens that outlive the requests.

**Session listing** (DAO 78-154; GA 429-454). GET session lists pods, then jobs, then the
resource usage, and joins the rows. It shows the start time of the pod plus the deadline of
the job as the session's expiry time. Hard: the deadline counts from the start of the job,
not of the pod; the two lists are of two moments; renewals, suspensions and evictions go on.

**Resource statistics** (GA 101-261; `ResourceStats`). Unit conversions and sums over
the nodes and pods. Hard: widths and units.

**Session objects** (JB, `SessionServiceBuilder`, `SessionURLBuilder`, `SessionType`).
Builds a job, a service and a URL from a template and labels.

**Queue initialisation** (`InitializationAction`, `QueueConfiguration`). Looks the
configured Kueue queues up at start, and does not start without them.

**POSIX map cache** (PX 65-101; PA 596-597, 642-646). State: two sets in Redis, users and
groups. Each POST reads both lists from the POSIX mapper and adds them, in a transaction
each, before it creates its job; init containers read them. Hard: lists that are read
before they are written, entries that change, the purge that PX 15 asks for then, and
failures between the two transactions.

**Image cache** (`utils/RedisCache`, `image/GetAction`). Reads what an external script
puts into Redis.

**Request initialisation and authorisation** (SK, SA). One request's path through
groups, principals and priorities.

**Context, repository and availability endpoints**; **names, commands and
configuration**: no state.

**CARTA sidecar** (`src/sidecars/carta/src/carta/backend.py`). Traefik asks it for the owner
of the session of every request. State: a TTL cache of session owners, filled from the
labels of pods. Hard: nothing tells it that a session has ended; the entry may expire
between the check and the read; a list may be old when it is stored.

**CARTA interceptor** (`dev/intercept.py`). A developer's command that patches an ingress
route for a while and restores it.

**Swagger UI** (`src/skaha/src/main/webapp/swagger-ui`). Third-party JavaScript, vendored.

**Deployment** (Helm charts, kustomize, CI): configuration. The lines of the launch
templates that decide deadlines and removal are parts of the models.

### 1.2 What makes them correct

| component | it is correct when | property |
|---|---|---|
| launch | a user holds no more sessions than the limit | `MaxSessions` (does not hold), `LimitUnlessBlind` |
| launch | a session whose POST was answered can be connected to while its job exists | `OkMeansConnectable` (holds when kubectl does not fail), `ConnectableUnlessFailed` (whatever fails) |
| launch, delete | a session has one owner, moves forward only, does not lose its objects before its job | `KeepsContract` |
| delete | a deleted session stays deleted | `DeleteSticks` (when kubectl does not fail), `DeleteSticksUnlessFailed` (whatever fails) |
| delete | what is left of a session is only what was made after its job was deleted, or failed to be deleted | `LeavesOnlyStray` |
| launch, delete | the job and the pods of everything begun end, also after failures and crashes | `SessionEnds` |
| pull secret | a launch that goes on has a secret, or throws | `EnsuredOrThrown` (does not hold) |
| pull secret | missing only while some launch replaces it, or after a failure there | `MissingOnlyInRefresh` |
| pull secret | no launch goes on, and no pod pulls, with credentials older than itself | `NeverOlder`, `PullsNeverOlder` |
| pull secret | pods get their images | `PulledAtRest`, `LaunchedPulls` |
| renewal | a success has renewed every job of the session | `RenewsAll` (does not hold) |
| renewal | what a success promised is not taken away | `RenewalHolds`, `KeepsPromises` |
| home | the part that cannot be made twice is not made twice | `OneScriptPastSsl` |
| home | a partial home is being completed, and is completed | `MadeOrBeingMade`, `HomeFinished` |
| home | a certificate is missed only while the home is being made, or after a failure | `CertificateMissedOnlyEarly` |
| POSIX maps | a session finds the entries that were known when its POST came | `SessionsFindTheirEntries` |
| POSIX maps | a purge gets rid of changed entries | `PurgeResets` |
| session list | who renews and then looks sees it, for every pod since the last start of the job | `RenewedIsShown` |
| session list | a session does not end before the time shown | `EndsAsShown` (but for the delay of its pod) |
| CARTA sidecar | nobody is let in long after the session is gone | `NotServedLong` |
| CARTA sidecar | nobody is refused whose session has pods that tell its owner | `RefusedOnlyWithoutOwner` |
| token | a desktop that could call back can always call back | `AcceptedStays` |
| token | only the first launches of an installation can get a token that is refused, or those whose calls failed unseen | `RefusedOnlyFirst` |
| desktop apps | a desktop that has ended gets no more apps, once the calls under way are answered | `AppsDwindle` |
| command output | a caller gets all of the stream it is owed, each byte once, and nothing of the other | `Complete` |
| command output | the copy loop can always read on | `RoomToRead` |
| command output | the two sides never wait for each other, and do not go on for ever, if what is not being drained fits its pipe, and only then | `NeverBothWait`, `LessToDo`, `Returns`, `EndsOnlyIfFits` |

What is *not* among these: that the service, the ingress route and the middlewares of a
session go away. None of the shipped templates carries an `ownerReference`
(`SessionServiceBuilder` 53-62 fills one in that it does not attach when the template has
none), so that nothing but a DELETE removes them. A session whose POST stopped half way, or
which ends by its deadline, leaves them for ever; and once its pods are gone no DELETE of it
is accepted any more. `SessionEnds` is therefore about jobs and pods; with templates that do
have an `ownerReference` (the constant `OwnedKinds`) it is about those objects as well.

The hazards in `PROJECT.json` name the line at which each of these could go wrong. Four of
them have no property, for the reasons given there: in two the code takes whatever pod
`kubectl` prints last or first, so that no condition makes the choice right; one is a
boundary of a sequential parser; one is in a developer's tool.


## 2. Plan

Done, in this order: `SessionLifecycle` with the session limit, the answers and the
end of sessions; its proofs; `RegistrySecret`; `Renewal`; `UserHome`;
`CommandOutput`; `SessionContract` and the refinement; `DesktopApps`; then the
compositions `PosixMaps` (with `UserHome`), `SessionList` (with `Renewal`) and
`CartaSidecar` (with both), the proofs about them, and type correctness of every module;
then the second abstract specification, `SessionLease`, the contract and the answers of
`SessionLifecycle` with failing calls, and, for the liveness properties of the pull secret
and of command output, the invariants and measures that they rest on.

A later pass over the code put failures into the models that handlers do not see: output that
`execute` drops, scripts that fail silently, certificates that are not written, reads of a
secret that fail without a message, pods that are listed though they are not live, pods without
an owner label; and templates without `ownerReferences` into run `end`.

The order was that of importance: first what the service promises of a session, then
what all launches of a user share, then what is shown of a session. Each composition
extends the module it adds to and leaves its actions as they are, so that its theorems
carry over (`HomeUnchanged`, `RenewalUnchanged`).

Left out of the plan after reading the code again: unit parsers and the merging of
resources into a job (text and data of one request, section 6), queue initialisation and
the image cache (reads only, section 6).

Bounds stay at one to three actors of each kind: a hazard above needs one or two, and the
theorems are for any number.


## 3. The modules

### 3.1 SessionLifecycle

State. A request slot `r` is a handler: `op`, `pc`, `usr`, `typ`, `sid`. A session slot
`s` stands for one session ID: `owner` and `type` are the labels of its job,
`job` the state of its job, `pods` the phases its pods are listed with, `objs` its
service, ingress route and middlewares. `blind`, `failed` and `stray` are history variables.

Actions. Each kubectl call that changes something or decides something is one action:

| code | action |
|---|---|
| PA 158-205 a POST arrives and its parameters are read | `StartPost` |
| PA 507-529 `checkExistingSessions` | `WithinLimit`, in `Admit` and `Refuse` |
| PA 205-243 draw the ID, begin `createSession` | `Admit` |
| PA 531-597 preparations that may throw | `PrepareFails` |
| PA 599-606 `kubectl create` of the job | `CreateJob` |
| CE 190-213 `getJob`, twice | `GetJob` |
| PA 607-617, 621-639 service, ingress | `CreateService`, `CreateIngress` |
| DA 93-131 list, find the owner | `StartDelete`, `ListForDelete` |
| DA 159-184 four deletes | `DeleteJob`, `DeleteObject` |

Kubernetes is modelled by what the handlers can see of it: a job is suspended,
active, finished or gone; an active job has one live pod, sooner or later; a pod is
pending, runs, succeeds, is evicted (and stays in the list as failed) or drained;
Kueue admits and preempts; a deadline, a TTL and the garbage collector end it. A crash
of the replica is possible between any two calls (`Crash`).

Abstractions. Session IDs are fresh: the code draws eight characters at random and
does not look whether they are in use. At most one pod per phase is counted per
session: several evicted pods of one session count once here and several times in the
code, which refuses earlier; the limit property is about not admitting too many, and
its guard here is the weaker one, so what is shown for it holds for the code's too.
A request is reused after its answer. `getJob` after a job is gone fails, because the
error text does not have the fields the code splits out.

Properties. `LimitUnlessBlind` is what the check of PA does promise: of the sessions
a user holds, those that were admitted by a check that saw a live pod for every held
session never exceed the limit. "Held" is a job that can still run, or an admission
that has yet to create its job. `KeepsContract` is the refinement: `SessionContract`
has two variables, the owner and the stage of each session (unused, starting,
connectable, over), and four steps; `Stage` computes the stage from the job, the
objects and the handlers. A DELETE that removed the ingress before the job, or a POST
that brought a job back, would be no step of it.

Failing calls. `execute` is called with errors allowed (CE 25-46): the call does nothing, and
the handler goes on as if it had been done (`FailsUnseen`). `failed[s]` remembers which
of the steps of `Harmful` failed for session `s`: creating the service, creating the
ingress, deleting the job. `OkMeansConnectable` and `DeleteSticks` are what holds when
nothing fails; `ConnectableUnlessFailed` and `DeleteSticksUnlessFailed` are the same with
the failures that excuse a session, and no others: TLC finds a counterexample when any one
of the three is taken out of `Harmful`. The deletion of the job is among them because
a DELETE whose `deleteJob` fails goes on and takes the ingress and the service from a
session that runs on, and answers success. In the contract such a session is over: its
user has been told so.

What is left behind. `stray[s]` remembers which network objects were made when the job was
gone already (the POST looked the job up, a DELETE went all through, then the POST made the
object), and which the DELETE failed to delete. `LeavesOnlyStray` says that an answered DELETE
that deleted the job left nothing else: it hangs on the job being deleted first, so that a POST
that comes later fails at `getJob`. The third middleware (`otherMiddleware`, as
`ingress-carta.yaml` has it) is excepted, since no DELETE names it. A session slot is used again only
when the objects with an owner reference are gone; those without may be there still, under
the old ID, which no later session has: `objs` starts anew.

### 3.2 RegistrySecret

`pc[r]` is the next step of a launch; `secret` names the launch whose credentials are
stored; `pod[r]` is the pod of the job. `DeleteSecret` and `CreateSecret` are CE
97-131: a delete that ignores absence, and a create whose failure, because the
secret exists or otherwise, is only logged. `Pull` is what a kubelet does with the
secret that JB 313-327 names in the job. `late`, `kept` and `lost` are history variables for the
properties: who had tried to delete the secret before it was made, whose delete failed, whose
create failed. Every request runs once; a burst of launches is a finite set of them.

`EnsuredOrThrown` is what the documentation of `ensureRegistrySecret` says; it is violated (run
`secret_faults`), as the create is executed with errors allowed and never throws.
`MissingOnlyInRefresh` is what the code does keep.

`PullsNeverOlder` is about the kubelet what `NeverOlder` is about the POST. `PulledAtRest`
says how a burst is left when it is over; `Left` and `Before` count the steps that are still
to be done, which every step makes fewer (`BurstEnds`). Together they are the safety part of
`LaunchedPulls`.

### 3.3 Renewal

A clock, the jobs that carry one session ID (a desktop and its apps), and renewals
that list (`List`), compute (`Compute`, `Skip`) and patch (`Patch`) job by job.
`start` and `deadline` are `status.startTime` and `activeDeadlineSeconds`; a suspended
job has no start time and gets a new one when resumed. `listed` is the start time a
renewal was told, which may be stale when it computes. `ComputeFails` is the second list
that has lost the job, `Fail` an exception; what was patched stays patched. `since`,
`floor` and `lost` are history variables. The order of the jobs is any order, as the
code iterates over the list kubectl printed.

`RenewsAll`, that a success has renewed every job of the session that can still run, is what
`service.yaml` says. It is violated (run `renew_all`): a job without exactly one active pod
is passed over (PA 455). What is promised of the others, `covered[r]`, is `RenewalHolds`.

`KeepsPromises` is the refinement. `SessionLease` knows a clock, whether a job waits, runs,
has ended by its deadline or is deleted, and the times that it was promised not to end
before. A renewal that succeeds and lost no patch adds its floor and the expiry to the
promises of the jobs it covered (`Promised`), and a job ends only when all of its promises
have passed. A renewal that lost a patch (`kubectl patch` failed unseen) promises nothing.

### 3.4 UserHome

`home` is the set of parts the home has, `pc[r]` the step of a POST or of the script it
waits for. `AddUser` follows the script: `mkdir -p` and `cp` do not mind what exists,
`mkdir .ssl` and `mkdir .casa` do, and `set -e` ends the script there. `Break` is
a failing command, whose message on stderr ends the POST, or a stopped replica.

Some failures are not seen. `Decline`: the script exits with 2 and its message on stdout (add-user
14-42), where `allocateUser` looks at stderr only (PA 320). `BreakUnseen`: the script is killed and
says nothing. `InjectCertificate` puts the certificate into `.ssl` if there is one; that there is
none, that there is no credential service, that it fails, or that `chown` or `mv` does (SA 145-208)
is logged at most, and the launch goes on with the certificate that was there, or with none.
`unseen` remembers the POSTs that had such a failure of their own, except for a missing `.ssl`:
that is what `CertificateMissedOnlyEarly` is about. `UserHome` is checked as a part of `PosixMaps`.

### 3.5 CommandOutput

`out` and `err` hold what the child has still to write, what is in the pipe and what
has been read; `handed` is what the caller has got. The three methods are three values of
`method`; `FirstStep`, `ReadOut`, `ReadErr`, `WaitFor` and `Answer` follow their order. `Answer` is
CE 33-46, what `execute` does after the wait: stdout of a command that succeeded, only stderr of
one that failed, returned or in an exception. `executeTo` and `copy` hand on what they have at
their own end. `BreakOff` is an interrupt or an exception of a stream, which ends any of them at any
step. `position` and `limit` are those of the `ByteBuffer` of the copy loop, which flips where it
should clear: the limit ends at the size of the last write and never grows back. Bytes are counted,
not compared: they stay in order in a pipe.

`Promised` is what the caller is owed by the method and the exit status, and `Complete` that a
method which comes to its end has handed on exactly that. `Fits` is no assumption of the model:
output of any size is written. `NeverBothWait` and `Returns` hold when it is true, and
`EndsOnlyIfFits` says that it is necessary: on more output the two wait for each other for ever.

`ChildCanGoOn` and `ParentCanGoOn` are what either side needs for its next step, and
`NeverBothWait` that one of them has it; `Work` counts bytes still to be written, read and
handed on, and steps still to be gone through, which every step makes fewer (`LessToDo`).
Together they are the safety part of `Returns`.


### 3.6 DesktopApps

A launch `l` is a POST of a desktop and stands for the desktop as well; a caller `c` is a
POST of an app. `stored` names the request whose key pair is in the secret, so that a
pair that was made but not stored has a name of its own. `ReadForLaunch`,
`CreateForLaunch`, `ReadForCall` and `CreateForCall` are the two calls of
`getPreAuthorizedTokenSecret` as the two kinds of request run them; a create that meets
an existing secret does nothing and the request keeps its own pair, as in SK 219-222.
`Validate` compares the pair that signed with the pair the caller has, `FindSession`
and `ListPods` are the two lists of pods, and `CreateApp` the job, followed by
`injectCredentials`, which may throw after the job was made. A read of the
secret that fails is an error where kubectl says why; without a message it is
taken for a secret that is not there (`NoSecretRead`, CE 170-172). A
desktop has a live pod or waits for one; `remains` are the desktops with evicted or completed
pods, which are listed and found like live ones (PA 719 leaves out only pods that are being
deleted; DAO 63-76 none). Which of several pods an app is pointed at is left out. `early`
(launches that were overtaken by the creation of the secret), `lost` (launches whose create
failed, and requests that took a failed read for no secret) and `accepted` are history variables.

`AppsDwindle` is about the end of a desktop. Nothing ends the apps that a desktop has left, before
their own deadline or DELETE, and a call that listed the pod before the end attaches one more
afterwards. But a desktop is `Closed` when its pods are gone or being deleted and such calls have
been answered, and then it stays closed and gets no more apps, however many callbacks come: it
hangs on `ListPods` leaving out pods that are being deleted.

### 3.7 PosixMaps

Extends `UserHome`. `mapper` is the set of lines that the POSIX mapper has, `redis` the
members of the two sets. A POST whose `pc` is "launch" first goes through
`writePOSIXEntries`, whose next step is `at[r]`: `Read` and `Exec` for users, then for
groups (PX 70-101). `Exec` is one step because a transaction of Redis is; `queued[r]` is
what it will add. `MapsLaunch` is the `Launch` of `UserHome` behind it, and `MapsBreak` and `MapsBreakUnseen` the
`Break` and `BreakUnseen`, the first of which drops a transaction that was not executed. A line is a value: a user whose
line changes has the old one dropped and the new one added (`DropEntry`, `NewEntry`).
`Purge` is the purge that the comment of PX 14-16 asks for. `owed` and
`excused` are history variables: what a POST's session may count on, and which outdated
entries a purge could not reach.

### 3.8 SessionList

Extends `Renewal`, whose active jobs get pods that start later (`StartPod`), end with the
job's suspension, loss or end, and are listed for a while after that: `leftover[j]` are the start
times of those. A listing `l` reads the pods in any phase (`ListPods`), then the deadlines
(`ShowExpiry`), and shows `ExpiryTime`, the start of a pod plus the deadline of its job, for each of
its `Rows` (DAO 94-112). A failing `kubectl` prints text that is parsed like a list: it
lacks the job, so that no time is shown, or has too few fields, which is an exception.
The columns of usage are left out. `before`, `stale` and `overlapped` are history variables.

`RenewedIsShown` excepts the rows in `stale`: a pod from before a suspension, still listed when its
job has been resumed and renewed, has its old start plus the new deadline, which is less than the
renewal gave (TLC finds that without the exception). Pods that were lost since the job's last
start are not excepted. `EndsAsShown` is about all rows.

### 3.9 CartaSidecar

Extends `SessionList`; all jobs of `Renewal` are those of the one session. A request goes
through `CheckCache` (`session_id in cache`), `GetCache` (`cache[session_id]`), or
`LookupPods` and `Store`. `LookupPods` asks for pods in any phase and takes the label of the first;
`owned` are the jobs whose pods have that label, and a request that meets one without, or no pod, is
refused (`backend.py` 145-160). The clock may tick between any two. `GetCache` of an entry that
has just expired raises KeyError, which is an answer 500. One process answers one request
at a time, although `auth_any` is a coroutine: `lookup` calls Kubernetes synchronously and
does not await. Several processes have a cache each and share nothing. `Forget` is a
restart or an eviction. `listedAt`, `took`, `seen` and `missing` are history variables.


## 4. The runs

| run | shows | instance | states |
|---|---|---|---|
| `launch` | `OkMeansConnectable`, `DeleteSticks`, `KeepsContract` under a reliable kubectl | 2 users, 3 handlers, 1 session ID that is reused; types with a queue, with two middlewares and headless; preemption; a service with an owner reference | 575,421 |
| `limit` | `LimitUnlessBlind` | 1 user, 2 handlers, 2 session IDs, limit 1, queued, preemption, evictions | 4.2 million |
| `end` | `ConnectableUnlessFailed`, `DeleteSticksUnlessFailed`, `LeavesOnlyStray`, `KeepsContract` and `SessionEnds` with failing kubectl and crashes | 1 user, 2 handlers, 1 session ID, no owner references, as shipped | 898,804 |
| `max` | `MaxSessions` is violated | 1 user, 2 handlers, 2 session IDs, no failures | |
| `secret` | six properties of the pull secret | 3 launches, 2 registries, failures, crashes | 198,088 |
| `secret_faults` | `EnsuredOrThrown` is violated | 1 launch, failures | |
| `renew` | `RenewalHolds`, `KeepsPromises` | 2 renewals, 2 jobs with different deadlines, 2 ticks, expiry 1, failures | 1.3 million |
| `renew_all` | `RenewsAll` is violated | 1 renewal, 2 jobs, no failures | |
| `home` | seven properties of the home and the POSIX entries | 2 POSTs, repeated, with breaks seen and unseen, a user and a group that come and go, purges | 445,420 |
| `views` | five properties of the list and the sidecar | 1 renewal, 1 job, 1 listing, requests one after the other, 2 ticks, TTL 1, 1 pod left over, failures | 5.9 million |
| `apps` | three properties of tokens and apps | 2 launches, 2 callers, 1 app at a time, failures, crashes | 1.8 million |
| `output` | seven properties of the output | pipes and buffer of 3, up to 6 bytes of stdout and 4 of stderr | 19,860 |

Why the bounds are enough. `launch`: one session ID is enough, as handlers of different
sessions touch different objects and meet only in the count of pods, which is `limit`'s;
three handlers let a POST, a DELETE of the owner and one of somebody else (or a second of
the owner) overlap on it, and reuse of slot and ID lets late handlers of an old session
meet. `limit`: with limit 1 and two IDs, both a check that sees the other session and one
that does not occur; the theorem covers any numbers. `end`: the liveness of one session
does not depend on others, and two handlers give a POST and a DELETE that both crash, or
whose calls fail in any combination; the theorems cover more. `secret`: two launches are
needed to take the secret from a third. `renew`: with an expiry of one tick, two ticks let
a renewal be stale, late, and overtaken; the app's longer deadline makes the comparison
matter. `home`: two POSTs race for the directories and for Redis, and either, being
repeated, finds a home and sets at any stage the other is in; the theorems cover a third.
`views`: the job may be renewed, suspended, lose its pod and end while a list or a request
is under way; `MaxLeftover`, the number of its pods that are listed and not live, is one:
beside the live pod that gives the rows of a pod before and one after a suspension; and
with a TTL of one tick two ticks let an entry expire before, within and after a request;
two renewals that overlap, and several jobs and listings, are covered by the theorems.
`apps`: two launches race for the secret, a caller may win it from both, and the second
caller finds what was stored. `output`: two fillings of the pipe and of the buffer, one
byte of stderr more than its pipe holds, and every split of reads. `secret_faults`,
`renew_all` and `max` need no more than what they show.

Symmetry is used for users, handlers, sessions, launches and callers in safety runs only; `secret`,
`home`, `end` and `output` check liveness and use none. Deadlock is checked in all
runs but `secret`, `renew`, `apps` and `output`, where a burst, a bounded clock, the last
desktop or a command comes to its end.

### Fairness

* `SessionLifecycle`: a handler that has started takes its next step or crashes (a
  servlet thread does not stop for ever without its process ending); Kueue admits a
  suspended job at some time (its queues have quota and jobs end by deadline); the
  deadline, TTL, kubelet termination and garbage collection of Kubernetes happen.
  Nothing forces a request, a pod start or a success. `end` has no preemption: a
  workload that is preempted for ever has no end, in the model as in the cluster.
* `RegistrySecret`: a launch that has started runs on; a kubelet tries a pull again
  (`ImagePullBackOff`).
* `PosixMaps`, with `UserHome` in it: a POST that has started and the script it waits for
  run on. No entry, purge or request is assumed to come.
* `CommandOutput`: the operating system schedules child and parent.
* `Renewal`, `SessionList`, `CartaSidecar` and `DesktopApps` have none: their properties are safety
  properties.

### Findings

Three runs show the code to differ from what the repository says of it.

* `max`: two POSTs of one user both read the pods before either has created its job,
  and the user holds more sessions than `maxCount` of the Helm chart.
* `secret_faults`: `kubectl create` of the pull secret fails, its error text is returned and
  logged, and the POST launches without a secret, where the javadoc of `ensureRegistrySecret`
  (CE 95) promises an exception and CE 126-128 is written to throw one.
* `renew_all`: a renewal of a desktop passes over an app whose pod is being replaced (PA 455), and
  succeeds, where `service.yaml` 163 says that it applies to all the desktop-apps of the session.

Seen while modelling, against a text of the repository, and without a run of its own:

* A POST whose `kubectl create` of the service or ingress fails answers with the ID of a session
  nobody can connect to (`service.yaml` 48 says that the ID is returned "after a successful
  POST"). `OkMeansConnectable` is therefore checked for a reliable kubectl, and
  `ConnectableUnlessFailed` says what is left of it.
* A DELETE removes a middleware whose name the carta ingress file does not use
  (DA 167; `ingress-carta.yaml` 4 and 14); that file's two middlewares stay.
* The docstring of `lookup` (`backend.py` 128-131) and the sidecar's README (lines 3 and 31-32)
  speak of Services first and Pods as a fallback; the code only lists pods. A session whose pod is
  lost and not replaced yet is refused although it has a Service.
  `RefusedOnlyWithoutOwner` says what the code keeps.

Seen while modelling, part of the models, and not known to contradict any text: an evicted
pod and its replacement count twice against the limit (PA 521); the secret of one
registry replaces that of another (PA 661); the later of two overlapping renewals can
set the earlier deadline (PA 392), which is why `RenewalHolds` counts from the first of
them; the row of a pod that a suspension has left behind shows the renewed deadline from its
old start (DAO 94-112); a script that declines or is killed counts as a success (PA 320), and a
certificate that could not be made is not missed (SA 153-186); a POST that
meets a half-made home launches without a certificate (PA 294, SA 207); of two first
launches of desktops on a new installation, one gets a token that every callback
refuses (SK 202-222), which is the `early` of `RefusedOnlyFirst`; the expiry time shown is
later than the end of the session by what its pod started later than its job, which after an
eviction is much (DAO 109); of two overlapping renewals the later patch can take back a time
that was shown already (PA 391), which is why `EndsAsShown` is about renewals that do not
overlap; an outdated POSIX entry stays until a purge, and a POST that was writing its list
when the purge came brings it back (PX 84), which is the `excused` of `PurgeResets`; a request
whose cache entry expires between the check and the read is answered by an exception
(`backend.py` 138-140).


## 5. What is proved

All theorems are for any values of the constants that satisfy the named assumption of
the module (finite session IDs, disjoint null values, well-typed parameters).

* `TypeCorrect` (`Spec => []TypeOK`). By itself `TypeOK` is not inductive: `CreateJob`
  indexes `job` with `sid[r]`. `Named` says that a handler past its admission has a
  session, and which steps belong to which operation.
* `SessionLimit` (`Spec => []LimitUnlessBlind`). The argument: an admission that saw a
  live pod for every held session has counted at least one pod per held session
  (`CountedCoversHeld`, an injection from sessions to counted pods), so there is room
  for one more; an admission that did not is marked blind; no other step adds to the
  held sessions. The last needs `Fresh` (a session whose POST is about to create its
  job has no job, no pod, no other POST, and no DELETE past its list) and `Unused`
  (an ID not in use has nothing left). Failures, crashes and preemption included.
* `Connectable` and `DeleteFinal` (`ConnectableUnlessFailed`, `DeleteSticksUnlessFailed`),
  whatever fails. `JobGone`: a DELETE past its first call has no job, unless that call
  failed, and none comes back, as the only step that makes one is at `createJob` and by
  `Fresh` every DELETE of that session is still at its list. `Wired`: while the job of a
  session exists for which none of the harmful calls failed, the objects made so far
  exist, since a DELETE touches objects only when the job is gone or its deletion failed. `Fresh` and `Unused`
  say besides that `failed` is empty for a session that was just begun or is not in use, as
  the failures of an earlier session must not excuse a later one with the same ID.
* `LeftBehind` (`Spec => []LeavesOnlyStray`), whatever fails. `Swept` are the kinds that a DELETE has
  tried to delete by its step: of those only stray ones are left (`Cleaned`) once the job is gone, as by
  `JobGone` it stays so, and what a POST makes then is recorded as stray; `Bare`: a session that is
  not interactive, or not in use, has no objects.
* `ReliableAnswers` (`OkMeansConnectable` and `DeleteSticks`; `ConnectableAlways` is the
  first by itself), assuming `~KubectlMayFail`: then nothing is ever in `failed`
  (`NothingFails`), and the two follow from the theorems before.
* `Implementation` (`Spec => KeepsContract`), whatever fails: every step
  leaves owner and stages alone or moves one session on. The interesting steps are
  an abandoned POST (`AbandonedIsOver`: by `Fresh` no other handler launches
  that session), the deletion of objects (by `JobGone` it does not show), a failing
  `deleteJob` (the session is over at that step, and what is left of it does not show
  any more) and the release of an ID.
* `MissingOnlyInRefreshAlways`, `NeverOlderAlways`. Strengthening `Waiting`: a POST
  about to create the secret, when one is there, had tried to delete it before that
  one was created, or its own delete failed.
* `PullsNeverOlderAlways`, from the same invariant: a launched pod's POST has tried to
  delete every secret that a kubelet may still find. `PulledAtRestAlways`, from
  `MissingOnlyInRefresh` and `Launching`, which ties pods to their POSTs. `BurstEndsAlways`
  (a theorem only): what is left to do is the finite set `Before`, and a step of one request takes
  a pair of its own out of it and adds none (`OneDoesLess`). So a burst of any size comes to
  rest after at most five steps of each request, and `PulledAtRest` says how. What
  `LaunchedPulls` adds is that it does not stop earlier, which is fairness.
* `RenewalHoldsAlways`. `Past`: recorded times are not in the future; `LongEnough`: no
  deadline is shorter than the expiry; `Floors`: a renewal's floor bounds the times of
  those it overlaps with; `Listed`: a job runs from the start a renewal was told or from a
  later one; `Offer`: the deadline about to be set keeps the promise; `Done`, `Over`: the
  promise holds for every job a renewal is done with, also while it is still busy with
  the others.
* `LeaseImplemented` (`Spec => KeepsPromises`). Every step of `Renewal` is one of
  `SessionLease` or does not show in it. The answer of a renewal, which comes with its last
  patch or when its last job is passed over, is a promise (`NextJobPromises`, with `PromisedSame` and
  `PromisedMore` for what the set of promises becomes); the end of a job is allowed by `Done` of
  the invariant of `RenewalHoldsAlways`, for every promise at once. `ViewsKeepPromises` carries
  it over to the composition with listings and the sidecar, through `RenewalUnchanged`.
* `OneScriptAlways`, `MadeOrBeingMadeAlways`, `CertificateMissedOnlyEarlyAlways`. `Past`, `Before`, `After`, `Ready` relate
  the step of each script to the parts the home has.
* `RefusedOnlyFirstAlways`, `AcceptedStaysAlways`. `Signed`: a token is of the stored pair,
  or its launch was overtaken or failed, and then its pair is never stored; `Overtaken`,
  `NoEarly`: who still creates when there is a secret was overtaken; `Once`: a launch signs
  once, before its desktop exists; `Held`: a caller has the stored pair unless it calls for
  a desktop whose pair is lost; `Kept`: what was accepted is of the stored pair. From
  `Kept`, `Signed` and `Held` a caller of an accepted desktop has the pair its token needs, if
  its own read did not fail.
* `AppsDwindleAlways`. `StaysClosed`: a request that goes on to its last step has listed a pod that is
  not being deleted, which a closed desktop never has again, since by `Once` a launch makes its
  desktop once; `NoMoreApps`: only that last step attaches an app.
* `HomeUnchanged` (`MapsSpec => Spec`): with the POSIX entries a POST does with the home what
  it does without them, so the three theorems before hold in the composition.
* `SessionsFindTheirEntriesAlways`, `PurgeResetsAlways`. `Known`: what a POST is owed the
  mapper still has; `UsersCovered`, `GroupsCovered`: it is yet to be read, queued or in
  Redis, by the step the POST is at; `Kinds`: what is queued goes into the set it was read
  for; `QueuedExcused`: a queued entry is true or excused; `Started`, `Launched` tie `at`
  to `pc`. The properties by themselves say nothing of what is queued.
* `RenewalUnchanged` (`ViewsSpec => Spec`): pods, listings and the sidecar only look on, so
  `RenewalHoldsAlways` and its invariant hold in the composition, and the next two use them.
* `RenewedIsShownAlways`. `Pods`: a live pod started no sooner than its job; `Owed`: the
  deadline that a listing will read, and any that a renewal under way is about to set, is
  enough with the row it has, for all renewals that were answered before it came (by
  `Done`, `Offer`, `Listed` and `Floors` of the renewals); `Rows`, `Answered`: a listing
  shows times of its rows only and renewals that were answered stay so.
* `EndsAsShownAlways`. `Alone`: until renewals overlap, one runs at a time, raises deadlines
  only, and no shown time is above the deadline that holds.
* `NotServedLongAlways`, `RefusedOnlyWithoutOwnerAlways`. `SidecarInv`: an entry expires within
  the TTL, and the time of its lookup, of the last moment with pods; a list that found pods
  is not later than that moment; there is no answer while a request is under way.
* `TypeCorrect` for every other module, `MapsTypeCorrect` and `ViewsTypeCorrect` for the
  compositions: conjuncts of the invariants above.
* `CompleteAlways`, `RoomToReadAlways`, `EndsOnlyIfFitsAlways`, for every size of pipes and buffer.
  `Conserved`: handed on, in the buffer, in the pipe and unwritten add up; `Stages`: a
  stream is left at its end only; `Buffer`: every read leaves something to write.
* `NeverBothWaitAlways`, from the same invariant: if skaha waits, then on an empty pipe, or for
  the child; whatever the child has left to write has room in the other pipe, by the
  condition that the undrained part fits (`PipeHasRoom`). `WorkEnds`: every step of the child
  (`ChildDoesSome`), of the collecting methods (`CollectDoesSome`) and of the copy loop
  (`CopyDoesSome`, which needs `RoomToRead`) lowers `Work`, which stays in `Nat`. So an execution is finite
  and does not end with both waiting. What `Returns` adds is that somebody who can go on
  does, which is fairness.

Only model-checked: the liveness properties `SessionEnds`, `LaunchedPulls`,
`HomeFinished`, `Returns` (fairness and ENABLED are outside of what the proof system
does). Of `LaunchedPulls` and `Returns` the safety part is proved, as said above. Every
invariant and action property that a run checks is stated by a theorem. The three violated properties are counterexamples, not theorems.


## 6. What is not modelled

Whole components, and why nothing more of them can be modelled faithfully:

* *Swagger UI.* All JavaScript of the repository, 31,000 lines below
  `src/main/webapp/swagger-ui`, is a third-party program (Swagger UI with jQuery plugins,
  a Markdown parser and translations), copied in unchanged to render `service.yaml`. It
  is not this system's logic, and no definition here stands for any line of it. The
  system itself is about 6,000 lines of Java and 600 of Python.
* *Request initialisation and authorisation.* A sequence of decisions within one request;
  the decisions are made by libraries and services outside of the repository. What other
  requests can see of it, the callback's token, is in `DesktopApps`.
* *Resource statistics.* A parser of the text of `kubectl describe nodes`, and
  floating-point sums. One request, no state.
* *Session objects.* Filling in templates with classes of the Kubernetes client. Its result
  counts in the models by the four facts that decide behaviour: a queue suspends the
  job, a deadline and a TTL are set, the secret is named, the service names its session.
* *Queue initialisation.* One look at the queues before the first request.
* *Image cache.* Single reads of keys that some other program writes, which is not
  in the repository. *Context, repository and availability*: answers from configuration.
* *CARTA interceptor.* A debugging command run by hand. Two of them on one session overwrite
  each other's middlewares (`intercept.py` 203), which is listed as a hazard.
* *Names, commands, configuration, deployment, `src/obsolete`*: text, or not in use.

In the modelled parts: contents of templates, labels and URLs; which of several pods of a
desktop an app is pointed at, and which pod of a session is shown by GET session/<id>
(the order is kubectl's); usage columns, filters and the list for all users; authentication
and group lookups; the collision of random session IDs; more than one clock (renewal,
list and sidecar use one for all; the shown times are compared with the cluster's only).
