# Verification of provider-stackrox

provider-stackrox is a Crossplane provider: it keeps secured clusters and
cluster init bundles of a StackRox Central like the `Cluster` and `InitBundle`
objects of a Kubernetes API server. This directory holds TLA+ models of its
controllers, TLC configurations that check them on small instances, and TLAPS
proofs of their main invariants for every instance. `PROJECT.json` lists the
components, the runs, the mutants that show what each property catches, the
source lines of every definition, the hazards and the theorems.

Everything is checked with `tlc -config X.cfg M` and `tlapm M.tla`.

## The system

| Component | Source | State | Operations | Model |
|---|---|---|---|---|
| Cluster controller | `pkg/controller/cluster/cluster.go` | none of its own; reads and writes the object in the worker's memory (status, conditions, external name) and the clusters in Central | `Connect`, `Observe`, `Create`, `Update`, `Delete` | `Cluster` |
| InitBundle controller | `pkg/controller/initbundle/initbundle.go` | as above; the contents of a new bundle on their way to a Secret | `Connect`, `Observe`, `Create`, `Update` (= `Delete`), `Delete` | `InitBundle` |
| Connectors | `connector` in both files | the field `external`, one for each controller, shared by its workers | `Connect` stores and returns, `Disconnect` closes | `Connector` |
| Central client | `pkg/clients/central/central.go` | a gRPC connection with TLS, a token and a retry interceptor | `NewGRPC` | the dial in `Connector` and `ConfigUsage`; what a call with up to three attempts comes to in `ManagedReconciler` (`CallSucceeds`, `CallSucceedsSilently`, `CallFails`, `ServeRepeatedly`) |
| Field mapping | `generateCluster`, `generateObservation`, `isUpToDate`; `apis/cluster/v1alpha1/cluster_types.go` | none | conversions between parameters, status and storage | `ClusterMapping`; in `Cluster` they are `spec` and `extra` |
| ProviderConfig controller | `pkg/controller/config/config.go`, the `ProviderConfig` types of `apis/v1alpha1` | usages, the count and the finalizer of each ProviderConfig | installs crossplane-runtime's reconciler and the watch on usages; `Track` and `Get` of `Connect` are the other side | `ConfigUsage` |
| Start-up | `cmd/provider/main.go`, `pkg/controller/stackrox.go`, `pkg/features`, `apis/stackrox.go` | flags, the default StoreConfig, a Lease | `main`, `AddToScheme`, `Setup` | `Deployment`; the restart is also `Crash` in the controllers' modules |
| API types | `apis`, with `zz_generated.deepcopy.go` | objects in the informer's cache and in workers' memory | `DeepCopyInto`, `DeepCopyObject` | `ObjectCopies`; the fields that steer a reconcile in `Managed` |
| CRDs, examples, build | `package`, `examples`, `hack` | | | not modelled |
| crossplane-runtime's managed reconciler, controller-runtime's cache, the API server, Central | not in the repository | objects, their copies, annotations, finalizers; Central's objects | | external: `ManagedReconciler` |

How they interact. The API server stores the objects; an informer cache holds
copies of them that may be old. For each object at most one worker runs the
managed reconciler at a time: it reads the object from the cache, calls
`Connect` (track the usage, get the ProviderConfig and its credentials, dial),
then `Observe`, and by its answer adds the finalizer and calls `Create` or
`Update`, or calls `Delete`, or removes the finalizer; it writes the status
last. The handlers talk to Central, where other people work too. Every write to
the API server carries the version of the object the worker holds and is
refused when that is not the latest; the one that records the outcome of a
creation is repeated until it is. Every reconcile works on a deep copy of the
cached object, which it changes in place. The usage `Connect` tracks is what
the ProviderConfig controller counts, from a cache of its own. Several replicas
of the process may run, one of them active if leader election is on.

What is hard about it:

* the object a worker holds, the identifier in its status and the cluster
  `Update` read may all be old when they are used;
* a call to Central may be refused or lost, its reply may be lost, and it may
  arrive after the caller gave it up; the process may die at any step;
* a cluster is found by its name but deleted by the identifier in the status;
* two resources may claim one name, and a resource may be renamed;
* the contents of a bundle exist in one reply only;
* all the workers of a controller share one connector without a lock;
* a call whose reply is lost is sent again, and Central cannot tell;
* a ProviderConfig may be deleted while a resource starts to use it, and is let
  go only if the last event about its usages reaches the controller;
* a leader must stop before another replica takes its lease over;
* the generated deep copies must follow the types down to the last map.

## The modules

`ManagedReconciler` is the surroundings of both controllers. It declares the
variables they share and the steps that are not theirs:

| Variable | Stands for |
|---|---|
| `api`, `cache`, `cacheCurrent` | the stored objects, the informer's copies, and which of those are the latest version |
| `pc`, `mg`, `mgCurrent`, `goal` | the worker of each resource: its next step, the object in its memory, whether that has the latest resource version, where it goes after the finalizer |
| `central`, `nextId` | the objects in Central; identifiers are given in order and not reused |
| `wire` | a request whose caller gave up and that may still arrive |
| `budget` | how many user edits, edits by others and faults may still happen |

An object (`Managed`) has the fields that steer a reconcile: whether it is
being deleted, its finalizer, deletion policy and parameters, the newest of the
external-create annotations, the Ready condition and `status.atProvider.ID`.
An object in Central has an identifier, the parameters a managed resource
specifies (`spec`, with its name), the value of everything else (`extra`) and
who had it made (`by`, which only properties read).

`Cluster` and `InitBundle` extend it with one action for each outcome of each
handler. Each worker action is guarded by `pc[m]`:

| Step | Action | Code |
|---|---|---|
| `idle` | `Begin` | read the object; release an orphaned deletion, stop at an interrupted creation |
| `connect` | `Connect` | `(*connector).Connect` |
| `observe` | `ObserveFinds`, `ObserveMisses`, `ObserveFails` | `(*external).Observe` with `getCluster` / `getInitBundle` and `isUpToDate`, and what the reconciler does with the answer (`AfterObserve`) |
| `finalizer`, `pending` | `AddFinalizer`, `MarkPending` | writes to the API server |
| `create` | `Create` | `(*external).Create` |
| `succeeded`, `failed` | `MarkOutcome` | write to the API server |
| `update`, `put` | `UpdateGet`, `UpdateGetFails`, `UpdatePut` | `(*external).Update` of a cluster: read, then write the whole of it |
| `update`, `delete` | `Delete`, `Revoke` | `(*external).Delete`; `Update` of a bundle calls it |
| `publish` | `Publish` | connection details to the Secret; a Cluster has none |
| `release`, `status` | `RemoveFinalizer`, `UpdateStatus` | writes to the API server that end the reconcile |

`Update` of a cluster is two steps because others act between its read and its
write; every other handler has one call. `InitBundle.Update` compares whole
conditions with fresh ones, which carry a time, so its early return is never
taken; `Revoke` says so.

`Connector` models the shared field: `ConnectStores` and `ConnectReturns` are
two steps because another worker may store in between, and `Disconnect` closes
what the field refers to at that time, if `Setup` has it called at all. The
history variable `overlapped` has the connections of reconciles that shared the
field with another between `ConnectStores` and `Disconnect`: the default are ten
workers for each connector (main.go:53, 93), so what `Connect` and `Disconnect`
promise can only be proved of the others.

`ClusterMapping` has the twelve parameters of a `Cluster` as fields of their own:
eight that are copied, two enumerations (a name here, a number there), the label
map (nil and empty are alike), and the tolerations (negated, in a message that
may be missing). Its actions are the writes of both sides. It is what allows
`Cluster` to take the parameters for one value `spec`: what was written reads
back as it was, and everything else (`rest`, there `extra`) is carried along.

The code lists the fields three times: in `generateCluster` to write them, in
`isUpToDate` to compare them, in `generateObservation` to show them. The
definitions of these names have the same lists, one by one, and
`OneWriteSettles` and `StatusTellsDrift` hold them together: a field that is
slipped, forgotten or not converted in one of them breaks one or the other.

`ManagedLife` is the abstract specification of a managed resource: three
variables (is the object there, which creation is on record, what was made for
it) and no cache, worker, version or handler. Central makes something only by a
call intended on record, each intention is for one call, no intention comes
before the outcome of the last is recorded, and no object vanishes while its
call may be under way. `ManagedReconciler` has the refinement mapping
(`objectView`, `intentView`, `madeView`) and the property `LivesAsPromised`,
which `Cluster` and `InitBundle` both satisfy. A call may make `PerCall`
objects: one where Central rejects a second object of a name, up to
`MaxAttempts` where it does not, for the interceptor repeats a request whose
reply was lost. What escapes the record, in the code as in the specification,
is a request that arrives after its call has ended (`ArriveLate`).

`ConfigUsage` extends `Connector` and splits its `connect` step as `Connect` is
split: `Track` (cluster.go:104), then `Get`, the credentials and the dial
(`Dial`), any of which fails (`Fail`). Around it are the resource the worker
reconciles, its finalizer, the mark of a pending creation and the copy it read; the `ProviderConfigUsage` of each
resource, in the API server and in the cache; the ProviderConfigs with
finalizer and count; and the config controller with its queue and a reconcile
in two steps (`ConfigRead`, then `ConfigWrite` or `ConfigConflicts`), between
which everyone else acts. The controller's algorithm is crossplane-runtime's;
`config.go` chooses the kinds, the watches and the event handler
(`SyncUsage` enqueues the ProviderConfig a usage names and the one it named).
`Begin`, `BeginStale`, `Dial`, `Fail`, `Return`, `Handle` and `Close` are steps
of `Connector`; all others leave its variables alone. Not every resource comes to
`Connect` again, as `ManagedReconciler.BeginStep` says: one that is orphaned is
let go before (`Release`), and one whose creation `Handle` left pending is not
connected, unless the cache is behind (`BeginStale`).

`Deployment` is `main` as a list of steps for each replica, with `Exit` at any
of them (`FatalIfError`, a signal, a crash) and a restart from the top. With
`--leader-election` the last step waits for a Lease: `Acquire`, `Renew` (whose
reply may be lost), `LoseLease` after `RenewDeadline`, take-over after
`LeaseDuration` without a new record. Time is counted in ticks by ages that stop
where they no longer matter. The StoreConfig is there or not, whoever made
it: a create that finds one is no error. The replicas' clocks run at one speed and a
process is not suspended: those are client-go's own assumptions.

`ObjectCopies` has the declarations of all API types as data: which fields hold
values and which lead to memory of their own, and for each type the fields its
generated `DeepCopyInto` copies apart from `*out = *in`. `Cells` follows the
declarations, `DeepCopyInto` the generated functions. Its actions are an
informer that replaces the cached object and reconciles that get copies, change
them in place (finalizers, annotations, conditions), replace fields
(`status.atProvider`) and save them.

`MCCluster`, `MCInitBundle`, `MCConnector`, `MCConfigUsage` and
`MCClusterMapping` give values to constants. `MCInitBundle` also has a watch on
`InitBundle`: `WatchedSpec` takes the same steps and notes in `calm` whether all of
them so far were steps of `InitBundle` without faults and renames.
Definitions marked "Faulty" are the mutants: plausible bugs of the definition
they stand before. They are part of no specification; each shows that a
property can fail.

## The runs

| Run | Question | Instance |
|---|---|---|
| `ClusterCore` | are identifiers, creations, deletions and unmanaged fields safe against everything at once? | one resource, two names and two sets of parameters, two values of `extra`, duplicates accepted, renames, faults and late requests; 4 disruptions, 2 objects |
| `ClusterLive` | does it converge, does it make nothing twice, does a deletion end and leave nothing of that name behind, and does a resource live as promised? | one resource, two names and two sets of parameters, duplicates accepted, renames and faults; 3 disruptions, 4 objects |
| `ClusterRename` | is nothing left behind after a rename? **No.** | one resource, two names, no faults |
| `MappingDrift` | does one write settle a difference, is a difference seen exactly when there is one, and does the status show it? | two names of each enumeration and an unknown number, labels nil, empty and one map, tolerations missing, enabled and disabled, or one of the eight other fields changed |
| `BundleCore` | is a bundle only revoked on deletion, has the secret only contents generated for its resource, does it never go back, and has it the bundle as long as nothing failed? does a resource live as promised, get a bundle, and does a deletion end? | one resource, two names, duplicates accepted, renames, faults and late requests; 3 disruptions, 4 objects |
| `BundleLost` | has a ready resource its bundle in the secret in spite of a fault? **No.** | one resource, one name, faults; 3 disruptions |
| `ConfigUsers` | is what has something in Central accounted for, does a ProviderConfig wait for its known users and go after the last, do counts and usages become right? | one InitBundle worker whose resource moves between two ProviderConfigs; 2 edits or stale reads, 2 connections |
| `ConnectWorkers` | what is still true of reconciles that share a connector, and of those that do not? | two workers for either controller, 4 connections |
| `ConnectMixed` | with two workers, does a reconcile use its own connection? **No.** | two Cluster workers |
| `ConnectShared` | with two workers, is a connection open while used? **No.** | two InitBundle workers |
| `Deployment` | with leader election, is one replica active at a time, with all controllers, and some replica again and again? | two replicas, all flags, 4 failures; a tick is 10 seconds, so the durations of `main` are 6 and 5 |
| `ObjectCopies` | is a copy separate from the cached object, whatever two reconciles do to theirs? | every kind of object, two reconciles, 3 changes |

The four runs that end in a violation are findings:

* `ConnectMixed`: `Connect` returns what the field has when it reads it again,
  which may be the client another worker dialled for another ProviderConfig
  (cluster.go:124-125, and initbundle.go likewise).
* `ConnectShared`: a worker's `Disconnect` closes the connection another worker
  stored in the field after it, and its own stays open (initbundle.go:125-131).
* `ClusterRename`: `getCluster` knows the current name only (cluster.go:225).
* `BundleLost`: the contents of a bundle that was created and not published are
  lost, and the next `Observe` marks the resource available
  (initbundle.go:216, 241).

Properties on what the code does not give are stated with their limits:

* `LivesAsPromised` allows what a late request makes, and as many objects for a
  call as attempts. What is left of them when the resource goes is what
  `NothingLeftBehind` is about.
* `NothingLeftBehind` speaks of the name the resource has when it goes. What it
  made under an earlier name, or before it was orphaned and created again, stays
  (`NoOrphanOnRelease`, which claims more, is violated in `ClusterRename`). And it
  is for requests that end with their call: a late one can arrive after the last
  look.
* `NothingMadeTwice` is for requests that end with their call, too: one that
  arrives late may follow an attempt of the same call that was served. What the
  attempts of one call make, Central makes in one step, and it may be more than
  one object. Against Central's own name check it says nothing, so it is checked
  where Central has none (`RejectsDuplicates = FALSE`).
* `UnmanagedFieldsKept` speaks of the put of an `Update` while its caller waits.
  One that arrives late brings back what was read before it was sent, over what
  others wrote since.
* `Converges`, `BundlesConverge`, `DeletionCompletes` and `RevocationCompletes`
  exempt a resource whose creation was interrupted: it waits for a person.
  `CreateIsRecoverable` and `LivesAsPromised` are about that one.
* `LeaksOnlyByOverlap` says nothing of the Cluster connector: its
  `Disconnect` is never called, since `cluster.Setup` installs it with
  `WithExternalConnecter` (cluster.go:70), so the connection of every reconcile
  stays open. One reconcile shows it; no run is spent on it.
* `SeparateAreSafe` and `LeaksOnlyByOverlap` speak of reconciles that no other
  one of their controller overlaps; `ConnectMixed` and `ConnectShared` show what
  becomes of the others.
* `UsageSettles` is about resources that still come to `Connect`. The usage of
  one whose creation is pending, or that is orphaned, stays as it was.
* `SecretIsOwned` does not say that the secret belongs to the bundle in the
  status: after a rename and back it need not.
* `CalmBundleIsPublished` is `ReadyBundleIsPublished` until something fails
  (`BundleLost` shows why) or is renamed: an object renamed, and renamed back,
  finds its first bundle again and has the contents of the second.
* `KnownUsersKeepConfig` speaks of users the config controller's cache had when
  the ProviderConfig was deleted. Three gaps remain and are the library's
  design: a usage that is tracked after the controller listed the usages, a
  `Track` that writes nothing because its cache still has a usage of the same
  name, and a ProviderConfig deleted before it ever got its finalizer. `Dial`
  then fails until the ProviderConfig is back.
* `OneActiveReplica` is for `--leader-election`, which is off by default.
  Without it nothing keeps two replicas apart; the controllers' modules have
  one worker for each resource, which is what one replica or an elected one
  gives.

No deadlock check: a model stops when every resource is gone or waits for a
person, every disruption is spent and every worker has returned; the connector
stops when all its connections are dialled, copies when all changes are made.

### Bounds

`MaxDisruptions` bounds user edits, edits by other users of Central, faults
and waits of the creation grace period, all together: the interesting failures
take two or three of them (create the object, lose something, change
something), and four allow one more. `ClusterLive` and `BundleCore` have three, for
renames, faults and liveness together multiply their states; they suffice for
create, rename or lose a reply, delete. `MaxObjects` bounds the objects Central
makes; beyond it Central refuses, which is a case the code has to handle. Two
are what the safety properties need (a cluster and the one that replaced it, or
stands beside it under another name); where liveness is checked the bound is
what the disruptions can come to, so that it never keeps the provider from
converging: in `ClusterLive` and `BundleCore` one object, or three by the attempts
of one call whose replies are lost, and one more that a rename or another user
brings about. `wire` holds one late request. One
resource is enough where resources do not interact; they share only Central's
names. What several resources of one name do to each other is covered by the
theorems, which are for any set of them: each lives as promised
(`KeepsThePromise`), makes nothing twice (`NothingIsMadeTwice`), leaves nothing of its
own behind (`NothingIsLeftBehind`), publishes its own bundle
(`ReadyBundlesArePublished`) and never has another's contents (`SecretsAreOwned`,
`SecretsDiffer`); their liveness is not. In `ConfigUsers`, `MaxEdits` of 2 lets a
user move the resource and delete a ProviderConfig, or delete both, or delete one and make it again;
`MaxDials` of 2 lets a second reconcile replace the connection of the first.
That is one worker; the theorems `HeldIsTracked`, `KnownUsersAreSafe` and
`ConnectionsAreSafe` are for any number. In `ConnectWorkers`, the two workers of
a controller can overlap, and one of them dial a second time while the other is
still busy. In `Deployment`,
four failures let each replica restart twice. In `ObjectCopies`, three changes
are one by each reconcile and one that follows a save.

### Fairness

`WF_vars(Worker(m))`: the controller requeues a resource after every reconcile
(poll interval, back-off after an error, watches), and handlers have time-outs,
so a worker that can step does. `WF_vars(CacheSync(m))`: the informer's watch
delivers in the end. Nothing is assumed of users, faults, crashes or late
requests; `budget` makes them finite, so that "once they are quiet" means
something. A fair worker may still fail as long as the budget lasts.

`ConfigUsage` has weak fairness of every worker, of the watch and of garbage
collection, and strong fairness of `Track` (an API server that fails it now and
then does not fail it for ever; it asks nothing of a resource that does not come
to `Connect` any more) and of `ConfigRead` of each ProviderConfig (the
work queue hands out every item). Nothing makes `Dial` succeed.

`Deployment` has weak fairness of the clock, of the steps of `main` (Kubernetes
starts what ended), of the election's polling and of giving up a lost Lease, and
strong fairness of `Acquire`: the reply to a new lease may be lost, though not
each time. Renewals may fail for ever.

## The proofs

| Module | Theorem | Says |
|---|---|---|
| `ReconcilerProofs` | `RepeatsChangeNothing` | a put or a delete that is served again changes nothing |
| `ClusterProofs` | `Typing` | `Spec => []TypeOK` |
| | `Invariance` | `Spec => []Inv` |
| | `CreationsAreRecorded` | `Spec => []CreateIsRecoverable` |
| | `DeletionsHitTheirTarget` | `Spec => []DeleteTargetIsOurs` |
| | `UnmanagedAreKept` | `Spec => UnmanagedFieldsKept` |
| | `NothingIsLeftBehind` | where no request is late, `Spec => NothingLeftBehind`; also in `InitBundleProofs` |
| | `NothingIsMadeTwice` | where no request is late, `Spec => NothingMadeTwice`; also in `InitBundleProofs` |
| `InitBundleProofs` | `Typing`, `Invariance` | as above |
| | `RevocationsAreDeletions` | `Spec => []RevokesOnlyOwnOnDeletion` |
| | `KeepsThePromise` | `Spec => LivesAsPromised`, in both modules |
| | `SecretsNeverRegress` | `Spec => SecretNeverRegresses` |
| | `SecretsAreOwned`, `SecretsDiffer` | `Spec => []SecretIsOwned`, and no two secrets ever have the contents of one bundle |
| | `ReadyBundlesArePublished` | without faults and renames, `Spec => []ReadyBundleIsPublished` |
| `ConnectorProofs` | `Typing` | `Spec => []TypeOK` |
| | `FieldIsClosedAtRest` | `Spec => []FieldClosedAtRest`, for any number of workers |
| | `SeparateReconciles` | `Spec => []SeparateAreSafe`, for any number of workers, as the next two |
| | `ClustersOpen` | `Spec => []ClustersStayOpen` |
| | `OverlapsLeak` | `Spec => []LeaksOnlyByOverlap` |
| `ClusterMappingProofs` | `WritesSettle` | `Spec => OneWriteSettles` |
| | `DriftDetection` | `Spec => []DriftIsExact` |
| | `StatusIsTrue` | `Spec => []StatusTellsDrift` |
| `ConfigProofs` | `UsesConnectors` | `UsageSpec => Spec` of `Connector` |
| | `ConnectionsAreSafe` | the four results about connectors, for `UsageSpec` |
| | `UsageTyping` | `UsageSpec => []UsageTypeOK` |
| | `HeldIsTracked` | `UsageSpec => []HeldAreTracked` |
| | `KnownUsersAreSafe` | `UsageSpec => []KnownUsersKeepConfig` |
| `DeploymentProofs` | `DeploymentTyping` | `DeploymentSpec => []DeploymentTypeOK` |
| | `OneIsActive` | `DeploymentSpec => []OneActiveReplica` |
| | `SetUpIsComplete` | `DeploymentSpec => []AllOrNothing` |
| `CopiesProofs` | `CopiesTyping` | `CopiesSpec => []CopiesTypeOK` |
| | `EverythingIsCopied` | of every API type: its `DeepCopyInto` makes all the memory anew that a value leads to |
| | `NothingIsShared` | `CopiesSpec => []CopiesShareNothing`, the same of the object at hand and lists of such |
| | `CacheIsSafe` | `CopiesSpec => []CacheIsWhatWasSent` |
| | `SavesAreOwn` | `CopiesSpec => SavesOwnChanges` |

They hold for every set of resources, specs and extras, every bound and both
values of every switch (`RejectsDuplicates`, `AllowRename`, `AllowFaults`,
`AllowDelays`) but for those the table excepts, from `ReconcilerAssumption`
alone; for every set of workers,
from `ConnectorAssumption`; and for all tables of enumeration values in which
no two names share a number and no name is empty (`MappingAssumption`); for
every finite set of workers and every set of ProviderConfigs
(`ConfigUsageAssumption`); for any replicas and any two durations of which the
renewal deadline is the shorter (`DeploymentAssumption`).

`ReconcilerProofs` has the lemmas about the steps both controllers share: that
they keep the types, the invariant `ReconcileInv`, and the names of identifiers,
what each call makes and for whom, and for each step the step of `ManagedLife`
it is.

### The invariants of the controllers

Neither `CreateIsRecoverable` nor `DeleteTargetIsOurs` nor
`RevokesOnlyOwnOnDeletion` is inductive. `Inv` adds to them

* `CurrentCopies`: a copy that counts as the latest equals the stored object in
  the fields the writes rest on. Without it a write that carries the latest
  version could bring back an old annotation or drop the finalizer.
* `WorkerHolds`: what the worker was told before it came to this step (it has
  the finalizer before it records a creation; a deletion it was told of has
  policy Delete).
* `IdentifiersKeepNames`, with `HandlerTargets` of a cluster or
  `RevocationTargets` of a bundle, by `Denotes(i, name)`: `i` is or was the
  identifier of an object called `name`, and never of another. It is stated of
  every object in Central, of the cluster `Update` holds, of the identifier
  `Delete` sends and of a put that is late: the last is needed because a put
  that arrives late writes a name, which must be the one its object has.

The argument for the names: identifiers are new when they are given; `put` is
the only request that could change a name, and the one `Update` sends was
looked up by the very name it writes; so `Denotes` survives every step of
everyone else (`ElsewhereKeepsNames`, `CallKeepsNames`), and the handlers only
have to establish it where they read Central. The argument for creations: the
write before `Create` succeeds only on the latest version, after which every
write by the worker of an older one is refused, users cannot remove the object
because of the finalizer, and only the worker in `succeeded` or `failed`
changes the annotation. A bundle is never updated because what is compared is
what it was found by.

### The refinement

Each step maps to a step of `ManagedLife` or a stutter. `Begin`, `AddFinalizer`,
`UpdateStatus`, the cache and most handlers change none of the three views.
`MarkPending` is `Intend`: that the object is there and not being deleted, and
no other creation is open, comes from `CurrentCopies` and `WorkerHolds`, for the
write succeeds only on the latest version. `Create` is `Try`; `PostMakes` and
`ServeRepeatedlyMakes` bound what it makes. `RemoveFinalizer` is `Vanish`: a
worker that releases holds the latest version, where no creation is pending but
not concluded. A deletion by a user may remove an object at once only if it has
no finalizer, and by `CreatedAreHeld`, which the proof added to the invariant,
nothing was ever attempted for that one.

### What a deletion leaves, what an update writes

`NothingLeftBehind` rests on `MissedIsMissing`: from the moment `Observe` has
found nothing until the worker has created or released, Central has nothing made
for that resource under the name in the worker's memory. Others may create and
edit there meanwhile, resources of the same name too; but each makes only things
of its own (`CallMakesFor`), no edit renames one (`Denotes`, again), and only the
resource's one worker, which is busy, asks for things of its own. The release is
written to the version that was observed, so the name in memory is the one the
object has when it goes (`CurrentCopies` has `spec` for that). A late request
breaks exactly this, which is why it is excluded: it asks for something of the
resource's own without its worker.

`NothingMadeTwice` has the same root: `Create` is the one step that makes something
for a resource (`CallMakesAsked`), and there the worker has missed everything of
that name (`MissedIsMadeAnew`). What is new is told by its identifier, which
`IdentifiersKeepNames` keeps below `nextId` for all that was there.

`UnmanagedFieldsKept` needs that no two clusters in Central have one identifier,
the first part of `IdentifiersKeepNames`; then `PutEditsOne`.

### The way of a bundle's contents

`ContentsInOrder`: only a worker between `Create` and the end of `Publish` holds
contents, and then of a bundle younger than the one in the secret. Central
counts up, so what `Create` returns is younger than all before, and a worker that
is restarted holds nothing. `SecretNeverRegresses` follows, faults or none.

`ContentsAreOwn` is about whose they are, faults, renames and late requests
included: contents on their way or in a secret are of a bundle generated for that
resource, no other resource has the same, and the resource has a creation on
record. In `Create` the identifier is that of the reply, hence new
(`MakersStay`: whatever else Central comes to have keeps its identifier and its
maker), and `pending` on the stored object is `CreateIsRecoverable`. After that
nothing but the end of the object clears the record, and that clears the secret.
The last two premises are why `SecretIsOwned` is not inductive by itself.

Without faults and renames, `ContentsAreKept` says that whatever Central has that
was made for an object under its name, the object's secret or its worker has the
contents of. The step that matters is `Create`: by `MissedIsMissing` there was
nothing made for the object under the name the worker has, by `NameIsHeld` that
is the object's name, so what is made now is all there is. No step drops what is
held before it is published, and the object keeps its name.

### Usages and leases

`HeldAreTracked` is not inductive. `TrackedInv` adds that a worker past `Track`
of a resource that exists has a usage, and that a usage the cache has exists as
long as its resource does: only garbage collection removes a usage, after its
owner; so a `Track` that writes nothing, because the cache says there is nothing
to write, is right to. The rest is that the finalizer is added by a worker past
`Track`.

`PinnedInv` says of each known user that its usage is in the cache as in the API
server, that its ProviderConfig is being deleted, and that a reconcile of that
ProviderConfig whose write would be accepted has counted at least one user: the
version check at the write is what excludes a count made before the deletion.

`LeaseInv` relates three clocks: the age of the Lease is at most the time since
its holder last knew to have renewed it, and no replica has seen the record for
longer than it is old. So a replica that has seen it unchanged for
`LeaseDuration` finds a holder past `RenewDeadline`, which has stopped
(`NoneIsActive`). `SetUpInv` adds to `AllOrNothing` the phase between the last
controller and the election.

### The others

`FieldClosedAtRest` is inductive as it stands. The other theorems about connectors
have no premise on the number of workers. `Overlaps` says that two workers that
are connected to one connector at a time are both on record, and that one that is
not on record has its connection in the field, open, and is given it; what
`Connect` of another worker then overwrites puts both on record. Connections of
Clusters are never closed, so what a Cluster worker finds in the field is open
whoever dialled it (`ClusterStaysOpen`). `DriftIsExact` and `OneWriteSettles` follow from two facts
about the tables: a name is found again by its number (`NamesReturn`) and a
number by its name (`NumbersReturn`).

`EverythingIsCopied`, and `CopiesShareNothing` with it, is about recursive
functions: `Cells` follows the declarations of the types, `DeepCopyInto` the
generated functions. No induction
over data is needed, for the types refer to each other in five levels
(`Level1` to `Level4`, and the rest), which the lemmas `...Fits` read off the
tables. Both functions are the choice of a fixed point of `Turn`; one that was
turned as often as there are levels is determined (`TurnAgrees`, `TurnEnds`), so
both have values (`CellsUnfold`, `DeepCopyUnfold`), and `LevelShares` climbs the
levels: a field that leads to memory of its own is copied, by a function that
copies all of it. A type that refers to itself, or a map field its
`DeepCopyInto` forgets, breaks a lemma of the tables.

`Apart` is the invariant of copies that share nothing: the cache has what was
sent, and where a copy differs from what it was read or saved with, the change is
its reconcile's own.

### What is only model-checked

Liveness: `Converges`, `BundlesConverge`, `DeletionCompletes`,
`RevocationCompletes`, `ReleasedWhenUnused`, `UsageSettles` and
`SomeoneLeads` rest on fairness, which is out of reach of the proof system's
backends. Every safety property of a run that passes is a theorem; `CalmBundleIsPublished`
in the form of `ReadyBundlesArePublished`, of the specification that has neither
faults nor renames.

No premise can be dropped; TLC finds a violation without each. For reconciles
that overlap these are the runs `ConnectMixed` and `ConnectShared`, with faults
`BundleLost`. With late requests `NothingLeftBehind` fails when a post arrives between the last `Observe` and the
removal of the finalizer, and `NothingMadeTwice` when one arrives after another
attempt was served; with renames `ReadyBundleIsPublished` fails when the
object returns to a name it had.

## What the models leave out

* The observation of an init bundle but for the identifier: the rest of
  `status.atProvider` is read by nobody in this repository.
* The getters and setters of `zz_generated.managed.go`, which are plain field
  accesses, and the names and groups of kinds.
* The `--poll` flag: `main` puts it in `controller.Options`, and neither `Setup`
  hands it on, so the reconcilers poll at their library's default. Fairness
  needs that they poll, not how often.
* The external-name annotation: the code sets it to the name of the object in
  Central and never reads it; the write of the reconciler's name initializer
  changes nothing the models have.
* Conditions other than Ready, events, logs, errors' texts.
* Pausing a resource, external secret stores, `publishConnectionDetailsTo`.
* Garbage collection of a secret is immediate.
* The informer's copy jumps to the latest version; the versions between are
  skipped.
* What two replicas without leader election do to one resource.
* Credentials: how the token is extracted, and that it changes under an open
  connection, which keeps the one it was dialled with.
* The back-off and the deadlines of the client: they are left to scheduling.
* CRDs, examples, templates and build files, which are declarative or generated.

## Plan

Done: `ManagedReconciler`, `Cluster`, `InitBundle`, `Connector`,
`ClusterMapping`; the attempts of the client; `ManagedLife` and its
implementation by both controllers; `ConfigUsage`; `Deployment`; `ObjectCopies`.

Left:

1. Two replicas that reconcile one resource without leader election: which of
   the properties survive.
2. Two resources of one name, of which one is deleted: whether the deletion ends
   depends on the order of their reconciles, and no fairness of the code decides it.
