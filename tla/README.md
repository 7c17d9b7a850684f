# Formal verification of basereconciler

`basereconciler` is a Go library for controllers built on controller-runtime. A
controller's `Reconcile` calls three methods of `reconciler.Reconciler` in a row:

1. `ManageResourceLifecycle` gets the custom resource (CR), finalises it when it
   is being deleted, and initialises it otherwise;
2. `ReconcileOwnedResources` brings every resource that a template describes to
   its desired state (`resource.CreateOrModify`), tracks and watches the types
   of those resources, and prunes the ones that no template names;
3. `ReconcileStatus` aggregates the status of workloads into the CR's status.

This directory holds TLA+ models of these handlers, TLC configurations that
check them on small instances, and proofs, checked by TLAPS, for all instances.
Every definition that models code carries its source lines in `PROJECT.json`
(`map`).

What makes the code hard to get right is not in any one function: all reads come
from caches that lag behind the API server, each type's cache on its own; any call
may fail, or succeed and have its reply lost; the process may restart between
any two calls and then has lost what it kept in memory; users, other controllers
and the garbage collector write to the same objects; and several workers share
one type tracker. The models make each of these a step.

## Inventory

| Part | State it keeps | Operations | Hard behaviours | What makes it correct |
|---|---|---|---|---|
| Lifecycle, `reconciler/reconciler.go` `ManageResourceLifecycle` | none of its own; the CR's finalizers and deletion timestamp in the API server | Get, `isInitialized` + Update, in-memory initialisation, `finalize` + RemoveFinalizer + Update | stale Get, conflicts, lost replies, restarts between two finalization functions, re-creation under the same name | no release before every finalization function took effect; no body for an unprotected CR; no lost user edit; every deleted CR is released; every last version is reconciled |
| Owned resources, `ReconcileOwnedResources` | `managedResources`, `requeue` (local to a pass) | the loop over the templates; track; watch; prune; requeue | partial failure of the loop, caches that lag per type, watches that start late | at rest, the resources are what the CR asks for; the controller comes to rest |
| Pruner, `reconciler/pruner.go` | none (reads `seenTypes` and the caches) | `pruneOrphaned`, `isPrunerEnabled` | stale lists, delete by name, types forgotten at a restart | never deletes what an enabled template names; deletes only what the CR owns; leaves no orphan |
| Type tracker and dynamic watches, `reconciler/tracker.go` | `seenTypes`, the mutex, the controller's event sources | `isTypeTracked`, `watchOwned`, `trackType` | unlocked reads, check-then-act over two critical sections, a watch that fails | tracked types are watched; managed types are tracked; duplicates are bounded; no worker is stuck |
| CreateOrModify, `resource/create_or_modify.go`, `resource/property.go` | none | build, get, create, delete, normalise, compare, reconcile properties, Update or Patch | writes computed from an old version; nested ensured properties; ignored fields; defaults of the API server | other writers' fields survive; a write ensures what the template wants; no endless writing |
| Templates, `resource/template.go` | builder, mutations, options | `Build`, `Enabled`, `GetReconcileOptions`, `Apply` | option precedence; a builder called once per pass | options are resolved as documented |
| Global config, `config/global.go` | one process-wide struct | pruner and watch switches, per-GVK defaults | set at run time | defaults apply where the template says nothing |
| Status, `reconciler/status.go`, `reconciler/health.go` | the CR's status | aggregate statuses and health, run mutators, status Update | the `update` flag is overwritten per workload, and not set by the reset of the aggregate; a missing workload ends the pass | a status that changed is written |
| Live-value mutators, `mutators/mutators.go` | none | copy replicas, clusterIP, nodePorts from the live object into the desired one | the live object is read twice | a value others set survives |
| Rollout triggers, `mutators/rollout_triggers.go`, `util/hash.go`; `FilteredEventHandler` | hash annotations | hash of a Secret or ConfigMap into the pod template; map an event to CRs | a List that fails drops the event; one list object shared by calls | a change of the source reaches every workload |
| Test controller, `test/test_controller.go` | none | composes the handlers | - | it is how the models' compositions are meant |
| Helpers, schemes, test API | none | conversions, lookups, generated code | - | - |

Interactions. The CR's watch and the dynamic watches put the CR's key in a
workqueue, which hands a key to one worker at a time. The worker runs the
handlers one after the other; the `Result` of each decides whether the key is
done, requeued, or retried with backoff. The handlers read through the manager's
cache and write to the API server; each write comes back as an event of the
informer of its type. The type tracker is shared by all workers of a controller.

## Modules

| Module | What it models | Lines it follows |
|---|---|---|
| `Lifecycle` | one CR's name over creation, edits, deletion and re-creation, and the worker in `ManageResourceLifecycle` | `reconciler.go` 28-285 |
| `OwnedResources`, `MCOwnedResources` | one CR's resources, the caches of their types, the worker in `ReconcileOwnedResources` with `CreateOrModify` and `pruneOrphaned` | `reconciler.go` 297-341, `pruner.go`, `create_or_modify.go` 60-187 |
| `TypeTracker` | several workers that share one tracker | `tracker.go`, `reconciler.go` 303-328 |
| `Template` | templates and the default configurations as values, with operators for their constructors, `Build` and `GetReconcileOptions` | `template.go` 163-347, `global.go` |
| `Modify`, `MCModify` | one resource field by field: options, normalisation, `Property.reconcile`, Update and Patch | `create_or_modify.go` 123-290, `property.go` |
| `Mutators`, `MCMutators` | one Deployment or Service whose template reads the cluster: the mutations, the second read, the write; a rollout trigger's source, its events and their handler | `mutators.go`, `rollout_triggers.go`, `reconciler.go` 367-393 |
| `Controller`, `MCController` | `Lifecycle` with `ReconcileOwnedResources` in the place of "continue", over CRs that follow each other under one name, and the garbage collector | `test_controller.go` 46-158, `reconciler.go` 297-341, `pruner.go`, `create_or_modify.go` 86-121 |
| `Health` | the health of a Deployment and of a StatefulSet, and the order of the codes, as operators | `health.go` |
| `Status`, `MCStatus` | one CR's status, its workloads, the worker in `ReconcileStatus` | `status.go` 77-227 |
| `Finalization` | abstract: CRs that are protected, deleted, finalised and released; implemented by `Lifecycle` | `reconciler.go` 196-285 |
| `TrackedTypes` | abstract: a set of types that are watched before they are tracked; implemented by `TypeTracker` and by `OwnedResources` | `tracker.go` |
| `Converge` | abstract: resources that change only towards a version of the CR that was not left behind, and at rest are what the newest asks for; implemented by `OwnedResources` | `reconciler.go` 297-341, `create_or_modify.go`, `pruner.go` |
| `*_proofs` | the theorems about the module of that name | - |
| `Versions_proofs` | lemmas about sequences of versions, which the others share | - |

Where one module abstracts what another details: "continue" of `Lifecycle` is the
whole of `OwnedResources`, with one resource and no content in `Controller`; the
content of a resource, one value in `OwnedResources`, is the function from fields to values of `Modify`; `seenTypes`,
a set that one worker fills in `OwnedResources`, is the slice that several fill in
`TypeTracker`; `Build`, one step in the other modules, is the two mutations of
`Mutators`, each a step with a read of its own.

Five relations of modules are stated as refinements, `KeepsPromise` or `Converges` of the
detailed module or `ImplementsLifecycle`. All are proved, and all but the third checked by TLC:

- `Lifecycle` implements `Finalization`: `protected` is the uid of the CR in the
  API server if it has the finalizer, `released` the uids of the log that had it,
  `doomed` those that were being deleted, `effects` is `done`.
- `TypeTracker` implements `TrackedTypes`: `tracked` is the set of the slice's
  elements, `watched` the types with at least one event source.
- `OwnedResources` implements `TrackedTypes` with `seenTypes` for both, so that what
  it takes for granted of the tracker, which it holds to one step, is what the
  tracker of `TypeTracker` provides.
- `OwnedResources` implements `Converge`: `newest` is the last version of the CR, `window`
  the versions from the cached one on and the one the pass in progress read, `have` the
  resources in the API server, `tracked` is `seenTypes`, and `calm` says that no pass is due
  and every cache is current. It takes dynamic watches, and that nobody else creates a
  resource under a template's name.
- `Controller` implements `Lifecycle` under the identity: it extends that module, and
  its own variables are hidden. The theorems about `Lifecycle` hold for it at once.

### Caches and writes

All modules with an API server see it the same way. It is a sequence of
versions; a cache holds one of them. In `Lifecycle` the versions are all kept, so
that a resource version is an index, a CR's uid is the index of its first version,
and Update succeeds iff the version read is the last. In `OwnedResources`, `Modify`,
`Status` and `Mutators` only the versions from the cached one on are kept (`feed`): its head
is the cache, its last the API server, and `TypeSync`, `SpecSync`, `Sync` and the
like deliver the next. What optimistic locking compares there is the flag `fresh`:
nobody wrote since the version that was read. The caches of different types, and
of the CR, advance independently.

A write that changes nothing makes no version, hence no event, as in the real
API server. A delete either removes the object or marks it, since objects may
carry finalizers.

### Lifecycle

`pc` is the position in `ManageResourceLifecycle`: "get", "initialize" (the
Update that persists the initialization), "finalize" (the next finalization
function is `fn`, and `AllFinalized` is the Update without our finalizer),
"continue" (the rest of the reconcile function). `done` records which finalization
functions took effect for which CR, by uid. A finalization function in `OneShot`
fails when its effect is there already, as Create does in the test controller.
`other` is a finalizer that is not this controller's, `init` says that the
initialization functions would change nothing.

### OwnedResources

The position in the pass is `pc`; `snap` is the CR as read at its start, `todo`
the templates still to be dealt with, `cur` the one at hand, `managed` and
`requeue` the local variables of the same meaning, `toPrune` and `toDelete` the
loops of `pruneOrphaned`. `spec` gives each resource a mode: an enabled template,
a disabled one, or none in the list. The pruner's switch is a field of `spec`
too, the annotation of the CR. Templates are handled in any order, which covers
every order a controller may list them in. `fresh` compares versions of one
resource and not of its type: a read is fresh if the versions on their way to the
cache do not change it (`Quiet`).

What the resources are at rest is `Settled`. It makes one exception, `Accounted`,
which `Converge` (`tracked`) and `Controller` (`InLine`) share. When a Create takes
effect and its reply is lost, or the watch that follows it fails, the resource is
there and its type not tracked, nor watched. If its template is disabled before the
cache has the resource, CreateOrModify finds nothing to delete
(`create_or_modify.go` 103-105) and returns no reference, so that the type stays
untracked (`reconciler.go` 308-325), the late version raises no event, and the
resource stays until something else starts a pass. If no template names it any more,
the pruner does not list its type. So after a fault, and only then, nothing is said
of a disabled or absent resource of an untracked type. `OwnedOrphans` shows the
second case.

### TypeTracker

Each unlocked read of `seenTypes` is a step, and so is each critical section. The
read races with append; it sees the slice before or after, and where the torn
slice header makes it crash the process, that is `Restart`. `watches[t]` counts
the event sources of type `t`.

### Template and Modify

A template is the record of what its constructors were given; `Build` lays the
fields that the builder, its transformations and the mutations set over each
other. `Modify` takes its desired content and its options from a template and a
configuration, which the instance makes with these operators: explicit options,
both ModifyOps, and templates that leave the options to the configuration.

A resource is a function from fields to values, or `Absent`. A property is the
set of fields below its JSONPath, so that properties nest as sets do. Update
sends all of `work` under the resource version of `live`; Patch sends the fields
in which `work` differs from `live` and no version. The API server fills absent
fields with `Default`.

### Mutators

The pass makes two reads of the one resource, and they are two steps: that of the
mutation (`built`, in "replicas" or "service") and that of CreateOrModify (`live`,
in "get"). The informer may deliver between them. `desired` is the object on its
way through `Build`. What the API server does with a Service is external: it
refuses another address, allocates what is not asked for, and keeps or reassigns
the node port of a port that comes without one. It also refuses node ports in a
Service of type ClusterIP, so that templates of that type are assumed to have none
(`MutatorsAssumption`). The source of the rollout trigger
is a sequence of versions like the resource's; each delivery is an event, and
`HandleEvent` is the FilteredEventHandler's call for one of them. `lost` records
that the handler dropped one (a failed List) and that no pass began since.

### Controller

The position in the body is `at` while `pc` is "continue"; `res` are the versions of one
resource. A resource carries the uid in its owner reference: the garbage collector
removes it when no CR of that uid is in the API server (or when the CR waits with
foregroundDeletion), whereas the event handler and the pruner ask for the kind and name
of the owner only, and CreateOrModify for nothing, so that a pass takes the resource of a
CR's predecessor for its own. `Wanted` says what a revision of the CR asks for.

### Status

A pass reads the CR (`inst`), then the workloads it lists one by one (`todo`),
Deployments first, calls the caller's functions if it passes any (`mutators`, which
is either from the start; `CallMutators` records the generation, a typical use) and
writes the status if `update` says so. `tier` is the set of interfaces the status
implements. The status in the model keeps each
workload as it was read, so that the properties can ask what its health was
computed from. `Differs` is `TRUE`: the code compares a pointer with a value,
which are never equal, so that each pass over a workload sends the status; that also
hides that `update` is overwritten for every workload. Without a workload and without
functions nothing sets `update`, although the aggregate was reset to Healthy: it
keeps its last value, which is the finding of `StatusStaleAggregate` and the one
exception (`Noticed`) of `RestsReported` and `StatusFollows`. The handlers that run before ReconcileStatus
delay it; here that is a pass that has not started.

## Runs

Each `.cfg` is a run of the module `PROJECT.json` names. The list is kept short
on purpose: one run answers all questions about one instance, and a later
property joins the run of its module.

| Run | Properties | What it shows |
|---|---|---|
| `Lifecycle` | `FinalizedBeforeRelease` | a CR that ever had the finalizer keeps it until every finalization function took effect for it |
| | `ContinueIsProtected` | while the body runs, the CR it read is the one in the API server, with the finalizer, although it was read from a cache |
| | `ContinueIsUnfinalized` | ... and none of its finalization functions took effect |
| | `UserEditsSurvive` | no Update of the controller undoes a user's edit |
| | `DeletedIsReleased` | every deleted CR is released |
| | `KeepsPromise` | the finalization functions run in order, for CRs that are being deleted only, and the finalizer is not set again once it was there |
| | `LastVersionReconciled` | the body runs for the last version of every CR that stays |
| | `RestsHandled` | with no pass due and the cache current, a CR that is being deleted was released, and any other was read in its newest version, with the finalizer in place |
| `OwnedResources` | `PruneKeepsEnabled` | nothing that an enabled template names is ever on the pruner's list |
| | `NoLostWakeup` | with the controller idle, the queue empty and the caches current, the resources are what the CR asks for; after a fault, but for a disabled or absent one of a type that is not tracked (`Accounted`) |
| | `ComesToRest` | the controller does come to rest |
| | `Converges` | seen from outside, every step brings a resource closer to a version of the CR that is not left behind, or is somebody else's, and the controller rests only with the newest attained, as far as the types of what should be gone are tracked |
| `TypeTracker` | `ManagedIsTracked` | no managed type is untracked |
| | `LeakIsBounded` | at most one entry and one watch per worker and type |
| | `TracksOn` | no worker stays in the tracker |
| | `KeepsPromise` | the slice is a set of types that are watched first, whatever the workers interleave |
| `Modify` | `OthersKept` | a write changes a field only below an ensured property that was seen to differ |
| | `WriteEnsures` | after a write from the newest version the ensured content is the desired one |
| | `Settles` | the writing ends, with the ensured content in place |
| | `RestsInLine` | with no pass due and no version on its way, the resource has the ensured content, whoever wrote between the read and the write |
| `Mutators` | `HashIsReal` | the pods are rolled out only for a content that the source had |
| | `LiveValuesSurvive` | a write of the controller keeps the replicas and node ports that others set, if the two reads of its pass found the same (and a patch of the list of ports is made from the newest version) |
| | `Settles` | the controller comes to rest with the resource in line with the template and the source, unless the last event was dropped |
| | `RestsInLine` | with no pass due and neither a version nor an event on its way, the resource is in line, unless the handler dropped an event |
| `Status` | `AggregateIsWorst` | the aggregated health that is written is the worst of those written with it |
| | `HealthyIsRolledOut` | a CR is reported healthy only when every workload it lists was rolled out |
| | `StatusFollows` | the status ends up with what the workloads are, and the controller at rest; with the exception of `RestsReported` |
| | `RestsReported` | with no pass due and no version on its way, the status is that of the workloads, but for the aggregate of a CR that lists none when the caller passes no functions |
| `Controller` | `ImplementsLifecycle` | seen from the CR, the composition is a lifecycle |
| | `CreatedForTheLiving` | a resource is created only for the CR in the API server, before any of its finalization functions took effect |
| | `SuccessorIsServed` | a CR ends up with a resource of its own, whatever its predecessor of that name left, or without one as far as `InLine` goes |
| | `NothingIsLeft` | when the last CR is gone, its resource goes too |
| | `RestsServed` | with no pass due, the caches current and no garbage left to collect, a CR that lives has the resource of its own that it asks for (or one on its way out), or none if it asks for none (after a fault, if the type is tracked), and without a CR nothing is left |

Each of these runs checks its module's `TypeOK` as well; in `TypeTracker` it
holds the discipline of the mutex, in `OwnedResources`, `Modify` and `Status` the
invariant `PassOK` of the pass in progress.

Runs that end in a counterexample, each a disagreement of the code and its
documentation (quoted under `findings`):

| Run | Property | Counterexample |
|---|---|---|
| `LifecycleOneShot` | `FinalizedIsReleased` | a finalization function that is not idempotent, as in the test controller: another writer makes the releasing Update conflict, and from then on the function fails for ever |
| `OwnedOrphans` | `NoOrphans` | the tracked types are in memory; after a restart the pruner does not list a type that only dropped templates were of |
| `TrackerDuplicates` | `NoDuplicates` | two workers find a type untracked and both watch and append it |
| `StatusStaleAggregate` | `ReportedIsWorst` | a CR is reported Degraded, and then edited to list no workloads; without functions the reset aggregate is never written, and it stays Degraded at rest |
| `ModifyIgnored` | `IgnoredKept` | an ensured property is replaced as a whole, the ignored field in it included |

### Bounds, and why they are enough

- `Lifecycle`: 2 finalization functions (so that one can fail after the other),
  `MaxVersions` 6 user-visible versions before the user stops (create, edit,
  delete, release and re-create fit, with the controller's own writes in
  between), 1 fault. The controller and the holder of the other finalizer may
  write beyond `MaxVersions`, which they do a bounded number of times.
- `OwnedResources`: 2 resources of two types, 5 specs (both enabled; the first disabled;
  absent; other content; absent with the pruner off), one resource updated and
  one patched. `MaxEdits` 1, `MaxDrifts` 1, `MaxFaults` 1: an edit, a drift
  and a fault interleave with every step of every pass, including the passes
  caused by the controller's own events. Another resource would only repeat
  the role of one of the two, as resources interact only through a type and
  through the pass.
- `TypeTracker`: 2 workers, 2 types, 2 faults. The races are between pairs of
  workers, and the proofs cover any number.
- `Modify`: 4 fields: two in an ensured property, one of them ensured by itself
  too and the other ignored and defaulted, one ensured alone, and one nobody
  ensures; 1 change of the template, 2 changes by others, 1 failure. 5 templates:
  with each ModifyOp and none, with explicit options and without (one of them
  with an ignored property all the same), composed with `Apply` and with
  mutations; 2 configurations: the initial one, and one that was set for the type.
- `Mutators`: a Deployment with or without `enforce`, or a Service whose owner may
  add a second port or take the node ports; 2 values of everything that others
  set (replicas, addresses, node ports, contents of the source), 2 changes of
  the source, 1 edit, 1 change by others, 1 fault: enough for a change between
  the two reads of a pass, with a retry, and for a second change of the source
  while the event of the first is under way.
- `Controller`: 1 finalization function, `MaxVersions` 6, so that a CR can be created,
  deleted, released and created again, 1 fault. The first version of a CR wants the resource, the next has no
  template for it, the third a disabled one. The garbage collector waits while the
  cache is more than `MaxLag` 2 versions behind, without which it and a pass with an
  old CR could write on and on; the lag it takes to mistake a predecessor's
  resource, and its absence, is less.
- `Status`: a Deployment with two forms (rolled out, stuck past its deadline) and a
  StatefulSet with two (rolled out up to its partition, in the middle of a rolling
  update), or missing; a CR that lists both or none, and functions or none. 1 edit,
  2 changes of the workloads, 1 fault, and the initial forms are arbitrary, so that
  both workloads can get worse or recover during a pass. A paused Deployment and
  the strategy OnDelete are not among the forms of the run; `HealthyHolds` is about
  every form. `StatusStaleAggregate` needs one edit, no change
  and no fault.

`CHECK_DEADLOCK FALSE` is set where the system may stop: with the user's and the
others' budget spent, a controller at rest has nothing to do. `TypeTracker` has
no such state (a pass can always start), and is checked for deadlock.

### Fairness

- The worker's steps are weakly fair (`WF_vars(Work)`, `WF_vars(Worker)`):
  controller-runtime runs its workers until the process ends, and a queued key
  is eventually handed out; backoff only delays it.
- The informers are weakly fair: a watch that breaks is re-established from the
  last version seen.
- In `TypeTracker` each worker is weakly fair inside the tracker, and taking the
  mutex is strongly fair: `sync.Mutex` hands over to a waiter of more than 1ms
  (starvation mode), so that a waiter is not overtaken for ever.
- In `Mutators` the delivery to an idle worker's cache is strongly fair besides. Weak
  fairness alone admits a run in which the informer always delivers between the
  two reads of a pass, which write each other's old value for ever; the reads
  follow each other in memory, while a pass and its event are a round trip apart.
- In `Controller` the garbage collector is weakly fair, as it is in Kubernetes.
- Users, others, faults and restarts have no fairness. The removal of another
  controller's finalizer has none either, and nothing promised depends on it.

### Assumptions about what is outside of the library

- A key is reconciled by one worker at a time (controller-runtime's workqueue).
- An informer delivers the versions of a type in order; `Lifecycle` lets it skip
  some. After a restart the first list is current.
- The garbage collector, and whoever owns other finalizers, only remove what they
  set. Only this controller touches its own finalizer.
- An error is retried with backoff; the models leave the delay out.

## Proofs

Every theorem holds for all values of the constants that satisfy the module's
`ASSUME`: any number of finalization functions, resources, types, workers, fields
and properties, and any bounds.

| Theorem | Property | Argument |
|---|---|---|
| `Lifecycle_proofs!TypeCorrect` | `TypeOK` | inductive, together with `LifecycleInv` |
| `Lifecycle_proofs!FinalizedFirst` | `FinalizedBeforeRelease` | `WorkerKnows`: the functions before `fn` are done for the CR that was read; `ReleasedSeen`: the finalizer is gone only when all of them are |
| `Lifecycle_proofs!ContinueProtected` | `ContinueIsProtected` | `History`: deletion is for ever; `ReleasedSeen`: a CR that lost its finalizer was seen being deleted by the cache, which never goes back (`ReadSynced`), so that a worker that reads the CR alive reads one that still has it |
| `Lifecycle_proofs!ContinueUnfinalized` | `ContinueIsUnfinalized` | `DoneSeen`: the cache showed the deletion of every CR that a function took effect for, and never shows it alive again |
| `Lifecycle_proofs!EditsSurvive` | `UserEditsSurvive` | a write of the controller is of the version read, which is the last |
| `Lifecycle_proofs!AtRestHandled` | `RestsHandled` | `HandledInv`: the version that a pass goes on with is the newest in the cache, or another pass is due; a write of the pass is a version that the cache has yet to see |
| `OwnedResources_proofs!TypeCorrect` | `TypeOK` | inductive: a reference is returned on the way through "track", which is only reached with an enabled template (`PassOK`) |
| `OwnedResources_proofs!PrunerKeepsEnabled` | `PruneKeepsEnabled` | the enabled templates are all in `todo`, at hand, or in `managed`; an error leaves the pass, so that with `todo` empty `managed` holds all of them |
| `TypeTracker_proofs!TypeCorrect` | `TypeOK` | inductive: whoever is in a critical section is `mu` |
| `TypeTracker_proofs!TrackedWatched` | `TrackedIsWatched` (implied by `KeepsPromise`, which the run checks) | `AboutToTrack`: a worker past its watch has its type watched; watches are never removed but by a restart |
| `TypeTracker_proofs!ManagedTracked` | `ManagedIsTracked` | entries are never removed but by a restart, which also ends the passes |
| `Lifecycle_proofs!Implements` | `KeepsPromise` | `StepWrites`: a write keeps the finalizer, adds it to a CR that is alive, or takes it from a finalised one; `History` and `ReleasedSeen` make a CR that is alive one that never lost it |
| `OwnedResources_proofs!Implements` | `KeepsPromise` (no run checks it: `Converges` follows the same set) | a step tracks one type, with its watch, or forgets all |
| `TypeTracker_proofs!LeakBounded` | `LeakIsBounded` | the entries of a type and the workers that are about to add one are counted together: each worker is counted once, before or after |
| `TypeTracker_proofs!Implements` | `KeepsPromise` | `AboutToTrack`: an append is of a type that is watched |
| `Controller_proofs!ControllerImplements` | `ImplementsLifecycle` | a step of the body leaves the variables of `Lifecycle` alone, or is its `Body` |
| `Controller_proofs!ControllerTypeCorrect` | `ControllerTypeOK` | inductive, with `TypeOK` of `Lifecycle` |
| `Controller_proofs!CreatesForTheLiving` | `CreatedForTheLiving` | only `Create` makes a resource (`ResStep`), with the owner that was read; `ContinueIsProtected` and `ContinueIsUnfinalized`, by the refinement |
| `Controller_proofs!AtRestServed` | `RestsServed` | `ServedInv`: unless another pass is due, the pass knows the resource as it is; `OwnedVersions`: each version has an owner or its successor has, so that the watch finds whom to queue; `TrackedInv`: without faults only the step between a Create and "track" has a resource of an untracked type |
| `Modify_proofs!TypeCorrect` | `TypeOK` | `PassOK`: what the pass holds is the version read with the properties dealt with replaced |
| `Modify_proofs!KeepsOthers` | `OthersKept` | `PassOK`, and `ApiDefaulted`: what the API server stores has its defaults filled in already, so that a write adds none |
| `Modify_proofs!EnsuresDesired` | `WriteEnsures` | `PassOK` with nothing left to do |
| `Modify_proofs!AtRestInLine` | `RestsInLine` | `Current` and `OnNewest`: unless another pass is due, the pass goes by the newest template and works on the newest version; a write then makes a version, whose event makes a pass due, or the resource was in line |
| `Mutators_proofs!TypeCorrect` | `TypeOK` | inductive, together with the invariant of the next two |
| `Mutators_proofs!HashReal` | `HashIsReal` | every Deployment in the feed, and the one the pass builds once the trigger is added, has the hash of a content of the source; `contents` only grows |
| `Mutators_proofs!LiveSurvive` | `LiveValuesSurvive` | what the pass builds has the replicas and node ports of the version its mutation read (`DeploymentInv`, `ServiceInv`), and a write under a resource version is of the last one |
| `Mutators_proofs!AtRestInLine` | `RestsInLine` | `Rest`: with no pass due and nothing on its way, the last pass built on the newest template, hash and versions; a write that adds nothing leaves them in order |
| `OwnedResources_proofs!NoWakeupLost` | `NoLostWakeup` | resource by resource: another pass is `Pending` (the key is queued or will be, or a version is on its way whose event queues it), or what the pass has `Dealt` with is `Done` as the CR asks. `TrackedInv`: without faults, a resource that is there has its type tracked, or its pass is on the way to do so. Assumes `DynamicWatches`, without which a drift raises no event, and that nobody else creates a resource under a template's name (`~Foreign`), of which no event of an owner comes |
| `OwnedResources_proofs!ConvergesAlways` | `Converges` | `ConvergeInv`: the invariant of `NoLostWakeup` gives what holds at rest (of what should be gone, for tracked types); `PruneSeen`, that the pruner works on tracked types and for a CR that asks for it. Each write is justified by the CR the pass read, and the window only loses versions that neither the cache nor the pass will show again. The same two assumptions |
| `Status_proofs!TypeCorrect` | `TypeOK` | inductive, together with `StatusInv` below |
| `Status_proofs!AggregateHolds` | `AggregateIsWorst` | `StatusInv`: at each step of a pass the aggregate is the worst of the workloads looked at (`WorseIsWorst` adds one), and at the write none is left; two codes of one rank are the same (`RankOrders`), so that the worst is unique |
| `Status_proofs!HealthyHolds` | `HealthyIsRolledOut` | no code ranks below `Healthy`, so that each health in a healthy aggregate is it; `HealthyRolledOut`, by the cases of the two health functions |
| `Status_proofs!AtRestReported` | `RestsReported` | `OnNewest`: unless another pass is due, the pass works on the newest CR and workloads, and is without an update only as long as it has looked at none and its functions have found nothing; `Recorded`: before the write the functions have run, if there are any. A pass that ends without an update had no workloads to look at, which leaves the aggregate (`Noticed`) |

None of the safety properties of the handlers is inductive by itself. `FinalizedBeforeRelease`,
for instance, says nothing of a worker that is half through its functions, and
would be broken by the next step of a state in which `done` lacks one of them and
`fn` is past it; `LifecycleInv` excludes that state. Each strengthening was
first checked with TLC as an invariant of its module's run.

Only model-checked: the liveness properties (`DeletedIsReleased`, `LastVersionReconciled`,
`ComesToRest`, `TracksOn`, `Settles`, `StatusFollows`, `SuccessorIsServed`,
`NothingIsLeft`), which are out of the prover's reach, as is what `Template` folds over a
list of builders. Of what they promise, the part that is safety is proved: each says that
the controller comes to rest and that all is well then, and the second half is
`RestsHandled`, `NoLostWakeup`, `RestsInLine`, `RestsReported` and `RestsServed`. What is left
to TLC is that the controller gets there.

## Not modelled, and why

- What the templates build, and the conversions between typed and unstructured
  objects: data. A failing conversion, or a JSONPath with several values, is an
  error, hence a failure of the pass (`Fail`, `CallFails`).
- Several CRs at once: the handlers share only the type tracker, which
  `TypeTracker` models. That the pruner decides ownership by kind and name and
  not by uid shows over the CRs of one name, which `Controller` has.
- What the pruner does with a resource that was deleted, and created by somebody else
  under its name, after it was listed: it deletes by name, without a precondition on
  the uid, as `PruneDelete` says, but no run has an opinion about it.
- A resource that the CR does not own but a template names (created by others, or
  left by a CR that was deleted with `--cascade=orphan`): CreateOrModify changes it and
  never adopts it. Its watch raises no event, so that `NoLostWakeup` and `Converges`
  exclude it (`~Foreign`).
- `ReconcileStatus` after the other two handlers: `Status` has a pass of its own.
- An Update that a pass sends for an unchanged status: the API server makes no version
  of it, and `StatusFollows` says that it does not cause another pass. The code compares
  a pointer with a value there (`status.go` 123, 150, 213), which `Differs` models.
- A scale-up between the two reads of a pass, which the controller undoes:
  `LiveValuesSurvive` excludes it by `built = live`. The mutation hands over a
  value and not the version it is of, so that the code has no means to notice.
- A builder that returns the same object on every call, or a template that others
  were derived from with `Apply`: the caller's objects are shared then, which
  the values of `Template` do not show.
- The filter of a FilteredEventHandler, and that its calls decode into one list;
  the annotation's key of a rollout trigger; collisions of the 32-bit hash.
- Scheme registration, logging, diffs for the log, generated code.

## Plan

Done: `Lifecycle`, `OwnedResources`, `TypeTracker`, `Template` and `Modify`, `Mutators`,
`Health` and `Status`, the abstract `Finalization`, `TrackedTypes` and `Converge`, the
composition `Controller`, with the runs and proofs above. To come: `Status` after
the body of `Controller`, and a run of `Controller` without a finalizer, where passes go on
for a CR that is gone or replaced (the proofs cover both).
