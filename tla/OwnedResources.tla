-------------------------- MODULE OwnedResources --------------------------
(***************************************************************************)
(* Reconciler.ReconcileOwnedResources (src/reconciler/reconciler.go) for   *)
(* one custom resource (CR) that lives on: the loop over the templates     *)
(* with resource.CreateOrModify, the tracking of their types, the dynamic  *)
(* watches and the pruner.                                                 *)
(*                                                                         *)
(* The API server and the caches of the manager are the two ends of a      *)
(* queue of versions: `spec` for the CR, `feed[t]` for the resources of    *)
(* type t, one snapshot of the type's resources per version.  The head is  *)
(* what the cache holds, the last is what the API server has; SpecSync and *)
(* TypeSync deliver the next version and raise the watch events.           *)
(*                                                                         *)
(* A resource is abstracted to its ensured content (one value), whether    *)
(* the CR is its controller owner, and whether it is being deleted; what   *)
(* normalisation makes of the content is module Modify.  The content of    *)
(* the templates is a function of the CR, `spec`; their order is open.     *)
(***************************************************************************)
EXTENDS Naturals, Sequences, SequencesExt

CONSTANTS
  Keys,            \* the resources (type, namespace and name) templates are about
  Types,           \* their types (GVKs)
  TypeOf,          \* [Keys -> Types]
  Vals, NoVal,     \* contents of a resource, and that of one that is not there
  Specs,           \* what the user may ask for
  ModifyOp,        \* [Keys -> {"Update", "Patch"}]: the ModifyOp of the templates
  DynamicWatches,  \* config.AreDynamicWatchesEnabled()
  Foreign,         \* others may create resources under a template's name
  MaxEdits,        \* bound: edits of the CR
  MaxDrifts,       \* bound: changes others make to the resources
  MaxFaults        \* bound: failed calls, lost replies and restarts

\* mode[k] is "absent" when no template for k is in the list that is passed,
\* "disabled" when template.Enabled() is false; prune is isPrunerEnabled(owner).
Mode == {"enabled", "disabled", "absent"}
Spec_ == [mode : [Keys -> Mode], val : Vals, prune : BOOLEAN]

ASSUME OwnedResourcesAssumption ==
  /\ TypeOf \in [Keys -> Types]
  /\ NoVal \notin Vals
  /\ Specs \subseteq Spec_ /\ Specs # {}
  /\ ModifyOp \in [Keys -> {"Update", "Patch"}]
  /\ DynamicWatches \in BOOLEAN /\ Foreign \in BOOLEAN
  /\ MaxEdits \in Nat /\ MaxDrifts \in Nat /\ MaxFaults \in Nat

VARIABLES
  spec,       \* versions of the CR, from the cached one to the newest
  feed,       \* feed[t]: versions of the resources of type t, likewise
  queued,     \* the CR's key is in the workqueue
  pc,         \* what the worker does next
  snap,       \* the version of the CR that it reconciles
  todo,       \* templates it has not yet dealt with
  cur,        \* the template it is at
  fresh,      \* nobody wrote cur's resource since the version it got
  managed,    \* managedResources
  requeue,    \* a type was tracked in this pass
  seenTypes,  \* the type tracker
  toPrune,    \* types whose resources are still to be listed
  toDelete,   \* resources of the list that are still to be deleted
  edits, drifts, faults

local == <<pc, snap, todo, cur, managed, requeue, toPrune, toDelete>>
budget == <<edits, drifts, faults>>
vars == <<spec, feed, queued, local, fresh, seenTypes, budget>>

Obj == [val : Vals \union {NoVal}, owned : BOOLEAN, deleting : BOOLEAN]
NoObj == [val |-> NoVal, owned |-> FALSE, deleting |-> FALSE]

KeysOf(t) == {k \in Keys : TypeOf[k] = t}

Cached(k) == Head(feed[TypeOf[k]])[k]
Api(k) == Last(feed[TypeOf[k]])[k]

Exists(o) == o # NoObj

\* No version of resource k is on its way to the cache.
QuietIn(s, k) == \A i \in DOMAIN s : s[i][k] = Last(s)[k]
Quiet(k) == QuietIn(feed[TypeOf[k]], k)

Init ==
  /\ \E s \in Specs : spec = <<s>> /\ snap = s
  /\ feed = [t \in Types |-> <<[k \in Keys |-> NoObj]>>]
  /\ queued = TRUE
  /\ pc = "idle"
  /\ todo = {} /\ cur \in Keys /\ fresh = FALSE
  /\ managed = {} /\ requeue = FALSE
  /\ seenTypes = {} /\ toPrune = {} /\ toDelete = {}
  /\ edits = 0 /\ drifts = 0 /\ faults = 0

---------------------------------------------------------------------------
(* The API server and the caches *)

\* Write(k, o) stores o under k: a new version of the type, unless nothing
\* changes.
Write(k, o) ==
  IF o = Api(k)
    THEN UNCHANGED <<feed, fresh>>
    ELSE /\ feed' = [feed EXCEPT ![TypeOf[k]] =
                       Append(@, [Last(@) EXCEPT ![k] = o])]
         /\ fresh' = (fresh /\ k # cur)

\* A delete removes the resource, or marks it when it has finalizers; it
\* changes nothing when the resource is marked already.
Delete(k) ==
  \/ ~Api(k).deleting /\ Write(k, NoObj)
  \/ Write(k, [Api(k) EXCEPT !.deleting = TRUE])

SpecSync ==
  /\ Len(spec) > 1
  /\ spec' = Tail(spec)
  /\ queued' = TRUE
  /\ UNCHANGED <<feed, local, fresh, seenTypes, budget>>

\* EnqueueRequestForOwner with OnlyControllerOwner, on a watched type.
Raises(t, old, new) ==
  /\ DynamicWatches /\ t \in seenTypes
  /\ \E k \in KeysOf(t) : old[k] # new[k] /\ (old[k].owned \/ new[k].owned)

TypeSync(t) ==
  /\ Len(feed[t]) > 1
  /\ feed' = [feed EXCEPT ![t] = Tail(@)]
  /\ queued' = (queued \/ Raises(t, feed[t][1], feed[t][2]))
  /\ UNCHANGED <<spec, local, fresh, seenTypes, budget>>

---------------------------------------------------------------------------
(* The user and others *)

UserEdit ==
  /\ edits < MaxEdits
  /\ edits' = edits + 1
  /\ \E s \in Specs \ {Last(spec)} : spec' = Append(spec, s)
  /\ UNCHANGED <<feed, queued, local, fresh, seenTypes, drifts, faults>>

\* Somebody else changes a resource, deletes it, or creates one of that name.
Drift(k) ==
  /\ drifts < MaxDrifts
  /\ drifts' = drifts + 1
  /\ \/ /\ Exists(Api(k))
        /\ \E v \in Vals \ {Api(k).val} : Write(k, [Api(k) EXCEPT !.val = v])
     \/ Exists(Api(k)) /\ ~Api(k).deleting /\ Delete(k)
     \/ /\ Foreign /\ ~Exists(Api(k))
        /\ \E v \in Vals : Write(k, [NoObj EXCEPT !.val = v])
  /\ UNCHANGED <<spec, queued, local, seenTypes, edits, faults>>

\* The finalizers of a resource that is being deleted are removed.
Reap(k) ==
  /\ Api(k).deleting
  /\ Write(k, NoObj)
  /\ UNCHANGED <<spec, queued, local, seenTypes, budget>>

---------------------------------------------------------------------------
(* The worker *)

\* The local variables of the pass are gone.
Return ==
  /\ pc' = "idle"
  /\ todo' = {} /\ managed' = {} /\ requeue' = FALSE
  /\ toPrune' = {} /\ toDelete' = {}
  /\ UNCHANGED <<snap, cur>>

\* Result{Error}: the controller retries the key with backoff.
Error ==
  /\ Return
  /\ queued' = TRUE

\* Continue, or ReturnAndRequeue when a type was tracked in this pass.
Finish ==
  /\ Return
  /\ queued' = (queued \/ requeue)

Pop ==
  /\ pc = "idle" /\ queued
  /\ queued' = FALSE
  /\ pc' = "start"
  /\ UNCHANGED <<spec, feed, snap, todo, cur, fresh, managed, requeue,
                 seenTypes, toPrune, toDelete, budget>>

\* Mutant: the pass goes by the version of the pass before.
StartWithOldSpec ==
  /\ pc = "start"
  /\ pc' = "template"
  /\ todo' = {k \in Keys : snap.mode[k] # "absent"}
  /\ managed' = {} /\ requeue' = FALSE
  /\ UNCHANGED <<spec, feed, queued, snap, cur, fresh, seenTypes, toPrune,
                 toDelete, budget>>

\* The CR is read from the cache, and the list of templates built from it.
Start ==
  /\ pc = "start"
  /\ pc' = "template"
  /\ snap' = Head(spec)
  /\ todo' = {k \in Keys : Head(spec).mode[k] # "absent"}
  /\ managed' = {} /\ requeue' = FALSE
  /\ UNCHANGED <<spec, feed, queued, cur, fresh, seenTypes, toPrune, toDelete,
                 budget>>

\* CreateOrModify reads the live state and decides what to do.
Decide(k) ==
  LET enabled == snap.mode[k] = "enabled" IN
  IF Exists(Cached(k))
    THEN IF ~enabled THEN "remove"
         ELSE IF Cached(k).val # snap.val THEN "modify" ELSE "track"
    ELSE IF enabled THEN "create" ELSE "skip"

GetLive(k) ==
  /\ pc = "template" /\ k \in todo
  /\ cur' = k
  /\ fresh' = Quiet(k)
  /\ pc' = Decide(k)
  /\ UNCHANGED <<spec, feed, queued, snap, todo, managed, requeue, seenTypes,
                 toPrune, toDelete, budget>>

\* A disabled template: CreateOrModify returns no reference.
NotManaged ==
  /\ pc' = "template"
  /\ todo' = todo \ {cur}
  /\ UNCHANGED <<queued, snap, cur, managed, requeue, toPrune, toDelete>>

Skip ==
  /\ pc = "skip"
  /\ NotManaged
  /\ UNCHANGED <<spec, feed, fresh, seenTypes, budget>>

\* CreateOrModify wrote the resource and returns its reference.
Written ==
  /\ pc' = "track"
  /\ UNCHANGED <<queued, snap, todo, cur, managed, requeue, toPrune, toDelete>>

\* Each write: what it stores, when the API server accepts it.
NewObj == [val |-> snap.val, owned |-> TRUE, deleting |-> FALSE]

CanCreate == ~Exists(Api(cur))
CanModify == IF ModifyOp[cur] = "Update" THEN fresh ELSE Exists(Api(cur))
CanRemove(k) == Exists(Api(k))

\* Mutant: when a Create fails, the loop goes on with the next template.
CreateOrGoOn ==
  /\ pc = "create"
  /\ IF CanCreate THEN Write(cur, NewObj) /\ Written
                  ELSE UNCHANGED <<feed, fresh>> /\ NotManaged
  /\ UNCHANGED <<spec, seenTypes, budget>>

Create ==
  /\ pc = "create"
  /\ IF CanCreate THEN Write(cur, NewObj) /\ Written
                  ELSE UNCHANGED <<feed, fresh>> /\ Error
  /\ UNCHANGED <<spec, seenTypes, budget>>

Modify ==
  /\ pc = "modify"
  /\ IF CanModify
       THEN Write(cur, [Api(cur) EXCEPT !.val = snap.val]) /\ Written
       ELSE UNCHANGED <<feed, fresh>> /\ Error
  /\ UNCHANGED <<spec, seenTypes, budget>>

\* Mutant: a disabled template returns the reference of what it removed.
RemoveAndReturn ==
  /\ pc = "remove"
  /\ IF CanRemove(cur) THEN Delete(cur) /\ Written
                       ELSE UNCHANGED <<feed, fresh>> /\ Error
  /\ UNCHANGED <<spec, seenTypes, budget>>

RemoveDisabled ==
  /\ pc = "remove"
  /\ IF CanRemove(cur) THEN Delete(cur) /\ NotManaged
                       ELSE UNCHANGED <<feed, fresh>> /\ Error
  /\ UNCHANGED <<spec, seenTypes, budget>>

\* Mutant: no other pass for a type that was just tracked.
TrackWithoutRequeue ==
  /\ seenTypes' = seenTypes \union {TypeOf[cur]}
  /\ UNCHANGED requeue

\* Mutant: another pass for every reference.
TrackAndRequeue ==
  /\ seenTypes' = seenTypes \union {TypeOf[cur]}
  /\ requeue' = TRUE

\* The reference joins managedResources; a type that is not tracked is
\* watched, tracked, and asks for another pass.
TrackNew ==
  /\ seenTypes' = seenTypes \union {TypeOf[cur]}
  /\ requeue' = (requeue \/ TypeOf[cur] \notin seenTypes)

Track ==
  /\ pc = "track"
  /\ pc' = "template"
  /\ todo' = todo \ {cur}
  /\ managed' = managed \union {cur}
  /\ TrackNew
  /\ UNCHANGED <<spec, feed, queued, snap, cur, fresh, toPrune, toDelete,
                 budget>>

AllTemplatesDone == pc = "template" /\ todo = {}

StartPrune ==
  /\ AllTemplatesDone /\ snap.prune
  /\ pc' = "prune"
  /\ toPrune' = seenTypes
  /\ UNCHANGED <<spec, feed, queued, snap, todo, cur, fresh, managed, requeue,
                 seenTypes, toDelete, budget>>

\* With the pruner disabled, and after the pruner.
EndPass ==
  /\ \/ AllTemplatesDone /\ ~snap.prune
     \/ pc = "prune" /\ toPrune = {}
  /\ Finish
  /\ UNCHANGED <<spec, feed, fresh, seenTypes, budget>>

\* pruneOrphaned lists the resources of one tracked type, from the cache.
Orphaned(k) ==
  Cached(k).owned /\ ~Cached(k).deleting /\ k \notin managed

PruneList(t) ==
  /\ pc = "prune" /\ t \in toPrune
  /\ pc' = "delete"
  /\ toPrune' = toPrune \ {t}
  /\ toDelete' = {k \in KeysOf(t) : Orphaned(k)}
  /\ UNCHANGED <<spec, feed, queued, snap, todo, cur, fresh, managed, requeue,
                 seenTypes, budget>>

\* It deletes by name: what the API server has under it, if anything.
PruneDelete(k) ==
  /\ pc = "delete" /\ k \in toDelete
  /\ IF CanRemove(k)
       THEN /\ Delete(k)
            /\ toDelete' = toDelete \ {k}
            /\ UNCHANGED <<queued, pc, snap, todo, cur, managed, requeue,
                           toPrune>>
       ELSE UNCHANGED <<feed, fresh>> /\ Error
  /\ UNCHANGED <<spec, seenTypes, budget>>

PruneNext ==
  /\ pc = "delete" /\ toDelete = {}
  /\ pc' = "prune"
  /\ UNCHANGED <<spec, feed, queued, snap, todo, cur, fresh, managed, requeue,
                 seenTypes, toPrune, toDelete, budget>>

Work ==
  \/ Pop \/ Start
  \/ \E k \in Keys : GetLive(k)
  \/ Skip \/ Create \/ Modify \/ RemoveDisabled \/ Track
  \/ StartPrune \/ EndPass
  \/ \E t \in Types : PruneList(t)
  \/ \E k \in Keys : PruneDelete(k)
  \/ PruneNext

---------------------------------------------------------------------------
(* Faults *)

Fault == faults < MaxFaults /\ faults' = faults + 1

\* Only a call can fail: at "track" it is the one that watches the type.
Calls ==
  \/ pc \in {"start", "template", "create", "modify", "remove",
             "prune", "delete"}
  \/ pc = "track" /\ DynamicWatches /\ TypeOf[cur] \notin seenTypes

CallFails ==
  /\ Fault
  /\ Calls
  /\ Error
  /\ UNCHANGED <<spec, feed, fresh, seenTypes, edits, drifts>>

\* A write takes effect, but the worker gets an error.
ReplyLost ==
  /\ Fault
  /\ \/ pc = "create" /\ CanCreate /\ Write(cur, NewObj)
     \/ pc = "modify" /\ CanModify /\ Write(cur, [Api(cur) EXCEPT !.val = snap.val])
     \/ pc = "remove" /\ CanRemove(cur) /\ Delete(cur)
     \/ pc = "delete" /\ \E k \in toDelete : CanRemove(k) /\ Delete(k)
  /\ Error
  /\ UNCHANGED <<spec, seenTypes, edits, drifts>>

\* The controller restarts: the caches are filled anew, the type tracker is
\* empty, and the CR is enqueued.
Restart ==
  /\ Fault
  /\ spec' = <<Last(spec)>>
  /\ feed' = [t \in Types |-> <<Last(feed[t])>>]
  /\ seenTypes' = {}
  /\ Error
  /\ UNCHANGED <<fresh, edits, drifts>>

Env == UserEdit \/ \E k \in Keys : Drift(k) \/ Reap(k)

Sync == SpecSync \/ \E t \in Types : TypeSync(t)

Next == Env \/ Sync \/ Work \/ CallFails \/ ReplyLost \/ Restart

\* controller-runtime keeps its workers running and its informers connected.
Fairness ==
  WF_vars(Work) /\ WF_vars(SpecSync) /\ \A t \in Types : WF_vars(TypeSync(t))

Spec == Init /\ [][Next]_vars

FairSpec == Spec /\ Fairness

---------------------------------------------------------------------------
(* Properties *)

Pc == {"idle", "start", "template", "create", "modify", "remove", "skip",
       "track", "prune", "delete"}

\* The references that a pass returns are of enabled templates, and their types
\* are tracked: those are all that the pruner spares, and looks through.
PassOK ==
  /\ \A k \in managed : snap.mode[k] = "enabled" /\ TypeOf[k] \in seenTypes
  /\ pc \in {"create", "modify", "track"} => snap.mode[cur] = "enabled"

\* Types, and PassOK.
TypeOK ==
  /\ spec \in Seq(Specs) /\ Len(spec) > 0
  /\ feed \in [Types -> Seq([Keys -> Obj])]
  /\ \A t \in Types : Len(feed[t]) > 0
  /\ queued \in BOOLEAN /\ pc \in Pc
  /\ snap \in Specs /\ todo \subseteq Keys /\ cur \in Keys
  /\ fresh \in BOOLEAN /\ managed \subseteq Keys /\ requeue \in BOOLEAN
  /\ seenTypes \subseteq Types /\ toPrune \subseteq Types
  /\ toDelete \subseteq Keys
  /\ edits \in Nat /\ drifts \in Nat /\ faults \in Nat
  /\ PassOK

\* The pruner never deletes a resource whose template is enabled in the CR
\* version at hand, although it works on lists of its own and any template
\* may have failed: one error ends the pass before the pruner starts.
PruneKeepsEnabled ==
  \A k \in toDelete : snap.mode[k] # "enabled"

Idle == pc = "idle" /\ ~queued
Synced == Len(spec) = 1 /\ \A t \in Types : Len(feed[t]) = 1
want == Last(spec)

\* The type of k is tracked, or no fault can have left a resource in it.  After
\* one, nothing may ever tell of a resource whose type is not tracked: of one
\* whose Create was the fault, when its template was disabled before the cache
\* had it (CreateOrModify skips it, and the late version raises no event), and
\* of one that no template names any more (NoOrphans).
Accounted(k) == TypeOf[k] \in seenTypes \/ faults = 0

\* What a pass leaves behind.
Settled(k) ==
  /\ want.mode[k] = "enabled" => Exists(Api(k)) /\ Api(k).val = want.val
  /\ want.mode[k] = "disabled" /\ Accounted(k) =>
       ~Exists(Api(k)) \/ Api(k).deleting
  /\ want.mode[k] = "absent" /\ want.prune /\ Accounted(k) =>
       ~Api(k).owned \/ Api(k).deleting

\* Once the controller has nothing to do and no event is under way, the
\* resources are what the CR asks for, but for those that are not Accounted:
\* no other change, of the user or of others, is missed, although every
\* decision was taken on cached versions and the watch on a type only starts
\* after its first resource was written.
NoLostWakeup == Idle /\ Synced => \A k \in Keys : Settled(k)

\* The controller comes to rest: passes, conflicts, retries and the events of
\* its own writes do not feed on each other for ever.
ComesToRest == <>[]Idle

\* Of the type tracker, a pass uses what TypeTracker implements for any
\* interleaving of workers: watched and tracked, types stay so.
Promise == INSTANCE TrackedTypes
             WITH tracked <- seenTypes,
                  watched <- IF DynamicWatches THEN seenTypes ELSE {}

KeepsPromise == Promise!Spec

\* Seen from outside, the resources change as module Converge says: towards a
\* version of the CR that the cache has not left behind, or that the pass under
\* way began with, and the controller rests only with the newest attained, as
\* far as its types are tracked.
InPass == pc \notin {"idle", "start"}

Convergence == INSTANCE Converge
                 WITH newest <- want,
                      window <- Range(spec) \union (IF InPass THEN {snap} ELSE {}),
                      have <- [k \in Keys |-> Api(k)],
                      tracked <- seenTypes,
                      calm <- Idle /\ Synced

Converges == Convergence!Spec

\* What the documentation says of the pruner: a resource owned by the CR that
\* no template names is deleted.
NoOrphans ==
  Idle /\ Synced /\ want.prune =>
    \A k \in Keys : want.mode[k] = "absent" => ~Api(k).owned \/ Api(k).deleting

===========================================================================
