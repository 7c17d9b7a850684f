---------------------------- MODULE Controller ----------------------------
(***************************************************************************)
(* A whole controller over the CRs that come and go under one name: module *)
(* Lifecycle, with ReconcileOwnedResources in the place of "continue" (the *)
(* composition of src/test/test_controller.go).                            *)
(*                                                                         *)
(* What the owned resource is for here is whose it is: the owner reference *)
(* holds the uid of the CR, by which the garbage collector goes, and its   *)
(* kind and name, by which the watch and the pruner go.  One resource of   *)
(* one type shows that; its content is left to OwnedResources and Modify.  *)
(* As there, `res` holds the versions of the resource from the cached one  *)
(* (its head) to the one in the API server (its last).  Dynamic watches    *)
(* and the pruner are on, as they are by default.                          *)
(***************************************************************************)
EXTENDS Lifecycle

CONSTANTS
  Wanted,  \* what the CR asks for, by its revision
  MaxLag   \* bound: versions the cache is behind when garbage is collected

\* As in OwnedResources: there is a template for the resource, a disabled one,
\* or none in the list.
Mode == {"enabled", "disabled", "absent"}

ASSUME ControllerAssumption ==
  Wanted \in [0..MaxVersions -> Mode] /\ MaxLag \in Nat \ {0}

VARIABLES
  res,      \* versions of the resource, from the cached one to the newest
  at,       \* where ReconcileOwnedResources is
  again,    \* its local requeue: a type was tracked
  tracked   \* the type is in seenTypes, and watched

owned == <<res, at, again, tracked>>
allVars == <<vars, owned>>

\* The owner is the uid in the owner reference, 0 when there is none.
Resource == [there : BOOLEAN, owner : Nat, deleting : BOOLEAN]
NoRes == [there |-> FALSE, owner |-> 0, deleting |-> FALSE]

Cached == Head(res)
Api == Last(res)
Exists(r) == r.there

ControllerInit ==
  /\ Init
  /\ res = <<NoRes>>
  /\ at = "template" /\ again = FALSE /\ tracked = FALSE

---------------------------------------------------------------------------
(* The API server, its garbage collector, and the cache *)

Store(r) == res' = Append(res, r)

\* A delete removes the resource, or marks it when it has finalizers.
Delete ==
  IF Api.deleting THEN UNCHANGED res
  ELSE Store(NoRes) \/ Store([Api EXCEPT !.deleting = TRUE])

\* The owner is not in the API server, by its uid, or waits with the
\* finalizer foregroundDeletion.
Condemned ==
  /\ Exists(Api) /\ Api.owner # 0 /\ ~Api.deleting
  /\ cr.uid # Api.owner \/ (cr.deleting /\ cr.other)

GarbageCollect ==
  /\ Len(res) <= MaxLag
  /\ Condemned
  /\ Delete
  /\ UNCHANGED <<vars, at, again, tracked>>

\* The finalizers of a resource that is being deleted are removed.
Reap ==
  /\ Api.deleting
  /\ Store(NoRes)
  /\ UNCHANGED <<vars, at, again, tracked>>

\* Mutant: the event is for the owner of that uid.
RaisesForUid ==
  tracked /\ log[synced].uid # 0 /\ \E i \in 1..2 : res[i].owner = log[synced].uid

\* EnqueueRequestForOwner enqueues the owner's name, whoever has it now.
Raises == tracked /\ \E i \in 1..2 : res[i].owner # 0

ResourceSync ==
  /\ Len(res) > 1
  /\ res' = Tail(res)
  /\ IF Raises THEN OwnedChanged ELSE UNCHANGED vars
  /\ UNCHANGED <<at, again, tracked>>

---------------------------------------------------------------------------
(* ReconcileOwnedResources *)

In(p) == pc = "continue" /\ at = p

mode == Wanted[obj.rev]

\* The pass goes on.
Goto(p) ==
  /\ at' = p
  /\ UNCHANGED vars

\* Mutant: the flag outlives the pass.
LeaveAgain ==
  /\ at' = "template"
  /\ UNCHANGED <<again, log, synced, read, fn, done, faults>>

\* The local variables of the pass are gone.
Leave ==
  /\ at' = "template" /\ again' = FALSE
  /\ UNCHANGED <<log, synced, read, fn, done, faults>>

Fail ==
  /\ Requeue /\ Leave
  /\ UNCHANGED <<res, tracked>>

\* CreateOrModify reads the live state and decides what to do; the owner
\* reference of a resource that is there is not looked at.
GetLive ==
  /\ In("template")
  /\ Goto(IF mode = "enabled"
            THEN IF Exists(Cached) THEN "track" ELSE "create"
            ELSE IF mode = "disabled" /\ Exists(Cached) THEN "remove" ELSE "list")
  /\ UNCHANGED <<res, again, tracked>>

\* Mutant: SetControllerReference is forgotten.
NotOwned == [there |-> TRUE, owner |-> 0, deleting |-> FALSE]

\* What SetControllerReference makes of the desired resource.
Owned == [there |-> TRUE, owner |-> obj.uid, deleting |-> FALSE]

Create ==
  /\ In("create")
  /\ IF Exists(Api)
       THEN Fail
       ELSE Store(Owned) /\ Goto("track") /\ UNCHANGED <<again, tracked>>

\* The disabled template.
RemoveDisabled ==
  /\ In("remove")
  /\ IF Exists(Api)
       THEN Delete /\ Goto("list") /\ UNCHANGED <<again, tracked>>
       ELSE Fail

Track ==
  /\ In("track")
  /\ tracked' = TRUE /\ again' = (again \/ ~tracked)
  /\ Goto("list")
  /\ UNCHANGED res

\* pruneOrphaned goes by the kind and the name of the owner.
Orphaned == Cached.owner # 0 /\ ~Cached.deleting /\ mode # "enabled"

List ==
  /\ In("list")
  /\ Goto(IF tracked /\ Orphaned THEN "delete" ELSE "end")
  /\ UNCHANGED <<res, again, tracked>>

DeleteOrphan ==
  /\ In("delete")
  /\ IF Exists(Api)
       THEN Delete /\ Goto("end") /\ UNCHANGED <<again, tracked>>
       ELSE Fail

\* Mutant: another pass at once, which is none of the workqueue.
EndAndRepeat ==
  /\ In("end")
  /\ pc' = IF again THEN "get" ELSE "idle"
  /\ UNCHANGED queued
  /\ Leave
  /\ UNCHANGED <<res, tracked>>

\* Mutant: no other pass for a type that was just tracked.
EndForGood ==
  /\ In("end")
  /\ Return /\ Leave
  /\ UNCHANGED <<res, tracked>>

\* Continue, or ReturnAndRequeue when a type was tracked in this pass.
EndPass ==
  /\ In("end")
  /\ IF again THEN Requeue ELSE Return
  /\ Leave
  /\ UNCHANGED <<res, tracked>>

ReconcileOwned ==
  \/ GetLive \/ Create \/ RemoveDisabled \/ Track
  \/ List \/ DeleteOrphan \/ EndPass

ManageLifecycle ==
  /\ \/ Pop
     \/ GetNotFound \/ GetBeingDeleted \/ GetUninitialized \/ GetInitialized
     \/ Initialize \/ RunFinalizationFn \/ Release
  /\ UNCHANGED owned

ControllerWork == ManageLifecycle \/ ReconcileOwned

---------------------------------------------------------------------------
(* Faults *)

\* Only a call can fail: at "track" it is the one that watches the type.
AnyCallFails ==
  /\ pc = "continue" => at # "end" /\ (at = "track" => ~tracked)
  /\ CallFails
  /\ at' = "template" /\ again' = FALSE
  /\ UNCHANGED <<res, tracked>>

\* A write takes effect, but the worker gets an error.
WriteReplyLost ==
  /\ Fault
  /\ \/ In("create") /\ ~Exists(Api) /\ Store(Owned)
     \/ (In("remove") \/ In("delete")) /\ Exists(Api) /\ Delete
  /\ Requeue
  /\ at' = "template" /\ again' = FALSE
  /\ UNCHANGED <<log, synced, read, fn, done, tracked>>

\* The caches are filled anew and the tracker is empty.
ControllerRestart ==
  /\ Restart
  /\ res' = <<Api>>
  /\ at' = "template" /\ again' = FALSE /\ tracked' = FALSE

ControllerNext ==
  \/ (Env \/ CacheSync \/ ReplyLost) /\ UNCHANGED owned
  \/ GarbageCollect \/ Reap \/ ResourceSync
  \/ ControllerWork
  \/ AnyCallFails \/ WriteReplyLost \/ ControllerRestart

ControllerSpec == ControllerInit /\ [][ControllerNext]_allVars

\* As in Lifecycle, and Kubernetes collects its garbage.
ControllerFairness ==
  /\ WF_allVars(ControllerWork)
  /\ WF_allVars(CacheSync /\ UNCHANGED owned)
  /\ WF_allVars(ResourceSync) /\ WF_allVars(GarbageCollect)

FairController == ControllerSpec /\ ControllerFairness

---------------------------------------------------------------------------
(* Properties *)

ControllerTypeOK ==
  /\ TypeOK
  /\ res \in Seq(Resource) /\ Len(res) > 0
  /\ at \in {"template", "create", "remove", "track", "list", "delete", "end"}
  /\ pc # "continue" => at = "template" /\ ~again
  /\ again \in BOOLEAN /\ tracked \in BOOLEAN

\* What the theorems about Lifecycle say is true of the whole controller:
\* ReconcileOwnedResources, seen from there, is one step that touches neither
\* the CR nor its finalization.
ImplementsLifecycle == Spec

\* With the finalizer, a resource is only ever created for the CR that the
\* API server has, and before the first of its finalization functions took
\* effect: what these clean up does not come back, although each pass works
\* on a cached CR.
CreatedForTheLiving ==
  [][UseFinalizer /\ ~Exists(Api) /\ Exists(Api') =>
       /\ Api'.owner = cr.uid
       /\ \A f \in Fns : <<cr.uid, f>> \notin done]_allVars

\* The resource is as the CR asks for, and its own, or about to go.  As in
\* OwnedResources: after a fault, what should be gone is only accounted for if
\* its type is tracked, as nothing else looks for it or raises a pass for it.
InLine ==
  LET wanted == Wanted[cr.rev] IN
  /\ wanted = "enabled" => Exists(Api) /\ (Api.owner = cr.uid \/ Api.deleting)
  /\ wanted # "enabled" /\ (tracked \/ faults = 0)
        => ~Exists(Api) \/ Api.deleting

AtRest ==
  /\ pc = "idle" /\ ~queued
  /\ synced = Len(log) /\ Len(res) = 1
  /\ ~Condemned

\* With no pass due, the caches current and no garbage to collect, a CR that is
\* not being deleted has what it asks for, whatever its predecessors left and
\* whenever the type came to be watched; and without a CR nothing is left.
RestsServed ==
  /\ AtRest /\ cr.uid # 0 /\ ~cr.deleting => InLine
  /\ AtRest /\ cr.uid = 0 => ~Exists(Api) \/ Api.deleting

\* A CR is served whatever was left by another of its name: in the end it has
\* the resource it asks for, owned by itself, though the passes take that of
\* its predecessor for its own until the garbage collector removes it; or has
\* none if it asks for none, as far as InLine goes.
SuccessorIsServed ==
  <>[](cr.uid # 0 /\ ~cr.deleting) => <>[]InLine

\* ... and when the last CR is gone, so is its resource, which a pass may
\* have written after the CR went.
NothingIsLeft ==
  <>[](cr.uid = 0) => <>[](~Exists(Api) \/ Api.deleting)

===========================================================================
